SPECIFICATION MCFairSpec
CONSTANTS
  Creators = {a1, a2}
  Carriers = {c1}
  TestMode = TRUE
  Messages = {m1, m2}
  Events = {mailable, unknown, invalid}
  Malformed = Malformed
  Unhandled = {unknown}
  Invalid = {invalid}
  Lambdas = {l1, l2}
  BatchSize = 2
  MaxReceives = 3
CHECK_DEADLOCK FALSE
INVARIANTS
  HistoryTold
  SuccessMeansDelivered
  EmailAccounted
  RetriesHaveCause
PROPERTIES
  StatusMoves
  RunEnds
  TerminalIsFinal
  MessagesSettle
