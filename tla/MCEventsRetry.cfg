SPECIFICATION MCSpec
CONSTANTS
  Creators = {}
  Carriers = {}
  TestMode = FALSE
  Messages = {m1}
  Events = {mailable, unknown, invalid}
  Malformed = Malformed
  Unhandled = {unknown}
  Invalid = {invalid}
  Lambdas = {l1}
  BatchSize = 2
  MaxReceives = 3
CHECK_DEADLOCK FALSE
INVARIANT
  TransientIsNotConsumed
