SPECIFICATION OutboxFairSpec
CONSTANTS
  Messages = {1, 2, 3}
  Pollers = {p1, p2}
  BatchSize = 2
  MaxAttempts = 1
CHECK_DEADLOCK FALSE
INVARIANT
    SentAsPromised
PROPERTY
    Drained
