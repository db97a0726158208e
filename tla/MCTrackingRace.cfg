SPECIFICATION MCSpec
CONSTANTS
  Creators = {a1}
  Carriers = {c1, c2}
  TestMode = FALSE
  Messages = {}
  Events = {mailable}
  Malformed = Malformed
  Unhandled = {}
  Invalid = {}
  Lambdas = {}
  BatchSize = 1
  MaxReceives = 1
CHECK_DEADLOCK FALSE
PROPERTIES
  ForwardOnly
