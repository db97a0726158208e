SPECIFICATION FairSpec
CONSTANTS
    Handlers = {h1, h2}
    Amount = 2
CHECK_DEADLOCK FALSE
INVARIANTS
    StatusHappened
    StatusConverges
PROPERTY
    EventsAcknowledged
