SPECIFICATION CardFormSpec
CONSTANTS
    Numbers <- MCNumbers
    Expiries <- MCExpiries
    Half = 100
    FirstMonth = 24360
    NoBrand = NoBrand
    NoMetadata = NoMetadata
    MaxEdits = 2
CHECK_DEADLOCK FALSE
INVARIANT
    UnlistedPayable
