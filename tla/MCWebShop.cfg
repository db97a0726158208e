SPECIFICATION Spec
CONSTANTS
    Products = {p1, p2}
    Pays = {1, 2}
    NoCart = NoCart
    None = None
    MaxMoves = 3
    MaxFaults = 1
    Texts = {"", "a", "b"}
    Long = {"a", "b"}
    Lookup <- MCLookup
    Typed = "typed"
    NoAddress = NoAddress
    NoText = NoText
    Saved = {c1, c2}
    New = {n1}
    Expired = {c2}
    Chains = {1, 2, 3}
    NoCard = NoCard
    Values = {"", "a", "b", "b "}
    Trimmed <- MCTrimmed
    NoForm = NoForm
    MaxSaves = 2
    MaxTypes = 2
    MaxHovers = 2
    Numbers <- MCNumbers
    Expiries <- MCExpiries
    Half = 100
    FirstMonth = 24360
    NoBrand = NoBrand
    NoMetadata = NoMetadata
    MaxEdits = 2
    Placed = {o1, o2}
    Foreign = {f1}
    NoOrder = NoOrder
    Loads = {1, 2, 3, 4}
SYMMETRY Alike
CHECK_DEADLOCK FALSE
INVARIANTS
    BoughtOnce
    BasketAgrees
    AddressHonest
    SelectionLives
    FormHonest
    CardFormHonest
    OrderPageHonest
