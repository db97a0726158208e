SPECIFICATION FairSpec
CONSTANTS
    Requests = {r1, r2}
    Keys = {k1, k2}
    Products = {1, 2}
    Carts <- MCCarts2
    Prices = {10}
    TaxRate = 800
    Shipping = 1
    InitStock <- MCStock2
    NoOrder = NoOrder
CHECK_DEADLOCK FALSE
INVARIANT
    StockAccounted
PROPERTIES
    Settles
    ImplementsIdealCheckout
