SPECIFICATION Spec
CONSTANTS
    Requests = {r1, r2}
    Keys = {k1}
    Products = {1, 2}
    Carts <- MCCarts1
    Prices = {10}
    TaxRate = 800
    Shipping = 1
    InitStock <- MCStock
    NoOrder = NoOrder

CHECK_DEADLOCK FALSE
PROPERTY DuplicateNotRefunded
