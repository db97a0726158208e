SPECIFICATION Spec
CONSTANTS
    Requests = {r1, r2, r3}
    Keys = {k1}
    Products = {1}
    Carts <- MCCarts3
    Prices = {10, 20}
    TaxRate = 800
    Shipping = 1
    InitStock <- MCStock3
    NoOrder = NoOrder
SYMMETRY Sym
CHECK_DEADLOCK FALSE
INVARIANTS
    AnswersStayTrue
    RefundedOrderWasContended
    OrderMatchesCharge
