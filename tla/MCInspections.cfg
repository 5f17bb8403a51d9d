\* Two units that compete for one place in each cache.
SPECIFICATION Spec
CONSTANTS
    Units = {u1, u2}
    Passing = {u2}
    ShopFloor <- MCShopFloor
    Readers = {r1}
    Operators = {o1}
    ViewCap = 1
    StateCap = 1
    NoOne = NoOne
    ravi = ravi
    aarav = aarav
INVARIANTS ShownIsOnRecord ViewsShowCustody
PROPERTIES CustodyIsKept
