SPECIFICATION Spec
CONSTANTS
    Users = {u1, u2, u3}
    Assets = {a1}
    Keys = {k1, k2}
    Prices = {1}
    Calls = {c1, c2, c3}
    MaxListed = 3
    MaxFaults = 1
    None = None
SYMMETRY Symmetric
INVARIANTS TypeOK SoldOncePerListing SellersOwned OffersByOwner
PROPERTY ImplementsLedger
CHECK_DEADLOCK FALSE
