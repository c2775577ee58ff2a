SPECIFICATION FairSpec
CONSTANTS
    Tournaments = {t1}
    Pages = {p1, p2}
    Tops = {top}
    Readers = {r1}
    Writers = {x1, x2}
    MaxWrites = 2
    MaxFaults = 1
    None = None
INVARIANTS TypeOK FreshUnlessLeft
PROPERTY EventuallyFresh
CHECK_DEADLOCK FALSE
