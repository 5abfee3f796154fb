SPECIFICATION PoolFairSpec
CONSTANTS
    r1 = r1
    c1 = c1
    Requests = {r1}
    Retryer = Retryer
    Checkers = {c1}
    Pools = {1, 2, 3, 4}
    Size = 2
    NoPool = 0
    NoThread = NoThread
INVARIANTS
    SlotsAccounted
PROPERTIES
    NeverReplaced
    Recovers
    Settles
