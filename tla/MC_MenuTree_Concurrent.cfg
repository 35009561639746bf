CONSTANTS
    m1 = m1
    m2 = m2
    m3 = m3
    k1 = k1
    k2 = k2
    k3 = k3
    t1 = t1
    t2 = t2
    None = None
    Keep = Keep
    MenuIds <- MCTwoMenuIds
    Keys <- MCTwoKeys
    Threads <- MCTwoThreads
    RecursionLimit = 4
SPECIFICATION Spec
INVARIANTS
    CycleWalkMatchesReachability
SYMMETRY MCSymmetryThreads
