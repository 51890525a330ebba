SPECIFICATION Spec
CONSTANTS
    t1 = t1  t2 = t2  t3 = t3  o1 = o1  o2 = o2  o3 = o3  o4 = o4
    Thread = {t1, t2, t3}
    Seed <- MCSeed
    OrderId = {o1, o2, o3, o4}
    None = None
SYMMETRY ThreadSymmetry
INVARIANTS
    TypeOK
    NeverTwice
    RemainingNeverOvercounts
PROPERTY DeletesAtomically
