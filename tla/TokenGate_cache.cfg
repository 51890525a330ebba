SPECIFICATION Spec
CONSTANTS
    t1 = t1  t2 = t2  k1 = k1  k2 = k2
    Thread = {t1, t2}
    Key = {k1, k2}
    Lifespan = 2
    FetchTime = 1
    Expiry = {2, 9}
    MaxTime = 4
    None = None
SYMMETRY ThreadSymmetry
INVARIANTS
    TypeOK
    WithdrawnKeyDies
    RotationPickedUp
