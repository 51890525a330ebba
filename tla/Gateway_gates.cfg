SPECIFICATION FairSpec
CONSTANTS
    r1 = r1  r2 = r2  r3 = r3  c1 = c1  c2 = c2  o1 = o1  o2 = o2
    Req = {r1, r2}
    Cred = {c1}
    OrderId = {o1}
    Token <- MCToken
    Input <- GateInput
    Policies <- MCPolicies
    CredTtl = 1
    MaxTime = 1
    None = None
    RootToken = RootToken
    Garbage = Garbage
    NoId = NoId
    UnknownId = UnknownId
    NotAnInt = NotAnInt
    NotAnObject = NotAnObject
INVARIANTS
    TypeOK
    AuditTrail
    GatesBeforeEffects
    VaultHidden
    RefusalIsFinal
PROPERTY EventuallyAnswered
