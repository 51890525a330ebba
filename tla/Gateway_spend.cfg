SPECIFICATION Spec
CONSTANTS
    r1 = r1  r2 = r2  r3 = r3  c1 = c1  c2 = c2  o1 = o1  o2 = o2
    Req = {r1, r2, r3}
    Cred = {c1, c2}
    OrderId = {o1}
    Token <- MCToken
    Input <- SpendInput
    Policies <- Shipped
    CredTtl = 2
    MaxTime = 3
    None = None
    RootToken = RootToken
    Garbage = Garbage
    NoId = NoId
    UnknownId = UnknownId
    NotAnInt = NotAnInt
    NotAnObject = NotAnObject
SYMMETRY SpendSymmetry
INVARIANTS
    DeletionJustified
    OneCredentialEach
PROPERTIES SaidOnce JustInTime
