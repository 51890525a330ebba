CONSTANTS
    User = {alice}
    NoUser = NoUser
    Uncached = Uncached
    NoResponse = NoResponse
    MaxImport = 1
SPECIFICATION Spec
INVARIANTS
    TypeOK
    PageMeansAsserted
PROPERTIES
    SessionsIndependent
    NoLoop
    SilentSignOn
