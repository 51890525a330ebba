CONSTANTS
    User = {alice}
    NoUser = NoUser
    Uncached = Uncached
    NoResponse = NoResponse
    MaxImport = 1
SPECIFICATION Spec
PROPERTIES
    SurvivesImport
