SPECIFICATION Spec
CONSTANTS
    s1 = s1  s2 = s2
    Run = {s1, s2}
    MaxSecret = 3
    MaxMeddle = 2
CHECK_DEADLOCK FALSE
SYMMETRY RunSymmetry
INVARIANTS
    TypeOK
    Provisioned
    NeverStuck
    PrintedSecretIsCurrent
    NotAllBeaten
PROPERTY NothingUndone
