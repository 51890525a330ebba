SPECIFICATION Spec
CONSTANTS
    s1 = s1  s2 = s2
    Run = {s1, s2}
    MaxSecret = 2
    MaxMeddle = 0
CHECK_DEADLOCK FALSE
INVARIANT PrintedSecretWorks
