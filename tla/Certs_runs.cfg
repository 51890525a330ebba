SPECIFICATION Spec
CONSTANTS
    MaxRuns = 4
    Absent = Absent
    Empty = Empty
INVARIANTS
    TypeOK
    EndMeansSound
    RestartSuffices
PROPERTY PlainRunHarmless
