SPECIFICATION Spec
CONSTANTS
    MaxRuns = 3
    Absent = Absent
    Empty = Empty
INVARIANT RerunIsSafe
