SPECIFICATION FairSpec
CONSTANT MaxRestart = 2
INVARIANT TypeOK
PROPERTIES
    StartedMeansUsable
    RerunDisturbsOnlyLogin
    SummarisedByGateway
    RerunRepairs
