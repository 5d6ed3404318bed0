CONSTANTS
    Lanes = {"release"}
    Plain = {"plain"}
    Commits = 2
    Gates = 1
    Hands = 3
    Migrations = {"m1"}
    Tags = 1
    Samples <- SomeSamples
    CiRuns <- SomeCiRuns
    TreeChanges = 1
    EvRuns = {"r1", "r2"}
    RunTtl = 0
    LogTtl = 1
    FileTtl = 1
    LastDay = 2
    Deaths = 1
SPECIFICATION Spec
INVARIANTS
    AuditedGreenIsProved
    NotRedIsBacked
    QuietAuditPasses
\* A machine may have nothing left to do.
CHECK_DEADLOCK FALSE
