CONSTANTS
    Migrations = {"m1"}
    Tags = 1
    Samples <- SomeSamples
    CiRuns <- SomeCiRuns
    TreeChanges = 1
SPECIFICATION ReleaseSpec
INVARIANTS
    NotRedIsReversible
\* The tree may have no change left.
CHECK_DEADLOCK FALSE
