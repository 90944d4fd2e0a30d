CONSTANTS
    Procs = {p1, p2}
    Files = {f1, f2}
    Versions = {v1, v2}
    First = v1
    None = None
    MaxEdits = 1
    MaxWrites = 1
    MaxCrashes = 1
SPECIFICATION FairSpec
INVARIANTS TypeOK NoCollision KeyNamesManifest LaunchedAsKeyed
PROPERTIES PublishedIsLeftAlone PreparationEnds
CHECK_DEADLOCK FALSE
