CONSTANTS
    plan = plan
    unit1 = unit1    unit2 = unit2
    path1 = path1    path2 = path2    msg1 = msg1    c1 = c1    c2 = c2
    Plans = {plan}
    Units = {unit1}
    PlanOf <- OnePlan
    Order <- OneUnit
    Allowed <- FirstPath
    NameOrder <- ByName
    PerUnit = {{}, {unit1}}
    Paths = {path1, path2}
    Contents = {absent, c1, c2}
    Original = absent
    Messages = {msg1}
    Cleanup <- StripBlanks
    Trunk = trunk
    Branches = {trunk}
    Procs = {p1, p2}
    InPlace = FALSE
    AllowDirty = FALSE
    AutoResolve = TRUE
    CommitFlags = {TRUE}
    RepairBudget = 1
    MaxAttempts = 1
    MaxRevision = 7
    MaxCrashes = 1
    MaxEdits = 2
    MaxCommits = 2
SPECIFICATION Spec
SYMMETRY RaceSymmetry
CONSTRAINT RunOrRace
INVARIANTS TypeOK ReleaseIsExact
CHECK_DEADLOCK FALSE
