CONSTANTS
    plan = plan
    unit1 = unit1    unit2 = unit2
    path1 = path1    path2 = path2    msg1 = msg1    c1 = c1    c2 = c2
    Plans = {plan}
    Units = {unit1}
    PlanOf <- OnePlan
    Order <- OneUnit
    Allowed <- BothPaths
    NameOrder <- ByName
    PerUnit = {{}}
    Paths = {path1, path2}
    Contents = {absent, c1, c2}
    Original = absent
    Messages = {msg1}
    Cleanup <- StripBlanks
    Trunk = trunk
    Branches = {trunk}
    Procs = {p1}
    InPlace = FALSE
    AllowDirty = FALSE
    AutoResolve = FALSE
    CommitFlags = {TRUE}
    RepairBudget = 1
    MaxAttempts = 0
    MaxRevision = 5
    MaxCrashes = 0
    MaxEdits = 4
    MaxCommits = 2
SPECIFICATION FairSpec
PROPERTY LandedIsRecoverable
CHECK_DEADLOCK FALSE
