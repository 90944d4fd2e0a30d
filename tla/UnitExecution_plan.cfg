CONSTANTS
    plan = plan
    unit1 = unit1    unit2 = unit2
    path1 = path1    path2 = path2    msg1 = msg1    c1 = c1    c2 = c2
    Plans = {plan}
    Units = {unit1, unit2}
    PlanOf <- OnePlan
    Order <- TwoUnits
    Allowed <- PathThenBoth
    NameOrder <- ByName
    PerUnit = {{unit1}}
    Paths = {path1, path2}
    Contents = {absent, c1}
    Original = absent
    Messages = {msg1}
    Cleanup <- StripBlanks
    Trunk = trunk
    Branches = {trunk}
    Procs = {p1}
    InPlace = TRUE
    AllowDirty = FALSE
    AutoResolve = TRUE
    CommitFlags = {TRUE, FALSE}
    RepairBudget = 1
    MaxAttempts = 0
    MaxRevision = 5
    MaxCrashes = 1
    MaxEdits = 3
    MaxCommits = 2
SPECIFICATION FairSpec
INVARIANTS OneCommitPerAttempt NoPrematureCompletion InPlanOrder
CHECK_DEADLOCK FALSE
PROPERTY LandedIsAdopted
