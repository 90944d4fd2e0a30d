CONSTANTS
    planA = planA    planB = planB
    unit1 = unit1    unit2 = unit2
    path1 = path1    path2 = path2    msg1 = msg1
    Plans = {planA, planB}
    Units = {unit1, unit2}
    PlanOf <- InOwnPlan
    Allowed <- OwnPath
    Paths = {path1, path2}
    Contents = {absent, c1}
    Original = absent
    Messages = {msg1}
    Cleanup <- StripBlanks
    Trunk = trunk
    Branches = {planA, planB, trunk}
    Procs = {p1}
    FailureClasses = {"environment", "repairable_new_scope"}
    MaxAttempts = 2
    MaxCrashes = 0
    MaxEdits = 1
    MaxCommits = 1
SPECIFICATION Spec
INVARIANT OneInPlacePlan
