CONSTANTS
    planA = planA    planB = planB
    unit1 = unit1    unit2 = unit2
    path1 = path1    path2 = path2    msg1 = msg1
    Plans = {planA}
    Units = {unit1, unit2}
    PlanOf <- InPlanA
    Allowed <- Overlapping
    Paths = {path1, path2}
    Contents = {absent, c1}
    Original = absent
    Messages = {msg1, blanks}
    Cleanup <- StripBlanks
    Trunk = trunk
    Branches = {planA, trunk}
    Procs = {p1, p2}
    FailureClasses = {"environment", "repairable_new_scope"}
    MaxAttempts = 2
    MaxCrashes = 0
    MaxEdits = 2
    MaxCommits = 3
SPECIFICATION Spec
SYMMETRY ProcSymmetry
CONSTRAINT Pair
INVARIANTS OneAttemptAtATime NoPrematureCompletion CommitsInScope SharedInScope
