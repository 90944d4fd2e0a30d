CONSTANTS
    planA = planA    planB = planB
    unit1 = unit1    unit2 = unit2
    path1 = path1    path2 = path2    msg1 = msg1
    Plans = {planA}
    Units = {unit1}
    PlanOf <- InPlanA
    Allowed <- OwnPath
    Paths = {path1, path2}
    Contents = {absent, c1, c2}
    Original = absent
    Messages = {msg1, blanks}
    Cleanup <- StripBlanks
    Trunk = trunk
    Branches = {planA, trunk}
    Procs = {p1}
    FailureClasses = {"environment", "repairable_new_scope"}
    MaxAttempts = 2
    MaxCrashes = 1
    MaxEdits = 3
    MaxCommits = 2
SPECIFICATION FairSpec
INVARIANTS TypeOK CompletedIsCandidate AtMostOneCommit LandedIsRecognised
PROPERTIES ImplementsTransaction QueueCatchesUp
