CONSTANTS
    Procs = {p1}
    Requests = {r1}
    Declarations <- AnyDeclaration
    MaxEdits = 1
    MaxCrashes = 1
    Sources = {s1, s2}
    Branches = {b1, b2}
    MaxDeaths = 2
    MaxGates = 2
    MaxTerminals = 2
    MaxChanges = 1
    Isolation = {TRUE, FALSE}
    MergeCommands = {"local", "remote", "cleanup"}
    Habits = {"between", "anytime"}
    Kinds = {"review"}
    MaxPaperEdits = 1
SPECIFICATION ComponentsSpec
CONSTRAINT Focus
INVARIANTS ComponentsTypeOK NothingForgotten RoutedExactlyOnce  ReviewIsEarned RemovedIsMerged
PROPERTIES  HeldForPerson NoWorkLost LandsGated
CHECK_DEADLOCK FALSE
