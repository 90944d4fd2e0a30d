CONSTANTS
    Attempts <- QuietAndLimited
    SlowAfter = 1
    StalledAfter = 1
    TakeoverAfter = 3
    Grace = 1
    CpuGrain = 2
    RoundTime = 1
    MaxTime = 4
SPECIFICATION FairSpec
INVARIANTS ClosedMeansGone PassIsUndisturbed
PROPERTIES TakeoverIsEarned Ends
CHECK_DEADLOCK FALSE
