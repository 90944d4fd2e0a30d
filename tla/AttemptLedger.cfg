CONSTANTS
    Clients = {c1, c2}
    MaxRev = 3
    MaxKills = 1
    MaxLosses = 1
SPECIFICATION Spec
SYMMETRY ClientSymmetry
CHECK_DEADLOCK FALSE
INVARIANTS TypeOK ReturnedIsKept OneWinner
PROPERTY ImplementsRecord
