SPECIFICATION Spec
CONSTANTS
    Threads = {t1, t2, t3}
    NoThread = NoThread
    MaxHolds = 2
    MaxStray = 2
INVARIANTS Safe BalancedNeverRefused
PROPERTIES WriteHoldNotStolen ImplementsUmtx
SYMMETRY Symmetry
