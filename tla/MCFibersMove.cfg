SPECIFICATION Spec
CONSTANTS
    t1 = t1  t2 = t2  t3 = t3  f1 = f1  f2 = f2  f3 = f3  nobody = nobody
    Threads <- MCThreads
    FiberIds <- MCFiberIds
    Nobody <- nobody
    Serial = TRUE
    Handover = FALSE
SYMMETRY MCSymmetry
INVARIANTS SelfIsRunning
CHECK_DEADLOCK FALSE
