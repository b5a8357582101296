SPECIFICATION Spec
CONSTANTS
    t1 = t1  t2 = t2  t3 = t3  o1 = o1  o2 = o2  none = none
    Threads <- MCThreads
    NoOne <- none
    Objs <- MCObjs
    MaxGen = 2
SYMMETRY MCSymmetry
INVARIANTS CountExact RetiredOnce
PROPERTIES WaitersKeepTheirObject BroadcastNotLost
CHECK_DEADLOCK FALSE
