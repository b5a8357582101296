SPECIFICATION Spec
CONSTANTS
    w1 = w1  w2 = w2  c1 = c1  c2 = c2  t1 = t1  t2 = t2
    video = video  eopw = eopw  user = user  ptrw = ptrw  none = none
    Waiters <- MCWaiters
    Counters <- MCCounters
    Timers <- MCTimers
    Video <- video
    Eop <- eopw
    User <- user
    Ptr <- ptrw
    NoOne <- none
    Mixes <- MCCounterOnly
    Cap = 1
    MaxIdent = 2
    MaxPosts = 3
PROPERTIES KnoteNeverRegresses
CHECK_DEADLOCK FALSE
