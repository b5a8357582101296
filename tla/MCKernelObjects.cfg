SPECIFICATION FairSpec
CONSTANTS
    t1 = t1  t2 = t2  t3 = t3  b1 = b1  b2 = b2  NoOne = NoOne
    Threads <- MCThreads
    Bits <- MCBits
    MaxCount = 2
    Uses <- MCUses
    RacyDelete = FALSE
INVARIANTS FreedOnceUnused NoLostWakeup
PROPERTIES TakenAsReported DeletedIsFreed BoundedWaitReturns
