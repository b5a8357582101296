SPECIFICATION TableSpec
CONSTANTS
    Callers = {t1, t2, t3}
    Conds = {c1}
    Destroyable = {}
    Programs <- MCAll
    NSlots = 2
    MaxAttempts = 2
    MaxLookups = 3
    Generations = 2
    Free = Free
    SlotRetiring = SlotRetiring
    NoCond = NoCond
INVARIANTS OneSlotPerCond
