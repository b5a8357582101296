SPECIFICATION TableSpec
CONSTANTS
    Callers = {t1, t2}
    Conds = {c1}
    Destroyable = {c1}
    Programs <- MCAll
    NSlots = 2
    MaxAttempts = 2
    MaxLookups = 2
    Generations = 2
    Free = Free
    SlotRetiring = SlotRetiring
    NoCond = NoCond
INVARIANTS FreeSlotsAreReset
