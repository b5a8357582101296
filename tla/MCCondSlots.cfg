SPECIFICATION TableSpec
CONSTANTS
    Callers = {t1, t2, t3}
    Conds = {c1, c2}
    Destroyable = {c1, c2}
    Programs <- MCPrograms
    NSlots = 3
    MaxAttempts = 2
    MaxLookups = 2
    Generations = 2
    Free = Free
    SlotRetiring = SlotRetiring
    NoCond = NoCond
INVARIANTS SlotOutlivesUse AloneOneSlot
PROPERTIES NullMeansFull
SYMMETRY MCSymmetry
