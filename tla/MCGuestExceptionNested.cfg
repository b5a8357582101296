SPECIFICATION Spec
CONSTANTS
    Raisers = {r1, r2}
    Targets = {a}
    MaxRaises = 3
    MaxSpins = 1
    Modulus = 8
    NoOne = NoOne
INVARIANTS ExcStackExclusive
CHECK_DEADLOCK FALSE
