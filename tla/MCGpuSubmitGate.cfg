SPECIFICATION FairSpec
CONSTANTS
    Regions = {r1, r2}
    Hung = {r2}
    Frontends = {f1, f2}
    Drainers = {f1}
    NoOne = NoOne
INVARIANTS Safe
PROPERTIES EveryDrainReturns ImplementsSubmitGate
