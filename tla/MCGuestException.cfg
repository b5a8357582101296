SPECIFICATION FairSpec
CONSTANTS
    Raisers = {r1}
    Targets = {a, b}
    MaxRaises = 2
    MaxSpins = 1
    Modulus = 8
    NoOne = NoOne
INVARIANTS ReportIsTrue ForcedIsExclusive CountMatches
PROPERTIES RaiseReturns AcceptedIsHandled
CHECK_DEADLOCK FALSE
