SPECIFICATION Spec
CONSTANTS
    s1 = s1  s2 = s2  pend = pend  eopw = eopw  none = none
    Submitters <- MCSubmitters
    Pend <- pend
    Eop <- eopw
    NoOne <- none
    Addrs <- MCAddrs
    Labels <- MCLabels
    Width = 2
    LabelsApart = TRUE
    MaxSubmits = 2
    MaxWrites = 2
    MaxCopies = 1
PROPERTIES AlwaysInOrder
CHECK_DEADLOCK FALSE
