SPECIFICATION MCSpec
CONSTANTS
    Objects = {o1, o2}
    Requests = {r1, r2, r3}
    NoOne = NoOne
    Lifetime = 1
    Calls = {k1}
    Prices = {p1, p2}
    NoPrice = NoPrice
    Horizon = 3
    MaxRounds = 2
    MaxToolCalls = 3
    Uids = {1, 2}
    MaxEpoch = 2
    ListLimit = 1
    MaxFaults = 2
    MaxDepth = 2
    MaxNodes = 5
    MaxCoefficient = 9
    Formulas <- MCFormulas
CHECK_DEADLOCK FALSE
INVARIANTS ServicesTypeOK CostsStayTrue RightMail OperatorsAgree
PROPERTIES ImplementsObjectStore AccessStaysClosed
