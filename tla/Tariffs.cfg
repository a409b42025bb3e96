SPECIFICATION FairSpec
CONSTANTS
    Clients = {c1, c2}
    Originals = {a}
    MaxFiles = 2
    Workers = {w1, w2}
    Invoices = {i1}
    NoOne = NoOne
    MaxAttempts = 2
    MaxFailures = 1
    MaxFaults = 2
    MaxBeside = 1
CHECK_DEADLOCK FALSE
INVARIANTS TypeOK LineagesAreChains BytesSurvive NothingStrays OneVerdict SucceededHasVerdict
PROPERTIES DeletedIsFinal StaleChoiceNeedsTheWindow EverythingEnds
