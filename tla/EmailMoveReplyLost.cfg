SPECIFICATION Spec
CONSTANTS
    Workers = {w1, w2}
    Messages = {mail}
    OtherClasses = {general}
    NoWorker = NoWorker
    NoJob = NoJob
    MaxAttempts = 2
SYMMETRY WorkerSymmetry
INVARIANTS RecordedErrorIsRetryable
CHECK_DEADLOCK FALSE
