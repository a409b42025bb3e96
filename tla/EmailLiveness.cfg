SPECIFICATION FairSpec
CONSTANTS
    Workers = {w1}
    Messages = {mail}
    OtherClasses = {general}
    NoWorker = NoWorker
    NoJob = NoJob
    MaxAttempts = 2
PROPERTIES EveryMailIsFiledOrFails
CHECK_DEADLOCK FALSE
