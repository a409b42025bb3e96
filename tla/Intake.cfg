SPECIFICATION FairSpec
CONSTANTS
    t1 = t1  t2 = t2  t3 = t3  t4 = t4
    Tasks = {t1, t3, t4}
    SourceOf <- MCSourceOf
    ServerKeys = {"k1", "k2"}
    Fingerprints = {"c1", "c2"}
    Parts = 2
    MaxAttempts = 2
    Clients = {u1, u2}
    Imports = {e1}
    IdemKeys = {"x"}
    Hashes = {"h1", "h2", "h3"}
    Uploads = 1
    PartnerOf <- MCPartnerOf
    NoPartner = NoPartner
    NoDocument = "none"
    MaxFaults = 1
    AdvisoryKey <- MCAdvisoryKey
    MaxKey = 20
    MaxActive = 2
CHECK_DEADLOCK FALSE
INVARIANTS TypeOK NoWaitCycle FreshUnderLocks NothingStrays LossNeedsAnUnsureCommit AnswersMatch
PROPERTIES EverythingEnds ImplementsLedgers
