\* One user of one chat: bot events, scans, callbacks, marks, one failure.
SPECIFICATION FairSpec
CONSTANTS
    u1 = u1
    u2 = u2
    c1 = c1
    c2 = c2
    User <- OneUser
    Chat <- OneChat
    MaxChanges = 3
    MaxFaults = 1
INVARIANTS
    TypeOK
    CoveredMeansPresent
PROPERTY
    ScanRepairs
