\* One application process (SQLite Lite): a single outbox worker.
SPECIFICATION FairSpec
CONSTANTS
    i1 = i1
    i2 = i2
    w1 = w1
    w2 = w2
    Item <- TwoItems
    Worker <- OneWorker
    MaxVersion = 2
    MaxFaults = 2
INVARIANTS
    TypeOK
    NoLostProjection
    QuiescentFresh
    DuplicatesNeedFaults
PROPERTY
    RefinesProjection
