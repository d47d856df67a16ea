\* Several application processes on PostgreSQL: two workers share the jobs.
SPECIFICATION Spec
CONSTANTS
    i1 = i1
    i2 = i2
    w1 = w1
    w2 = w2
    Item <- OneItem
    Worker <- TwoWorkers
    MaxVersion = 3
    MaxFaults = 1
SYMMETRY WorkerSymmetry
INVARIANTS
    LostOnlyByFailure
    DuplicatesBounded
