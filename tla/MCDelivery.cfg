\* Two events, two other tasks, two timeouts of the receiver and two failures.
SPECIFICATION FairSpec
CONSTANTS
    e1 = e1
    e2 = e2
    t1 = t1
    t2 = t2
    Event <- TwoEvents
    Task <- TwoTasks
    Receiver = Receiver
    MaxSlow = 2
    MaxFaults = 2
INVARIANT
    AckedIsStored
PROPERTIES
    StuckForGood
    StuckByBegin
    StoredUnlessStuck
