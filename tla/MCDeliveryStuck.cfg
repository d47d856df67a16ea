\* One event, another task, one timeout of the receiver and no failure.
SPECIFICATION FairSpec
CONSTANTS
    e1 = e1
    e2 = e2
    t1 = t1
    t2 = t2
    Event <- OneEvent
    Task <- OneTask
    Receiver = Receiver
    MaxSlow = 1
    MaxFaults = 0
PROPERTY
    RedeliveryStores
