\* One application process, one user: failures, restarts, recalls, retention.
SPECIFICATION FairSpec
CONSTANTS
    m1 = m1
    u1 = u1
    u2 = u2
    w1 = w1
    w2 = w2
    Message <- OneMessage
    User <- OneUser
    Worker <- OneWorker
    Event <- Events
    Limit = 2
    MaxFaults = 1
    Direct <- FirstDirect
    ToAll <- NoMessage
    Listening <- NoUser
    Fickle <- NoUser
    Answers <- AnyAnswer
    Administered = TRUE
    OrderedDelivery = FALSE
INVARIANT
    TypeOK
    RecallInOrder
PROPERTIES
    NoStoreWhileQuarantined
    EventsEnd
    EndedStaysEnded
    RefinesMailbox
