\* One worker, events delivered in order, one failed attempt at the message.
SPECIFICATION Spec
CONSTANTS
    m1 = m1
    u1 = u1
    u2 = u2
    w1 = w1
    w2 = w2
    Message <- OneMessage
    User <- OneUser
    Worker <- OneWorker
    Event <- MessageEvents
    Limit = 2
    MaxFaults = 1
    Direct <- FirstDirect
    ToAll <- NoMessage
    Listening <- NoUser
    Fickle <- NoUser
    Answers <- Internal
    Administered = FALSE
    OrderedDelivery = TRUE
INVARIANT
    RecallHonoured
