\* Two application processes (PostgreSQL), a user who comes and goes.
SPECIFICATION Spec
CONSTANTS
    m1 = m1
    u1 = u1
    u2 = u2
    w1 = w1
    w2 = w2
    Message <- OneMessage
    User <- TwoUsers
    Worker <- TwoWorkers
    Event <- MessageEvents
    Limit = 2
    MaxFaults = 1
    Direct <- FirstDirect
    ToAll <- OneMessage
    Listening <- SecondUser
    Fickle <- SecondUser
    Answers <- Internal
    Administered = FALSE
    OrderedDelivery = FALSE
SYMMETRY WorkerSymmetry
INVARIANT
    NoMentionLost
PROPERTY
    RefinesMailboxSafely
