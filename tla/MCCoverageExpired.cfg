\* Two users of one chat: one authorization lapses, the other does not.
SPECIFICATION Spec
CONSTANTS
    u1 = u1
    u2 = u2
    c1 = c1
    c2 = c2
    User <- TwoUsers
    Chat <- OneChat
    MaxChanges = 1
    MaxFaults = 1
PROPERTY
    ExpiredStaysExpired
