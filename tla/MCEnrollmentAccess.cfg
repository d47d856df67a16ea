\* One user of a full installation or two of a local one, two requests and two
\* scans at a time, two consents or renewals, one failure or restart.
SPECIFICATION FairSpec
CONSTANTS
    u1 = u1
    u2 = u2
    x1 = x1
    x2 = x2
    s1 = s1
    s2 = s2
    Staff <- OneUser
    Local <- TwoUsers
    Nobody = Nobody
    Call <- TwoCalls
    Scanner <- TwoScanners
    MaxTokens = 2
    MaxFaults = 1
INVARIANTS
    TypeOK
    NoAccessLeft
    OneFirstUser
    UsedTokensReplaced
PROPERTIES
    OneIdentity
    DisableTakesEffect
    WithdrawalNoticed
