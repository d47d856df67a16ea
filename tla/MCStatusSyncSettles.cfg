\* Two choices of a value, and a failed projection or a change of the version only.
SPECIFICATION FairSpec
CONSTANTS
    MaxChoices = 2
    MaxOthers = 1
INVARIANTS
    TypeOK
    BehindIsDue
    OnlyLastEditWaits
PROPERTIES
    CalmConverges
    LoneEditArrives
