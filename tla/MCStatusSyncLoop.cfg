\* Two edits in the row, nothing else: does the table come to rest?
SPECIFICATION FairSpec
CONSTANTS
    MaxChoices = 2
    MaxOthers = 0
PROPERTIES
    Converges
