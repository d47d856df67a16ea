\* Two edits in the row, nothing else: does the later one win?
SPECIFICATION FairSpec
CONSTANTS
    MaxChoices = 2
    MaxOthers = 0
INVARIANTS
    LastChoiceWins
