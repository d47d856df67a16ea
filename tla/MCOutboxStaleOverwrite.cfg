\* Two workers, no failure at all: the slower one writes last.
SPECIFICATION Spec
CONSTANTS
    i1 = i1
    i2 = i2
    w1 = w1
    w2 = w2
    Item <- OneItem
    Worker <- TwoWorkers
    MaxVersion = 2
    MaxFaults = 0
INVARIANT
    QuiescentFresh
