SPECIFICATION FairSpec
CONSTANTS
    right = right
    left = left
    Components = {right, left}
    Sources = {"fmdn", "dult"}
    FirstSource = "fmdn"
    BeepCounts = {0, 1, 2}
    MaxRequests = 3
    MaxPresses = 2
    MaxFaults = 1
INVARIANTS
    RingingConsistent
PROPERTIES
    RingingEnds
    RingingIsHeard
