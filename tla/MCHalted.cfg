SPECIFICATION FairSpec
CONSTANTS
    Dogs = {d1}
    Miners = {m1}
    MaxPools = 0
    Slots = {s1}
    CalcSlots = {c1}
    MaxReports = 1
    Budgets <- OneDog
PROPERTIES
    HaltedMeansLowCycles
CHECK_DEADLOCK FALSE
