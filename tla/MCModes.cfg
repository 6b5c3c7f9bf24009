SPECIFICATION FairSpec
CONSTANTS
    Dogs = {d1}
    Miners = {m1}
    MaxPools = 1
    Slots = {s1}
    CalcSlots = {c1}
    MaxReports = 2
    Budgets <- ModeBudgets
INVARIANTS
    ActiveHasTimers
    AgreeUnlessDisturbed
PROPERTIES
    LowCyclesHalt
    HighCyclesMine
CHECK_DEADLOCK FALSE
