SPECIFICATION Spec
CONSTANTS
    Dogs = {d1, d2}
    Miners = {m1, m2}
    MaxPools = 2
    Slots = {s1, s2}
    CalcSlots = {}
    MaxReports = 1
    Budgets <- CallBudgets
SYMMETRY Symmetric
INVARIANTS
    AllianceListed
    ModeCoherent
    AgreeUnlessDisturbed
    LevelsPaid
    RegistryConsistent
CHECK_DEADLOCK FALSE
