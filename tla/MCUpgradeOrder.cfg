SPECIFICATION Spec
CONSTANTS
    Dogs = {d1}
    Miners = {m1}
    MaxPools = 0
    Slots = {s1, s2}
    CalcSlots = {}
    MaxReports = 1
    Budgets <- UpgradeOnly
SYMMETRY Symmetric
PROPERTIES
    UpgradeRaisesLevel
CHECK_DEADLOCK FALSE
