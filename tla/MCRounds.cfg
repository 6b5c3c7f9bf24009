SPECIFICATION Spec
CONSTANTS
    Dogs = {d1, d2}
    RoundSlots = {s1, s2}
    CalcSlots = {}
    Main = main
    Weight <- Mixed
    MaxWeight = 2
    mining_output_amount = 4
    reward_rate = 2500
    MAST_OUT_CNT = 2
    FewPerDay = 1
    ManyPerDay = 1
    ManyPerHour = 1
    Quarter = 1
    FortyMinutes = 2
    Hour = 2
    Day = 3
    MaxDifficulty = 7
    MaxOres = 3
SYMMETRY SlotsAlike
INVARIANTS
    ChainLinked
    RewardBound
    DayCap
    CountsMatchLog
PROPERTIES
    PaidAtMostOnce
    ImplementsChain
