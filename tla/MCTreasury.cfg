SPECIFICATION Spec
CONSTANTS
    Dogs = {d1, d2}
    RoundSlots = {s1}
    CalcSlots = {}
    Main = main
    Weight <- Copper
    MaxWeight = 1
    mining_output_amount = 4
    reward_rate = 2500
    MAST_OUT_CNT = 2
    FewPerDay = 1
    ManyPerDay = 1
    ManyPerHour = 1
    Quarter = 1
    FortyMinutes = 2
    Hour = 3
    Day = 4
    MaxDifficulty = 8
    MaxOres = 2
PROPERTY
    TreasuryGetsShare
