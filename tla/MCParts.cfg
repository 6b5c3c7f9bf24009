SPECIFICATION Spec
CONSTANTS
    None = None
    u1 = u1
    u2 = u2
    d1 = d1
    d2 = d2
    d3 = d3
    Principals = {u1, u2}
    Dogs = {d1, d2, d3}
    Owner <- Owners
    Requests = {q1, q2}
    MaxAsks = 3
    MaxChanges = 1
    PageFailures = 1
    Alliances = {a1, a2}
    MyDogs = {d1}
    MaxRefreshes = 3
    Tokens = {BONE}
    TokenFee = 1
    DefaultFees = {}
    FineAmounts = TRUE
    MaxBalance = 2
    Asked = {q1}
    MaxQueries = 2
    MaxSends = 1
    PageLimit = 4
    RowsOptions = {1, 2}
    FirstRows = 1
    MaxBlocks = 5
    MaxTurns = 3
    Decimals = 12
    DefaultDecimals = 8
    RankedAlliances = {a1}
    Top = 1
    MaxLog = 2
    MaxUpgrades = 1
    MaxMoves = 1
    MaxCalcs = 1
    MaxMounts = 1
    Contents = {"failed", "done"}
    BarTicks = 5
    HideTicks = 7
    MaxPosts = 3
    Bits = 7
    Unit = 100
    GridBits = 14
    Fee = 3
    MaxUnits = 600
    N = 4
    Shapes <- AllShapes
    MaxPrepares = 2
    MaxRetries = 2
    MaxFailures = 2
    Ticks = {q1, q2}
    Verifies = {u1}
    Difficulties = {6, 7}
    MaxFinds = 1
    MaxShifts = 2
    FeedFailures = 1
    Slots = {q1, q2}
    TopUps = {1, 3, 4}
    MaxCalls = 3
CHECK_DEADLOCK FALSE
INVARIANTS
    TypeOK
    ListsTrue
    WalletTrue
    DashboardTrue
    BarTellsTime
    SequencesTrue
PROPERTIES
    StepsTrue
    PartsSettle
