SPECIFICATION Spec
CONSTANTS
    Cycle = 2
    Output = 5
    Width = 2
    MaxLog = 2
    MaxDay = 5
    Supply = 2
    MaxMoves = 2
    MaxFailures = 1
    None = None
    Empty = Empty
    Trap = Trap
INVARIANTS TimeOfHeight NeverUnderstated HalvesOnTime
PROPERTY FiguresCome
CHECK_DEADLOCK FALSE
