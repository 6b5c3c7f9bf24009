SPECIFICATION Spec
CONSTANTS
    Slots = {s1, s2}
    Plans <- MCPlans
    MaxFailures = 1
    Amounts = {3}
    Fee <- SmallFee
CHECK_DEADLOCK FALSE
INVARIANTS
    TypeOK
    RefusedOnlyIfDisturbed
    NothingMuchLeft
    SpinnerMeansWork
    DisabledWhileInFlight
PROPERTIES
    SpinnersStop
