SPECIFICATION Spec
CONSTANTS
    First = 2
    Last = 10
    MaxDays = 3
    Trading <- MCTrading
    Bars = 2
    Starts <- MCTwoStarts
    Lag = 0
    MaxDay = 12
INVARIANTS
    ClearRunLeavesNoGap
