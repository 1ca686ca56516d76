SPECIFICATION Spec
CONSTANTS
    p1 = p1
    p2 = p2
    Pass <- TwoPasses
    StopLoss = 2
    Breakeven = 5
    Target1 = 6
    Target2 = 7
    Target3 = 8
    Prices <- Quotes
    Bars <- History
    MaxBars = 2
    MaxOps = 1
    Sizes = {0, 3, 5}
    DefaultShares = 2
    Part1 = 30
    Part2 = 40
    Plans = {"ladder", "legacy", "noT2", "noT3", "stopOnly"}
SYMMETRY Symmetry
INVARIANTS TypeOK LedgerExact
PROPERTIES StopRatchet RefinesTrade
CHECK_DEADLOCK FALSE
