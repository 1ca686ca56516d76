SPECIFICATION Spec
CONSTANTS
    b1 = b1
    b2 = b2
    Box <- TwoBoxes
    Cycle = cycle
    Monitor = monitor
    NoBox = NoBox
    MaxDay = 1
    MaxVersion = 3
INVARIANTS TypeOK AlertsAccounted
PROPERTY RefinesBoxLife
CHECK_DEADLOCK FALSE
