\* fair_queue
SPECIFICATION Spec
CONSTANTS
    a = a
    b = b
    c = c
    Tasks = {a, b, c}
    Policy <- Kinds
    Weight <- Weights
    NICE_0_LOAD = 2
    Latency = 1
    MinGranularity = 1
    WakeupGranularity = 1
    CompatYield = FALSE
    ChildRunsFirst = TRUE
    Width = 5
    Behind = 1
    Ahead = 10
    Lags <- AheadOfOthers
    Switchers = {b}
    Travellers = {b}
    Forkers = {b}
    None = None
INVARIANTS QueueSound LagBounded
PROPERTIES NoStarvation
