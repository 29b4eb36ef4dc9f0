\* OpenD restarts with any other settings; the caller and the keep-alive go on.
SPECIFICATION LiveSpec
CONSTANTS
    None = None
    Intervals <- SomeIntervals
    Latency = 1
    MaxRestarts = 2
INVARIANTS
    NeverIdledOut
PROPERTIES
    PingsApart
    KeylessEnds
    Served
