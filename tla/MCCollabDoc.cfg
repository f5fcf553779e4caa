SPECIFICATION LiveSpec
CONSTANTS
    Conns = {c1, c2}
    Ai = {c2}
    CompactEvery = 2
    MaxLoads = 2
    MaxEdits = 2
    MaxExternal = 1
    MaxFaults = 1
CHECK_DEADLOCK FALSE
INVARIANTS   ImportSound CaughtUp
 
