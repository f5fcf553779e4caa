SPECIFICATION StreamSpec
CONSTANTS
    Records = {1, 2}
    Later = {}
    Shown <- Fading
    Relays = {p1, p2}
    MaxEvents = 3
    Slow = {1}
    Batch = 1
    MaxBatch = 2
    Capacity = 1
    Retain = 1
    MaxClock = 1
    MaxFaults = 1
SYMMETRY RelaySymmetry
CHECK_DEADLOCK FALSE
INVARIANTS Contiguous NothingMissed ExportSound
