SPECIFICATION Spec
CONSTANTS
    Runs = {1, 2}
    Flow <- OneFlow
    MaxParallel = 1
    Skipping = {2}
    Workers = {w1, w2}
    Limit <- Tight
    Members <- Everything
    MaxTokens = 2
    MaxResumes = 1
    MaxFaults = 1
SYMMETRY WorkerSymmetry
CHECK_DEADLOCK FALSE
INVARIANTS RunBound SlotBound
