SPECIFICATION Spec
CONSTANTS
    Nodes <- ForkNodes
    Edges <- ForkEdges
    Results <- ForkResults
    Joins = {"j"}
    AllJoins = {"j"}
    ContinueOnError = {}
    ContinueOnTimeout = {}
    Workers = {w1, w2}
    MaxAttempts = 2
    MaxTokens = 1
    MaxResumes = 1
CHECK_DEADLOCK FALSE
INVARIANTS TokensSound WaitsSubscribed AttemptsSound
PROPERTY CheckpointFinal
