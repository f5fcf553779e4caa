SPECIFICATION LiveSpec
CONSTANTS
    Nodes <- BranchNodes
    Edges <- BranchEdges
    Results <- BranchResults
    Joins = {"j"}
    AllJoins = {}
    ContinueOnError = {"b"}
    ContinueOnTimeout = {"k"}
    Workers = {w1, w2}
    MaxAttempts = 2
    MaxTokens = 1
    MaxResumes = 1
CHECK_DEADLOCK FALSE
INVARIANTS NoneLeftPending SuccessSound
 
