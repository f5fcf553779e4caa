SPECIFICATION LiveSpec
CONSTANTS
    Runs = {1, 2}
    Autonomous = {1}
    Workers = {w1, w2}
    Steps = 3
    Gated = {2}
    MaxAttempts = 2
    MaxFaults = 3
INVARIANTS OneOwner ContentSound 
 
