SPECIFICATION MLiveSpec
CONSTANTS
    w1 = w1
    w2 = w2
    f = f
    Writers = {w1, w2}
    Early = {w2}
    Replicas = TRUE
    Limit = 1
    MaxXid = 2
    MaxFails = 1
    Functions = {f}
    Subscribed <- MCSubscribed
INVARIANTS FloorHides 
PROPERTY CalledOrLost
