SPECIFICATION LiveSchedulerSpec
CONSTANTS
    Schedulers <- Instances
    Times = {1, 2}
    Events = {11}
    LiveGap = 2
    Grace = 0
    MaxTime = 3
    MaxFails = 1
INVARIANTS LaunchedOnce NonePassedOver
PROPERTY TriggersFire
