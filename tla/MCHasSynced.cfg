CONSTANTS
    ours = ours
    w1 = w1
    w2 = w2
    Keys <- const_Keys
    Ours <- const_Keys
    Workers <- const_Workers
    MaxAttempts = 3
    SyncSignal = SyncSignal
    NoKey = NoKey
    NoPod = NoPod
    MaxWrites <- const_MaxWrites
    MaxFaults = 2
SPECIFICATION KubeletSpec
INVARIANTS
    SyncedIsHandled
\* Once stopped, or when nobody changes a pod, nothing happens any more.
CHECK_DEADLOCK FALSE
