\* Two workers on one key, four writes of others, two failing requests with
\* a budget of two attempts: a budget can be spent on conflicts alone, on
\* failures alone and on both.
CONSTANTS
    ours = ours
    w1 = w1
    w2 = w2
    Keys <- const_Keys
    Ours <- const_Keys
    Workers <- const_Workers
    MaxAttempts = 2
    SyncSignal = SyncSignal
    NoKey = NoKey
    NoPod = NoPod
    MaxWrites <- const_MaxWrites
    MaxFaults = 2
SPECIFICATION KubeletFairSpec
INVARIANTS
    KubeletTypeOK
    OneWorkerPerKey
    DirtyIsQueued
PROPERTIES
    AddressIsFinal
    StartsOnlyBoundPods
    BoundPodStarts
    RunningPodIsKept
\* Once stopped, or when nobody changes a pod, nothing happens any more.
CHECK_DEADLOCK FALSE
