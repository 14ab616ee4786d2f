CONSTANTS
    CommandNames = {"cluster", "impersonate", "reproduce", "latency", "startup"}
    None = None
    Procs <- const_Procs
    Objects <- const_Objects
    Namespaces <- const_Namespaces
    NsOf <- const_NsOf
    HasStatus = {"node", "ns"}
    Contended = {"node", "ns"}
    Tries = 3
    MaxFaults = 2
    Clients <- const_Clients
    Configs <- const_Configs
    AppObjects <- const_AppObjects
    Refreshable <- const_Refreshable
    Templated <- const_Templated
    PodNames <- const_PodNames
    PodAttempts = 2
    NsAttempts = 2
    Keys <- const_Keys
    ReplicasOf <- const_ReplicasOf
    MaxChanges = 3
    Docs <- const_Docs
    ConfigOnly = FALSE
    Entries <- const_Entries
    UpdatesCap = 2
    MaxBreaks = 1
    Workers <- const_Workers
    PodsOf <- const_PodsOf
SPECIFICATION Spec
INVARIANTS
    CommandsTypeOK
    NothingForgotten
\* The program ends.
CHECK_DEADLOCK FALSE
PROPERTIES
    LeavesNothing
    InterruptedEnds
    DeletesOnlyItsOwn
    FollowsPods
    PushArrives
