CONSTANTS
    LDS = LDS
    CDS = CDS
    EDS = EDS
    RDS = RDS
    l1 = l1
    l2 = l2
    c1 = c1
    e1 = e1
    r1 = r1
    InitialWatches <- const_InitialWatches
    Parents <- const_Parents
    Leaves <- const_Leaves
    TypeOf <- const_TypeOf
    ChildType <- const_ChildType
    LeafTypeOf <- const_LeafTypeOf
    MaxChanges = 2
SPECIFICATION FairSpec
INVARIANTS
    TypeOK
    NoStraySubscription
    TreeIsSubscribed
    TreeMatchesConfig
    AllAcknowledged
PROPERTIES
    CatchesUp
CHECK_DEADLOCK FALSE
