CONSTANTS
    CDS = CDS
    LDS = LDS
    EDS = EDS
    RDS = RDS
    SDS = SDS
    e1 = e1
    e2 = e2
    r1 = r1
    r2 = r2
    s1 = s1
    Optional <- const_Optional
    Names <- const_Names
    Configs <- const_RouteConfigs
    TypeOf <- const_TypeOf
    UpdCap = 20
    MaxChanges = 1
SPECIFICATION Spec
INVARIANT
    RoutesWatched
\* The stream breaks or is quiet, Fetch returns.
CHECK_DEADLOCK FALSE
