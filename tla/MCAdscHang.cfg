CONSTANTS
    Count = 2
    Sims <- const_Sims
    UpdCap = 1
    MaxFails = 1
    MaxBreaks = 1
SPECIFICATION ProgramFairSpec
PROPERTY Exits
CHECK_DEADLOCK FALSE
