CONSTANTS
    Count = 2
    Sims <- const_Sims
    UpdCap = 1
    MaxFails = 1
    MaxBreaks = 1
SPECIFICATION ProgramFairSpec
INVARIANTS
    ProgramTypeOK
    OneStreamAtATime
    CleanupCloses
PROPERTIES
    ReceiversEnd
    ExitsOnceRun
\* The program exits, or waits for a signal.
CHECK_DEADLOCK FALSE
