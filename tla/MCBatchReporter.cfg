\* A batch of two, a channel of two and five entries: batches fill, the
\* channel fills while the flusher posts, and entries are left at Close.
CONSTANTS
    p1 = p1
    p2 = p2
    Producers <- const_Producers
    ChanCap = 2
    MaxBatch = 2
    MaxArgs = 2
    MaxReports = 5
SPECIFICATION FairSpec
INVARIANTS
    TypeOK
    Accounting
    BatchWithinMax
    CloseFlushes
PROPERTIES
    ReportReturns
    AcceptedIsSent
\* The program ends: no caller, no flusher is left.
CHECK_DEADLOCK FALSE
