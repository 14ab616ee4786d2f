\* Seven lines against a batch of three and a channel of two: the last batch
\* can hold more than MaxBatch entries.
CONSTANTS
    Pusher = pusher
    Producers <- const_Producers
    ChanCap = 2
    MaxBatch = 3
    MaxArgs = 1
    MaxReports <- const_MaxReports
    MaxLines = 7
SPECIFICATION PushFairSpec
INVARIANTS
    AllRecordsSent
PROPERTIES
    ImplementsDeliveryLog
    Exits
\* The program ends.
CHECK_DEADLOCK FALSE
