SPECIFICATION FairSpec
CONSTANTS
    Workers = {w1, w2}
    MaxReports = 3
    MaxQueueFiles = 2
    MaxSendPerCycle = 2
    MaxCrashes = 1
INVARIANTS
    TypeOK
    NoCaptureLost
PROPERTIES DeliveryInCaptureOrder EveryReportSettles
