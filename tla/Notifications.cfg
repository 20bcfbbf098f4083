SPECIFICATION FairSpec
CONSTANTS
    MaxMessages = 3
    Foreign = {2}
    Poison = {1}
    Workers = {w1, w2}
    BatchSize = 2
    MaxFaults = 2
INVARIANTS
    TypeOK
    CopiesAccounted
PROPERTIES AtLeastOnceDelivery EveryMessageSent
