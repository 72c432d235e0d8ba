SPECIFICATION FairSpec
CONSTANTS
    SeqMod = 3
    MaxPending = 2
    WireCap = 2
    MaxSeq = 3
    MaxFaults = 1
    MaxReplies = 1
INVARIANTS SentQueueMatches RepliesBeforeNotification
PROPERTIES ImplementsStream EveryBlockAcked
CHECK_DEADLOCK FALSE
