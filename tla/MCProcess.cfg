CONSTANTS
    Senders <- MCSenders
    Frames = 2
    Messages = 3
    Saves <- MCLast
    MaxAsked = 1
    MaxLines = 1
SPECIFICATION FairSpec
INVARIANTS ProcessTypeOK QueueLag  MisreadOnlyIfOverlapped 
PROPERTIES FifoRefined LateMessagesComeUp CloseEndsProcess
CHECK_DEADLOCK FALSE
