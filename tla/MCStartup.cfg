CONSTANTS
    Senders <- MCSenders
    Frames = 2
    Messages = 2
    Saves <- MCLast
    MaxAsked = 0
    MaxLines = 0
SPECIFICATION FairSpec
PROPERTY EveryMessageComesUp
CHECK_DEADLOCK FALSE
