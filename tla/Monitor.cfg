SPECIFICATION FairSpec
CONSTANTS
    MSIZE = 14
    Slack = 2
    States <- mcStates
    NetDown = "Net Down"
    NameLen <- mcNameLen
    MsgLens = {2, 3, 9}
    MaxExceptions = 4
INVARIANT MostRecentFirst
PROPERTY Pushed
