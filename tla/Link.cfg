SPECIFICATION LinkSpec
CONSTANTS
    VC_PULL_TIME = 3
    Primary = 2
    Redundant = 2
    VC_MAX_SKNUM = 3
    MaxFd = 4
    Held = {0, 2}
INVARIANTS SilenceBounded CountExplained ConnectTypeOK NoLeak ReturnedConnected AcceptingWins
PROPERTIES EarlyOnlyInherited Returns
