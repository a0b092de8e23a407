SPECIFICATION FairSpec
CONSTANTS
    HdrLen = 3
    MaxPayload = 3
    Lens = {0, 1, 3, 4}
    MaxPackets = 3
INVARIANT TypeOK
PROPERTIES PacketsKept DropJustified ComesBack
