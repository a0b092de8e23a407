SPECIFICATION CallSpec
CONSTANTS
    Size = 7
    XmitSize = 8
INVARIANTS PieceInBounds AllCopied NoByteLost RoomIsAnnounced
