SPECIFICATION Spec
CONSTANTS
    Size = 4
    XmitLen = 2
    NLines = 1
    Budget <- WriteBudget
INVARIANTS CopySound PendingSound AcceptedInOrder AcceptedOnce
PROPERTY PipeImplemented
