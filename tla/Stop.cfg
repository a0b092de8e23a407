SPECIFICATION Spec
CONSTANTS
    Size = 3
    XmitLen = 1
    NLines = 1
    Budget <- StopBudget
INVARIANTS TypeOK PendingAnswered
