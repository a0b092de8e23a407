SPECIFICATION LiveSpec
CONSTANTS
    Size = 2
    XmitLen = 1
    NLines = 2
    Budget <- LiveBudget
PROPERTIES WrittenArrives ResumeArrives CloseArrives SettingsArrive
