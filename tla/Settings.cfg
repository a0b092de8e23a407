SPECIFICATION Spec
CONSTANTS
    Size = 2
    XmitLen = 1
    NLines = 2
    Budget <- SettingsBudget
INVARIANTS StackSound OpenCloseMatched SettingsAgree
