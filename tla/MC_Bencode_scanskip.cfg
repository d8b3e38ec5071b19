CONSTANTS
    MaxDepth = 1
    MaxInput = 7
    MaxIntLen = 2
    MaxLenDigits = 2
    MaxStrLen = 2
    MaxItems = 1
    WithDecoy = FALSE
SPECIFICATION Spec
CHECK_DEADLOCK FALSE
INVARIANT ScanMatchesReference
