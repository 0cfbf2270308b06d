SPECIFICATION Spec
CONSTANTS
    Cols <- MCTreeCols
    MaxVersion = 1
    MaxInFlight = 3
    MaxFail = 0
PROPERTY EventuallyTreeCurrent
