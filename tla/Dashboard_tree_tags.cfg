SPECIFICATION Spec
CONSTANTS
    Cols <- MCTreeCols
    MaxVersion = 1
    MaxInFlight = 3
    MaxFail = 1
INVARIANT TypeOK
PROPERTY EventuallyDashTagsCurrent
