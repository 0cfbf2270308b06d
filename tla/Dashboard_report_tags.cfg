SPECIFICATION Spec
CONSTANTS
    Cols <- MCReportCols
    MaxVersion = 2
    MaxInFlight = 3
    MaxFail = 0
PROPERTY EventuallyDashTagsCurrent
