CONSTANTS
    Res <- MCNodes
    MaxVersion = 2
    MaxInFlight = 3
    MaxFail = 1
    MaxSessionEnds = 0
    CoarseStamps = TRUE
SPECIFICATION Spec
PROPERTY EventuallyTagCurrent
