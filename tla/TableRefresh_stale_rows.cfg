CONSTANTS
    Res <- MCDevices
    MaxVersion = 2
    MaxInFlight = 3
    MaxFail = 0
    MaxSessionEnds = 0
    CoarseStamps = FALSE
SPECIFICATION Spec
PROPERTY EventuallyOnlyCurrent
