CONSTANTS
    Res <- MCDevices
    MaxVersion = 2
    MaxInFlight = 3
    MaxFail = 0
    MaxSessionEnds = 1
    CoarseStamps = FALSE
SPECIFICATION Spec
INVARIANT TypeOK
INVARIANT TagCovered
PROPERTY EventuallyIncludesCurrent
PROPERTY ExpiredSessionShowsLogin
