SPECIFICATION Spec
CONSTANTS
    EnableLogPoll = TRUE
    MaxAlarms = 3
    MaxFail = 2
    FailKinds <- MCFailKinds
INVARIANT TypeOK
INVARIANT RowsShowArray
PROPERTY AlarmListRefined
PROPERTY EventuallyListed
