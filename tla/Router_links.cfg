CONSTANTS
    NameTokens <- MCSafeTokens
    MaxNameLen = 2
    Ids <- MCIds
    NameOf <- MCNameOf
    MaxInFlight = 2
SPECIFICATION Spec
INVARIANTS
    TypeOK
    NavigationReachesTarget
