CONSTANTS
    Policies <- MCPolicies
    MaxInFlight = 2
    MaxWrites = 1
SPECIFICATION Spec
INVARIANTS
    PolicyListedOnce
