-------------------------- MODULE MC_PolicyEditor --------------------------
EXTENDS PolicyEditor

MCPolicies == {"p1", "p2"}
=============================================================================
