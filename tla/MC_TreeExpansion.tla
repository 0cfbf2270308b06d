------------------------- MODULE MC_TreeExpansion -------------------------
EXTENDS TreeExpansion

MCNodes == {"alpha", "beta"}
=============================================================================
