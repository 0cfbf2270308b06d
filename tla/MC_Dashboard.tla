--------------------------- MODULE MC_Dashboard ---------------------------
(* Instantiates Dashboard for TLC.  The HEADs of the three collections are *)
(* independent, so a run polls either the two collections the tree is     *)
(* built from or the reports alone.                                       *)
EXTENDS Dashboard

MCTreeCols == {"Nodes", "Devices"}
MCReportCols == {"Report"}
=============================================================================
