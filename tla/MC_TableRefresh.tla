------------------------- MODULE MC_TableRefresh -------------------------
(* Instantiates TableRefresh for TLC: the device table (Last-Modified     *)
(* token, add/delete/edit writes) and the policy table (commit-id token,  *)
(* delete write).                                                         *)
EXTENDS TableRefresh

MCDevices == {"Devices"}
MCPolicy == {"Policy"}
MCNodes == {"Nodes"}

=============================================================================
