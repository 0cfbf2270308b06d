---------------------------- MODULE MC_Alarms ----------------------------
(* Instantiates Alarms for TLC. *)
EXTENDS Alarms

MCFailKinds == {"408", "error"}
=============================================================================
