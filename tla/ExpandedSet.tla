---------------------------- MODULE ExpandedSet ----------------------------
(***************************************************************************)
(* What the dashboard tree promises about expansion: the user expands and  *)
(* collapses nodes, and a node stays as the user left it; rebuilding the   *)
(* tree when the nodes or devices change does not expand or collapse any.  *)
(* TreeExpansion is checked against it.                                    *)
(***************************************************************************)
CONSTANT Nodes

VARIABLE expanded      \* the nodes shown expanded

Init == expanded = {}

Expand(n) == n \notin expanded /\ expanded' = expanded \cup {n}

Collapse(n) == n \in expanded /\ expanded' = expanded \ {n}

Next == \E n \in Nodes : Expand(n) \/ Collapse(n)

Spec == Init /\ [][Next]_expanded

=============================================================================
