--------------------------- MODULE TreeExpansion ---------------------------
(***************************************************************************)
(* The expansion state of the dashboard tree in pbconf.js.  buildTree     *)
(* hands the tree its data with state.expanded set for the node names in  *)
(* expanded_tree_nodes; the tree's onNodeExpanded callback pushes the      *)
(* node's text and onNodeCollapsed calls                                   *)
(* expanded_tree_nodes.splice(data.text, 1).                              *)
(*                                                                         *)
(* splice converts its start argument to an integer: a node name that is   *)
(* not a number converts to NaN and then to 0, so the first entry is       *)
(* removed, whichever node was collapsed.  Node names here are not        *)
(* numeric.                                                                 *)
(***************************************************************************)
EXTENDS Naturals, Sequences, SequencesExt

CONSTANTS
    Nodes,       \* node names (non-numeric strings)
    MaxTracked   \* bound on the length of expanded_tree_nodes

VARIABLES
    expanded_tree_nodes,  \* the global array
    shown                 \* the tree widget: the nodes it shows expanded

vars == <<expanded_tree_nodes, shown>>

TypeOK ==
    /\ expanded_tree_nodes \in Seq(Nodes) /\ Len(expanded_tree_nodes) <= MaxTracked
    /\ shown \subseteq Nodes

Init == expanded_tree_nodes = <<>> /\ shown = {}

\* Array.prototype.splice(start, 1) with start = ToIntegerOrInfinity(name):
\* a non-numeric name is NaN, which becomes 0, the first entry.
SpliceIndex(name) == 0

\* splice(start, 1) on a JS array, start 0-based: removes one entry if
\* start is within the array.
Splice(arr, start) ==
    IF start < Len(arr) THEN RemoveAt(arr, start + 1) ELSE arr

(* The user expands a collapsed node: the tree marks it and fires          *)
(* onNodeExpanded, which pushes its text.                                  *)
OnNodeExpanded(n) ==
    /\ n \notin shown
    /\ Len(expanded_tree_nodes) < MaxTracked
    /\ shown' = shown \cup {n}
    /\ expanded_tree_nodes' = Append(expanded_tree_nodes, n)

(* The user collapses an expanded node: the tree unmarks it and fires      *)
(* onNodeCollapsed, which splices at the index the name converts to.      *)
OnNodeCollapsed(n) ==
    /\ n \in shown
    /\ shown' = shown \ {n}
    /\ expanded_tree_nodes' = Splice(expanded_tree_nodes, SpliceIndex(n))

(* buildDashboard's device answer calls buildTree: the tree is replaced,   *)
(* each node expanded when expanded_tree_nodes.indexOf(name) > -1.        *)
BuildTree ==
    /\ shown' = {n \in Nodes : Contains(expanded_tree_nodes, n)}
    /\ UNCHANGED expanded_tree_nodes

Next ==
    \/ \E n \in Nodes : OnNodeExpanded(n) \/ OnNodeCollapsed(n)
    \/ BuildTree

Spec == Init /\ [][Next]_vars

-----------------------------------------------------------------------------
ES == INSTANCE ExpandedSet WITH expanded <- shown

(* The tree implements ExpandedSet: each node stays expanded or collapsed  *)
(* as the user left it, so a buildTree after a node or device change      *)
(* shows the same nodes expanded as before.  expanded_tree_nodes exists    *)
(* to carry that state across the rebuild.                                 *)
ExpansionRefined == ES!Spec

=============================================================================
