---------------------------- MODULE AlarmQueue ----------------------------
(***************************************************************************)
(* What the alarm list of the dashboard promises its user: alarms join the *)
(* end of the list in the order they are raised; the user marks and       *)
(* unmarks them, one by one or all at once; clearing removes exactly the   *)
(* marked alarms and keeps the others in order.  Alarms implements it.     *)
(***************************************************************************)
EXTENDS Naturals, Sequences

CONSTANT Alarms          \* alarm texts

VARIABLE list            \* the listed alarms: [a |-> alarm, marked |-> BOOLEAN]

Entry == [a : Alarms, marked : BOOLEAN]

TypeOK == list \in Seq(Entry)

Init == list = <<>>

Arrive(x) == list' = Append(list, [a |-> x, marked |-> FALSE])

Mark(i, b) ==
    /\ i \in 1..Len(list)
    /\ list' = [list EXCEPT ![i].marked = b]

MarkAll(b) == list' = [i \in 1..Len(list) |-> [list[i] EXCEPT !.marked = b]]

Dismiss == list' = SelectSeq(list, LAMBDA x : ~x.marked)

Next ==
    \/ \E x \in Alarms : Arrive(x)
    \/ \E i \in 1..Len(list), b \in BOOLEAN : Mark(i, b)
    \/ \E b \in BOOLEAN : MarkAll(b)
    \/ Dismiss

Spec == Init /\ [][Next]_list

=============================================================================
