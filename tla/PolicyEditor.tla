--------------------------- MODULE PolicyEditor ---------------------------
(***************************************************************************)
(* The policies table and the policy file editor of pbconf.js.             *)
(* buildPoliciesTable empties #policies-view's rows and appends the names  *)
(* GET /policy answers with; addRowPoliciesTable appends one row.          *)
(* onSavePolicyFile reads policyExists(name) from the table when the user  *)
(* clicks Save, sends the PUT, and appends a row for the policy when the   *)
(* PUT succeeds and the policy had no row at the click.  Deleting a row    *)
(* sends DELETE and rebuilds the table when it succeeds.                   *)
(*                                                                         *)
(* Policy contents are not modelled: a policy is its name.                 *)
(***************************************************************************)
EXTENDS Naturals, Sequences, SequencesExt, Functions, Bags, BagsExt

CONSTANTS
    Policies,     \* policy names
    MaxInFlight,  \* bound on outstanding requests
    MaxWrites     \* bound on writes by other clients

VARIABLES
    srv,      \* the policies the backend holds
    rows,     \* the names in the rows of #policies-view, in order
    editor,   \* the policyName attribute of #policyFile-view
    net,      \* outstanding requests and their answers: a bag of records
    writes    \* writes by other clients so far

vars == <<srv, rows, editor, net, writes>>

None == "none"

\* kind: "list" (GET /policy), "put" (PUT /policy/<name>), "delete";
\* st: "sent", "ok" or "fail"; exists: policyExists at the click;
\* snap: the names a GET /policy answered with.
Msg == [kind : {"list", "put", "delete"}, st : {"sent", "ok", "fail"},
        name : Policies \cup {None}, exists : BOOLEAN, snap : SUBSET Policies]

Req(k, n, e) == [kind |-> k, st |-> "sent", name |-> n, exists |-> e, snap |-> {}]

TypeOK ==
    /\ srv \subseteq Policies /\ rows \in Seq(Policies)
    /\ editor \in Policies \cup {None}
    /\ IsABag(net) /\ BagToSet(net) \subseteq Msg
    /\ writes \in 0..MaxWrites

InFlight == BagCardinality(net)

\* $(document).ready calls buildPoliciesTable.
Init ==
    /\ srv = {} /\ rows = <<>> /\ editor = None
    /\ net = SetToBag({Req("list", None, FALSE)})
    /\ writes = 0

(* buildPoliciesTable: remove the rows, send GET /policy.                  *)
BuildPoliciesTable ==
    /\ InFlight < MaxInFlight
    /\ rows' = <<>>
    /\ net' = BagAdd(net, Req("list", None, FALSE))

\* policyExists: some row's first cell is the name.
PolicyExists(n) == Contains(rows, n)

(* The policy file view opens (launchPolicyPage after a policy link or     *)
(* onAddPolicy's navigate): buildPolicyFileView sets policyName.           *)
OpenPolicy(n) ==
    /\ editor' = n
    /\ UNCHANGED <<srv, rows, net, writes>>

(* The Save button: onSavePolicyFile reads policyExists now and sends PUT. *)
OnSavePolicyFile ==
    /\ editor # None /\ InFlight < MaxInFlight
    /\ net' = BagAdd(net, Req("put", editor, PolicyExists(editor)))
    /\ UNCHANGED <<srv, rows, editor, writes>>

(* The delete button of a row: DELETE /policy/<name of the row>.           *)
DeletePolicyFile(i) ==
    /\ InFlight < MaxInFlight
    /\ net' = BagAdd(net, Req("delete", rows[i], FALSE))
    /\ UNCHANGED <<srv, rows, editor, writes>>

(* The commit id of the policies changed: onTimerTick's "#policies-view"   *)
(* case rebuilds the table (the tick itself is modelled in TableRefresh).  *)
TickRebuild ==
    /\ BuildPoliciesTable
    /\ UNCHANGED <<srv, editor, writes>>

Deliver(m, m2) == net' = BagAdd(BagRemove(net, m), m2)

(* The backend handles a request when it arrives, or fails it.             *)
ServerOk(m) ==
    /\ m.st = "sent"
    /\ srv' = CASE m.kind = "put" -> srv \cup {m.name}
                [] m.kind = "delete" -> srv \ {m.name}
                [] OTHER -> srv
    /\ Deliver(m, [m EXCEPT !.st = "ok", !.snap = IF m.kind = "list" THEN srv ELSE {}])
    /\ UNCHANGED <<rows, editor, writes>>

ServerFail(m) ==
    /\ m.st = "sent"
    /\ Deliver(m, [m EXCEPT !.st = "fail"])
    /\ UNCHANGED <<srv, rows, editor, writes>>

\* Another client adds or removes a policy.
OtherClientWrite(n) ==
    /\ writes < MaxWrites
    /\ srv' = IF n \in srv THEN srv \ {n} ELSE srv \cup {n}
    /\ writes' = writes + 1
    /\ UNCHANGED <<rows, editor, net>>

(* buildPoliciesTable's callback: addRowPoliciesTable for each name.       *)
OnListDone(m) ==
    /\ rows' = rows \o SetToSeq(m.snap)
    /\ net' = BagRemove(net, m)

(* The PUT's .done: addRowPoliciesTable unless the policy existed at the   *)
(* click.                                                                  *)
OnPutDone(m) ==
    /\ rows' = IF m.exists THEN rows ELSE Append(rows, m.name)
    /\ net' = BagRemove(net, m)

(* The DELETE's .done: buildPoliciesTable.                                 *)
OnDeleteDone(m) ==
    /\ rows' = <<>>
    /\ net' = BagAdd(BagRemove(net, m), Req("list", None, FALSE))

(* An answer the browser runs: its callback, or nothing for a failure (the *)
(* PUT's .fail only shows an alert; the GET and DELETE have none).         *)
Receive(m) ==
    /\ m.st # "sent"
    /\ \/ m.st = "fail" /\ net' = BagRemove(net, m) /\ UNCHANGED rows
       \/ m.st = "ok" /\ m.kind = "list" /\ OnListDone(m)
       \/ m.st = "ok" /\ m.kind = "put" /\ OnPutDone(m)
       \/ m.st = "ok" /\ m.kind = "delete" /\ OnDeleteDone(m)
    /\ UNCHANGED <<srv, editor, writes>>

Next ==
    \/ \E n \in Policies : OpenPolicy(n) \/ OtherClientWrite(n)
    \/ OnSavePolicyFile
    \/ \E i \in 1..Len(rows) : DeletePolicyFile(i)
    \/ TickRebuild
    \/ \E m \in BagToSet(net) : ServerOk(m) \/ ServerFail(m) \/ Receive(m)

Spec == Init /\ [][Next]_vars

-----------------------------------------------------------------------------
(* The policies table lists each policy at most once: a saved new policy   *)
(* gets one row, from the save's answer or from a rebuild, never both.     *)
(* onSavePolicyFile decides at the click whether to add the row and adds   *)
(* it when the PUT answers.                                                 *)
PolicyListedOnce == IsInjective(rows)

=============================================================================
