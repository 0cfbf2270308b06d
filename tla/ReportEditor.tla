--------------------------- MODULE ReportEditor ---------------------------
(***************************************************************************)
(* The reports table and the report file editor of pbconf.js.              *)
(* buildReportsTable empties #reports-view's rows and appends the names    *)
(* GET /reports answers with.  It runs at page load and after a delete     *)
(* only: onTimerTick has no case for "#reports-view".  The report file     *)
(* view keeps the open report in its reportName attribute.                 *)
(* onSaveReportFile reads reportExists(name) from the table when the user  *)
(* clicks Save and sends a PUT for a listed report, a POST otherwise.  The *)
(* POST's .done calls ajaxGetReportContent, which sets the global          *)
(* reportName from the view's attribute, and then addRowReportsTable of    *)
(* that global.                                                            *)
(*                                                                         *)
(* Report contents, periods and results are not modelled: a report is its  *)
(* name.                                                                   *)
(***************************************************************************)
EXTENDS Naturals, Sequences, SequencesExt, Bags, BagsExt

CONSTANTS
    Reports,      \* report names
    MaxInFlight,  \* bound on outstanding requests
    MaxWrites     \* bound on writes by other clients

VARIABLES
    srv,      \* the reports the backend holds
    rows,     \* the names in the rows of #reports-view, in order
    open,     \* the reportName attribute of #reportFile-view
    net,      \* outstanding requests and their answers: a bag of records
    writes    \* writes by other clients so far

vars == <<srv, rows, open, net, writes>>

None == "none"

\* kind: "list" (GET /reports), "post" (POST /reports), "put"
\* (PUT /reports/<name>), "delete"; snap: the names GET /reports answered.
Msg == [kind : {"list", "post", "put", "delete"}, st : {"sent", "ok", "fail"},
        name : Reports \cup {None}, snap : SUBSET Reports]

Req(k, n) == [kind |-> k, st |-> "sent", name |-> n, snap |-> {}]

TypeOK ==
    /\ srv \subseteq Reports /\ rows \in Seq(Reports)
    /\ open \in Reports \cup {None}
    /\ IsABag(net) /\ BagToSet(net) \subseteq Msg
    /\ writes \in 0..MaxWrites

InFlight == BagCardinality(net)

\* $(document).ready calls buildReportsTable; the backend already holds
\* some reports.
Init ==
    /\ srv \in SUBSET Reports /\ rows = <<>> /\ open = None
    /\ net = SetToBag({Req("list", None)})
    /\ writes = 0

\* reportExists: some row's first cell is the name.
ReportExists(n) == Contains(rows, n)

(* The report file view opens: a report link, the dashboard's report pane, *)
(* onAddReport's navigate to a new name, or onCancelReportFile; each ends  *)
(* in buildReportFileView, which sets reportName.                          *)
LaunchReportPage(n) ==
    /\ open' = n
    /\ UNCHANGED <<srv, rows, net, writes>>

(* The Save button: PUT when the table lists the report, POST otherwise.   *)
OnSaveReportFile ==
    /\ open # None /\ InFlight < MaxInFlight
    /\ net' = BagAdd(net, Req(IF ReportExists(open) THEN "put" ELSE "post", open))
    /\ UNCHANGED <<srv, rows, open, writes>>

(* The delete button of a row: DELETE /reports/<name of the row>.          *)
DeleteReportFile(i) ==
    /\ InFlight < MaxInFlight
    /\ net' = BagAdd(net, Req("delete", rows[i]))
    /\ UNCHANGED <<srv, rows, open, writes>>

Deliver(m, m2) == net' = BagAdd(BagRemove(net, m), m2)

(* The backend handles a request when it arrives, or fails it.  A POST or  *)
(* PUT stores the report.                                                  *)
ServerOk(m) ==
    /\ m.st = "sent"
    /\ srv' = CASE m.kind \in {"post", "put"} -> srv \cup {m.name}
                [] m.kind = "delete" -> srv \ {m.name}
                [] OTHER -> srv
    /\ Deliver(m, [m EXCEPT !.st = "ok", !.snap = IF m.kind = "list" THEN srv ELSE {}])
    /\ UNCHANGED <<rows, open, writes>>

ServerFail(m) ==
    /\ m.st = "sent"
    /\ Deliver(m, [m EXCEPT !.st = "fail"])
    /\ UNCHANGED <<srv, rows, open, writes>>

\* Another client creates or deletes a report.
OtherClientWrite(n) ==
    /\ writes < MaxWrites
    /\ srv' = IF n \in srv THEN srv \ {n} ELSE srv \cup {n}
    /\ writes' = writes + 1
    /\ UNCHANGED <<rows, open, net>>

(* buildReportsTable's callback: addRowReportsTable for each name.         *)
OnListDone(m) ==
    /\ rows' = rows \o SetToSeq(m.snap)
    /\ net' = BagRemove(net, m)

(* The POST's .done: ajaxGetReportContent sets reportName from the view's  *)
(* attribute, then addRowReportsTable(reportName).                         *)
OnPostDone(m) ==
    /\ rows' = Append(rows, open)
    /\ net' = BagRemove(net, m)

(* The DELETE's .done: buildReportsTable.                                  *)
OnDeleteDone(m) ==
    /\ rows' = <<>>
    /\ net' = BagAdd(BagRemove(net, m), Req("list", None))

(* An answer the browser runs: its callback, or nothing that touches the   *)
(* table (the PUT's callbacks and the POST's .fail only show alerts and    *)
(* reload the results; the GET and DELETE have no .fail).                  *)
Receive(m) ==
    /\ m.st # "sent"
    /\ \/ (m.st = "fail" \/ m.kind = "put") /\ net' = BagRemove(net, m) /\ UNCHANGED rows
       \/ m.st = "ok" /\ m.kind = "list" /\ OnListDone(m)
       \/ m.st = "ok" /\ m.kind = "post" /\ OnPostDone(m)
       \/ m.st = "ok" /\ m.kind = "delete" /\ OnDeleteDone(m)
    /\ UNCHANGED <<srv, open, writes>>

Next ==
    \/ \E n \in Reports : LaunchReportPage(n) \/ OtherClientWrite(n)
    \/ OnSaveReportFile
    \/ \E i \in 1..Len(rows) : DeleteReportFile(i)
    \/ \E m \in BagToSet(net) : ServerOk(m) \/ ServerFail(m) \/ Receive(m)

Spec == Init /\ [][Next]_vars

-----------------------------------------------------------------------------
(* ajaxPostReport (pbconf.js lines 628-650): when a POST that created a    *)
(* report succeeds, its callback adds a row for that report, so a report   *)
(* the user created is listed.  The callback runs after the POST's round   *)
(* trip, and the name it adds is read at that time.                        *)
PostedReportListed ==
    [][\A m \in BagToSet(net) \ BagToSet(net') :
          m.kind = "post" /\ m.st = "ok" => Contains(rows', m.name)]_vars

=============================================================================
