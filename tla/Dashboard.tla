---------------------------- MODULE Dashboard ----------------------------
(***************************************************************************)
(* The dashboard of pbconf.js (the home view) and the two tick cases that  *)
(* refresh it.                                                             *)
(*                                                                         *)
(* On "#home-view" onTimerTick sends three HEAD requests (/node, /device,  *)
(* /reports).  A node or device token that differs from modifiedTagDash    *)
(* calls buildDashboard, which GETs /node and, when that answers, GETs     *)
(* /device and replaces the tree with buildTree.  A reports token that     *)
(* differs calls buildDashReports, which empties the reports pane and      *)
(* appends a GET's answer.  At page load initializeDashTimer stores the    *)
(* three tokens with no comparison, while the first buildDashboard and     *)
(* buildDashReports are in flight.  The "#reportFile-view" case compares   *)
(* the reports commit id with modifiedTag.Report, then, having no break,   *)
(* runs the "#home-view" case as well.                                     *)
(*                                                                         *)
(* Data abstraction as in TableRefresh: a collection is its version.  A    *)
(* device version records the oldest node version that holds the parents  *)
(* of all its devices (devNeed); buildDashboard throws a TypeError at      *)
(* nodeDevices[devices[i].ParentNode].push when the node answer is older.  *)
(***************************************************************************)
EXTENDS Integers, Sequences, FiniteSets, Bags, BagsExt

CONSTANTS
    Cols,          \* the collections polled: {"Nodes", "Devices"} or {"Report"}
    MaxVersion,    \* number of changes each collection may undergo
    MaxInFlight,   \* bound on requests in flight at once
    MaxFail        \* bound on requests answered with an error

AllCols == {"Nodes", "Devices", "Report"}
ASSUME /\ Cols \subseteq AllCols
       /\ ("Nodes" \in Cols) <=> ("Devices" \in Cols)
ASSUME MaxVersion \in Nat /\ MaxInFlight \in Nat /\ MaxFail \in Nat

VARIABLES
    view,          \* the visible view
    srv,           \* srv[c]: version of collection c on the server
    devNeed,       \* devNeed[v]: node version the devices of version v need
    tagDash,       \* modifiedTagDash
    tagReport,     \* modifiedTag.Report
    tree,          \* the tree buildTree shows: node and device versions
    pane,          \* versions whose reports the reports pane lists
    content,       \* report version #reportFile-content shows
    net,           \* bag of requests in flight
    fails          \* requests answered with an error so far

vars == <<view, srv, devNeed, tagDash, tagReport, tree, pane, content, net, fails>>

None == -1                   \* "" in modifiedTagDash, the empty tree
Ver == 0..MaxVersion
Views == {"#home-view", "#reportFile-view", "#reports-view"}

(***************************************************************************)
(* Requests.  kind names the call site:                                    *)
(*   "tickDash"  the HEADs of the "#home-view" case (col: which one)       *)
(*   "tickFile"  the HEAD /reports of the "#reportFile-view" case          *)
(*   "initDash"  the HEADs of initializeDashTimer                          *)
(*   "getNodes", "getDevices"  the two GETs of buildDashboard; getDevices  *)
(*               carries the node version the first one read (arg)         *)
(*   "getReports"  the GET of buildDashReports                             *)
(*   "getContent"  the GET of ajaxGetReportContent                         *)
(***************************************************************************)
Kinds == {"tickDash", "tickFile", "initDash", "getNodes", "getDevices",
          "getReports", "getContent"}
Msg == {m \in [kind : Kinds, col : AllCols, st : {"sent", "ok", "fail"},
              ver : Ver \cup {None}, arg : Ver \cup {None}] :
            (m.kind = "getDevices") = (m.arg # None)}
Req(k, c) == [kind |-> k, col |-> c, st |-> "sent", ver |-> None, arg |-> None]
GetDevices(n) == [Req("getDevices", "Devices") EXCEPT !.arg = n]

\* the server's change token of c: Last-Modified or the report commit id,
\* both the version at which it was minted
Stamp(c) == srv[c]

InFlight == BagCardinality(net)
Tree(n, d) == [n |-> n, d |-> d]
NoTree == Tree(None, None)

TypeOK ==
    /\ view \in Views
    /\ srv \in [Cols -> Ver]
    /\ devNeed \in [Ver -> Ver]
    /\ tagDash \in [Cols -> Ver \cup {None}]
    /\ tagReport \in Ver \cup {None}
    /\ tree \in [n : Ver \cup {None}, d : Ver \cup {None}]
    /\ pane \in Seq(Ver)
    /\ content \in Ver \cup {None}
    /\ IsABag(net) /\ BagToSet(net) \subseteq Msg
    /\ fails \in 0..MaxFail

(* $(document).ready: buildDashboard, buildDashReports, initializeDashTimer *)
Init ==
    /\ view \in Views
    /\ srv = [c \in Cols |-> 0]
    /\ devNeed = [v \in Ver |-> 0]
    /\ tagDash = [c \in Cols |-> None]
    /\ tagReport = None
    /\ tree = NoTree
    /\ pane = <<>>
    /\ content = None
    /\ net = SetToBag({Req("getNodes", "Nodes") : c \in Cols \cap {"Nodes"}}
                      \cup {Req("getReports", c) : c \in Cols \cap {"Report"}}
                      \cup {Req("initDash", c) : c \in Cols})
    /\ fails = 0

\* The "#home-view" case: a HEAD for each collection.
HomeCase == {Req("tickDash", c) : c \in Cols}

(***************************************************************************)
(* onTimerTick on the dashboard or the report page.  The report page case  *)
(* falls through into the home case.                                      *)
(***************************************************************************)
TimerTick ==
    /\ view \in {"#home-view", "#reportFile-view"}
    /\ LET sent == IF view = "#home-view" THEN HomeCase
                   ELSE HomeCase \cup {Req("tickFile", c) : c \in Cols \cap {"Report"}}
       IN /\ InFlight + Cardinality(sent) <= MaxInFlight
          /\ net' = net (+) SetToBag(sent)
    /\ UNCHANGED <<view, srv, devNeed, tagDash, tagReport, tree, pane, content, fails>>

\* buildDashboard sends its first GET; buildDashReports empties the pane
\* and sends its GET.
BuildDashboard(bag) == BagAdd(bag, Req("getNodes", "Nodes"))
BuildDashReports(bag) == BagAdd(bag, Req("getReports", "Report"))

\* Mutant: the diff reduced to the test for "".
OnTickDashDoneOnlyFirst(m) ==
    LET c == m.col
        rest == BagRemove(net, m)
    IN IF tagDash[c] = None
       THEN /\ tagDash' = [tagDash EXCEPT ![c] = m.ver]
            /\ IF c = "Report"
               THEN net' = BuildDashReports(rest) /\ pane' = <<>>
               ELSE net' = BuildDashboard(rest) /\ UNCHANGED pane
       ELSE net' = rest /\ UNCHANGED <<tagDash, pane>>

\* The HEAD callbacks of the home case.  Nodes and devices test for ""
\* as well; the reports test does not.
OnTickDashDone(m) ==
    LET c == m.col
        rest == BagRemove(net, m)
        differs == IF c = "Report" THEN tagDash[c] # m.ver
                   ELSE tagDash[c] = None \/ tagDash[c] # m.ver
    IN IF differs
       THEN /\ tagDash' = [tagDash EXCEPT ![c] = m.ver]
            /\ IF c = "Report"
               THEN net' = BuildDashReports(rest) /\ pane' = <<>>
               ELSE net' = BuildDashboard(rest) /\ UNCHANGED pane
       ELSE net' = rest /\ UNCHANGED <<tagDash, pane>>

\* The HEAD callback of the report page case: re-read the report content.
OnTickFileDone(m) ==
    /\ IF tagReport # m.ver
       THEN /\ net' = BagAdd(BagRemove(net, m), Req("getContent", "Report"))
            /\ tagReport' = m.ver
       ELSE net' = BagRemove(net, m) /\ UNCHANGED tagReport
    /\ UNCHANGED <<tagDash, pane, tree>>

\* initializeDashTimer's callbacks store the token without comparing.
OnInitDashDone(m) ==
    /\ tagDash' = [tagDash EXCEPT ![m.col] = m.ver]
    /\ net' = BagRemove(net, m)
    /\ UNCHANGED <<tagReport, pane, tree>>

\* Mutant: the devices GET loses the node answer it was chained from.
OnGetNodesDoneLost(m) ==
    /\ net' = BagAdd(BagRemove(net, m), GetDevices(m.arg))
    /\ UNCHANGED <<tagDash, tagReport, pane, tree>>

\* buildDashboard, first GET answered: ask for the devices.
OnGetNodesDone(m) ==
    /\ net' = BagAdd(BagRemove(net, m), GetDevices(m.ver))
    /\ UNCHANGED <<tagDash, tagReport, pane, tree>>

\* buildDashboard, second GET answered: build the tree, unless a device's
\* parent is missing from the node answer and the loop throws.
OnGetDevicesDone(m) ==
    /\ net' = BagRemove(net, m)
    /\ IF m.arg >= devNeed[m.ver] THEN tree' = Tree(m.arg, m.ver)
                                  ELSE UNCHANGED tree
    /\ UNCHANGED <<tagDash, tagReport, pane>>

\* buildDashReports' callback appends the listed reports.
OnGetReportsDone(m) ==
    /\ pane' = Append(pane, m.ver)
    /\ net' = BagRemove(net, m)
    /\ UNCHANGED <<tagDash, tagReport, tree>>

\* ajaxGetReportContent's callback replaces the report content.
OnGetContentDone(m) ==
    /\ content' = m.ver
    /\ net' = BagRemove(net, m)
    /\ UNCHANGED <<tagDash, tagReport, pane, tree>>

\* A failed request runs no .done callback.
OnFail(m) ==
    /\ net' = BagRemove(net, m)
    /\ UNCHANGED <<tagDash, tagReport, pane, tree, content>>

Receive(m) ==
    /\ m \in BagToSet(net) /\ m.st # "sent"
    /\ CASE m.st = "fail"            -> OnFail(m)
        [] m.kind = "tickDash"   -> OnTickDashDone(m) /\ UNCHANGED <<tagReport, tree, content>>
        [] m.kind = "tickFile"   -> OnTickFileDone(m) /\ UNCHANGED content
        [] m.kind = "initDash"   -> OnInitDashDone(m) /\ UNCHANGED content
        [] m.kind = "getNodes"   -> OnGetNodesDone(m) /\ UNCHANGED content
        [] m.kind = "getDevices" -> OnGetDevicesDone(m) /\ UNCHANGED content
        [] m.kind = "getReports" -> OnGetReportsDone(m) /\ UNCHANGED content
        [] m.kind = "getContent" -> OnGetContentDone(m)
    /\ UNCHANGED <<view, srv, devNeed, fails>>

(***************************************************************************)
(* The REST backend and other clients (outside this repository).  A device *)
(* change may add a device under the newest node.                          *)
(***************************************************************************)
Answer(m) ==
    CASE m.kind \in {"tickDash", "tickFile", "initDash"} -> Stamp(m.col)
      [] m.kind = "getNodes"   -> srv["Nodes"]
      [] m.kind = "getDevices" -> srv["Devices"]
      [] m.kind \in {"getReports", "getContent"} -> srv["Report"]

ServerOk(m) ==
    /\ m \in BagToSet(net) /\ m.st = "sent"
    /\ net' = BagAdd(BagRemove(net, m), [m EXCEPT !.st = "ok", !.ver = Answer(m)])
    /\ UNCHANGED <<view, srv, devNeed, tagDash, tagReport, tree, pane, content, fails>>

ServerFail(m) ==
    /\ m \in BagToSet(net) /\ m.st = "sent"
    /\ fails < MaxFail
    /\ fails' = fails + 1
    /\ net' = BagAdd(BagRemove(net, m), [m EXCEPT !.st = "fail"])
    /\ UNCHANGED <<view, srv, devNeed, tagDash, tagReport, tree, pane, content>>

OtherClientWrite ==
    /\ \E c \in Cols :
          /\ srv[c] < MaxVersion
          /\ srv' = [srv EXCEPT ![c] = @ + 1]
          /\ IF c = "Devices"
             THEN \E need \in {devNeed[srv[c]], srv["Nodes"]} :
                     devNeed' = [devNeed EXCEPT ![srv[c] + 1] = need]
             ELSE UNCHANGED devNeed
    /\ UNCHANGED <<view, tagDash, tagReport, tree, pane, content, net, fails>>

ShowView ==
    /\ \E v \in Views : view' = v
    /\ UNCHANGED <<srv, devNeed, tagDash, tagReport, tree, pane, content, net, fails>>

Next ==
    \/ TimerTick
    \/ \E m \in BagToSet(net) : Receive(m) \/ ServerOk(m) \/ ServerFail(m)
    \/ OtherClientWrite
    \/ ShowView

SentMsg == {m \in Msg : m.st = "sent" /\ m.ver = None}
AnsweredMsg == {m \in Msg : m.st # "sent"}

Fairness ==
    /\ WF_vars(TimerTick)
    /\ \A m \in SentMsg : WF_vars(ServerOk(m) \/ ServerFail(m))
    /\ \A m \in AnsweredMsg : WF_vars(Receive(m))

Spec == Init /\ [][Next]_vars /\ Fairness

-----------------------------------------------------------------------------
(***************************************************************************)
(* Properties.                                                             *)
(***************************************************************************)

WatchedHome == <>[](view = "#home-view")

(* While the user keeps the dashboard open, every token in modifiedTagDash *)
(* eventually settles, for good, on the server's current token: HEAD       *)
(* answers that arrive late or out of order, the tokens stored blindly by  *)
(* initializeDashTimer and failed requests do not keep it off.             *)
EventuallyDashTagsCurrent ==
    WatchedHome => <>[](\A c \in Cols : tagDash[c] = Stamp(c))

(* While the user keeps the dashboard open, the tree eventually shows the  *)
(* current nodes and devices for good (spec section 4.2: re-render on      *)
(* token mismatch; section 3: the view reflects the last fetch).           *)
EventuallyTreeCurrent ==
    WatchedHome => <>[](tree = Tree(srv["Nodes"], srv["Devices"]))

(* buildDashboard's comment "Get devices after we have nodes": the node  *)
(* answer a devices GET is chained from lists the parent of every device   *)
(* in the devices answer, so nodeDevices[devices[i].ParentNode].push does  *)
(* not throw.  Read while other clients add a node and a device under it.  *)
DevicesHaveParents ==
    \A m \in BagToSet(net) :
        m.kind = "getDevices" /\ m.st = "ok" => m.arg >= devNeed[m.ver]

=============================================================================
