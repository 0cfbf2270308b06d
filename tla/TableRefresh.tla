--------------------------- MODULE TableRefresh ---------------------------
(***************************************************************************)
(* The poll/diff refresher of pbconf.js and the list tables it keeps up to *)
(* date: the node, device and policy tables.                               *)
(*                                                                         *)
(* Every 6 s onTimerTick sends a HEAD request for the collection of the    *)
(* visible view.  When the change token in the answer (Last-Modified for   *)
(* /node and /device, X-Pbconf-Policy-LastCommitId for /policy) differs    *)
(* from modifiedTag, it calls buildXTable, which empties the table at      *)
(* once and appends the rows of a GET answer when that answer arrives.     *)
(* The user's own writes (add/delete/edit) rebuild the table the same way  *)
(* when they succeed.  All network calls are asynchronous: the server      *)
(* answers them in any order and the browser runs the callbacks in any     *)
(* order.                                                                  *)
(*                                                                         *)
(* The session: the server ends it by expiry or on onLogout's POST; from   *)
(* then on it answers every request with a 401.  The ajaxComplete handler *)
(* answers a 401 with GET /ui, whose answer clears the timer and writes    *)
(* the login page over the document.  Signing in loads the page anew.      *)
(*                                                                         *)
(* Data abstraction: the content of a collection is its server version.    *)
(* A GET answer carries the version it was read at, and the table is the   *)
(* sequence of versions whose rows were appended since it was last         *)
(* emptied.  A change token is the version at which it was minted.         *)
(***************************************************************************)
EXTENDS Integers, Sequences, FiniteSets, Bags, BagsExt

CONSTANTS
    Res,           \* collections polled: a subset of {"Nodes","Devices","Policy"}
    MaxVersion,    \* number of changes a collection may undergo
    MaxInFlight,   \* bound on requests in flight at once
    MaxFail,       \* bound on requests answered with an error
    CoarseStamps,  \* TRUE: Last-Modified has 1 s resolution, so two changes
                   \* in the same second carry the same token
    MaxSessionEnds \* bound on logouts and session expiries

ASSUME Res \subseteq {"Nodes", "Devices", "Policy"}
ASSUME MaxVersion \in Nat /\ MaxInFlight \in Nat \ {0} /\ MaxFail \in Nat
ASSUME CoarseStamps \in BOOLEAN /\ MaxSessionEnds \in Nat

VARIABLES
    view,          \* the visible view: currentView()
    timerOn,       \* updateTimer is set
    srv,           \* srv[r]: version of collection r on the server
    stamp,         \* stamp[r]: change token the server reports for r
    tag,           \* modifiedTag
    rows,          \* rows[r]: versions whose rows the table of r shows
    net,           \* bag of requests in flight
    fails,         \* requests answered with an error so far
    addNodeHidden, \* "#add-new-node" carries the class "hidden"
    session,       \* the server's session of this browser: "valid" or "ended"
    page,          \* "app", or "login" once the /ui reload was written
    ends           \* logouts and session expiries so far

vars == <<view, timerOn, srv, stamp, tag, rows, net, fails, addNodeHidden,
          session, page, ends>>
sessionVars == <<session, page, ends>>

None == -1                 \* the empty string "" of modifiedTag
Ver == 0..MaxVersion

TableView == ("Nodes" :> "#node-view") @@ ("Devices" :> "#device-view")
             @@ ("Policy" :> "#policies-view")
\* views the user can show; on "#reports-view" a tick sends nothing
Views == {TableView[r] : r \in Res} \cup {"#reports-view"}

\* the user writes of the list views, and the collection each one changes
UserWrites == {<<"Nodes", "POST">>, <<"Devices", "POST">>,
               <<"Devices", "DELETE">>, <<"Devices", "PATCH">>,
               <<"Policy", "DELETE">>}
WriteOps == {"POST", "DELETE", "PATCH"}
Ops == {"HEAD", "GET"} \cup WriteOps

\* "UI" is the GET /ui of the 401 handler, "LOGOUT" the POST /ui/logout;
\* both carry the pseudo-collection "Session".  "unauth" is a 401 answer.
Msg == [op : Ops \cup {"UI", "LOGOUT"}, res : Res \cup {"Session"},
        st : {"sent", "ok", "fail", "unauth"}, ver : Ver \cup {None}]
Req(op, r) == [op |-> op, res |-> r, st |-> "sent", ver |-> None]

\* the values a sequence holds
Range(s) == {s[i] : i \in DOMAIN s}

InFlight == BagCardinality(net)
Pending(r, ops, st) == {m \in BagToSet(net) : m.res = r /\ m.op \in ops /\ m.st = st}
PendingWrites(r) == BagCardinality([m \in Pending(r, WriteOps, "sent") |-> net[m]])
\* a change may still be made to r: MaxVersion bounds the server's versions
CanChange(r) == srv[r] + PendingWrites(r) < MaxVersion

\* tokens the server may report after a change of r
NewStamps(r) == IF CoarseStamps /\ r # "Policy" THEN {stamp[r], srv[r] + 1}
                                                ELSE {srv[r] + 1}

TypeOK ==
    /\ view \in Views
    /\ timerOn \in BOOLEAN
    /\ srv \in [Res -> Ver] /\ stamp \in [Res -> Ver]
    /\ tag \in [Res -> Ver \cup {None}]
    /\ rows \in [Res -> Seq(Ver)]
    /\ IsABag(net) /\ BagToSet(net) \subseteq Msg
    /\ fails \in 0..MaxFail
    /\ addNodeHidden \in BOOLEAN
    /\ session \in {"valid", "ended"} /\ page \in {"app", "login"}
    /\ ends \in 0..MaxSessionEnds

(***************************************************************************)
(* $(document).ready: build every table, start the timer.  modifiedTag     *)
(* starts as "" for every collection.                                      *)
(***************************************************************************)
Init ==
    /\ view \in Views
    /\ timerOn = TRUE
    /\ srv = [r \in Res |-> 0]
    /\ stamp = [r \in Res |-> 0]
    /\ tag = [r \in Res |-> None]
    /\ rows = [r \in Res |-> <<>>]
    /\ net = SetToBag({Req("GET", r) : r \in Res})
    /\ fails = 0
    /\ addNodeHidden = FALSE
    /\ session = "valid" /\ page = "app" /\ ends = 0

\* buildNodeTable / buildDeviceTable / buildPoliciesTable: empty the table
\* now, send the GET whose answer fills it.  Operators on values; the
\* actions below prime them.
ClearedRows(r) == [rows EXCEPT ![r] = <<>>]
WithGet(bag, r) == BagAdd(bag, Req("GET", r))

(***************************************************************************)
(* onTimerTick: one HEAD request for the collection of the visible view.   *)
(* The node case also refreshes the check-in time of every row; that only  *)
(* rewrites cell text and is not modelled.                                 *)
(***************************************************************************)
\* Mutant of TimerTick: a case of the switch without its break falls
\* through into the next case and also polls that collection.
NextCase == ("Nodes" :> "Devices") @@ ("Devices" :> "Policy") @@ ("Policy" :> "Report")
TimerTickFallthrough ==
    /\ timerOn
    /\ InFlight < MaxInFlight
    /\ \E r \in Res :
          /\ view = TableView[r]
          /\ net' = BagAdd(BagAdd(net, Req("HEAD", r)), Req("HEAD", NextCase[r]))
    /\ UNCHANGED <<view, timerOn, srv, stamp, tag, rows, fails, addNodeHidden, sessionVars>>

TimerTick ==
    /\ timerOn
    /\ InFlight < MaxInFlight
    /\ \E r \in Res :
          /\ view = TableView[r]
          /\ net' = BagAdd(net, Req("HEAD", r))
    /\ UNCHANGED <<view, timerOn, srv, stamp, tag, rows, fails, addNodeHidden, sessionVars>>

\* Mutants of OnHeadDone.  TagAlways: the assignment to modifiedTag moved
\* out of the if, and the diff reduced to the "" test.  OnlyFirst: the diff
\* reduced to the "" test.
OnHeadDoneTagAlways(m) ==
    LET r == m.res IN
    /\ tag' = [tag EXCEPT ![r] = m.ver]
    /\ IF tag[r] = None
       THEN rows' = ClearedRows(r) /\ net' = WithGet(BagRemove(net, m), r)
       ELSE net' = BagRemove(net, m) /\ UNCHANGED rows

OnHeadDoneOnlyFirst(m) ==
    LET r == m.res IN
    IF tag[r] = None
    THEN /\ rows' = ClearedRows(r)
         /\ net' = WithGet(BagRemove(net, m), r)
         /\ tag' = [tag EXCEPT ![r] = m.ver]
    ELSE /\ net' = BagRemove(net, m)
         /\ UNCHANGED <<rows, tag>>

\* The HEAD callback: rebuild and record the token when it differs.
OnHeadDone(m) ==
    LET r == m.res IN
    IF tag[r] = None \/ tag[r] # m.ver
    THEN /\ rows' = ClearedRows(r)
         /\ net' = WithGet(BagRemove(net, m), r)
         /\ tag' = [tag EXCEPT ![r] = m.ver]
    ELSE /\ net' = BagRemove(net, m)
         /\ UNCHANGED <<rows, tag>>

\* The GET callback: append the rows of the answer to the table.  The node
\* table also hides the add form as soon as an answer lists a node.
OnGetDone(m) ==
    /\ rows' = [rows EXCEPT ![m.res] = Append(@, m.ver)]
    /\ net' = BagRemove(net, m)
    /\ IF m.res = "Nodes" THEN addNodeHidden' \in {addNodeHidden, TRUE}
                          ELSE UNCHANGED addNodeHidden
    /\ UNCHANGED tag

\* The callback of a write: add and delete rebuild the table; the PATCH of
\* an edited device only rewrites the name cell, on success or failure.
OnWriteDone(m) ==
    /\ IF m.op # "PATCH" /\ m.st = "ok"
       THEN /\ rows' = ClearedRows(m.res)
            /\ net' = WithGet(BagRemove(net, m), m.res)
       ELSE /\ net' = BagRemove(net, m)
            /\ UNCHANGED rows
    /\ UNCHANGED <<tag, addNodeHidden>>

\* Mutant of OnUnauthorized: the 401 is handled only for a refused GET, as
\* an error callback of $.get would; a refused HEAD or write is ignored.
OnUnauthorizedGetOnly(m) ==
    /\ net' = IF m.op = "GET" THEN BagAdd(BagRemove(net, m), Req("UI", "Session"))
                              ELSE BagRemove(net, m)
    /\ UNCHANGED <<rows, tag, addNodeHidden>>

\* The global ajaxComplete handler: a 401 answer to any request sends
\* GET /ui.  The request's own handler also runs, but a failed HEAD or
\* GET has none and a failed write changes no table.
OnUnauthorized(m) ==
    /\ net' = BagAdd(BagRemove(net, m), Req("UI", "Session"))
    /\ UNCHANGED <<rows, tag, addNodeHidden>>

\* The answer of GET /ui: clearInterval(updateTimer), then the login page
\* it carries replaces the document.  Callbacks of requests still in
\* flight keep running.
OnUiDone(m) ==
    /\ timerOn' = FALSE
    /\ page' = "login"
    /\ net' = BagRemove(net, m)
    /\ UNCHANGED <<rows, tag, addNodeHidden>>

\* The browser runs the callback of an answered request.  A failed HEAD or
\* GET has no handler.
Receive(m) ==
    /\ m \in BagToSet(net) /\ m.st # "sent"
    /\ IF m.op = "UI" /\ m.st = "ok" THEN OnUiDone(m)
       ELSE /\ CASE m.st = "unauth"                 -> OnUnauthorized(m)
                 [] m.op = "HEAD" /\ m.st = "ok"     -> OnHeadDone(m) /\ UNCHANGED addNodeHidden
                 [] m.op = "GET" /\ m.st = "ok"      -> OnGetDone(m)
                 [] m.op \in WriteOps                -> OnWriteDone(m)
                 [] OTHER -> /\ net' = BagRemove(net, m)
                             /\ UNCHANGED <<rows, tag, addNodeHidden>>
            /\ UNCHANGED <<timerOn, page>>
    /\ UNCHANGED <<view, srv, stamp, fails, session, ends>>

(***************************************************************************)
(* The user's writes, each available in its view: onAddNode (only while    *)
(* the add form is shown), onAddDevice, the delete and edit buttons of a   *)
(* device row, the delete button of a policy row.  A row button needs a    *)
(* row on screen.                                                          *)
(***************************************************************************)
UserWrite ==
    /\ page = "app"
    /\ InFlight < MaxInFlight
    /\ \E w \in UserWrites :
          LET r == w[1]  op == w[2] IN
          /\ r \in Res
          /\ view = TableView[r]
          /\ CanChange(r)
          /\ r = "Nodes" => ~addNodeHidden
          /\ op \in {"DELETE", "PATCH"} => rows[r] # <<>>
          /\ net' = BagAdd(net, Req(op, r))
    /\ UNCHANGED <<view, timerOn, srv, stamp, tag, rows, fails, addNodeHidden, sessionVars>>

(***************************************************************************)
(* The REST backend (not part of this repository): answers a request,      *)
(* reading the collection at that moment, or answers it with an error.  A  *)
(* write that fails may or may not have been applied.  Other clients       *)
(* change collections too.                                                 *)
(***************************************************************************)
Apply(r) ==
    /\ srv' = [srv EXCEPT ![r] = @ + 1]
    /\ \E s \in NewStamps(r) : stamp' = [stamp EXCEPT ![r] = s]

\* The server answers with the session still valid; GET /ui is served
\* without one (the login page).  POST /ui/logout ends the session.
ServerOk(m) ==
    /\ m \in BagToSet(net) /\ m.st = "sent"
    /\ session = "valid" \/ m.op = "UI"
    /\ LET r == m.res
           v == CASE m.op = "HEAD" -> stamp[r]
                  [] m.op = "GET"  -> srv[r]
                  [] OTHER         -> None
       IN net' = BagAdd(BagRemove(net, m), [m EXCEPT !.st = "ok", !.ver = v])
    /\ IF m.op \in WriteOps THEN Apply(m.res) ELSE UNCHANGED <<srv, stamp>>
    /\ session' = IF m.op = "LOGOUT" THEN "ended" ELSE session
    /\ UNCHANGED <<view, timerOn, tag, rows, fails, addNodeHidden, page, ends>>

\* Without a session every request but GET /ui is refused with a 401.
ServerUnauthorized(m) ==
    /\ m \in BagToSet(net) /\ m.st = "sent"
    /\ session = "ended" /\ m.op # "UI"
    /\ net' = BagAdd(BagRemove(net, m), [m EXCEPT !.st = "unauth"])
    /\ UNCHANGED <<view, timerOn, srv, stamp, tag, rows, fails, addNodeHidden, sessionVars>>

ServerFail(m) ==
    /\ m \in BagToSet(net) /\ m.st = "sent"
    /\ fails < MaxFail
    /\ fails' = fails + 1
    /\ net' = BagAdd(BagRemove(net, m), [m EXCEPT !.st = "fail"])
    /\ \/ m.op \in WriteOps /\ session = "valid" /\ Apply(m.res)
       \/ UNCHANGED <<srv, stamp>>
    /\ UNCHANGED <<view, timerOn, tag, rows, addNodeHidden, sessionVars>>

OtherClientWrite ==
    /\ \E r \in Res : CanChange(r) /\ Apply(r)
    /\ UNCHANGED <<view, timerOn, tag, rows, net, fails, addNodeHidden, sessionVars>>

\* The session expires on the server.
Expire ==
    /\ session = "valid" /\ ends < MaxSessionEnds
    /\ session' = "ended" /\ ends' = ends + 1
    /\ UNCHANGED <<view, timerOn, srv, stamp, tag, rows, net, fails, addNodeHidden, page>>

\* A tab click or a route: showView hides every view and shows one.
ShowView ==
    /\ page = "app"
    /\ \E v \in Views : view' = v
    /\ UNCHANGED <<timerOn, srv, stamp, tag, rows, net, fails, addNodeHidden, sessionVars>>

\* onLogout: clearInterval(updateTimer), then the logout POST.
Logout ==
    /\ page = "app" /\ ends < MaxSessionEnds /\ InFlight < MaxInFlight
    /\ timerOn' = FALSE
    /\ net' = BagAdd(net, Req("LOGOUT", "Session"))
    /\ ends' = ends + 1
    /\ UNCHANGED <<view, srv, stamp, tag, rows, fails, addNodeHidden, session, page>>

\* The user signs in on the login page, and the browser loads /ui anew:
\* the requests of the old document are aborted and $(document).ready runs.
Login ==
    /\ page = "login"
    /\ session' = "valid" /\ page' = "app"
    /\ view' \in Views
    /\ timerOn' = TRUE
    /\ tag' = [r \in Res |-> None]
    /\ rows' = [r \in Res |-> <<>>]
    /\ net' = SetToBag({Req("GET", r) : r \in Res})
    /\ addNodeHidden' = FALSE
    /\ UNCHANGED <<srv, stamp, fails, ends>>

SentMsg == {m \in Msg : m.st = "sent" /\ m.ver = None}
AnsweredMsg == {m \in Msg : m.st # "sent"}

Next ==
    \/ TimerTick
    \/ \E m \in BagToSet(net) :
          Receive(m) \/ ServerOk(m) \/ ServerUnauthorized(m) \/ ServerFail(m)
    \/ UserWrite
    \/ OtherClientWrite
    \/ Expire
    \/ ShowView
    \/ Logout
    \/ Login

\* The interval timer fires while it is set; the server answers every
\* request (with an error at most MaxFail times); the browser runs every
\* callback.  The user and other clients are not obliged to act.
Fairness ==
    /\ WF_vars(TimerTick)
    /\ \A m \in SentMsg : WF_vars(ServerOk(m) \/ ServerUnauthorized(m) \/ ServerFail(m))
    /\ \A m \in AnsweredMsg : WF_vars(Receive(m))

Spec == Init /\ [][Next]_vars /\ Fairness

-----------------------------------------------------------------------------
(***************************************************************************)
(* Properties.                                                             *)
(***************************************************************************)

\* versions a table shows or will show from GET answers already received
\* by the browser's network layer
FetchedVersions(r) == Range(rows[r]) \cup {m.ver : m \in Pending(r, {"GET"}, "ok")}

(* The HEAD callback never records a token that no table content backs:   *)
(* whenever modifiedTag names a change, the table shows, or a GET in       *)
(* flight will bring, a version at least that new.  If this fails, a       *)
(* change is taken as seen although no fetch shows it, and since the       *)
(* token now matches, no tick will fetch it again.  It is required while  *)
(* the session is valid: once it has ended, GETs are refused with a 401    *)
(* and the page is bound for the login page and a fresh $(document).ready. *)
TagCovered ==
    session = "valid" =>
    \A r \in Res :
        \/ tag[r] = None
        \/ Pending(r, {"GET"}, "sent") # {}
        \/ \E v \in FetchedVersions(r) : v >= tag[r]

\* the view of r stays visible with the timer running from some point on
Watched(r) == <>[](view = TableView[r] /\ timerOn)

(* A table that the user keeps looking at eventually shows, for good, the  *)
(* rows of the collection's current server version: every change made by  *)
(* the user or by another client is picked up by onTimerTick's HEAD/diff   *)
(* and the rebuild it triggers.                                            *)
EventuallyIncludesCurrent ==
    \A r \in Res : Watched(r) => <>[](srv[r] \in Range(rows[r]))

(* Spec section 3: the rendered view reflects the last successful fetch.   *)
(* A table the user keeps looking at eventually shows exactly one copy of  *)
(* the current rows, and nothing else, for good.                          *)
EventuallyOnlyCurrent ==
    \A r \in Res : Watched(r) => <>[](rows[r] = <<srv[r]>>)

(* A collection the user keeps looking at has its modifiedTag settle, for  *)
(* good, on the token the server currently reports, even when HEAD or GET  *)
(* requests fail and HEAD answers arrive out of order: the diff neither    *)
(* stalls nor keeps re-fetching forever.                                   *)
EventuallyTagCurrent ==
    \A r \in Res : Watched(r) => <>[](tag[r] = stamp[r])

(* The 401 protocol of the ajaxComplete handler (pbconf.js lines 35-47):   *)
(* once the server has ended the session, a user who keeps a table view   *)
(* open with the timer running (so not after onLogout) is eventually       *)
(* shown the login page.  A tick's request is refused with a 401, the      *)
(* handler sends GET /ui, and its answer clears the timer and writes the   *)
(* login page; requests still in flight and late callbacks must not keep   *)
(* the page on the stale tables for good.                                  *)
ExpiredSessionShowsLogin ==
    \A r \in Res : Watched(r) => [](session = "ended" => <>(page = "login"))

=============================================================================
