------------------------------ MODULE Alarms ------------------------------
(***************************************************************************)
(* The alarm list of the dashboard in pbconf.js: the long poll on /alarm   *)
(* (startAlarmLongPoll), the select-all checkbox, the clear button and     *)
(* setAlarmVisibility.                                                     *)
(*                                                                         *)
(* The long poll keeps one GET /alarm outstanding: each answer lists one   *)
(* alarm and starts the next GET; a failure restarts it only on a timeout  *)
(* or a 408.  Each alarm is pushed onto alarm_array and a row with an      *)
(* unchecked box is appended to the alarm table.  Clear walks the rows    *)
(* from the last to the first and splices alarm_array at each checked     *)
(* row, then rebuilds the table from alarm_array.                          *)
(*                                                                         *)
(* The backend raises alarms 1..MaxAlarms in order; an alarm is its        *)
(* number.                                                                 *)
(***************************************************************************)
EXTENDS Naturals, Sequences, SequencesExt

CONSTANTS
    EnableLogPoll, \* the text of #EnableLogPoll is "true"
    MaxAlarms,     \* alarms the backend raises
    MaxFail,       \* bound on failed long polls
    FailKinds      \* failures the GET /alarm may end in: "408", "error"

ASSUME EnableLogPoll \in BOOLEAN
ASSUME MaxAlarms \in Nat /\ MaxFail \in Nat /\ FailKinds \subseteq {"408", "error"}

VARIABLES
    alarm_array,   \* the global alarm_array
    rows,          \* rows of #alarm-table: [a |-> text shown, checked |-> box]
    selectAll,     \* the #alarm-select checkbox
    controls,      \* #alarm-checkbox-div and #clear-alarms are shown
    poll,          \* the GET /alarm: st is "sent", "ok", "408", "error", or
                   \* "idle"/"stopped" when none is outstanding (never
                   \* started / given up after an error); a: the answer
    raised,        \* alarms the backend has raised
    delivered,     \* alarms the backend has answered a poll with
    fails          \* failed polls so far

vars == <<alarm_array, rows, selectAll, controls, poll, raised, delivered, fails>>

AlarmIds == 1..MaxAlarms
Undefined == 0       \* alarm_array[i] past the end of the array
PollSt == {"idle", "stopped", "sent", "ok"} \cup FailKinds
Row == [a : AlarmIds \cup {Undefined}, checked : BOOLEAN]

TypeOK ==
    /\ alarm_array \in Seq(AlarmIds)
    /\ rows \in Seq(Row)
    /\ selectAll \in BOOLEAN /\ controls \in BOOLEAN
    /\ poll \in [st : PollSt, a : AlarmIds \cup {Undefined}]
    /\ raised \in 0..MaxAlarms /\ delivered \in 0..raised
    /\ fails \in 0..MaxFail

Sent == [st |-> "sent", a |-> Undefined]
Idle == [st |-> "idle", a |-> Undefined]
Stopped == [st |-> "stopped", a |-> Undefined]

(* $(document).ready starts the poll when #EnableLogPoll reads "true". *)
Init ==
    /\ alarm_array = <<>> /\ rows = <<>>
    /\ selectAll = FALSE /\ controls = FALSE
    /\ poll = IF EnableLogPoll THEN Sent ELSE Idle
    /\ raised = 0 /\ delivered = 0 /\ fails = 0

\* setAlarmVisibility
AlarmVisibility(arr) == Len(arr) > 0

UncheckedRow(x) == [a |-> x, checked |-> FALSE]

\* Mutant: the alarm's index is pushed instead of the answer.
OnPollDoneIndex ==
    /\ poll.st = "ok"
    /\ poll' = Sent
    /\ alarm_array' = Append(alarm_array, Len(alarm_array))
    /\ rows' = Append(rows, UncheckedRow(poll.a))
    /\ controls' = AlarmVisibility(alarm_array')
    /\ UNCHANGED <<selectAll, raised, delivered, fails>>

\* Mutant: the next poll is not started.
OnPollDoneNoRestart ==
    /\ poll.st = "ok"
    /\ poll' = Idle
    /\ alarm_array' = Append(alarm_array, poll.a)
    /\ rows' = Append(rows, UncheckedRow(poll.a))
    /\ controls' = AlarmVisibility(alarm_array')
    /\ UNCHANGED <<selectAll, raised, delivered, fails>>

(* startAlarmLongPoll .done: poll again, push the alarm, append its row. *)
OnPollDone ==
    /\ poll.st = "ok"
    /\ poll' = Sent
    /\ alarm_array' = Append(alarm_array, poll.a)
    /\ rows' = Append(rows, UncheckedRow(poll.a))
    /\ controls' = AlarmVisibility(alarm_array')
    /\ UNCHANGED <<selectAll, raised, delivered, fails>>

(* startAlarmLongPoll .fail: poll again only after a timeout or a 408. *)
OnPollFail ==
    /\ poll.st \in FailKinds
    /\ poll' = IF poll.st = "408" THEN Sent ELSE Stopped
    /\ UNCHANGED <<alarm_array, rows, selectAll, controls, raised, delivered, fails>>

\* The text the select-all handler writes into row i.
AlarmAt(i) == IF i <= Len(alarm_array) THEN alarm_array[i] ELSE Undefined

(* The #alarm-select click handler rewrites every row, checked or not. *)
SelectAllClick(b) ==
    /\ selectAll' = b
    /\ rows' = [i \in 1..Len(rows) |-> [a |-> AlarmAt(i), checked |-> b]]
    /\ UNCHANGED <<alarm_array, controls, poll, raised, delivered, fails>>

(* The user ticks or unticks the box of one row. *)
CheckRow(i, b) ==
    /\ rows' = [rows EXCEPT ![i].checked = b]
    /\ UNCHANGED <<alarm_array, selectAll, controls, poll, raised, delivered, fails>>

\* Mutant: the loop runs from the first row up, so each splice shifts the
\* alarms the later rows refer to.
RECURSIVE SpliceCheckedUp(_, _)
SpliceCheckedUp(arr, i) ==
    IF i = 0 THEN arr
    ELSE LET j == Len(rows) - i + 1
         IN SpliceCheckedUp(IF rows[j].checked /\ j <= Len(arr) THEN RemoveAt(arr, j)
                            ELSE arr, i - 1)

\* The splice loop of the #clear-alarms handler, from row i down to row 1.
RECURSIVE SpliceChecked(_, _)
SpliceChecked(arr, i) ==
    IF i = 0 THEN arr
    ELSE SpliceChecked(IF rows[i].checked /\ i <= Len(arr) THEN RemoveAt(arr, i)
                       ELSE arr, i - 1)

\* Mutant: the old rows are not removed before the table is repopulated.
ClearAlarmsKeepRows ==
    /\ alarm_array' = SpliceChecked(alarm_array, Len(rows))
    /\ rows' = rows \o [j \in 1..Len(alarm_array') |-> UncheckedRow(alarm_array'[j])]
    /\ selectAll' = FALSE
    /\ controls' = AlarmVisibility(alarm_array')
    /\ UNCHANGED <<poll, raised, delivered, fails>>

(* The #clear-alarms click handler: splice, rebuild the table from        *)
(* alarm_array, uncheck #alarm-select, setAlarmVisibility.                *)
ClearAlarms ==
    /\ alarm_array' = SpliceChecked(alarm_array, Len(rows))
    /\ rows' = [j \in 1..Len(alarm_array') |-> UncheckedRow(alarm_array'[j])]
    /\ selectAll' = FALSE
    /\ controls' = AlarmVisibility(alarm_array')
    /\ UNCHANGED <<poll, raised, delivered, fails>>

(***************************************************************************)
(* The backend.  A long poll is answered with the next raised alarm, or    *)
(* fails with one of FailKinds.                                            *)
(***************************************************************************)
Raise ==
    /\ raised < MaxAlarms
    /\ raised' = raised + 1
    /\ UNCHANGED <<alarm_array, rows, selectAll, controls, poll, delivered, fails>>

ServerAnswer ==
    /\ poll.st = "sent" /\ delivered < raised
    /\ delivered' = delivered + 1
    /\ poll' = [st |-> "ok", a |-> delivered + 1]
    /\ UNCHANGED <<alarm_array, rows, selectAll, controls, raised, fails>>

ServerFail ==
    /\ poll.st = "sent" /\ fails < MaxFail
    /\ fails' = fails + 1
    /\ \E k \in FailKinds : poll' = [st |-> k, a |-> Undefined]
    /\ UNCHANGED <<alarm_array, rows, selectAll, controls, raised, delivered>>

Next ==
    \/ OnPollDone \/ OnPollFail
    \/ \E b \in BOOLEAN : SelectAllClick(b)
    \/ \E i \in 1..Len(rows), b \in BOOLEAN : CheckRow(i, b)
    \/ ClearAlarms
    \/ Raise \/ ServerAnswer \/ ServerFail

(* The backend answers a poll once an alarm is raised; the browser runs    *)
(* the callbacks.  The user and the raising of alarms are not fair.        *)
Fairness ==
    /\ WF_vars(ServerAnswer)
    /\ WF_vars(OnPollDone)
    /\ WF_vars(OnPollFail)

Spec == Init /\ [][Next]_vars /\ Fairness

-----------------------------------------------------------------------------
(***************************************************************************)
(* Properties.                                                             *)
(***************************************************************************)

\* The list the user sees: the alarms of alarm_array with the boxes of
\* the rows beside them.
ShownList ==
    [i \in 1..Len(alarm_array) |->
        [a |-> alarm_array[i], marked |-> i <= Len(rows) /\ rows[i].checked]]

AQ == INSTANCE AlarmQueue WITH Alarms <- AlarmIds, list <- ShownList

(* The alarm handlers implement AlarmQueue: alarms join alarm_array in the *)
(* order the long poll delivers them, ticking a box or the select-all box  *)
(* marks the alarms beside them, and #clear-alarms removes from            *)
(* alarm_array exactly the alarms whose rows are checked ("Iterate         *)
(* backwards through the array so offset won't be issue").                 *)
AlarmListRefined == AQ!Spec

(* Every row of the alarm table shows the alarm of alarm_array at its      *)
(* index, and there is a row per alarm: the select-all handler and the     *)
(* clear handler both address alarm_array by row index.                    *)
RowsShowArray ==
    /\ Len(rows) = Len(alarm_array)
    /\ \A i \in 1..Len(rows) : rows[i].a = alarm_array[i]

(* Every alarm the backend raises is eventually listed, unless the long    *)
(* poll has stopped after a failure other than a timeout or a 408: the     *)
(* poll is restarted after every answer and every timeout.                 *)
EventuallyListed ==
    \A x \in AlarmIds :
        EnableLogPoll =>
            ((raised >= x /\ delivered < x) ~> (x \in Range(alarm_array) \/ poll = Stopped))

=============================================================================
