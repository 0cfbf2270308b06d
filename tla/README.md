# TLA+ models of the pbconf web console

This directory holds TLA+ models of the browser side of pbconf, the TLC
configurations that check them, and `PROJECT.json`, which maps every model
definition to the source lines it translates. The source is two files:

* `src/html/resource/js/pbconf.js`: the console's views, tables, polling,
  dashboard, alarms and editors (jQuery);
* `src/html/resource/js/pbc-senna-nav.js`: the client-side router (senna.js
  routes and screens) and the navigation-bar highlighting.

## 1. Inventory

Everything runs on the browser's single event loop. Handlers never run at
the same time. All concurrency comes from asynchronous AJAX requests: the
server answers them in any order, any of them may fail, and each callback
runs as one step whenever its answer arrives. The hard behaviours are the
orders in which answers arrive, with state read when a request is sent and
used when its answer arrives.

| Component | State it keeps | Operations (source) | Interacts with |
|---|---|---|---|
| Poll/diff refresher | `updateTimer`, `modifiedTag`, `modifiedTagDash`, the visible view | `onTimerTick` (75-183), `initializeDashTimer` (1398-1419), `showView`/`currentView` (263-285), `onLogout` (298) | sends HEAD requests; calls the table and dashboard builders |
| List tables (nodes, devices, policies, reports) | the rows of each table | `buildNodeTable` (314), `buildDeviceTable` (347), `buildPoliciesTable` (459), `buildReportsTable` (509), add/delete/edit handlers (304-544) | REST `/node`, `/device`, `/policy`, `/reports`; rebuilt by the refresher and by writes |
| Dashboard | the node/device tree, the reports pane, `expanded_tree_nodes` | `buildDashboard` (1273), `buildTree` (1333), `buildDashReports` (1382), tree expand/collapse callbacks (1342-1350) | two chained GETs (`/node`, then `/device`); rebuilt by the `#home-view` tick |
| Alarms | `alarm_array`, the rows and checkboxes of the alarm table | `startAlarmLongPoll` (56), alarm-select (1424), clear-alarms (1445), `setAlarmVisibility` (1472) | long-poll GET `/alarm` |
| Router | `calling_path`, the current screen, the highlighted tab | ordered `senna.Route`s (nav 9-151), `startNavigate` (154), `handleNavigation` (160), `showNav*` (171-224) | calls `showView` and the detail builders; `onAddPolicy`/`onAddReport` navigate |
| Detail views | header text, the table's `id`/`nodename`/`devName` attributes, config rows | `showNodeDetail` (338), `buildConfigTable` (845), config-item add/edit/delete (876-948), the device equivalents (951-1129), metadata (1004-1268), config file (1132-1186) | GET/PATCH/DELETE on `/node/{id}`, `/device/{id}`, `/device/{id}/meta`, `/device/{id}/config` |
| File editors | `policyName`/`reportName` attributes, the editor contents | `buildPolicyFileView` (768), `onSavePolicyFile` (797), `buildReportFileView` (564), `onSaveReportFile` (605), `ajaxPostReport`/`ajaxPutReport` (630-707) | PUT/POST on `/policy`, `/reports`; add rows to the list tables |
| Session | `updateTimer` | `ajaxComplete` 401 handler (36-48), `onLogout` (298-301) | reloads the page; clears the timer |
| Role options, input enabling | CSS classes, `disabled` properties | `setRoleBasedOptions` (185), input/keyup handlers (1545-1665) | DOM only |
| Report results formatting | none | `checkColTypes`, `reportResultsTable` (1486-1541) | none (not called in this fragment) |
| REST backend | the collections | outside this repository | answers requests |

Properties that make each component correct:

* **Refresher and tables.** A watched table eventually shows the current
  collection, once and for good. `modifiedTag` names a change only when a
  fetch showing it is under way or shown. The token settles despite
  reordered answers. (The spec, section 3: "rendered view reflects last
  successful fetch".)
* **Dashboard.** While home is shown, the tree eventually shows the current
  nodes and devices. A rebuild never leaves the tree older than the
  recorded tokens.
* **Alarms.** Every alarm the server sends is listed until the user clears
  it. The alarm rows stay aligned with `alarm_array`, so clearing removes
  exactly the checked alarms. Polling continues after a failure (the spec,
  section 7: "long-poll timeouts are retried indefinitely").
* **Tree expansion.** `expanded_tree_nodes` holds exactly the expanded
  nodes.
* **Router.** Each path reaches the screen of its first matching route.
  `name__id` parsing recovers the name and id a table link was built from.
* **Detail views.** An edit is sent to the object whose name the header
  shows.
* **File editors.** A saved policy or report is listed once. A save uses PUT
  exactly when the object exists.
* **Session.** Once the session has ended, a user still on a table view is
  brought to the login page, and polling stops there.

## 2. Plan

Modules, in order of importance (1-4 and 6-8 are built, 8 in part):

1. `TableRefresh` (built): the refresher and the node, device and policy
   tables, the user writes that rebuild them, view switching, and the
   session: logout, expiry, the 401 handler's reload of `/ui` and re-login.
2. `Dashboard` (built): the `#home-view` and `#reportFile-view` tick cases,
   `buildDashboard` with its two chained GETs and the orphan-device
   TypeError, `buildTree`, `buildDashReports` and `initializeDashTimer`.
   Properties: the tree eventually current (expected violation, from
   reordered builds and the initialize race) and tokens backed by a build.
   The report case's fall-through into the home case is modelled; it
   only sends extra HEADs.
3. `Alarms` (built): the long poll and the alarm table. Abstract spec
   `AlarmQueue` (a list that alarms enter in arrival order and leave only
   when cleared), refined by `Alarms` through `INSTANCE ... WITH`, and
   liveness of polling.
4. `TreeExpansion` (built): the expand/collapse callbacks on
   `expanded_tree_nodes`, with `splice`'s index conversion, checked against
   the abstract `ExpandedSet` (violation).
5. `DetailView`: `showNodeDetail`/`buildConfigTable` and the config-item
   writes, for overlapping navigations. Property: the PATCH target equals
   the node in the header (expected violation).
6. `PolicyEditor` and `ReportEditor` (built): the policy save with its
   click-time `policyExists` and the rows it adds; the report save's
   `reportExists` choice between POST and PUT, and the row its POST adds.
7. `Router` (built): the ordered route list over paths built from a small
   alphabet of tokens. First-match dispatch, the greedy `name__id` parse
   and the decodes of each route, checked against the links the tables
   produce; the device detail table's asynchronous load.
8. `App`: composes `TableRefresh` and `Dashboard` over one view and one
   timer. The 401 reload and logout are built into `TableRefresh`; the
   composition with the dashboard and the alarm long poll is not.

Bounds:

* One collection per table run, or the two collections the dashboard tree
  joins.
* One or two changes per collection (`MaxVersion`).
* Three requests in flight (four on the report page).
* At most one or two failed requests.
* Three alarms.
* Router: names of at most two tokens, two devices, and two device loads
  in flight.
* Tree: two nodes and an array of at most three entries. Two nodes are
  enough for the splice to remove the wrong one.
* Policies: two names, two requests in flight and one write by another
  client. Reports: two names, two requests in flight, no other client (the
  defect needs none).
* Session: one end of the session (`MaxSessionEnds`), by expiry or by
  logout, followed by the login page and a re-login.

Every hazard listed in `PROJECT.json` needs at most two overlapping
requests and two changes, and these bounds allow both. Larger bounds take
the state space past TLC's reach within minutes: two list tables at once
already exceed 10 million states.

## 3. Modules built

### TableRefresh (`TableRefresh.tla`, instantiated by `MC_TableRefresh.tla`)

State:

* `view`: the visible view, `currentView()`.
* `timerOn`: `updateTimer` is set.
* `srv`, `stamp`: the server's version of each collection and the token it
  reports. `Last-Modified` for nodes and devices; a commit id for policies.
* `tag`: `modifiedTag`; `None` stands for `""`.
* `rows`: for each table, the sequence of versions whose rows were
  appended since it was last emptied. A correct table is `<<srv[r]>>`.
* `net`: a bag of requests in flight, each `sent`, `ok` (with the version
  or token read) or `fail`.
* `fails`, `addNodeHidden`: failed requests so far; whether `#add-new-node`
  is hidden.
* `session`, `page`, `ends`: whether the server still holds the session;
  whether the document is the app or the login page written by the 401
  handler; logouts and expiries so far.

A collection's content is abstracted to its version number. Row and cell
markup, the check-in timestamps and `setRoleBasedOptions` are left out; the
user is assumed to be an admin.

Actions:

* `TimerTick`: `onTimerTick` sends a HEAD request.
* `Receive(m)` runs a callback:
  * `OnHeadDone` is the diff: when the token differs, empty the table, send
    the GET, record the token.
  * `OnGetDone` appends the answer's rows.
  * `OnWriteDone` rebuilds after an add or a delete, but not after the name
    PATCH.
* `UserWrite`: `onAddNode`, `onAddDevice`, and the delete and edit buttons,
  each in its own view.
* `OnUnauthorized` (the `ajaxComplete` handler sends GET `/ui` on any 401)
  and `OnUiDone` (its `.done` clears the timer and writes the login page).
  Callbacks of requests still in flight keep running after that.
* `ShowView`; `Logout` (clear the timer, POST `/ui/logout`); `Login` (the
  user signs in on the login page and `$(document).ready` runs again, with
  the old document's requests aborted).
* The backend: `ServerOk`, `ServerFail` (a failed write may or may not have
  been applied), `ServerUnauthorized` (every request but GET `/ui` gets a
  401 once the session has ended), `Expire` and `OtherClientWrite`.

Fairness: the interval timer fires while it is set (`WF` on `TimerTick`).
The server answers every request and the browser runs every callback
(`WF` per request). User actions and other clients are not fair: the user
may do nothing.

Runs (`MC_TableRefresh`):

| Run | Config | Expect | What it shows |
|---|---|---|---|
| tables_live | `TableRefresh_live.cfg` (devices, 2 versions, 3 in flight, no failures, one session end) | pass | `TagCovered`: while the session is valid, a recorded token is always backed by a fetch. `EventuallyIncludesCurrent`: a watched table eventually shows the current rows for good, also after a re-login. `ExpiredSessionShowsLogin`: once the session has ended, a user who stays on a table view with the timer running is eventually shown the login page. |
| tables_unreliable | `TableRefresh_unreliable.cfg` (nodes, 1 failure, coarse stamps) | pass | `EventuallyTagCurrent`: the token settles despite failures and reordered HEAD answers. |
| tables_stale_rows | `TableRefresh_stale_rows.cfg` | violation | Overlapping rebuilds append twice: duplicated or outdated rows stay for good (finding). |

In the shortest stale-rows trace, the initial `buildDeviceTable` GET is
still in flight when the first tick's HEAD answer arrives. `modifiedTag` is
`""`, so the tick rebuilds too. Both answers are appended, and every device
is listed twice from then on.

The policy table (commit-id tokens) is modelled by the same actions; no
run of its own is kept for it. Two more defects show up when the live
configuration is changed, though no run is kept for them:

* With `CoarseStamps = TRUE`, `EventuallyIncludesCurrent` fails: two device
  changes in one second keep the Last-Modified token, so the table stays
  stale.
* With `MaxFail = 1`, `EventuallyIncludesCurrent` also fails: a failed GET
  after a token change leaves the table empty for good.

Mutants (each makes its property fail):

* `TimerTickFallthrough`: a missing `break`, the same slip the code makes
  at line 137.
* `OnHeadDoneTagAlways`: the token recorded outside the `if`.
* `OnHeadDoneOnlyFirst`: the diff reduced to the `== ""` test.
* `OnUnauthorizedGetOnly`: the 401 handled only for a refused GET, as a
  `$.get` error callback would do. The timer's refused HEADs are then
  ignored, and the user stays on the stale table for good.

`TagCovered` is required only while the session is valid. After the end of
the session, a HEAD answered before the end can record a token whose GET is
refused with a 401. That is harmless, because the page is bound for the
login page and a fresh `$(document).ready`. `ExpiredSessionShowsLogin`
makes no claim after `onLogout`. `onLogout` clears the timer and does not
navigate, so nothing sends a request until the user acts.

### Dashboard (`Dashboard.tla`, instantiated by `MC_Dashboard.tla`)

State:

* `view`, `srv`: as in TableRefresh. A token is the version at which it
  was minted.
* `devNeed[v]`: the oldest node version that holds the parent of every
  device of device version `v`. A device change may add a device under
  the newest node.
* `tagDash`, `tagReport`: `modifiedTagDash` and `modifiedTag.Report`.
* `tree`: the node and device versions `buildTree` last rendered.
* `pane`: the versions whose reports `#dashboard-reports` lists.
* `content`: the report version `#reportFile-content` shows.
* `net`, `fails`: requests in flight, tagged by call site (`kind`), and
  failures so far.

Actions:

* `TimerTick`: on `#home-view` it sends the three HEADs (`HomeCase`). On
  `#reportFile-view` it sends the report HEAD and, through the missing
  `break`, the home HEADs too.
* `Receive(m)` runs the callback of its call site:
  * `OnTickDashDone`: compare, then `buildDashboard` or `buildDashReports`
    and record the token.
  * `OnTickFileDone`: compare, then `ajaxGetReportContent`.
  * `OnInitDashDone`: `initializeDashTimer` stores the token blindly.
  * `OnGetNodesDone`: chains the devices GET, carrying the node version
    read.
  * `OnGetDevicesDone`: builds the tree unless a device's parent is
    missing, which is the TypeError.
  * `OnGetReportsDone`, `OnGetContentDone`: append to the pane; replace the
    content.
  * `OnFail`: a failed request runs no `.done`.
* `ShowView`, and the backend: `ServerOk`, `ServerFail`,
  `OtherClientWrite`.

The HEADs of the three collections are independent. Each run therefore
polls either nodes and devices (`MCTreeCols`) or the reports alone
(`MCReportCols`). All three together exceed a million states within
minutes.

Fairness is the same as in TableRefresh.

| Run | Config | Expect | What it shows |
|---|---|---|---|
| dashboard_tree_tags | `Dashboard_tree_tags.cfg` (nodes and devices, 1 change each, 3 in flight, 1 failure) | pass | `EventuallyDashTagsCurrent`: the tokens settle on the server's. |
| dashboard_report_tags | `Dashboard_report_tags.cfg` (reports, 2 changes) | pass | The same for the reports commit id, including ticks on the report page. |
| dashboard_tree_stale | `Dashboard_tree_stale.cfg` | violation | `EventuallyTreeCurrent` fails. The page loads, and the initial `buildDashboard`'s GET /node answers. Another client then changes a node, before `initializeDashTimer`'s node HEAD answers. The HEAD stores the new token without rebuilding, so every later tick finds it equal, and the tree keeps the old nodes for good (finding). In the trace a device also changed first, but the chained GET /device was sent after that change, so the tree shows the current devices. Only the node change, made between the build's read and the token store, leaves the tree stale. |
| dashboard_orphan_device | `Dashboard_orphan.cfg` | violation | `DevicesHaveParents` fails. A node and a device under it are added between the two GETs of `buildDashboard`, so the devices loop throws (finding). |

`ajaxGetReportContent` (`OnGetContentDone`) is modelled as well. Two
overlapping re-reads of a report can leave the older content on the page
for good. This is the same last-answer-wins pattern that
router_config_header shows, so no run is kept for it.

The reports pane has the empty-then-append defect of the list tables.
Starting from page load, the initial `buildDashReports` GET can be appended
after a tick has emptied the pane. The model shows this, but no run is kept
for it; see the tables_stale_rows finding.

Mutants:

* `OnGetNodesDoneLost`: the chained GET loses the node answer.
* `OnTickDashDoneOnlyFirst`: the diff is reduced to the `""` test.

### Alarms (`Alarms.tla`, `AlarmQueue.tla`, instantiated by `MC_Alarms.tla`)

`AlarmQueue` is the abstract list the user sees: alarms join at the end,
marks are set one by one or all at once, and `Dismiss` removes exactly the
marked ones. `Alarms` holds the code's state:

* `alarm_array`;
* `rows` of `#alarm-table`, each with the text shown and its checkbox;
* `selectAll`, and `controls` (`setAlarmVisibility`);
* `poll`: the one outstanding `GET /alarm`, or none. `"stopped"` marks
  that the poll gave up after an error.
* The backend's `raised` and `delivered` counts.

Actions:

* `OnPollDone` restarts the poll, pushes the alarm and appends its row.
* `OnPollFail` restarts the poll only after a 408.
* `SelectAllClick` rewrites every row's text from `alarm_array[i]`.
* `CheckRow` is the user ticking one box.
* `ClearAlarms` runs the backward splice loop (`SpliceChecked`, a
  RECURSIVE operator following the loop) and rebuilds the rows.

The refinement mapping `ShownList` pairs `alarm_array[i]` with the box of
row `i`.

Fairness: the backend answers a poll once an alarm is raised, and the
browser runs the callbacks. The user and the raising of alarms are not
fair.

| Run | Config | Expect | What it shows |
|---|---|---|---|
| alarms | `Alarms.cfg` (3 alarms, 2 failures of either kind) | pass | `RowsShowArray` and `AlarmListRefined` (`Alarms` implements `AlarmQueue`): clearing removes exactly the checked alarms after any mix of arrivals, select-all clicks and single ticks. `EventuallyListed`: every raised alarm is listed unless the poll stopped after a non-timeout error, which spec section 7 allows. |

Mutants:

* `SpliceCheckedUp`: a forward walk, which the code's comment warns
  against.
* `ClearAlarmsKeepRows`: the old rows are not removed.
* `OnPollDoneIndex`: an index is pushed instead of the data.
* `OnPollDoneNoRestart`: the poll is not restarted.

### Router (`Router.tla`, instantiated by `MC_Router.tla`)

A path is a sequence of tokens: `"?"`, the route keywords, `"-"`, the
`"__"` separator, the ids, and the tokens names are made of
(`NameTokens`). A token stands for a run of characters that the regular
expressions treat alike. The browser resolves an href by writing a space
as `"%" "20"`. `app.navigate` paths (`onAddPolicy`, `onAddReport`) are
used raw. `Decode` is `decodeURIComponent`: `"%" "20"` becomes a space,
and any other `"%"` throws (`BadEscape`).

State:

* `view`, `nav` and `header`: the visible view, the active tab, and the
  header its screen wrote.
* `loaded`: the argument the view's build was started with.
* `err`: the last screen threw.
* `devName` and `cfgLinks`: the `#device-config-view` table's `devName`
  attribute and its "Config File"/"Metadata" link rows.
* `pending`: a bag of outstanding `GET /device/<id>`.
* `shown`: the config-file and metadata links the user has followed, for
  the back button.
* `target`: a ghost holding the link the last navigation followed.

Actions:

* `Navigate(p, t)` is `startNavigate` together with the screen of the first
  matching route (`RouteOf`, `Matches`). The screens are `IdScreen`,
  `FileScreen`, `ConfigScreen` and `MetadataScreen`. They call
  `ShowDetail`, `LaunchFile` and `ShowDeviceConfig`, the functions of
  `pbconf.js`. A screen that throws (`Fail`) leaves the page as it was
  (`Stay`). The routing and parsing depend only on the path, so
  `ScreenOf` computes the screen of every path a link can produce
  (`Paths`) once. Only the config-file screen reads the page: its header
  is `devName`, decoded when the step runs (`DeviceConfigOutcome`).
  `Outcome(p)` combines the two when the step runs. This is what keeps
  `router_links` to a few seconds.
* The device screen's `buildDeviceConfigTable` empties the link rows and
  sends the GET. `OnDeviceGetDone` sets `devName` and appends the links;
  `OnDeviceGetFail` is the missing failure handler.
* `Click` follows a link of the tab bar, a table, the tree or the reports
  pane. `AddFile` is the add forms' `app.navigate`. `ClickDeviceLink`
  follows a link row of the device table. `Back` re-navigates to a followed
  path.

`startNavigate` and `getSurfaceContent` are one step. senna resolves a plain
`Screen`'s load in promise continuations, so no event runs between them
(nav line 155). No liveness is checked: every step is a user action or a
single answer.

| Run | Config | Expect | What it shows |
|---|---|---|---|
| router_links | `Router_links.cfg` (tokens `x`, space, `__`; device names `__ ` and `x`; 2 loads in flight) | pass | `NavigationReachesTarget`: every link and every back navigation reaches its own route. No screen throws. The view, tab, header and build argument are the link's, including names with spaces and `__`. |
| router_config_header | `Router_config_header.cfg` | violation | `ConfigHeaderNamesDevice` fails. Open device 1, then device 2; both answers append a "Config File" row. Device 1's row then opens its file under device 2's name (finding). |

Names with `%` are not in router_links. With tokens `x`, `%` and `20`, the
same configuration finds, in two steps, a policy named `%` whose link
throws a URIError in the route's decode. A policy named `?home` opens the
home view: `/\?home$/` is tested first.
`NavigationReachesTarget` fails with `NameTokens` that contain `"?"` and
`"home"`; no run is kept for it.

Mutants:

* `SplitFirst`: `name__id` split at the first `__` (a lazy match).
* `OnDeviceGetDoneId`: the answer's id stored as `devName`.

### TreeExpansion (`TreeExpansion.tla`, `ExpandedSet.tla`, instantiated by `MC_TreeExpansion.tla`)

`ExpandedSet` is what the tree promises: a set of expanded nodes that only
the user's expand and collapse change. `TreeExpansion` holds the code's
state:

* `expanded_tree_nodes`;
* `shown`, the nodes the tree widget shows expanded.

Actions:

* `OnNodeExpanded(n)`: the user expands a node and the callback pushes its
  name.
* `OnNodeCollapsed(n)`: the callback calls `Splice(arr, SpliceIndex(n))`.
  `splice` converts a non-numeric name to NaN and then to 0
  (`SpliceIndex`).
* `BuildTree`: the tree is rebuilt with `state.expanded` set from
  `indexOf(name) > -1`. Any node or device change rebuilds it, so this is
  an action on its own.

The property `ExpansionRefined` is `ES!Spec`, with
`ES == INSTANCE ExpandedSet WITH expanded <- shown`. It checks that
`buildTree` is a stuttering step of the abstract set.

No run checks this module at present. Its run was dropped to stay within
the run budget: the defect is synchronous, and a unit test of
`onNodeCollapsed` reaches it. A config with `Nodes <- MCNodes`,
`MaxTracked = 3`, `SPECIFICATION Spec` and `PROPERTY ExpansionRefined`
reproduces the violation in 5 states. Expand alpha, expand beta, collapse
beta: the array is now `[beta]`, so the next rebuild shows beta expanded
and alpha collapsed.

### PolicyEditor (`PolicyEditor.tla`, instantiated by `MC_PolicyEditor.tla`)

State:

* `srv`, the backend's policies;
* `rows` of `#policies-view`;
* `editor`, the `policyName` of the policy file view;
* `net`, a bag of requests and answers: GET `/policy`, PUT, DELETE;
* `writes` by other clients.

Actions:

* Table building: `BuildPoliciesTable` (from page load, a tick's
  `TickRebuild`, and `OnDeleteDone`) and `OnListDone`, which appends the
  answer's names.
* The editor: `OpenPolicy` (`buildPolicyFileView`) and
  `OnSavePolicyFile`, which records `policyExists` at the click.
  `OnPutDone` appends a row unless the policy existed at the click.
* Deleting a row: `DeletePolicyFile`.
* The backend: `ServerOk`, `ServerFail` and `OtherClientWrite`.

Requests are handled and answered in any order.

| Run | Config | Expect | What it shows |
|---|---|---|---|
| policy_duplicate_row | `PolicyEditor.cfg` (2 policies, 2 in flight, 1 other write) | violation | `PolicyListedOnce` fails. A new policy is saved while a GET `/policy` is in flight. The GET answer lists it, and the PUT's `.done` appends it again (finding). |

### ReportEditor (`ReportEditor.tla`, instantiated by `MC_ReportEditor.tla`)

State:

* `srv`, the backend's reports (any set at page load);
* `rows` of `#reports-view`;
* `open`, the `reportName` attribute of `#reportFile-view`;
* `net`, a bag of requests and answers: GET `/reports`, POST, PUT, DELETE;
* `writes` by other clients.

Actions:

* `OnListDone` is `buildReportsTable`'s callback. Only the page load and a
  delete's `OnDeleteDone` build the table: `onTimerTick` has no case for
  `#reports-view`.
* `LaunchReportPage(n)` is the report file view opened by a link, the
  dashboard pane, `onAddReport` or `onCancelReportFile`.
* `OnSaveReportFile` sends a PUT when `reportExists` finds a row, and a
  POST otherwise.
* `OnPostDone` is the POST's `.done`. `ajaxGetReportContent` resets the
  global `reportName` from `open`, and `addRowReportsTable(reportName)`
  appends it.
* `DeleteReportFile`.
* The backend: `ServerOk`, `ServerFail` and `OtherClientWrite`.

| Run | Config | Expect | What it shows |
|---|---|---|---|
| report_wrong_row | `ReportEditor.cfg` (2 reports, 2 in flight, no other client) | violation | `PostedReportListed` fails (finding). Open r1, click Save before the table's GET answers, so a POST is sent. Open r2, then the POST succeeds. The row added names r2, and r1 is never listed, so a later save of r1 POSTs it again. |

The same model reaches a POST of a report the backend already holds
(pbconf.js:609) in three steps: save before the table's GET answers, or
after another client creates the report. What the backend answers to such
a POST is outside this repository, so no property judges it.
`onRunReportFile` is not modelled: it PUTs a stored report to rewrite its
time stamp, which changes neither `srv` nor the table here.

## 4. Not modelled

* The REST backend. It is outside this repository and appears only as an
  environment that answers in any order.
* Markup, styling, role-based hiding, the input-enabling handlers and
  report formatting. These are DOM-only and have no state that any
  property distinguishes.
* senna.js internals beyond first-match dispatch and `startNavigate`:
  screen caching, history state and the surface transitions. The route
  lookup is modelled as senna documents it.
* bootstrap-treeview's own expand and collapse on search
  (`revealResults`) and on clear search (`collapseAll`). Whether these
  fire `onNodeExpanded` and `onNodeCollapsed` is the library's behaviour,
  and the library is outside this repository.
* `handleNavigation` (nav 160-166) has no caller in this repository.
* The first `showDeviceMetadata` (pbconf 1004) is overridden by the second
  (1190), which is the one modelled.
* The alarm long poll after the end of the session. `onLogout` does not
  stop it, and its 401 also triggers the reload of `/ui`. `Alarms` has no
  session, so this composition is left out. Within `TableRefresh`, the
  timer's requests already lead to the login page.
