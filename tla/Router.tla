------------------------------ MODULE Router ------------------------------
(***************************************************************************)
(* The senna router of pbc-senna-nav.js and the screens it dispatches to   *)
(* in pbconf.js: a navigation takes the path of a link, the first route    *)
(* whose regular expression matches it picks the screen, and the screen    *)
(* parses the name and id out of calling_path, writes the view's header,   *)
(* starts the view's build function, shows the view and highlights the     *)
(* navigation bar.                                                          *)
(*                                                                         *)
(* A path is a sequence of tokens: "?", the route keywords, "-", the "__"  *)
(* separator, the ids and the tokens names are made of (NameTokens).  The  *)
(* browser resolves an href by writing a space as "%" "20"; decoding turns *)
(* "%" "20" back into a space and throws a URIError on any other "%".       *)
(*                                                                         *)
(* The device detail view is built asynchronously: buildDeviceConfigTable  *)
(* empties the table and its GET /device/<id> answer sets the table's      *)
(* devName attribute and appends the "Config File" and "Metadata" link     *)
(* rows.  The config-file view takes its header from that attribute.       *)
(***************************************************************************)
EXTENDS Naturals, Sequences, SequencesExt, Bags, BagsExt

CONSTANTS
    NameTokens,   \* the characters names are made of, e.g. "x", " ", "__"
    MaxNameLen,   \* bound on the length of a policy or report name
    Ids,          \* node and device ids
    NameOf,       \* the name of the node or device with each id
    MaxInFlight   \* bound on outstanding GET /device/<id>

Names == {s \in SeqOf(NameTokens, MaxNameLen) : s # <<>>}

ASSUME NameOf \in [Ids -> Names] /\ Ids \cap NameTokens = {}

VARIABLES
    view,      \* the view showView made visible
    nav,       \* the navigation bar item marked active
    header,    \* the header of the visible view, as written by its screen
    loaded,    \* what the visible view's build function was started with
    err,       \* the last screen threw (URIError, TypeError)
    devName,   \* devName attribute of the #device-config-view table
    cfgLinks,  \* link rows of the #device-config-view table: ids
    shown,     \* config-file and metadata links the user has been shown
    pending,   \* outstanding GET /device/<id>: a bag of ids
    target     \* the link the last navigation followed: kind, name, arg

vars == <<view, nav, header, loaded, err, devName, cfgLinks, shown, pending, target>>

ListRoutes == <<"home", "nodes", "devices", "policies", "reports">>
DetailRoutes == <<"node", "device", "policy", "report", "deviceconfig", "devicemetadata">>
\* The routes in the order app.addRoutes registers them.
Routes == ListRoutes \o DetailRoutes

ViewOf == [home |-> "#home-view", nodes |-> "#node-view", devices |-> "#device-view",
           policies |-> "#policies-view", reports |-> "#reports-view",
           node |-> "#config-view", device |-> "#device-config-view",
           policy |-> "#policyFile-view", report |-> "#reportFile-view",
           deviceconfig |-> "#device-configFile-view",
           devicemetadata |-> "#device-metaFile-view"]
NavOf == [home |-> "home", nodes |-> "nodes", devices |-> "devices",
          policies |-> "policies", reports |-> "reports", node |-> "nodes",
          device |-> "devices", policy |-> "policies", report |-> "reports",
          deviceconfig |-> "devices", devicemetadata |-> "devices"]

Undefined == <<"undefined">>   \* decodeURIComponent(undefined)
NoArg == <<>>
Target == [kind : ToSet(Routes), name : Names \cup {NoArg}, arg : Names \cup {<<i>> : i \in Ids} \cup {NoArg}]

TypeOK ==
    /\ view \in {ViewOf[r] : r \in ToSet(Routes)}
    /\ nav \in {NavOf[r] : r \in ToSet(Routes)}
    /\ header \in Names \cup {Undefined, NoArg}
    /\ loaded \in [kind : ToSet(Routes), arg : Names \cup {<<i>> : i \in Ids} \cup {NoArg}]
    /\ err \in BOOLEAN
    /\ devName \in Names \cup {Undefined}
    /\ cfgLinks \subseteq Ids /\ shown \subseteq [kind : {"deviceconfig", "devicemetadata"}, id : Ids]
    /\ IsABag(pending) /\ BagToSet(pending) \subseteq Ids
    /\ target \in Target

(***************************************************************************)
(* Strings.                                                                *)
(***************************************************************************)
\* Positions at which s occurs in t.
InfixAt(s, t) == {i \in 1..(Len(t) - Len(s) + 1) : SubSeq(t, i, i + Len(s) - 1) = s}

\* The href as the browser resolves it: a space is written "%20".
EncodeHref(s) == FlattenSeq([i \in DOMAIN s |-> IF s[i] = " " THEN <<"%", "20">> ELSE <<s[i]>>])

\* decodeURIComponent throws on a "%" that is not a valid escape.
BadEscape(s) == \E i \in DOMAIN s : s[i] = "%" /\ (i = Len(s) \/ s[i + 1] # "20")

\* decodeURIComponent of a string without a bad escape.
Decode(s) == FlattenSeq([i \in DOMAIN s |->
                 IF s[i] = "%" THEN <<" ">>
                 ELSE IF i > 1 /\ s[i - 1] = "%" THEN <<>> ELSE <<s[i]>>])

\* The route regular expressions: /\?home$/ ... /\?reports$/, /\?node-*/,
\* /\?device-.*/, /\?policy-.*/, ...
Matches(r, p) ==
    CASE r \in ToSet(ListRoutes) -> IsSuffix(<<"?", r>>, p)
      [] r = "node" -> InfixAt(<<"?", "node">>, p) \cup InfixAt(<<"?", "nodes">>, p) # {}
      [] OTHER -> InfixAt(<<"?", r, "-">>, p) # {}

\* senna takes the first route that matches the path.
RouteOf(p) ==
    LET ms == {i \in DOMAIN Routes : Matches(Routes[i], p)}
    IN IF ms = {} THEN "none" ELSE Routes[Min(ms)]

\* What /kw-(.*)/ captures: the rest after the first "kw-".
After(kw, s) ==
    LET at == InfixAt(<<kw, "-">>, s)
    IN IF at = {} THEN NoArg ELSE SubSeq(s, Min(at) + 2, Len(s))

\* Mutant: the first group ends at the first "__" (a lazy (.*?)).
SplitFirst(s) == Min({i \in DOMAIN s : s[i] = "__"})

\* The greedy first group of /(.*)__(.*)/ ends at the last "__".
SplitAt(s) == Max({i \in DOMAIN s : s[i] = "__"})
HasSplit(s) == \E i \in DOMAIN s : s[i] = "__"
NamePart(s) == SubSeq(s, 1, SplitAt(s) - 1)
IdPart(s) == SubSeq(s, SplitAt(s) + 1, Len(s))

(***************************************************************************)
(* Screens.  A screen's outcome: the view, the navigation item, the header *)
(* and the build it starts, or Fail when it throws.  Only the config-file  *)
(* screen reads the page (the devName attribute); every other outcome is a *)
(* function of the path alone.                                             *)
(***************************************************************************)
Fail == [err |-> TRUE, cfg |-> FALSE]

Show(r, h, a) == [err |-> FALSE, cfg |-> FALSE, view |-> ViewOf[r], nav |-> NavOf[r],
                  header |-> h, loaded |-> [kind |-> r, arg |-> a]]

\* showNodeDetail, showDeviceDetail, showDeviceMetadata: the header is
\* decodeURIComponent(name), then the build of the id and the view.
ShowDetail(r, name, id) ==
    IF BadEscape(name) THEN Fail ELSE Show(r, Decode(name), id)

\* launchReportPage, and launchPolicyPage's buildPolicyFileView: the header
\* decodes the name, the GET is sent with the name as given.
LaunchFile(r, name) ==
    IF BadEscape(name) THEN Fail ELSE Show(r, Decode(name), name)

\* showDeviceConfig: the header is the table's devName attribute, decoded
\* when the screen runs (DeviceConfigOutcome).
ShowDeviceConfig(id) == [err |-> FALSE, cfg |-> TRUE, id |-> id]

\* The node and device routes: calling_path.match(/node-(.*)__(.*)/), a
\* null match throws a TypeError.
IdScreen(r, p) ==
    LET rest == After(r, p)
    IN IF ~HasSplit(rest) THEN Fail ELSE ShowDetail(r, NamePart(rest), IdPart(rest))

\* The policy and report routes: decodeURIComponent(calling_path), then
\* /policy-(.*)/.
FileScreen(r, p) ==
    IF BadEscape(p) THEN Fail ELSE LaunchFile(r, After(r, Decode(p)))

\* The deviceconfig route: decodeURIComponent(calling_path), then
\* /deviceconfig-(.*)/.
ConfigScreen(p) ==
    IF BadEscape(p) THEN Fail ELSE ShowDeviceConfig(After("deviceconfig", Decode(p)))

\* The devicemetadata route: decodeURIComponent(calling_path), then
\* /devicemetadata-(.*)__(.*)/; the name is decoded a second time.
MetadataScreen(p) ==
    LET rest == After("devicemetadata", Decode(p))
    IN IF BadEscape(p) \/ ~HasSplit(rest) THEN Fail
       ELSE ShowDetail("devicemetadata", NamePart(rest), IdPart(rest))

\* The getSurfaceContent of the screen of the first matching route.
Screen(p) ==
    LET r == RouteOf(p)
    IN CASE r \in ToSet(ListRoutes) -> Show(r, NoArg, NoArg)
         [] r \in {"node", "device"} -> IdScreen(r, p)
         [] r \in {"policy", "report"} -> FileScreen(r, p)
         [] r = "deviceconfig" -> ConfigScreen(p)
         [] r = "devicemetadata" -> MetadataScreen(p)
         [] OTHER -> Fail

(***************************************************************************)
(* Links.  The href each link builder writes for a target.                 *)
(***************************************************************************)
Href(t) ==
    CASE t.kind \in ToSet(ListRoutes) -> <<"?", t.kind>>
      [] t.kind \in {"policy", "report"} -> <<"?", t.kind, "-">> \o t.name
      [] t.kind = "deviceconfig" -> <<"?", t.kind, "-">> \o t.arg
      [] OTHER -> <<"?", t.kind, "-">> \o t.name \o <<"__">> \o t.arg

ItemLink(r, i) == [kind |-> r, name |-> NameOf[i], arg |-> <<i>>]
FileLink(r, n) == [kind |-> r, name |-> n, arg |-> n]
ListLink(r) == [kind |-> r, name |-> NoArg, arg |-> NoArg]

\* The links of the pages, and the paths they navigate to: a clicked link
\* as the browser resolves its href, onAddPolicy/onAddReport's raw path.
ClickTargets ==
    {ListLink(r) : r \in ToSet(ListRoutes)}
    \cup {ItemLink(r, i) : r \in {"node", "device", "deviceconfig", "devicemetadata"}, i \in Ids}
    \cup {FileLink(r, n) : r \in {"policy", "report"}, n \in Names}
Paths ==
    {EncodeHref(Href(t)) : t \in ClickTargets}
    \cup {Href(FileLink(r, n)) : r \in {"policy", "report"}, n \in Names}

\* The screen of each path, computed once.
ScreenOf == [p \in Paths |-> Screen(p)]

\* A screen that throws leaves the page as it was: nothing after the throw
\* runs.
Stay == [err |-> TRUE, view |-> view, nav |-> nav, header |-> header, loaded |-> loaded]

\* showDeviceConfig when it runs: decodeURIComponent of devName.
DeviceConfigOutcome(id) ==
    IF BadEscape(devName) THEN Stay ELSE Show("deviceconfig", Decode(devName), id)

Outcome(p) ==
    LET s == ScreenOf[p]
    IN IF s.err THEN Stay ELSE IF s.cfg THEN DeviceConfigOutcome(s.id) ELSE s

Init ==
    /\ view = ViewOf.home /\ nav = NavOf.home
    /\ header = NoArg /\ loaded = [kind |-> "home", arg |-> NoArg] /\ err = FALSE
    /\ devName = Undefined /\ cfgLinks = {} /\ shown = {}
    /\ pending = EmptyBag
    /\ target = ListLink("home")

(***************************************************************************)
(* A navigation: startNavigate records the path in calling_path and the    *)
(* screen of the first matching route runs.  The device screen's           *)
(* buildDeviceConfigTable removes the table rows and sends the GET.        *)
(***************************************************************************)
Navigate(p, t) ==
    LET s == Outcome(p)
        gets == ~s.err /\ s.loaded.kind = "device"
    IN /\ err' = s.err /\ view' = s.view /\ nav' = s.nav
       /\ header' = s.header /\ loaded' = s.loaded
       /\ target' = t
       /\ IF gets
          THEN /\ BagCardinality(pending) < MaxInFlight
               /\ pending' = pending (+) SetToBag({s.loaded.arg[1]})
               /\ cfgLinks' = {}
          ELSE UNCHANGED <<pending, cfgLinks>>
       /\ UNCHANGED devName

\* The user follows a link of a page: the navigation bar, the node and
\* device tables and tree, the policy and report tables, the reports pane.
Click(t) == Navigate(EncodeHref(Href(t)), t) /\ UNCHANGED shown

\* onAddPolicy / onAddReport: app.navigate('/ui?policy-' + name), raw.
AddFile(t) == Navigate(Href(t), t) /\ UNCHANGED shown

\* The "Config File" and "Metadata" rows the GET /device answer appended.
ClickDeviceLink(k, i) ==
    /\ view = ViewOf.device /\ i \in cfgLinks
    /\ Navigate(EncodeHref(Href(ItemLink(k, i))), ItemLink(k, i))
    /\ shown' = shown \cup {[kind |-> k, id |-> i]}

\* The browser's back and forward buttons: senna navigates to a path of
\* the history again.
Back(l) ==
    /\ Navigate(EncodeHref(Href(ItemLink(l.kind, l.id))), ItemLink(l.kind, l.id))
    /\ UNCHANGED shown

\* Mutant: the answer's id is stored as the device name.
OnDeviceGetDoneId(i) ==
    /\ pending' = BagRemove(pending, i)
    /\ devName' = <<i>>
    /\ cfgLinks' = cfgLinks \cup {i}
    /\ UNCHANGED <<view, nav, header, loaded, err, shown, target>>

(* buildDeviceConfigTable's $.get callback: sets the table's id, devName   *)
(* and parentNodeId attributes and appends the item rows and the links.    *)
OnDeviceGetDone(i) ==
    /\ pending' = BagRemove(pending, i)
    /\ devName' = NameOf[i]
    /\ cfgLinks' = cfgLinks \cup {i}
    /\ UNCHANGED <<view, nav, header, loaded, err, shown, target>>

\* The $.get has no failure handler.
OnDeviceGetFail(i) ==
    /\ pending' = BagRemove(pending, i)
    /\ UNCHANGED <<view, nav, header, loaded, err, devName, cfgLinks, shown, target>>

Next ==
    \/ \E r \in ToSet(ListRoutes) : Click(ListLink(r))
    \/ \E r \in {"node", "device"}, i \in Ids : Click(ItemLink(r, i))
    \/ \E r \in {"policy", "report"}, n \in Names : Click(FileLink(r, n)) \/ AddFile(FileLink(r, n))
    \/ \E k \in {"deviceconfig", "devicemetadata"}, i \in Ids : ClickDeviceLink(k, i)
    \/ \E l \in shown : Back(l)
    \/ \E i \in BagToSet(pending) : OnDeviceGetDone(i) \/ OnDeviceGetFail(i)

Spec == Init /\ [][Next]_vars

-----------------------------------------------------------------------------
(***************************************************************************)
(* Properties.                                                             *)
(***************************************************************************)

(* Every link reaches its screen: the route that matches its path is the   *)
(* link's own, no screen throws, the view and the navigation item are the  *)
(* link's, the header names what the link names, and the build starts     *)
(* with the id or name the link carries.  The screens split                *)
(* "node-<name>__<id>" at the last "__" and decode the path and the name   *)
(* a different number of times on each route.                              *)
NavigationReachesTarget ==
    /\ ~err
    /\ view = ViewOf[target.kind] /\ nav = NavOf[target.kind]
    /\ loaded = [kind |-> target.kind, arg |-> target.arg]
    /\ target.kind # "deviceconfig" => header = target.name

(* The config-file view's header names the device whose file it loads:     *)
(* showDeviceConfig reads the name from the devName attribute that the     *)
(* latest GET /device answer wrote, not from the path.                     *)
ConfigHeaderNamesDevice ==
    view = ViewOf.deviceconfig => header = NameOf[loaded.arg[1]]

=============================================================================
