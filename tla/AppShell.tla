------------------------------ MODULE AppShell ------------------------------
(***************************************************************************)
(* The shell of the web page, frontend/src/App.tsx with lib/router.ts and  *)
(* lib/tabs.ts: signing in, the list of open tabs and the active one, the  *)
(* session kept in localStorage, and the URL that mirrors the active tab   *)
(* and opens the tab it names.                                             *)
(*                                                                         *)
(* React renders after the states a handler set have changed, and then     *)
(* runs the effects that depend on them, in their order, before anything   *)
(* else happens. All effects of one commit see the states of that render,  *)
(* so that an effect does not see what an earlier one has just set. Here   *)
(* "changed" names the states that changed since the effects ran, and no   *)
(* handler runs while there are any.                                       *)
(*                                                                         *)
(* Abstractions.                                                           *)
(*  - A route is one of Routes or Welcome. A tab is its id and its route;  *)
(*    an id is made of the route, that of a query tab has a number too.    *)
(*  - Back and Forward may lead to any route: a session has been anywhere. *)
(*  - A handler that sets states after an await has the tabs and the       *)
(*    active tab of the render it was created in; they are kept with the   *)
(*    call. Themes, titles, dialogs, the sidebar's width, which tabs have  *)
(*    unsaved SQL and which are mounted are left out.                      *)
(*  - While a handler waits the user does one thing to the tabs and no     *)
(*    more, and nothing after "overlapped".                                *)
(*  - Another window keeps its session under the same keys, at any time:  *)
(*    one of OtherSessions. A write of the session may fail, which nobody  *)
(*    is told.                                                             *)
(*  - MaxTabs bounds what the user opens and MaxCalls the calls in flight. *)
(***************************************************************************)
EXTENDS Naturals, FiniteSets, Sequences, SequencesExt, Sublists

CONSTANTS Routes, Welcome, Connections, OtherSessions, MaxTabs, MaxCalls, None

(* An id is the route and, for a query, a number.                          *)
Tabs == {t \in [id : [of : Routes, n : Nat], route : Routes] : t.id.of = t.route}

ASSUME RoutesAssumption ==
  \A r \in Routes : r.kind \in {"table", "query", "generic"} /\ r.connection \in Connections
ASSUME SessionsAssumption ==
  \A s \in OtherSessions : s = [tabs |-> s.tabs, active |-> s.active] /\ s.tabs \in Seq(Tabs)
ASSUME BoundsAssumption == MaxTabs \in Nat /\ MaxCalls \in Nat

VARIABLES
  auth,                \* "checking", "login" or "ready"
  connections, loaded, \* those known, and whether the list has come
  tabs, active,        \* the open tabs and the id of the active one
  route,               \* what the URL says
  restored, pendingRoute,  \* restoredReady, initialRoutePending
  changed,
  stored,              \* localStorage: the tabs and the active one
  calls,
  back,                \* history: Back, Forward or loading the page has set the
                       \* URL, and the effects have not come to an end since
  unsaved,             \* history: since the page's last write of its session a
                       \* write has failed, or another window has written its own
  overlapped           \* history: tabs were opened or closed while a handler
                       \* that sets them waited, or a tab took another's name,
                       \* here or in a window whose session is stored

shellVars == <<auth, connections, loaded, tabs, active, route, restored,
               pendingRoute, changed, stored, calls, back, unsaved, overlapped>>
sessionVars == <<auth, restored, stored, unsaved>>
historyVars == <<back, overlapped>>

Ids(list) == {list[i].id : i \in DOMAIN list}
Distinct(list) == \A i, j \in DOMAIN list : list[i].id = list[j].id => i = j
TabOf(list, id) == list[CHOOSE i \in DOMAIN list : list[i].id = id]
Place(list, id) == CHOOSE i \in DOMAIN list : list[i].id = id

Quiet == changed = {}

ShellInit ==
  /\ auth = "checking"
  /\ connections = {} /\ loaded = FALSE
  /\ tabs = <<>> /\ active = None
  /\ route = Welcome
  /\ restored = FALSE /\ pendingRoute = TRUE
  /\ changed = {} /\ calls = {}
  /\ stored = [tabs |-> <<>>, active |-> None]
  /\ back = TRUE /\ unsaved = FALSE /\ overlapped = FALSE

-----------------------------------------------------------------------------
(* The effects *)

(* tabMatchesRoute: several query tabs may share a route. *)
Matching(list, r) == {i \in DOMAIN list : list[i].route = r}

RouteFromTab(list, id) == IF id \in Ids(list) THEN TabOf(list, id).route ELSE Welcome

(* tabFromRoute; the number of a query tab is a new one. *)
IdOf(r, n) == [of |-> r, n |-> n]
NewNumber ==
  CHOOSE n \in 1..(Len(tabs) + 1) :
    \A id \in Ids(tabs) : id.n # n
TabFromRoute(r) == [id |-> IdOf(r, IF r.kind = "query" THEN NewNumber ELSE 0), route |-> r]

Restores == "auth" \in changed /\ auth = "ready" /\ ~restored

(* Mutant: the effect depends on the active tab as well. *)
RouteEffectOnActive ==
  /\ changed \cap {"route", "connections", "auth", "restored", "active"} # {}
  /\ auth = "ready" /\ restored /\ route # Welcome
  /\ RouteFromTab(tabs, active) # route

(* The URL's tab is opened or activated if it is not the active one. *)
RouteEffect ==
  /\ changed \cap {"route", "connections", "auth", "restored"} # {}
  /\ auth = "ready" /\ restored /\ route # Welcome
  /\ RouteFromTab(tabs, active) # route

Activates == RouteEffect /\ Matching(tabs, route) # {}
Opens == RouteEffect /\ Matching(tabs, route) = {} /\ route.connection \in connections

(* Mutant: a connection that does not exist is waited for too. *)
WaitsForever ==
  pendingRoute /\ route # Welcome /\ Matching(tabs, route) = {}

(* On the first rounds the URL is left alone until the effect above has    *)
(* opened its tab, unless there is no such connection.                     *)
WaitsForRoute ==
  /\ pendingRoute /\ route # Welcome /\ Matching(tabs, route) = {}
  /\ ~loaded \/ route.connection \in connections

MirrorEffect ==
  /\ changed \cap {"active", "tabs", "route", "restored", "connections", "loaded"} # {}
  /\ restored /\ ~WaitsForRoute

(* Mutant: a change of the tabs alone is not saved. *)
PersistsOnActive == restored /\ "active" \in changed

Persists == restored /\ changed \cap {"tabs", "active"} # {}

(* The tabs are written, then the active one if there is one. A write that *)
(* fails, the storage being full or forbidden, is ignored and ends them.   *)
StoreSession ==
  LET written == [stored EXCEPT !.tabs = tabs]
  IN \/ ~Persists /\ UNCHANGED <<stored, unsaved>>
     \/ /\ Persists /\ unsaved' = FALSE
        /\ stored' = IF active = None THEN written ELSE [tabs |-> tabs, active |-> active]
     \/ /\ Persists /\ unsaved' = TRUE
        /\ stored' = stored \/ (active # None /\ stored' = written)

AfterEffects ==
  LET tab == TabFromRoute(route)
  IN /\ StoreSession
     /\ restored' = (restored \/ Restores)
     /\ tabs' = CASE Restores -> stored.tabs
                  [] Opens    -> Append(tabs, tab)
                  [] OTHER    -> tabs
     /\ active' = CASE Restores /\ stored.tabs # <<>> ->
                         IF stored.active \in Ids(stored.tabs) THEN stored.active
                         ELSE stored.tabs[1].id
                    [] Activates -> tabs[CHOOSE i \in Matching(tabs, route) :
                                           \A j \in Matching(tabs, route) : i <= j].id
                    [] Opens     -> tab.id
                    [] OTHER     -> active
     /\ IF MirrorEffect
        THEN pendingRoute' = FALSE /\ route' = RouteFromTab(tabs, active)
        ELSE UNCHANGED <<pendingRoute, route>>

RunEffects ==
  /\ ~Quiet
  /\ AfterEffects
  /\ changed' = (IF tabs' # tabs THEN {"tabs"} ELSE {}) \cup
                (IF active' # active THEN {"active"} ELSE {}) \cup
                (IF route' # route THEN {"route"} ELSE {}) \cup
                (IF restored' # restored THEN {"restored"} ELSE {})
  /\ back' = (back /\ ~(changed' = {} /\ restored'))
  /\ UNCHANGED <<auth, connections, loaded, calls, overlapped>>

-----------------------------------------------------------------------------
(* Signing in, and the list of connections *)

CheckAuth(answer) ==
  /\ Quiet /\ auth = "checking" /\ answer \in {"login", "ready"}
  /\ auth' = answer /\ changed' = {"auth"}
  /\ UNCHANGED <<connections, loaded, tabs, active, route, restored, pendingRoute,
                 stored, unsaved, calls, historyVars>>

(* The login screen succeeds, or a call finds the session gone. *)
SignIn == /\ Quiet /\ auth = "login" /\ auth' = "ready" /\ changed' = {"auth"}
          /\ UNCHANGED <<connections, loaded, tabs, active, route, restored,
                         pendingRoute, stored, unsaved, calls, historyVars>>

Unauthorized ==
  /\ Quiet /\ auth = "ready" /\ auth' = "login" /\ changed' = {"auth"}
  /\ UNCHANGED <<connections, loaded, tabs, active, route, restored, pendingRoute,
                 stored, unsaved, calls, historyVars>>

HandleLogout ==
  /\ Quiet /\ auth = "ready" /\ auth' = "login"
  /\ tabs' = <<>> /\ active' = None
  /\ changed' = {"auth", "tabs", "active"}
  /\ UNCHANGED <<connections, loaded, route, restored, pendingRoute, stored, unsaved,
                 calls, historyVars>>

(* The list is asked for on signing in and whenever a dialog or the        *)
(* sidebar has changed it: it may come at any time. One that comes is a    *)
(* new list even if it is equal; without an answer the old one stays and   *)
(* counts as loaded.                                                       *)
ListAnswers(list) ==
  /\ Quiet /\ restored
  /\ connections' = list /\ loaded' = TRUE
  /\ changed' = {"connections"} \cup (IF loaded THEN {} ELSE {"loaded"})
  /\ UNCHANGED <<auth, tabs, active, route, restored, pendingRoute, stored, unsaved,
                 calls, historyVars>>

ListFails ==
  /\ Quiet /\ restored
  /\ loaded' = TRUE /\ changed' = IF loaded THEN {} ELSE {"loaded"}
  /\ UNCHANGED <<auth, connections, tabs, active, route, restored, pendingRoute, stored, unsaved,
                 calls, historyVars>>

-----------------------------------------------------------------------------
(* Tabs *)

(* setTabs makes a new list, setActiveId may set the same id. *)
SetTabs(list, id) ==
  /\ tabs' = list /\ active' = id
  /\ changed' = {"tabs"} \cup (IF id = active THEN {} ELSE {"active"})

SetActive(id) ==
  /\ Quiet /\ auth = "ready" /\ id \in Ids(tabs)
  /\ active' = id /\ changed' = IF id = active THEN {} ELSE {"active"}
  /\ UNCHANGED <<tabs, connections, loaded, route, pendingRoute, calls, sessionVars,
                 historyVars>>

(* Ctrl+Alt+arrow, around the bar. *)
CycleTab(right) ==
  /\ active \in Ids(tabs)
  /\ LET at == Place(tabs, active)
     IN SetActive(tabs[IF right THEN (at % Len(tabs)) + 1
                       ELSE ((at + Len(tabs) - 2) % Len(tabs)) + 1].id)

(* Mutant: a table or a view is opened again. *)
OpenTabTwice(r) ==
  /\ Quiet /\ auth = "ready" /\ r.connection \in connections /\ Len(tabs) < MaxTabs
  /\ SetTabs(Append(tabs, TabFromRoute(r)), TabFromRoute(r).id)
  /\ UNCHANGED <<connections, loaded, route, pendingRoute, calls, sessionVars,
                 historyVars>>

(* openTable, openGeneric, openQuery and a foreign key that is followed: a *)
(* table or a view is opened once, a query every time.                     *)
OpenTab(r) ==
  LET tab == TabFromRoute(r)
  IN /\ Quiet /\ auth = "ready" /\ r.connection \in connections
     /\ IF tab.id \in Ids(tabs)
        THEN active' = tab.id /\ UNCHANGED tabs
             /\ changed' = IF tab.id = active THEN {} ELSE {"active"}
        ELSE Len(tabs) < MaxTabs /\ SetTabs(Append(tabs, tab), tab.id)
     /\ UNCHANGED <<connections, loaded, route, pendingRoute, calls, sessionVars,
                    historyVars>>

(* On the connection and database of the active tab. *)
DuplicateQueryTab(id) ==
  /\ Quiet /\ auth = "ready" /\ id \in Ids(tabs) /\ Len(tabs) < MaxTabs
  /\ TabOf(tabs, id).route.kind = "query"
  /\ LET copy == TabFromRoute(TabOf(tabs, id).route)
     IN SetTabs(InsertAt(tabs, Place(tabs, id) + 1, copy), copy.id)
  /\ UNCHANGED <<connections, loaded, route, pendingRoute, calls, sessionVars,
                 historyVars>>

ReorderTabs(from, to) ==
  /\ Quiet /\ {from, to} \subseteq DOMAIN tabs /\ from # to
  /\ SetTabs(InsertAt(RemoveAt(tabs, from), to, tabs[from]), active)
  /\ UNCHANGED <<connections, loaded, route, pendingRoute, calls, sessionVars,
                 historyVars>>

Without(list, ids) == Omit(list, {t \in ToSet(list) : t.id \in ids})

LastId(list) == IF list = <<>> THEN None ELSE list[Len(list)].id

(* The tab that comes to stand in its place, or the last one. *)
Fallback(list, was, id) ==
  LET next == Without(list, {id})
  IN IF was # id THEN was
     ELSE IF id \in Ids(list) /\ Place(list, id) \in DOMAIN next
          THEN next[Place(list, id)].id
          ELSE LastId(next)

(* The user has confirmed if there are unsaved changes. *)
CloseTab(id) ==
  /\ Quiet /\ auth = "ready" /\ id \in Ids(tabs)
  /\ SetTabs(Without(tabs, {id}), Fallback(tabs, active, id))
  /\ UNCHANGED <<connections, loaded, route, pendingRoute, calls, sessionVars, historyVars>>

CloseTabs(ids, then) ==
  /\ Quiet /\ auth = "ready" /\ ids # {}
  /\ LET next == Without(tabs, ids)
         kept == IF active \in ids THEN LastId(next) ELSE active
     IN SetTabs(next, IF then = None THEN kept ELSE then)
  /\ UNCHANGED <<connections, loaded, route, pendingRoute, calls, sessionVars, historyVars>>

CloseOtherTabs(id) == id \in Ids(tabs) /\ CloseTabs(Ids(tabs) \ {id}, id)

CloseTabsToRight(id) ==
  /\ id \in Ids(tabs)
  /\ CloseTabs({tabs[i].id : i \in (Place(tabs, id) + 1)..Len(tabs)}, None)

(* A table has been renamed in its structure view. *)
RenameTab(id, r) ==
  /\ Quiet /\ auth = "ready" /\ id \in Ids(tabs)
  /\ id.of.kind = "table" /\ r.kind = "table" /\ r # id.of
  /\ r.connection = id.of.connection /\ r.database = id.of.database
  /\ SetTabs([i \in DOMAIN tabs |-> IF tabs[i].id = id THEN TabFromRoute(r) ELSE tabs[i]],
             IF active = id THEN IdOf(r, 0) ELSE active)
  /\ overlapped' = (overlapped \/ IdOf(r, 0) \in Ids(tabs))
  /\ UNCHANGED <<connections, loaded, route, pendingRoute, calls, sessionVars, back>>

-----------------------------------------------------------------------------
(* What is dropped *)

(* The sidebar has dropped a database: the tabs of the moment are used. *)
HandleDatabaseDropped(c, d) ==
  /\ Quiet /\ auth = "ready"
  /\ LET gone == {t.id : t \in {x \in ToSet(tabs) :
                        x.route.connection = c /\ x.route.database = d}}
         next == Without(tabs, gone)
     IN SetTabs(next, IF active \in Ids(next) THEN active ELSE LastId(next))
  /\ UNCHANGED <<connections, loaded, route, pendingRoute, calls, sessionVars,
                 historyVars>>

(* A connection is deleted, or a table from its tab, with the tabs as they *)
(* are now.                                                                *)
StartDrop(connection, id) ==
  /\ Quiet /\ auth = "ready" /\ Cardinality(calls) < MaxCalls
  /\ calls' = calls \cup
       {[connection |-> connection, id |-> id, tabs |-> tabs, active |-> active]}
  /\ UNCHANGED <<connections, loaded, tabs, active, route, pendingRoute, changed,
                 sessionVars, historyVars>>

DeleteConnection(c) == c \in connections /\ StartDrop(c, None)
DropTable(id) == id \in Ids(tabs) /\ id.of.kind = "table" /\ StartDrop(None, id)

(* The tabs are set from those the handler has kept; the active tab stays  *)
(* if the kept one is still among them.                                    *)
ConnectionDeleted(k) ==
  /\ Quiet /\ k \in calls /\ k.connection # None
  /\ calls' = calls \ {k}
  /\ connections' = connections \ {k.connection}
  /\ LET next == Omit(k.tabs, {t \in ToSet(k.tabs) : t.route.connection = k.connection})
         id   == IF k.active \in Ids(next) THEN active ELSE LastId(next)
     IN /\ tabs' = next /\ active' = id
        /\ changed' = {"connections", "tabs"} \cup (IF id = active THEN {} ELSE {"active"})
  /\ overlapped' = (overlapped \/ k.tabs # tabs \/ k.active # active)
  /\ UNCHANGED <<loaded, route, pendingRoute, sessionVars, back>>

TableDropped(k) ==
  /\ Quiet /\ k \in calls /\ k.id # None
  /\ calls' = calls \ {k}
  /\ SetTabs(Without(k.tabs, {k.id}),
             IF k.active = k.id THEN Fallback(k.tabs, k.active, k.id) ELSE active)
  /\ overlapped' = (overlapped \/ k.tabs # tabs \/ k.active # active)
  /\ UNCHANGED <<connections, loaded, route, pendingRoute, sessionVars, back>>

DropFails(k) ==
  /\ Quiet /\ k \in calls /\ calls' = calls \ {k}
  /\ UNCHANGED <<connections, loaded, tabs, active, route, pendingRoute, changed,
                 sessionVars, historyVars>>

-----------------------------------------------------------------------------
(* The browser *)

PopState(r) ==
  /\ Quiet /\ r # route /\ Len(tabs) < MaxTabs
  /\ route' = r /\ changed' = {"route"}
  /\ back' = TRUE
  /\ UNCHANGED <<connections, loaded, tabs, active, pendingRoute, calls, sessionVars,
                 overlapped>>

(* The page is loaded anew, at the URL it had or from a link. *)
Reload(r) ==
  /\ stored.tabs # <<>> => Len(stored.tabs) < MaxTabs \/ Matching(stored.tabs, r) # {}
  /\ auth' = "checking" /\ connections' = {} /\ loaded' = FALSE
  /\ tabs' = <<>> /\ active' = None
  /\ route' = r /\ restored' = FALSE /\ pendingRoute' = TRUE
  /\ changed' = {} /\ calls' = {}
  /\ back' = TRUE /\ unsaved' = FALSE
  /\ UNCHANGED <<stored, overlapped>>

(* Another window writes its session, or one of the two items of it.       *)
OtherWindowStores(s) ==
  /\ stored' \in [tabs : {stored.tabs, s.tabs}, active : {stored.active, s.active}]
  /\ unsaved' = (unsaved \/ restored)
  /\ overlapped' = (overlapped \/ ~Distinct(stored'.tabs))
  /\ UNCHANGED <<auth, connections, loaded, tabs, active, route, restored, pendingRoute,
                 changed, calls, back>>

-----------------------------------------------------------------------------
UserNext ==
  \/ \E id \in Ids(tabs) :
       \/ SetActive(id) \/ DuplicateQueryTab(id) \/ CloseTab(id)
       \/ DropTable(id) \/ CloseOtherTabs(id) \/ CloseTabsToRight(id)
       \/ \E r \in Routes : RenameTab(id, r)
  \/ \E right \in BOOLEAN : CycleTab(right)
  \/ \E r \in Routes : OpenTab(r)
  \/ \E from, to \in DOMAIN tabs : ReorderTabs(from, to)
  \/ \E r \in Routes : HandleDatabaseDropped(r.connection, r.database)
  \/ \E c \in connections : DeleteConnection(c)
  \/ SignIn \/ HandleLogout
  \/ \E r \in Routes \cup {Welcome} : PopState(r) \/ Reload(r)

AnswersNext ==
  \/ \E answer \in {"login", "ready"} : CheckAuth(answer)
  \/ Unauthorized
  \/ \E list \in SUBSET Connections : ListAnswers(list)
  \/ ListFails
  \/ \E k \in calls : ConnectionDeleted(k) \/ TableDropped(k) \/ DropFails(k)

(* The bound on what follows a call. *)
StillAsKept == ~overlapped /\ \A k \in calls : k.tabs = tabs /\ k.active = active

WindowNext == RunEffects \/ (StillAsKept /\ UserNext) \/ AnswersNext

OthersNext == \E s \in OtherSessions : OtherWindowStores(s)

ShellNext == WindowNext \/ OthersNext

(* React runs the effects of every render. *)
ShellSpec == ShellInit /\ [][ShellNext]_shellVars /\ WF_shellVars(RunEffects)

-----------------------------------------------------------------------------
(* Properties *)

(* No two tabs have the same id: React keys the panes by it, and a close   *)
(* or a rename would meet both.                                            *)
TabsAreDistinct == ~overlapped => Cardinality(Ids(tabs)) = Len(tabs)

(* App.tsx:183-185 "The active tab is mirrored in the URL", and 346-348: a *)
(* URL that names no tab and no connection does not stay.                  *)
UrlIsActiveTab ==
  (Quiet /\ restored /\ (auth = "ready" \/ ~pendingRoute) /\ (pendingRoute => loaded)) =>
    route = RouteFromTab(tabs, active)

(* A page that is loaded anew finds the tabs it had, unless the last write *)
(* of its session failed or another window has written over it.            *)
SessionIsSaved ==
  (Quiet /\ restored /\ ~unsaved) =>
    stored.tabs = tabs /\ (active # None => stored.active = active)

(* App.tsx:183-185 "so a refresh / shared link / browser back-forward      *)
(* restores the exact view": the effects come to an end. They need not:    *)
(* after Back the effect of the URL and that of the tabs undo each other.  *)
Settles == []<>Quiet

(* They do unless the URL names an open tab that is not the active one:    *)
(* after Back or Forward, or when a deleted connection's handler, with the *)
(* tabs it has kept, changes the active tab and the connections at once.   *)
SettlesUnlessBack == []<>(Quiet \/ back \/ overlapped)
=============================================================================
