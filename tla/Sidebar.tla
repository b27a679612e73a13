------------------------------ MODULE Sidebar ------------------------------
(***************************************************************************)
(* The tree of connections, databases and tables,                          *)
(* frontend/src/components/Sidebar.tsx: rows that are opened and closed,   *)
(* lists that are asked for when a row is opened for the first time or     *)
(* refreshed, and the dialogs that create, copy and drop what the tree     *)
(* shows and then ask for the list again.                                  *)
(*                                                                         *)
(* Abstractions.                                                           *)
(*  - A row's key is <<c>> for a connection and <<c, d>> for a database;   *)
(*    "lists" holds what was listed for it, dbs and tables alike.          *)
(*  - A dialog is its confirmation: it keeps nothing but its target. One   *)
(*    that fails changes nothing, but for a copy; an answer that is lost   *)
(*    leaves a change made elsewhere.                                      *)
(*  - Requests to the shell (open a table, a query, a view, delete or edit *)
(*    a connection) are left to AppShell, which allows them at any time;   *)
(*    the filter, the order of the rows, capacity statistics, exports and  *)
(*    the clipboard are left out.                                          *)
(*  - MaxAsks bounds the lists asked for at a time, and MaxWork the        *)
(*    changes whose answer has not come.                                   *)
(***************************************************************************)
EXTENDS Naturals, FiniteSets

CONSTANTS Conns, Dbs, TableNames, MaxAsks, MaxWork, NoList

VARIABLES
  known, gone,       \* the connections in the list, and those that were
  expanded,          \* expandedConns and expandedDbs
  lists,             \* dbs and tables; NoList where nothing is cached
  loading, errors,   \* keys
  asks,              \* lists asked for: [n, key, list], read or NoList
  infoAsks,          \* serverInfo asked for by the last effect
  server,            \* the databases of a connection, the tables of a database
  work,              \* changes the server has made and not yet answered
  missed             \* history: the rows that need not be current, because
                     \* their server changed elsewhere or in a copy that failed,
                     \* two of their lists were asked for at a time, or a
                     \* handler does not ask for it

treeVars == <<known, gone, expanded, lists, loading, errors, asks, infoAsks,
              server, work, missed>>
loadVars == <<lists, loading, errors, asks, missed>>
restVars == <<known, gone, infoAsks>>

DbKeys == {<<c>> : c \in Conns}
TableKeys == {<<c, d>> : c \in Conns, d \in Dbs}
Keys == DbKeys \cup TableKeys

AsksFor(k) == {a \in asks : a.key = k}

SidebarInit ==
  /\ known \in SUBSET Conns /\ gone = {}
  /\ expanded = {}
  /\ lists = [k \in Keys |-> NoList]
  /\ loading = {} /\ errors = {} /\ asks = {}
  /\ infoAsks = known
  /\ server = [k \in Keys |-> IF k \in DbKeys THEN {CHOOSE d \in Dbs : TRUE} ELSE {}]
  /\ work = {} /\ missed = {}

-----------------------------------------------------------------------------
(* Lists *)

(* loadDatabases and loadTables up to the call. "kept" is what is cached   *)
(* until the answer comes.                                                 *)
Load(k, kept) ==
  /\ Cardinality(asks) < MaxAsks
  /\ loading' = loading \cup {k} /\ errors' = errors \ {k}
  /\ LET n == CHOOSE i \in 1..MaxAsks : \A a \in asks : a.n # i
     IN asks' = asks \cup {[n |-> n, key |-> k, list |-> NoList]}
  /\ lists' = kept
  /\ missed' = IF AsksFor(k) = {} THEN missed \ {k} ELSE missed \cup {k}

(* The server reads the list, some time before the answer comes. *)
ServerReads(a) ==
  /\ a.list = NoList
  /\ asks' = (asks \ {a}) \cup {[a EXCEPT !.list = server[a.key]]}
  /\ UNCHANGED <<restVars, expanded, lists, loading, errors, server, work, missed>>

ListComes(a) ==
  /\ a.list # NoList
  /\ lists' = [lists EXCEPT ![a.key] = a.list]
  /\ loading' = loading \ {a.key} /\ asks' = asks \ {a}
  /\ UNCHANGED <<restVars, expanded, errors, server, work, missed>>

ListRefused(a) ==
  /\ a.list = NoList
  /\ errors' = errors \cup {a.key}
  /\ loading' = loading \ {a.key} /\ asks' = asks \ {a}
  /\ UNCHANGED <<restVars, expanded, lists, server, work, missed>>

Dropped(k) == [lists EXCEPT ![k] = NoList]

(* refreshConnection and refreshDatabase; also Reconnect on an error. *)
Refresh(k) ==
  /\ k[1] \in known /\ Load(k, Dropped(k))
  /\ UNCHANGED <<restVars, expanded, server, work>>

(* A row is opened or closed. A favorite database is opened while its      *)
(* connection's row is closed.                                             *)
Toggle(k) ==
  /\ k[1] \in known
  /\ IF k \in expanded
     THEN expanded' = expanded \ {k} /\ UNCHANGED loadVars
     ELSE /\ expanded' = expanded \cup {k}
          /\ IF lists[k] = NoList THEN Load(k, lists) ELSE UNCHANGED loadVars
  /\ UNCHANGED <<restVars, server, work>>

-----------------------------------------------------------------------------
(* The list of connections changes: one is new, one is gone, or the list   *)
(* was merely asked for again, after a star has been set, say. The lists   *)
(* of databases of those gone are dropped, not their tables; answers to    *)
(* the effect before are ignored.                                          *)
ConnectionsChange(now) ==
  /\ now \cap gone = {}
  /\ known' = now /\ gone' = gone \cup (known \ now)
  /\ lists' = [k \in Keys |-> IF k \in DbKeys /\ k[1] \notin now THEN NoList ELSE lists[k]]
  /\ infoAsks' = now
  /\ UNCHANGED <<expanded, loading, errors, asks, server, work, missed>>

(* serverInfo comes or fails: the dot before the name. *)
InfoComes(c) ==
  /\ infoAsks' = infoAsks \ {c}
  /\ UNCHANGED <<known, gone, expanded, loadVars, server, work>>

-----------------------------------------------------------------------------
(* Dialogs. The server makes the change, then the handler goes on. *)

Exists(k) == k \in TableKeys => k[2] \in server[<<k[1]>>]

Change(kind, k, now, touched) ==
  /\ k[1] \in known /\ Exists(k) /\ Cardinality(work) < MaxWork
  /\ server' = now
  /\ work' = work \cup {[kind |-> kind, key |-> k]}
  /\ missed' = missed \cup touched
  /\ UNCHANGED <<restVars, expanded, lists, loading, errors, asks>>

CreateDatabase(c, d) ==
  /\ d \notin server[<<c>>]
  /\ Change("databaseCreated", <<c>>, [server EXCEPT ![<<c>>] = @ \cup {d}], {})

CreateTable(k, t) ==
  /\ t \notin server[k]
  /\ Change("tableCreated", k, [server EXCEPT ![k] = @ \cup {t}], {})

(* A view is saved, over one of its name if there is one, and the          *)
(* database's row refreshed.                                               *)
SaveView(k, t) ==
  Change("viewSaved", k, [server EXCEPT ![k] = @ \cup {t}], {})

(* To the same database, under another name; a table of that name may be   *)
(* dropped first.                                                          *)
CopyTable(k, t, to) ==
  /\ t \in server[k] /\ to # t
  /\ Change("tableCreated", k, [server EXCEPT ![k] = @ \cup {to}], {})

(* The tables that were cached stay, should there be a database of this    *)
(* name again.                                                             *)
DropDatabase(c, d) ==
  /\ d \in server[<<c>>]
  /\ Change("databaseDropped", <<c>>,
            [server EXCEPT ![<<c>>] = @ \ {d}, ![<<c, d>>] = {}], {<<c, d>>})

(* The server changes, and nothing asks for the lists.                     *)
ChangeUnseen(now) ==
  /\ server' = now
  /\ missed' = missed \cup {k \in Keys : now[k] # server[k]}
  /\ UNCHANGED <<restVars, expanded, lists, loading, errors, asks, work>>

(* A copy that fails has dropped the table it was to replace, which may be *)
(* the one it copies, or has created its table without all of the rows.    *)
(* The dialog stays open and no list is asked for.                         *)
CopyFails(k, t, to) ==
  /\ k[1] \in known /\ Exists(k) /\ t \in server[k]
  /\ \/ to \in server[k] /\ ChangeUnseen([server EXCEPT ![k] = @ \ {to}])
     \/ to \notin server[k] /\ ChangeUnseen([server EXCEPT ![k] = @ \cup {to}])

(* A table is created or dropped in its own tab or by another client, or   *)
(* copied from another database: the list of the database that is copied   *)
(* to is not asked for.                                                    *)
TablesElsewhere(k, tables) ==
  /\ Exists(k) /\ server[k] # tables /\ ChangeUnseen([server EXCEPT ![k] = tables])

(* Another client creates or drops databases.                              *)
DatabasesElsewhere(c, dbs) ==
  /\ server[<<c>>] # dbs
  /\ ChangeUnseen([k \in Keys |-> CASE k = <<c>> -> dbs
                                   [] k \in TableKeys /\ k[1] = c /\ k[2] \notin dbs -> {}
                                   [] OTHER -> server[k]])

(* Mutant: after a drop the list is not asked for again. *)
ChangedButDropped(w) ==
  /\ work' = work \ {w}
  /\ expanded' = IF w.kind \in {"tableCreated", "databaseCreated"} THEN expanded \cup {w.key}
                 ELSE expanded
  /\ IF w.kind = "databaseDropped" THEN UNCHANGED loadVars
     ELSE Load(w.key, IF w.kind = "tableCreated" THEN lists ELSE Dropped(w.key))
  /\ UNCHANGED <<restVars, server>>

(* handleDatabaseCreated, handleCreateTable, onDone and onSaved: the row   *)
(* is opened and its list asked for, from nothing or over the one shown.   *)
Changed(w) ==
  /\ work' = work \ {w}
  /\ expanded' = IF w.kind \in {"tableCreated", "databaseCreated"} THEN expanded \cup {w.key}
                 ELSE expanded
  /\ Load(w.key, IF w.kind = "tableCreated" THEN lists ELSE Dropped(w.key))
  /\ UNCHANGED <<restVars, server>>

-----------------------------------------------------------------------------
ConnectionRow(c) ==
  \/ Toggle(<<c>>) \/ Refresh(<<c>>)
  \/ \E d \in Dbs : CreateDatabase(c, d)

DatabaseRow(c, d) ==
  \/ Toggle(<<c, d>>) \/ Refresh(<<c, d>>) \/ DropDatabase(c, d)
  \/ \E t \in TableNames : CreateTable(<<c, d>>, t) \/ SaveView(<<c, d>>, t)

TableRow(k, t) == \E to \in TableNames : CopyTable(k, t, to) \/ CopyFails(k, t, to)

SidebarNext ==
  \/ \E a \in asks : ServerReads(a) \/ ListComes(a) \/ ListRefused(a)
  \/ \E w \in work : Changed(w)
  \/ \E now \in SUBSET Conns : ConnectionsChange(now)
  \/ \E c \in infoAsks : InfoComes(c)
  \/ \E c \in known : ConnectionRow(c) \/ \E d \in Dbs : DatabaseRow(c, d)
  \/ \E k \in TableKeys, t \in TableNames : TableRow(k, t)
  \/ \E k \in TableKeys, tables \in SUBSET TableNames : TablesElsewhere(k, tables)
  \/ \E c \in Conns, dbs \in SUBSET Dbs : DatabasesElsewhere(c, dbs)

SidebarSpec == SidebarInit /\ [][SidebarNext]_treeVars

-----------------------------------------------------------------------------
(* Properties *)

(* A row that is open has the list the server gave, unless it says that it *)
(* is loading or what went wrong: "No databases" and "No tables" are what  *)
(* the server said. When nothing is on its way the tree shows what the     *)
(* server has, whatever was created, copied and dropped from it without an *)
(* error, but for the rows in "missed".                                    *)
TreeIsCurrent ==
  /\ \A k \in expanded :
       (k[1] \in known /\ k \notin loading \cup errors) => lists[k] # NoList
  /\ \A k \in Keys :
       \/ lists[k] = NoList \/ k \in missed \cup errors
       \/ AsksFor(k) # {} \/ \E w \in work : w.key = k
       \/ lists[k] = server[k]
=============================================================================
