# A verification of mysqlUI in TLA+

mysqlUI is a MySQL client: a Go server (`backend/`) that keeps connection data,
connection pools, console sessions, scheduled backups and its own updates, and a
React frontend (`frontend/`) that runs in the browser. This directory holds
TLA+ modules translated from that code, the TLC configurations that check them on
small instances, and proofs about them checked by TLAPS.

## 1. The system

### 1.1 Components

| component | state | operations | partners |
|---|---|---|---|
| query-console sessions (`querysession.go`, `runQuery` in `handlers.go`) | map session id -> session (one `*sql.Conn`, a run mutex, last use), map run id -> running query | get, create, remove, idle clean-up, run, cancel | pools, MySQL server, HTTP clients |
| connection entries, pools, tunnels (`store.go`, `ssh.go`) | per connection: data, map database -> `*sql.DB`, SSH client; global driver dialers | getDB, Close, ensure/close tunnel, test | store, every handler |
| connection store (`store.go`, `crypto.go`, import and clone in `power.go`) | map id -> entry, `connections.json`, key file | load, save, Add, Update, Delete, favourite, import, clone | pools, file system |
| read-only gate (`security.go`, `validateScript`) | none of its own (reads the entry) | isReadOnly, requireWrite, statement check | every write handler |
| script execution (`scriptRun`, `scanSQL`) | rows left, result sets kept, counters | one step per statement | session connection |
| batch transactions (`transaction.go`) | a `*sql.Conn` in a transaction | begin, statements, commit or roll back | pools |
| table data (`handlers.go`, `keyset.go`, `power.go`) | none between requests | page, count, insert, update, delete, bulk update | pools |
| scheduled backups (`backup_manager.go`, `sqldump.go`) | settings and last result in memory and in a file, a running flag, dump files | configure, run now, tick, finish, retention | store, pools, file system |
| self-update (`update.go`) | settings, last check, staged binary | configure, check, download, install, restart | network, file system, daemon |
| daemon control (`daemon.go`, `main.go`) | pid file, log file | start, stop, restart, status, shutdown | operating system |
| schema versions (`schemaversion.go`) | snapshot files per database | take, list, diff, delete, plan | file system |
| comparison (`schemadiff.go`, `crossdbdiff.go`, `datadiff.go`, `erd.go`) | none | compare, order tables | pools |
| import, export, copy (`importexport.go`, `import_extra.go`, `tablecopy*.go`) | none between requests | import CSV/SQL, export, copy table | pools of two connections |
| authentication (`auth.go`, `totp.go`) | sign-in cookies, enabled flag | login, logout, check | every handler |
| query tab (`QueryTab.tsx` and its dialogs) | last text run, result, edit target, run id, spinner, dialogs of parameters and of risk | run, cancel, retry, transaction commands, run a file, edit a result cell | API, stores of the browser |
| table tab, grid (`TableTab.tsx`, `DataGrid.tsx`) | search, order, page, keyset tokens; rows and queued edits; selections, columns | load, edit, undo, commit, roll back, delete, select, arrange columns | API, stores of the browser |
| shell (`App.tsx`, `Sidebar.tsx`, `lib/router.ts`, `lib/tabs.ts`) | tabs, active tab, URL, kept session; tree of connections, databases and tables | sign in and out, open, close, rename, drop, restore; expand, create, copy, drop, refresh | API, browser |
| stores of the browser (`lib/*.ts`) | pinned queries, favourites, views, snippets, history, starred queries | add, remove, toggle, in several windows | browser |
| views and dialogs (structure, foreign keys, routines, users, privileges, versions, comparisons, import, connection, backups, monitor) | forms, lists read, requests in flight, flags | read a list, fill a form, preview, submit, read again | API |
| what builds text (designer, DDL builders, formatters, charts, diagrams, search) | none, or a form of its own | build one statement, show a result | API |

### 1.2 Interaction

Every HTTP request is a goroutine. It looks up a connection entry in the store
(a mutex), asks the entry for a pool (the entry's mutex; this may open an SSH
tunnel and ping the server), takes a connection from the pool (at most ten per
database) and runs statements. Console requests keep that connection in a
session across requests. Three further goroutines share this state: the session
janitor, the backup scheduler and the update checker. The request's context is
cancelled when the client goes away; a cancel request cancels it from another
goroutine. The store, the backup settings, the update settings and the schema
versions are files written by the same process.

The page is one thread. A handler sends a request and goes on when it is answered,
with the values it captured when it began; meanwhile the user has done something
else, or another answer has come. Effects run after the states they depend on have
changed, all of one commit on the same states. Tabs and views share the server, the
URL and the browser's storage; several windows share the storage only, of which a write may fail
without anyone being told.

### 1.3 What is hard

* two requests of one console at the same time: creating, replacing, evicting
  and closing one session (`querysession.go`);
* values read under a lock and used after it: ids the janitor collected, the
  thread id of a KILL, the connection data of a pool being opened, the read-only
  flag;
* a transaction that stays open on a connection that goes back to its pool;
* locks held while waiting, without a deadline, for the network or for a free pool slot;
* a save that fails after the memory was changed, or before; a crash between
  the steps of a save;
* a dump whose errors nobody sees, followed by the deletion of older dumps;
* in the browser, answers that arrive after the question has changed, in any
  order; one flag that several requests set and reset; forms filled by an answer
  while the user types; indices into rows that are replaced;
* requests that fail after part of them took effect, writes to the browser's storage that fail
  unnoticed, and other windows and clients that change what a view shows;
* two effects that undo each other; a list that every window stores as a whole.

PROJECT.json lists each of these at its line.

### 1.4 What makes each component correct

* sessions: no connection with two owners or two runners, none lost; no session
  left after an aborted query; a transaction nobody else disturbs; every request
  answered; every idle session evicted.
* pools: one open pool per entry and database, opened with the current data; no
  pool used after the entry was deleted; no wait in a cycle.
* store: memory and file agree when no save is in progress or has failed; a
  restart finds a state some operation produced; no edit is lost.
* backups: one run at a time, a backup that is due is made, failures are reported,
  settings are not undone, no run deletes its own dumps, a dump is restored where asked.
* transactions: all or nothing, and nothing left open.
* paging: every row once, none skipped, in both directions.
* comparison: applying the computed change set yields the target.
* query tab: nothing runs with placeholders or, if it is risky, unasked; cells are
  edited in the table the text last run selects from; the spinner and Cancel are about
  a run in progress.
* table tab: the page shown is the one asked for; an edit goes to the row it was made in;
  selections stay on the grid; columns are saved as shown.
* shell: tabs are distinct, URL and kept session follow the tabs, effects come to an
  end; the tree shows what the server has.
* views and dialogs: what is shown, once the requests are answered, is what there is; what is
  submitted belongs to what is selected; a busy view is busy.

## 2. Modules

### 2.1 QuerySession and Consoles

`QuerySession.tla` models `querysession.go` and the control of `runQuery`.

**State.** `pc[r]` is the place of request `r` in the handler, `sid`, `target`
and `left` are the body of the request (session id, connection and database,
statements that have not run), `ctx`, `canceled` and `thread` the context and the
`activeQuery`, `sess` the session it works on, `answer` what the client was told.
`sessions` is the manager's map; an object is named by the request that created
it, has a `phase` (fresh, open, removed from the map, rolled back, closed), a
connection `oconn`, a run mutex and an `idle` flag. `closing[p]` is the object that
actor `p`, a handler or the janitor, is closing; `stale` are the ids the janitor
has collected. `cstate`, `ctarget` and `tx` describe the connections of the pools
and the transaction in progress on each; `kphase`, `kreq`, `kthread` the cancel
handlers. `inTx` and `torn` are history: what the script believes about its
transaction.

**Actions.** One per critical section or call: `GetAbsent`, `GetReuse`,
`GetReplace` (get), `Create`, `CreateFails`, `Install`, `Adopt` (create), `Lock`
and `Busy` (TryLock), `Identify` (SELECT CONNECTION_ID()), `Execute`, `Fail`,
`Interrupt`, `Finish` (the script), `Remove`, `RemoveAbsent` (remove), `RollBack`
and `CloseConn` (close, which a handler or the janitor runs outside every
lock), `Unlock` and `Return` (the deferred calls), `Collect`, `Evict`,
`EvictAbsent` (cleanup), `Cancel` and `Kill` (the cancel handler, before and after
the look-up), and the environment: `Deadline`, `Disconnect`, `IdleElapses`.

**What database/sql and MySQL do** is modelled from how the code uses them: a
closed `*sql.Conn` refuses every call, Close waits for the statement in progress and
returns the connection to its pool unless it is dead, a cancelled context may
drop the connection, which rolls back its transaction on the server, and a KILL does
the same. A ROLLBACK behind a statement that runs longer than three seconds is
never sent.

**What the manager promises** is `Consoles.tla`, a specification without handlers, locks, time-outs
or a janitor. A console has a connection to itself from when it is opened until it is closed, and is
never opened again; a session id stands for one open console; one client works at a console at a time;
a transaction is begun and ended by the client at the console that has the connection, and by
nobody else but a rollback of a console that is being closed or the death of the connection.
QuerySession implements it under this mapping:

| Consoles | QuerySession |
|---|---|
| `registered` | `sessions` |
| `state[o]` | `phase[o]`, where removed and rolled back are both "closing" |
| `held[o]` | `oconn[o]` |
| `runner[o]` | `runMu[o]` |
| `alive[c]` | `cstate[c] # "dead"` |
| `tx[c]` | `tx[c]` |

Three things the code does are in `Consoles` too, because they cannot be promised away: a client may sit
down at a console that has been closed (it got the session before, and locks it after), a console
may be closed without a rollback, and a connection is taken from the pool with what was left on it.

**Properties.** `NoLostConn`, `MappedTxIntact`, `AbortedIsGone` and the refinement
`ConsolesSpec`; under fairness `Answered` and `IdleIsEvicted`. `ConnExclusive`, `MappedIsOpen`
and `OneRunnerPerConn`, on which these rest, are proved (section 4.1). `RunsOnItsTarget` and `NoTornTx`, which comments of the
code state, do not hold (section 5).

**Bounds.** Two requests, one session id, one or two targets, two connections (one in QS_live), one cancel,
scripts of at most three statements. Two requests suffice for every race of a
creator, a runner and a closer, because the janitor is a third actor; the request
without a session is also the next owner of a connection that was given back. A
second session id would only share the pool, which the requests without a session
do already.

**Fairness.** Go schedules every goroutine, a ROLLBACK waits at most three
seconds and the ticker fires: weak fairness of a handler, of a close and of the
two janitor steps. Nothing is assumed of clients, time-outs, cancels or time.

### 2.2 ConnPool and PoolCache

`ConnPool.tla` models one `ConnEntry` with its tunnel (`store.go`, `ssh.go`) while
`Store.Update` and `Store.Delete` work on it.

**State.** `pc[r]` is the place of call `r` of `getDB`; `db`, `ssh`, `net` and `result` are
its database, its copy of the SSH settings, its network and the pool it returned.
`info`, `eMu`, `pools` are the fields of the entry; a pool is named by the call that
opened it and has a life cycle `pstate`, the data `paddr` and the network `pnet` it was
opened with. `client` is the tunnel's SSH client, with `cstate` and `cinfo`; `dialer` is
the client behind the dial function in the MySQL driver's global table. `wpc`,
`newInfo` and `prev` are the writers; `storeMu` the store's lock, `tMu` the tunnel's mutex,
`registered` whether the entry is still in the store.

**Actions.** `Lookup` (Store.Get), `ChooseTCP`/`ChooseTunnel` and `CopyInfo` (the reads of
`e.Info`, which hold no lock), `EnsureLock`, `EnsureReuse`, `EnsureDial`, `EnsureFails`, `EnsureTCP`
(ensure, under the tunnel's mutex), `Lock`, `Hit`, `DropDead`, `Miss`, `OpenPool`, `PingOK`, `PingFails` (the critical
section); `UpdateBegin`, `UpdateWritten`, `UpdateSaved`, `UpdateSaveFails`,
`UpdateRestored`, `DeleteBegin`, `ClosePools`, `UpdateClosesTunnel`,
`DeleteClosesTunnel`, `Forget`; and `TunnelBreaks`. The write of `e.Info` is two steps:
a read between them may see old, new or mixed data, which is what the data race
of the code can produce (the SSH section is one pointer and is loaded once).

**Properties.** `NoLostPool`, `AddrIsCurrent` (unless a save failed), `EveryCallEnds` under
fairness, and the refinement `CacheSpec`: the entry implements `PoolCache`, a cache with at most one open
pool per database whose closed pools never come back. A reader of the comments
would also expect `NetworkIsCurrent`, which does not hold (section 5), and
`AddrIsCurrent` after a failed save: then `Update` restores `e.Info` and keeps the pools
that were opened in between with the refused data.

**Bounds.** Two calls on one database, an update and a delete, data with and without a
tunnel: one call can hold the mutex or be between its reads and the mutex while a
writer runs, the other has cached a pool before. A second database would only repeat
the first, since pools share nothing but the mutex and the tunnel; a second update
waits for the first. Both are covered by the proofs. `CachedIsOpen`, `NoLostClient` and
`DialerFollowsTunnel` are proved for every instance and have no run of their own.

**Fairness.** Goroutines are scheduled, and Go's mutexes hand over to a waiter after one millisecond:
strong fairness of every call that has begun, while it is away from the network, and of every writer
that holds the store's lock. No client is obliged to call, and the network is not obliged to answer.
`AtNetwork(r)` says that call `r` waits for it while it holds a mutex: in the keep-alive or the
handshake under the tunnel's (`ssh.go:122` and `144`), or in a ping under the entry's (`store.go:99`
and `113`, where `ReadTimeout` is zero and no context is passed; a ping that waits for a slot of the
pool is one of these too). `EveryCallEnds` says that the network is the only one to blame: unless some
call stays there for ever, every call ends and so does every update and delete. `CallsEnd`, which leaves
the condition away, does not hold (section 5): a ping without an answer keeps `e.mu`, Update or Delete
waits for it with the store's lock, and from then on every request of any connection waits.

### 2.3 ConnStore and DurableMap

`ConnStore.tla` models the store of connections with its file and key file
(`store.go`, `crypto.go`), the start of the server, and the handlers that change the
store (create, import, clone, update, favourite, delete).

**State.** `file`, `tmp` and `keyFile` are on disk; `conns` and `info` are the map in memory
(`info` keeps the data of a deleted entry, because a handler may still hold it), `mu` the
write lock. `pc[r]` is the place of request `r`, `pc[Boot]` that of the start of the
server; `kind`, `id`, `source` and `want` are what the request asks for, `prev` what an
update found, `answer` what the client was told.

**Actions.** `KeyFound`, `KeyCreated`, `KeyWritten`, `Load`, `Migrated`, `MigrationFails` (the
start); `SubmitCreate`, `SubmitUpdate`, `SubmitDelete`, `GetEntry`, `CopyForClone`,
`CopyForFavorite` (handlers up to the call of the store, the copies without a lock);
`Create`, `NotFound`, `Update`, `Updated`, `Delete` (the change in memory); `SaveBegins`,
`TmpWritten`, `Renamed`, `SaveFails` (saveLocked); `Succeed`, `CreateFails`, `UpdateFails`,
`DeleteFails` (the return, with what is taken back); and `Crash`, possible at every point.

**Properties.** `SecretsEncrypted` and the refinement `StoreSpec` (and, proved in section 4.3,
`FileReadable`, `MemoryIsFile` and `KeyBeforeData`): on disk the store is `DurableMap`, a map that requests change one
at a time and as a whole, where a request that was refused changed nothing and
one a crash interrupted is done or not done. The exception the code forces on
`DurableMap` is a delete that was refused: its entry is doomed, and the next request
that is saved removes it from the file too. `FavoriteOnlyFlags` is what the documentation says and
the code does not do (section 5).

**Bounds.** Two requests (one saves while the other copies, waits or comes after a
failure), two ids (one for each, so that a save writes an entry it did not change),
two edits, two crashes (one in the migration, one in a request). The sets are symmetric.
Deadlock is not checked: requests end and are not repeated, a key file left empty
and a migration that cannot be saved both keep the server from starting.

**Limits.** Crashes are of the process: the file system keeps what was written, and
the rename is atomic. The bodies of requests that the client lost are not repeated.

### 2.4 BackupManager

`BackupManager.tla` models the scheduled backups (`backup_manager.go`), how their dumps are
written (`sqldump.go`), and the deletion and the restore of a dump (`power.go`).

**State.** `settings`, `lastRun`, `lastOK` and `running` are the manager; `stateFile`, `tmp` and
`files` are on disk. An actor is the scheduler or a request; `pc[a]` is its place, `stamp`,
`keep`, `left`, `todo`, `cur` and `failed` the local variables of its run (a stamp of zero: no run),
`out` the copy of the state it saves and `fd` what has become of the file it has open:
the temporary file, the state file (another writer renamed it), or one that is gone.
`configured` (the settings the last request submitted), `missed`, `contended`, `lost` and `restored` are
history. No crash changes `configured`: it is what the users believe, not what the process has.

**Actions.** `Tick` and `RunNow` call runOnce; `Refuse`, `Begin`, `NoDirectory`, `ListDatabases`,
`ConnFails`, `CreateDump`, `EndDump`, `DumpFails`, `Cleanup`, `Finish` and `Reset` are its steps, of which
`Begin`, `Finish` and `Reset` hold the lock; `Configure` changes the settings; `OpenTmp`, `PutState`,
`RenameTmp` and `SaveFails` are the save, which holds no lock; `DeleteFile` and `RestoreFile` are
the file manager; `TimePasses` and `Crash` the environment. What a query of the dump
misses is not reported by the code, so `EndDump` is also the end of an incomplete dump.

**Properties.** `SettingsStay` (neither a run, nor what it saves, nor a restart undoes settings submitted
meanwhile, unless the process ended during a save or after a last one that failed or met another),
`FailureIsReported`, `RunKeepsItsDumps`; under fairness `DueIsRun`. `OneRun` and `StateIsSaved` are
proved (section 4.4); `StateIsSaved` excepts two saves that met and a last one that failed,
because two writers of one temporary file can leave an old, an empty or a mixed state
file, all of which are in the model. An old one is what the end of a run leaves when it copied the state
before the settings were submitted and renames it after them: they are undone by the next start. `SettingsStay`
excepts it, `SavedIsConfigured` states it and does not hold, nor does `RestoreLandsWhereAsked` (section 5).

**Bounds.** The scheduler and two requests (one configures, the other runs or saves at the
same time; three savers can meet), one connection with two databases whose file
names are equal, one unit of time, so that the scheduler runs twice, one crash. The
requests are symmetric in BM_safety. BM_live has one database and no crash.
Deadlock is not checked: requests end, and time ends at its bound.

**Fairness.** Weak fairness of the tick and of the steps of a run and of a save: the ticker
fires every minute, goroutines are scheduled, and queries end with an answer or an
error. A database that never answers would hold up a run for ever: its queries have
the context of the server, which ends only with it.

### 2.5 QueryTab

`QueryTab.tla` models `QueryTab.tsx` with the dialogs it opens.

**State.** `connectionId` and `database` are the pickers, `lastRunSql`, `result`, `editTarget`,
`failed`, `lastFailed`, `running`, `activeRunId`, `canceledRef`, `inTransaction` the states and
refs of the component, `paramRequest` and `riskRequest` its dialogs. `inFlight` has an
element for every request, with the arguments its handler captured. `vetted` is history:
the texts a dialog confirmed or an estimate cleared.

**Actions.** One per handler and one per continuation. `Run`, `ParamsRun`, `RiskRun`, `Retry`,
`Transaction`, `RunInTransaction`, `RunFile`, `UpdateResultCell` and `Cancel` send; `RunSucceeds`,
`RunFails`, `EstimateAnswers`, `EstimateForDialog`, `TransactionEnds`, `RunInTransactionEnds`,
`RunFileEnds`, `StructureAnswers` and `UpdateAnswers` take an element out again, in any order.
`RunRaw`, `AssessAndRun` and the other helpers are the functions of these names, so that every way
to run a text passes the guards it passes in the code. The effect that looks for the edit
target (`DetectEditTarget`) is part of every action that changes what it depends on.

**Properties.** `SentIsVetted`, `EditTargetIsCurrent`, `SpinnerIsHonest`.

### 2.6 TablePages, TableEdits, DataGrid

The table tab in three modules that share no state but the number of rows.

`TablePages.tla` is the view state (`view`, `keyset`), the page shown (`data`) and the loads and
writes on their way (`calls`), of `TableTab.tsx`. Every handler that changes what the load
effect depends on goes through `Change`, which starts the loads React would start: one when the
state changes, a second when the effect that resets the keyset position changes it again. A
write carries the request of the render it was started in, and its continuation sends that
one. `ShownIsAskedFor` and `NewSearchStartsOver` are its properties.

`TableEdits.tla` is the rows of a page with the edits queued on them: typing in a cell, bulk
edit, paste, undo, roll back, commit, insertion and deletion, each of which may find other
rows than it began with. `id` tells which row of the table a row is, whatever is typed over its
key. `EditsNameTheirRow` is its property.

`DataGrid.tla` is the selection of rows by check boxes, drags and Shift, the range of cells, the
columns with their copy in the browser's storage, and the quick filters, of `DataGrid.tsx`.
Every write of the columns may fail, which the code ignores, and another window on the table writes the
same key (`OtherWindowSaves`); `unsaved` remembers it until the next write, which stores all of them.
`SelectionsStayOnTheGrid` and `ColumnsAreSaved` are its properties.

### 2.7 AppShell and Sidebar

`AppShell.tla` models `App.tsx` with `lib/router.ts` and `lib/tabs.ts`. Its state is that of the
component (`auth`, `tabs`, `active`, `restored`, `pendingRoute`, `connections`), the URL (`route`), the
session in the storage (`stored`), and `changed`, the states that changed since the effects ran.
A handler is an action that adds to `changed` and is possible only while it is empty;
`RunEffects` is one round of the effects, in their order and all on the states of that
render, as React runs them; it may make another round necessary. A handler that goes on after
a request (`ConnectionDeleted`, `TableDropped`) has the tabs of the render it was created in.
The effect that keeps the session (`StoreSession`) makes two writes, of which both or the second may fail
without notice, and another window makes the same two at any time (`OtherWindowStores`); `unsaved` says so
until the effect has written both again. A reload begins with what is stored, whoever wrote it.
`TabsAreDistinct`, `UrlIsActiveTab`, `SessionIsSaved`, and with fairness `SettlesUnlessBack`.

`Sidebar.tla` models the tree of `Sidebar.tsx`: rows are opened and closed (`Toggle`), lists asked
for (`Load`, `ServerReads`, `ListComes`, `ListRefused`), connections come and go, and the dialogs
create, copy and drop what the tree shows and ask for the list again. A copy that fails may have dropped
or created its target before its rows were copied (`CopyFails`); the dialog asks for nothing then.
Other clients create and drop tables and databases (`TablesElsewhere`, `DatabasesElsewhere`). What changes
without a list being asked for is in `missed` until the row is loaded again. `TreeIsCurrent` is its property.

**Fairness.** `WF_shellVars(RunEffects)`: React runs the effects after every commit. Nothing is
assumed of the user, the server or the browser.

### 2.8 Views and dialogs

One module per view; each has a specification of its own and can be checked alone. They share the
form of a request (`Calls.tla`: numbered elements of a set, and which reads overlapped).

| module | models | property |
|---|---|---|
| `ConnectionForm` | `ConnectionDialog.tsx`: filled from the list, then from the full record when it comes | `StoredAsItsOwn` |
| `ImportDialog` | `ImportDialog.tsx`: file, preview, mapping, import | `ImportMapsItsFile` |
| `StructureView` | `StructureView.tsx` and its dialogs: statements previewed or confirmed, run, the structure read again | `BusyIsHonest`, `StructureIsCurrent` |
| `ForeignKeyForm` | `ForeignKeyDialog.tsx`: database, table and column picked from lists that follow | `RefersToWhatIsThere` |
| `RoutinesView` | `RoutinesView.tsx` and `saveObject` of `objects.go`: drop, then create | `ObjectsAreListed` |
| `BackupDialog` | `BackupDialog.tsx`: settings, the dumps of their directory, runs that end or fail half way, delete, restore | `UntouchedIsKept`, `FilesAreListed` |
| `MonitorTab` | `MonitorTab.tsx`: polls, kills, variables | `MonitorIsCurrent` |
| `UsersTab` | `UsersTab.tsx`: accounts, grants of the one selected, copies of both that end or fail half way | `GrantsAreOfSelected`, `AccountsAreCurrent` |
| `PrivilegeMatrix` | `PrivilegeMatrixDialog.tsx` and what `power.go` puts in its cells | `MatrixIsCurrent` |
| `SchemaVersions` | `SchemaVersionsView.tsx`: seal, compare, apply, delete | `ResultIsCurrent` |
| `SchemaDiffs` | `SchemaDiffView.tsx`, `CrossDiffView.tsx`, `CrossDatabaseDiffView.tsx`, `DataDiffDialog.tsx` | `SyncIsCurrent` |
| `SavedLists` | `lib/pinnedQueries.ts`, `favorites.ts`, `tableViews.ts`, `sqlSnippets.ts`, `queryHistory.ts`, starred queries | `OneEntryEach`, `EntriesStay`, `CopiesAreCurrent` |

The properties about lists that are read again after a change (`AccountsAreCurrent`,
`ObjectsAreListed`, `FilesAreListed`, `MonitorIsCurrent`, `MatrixIsCurrent`, `StructureIsCurrent`,
`CopiesAreCurrent`) ask one question and are checked as one, `ViewsAreCurrent` in `MCViews`.

Where a property has an exception ("unless two reads overlapped"), a history variable
(`doubtful`, `crossed`, `mixed`, `moved` ...) says when it applies. It is set where the code loses
track and reset as soon as a later read settles the matter, so that the property speaks of
every other state. The exceptions are behaviour of the code: none of the views numbers its
requests or drops an answer that was overtaken, and none reads again after a request that failed. Four
requests may fail when part of them took effect, and their models say what they leave: `copyUser`
(the account without all of its grants) and `copyGrants` (some of them) in `UsersTab`, a run of the backups
(new files, old ones removed) and settings that were set and not saved in `BackupDialog`. Other clients
change accounts, grants, dumps and settings at any time (`AccountsChange`, `UsersChange`,
`ScheduleRuns`, `SettingsElsewhere`). The hazards of PROJECT.json name, one by one, what the exceptions leave out.

`Sublists.tla` is the `filter` by which `SavedLists` and `AppShell` drop entries from their lists
(`Omit`), as a recursive function the prover can unfold.

### 2.9 What is left

In the order in which it would add most: `PoolGate` (the locks of store and entry against the ten
slots of a pool), `Transaction` (batch transactions with failures), `Keyset` (the server's pages against
a reference definition), `UpdateManager` and `Daemon` (staged binary, restart, pid file), `Auth`
(attempts and sign-in sessions on the server).

## 3. Runs

| run | instance | shows |
|---|---|---|
| QS_safety | 2 requests, 1 session id, 2 targets, 2 connections, 1 cancel | create, replace, evict, abort, kill and close: no connection lost or disturbed, and the refinement of Consoles |
| QS_live | 2 requests, 2 targets, 1 connection, no cancel | every request is answered, idle sessions go |
| QS_wrong_target | 2 requests | the violation of section 5 |
| CP_pool | 2 calls, 1 database, 1 update, 1 delete, 2 versions of the data | no pool lost, no old data after a saved update, the refinement of PoolCache, no wait that the network is not the cause of |
| CS_store | 2 requests, 2 ids, 2 edits, 2 crashes | failed saves and crashes between any two steps: the refinement of DurableMap, no plaintext secrets |
| BM_safety | scheduler, 2 requests, 2 databases, 1 crash and restart | settings and errors are kept, no run deletes its own dumps |
| BM_live | scheduler, 2 requests, 1 database | a backup that is due is made |
| BM_restore | 2 requests, 2 connections | the violation of section 5 |
| TB_safety | `MCTabs`: 2 connections (1 read-only), 4 texts, 2 runs; 5 loads; 2 queued edits and a write; pages of 1 and 3 rows, 2 columns, 1 other window | the eight properties of the query tab, the table tab and the grid |
| AS_safety | `MCAppShell`: 2 tabs of 3 routes, 1 call, 1 other window; a tree of 1 connection, 1 database and 2 tables, 2 lists asked for | the shell's four properties and the tree's |
| VW_safety | `MCViews`: twelve parts, see below | the eleven properties of the views and dialogs |
| SV_apply | 1 table, 1 version | the violation of section 5 |

`MCTabs`, `MCAppShell` and `MCViews` put modules side by side that share no variable. A variable
`part` is chosen at the start and says which of them moves; the others stay at a start
state. The state space is the sum of theirs and not the product, and nothing is lost by it:
what no module reads another may not disturb.

**Bounds.**

* *Query tab.* Two runs in flight are a run and the one a dialog, a file, Retry or a transaction
  command starts beside it: the answers can cross in both orders. The texts are a SELECT, a write, a
  risky one, one with placeholders that becomes risky, and a script.
* *Table tab.* Five loads: two of one change, two of the next, and one after a write. Two edits: two
  cells of one row, its key among them, or two rows.
* *Grid.* Pages of one and of three rows: a selection or an anchor may be on the page, partly on it or
  off it. Two columns: one hidden, frozen or resized beside another. The stored columns are a part of their own,
  with writes that fail and another window; in the part with the ranges of cells they are written.
* *Shell.* Two tabs, so that one is active and another is not, of two tables of one connection and a
  console of another. One deletion at a time; while it waits the user does one thing to the tabs. The shell is
  searched twice: with two connections and a storage that is this window's and always written (part "shell"),
  and with the connection of the tables, writes that fail and another window that has one table open (part
  "session").
* *Tree.* Two lists asked for at once is what it takes to cross; one change at a time.
* *Views.* Two targets each (connections, files, accounts, objects, settings, places, databases) so that
  an answer can belong to the other one. Where a view reads again after its own changes, one
  read, one write and a reload are in flight together (`MaxReads`, `MaxWrites`, `MaxLists`, `MaxDiffs`,
  `MaxSaves`, `MaxImports`, `MaxVariableReads`, `MaxKills`, `MaxRoutineReads`, `MaxDrops`, `MaxBackupCalls` are 1); where
  two reads must cross for anything to happen, two are (`MaxFetches`, `MaxPreviews`, `MaxStructureReads`,
  `MaxAlters`, `MaxRefLists`, `MaxMatrixReads`, `MaxToggles`, `MaxProcessReads` are 2). Two windows and three entries
  for lists of at most two.

Larger instances were searched once without a violation: SchemaVersions with two versions, lists and
comparisons (5.4 million states), MonitorTab with two kills and two reads of the variables (2.0
million) and ForeignKeyForm with three lists (0.8 million) to the end; RoutinesView with two of
everything for 5.2 million states, not to the end. For every property that is
proved (section 4) the bounds do not matter.

Deadlock is not checked where users stop, requests are not repeated or a bound is reached;
in QS_safety, QS_live and CP_pool it is.

## 4. Proofs

### 4.1 QuerySession

`QuerySession_proofs.tla` proves, for any finite or infinite sets of requests,
session ids, targets, connections and cancels, from the assumptions
`DistinctNames`, `ScriptsAssumption` and `AnonymousAssumption`: `TypeOK`,
`ConnExclusive`, `MappedIsOpen`, `NoLostConn`, `OneRunnerPerConn`, `MappedTxIntact` and
`AbortedIsGone`.

None of these is inductive by itself. `IInv` adds what the position of a handler says
about its session (`HandlerInv`), that an object has a connection exactly as long
as it is live (`ConnInv`), that open objects and map entries correspond (`MapInv`),
that every object being closed has exactly one closer (`CloseInv`) and that a
handler past TryLock holds the mutex (`MutexInv`). Each conjunct has its own lemma,
by cases on the actions. `OneRunnerPerConn` follows from `IInv` in one state: two
runners of one session would both hold its mutex, two sessions have two
connections. `AbortedIsGone` needs `AbortInv` (an aborted query is on its way through
the removal) and that no step opens a session somebody already works on.
`MappedTxIntact` needs in addition that only one handler executes on the connection.

`ImplementsConsoles` is the refinement of `Consoles`, proved action by action over `IInv`
(`ConsolesRefinement`). What an action changes is seen through the mapping (`SeenSet`,
`SeenUnchanged`); four lemmas are about what several actions have in common: every way to remove
a session unregisters one console (`ConsoleUnregisters`), every close gives back what that console held
(`ConsoleCloses`), an interruption or a KILL is the death of one connection, whose transaction goes with it
(`ConnectionDies`), and a handler that executes is the one who works at the console (`RunnerWorks`, which
needs `MutexInv` and that an object not yet in the map is its creator's alone).

### 4.2 ConnPool

`ConnPool_proofs.tla` proves `TypeOK`, `CachedIsOpen`, `NoLostPool`, `NoLostClient` and
`DialerFollowsTunnel` for any number of calls, updates, deletes, databases and
versions, from `NamesAssumption` and `TunnelledAssumption`; `AddrIsCurrent`; and that `Spec` implements
`PoolCache`. The inductive invariant `IInv` adds to the properties which call is in the
critical section (`LockInv`), what its position says of the pool it creates
(`CallInv`: a database whose pool is being opened has none in the cache), that open
pools and cache entries correspond (`CacheInv`), that the tunnel's client is never a
closed one (`ClientInv`) and that there is one writer (`StoreInv`). `AddrInv` carries
`AddrIsCurrent` to the pools being opened: a pool opened with data that is being
replaced is closed by the same update, which waits for `e.mu`. The refinement is
proved action by action: only OpenPool, PingOK, PingFails, DropDead and ClosePools
touch what PoolCache sees.

### 4.3 ConnStore

`ConnStore_proofs.tla` proves `TypeOK`, `FileReadable`, `MemoryIsFile`, `SecretsEncrypted`,
`KeyBeforeData` and `StoreSpec` for any requests, ids, edits and number of crashes, from
`NamesAssumption`, `ValuesAssumption` and `MaxCrashesAssumption`. The inductive invariant
says who holds the lock and that requests under way need a running server
(`LockInv`), what a position says of a request (`RequestInv`), that the id of a connection
to be created is used by nobody (`NewIdInv`), where memory and file may differ
(`FileInv`, entry by entry), what the holder of the lock has changed so far (`ChangeInv`)
and that a temporary file about to be renamed is the state of memory (`TmpInv`).
`NewIdInv` is what makes the removal after a failed create harmless. In the
refinement only `Renamed` changes the map; it is the commit of the holder of the lock.

### 4.4 BackupManager

`BackupManager_proofs.tla` proves `TypeOK`, `OneRun`, `SettingsStay`, `StateIsSaved`,
`FailureIsReported` and `RunKeepsItsDumps` for any requests, connections, databases, settings,
time and number of crashes, from the named assumptions of the module. The inductive
invariant says what the place of an actor means for its run (`PlaceInv`), that files of the
run in progress are as new as the present (`FilesInv`, which with a positive retention gives
`RunKeepsItsDumps`), where a failure is remembered before and after `Finish` (`FailInv`), and
what an undisturbed save holds at each of its steps (`SaveInv`): its copy is the memory,
nobody else saves, and the temporary file is its own. `SettingsStay` through a crash rests on
`StateIsSaved`: with nobody saving and the last save undisturbed, what is loaded is what the memory had.

### 4.5 QueryTab

`Tabs_proofs.tla` proves `SpinnerIsHonest`, `SentIsVetted` and `EditTargetIsCurrent` for any
connections, texts, files and number of calls. `SpinnerIsHonest` is inductive as it stands. `VettedInv`
adds to `SentIsVetted` everything that may still be sent: the text a dialog is open for, the
texts being estimated and what Retry has. `TargetInv` adds that the structures on their way were asked
for the candidate of now, because the clean-up of the effect drops the others.

### 4.6 TablePages, TableEdits, DataGrid

`Tabs_proofs.tla` proves `ShownIsAskedFor`, `NewSearchStartsOver`, `EditsNameTheirRow`, `ColumnsAreSaved` and
`SelectionsStayOnTheGrid` for any columns, filters, page sizes, pages and number of loads, edits and
writes. The heart of the first is `LoadsEnough`: a change of the view, with the effects it
sets off, either leaves the request as it is and loads nothing, or the last load it starts asks for
what the controls ask for then. `PagesInv` says of all times that, unless an answer came out of
turn, the load sent last is on its way with that request, or it was the last to be answered. `EditsInv`
carries `EditsNameTheirRow` through Undo: what Undo would restore (`Consistent`: rows that show their
edits, and keys that were not edited) was made while no load was in flight. `ColumnsInv`,
`RowsStay` and `RangeStays` are the grid's; the range needs that the visible columns never
get fewer while it stays (a lemma on cardinalities). `ColumnsInv` holds of a written state only, and every write, whatever
failed before it, makes the stored columns those shown again.

### 4.7 AppShell and Sidebar

`AppShell_proofs.tla` proves `SessionIsSaved`, `TabsAreDistinct`, `UrlIsActiveTab` and `TreeIsCurrent`
for any routes, connections, databases and number of tabs, calls and lists. `SessionInv` follows a page from its start: before
the session is restored there are no tabs that could overwrite it, and the effect that restores it runs
in the round in which the user is signed in; the round that restores does not save. What a round stores, when it
does, is the session of its states, wholly, in part or not at all (`Stored`), and `unsaved` tells which. `TreeInv` follows each row
(`RowInv`): while it is neither missed nor changing, the one list asked for it is the server's once it
is read; that a row which is open belongs to a connection that was known (`Seen`) is
what keeps an unlisted row from being open when connections come.

`TabsInv` says that the names of the tabs, of the kept session and of those a request on its way has
captured are names of tabs, and that (unless `overlapped`: a handler set tabs it had captured over those of the moment, or a table took the name of one whose tab is open) the open tabs have different names and so
have the kept ones. The name of a new console is a number nobody has: among one more numbers than there are tabs
one is free (`NumberIsNew`, a pigeonhole). A copy of a tab is put behind it, and tabs are moved and removed: what an insertion
and a removal make of a list are two lemmas (`InsertedAt`, `RemovedAt`).

`UrlInv` is what the effects have achieved at each point of a round. When those the URL depends on have run,
the URL is that of the active tab, or it waits for its own tab to be opened; when the effect that would open it
has run and it still waits, the connection it names is not there. The second part is what makes
the first one last: a tab opened or closed by the user would otherwise meet a URL that is about to be followed.

### 4.8 Views and dialogs

`Views_proofs.tla` proves every property of the views, for any instance. Eight theorems are about forms and
what they submit:

| theorem | inductive invariant | what it adds |
|---|---|---|
| `StoredOwn` | `FormInv` | records on their way are of the connection the dialog is open for |
| `ImportMapped` | `ImportInv` | the mapping and the previews on their way are of the file chosen |
| `BusyHonest` | `BusyInv` | at most one statement of the view itself is on its way |
| `UntouchedKept` | `UntouchedInv` | one call at most will end busy, and its settings are those there are |
| `SyncCurrent` | `SyncInv` | what is compared and run on are places, and those of the comparison shown |
| `GrantsOfSelected` | `GrantsInv` | the one read on its way has the grants of the account selected |
| `ResultCurrent` | `ResultInv` | one comparison at most is on its way, and what it was made of is current |
| `RefersThere` | `ListsInv` | the one list on its way is of the pick that precedes it |

`ResultCurrent` has a hypothesis, `NoApplyIsNoRecord`: the value that stands for "no statements are
being run" is not a record of statements, which is so of the model value the runs use.

Seven are about lists that are read again after a change: `AccountsCurrent`, `ObjectsListed`,
`FilesListed`, `MonitorCurrent` (two lists, with an invariant each), `MatrixCurrent`, `StructureCurrent`
and `CopiesCurrent`. Their invariants have one form, `Fresh`: as long as the view is not doubtful, one read at most is on
its way and has seen what there is now; when none is, what is shown is what there is.
`ViewsCurrent` puts them together: a step of the views side by side is a step or a stutter of each.

`OneEntry` and `EntriesStayThere` are about the lists the browser keeps. `EntriesInv` says that what is stored and
every copy of it has its entries once. A window that shows an old copy still adds an entry only if what is stored does not have it, and removes
one from what is stored; a query tab stores its own copy, which has no entry twice either. What cutting and filtering do to a list are lemmas:
`PrependKeeps`, and in `Sublists_proofs.tla` `OmitLeaves` (what is left is a sequence of the same values),
`OmitRange` (all but the dropped ones) and `OmitInjective` (no value twice if none was). Those follow the recursion
of `Omit` over the length of a list. The library's induction theorems take a predicate, which the
prover cannot instantiate; `SetInduction` states induction about a set of numbers instead, from the fact that
the natural numbers are well-founded.

### 4.9 Only model-checked

Liveness, which the prover does not reach: `Answered`, `IdleIsEvicted`, `EveryCallEnds`, `DueIsRun`,
`SettlesUnlessBack`. Every safety property and every action property a run checks has its theorem, and so have the
three refinements.

## 5. Where the code and its comments disagree

Three disagreements have a run that shows the shortest way there.

* QS_wrong_target, `RunsOnItsTarget`: `create` returns a session that "another request may have
  created concurrently" without the comparison `get` makes: the script runs in the wrong database.
* BM_restore, `RestoreLandsWhereAsked`: "so the dump lands where the user asked". The name to rewrite is
  taken from the file name, in which characters were replaced. A dump of a database with such
  a name replaces the tables of the original instead.
* SV_apply, `RunsOnItsBase`: the statements "that turn base into target" are run "on the live
  database (target = live only)", which is what they lead to and not what they start from.

More are stated in the modules, as formulas TLC refutes. To see the shortest violation of one, name
it in the configuration of its module in place of the properties there.

| statement | module | what the text says | what the code does |
|---|---|---|---|
| `NoTornTx` | QuerySession | "BEGIN/COMMIT/ROLLBACK ... behave like a SQL console" | not for a script that runs longer than the idle time-out, or whose session id another request uses for another database |
| `CallsEnd` | ConnPool | "Long-running queries are bounded by the per-request context", and every call and every change of a connection ends | pings, keep-alives and handshakes have no context and no deadline and are made under a mutex: a server that is silent stops Update and Delete, and with the store's lock every request |
| `SavedIsConfigured` | BackupManager | settings are kept in `backups.json`, for the next start | `finish` copies the state, a request submits settings and saves them, `finish` renames its older copy over theirs: the next start undoes them |
| `NetworkIsCurrent` | ConnPool | "Credentials or host may have changed: drop existing pools" | a call that read the network or the SSH settings before an update caches a pool or a tunnel of the old settings after it |
| `FavoriteOnlyFlags` | ConnStore | "favorite / unfavorite a connection" | the handler writes the whole connection back as it read it: an edit acknowledged in between is undone, data of a refused edit can become permanent |
| `EditableIsItsSelect` | QueryTab | "Query results are editable only when the SQL is a single plain SELECT from one base table" | the candidate is made of the text last executed and the database chosen now; the result shown may be another one's |
| `RiskyIsConfirmed` | QueryTab | risky UPDATE and DELETE statements are confirmed before they run | only if they are the first of the text |
| `PendingIsShown` | TableEdits | edits "collect in a pending list" that is previewed and committed as a batch | a load in flight brings the rows as they were: the edit stays pending and is not shown |
| `SelectionIsOnThePage` | DataGrid | "Drag across rows to select a range (Shift extends ...)" | the anchor of a drag outlives the page, Shift extends from there to rows that do not exist |
| `Settles` | AppShell | "so a refresh / shared link / browser back-forward restores the exact view" | after Back or Forward the effect of the URL and that of the tabs may undo each other for ever |
| `SecretsAreKept` | ConnectionForm | "fetch the full record to prefill secrets" | saved before the record comes, or when it does not come, the form stores blank secrets |
| `PreviewIsAsSet` | ImportDialog | "with a preview of the first rows" | switching the header asks for the preview with the setting of before |
| `ChangesWhatWasCompared` | SchemaDiffs | "preview the sync SQL and execute explicitly against the target" | when another target is picked before they run, the statements run there |
| `RevokesWhatIsGranted` | PrivilegeMatrix | a click in a cell grants or revokes | a grant on a table is shown as one of its database, where it cannot be revoked |
| `ModifiedIsThere` | RoutinesView | saving an edited object replaces it | it is dropped before its new definition is accepted; if that fails it is gone |
| `HistoryStays` | SavedLists | the history of queries, kept for all tabs | each tab stores its own copy over what the others stored |

Three more are in the models and have no statement of their own:

* "Roll back an open transaction before returning the connection to the pool"
  (`querysession.go:89`): not if a statement runs for more than three seconds.
* "cancels a query by client-provided run id and also sends KILL" (`querysession.go:183`):
  a KILL may hit the next request of the connection.
* "Store keeps all connections in memory" (`store.go:129`): after a delete that could not
  be saved the connection is in the file only, until the next save or start.

## 6. Not modelled

* The read-only gate (`security.go`, `validateScript`): a condition at the top of each write handler,
  without state of its own. The flag is part of the data ConnStore keeps, and QueryTab knows which
  connections have it.
* What a script is made of (`scanSQL`, `scriptRun`): a lexer over characters; in QuerySession
  scripts are a constant.
* Batch transactions (`transaction.go`): one handler on a connection of its own, whose context ends the
  transaction. Their failures are listed as a hazard.
* The server's side of paging, of comparisons and of versions: operators over SQL text and rows, built anew from
  each request. Their answers are inputs of TablePages, SchemaDiffs and SchemaVersions.
* Self-update and daemon control: downloads, processes, pid files and signals of the operating system.
* Authentication on the server: a table of attempts and one of sign-in sessions; the client's side, signing in and
  out, is in AppShell.
* The ten slots of a pool, and the temporary entries of a connection test: whether slots run out depends on how
  long sessions idle.
* Imports, exports and the rows of copied tables on the server, and the contents of dumps.
* Text generation (designer, DDL, privileges, formatters, SQL parsers) and presentation (charts, diagrams, explain, search,
  widgets, themes, translations): no state that outlives a request or a key stroke.
