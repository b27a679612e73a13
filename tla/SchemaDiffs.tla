----------------------------- MODULE SchemaDiffs -----------------------------
(***************************************************************************)
(* The three views that compare a source with a target and bring the       *)
(* target to it - two tables of a connection (SchemaDiffView.tsx), two     *)
(* tables of any connections (CrossDiffView.tsx), two databases            *)
(* (CrossDatabaseDiffView.tsx) - and the dialog that compares the rows of  *)
(* two tables (DataDiffDialog.tsx), all in frontend/src/components/.       *)
(*                                                                         *)
(* Abstractions.                                                           *)
(*  - What is compared is a place: a connection and a database; the table  *)
(*    of that database is one. Its content is a value, of which the        *)
(*    statements make the target's a copy.                                 *)
(*  - The two places are read when the comparison comes.                   *)
(*  - A run of statements that fails leaves any content.                   *)
(*  - The lists of databases and tables to pick from, the kinds of         *)
(*    comparison, the sections of the result, and the copy buttons are     *)
(*    left out.                                                            *)
(***************************************************************************)
EXTENDS Naturals, FiniteSets

CONSTANTS Places, Contents, NotPicked, NoSync

ASSUME PlacesAssumption == \A p \in Places : DOMAIN p = {"server", "schema"}

VARIABLES
  view,           \* which of the three views it is
  sourcePicked, targetPicked, \* the pickers: [server, schema]
  content,        \* the servers: what each place has
  sync,           \* the comparison shown: [source, target, want, differs, qualified]
  compared,       \* the call in flight: [source, target], or NoSync
  executing,      \* the statements in flight: [sync, source, target], or NoSync
  elsewhere,      \* history: a place changed, or statements failed, since it was
                  \* compared
  moved           \* history: other places were picked when the statements of the
                  \* comparison shown were run

syncVars == <<view, sourcePicked, targetPicked, content, sync, compared, executing,
              elsewhere, moved>>

Views == {"tables", "connections", "databases"}
Servers == {p.server : p \in Places}

SyncInit ==
  /\ view \in Views
  /\ sourcePicked \in Places /\ targetPicked = sourcePicked
  /\ content \in [Places -> Contents]
  /\ sync = NoSync /\ compared = NoSync /\ executing = NoSync
  /\ elsewhere = FALSE /\ moved = FALSE

Loading == compared # NoSync \/ executing # NoSync

(* The pickers stay enabled while a view loads; a comparison shown stays. *)
Picks(newSource, newTarget) ==
  /\ sourcePicked' = newSource /\ targetPicked' = newTarget
  /\ UNCHANGED <<view, content, sync, compared, executing, elsewhere, moved>>

PickedBy(servers, old) ==
  {p \in Places : p.server = old.server}
    \cup {[server |-> c, schema |-> NotPicked] : c \in servers}

PicksFrom(servers) ==
  \/ \E p \in PickedBy(servers, sourcePicked) : Picks(p, targetPicked)
  \/ \E p \in PickedBy(servers, targetPicked) : Picks(sourcePicked, p)

(* PickerGroup of SchemaDiffView: one connection. *)
PickTables == view = "tables" /\ PicksFrom({})

(* PickerGroup of CrossDiffView. *)
PickAcross == view = "connections" /\ PicksFrom(Servers)

(* DatabasePicker of CrossDatabaseDiffView. *)
PickDatabases == view = "databases" /\ PicksFrom(Servers)

-----------------------------------------------------------------------------
(* compare: the comparison shown goes, and comes back with the answer. *)
AsksToCompare(from, to) ==
  /\ from \in Places /\ to \in Places
  /\ compared' = [source |-> from, target |-> to]
  /\ sync' = NoSync
  /\ elsewhere' = FALSE /\ moved' = FALSE

Compares(v) ==
  /\ view = v /\ ~Loading /\ AsksToCompare(sourcePicked, targetPicked)
  /\ UNCHANGED <<view, sourcePicked, targetPicked, content, executing>>

CompareTables == Compares("tables")
CompareAcross == Compares("connections")
CompareDatabases == Compares("databases")

(* The statements name the database that was compared, but for those that  *)
(* create a table (crossdbdiff.go:64, 248-262).                            *)
CompareComes(qualified) ==
  /\ compared # NoSync /\ compared' = NoSync
  /\ qualified \/ view = "databases"
  /\ sync' = [source |-> compared.source, target |-> compared.target,
              want |-> content[compared.source], qualified |-> qualified,
              differs |-> content[compared.source] # content[compared.target]]
  /\ UNCHANGED <<view, sourcePicked, targetPicked, content, executing, elsewhere, moved>>

CompareFails ==
  /\ compared # NoSync /\ compared' = NoSync
  /\ UNCHANGED <<view, sourcePicked, targetPicked, content, sync, executing, elsewhere, moved>>

-----------------------------------------------------------------------------
(* execute, once it is confirmed: the statements shown, on the target that *)
(* is picked.                                                              *)
Executes(v) ==
  /\ view = v /\ ~Loading /\ sync # NoSync /\ sync.differs
  /\ executing' = [sync |-> sync, source |-> sourcePicked, target |-> targetPicked]
  /\ moved' = (moved \/ targetPicked # sync.target \/ sourcePicked # sync.source)
  /\ UNCHANGED <<view, sourcePicked, targetPicked, content, sync, compared, elsewhere>>

ExecuteOnTable == Executes("tables")
ExecuteAcross == Executes("connections")
ExecuteMigration == Executes("databases")

Changed(e) ==
  [server |-> e.target.server,
   schema |-> IF e.sync.qualified THEN e.sync.target.schema ELSE e.target.schema]

(* Mutant: the comparison is left as it was. *)
ExecutedOnly ==
  /\ executing # NoSync /\ Changed(executing) \in Places
  /\ content' = [content EXCEPT ![Changed(executing)] = executing.sync.want]
  /\ executing' = NoSync
  /\ UNCHANGED <<view, sourcePicked, targetPicked, sync, compared, elsewhere, moved>>

(* The same two are compared again, if they were picked. *)
Executed ==
  /\ executing # NoSync /\ Changed(executing) \in Places
  /\ content' = [content EXCEPT ![Changed(executing)] = executing.sync.want]
  /\ executing' = NoSync
  /\ \/ AsksToCompare(executing.source, executing.target)
     \/ /\ {executing.source, executing.target} \ Places # {}
        /\ UNCHANGED <<sync, compared, elsewhere, moved>>
  /\ UNCHANGED <<view, sourcePicked, targetPicked>>

ExecuteFails ==
  /\ executing # NoSync /\ executing' = NoSync
  /\ \/ UNCHANGED content
     \/ /\ Changed(executing) \in Places
        /\ \E x \in Contents : content' = [content EXCEPT ![Changed(executing)] = x]
  /\ elsewhere' = TRUE
  /\ UNCHANGED <<view, sourcePicked, targetPicked, sync, compared, moved>>

(* Another session changes a place. *)
ChangedElsewhere ==
  /\ ~elsewhere /\ elsewhere' = TRUE
  /\ \E p \in Places, x \in Contents : content' = [content EXCEPT ![p] = x]
  /\ UNCHANGED <<view, sourcePicked, targetPicked, sync, compared, executing, moved>>

SyncNext ==
  \/ PickTables \/ PickAcross \/ PickDatabases
  \/ CompareTables \/ CompareAcross \/ CompareDatabases
  \/ CompareFails \/ \E qualified \in BOOLEAN : CompareComes(qualified)
  \/ ExecuteOnTable \/ ExecuteAcross \/ ExecuteMigration
  \/ Executed \/ ExecuteFails \/ ChangedElsewhere

SyncSpec == SyncInit /\ [][SyncNext]_syncVars

-----------------------------------------------------------------------------
(* Properties *)

(* A comparison shown as different is still different: once its statements *)
(* have run it is made again. Unless a place was changed elsewhere, the    *)
(* statements failed, or source and target were picked anew before they    *)
(* ran.                                                                    *)
SyncIsCurrent ==
  (sync # NoSync /\ ~elsewhere /\ ~moved) =>
    (sync.differs <=> content[sync.source] # content[sync.target])

(* README.md:109-110 "preview the sync SQL and execute explicitly against  *)
(* the target": what is previewed as the change of a target changes that   *)
(* one. Not when another target is picked before they run: they run on its *)
(* server, and those that name no database in its database.                *)
ChangesWhatWasCompared ==
  executing # NoSync => Changed(executing) = executing.sync.target
=============================================================================
