----------------------------- MODULE TableEdits -----------------------------
(***************************************************************************)
(* The rows of a table tab and the edits queued on them: the batch, the    *)
(* deletions and the Undo of frontend/src/components/TableTab.tsx with the *)
(* cell editor of its data grid and the dialogs that edit rows.            *)
(*                                                                         *)
(* Everything refers to a row by its index on the page. A load replaces    *)
(* the rows whenever its answer comes, which may be in the middle of any   *)
(* of the user's doings; starting one drops the queued edits.              *)
(*                                                                         *)
(* Abstractions.                                                           *)
(*  - A row is its key and one other column. "id" is history: which row of *)
(*    the table this is, whatever is typed over its key.                   *)
(*  - A load is started at any time: which page it asks for is TablePages. *)
(*    Any of PagesOfRows may come.                                         *)
(*  - The queued edits are a function from cells, the code keeps a list;   *)
(*    all edits of one row carry the same key.                             *)
(*  - A dialog or the cell editor keeps row indices only, and what it does *)
(*    when confirmed depends on the rows of that moment: each is opened    *)
(*    and confirmed in one step, and gridUp is asked of those that cannot  *)
(*    stay open over an error.                                             *)
(*  - MaxWork bounds the loads and writes the user starts, and numbers     *)
(*    them; MaxEdits bounds what is queued.                                *)
(***************************************************************************)
EXTENDS Naturals, FiniteSets, Sequences

CONSTANTS Keys, PagesOfRows, MaxWork, MaxEdits, NoRow

ASSUME KeysAssumption ==
  /\ NoRow \notin Keys
  /\ \A p \in PagesOfRows : p \in Seq(Keys)
ASSUME WorkAssumption == MaxWork \in Nat /\ MaxEdits \in Nat

VARIABLES
  keyed,      \* the table has a primary key (a fact of the server)
  rows,       \* the rows shown
  gridUp,     \* the grid is mounted: rows have come and no error is shown
  selected,   \* row indices
  pending,    \* queued edits, by cell
  undo,       \* what the Undo of the last toast restores, NoRow if none
  work, made, \* loads and writes in flight, and their number so far
  crossed     \* history: an edit was queued or undone while a load was in
              \* flight or after it failed, or Undo brought back rows that a
              \* load had replaced

editsVars == <<keyed, rows, gridUp, selected, pending, undo, work, made, crossed>>

Columns == {"key", "val"}
NoEdits == <<>>

Loads  == {w \in work : w.api = "tableData"}
Writes == work \ Loads
Busy(api) == \E w \in work : w.api = api
CommitBusy == Busy("bulkUpdateRows") \/ \E w \in Loads : w.then = "commit"

InGrid(r) == r \in DOMAIN rows

FromServer(page) == [i \in DOMAIN page |-> [id |-> page[i], key |-> page[i], val |-> "old"]]

(* The first page has come. *)
EditsInit ==
  /\ keyed \in BOOLEAN
  /\ \E page \in PagesOfRows : rows = FromServer(page)
  /\ gridUp = TRUE /\ selected = {}
  /\ pending = NoEdits /\ undo = NoRow
  /\ work = {} /\ made = 0 /\ crossed = FALSE

-----------------------------------------------------------------------------
(* Loads *)

(* A load in place of the write it follows, if any. *)
StartLoad(rest, n, then) ==
  /\ work' = rest \cup {[api |-> "tableData", n |-> n, keys |-> {}, then |-> then]}
  /\ pending' = NoEdits

(* For whatever reason: a new page, a filter, Refresh. An error is cleared,*)
(* so that the grid shows the rows it had.                                 *)
Reload ==
  /\ made < MaxWork /\ made' = made + 1
  /\ StartLoad(work, made + 1, "none")
  /\ gridUp' = (gridUp \/ rows # <<>>)
  /\ UNCHANGED <<keyed, rows, selected, undo, crossed>>

RowsArrive(w, page) ==
  /\ w \in Loads /\ work' = work \ {w}
  /\ rows' = FromServer(page) /\ gridUp' = TRUE
  /\ selected' = {}
  /\ UNCHANGED <<keyed, pending, undo, made, crossed>>

LoadGivesUp(w) ==
  /\ w \in Loads /\ work' = work \ {w}
  /\ gridUp' = FALSE
  /\ UNCHANGED <<keyed, rows, selected, pending, undo, made, crossed>>

-----------------------------------------------------------------------------
(* Cell edits *)

(* The key as the row shows it at present. *)
BuildPrimaryKey(r) == IF keyed /\ InGrid(r) THEN rows[r].key ELSE NoRow

RowEdits(r) == {c \in DOMAIN pending : c[1] = r}

PkOf(r) ==
  IF RowEdits(r) # {} THEN pending[CHOOSE c \in RowEdits(r) : TRUE].pk
  ELSE BuildPrimaryKey(r)

WithValues(shown, values) ==
  [r \in DOMAIN shown |->
     [col \in {"id"} \cup Columns |->
        IF <<r, col>> \in DOMAIN values THEN values[<<r, col>>] ELSE shown[r][col]]]

(* queueChanges: "changes" gives cells their new values. A table without a *)
(* primary key takes none of them.                                         *)
QueueChanges(changes, labelled) ==
  LET cells == {c \in DOMAIN changes : InGrid(c[1])}
      edit(c) == [pk  |-> PkOf(c[1]), new |-> changes[c],
                  old |-> IF c \in DOMAIN pending THEN pending[c].old ELSE rows[c[1]][c[2]]]
  IN IF \E c \in cells : PkOf(c[1]) = NoRow
     THEN UNCHANGED <<rows, pending, undo, crossed>>
     ELSE /\ Cardinality(DOMAIN pending \cup cells) <= MaxEdits
          /\ pending' = [c \in DOMAIN pending \cup cells |->
                           IF c \in cells THEN edit(c) ELSE pending[c]]
          /\ rows' = WithValues(rows, [c \in cells |-> changes[c]])
          /\ undo' = IF labelled THEN [pending |-> pending, rows |-> rows] ELSE undo
          /\ crossed' = (crossed \/ Loads # {} \/ ~gridUp)

Typed(col) == IF col = "key" THEN Keys ELSE {"new"}

(* The editor's commit goes to the row that is at its index by now; a      *)
(* value that is there already is not queued.                              *)
CommitEdit(r, col, value) ==
  /\ gridUp /\ InGrid(r) /\ value \in Typed(col) /\ rows[r][col] # value
  /\ QueueChanges([c \in {<<r, col>>} |-> value], FALSE)
  /\ UNCHANGED <<keyed, gridUp, selected, work, made>>

(* Set NULL, the row drawer and the cell viewer do not compare. *)
UpdateCell(r, col, value) ==
  /\ InGrid(r) /\ value \in Typed(col)
  /\ QueueChanges([c \in {<<r, col>>} |-> value], FALSE)
  /\ UNCHANGED <<keyed, gridUp, selected, work, made>>

(* A bulk edit of the selected rows, or of the page. *)
BulkEdit(targets) ==
  /\ selected # {} /\ targets \in {selected, DOMAIN rows}
  /\ QueueChanges([c \in {<<r, "val">> : r \in targets} |-> "new"], TRUE)
  /\ UNCHANGED <<keyed, gridUp, selected, work, made>>

(* handlePasteRange keeps what falls inside the page of a block of two     *)
(* rows that starts at the selected cell; the dialog queues it.            *)
ApplyPaste(start) ==
  /\ InGrid(start)
  /\ QueueChanges([c \in {<<r, "val">> : r \in start..(start + 1)} |-> "new"], TRUE)
  /\ UNCHANGED <<keyed, gridUp, selected, work, made>>

Ids(shown) == [r \in DOMAIN shown |-> shown[r].id]

(* Mutant: the rows stay as edited. *)
UndoEditsOnly ==
  /\ undo # NoRow
  /\ pending' = undo.pending
  /\ undo' = NoRow
  /\ UNCHANGED <<keyed, rows, gridUp, selected, work, made, crossed>>

(* The toast puts back the edits and the rows of the render it was made in *)
(* and leaves everything else as it is. (It goes away by itself: whoever   *)
(* comes late does without.)                                               *)
Undo ==
  /\ undo # NoRow
  /\ pending' = undo.pending /\ rows' = undo.rows
  /\ undo' = NoRow
  /\ crossed' = (crossed \/ Ids(rows) # Ids(undo.rows) \/ Loads # {} \/ ~gridUp)
  /\ UNCHANGED <<keyed, gridUp, selected, work, made>>

-----------------------------------------------------------------------------
(* The batch *)

(* The bar with Preview, Rollback and Commit. *)
BatchBar == pending # NoEdits /\ ~CommitBusy

RollbackPending ==
  /\ BatchBar
  /\ rows' = WithValues(rows, [c \in DOMAIN pending |-> pending[c].old])
  /\ pending' = NoEdits
  /\ UNCHANGED <<keyed, gridUp, selected, undo, work, made, crossed>>

StartWrite(api, keys, then) ==
  /\ made < MaxWork /\ made' = made + 1
  /\ work' = work \cup {[api |-> api, n |-> made + 1, keys |-> keys, then |-> then]}

(* One UPDATE for each key. *)
CommitPending ==
  /\ BatchBar
  /\ StartWrite("bulkUpdateRows", {pending[c].pk : c \in DOMAIN pending}, "none")
  /\ UNCHANGED <<keyed, rows, gridUp, selected, pending, undo, crossed>>

-----------------------------------------------------------------------------
(* Deleting and inserting rows *)

(* The row at the dialog's index by now, under the key it shows. *)
ConfirmDelete(r) ==
  /\ InGrid(r)
  /\ IF BuildPrimaryKey(r) = NoRow
     THEN UNCHANGED <<work, made>>
     ELSE StartWrite("deleteRow", {BuildPrimaryKey(r)}, "none")
  /\ UNCHANGED <<keyed, rows, gridUp, selected, pending, undo, crossed>>

ConfirmBulkDelete ==
  /\ ~Busy("bulkDeleteRows") /\ keyed
  /\ selected # {} /\ selected \subseteq DOMAIN rows
  /\ StartWrite("bulkDeleteRows", {BuildPrimaryKey(r) : r \in selected}, "none")
  /\ UNCHANGED <<keyed, rows, gridUp, selected, pending, undo, crossed>>

(* Insert, paste rows, duplicate a row or the selected rows. *)
InsertRows(duplicates) ==
  /\ ~Busy("bulkInsertRows")
  /\ duplicates => selected # {} /\ selected \subseteq DOMAIN rows
  /\ StartWrite("bulkInsertRows", {}, IF duplicates THEN "duplicate" ELSE "none")
  /\ UNCHANGED <<keyed, rows, gridUp, selected, pending, undo, crossed>>

Written(w) ==
  /\ w \in Writes
  /\ StartLoad(work \ {w}, w.n, IF w.api = "bulkUpdateRows" THEN "commit" ELSE "none")
  /\ gridUp' = (gridUp \/ rows # <<>>)
  /\ selected' = IF w.api = "bulkDeleteRows" \/ w.then = "duplicate" THEN {} ELSE selected
  /\ UNCHANGED <<keyed, rows, undo, made, crossed>>

WriteRefused(w) ==
  /\ w \in Writes /\ work' = work \ {w}
  /\ UNCHANGED <<keyed, rows, gridUp, selected, pending, undo, made, crossed>>

-----------------------------------------------------------------------------
(* What the grid lets the user select; that it may pick rows beyond a      *)
(* page that has shrunk is in DataGrid, and fails here before any call.    *)
Select(picked) ==
  /\ gridUp /\ picked \subseteq DOMAIN rows
  /\ selected' = picked
  /\ UNCHANGED <<keyed, rows, gridUp, pending, undo, work, made, crossed>>

EditsNext ==
  \/ Reload
  \/ \E w \in work :
       \/ \E p \in PagesOfRows : RowsArrive(w, p)
       \/ LoadGivesUp(w) \/ Written(w) \/ WriteRefused(w)
  \/ \E r \in DOMAIN rows, col \in Columns, v \in Keys \cup {"new"} :
       CommitEdit(r, col, v) \/ UpdateCell(r, col, v)
  \/ \E r \in DOMAIN rows : ApplyPaste(r) \/ ConfirmDelete(r)
  \/ \E targets \in {selected, DOMAIN rows} : BulkEdit(targets)
  \/ Undo \/ RollbackPending \/ CommitPending
  \/ ConfirmBulkDelete
  \/ \E duplicates \in BOOLEAN : InsertRows(duplicates)
  \/ \E picked \in SUBSET DOMAIN rows : Select(picked)

EditsSpec == EditsInit /\ [][EditsNext]_editsVars

-----------------------------------------------------------------------------
(* Properties *)

RowsShowEdits ==
  \A c \in DOMAIN pending :
    InGrid(c[1]) /\ rows[c[1]].id = pending[c].pk /\ rows[c[1]][c[2]] = pending[c].new

(* A queued edit shows in its row and carries the key that row has in the  *)
(* table, also when the key was edited before, or edits were undone or     *)
(* rolled back, unless that happened while a load was in flight or after   *)
(* it failed.                                                              *)
EditsNameTheirRow == ~crossed => RowsShowEdits

(* README.md:71-73 "Cell edits collect in a pending list, can be previewed *)
(* as UPDATE statements, then committed in one transaction or rolled back  *)
(* as a batch": what is pending is what the grid shows as edited. Not when *)
(* a load in flight brings the rows as they were after an edit was queued. *)
PendingIsShown == RowsShowEdits
=============================================================================
