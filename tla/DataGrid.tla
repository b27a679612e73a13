------------------------------ MODULE DataGrid ------------------------------
(***************************************************************************)
(* The data grid of a table tab, frontend/src/components/DataGrid.tsx: the *)
(* selection of rows by check boxes and by dragging, the rectangular range *)
(* of cells, the columns' widths, visibility and freezing with their copy  *)
(* in localStorage, and the row of quick filters.                          *)
(*                                                                         *)
(* Abstractions.                                                           *)
(*  - The grid shows a number of rows; which rows they are and what an     *)
(*    edit does to them is TableEdits.                                     *)
(*  - A width is one of a few, "narrow" and "wide" among them; positions   *)
(*    in pixels, the clamping of a width and the clipboard are left out.   *)
(*  - Columns are numbered from 1 in the order of the result, rows too; a  *)
(*    range names a visible column by its place among the visible ones, as *)
(*    the code does.                                                       *)
(*  - The saved copy has one key per table, which other windows and tabs   *)
(*    of the table write as well: OthersPrefs are what they may save. A    *)
(*    write may fail, which the code ignores.                              *)
(*  - RowCounts bounds the pages and Columns the table.                    *)
(***************************************************************************)
EXTENDS Naturals, FiniteSets

CONSTANTS NColumns, RowCounts, Widths, OthersPrefs, NoRange, NoPrefs, NoRowYet

GridColumns == 1..NColumns

Prefs == [widths : UNION {[S -> Widths] : S \in SUBSET GridColumns},
          hidden : SUBSET GridColumns, frozen : SUBSET GridColumns]

ASSUME GridAssumption ==
  /\ NColumns \in Nat /\ RowCounts \subseteq Nat /\ OthersPrefs \subseteq Prefs
  /\ NoRowYet \notin Nat /\ NoPrefs \notin Prefs

VARIABLES
  gridRows,    \* number of rows shown
  picked,      \* the selection, kept by the tab
  dragAnchor, dragBase, dragging,   \* of the row drag
  range, rangeDrag,                 \* of the cell range
  prefs, stored, resizing,          \* columns; their saved copy; the one resized
  unsaved,     \* history: the last write failed, or another window wrote since
  quickDraft, quickFilters          \* columns with a text typed; applied

gridVars == <<gridRows, picked, dragAnchor, dragBase, dragging, range,
              rangeDrag, prefs, stored, resizing, unsaved, quickDraft, quickFilters>>
selectionVars == <<picked, dragAnchor, dragBase, dragging>>
rangeVars     == <<range, rangeDrag>>
prefsVars     == <<prefs, stored, resizing, unsaved>>
filterVars    == <<quickDraft, quickFilters>>

DefaultPrefs == [widths |-> [c \in {} |-> "wide"], hidden |-> {}, frozen |-> {}]

Least(a, b)   == IF a < b THEN a ELSE b
Largest(a, b) == IF a < b THEN b ELSE a
Between(a, b) == Least(a, b)..Largest(a, b)

NVisible == Cardinality(GridColumns \ prefs.hidden)
Cells == [r : 1..gridRows, c : 1..NVisible]

LoadPrefs(saved) == IF saved = NoPrefs THEN DefaultPrefs ELSE saved

GridInit ==
  /\ gridRows \in RowCounts
  /\ picked = {} /\ dragAnchor = NoRowYet /\ dragBase = {} /\ dragging = FALSE
  /\ range = NoRange /\ rangeDrag = FALSE
  /\ stored = NoPrefs /\ prefs = LoadPrefs(stored) /\ resizing = NoRowYet /\ unsaved = FALSE
  /\ quickDraft = {} /\ quickFilters = {}

(* Mutant: the tab keeps its selection. *)
RowsChangeSelected(n) ==
  /\ n \in RowCounts /\ gridRows' = n
  /\ UNCHANGED <<selectionVars, rangeVars, prefsVars, filterVars>>

(* The tab shows another page: it clears its selection, the grid nothing. *)
RowsChange(n) ==
  /\ n \in RowCounts /\ gridRows' = n
  /\ picked' = {}
  /\ UNCHANGED <<dragAnchor, dragBase, dragging, rangeVars, prefsVars, filterVars>>

(* The tab is closed and opened again, or the page reloaded. *)
GridReopens ==
  /\ resizing = NoRowYet
  /\ prefs' = LoadPrefs(stored) /\ unsaved' = FALSE
  /\ picked' = {} /\ dragAnchor' = NoRowYet /\ dragBase' = {} /\ dragging' = FALSE
  /\ range' = NoRange /\ rangeDrag' = FALSE
  /\ quickDraft' = quickFilters
  /\ UNCHANGED <<gridRows, stored, resizing, quickFilters>>

-----------------------------------------------------------------------------
(* Rows *)

ToggleRow(r) ==
  /\ picked' = IF r \in picked THEN picked \ {r} ELSE picked \cup {r}
  /\ UNCHANGED <<dragAnchor, dragBase, dragging, rangeVars, prefsVars, filterVars, gridRows>>

(* The box in the header: clears what there is, or takes every row. *)
ToggleAll ==
  /\ picked' = IF picked # {} THEN {} ELSE 1..gridRows
  /\ UNCHANGED <<dragAnchor, dragBase, dragging, rangeVars, prefsVars, filterVars, gridRows>>

SelectAllKey ==
  /\ gridRows > 0 /\ picked' = 1..gridRows
  /\ UNCHANGED <<dragAnchor, dragBase, dragging, rangeVars, prefsVars, filterVars, gridRows>>

(* "add" with Cmd or Ctrl, "extend" with Shift. *)
OnRowMouseDown(r, how) ==
  /\ r \in 1..gridRows
  /\ IF how = "extend" /\ dragAnchor # NoRowYet
     THEN /\ picked' = dragBase \cup Between(dragAnchor, r)
          /\ UNCHANGED <<dragBase, dragAnchor>>
     ELSE /\ dragBase' = (IF how = "add" THEN picked ELSE {}) \cup {r}
          /\ dragAnchor' = r /\ picked' = dragBase'
  /\ dragging' = TRUE
  /\ UNCHANGED <<rangeVars, prefsVars, filterVars, gridRows>>

(* The pointer over a row, and the button let go over it. *)
DragOver(r) ==
  /\ dragging /\ dragAnchor # NoRowYet /\ r \in 1..gridRows
  /\ picked' = dragBase \cup Between(dragAnchor, r)
  /\ UNCHANGED <<dragBase, dragAnchor, dragging, rangeVars, prefsVars, filterVars, gridRows>>

-----------------------------------------------------------------------------
(* Cells *)

OnCellMouseDown(cell, extend) ==
  /\ cell \in Cells
  /\ range' = [anchor |-> IF extend /\ range # NoRange THEN range.anchor ELSE cell,
               focus  |-> cell]
  /\ rangeDrag' = TRUE
  /\ UNCHANGED <<selectionVars, prefsVars, filterVars, gridRows>>

OnCellMouseEnter(cell) ==
  /\ rangeDrag /\ range # NoRange /\ cell \in Cells
  /\ range' = [range EXCEPT !.focus = cell]
  /\ UNCHANGED <<rangeDrag, selectionVars, prefsVars, filterVars, gridRows>>

(* One step back or forth, kept on the grid. *)
Step(at, back, last) == IF back THEN Largest(1, Least(last, at - 1)) ELSE Least(last, at + 1)
Kept(at, last) == Largest(1, Least(last, at))

(* Arrows, Tab and Enter. A grid that has lost rows brings the focus back. *)
MoveFocus(axis, back, extend) ==
  /\ gridRows > 0 /\ NVisible > 0
  /\ LET corner == [r |-> 1, c |-> 1]
         base == IF range = NoRange THEN [anchor |-> corner, focus |-> corner] ELSE range
         next == IF axis = "row"
                 THEN [r |-> Step(base.focus.r, back, gridRows),
                       c |-> Kept(base.focus.c, NVisible)]
                 ELSE [r |-> Kept(base.focus.r, gridRows),
                       c |-> Step(base.focus.c, back, NVisible)]
     IN range' = [anchor |-> IF extend THEN base.anchor ELSE next, focus |-> next]
  /\ UNCHANGED <<rangeDrag, selectionVars, prefsVars, filterVars, gridRows>>

Escape ==
  /\ range' = NoRange
  /\ UNCHANGED <<rangeDrag, selectionVars, prefsVars, filterVars, gridRows>>

-----------------------------------------------------------------------------
(* Columns *)

(* A write that fails, for want of space, is ignored. *)
StorePrefs(next) ==
  \/ stored' = next /\ unsaved' = FALSE
  \/ stored' = stored /\ unsaved' = TRUE

SavePrefs(next) == prefs' = next /\ StorePrefs(next)

(* Another window or tab of the table saves the columns it shows. *)
OtherWindowSaves ==
  /\ stored' \in OthersPrefs /\ unsaved' = TRUE
  /\ UNCHANGED <<prefs, resizing, rangeVars, selectionVars, filterVars, gridRows>>

SetHidden(column, hide) ==
  /\ resizing = NoRowYet
  /\ SavePrefs([prefs EXCEPT !.hidden = IF hide THEN @ \cup {column} ELSE @ \ {column}])
  /\ range' = IF hide THEN NoRange ELSE range
  /\ UNCHANGED <<rangeDrag, resizing, selectionVars, filterVars, gridRows>>

SetFrozen(column, freeze) ==
  /\ resizing = NoRowYet /\ (freeze => column \notin prefs.hidden)
  /\ SavePrefs([prefs EXCEPT !.frozen = IF freeze THEN @ \cup {column} ELSE @ \ {column}])
  /\ UNCHANGED <<resizing, rangeVars, selectionVars, filterVars, gridRows>>

FreezeUpTo(column) ==
  /\ resizing = NoRowYet /\ column \notin prefs.hidden
  /\ SavePrefs([prefs EXCEPT !.frozen = (1..column) \ prefs.hidden])
  /\ UNCHANGED <<resizing, rangeVars, selectionVars, filterVars, gridRows>>

ResetPrefs ==
  /\ resizing = NoRowYet
  /\ SavePrefs(DefaultPrefs)
  /\ range' = NoRange
  /\ UNCHANGED <<rangeDrag, resizing, selectionVars, filterVars, gridRows>>

StartResize(column) ==
  /\ resizing = NoRowYet /\ column \in GridColumns \ prefs.hidden
  /\ resizing' = column
  /\ UNCHANGED <<prefs, stored, unsaved, rangeVars, selectionVars, filterVars, gridRows>>

ResizeTo(width) ==
  /\ resizing # NoRowYet
  /\ prefs' = [prefs EXCEPT !.widths =
                 [c \in DOMAIN @ \cup {resizing} |-> IF c = resizing THEN width ELSE @[c]]]
  /\ UNCHANGED <<stored, unsaved, resizing, rangeVars, selectionVars, filterVars, gridRows>>

(* Mutant: the width is not saved. *)
MouseUpForgets ==
  /\ dragging \/ rangeDrag \/ resizing # NoRowYet
  /\ dragging' = FALSE /\ rangeDrag' = FALSE /\ resizing' = NoRowYet
  /\ UNCHANGED <<stored, unsaved, prefs, range, picked, dragAnchor, dragBase, filterVars, gridRows>>

(* The button is let go anywhere: whatever was dragged ends, and a resize  *)
(* saves what it has come to.                                              *)
MouseUp ==
  /\ dragging \/ rangeDrag \/ resizing # NoRowYet
  /\ dragging' = FALSE /\ rangeDrag' = FALSE /\ resizing' = NoRowYet
  /\ IF resizing # NoRowYet THEN StorePrefs(prefs) ELSE UNCHANGED <<stored, unsaved>>
  /\ UNCHANGED <<prefs, range, picked, dragAnchor, dragBase, filterVars, gridRows>>

-----------------------------------------------------------------------------
(* Quick filters *)

TypeFilter(column) ==
  /\ column \in GridColumns \ prefs.hidden
  /\ quickDraft' = IF column \in quickDraft THEN quickDraft \ {column}
                   ELSE quickDraft \cup {column}
  /\ UNCHANGED <<quickFilters, prefsVars, rangeVars, selectionVars, gridRows>>

(* Enter, or the field loses the focus. *)
ApplyQuickFilters ==
  /\ quickFilters' = quickDraft
  /\ UNCHANGED <<quickDraft, prefsVars, rangeVars, selectionVars, gridRows>>

(* "Filter by this value" of a cell's menu; opening it has left the field. *)
FilterByValue(column) ==
  /\ column \in GridColumns \ prefs.hidden
  /\ quickDraft = quickFilters
  /\ quickFilters' = quickFilters \cup {column} /\ quickDraft' = quickFilters'
  /\ UNCHANGED <<prefsVars, rangeVars, selectionVars, gridRows>>

ClearQuickFilters ==
  /\ quickDraft' = {} /\ quickFilters' = {}
  /\ UNCHANGED <<prefsVars, rangeVars, selectionVars, gridRows>>

-----------------------------------------------------------------------------
(* What is done to rows, to cells and columns, and to the quick filters    *)
(* touches variables of its own.                                           *)
RowsNext ==
  \/ \E n \in RowCounts : RowsChange(n)
  \/ \E r \in 1..gridRows :
       \/ ToggleRow(r) \/ DragOver(r)
       \/ \E how \in {"only", "add", "extend"} : OnRowMouseDown(r, how)
  \/ ToggleAll \/ SelectAllKey
  \/ MouseUp

(* What handleKeyDown makes of the keys that move in the grid. *)
KeysNext ==
  \/ \E axis \in {"row", "column"}, back, extend \in BOOLEAN : MoveFocus(axis, back, extend)
  \/ Escape

(* The headers with their menus and handles, and the menus above the grid. *)
ColumnsNext ==
  \/ \E column \in GridColumns, on \in BOOLEAN : SetHidden(column, on) \/ SetFrozen(column, on)
  \/ \E column \in GridColumns : FreezeUpTo(column) \/ StartResize(column)
  \/ \E width \in Widths : ResizeTo(width)
  \/ ResetPrefs

CellsNext ==
  \/ \E n \in RowCounts : RowsChange(n)
  \/ GridReopens
  \/ \E cell \in Cells : OnCellMouseEnter(cell) \/ \E x \in BOOLEAN : OnCellMouseDown(cell, x)
  \/ KeysNext \/ ColumnsNext \/ MouseUp

StorageNext == ColumnsNext \/ MouseUp \/ GridReopens \/ OtherWindowSaves

FiltersNext ==
  \/ \E column \in GridColumns : TypeFilter(column) \/ FilterByValue(column)
  \/ ApplyQuickFilters \/ ClearQuickFilters

GridNext == RowsNext \/ CellsNext \/ StorageNext \/ FiltersNext

GridSpec == GridInit /\ [][GridNext]_gridVars

-----------------------------------------------------------------------------
(* Properties *)

(* What the grid shows is what it would show when opened again, through    *)
(* any sequence of changes, of which some could not be written: the next   *)
(* one that can be writes all of them. Excepted are a column that is being *)
(* resized, a last write that failed, and another window that wrote since. *)
ColumnsAreSaved == resizing = NoRowYet /\ ~unsaved => prefs = LoadPrefs(stored)

(* README.md:63-65 "Drag across rows to select a range (Shift extends,     *)
(* Cmd/Ctrl adds) and delete them in one transaction": what is selected    *)
(* are rows of the page. It does not hold: the anchor of a drag outlives   *)
(* the page, and Shift extends from there.                                 *)
SelectionIsOnThePage == picked \subseteq 1..gridRows

(* Selections stay on the grid. A drag whose anchor is still on the page   *)
(* selects rows of the page, over any sequence of clicks, drags and pages: *)
(* the tab drops the selection with the rows it was made on. A range,      *)
(* which names visible columns by their place, never points past the last  *)
(* one, where a copy or a paste would go astray, though columns are        *)
(* hidden, shown and reset.                                                *)
SelectionsStayOnTheGrid ==
  /\ dragBase \cup ({dragAnchor} \ {NoRowYet}) \subseteq 1..gridRows => SelectionIsOnThePage
  /\ range # NoRange => range.anchor.c \in 1..NVisible /\ range.focus.c \in 1..NVisible
=============================================================================
