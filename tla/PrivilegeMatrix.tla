--------------------------- MODULE PrivilegeMatrix ---------------------------
(***************************************************************************)
(* The matrix of all privileges,                                           *)
(* frontend/src/components/PrivilegeMatrixDialog.tsx: a cell of an account *)
(* for every database and one for all of them, in which a click grants or  *)
(* revokes a privilege; and what backend/power.go puts in the cells.       *)
(*                                                                         *)
(* Abstractions.                                                           *)
(*  - One account and one privilege stand for all.                         *)
(*  - The matrix is read when it is asked for, a privilege changed when    *)
(*    the call is answered. MaxMatrixReads and MaxToggles bound those in   *)
(*    flight.                                                              *)
(***************************************************************************)
EXTENDS Calls

CONSTANTS Schemas, Global, MaxMatrixReads, MaxToggles, Unloaded

ASSUME GlobalIsNoSchema == Global \notin Schemas

Cells == Schemas \cup {Global}

VARIABLES
  held,         \* the server: the cells the privilege is granted on
  heldOnTables, \* the databases with a grant on one of their tables
  matrixOpen, matrix,  \* the dialog; the cells it shows as granted
  matrixReads,  \* privilegeMatrix calls: [n, by, seen]; "by" is a toggle, or the dialog
  matrixLoading,\* the flag of load
  toggles,      \* grant and revoke calls: [n, cell, checked]
  marked,       \* the cell marked as being saved
  matrixDoubt   \* history: the matrix was last read while another read was on its way,
                \* or in vain, or privileges were changed elsewhere

matrixVars == <<held, heldOnTables, matrixOpen, matrix, matrixReads, matrixLoading, toggles,
                marked, matrixDoubt>>
privileges == <<held, heldOnTables>>

(* What the handler answers: a grant on a table counts for its database. *)
OwnCells(on, onTables) == on \cup onTables

LoadMatrix(by, now) ==
  /\ Cardinality(matrixReads) < MaxMatrixReads
  /\ matrixReads' = matrixReads \cup
       {[n |-> FreeNumber(matrixReads, MaxMatrixReads), by |-> by,
         seen |-> OwnCells(now, heldOnTables)]}
  /\ matrixLoading' = TRUE
  /\ matrixDoubt' = AskedFor("matrix", matrixReads, matrixDoubt)

MatrixInit ==
  /\ held \in SUBSET Cells /\ heldOnTables \in SUBSET Schemas
  /\ matrixOpen = FALSE /\ matrix = Unloaded /\ matrixReads = {} /\ matrixLoading = FALSE
  /\ toggles = {} /\ marked = Unloaded /\ matrixDoubt = {"matrix"}

OpenMatrix ==
  /\ ~matrixOpen /\ matrixOpen' = TRUE /\ LoadMatrix("dialog", held)
  /\ UNCHANGED <<privileges, matrix, toggles, marked>>

CloseMatrix ==
  /\ matrixOpen /\ matrixOpen' = FALSE
  /\ UNCHANGED <<privileges, matrix, matrixReads, matrixLoading, toggles, marked, matrixDoubt>>

RefreshMatrix ==
  /\ matrixOpen /\ ~matrixLoading /\ LoadMatrix("dialog", held)
  /\ UNCHANGED <<privileges, matrixOpen, matrix, toggles, marked>>

(* The mark goes with the read that follows a toggle. *)
MatrixComes(r) ==
  /\ matrixReads' = matrixReads \ {r} /\ matrix' = r.seen /\ matrixLoading' = FALSE
  /\ marked' = IF r.by = "toggle" THEN Unloaded ELSE marked
  /\ UNCHANGED <<privileges, matrixOpen, toggles, matrixDoubt>>

MatrixFails(r) ==
  /\ matrixReads' = matrixReads \ {r} /\ matrixLoading' = FALSE /\ matrixDoubt' = {"matrix"}
  /\ marked' = IF r.by = "toggle" THEN Unloaded ELSE marked
  /\ UNCHANGED <<privileges, matrixOpen, matrix, toggles>>

-----------------------------------------------------------------------------
(* A cell on which the global cell has the privilege is disabled. *)
InheritedOn(cell) == cell # Global /\ Global \in matrix

(* toggle up to its call: the box asks for what the matrix does not show,  *)
(* whatever is on its way.                                                 *)
TogglePrivilege(cell) ==
  /\ matrixOpen /\ matrix # Unloaded /\ ~InheritedOn(cell) /\ Cardinality(toggles) < MaxToggles
  /\ toggles' = toggles \cup
       {[n |-> FreeNumber(toggles, MaxToggles), cell |-> cell, checked |-> cell \notin matrix]}
  /\ marked' = cell
  /\ UNCHANGED <<privileges, matrixOpen, matrix, matrixReads, matrixLoading, matrixDoubt>>

(* What is not granted cannot be revoked. *)
Toggled(c) ==
  /\ c.checked \/ c.cell \in held
  /\ held' = IF c.checked THEN held \cup {c.cell} ELSE held \ {c.cell}
  /\ toggles' = toggles \ {c}
  /\ LoadMatrix("toggle", held')
  /\ UNCHANGED <<heldOnTables, matrixOpen, matrix, marked>>

ToggleFails(c) ==
  /\ toggles' = toggles \ {c} /\ marked' = Unloaded
  /\ UNCHANGED <<privileges, matrixOpen, matrix, matrixReads, matrixLoading, matrixDoubt>>

(* Other dialogs, and other sessions, grant and revoke. *)
PrivilegesChange ==
  /\ matrixDoubt = {} /\ matrixDoubt' = {"matrix"}
  /\ held' \in SUBSET Cells /\ heldOnTables' \in SUBSET Schemas
  /\ UNCHANGED <<matrixOpen, matrix, matrixReads, matrixLoading, toggles, marked>>

MatrixNext ==
  \/ OpenMatrix \/ CloseMatrix \/ RefreshMatrix \/ PrivilegesChange
  \/ \E r \in matrixReads : MatrixComes(r) \/ MatrixFails(r)
  \/ \E cell \in Cells : TogglePrivilege(cell)
  \/ \E c \in toggles : Toggled(c) \/ ToggleFails(c)

MatrixSpec == MatrixInit /\ [][MatrixNext]_matrixVars

-----------------------------------------------------------------------------
(* Properties *)

(* When no read is on its way, a cell shows the privilege if and only if   *)
(* the account has it there, whatever was clicked and in which order it    *)
(* was answered; unless the last reads overlapped, the last one failed, or *)
(* privileges were changed elsewhere.                                      *)
MatrixIsCurrent ==
  (matrixReads = {} /\ matrixDoubt = {}) => matrix = OwnCells(held, heldOnTables)

(* A click in a cell grants or revokes: one that asks to revoke asks for   *)
(* what is granted there; unless privileges changed since they were read.  *)
(* It need not: a grant on a table is shown as one of its database.        *)
RevokesWhatIsGranted ==
  \A c \in toggles : (~c.checked /\ matrixReads = {} /\ matrixDoubt = {} /\ toggles = {c}) =>
    c.cell \in held
=============================================================================
