---------------------------- MODULE StructureView ----------------------------
(***************************************************************************)
(* The structure tab of a table, frontend/src/components/StructureView.tsx *)
(* with the dialogs ColumnDialog.tsx, ViewDialog.tsx and                   *)
(* ForeignKeyDialog.tsx (whose lists are module ForeignKeyForm), and the   *)
(* load of the structure in TableTab.tsx: statements that alter the table  *)
(* are previewed or confirmed, run, and the structure is read again.       *)
(*                                                                         *)
(* Abstractions.                                                           *)
(*  - A structure is one of Shapes; a statement makes any shape of it.     *)
(*  - The text of the forms, which the statement is built from when it is  *)
(*    previewed, and their checks are left out.                            *)
(*  - A structure is read when it is asked for, a statement done when it   *)
(*    is answered. MaxStructureReads and MaxAlters bound those in flight.  *)
(***************************************************************************)
EXTENDS Calls

CONSTANTS Shapes, Unseen, MaxStructureReads, MaxAlters

VARIABLES
  shape,           \* the server: the table
  structure,       \* the structure shown
  structureReads,  \* tableStructure calls: [n, seen]
  structureDoubt,  \* history: {"structure"} if the last read overlapped or failed
  structureDialog, \* the dialog open
  previewing,      \* whether its statement is previewed
  confirming,      \* what the alert asks to confirm
  altering,        \* the view's flag, busy
  savingIn,        \* the dialogs whose own flag is set
  alters,          \* statements on their way: [n, by]
  renamedTwice     \* history: a rename was sent while busy, which unsets it early

structureShown == <<shape, structure, structureReads, structureDoubt>>
structureVars == <<structureShown, structureDialog, previewing, confirming, altering,
                   savingIn, alters, renamedTwice>>
dialogVars == <<structureDialog, previewing, confirming, savingIn>>

OwnFlag == {"column", "view", "foreignKey"}
Previewed == {"column", "index", "options"}
Dialogs == OwnFlag \cup Previewed \cup {"rename"}
Confirmed == {"dropPart", "truncate", "dropTable"}

AskForStructure(now) ==
  /\ Cardinality(structureReads) < MaxStructureReads
  /\ structureReads' = structureReads \cup
       {[n |-> FreeNumber(structureReads, MaxStructureReads), seen |-> now]}
  /\ structureDoubt' = AskedFor("structure", structureReads, structureDoubt)

StructureInit ==
  /\ shape \in Shapes /\ structure = Unseen
  /\ structureReads = {[n |-> 1, seen |-> shape]} /\ structureDoubt = {}
  /\ structureDialog = "none" /\ previewing = FALSE /\ confirming = "none"
  /\ altering = FALSE /\ savingIn = {} /\ alters = {} /\ renamedTwice = FALSE

-----------------------------------------------------------------------------
(* The structure *)

StructureComes(r) ==
  /\ structureReads' = structureReads \ {r} /\ structure' = r.seen
  /\ UNCHANGED <<shape, structureDoubt, dialogVars, altering, alters, renamedTwice>>

StructureFails(r) ==
  /\ structureReads' = structureReads \ {r} /\ structureDoubt' = {"structure"}
  /\ UNCHANGED <<shape, structure, dialogVars, altering, alters, renamedTwice>>

-----------------------------------------------------------------------------
(* The dialogs: one is open at a time, and closing it stops nothing. *)

(* The column and the view dialog unset their flag when they open. *)
OpenDialog(d) ==
  /\ structure # Unseen /\ structureDialog = "none" /\ confirming = "none"
  /\ structureDialog' = d
  /\ savingIn' = savingIn \ ({d} \cap {"column", "view"})
  /\ UNCHANGED <<structureShown, previewing, confirming, altering,
                 alters, renamedTwice>>

CloseDialog ==
  /\ structureDialog # "none"
  /\ IF previewing THEN previewing' = FALSE /\ structureDialog' = structureDialog
                ELSE structureDialog' = "none" /\ previewing' = previewing
  /\ UNCHANGED <<structureShown, confirming, altering, savingIn,
                 alters, renamedTwice>>

(* submit of the column dialog, submitIndex and saveOptions *)
PreviewStatement ==
  /\ structureDialog \in Previewed /\ ~previewing
  /\ structureDialog \in OwnFlag \/ ~altering
  /\ previewing' = TRUE
  /\ UNCHANGED <<structureShown, structureDialog, confirming, altering,
                 savingIn, alters, renamedTwice>>

AskToConfirm(what) ==
  /\ structure # Unseen /\ structureDialog = "none" /\ confirming = "none"
  /\ confirming' = what
  /\ UNCHANGED <<structureShown, structureDialog, previewing, altering,
                 savingIn, alters, renamedTwice>>

CancelConfirm ==
  /\ confirming # "none" /\ confirming' = "none"
  /\ UNCHANGED <<structureShown, structureDialog, previewing, altering,
                 savingIn, alters, renamedTwice>>

-----------------------------------------------------------------------------
(* Statements up to their call *)

SendAlter(by) ==
  /\ Cardinality(alters) < MaxAlters
  /\ alters' = alters \cup {[n |-> FreeNumber(alters, MaxAlters), by |-> by]}
  /\ UNCHANGED structureShown

(* execute of the column dialog, submit of the view and foreign key ones *)
SendFromDialog ==
  /\ structureDialog \in OwnFlag \ savingIn /\ (structureDialog = "column" => previewing)
  /\ SendAlter(structureDialog) /\ savingIn' = savingIn \cup {structureDialog}
  /\ UNCHANGED <<structureDialog, previewing, confirming, altering, renamedTwice>>

(* The run of a preview of the view's own. *)
SendPreviewed ==
  /\ structureDialog \in Previewed \ OwnFlag /\ previewing /\ ~altering
  /\ SendAlter(structureDialog) /\ altering' = TRUE
  /\ UNCHANGED <<dialogVars, renamedTwice>>

(* submitRename; the Enter key does not look at busy. *)
SendRename ==
  /\ structureDialog = "rename"
  /\ SendAlter("rename") /\ altering' = TRUE /\ renamedTwice' = (renamedTwice \/ altering)
  /\ UNCHANGED dialogVars

(* confirmPending; the button closes the alert. *)
SendConfirmed ==
  /\ confirming # "none" /\ ~altering
  /\ SendAlter(confirming) /\ altering' = TRUE /\ confirming' = "none"
  /\ UNCHANGED <<structureDialog, previewing, savingIn, renamedTwice>>

(* Mutant: the menu is open to a click while busy. *)
MaintenanceAnyTime ==
  /\ structure # Unseen /\ structureDialog = "none" /\ confirming = "none"
  /\ SendAlter("maintenance") /\ altering' = TRUE
  /\ UNCHANGED <<dialogVars, renamedTwice>>

(* runMaintenance *)
Maintenance ==
  /\ structure # Unseen /\ structureDialog = "none" /\ confirming = "none" /\ ~altering
  /\ SendAlter("maintenance") /\ altering' = TRUE
  /\ UNCHANGED <<dialogVars, renamedTwice>>

-----------------------------------------------------------------------------
(* Their answers *)

(* The flag of whoever sent c is unset, whatever else is on its way. *)
AlterEnds(c) ==
  /\ alters' = alters \ {c}
  /\ altering' = (altering /\ c.by \in OwnFlag)
  /\ savingIn' = savingIn \ {c.by}
  /\ renamedTwice' = (renamedTwice /\ alters' # {})

(* run, runMaintenance and confirmPending close the alert that is open. *)
ClosesAlert(c) ==
  confirming' = IF c.by \in Confirmed \cup {"maintenance"} THEN "none" ELSE confirming

(* Mutant: the structure is not read again. *)
AlteredOnly(c) ==
  /\ c.by \in OwnFlag
  /\ AlterEnds(c) /\ shape' \in Shapes
  /\ structureDialog' = IF structureDialog = c.by THEN "none" ELSE structureDialog
  /\ previewing' = (previewing /\ structureDialog # c.by)
  /\ UNCHANGED <<structure, structureReads, structureDoubt, confirming>>

(* A dialog's own statement is done: the dialog of its kind is closed, the *)
(* one that sent it or one opened since.                                   *)
AlteredFromDialog(c) ==
  /\ c.by \in OwnFlag
  /\ AlterEnds(c) /\ shape' \in Shapes
  /\ AskForStructure(shape')
  /\ structureDialog' = IF structureDialog = c.by THEN "none" ELSE structureDialog
  /\ previewing' = (previewing /\ structureDialog # c.by)
  /\ UNCHANGED <<structure, confirming>>

(* run and the previews' run: any preview of the view's own is closed. *)
Altered(c) ==
  /\ c.by \in {"index", "options", "dropPart", "truncate", "maintenance"}
  /\ AlterEnds(c) /\ shape' \in Shapes
  /\ AskForStructure(shape')
  /\ structureDialog' = IF structureDialog = c.by THEN "none" ELSE structureDialog
  /\ previewing' = (previewing /\ (structureDialog \in OwnFlag \/ c.by \notin Previewed))
  /\ ClosesAlert(c)
  /\ UNCHANGED structure

(* The tab gets another id, or closes and may be opened again: its view is *)
(* a new one, and what is on its way is answered to no one.                *)
TableGone(c) ==
  /\ c.by \in {"rename", "dropTable"}
  /\ shape' \in Shapes /\ structure' = Unseen
  /\ structureReads' = {[n |-> 1, seen |-> shape']} /\ structureDoubt' = {}
  /\ structureDialog' = "none" /\ previewing' = FALSE /\ confirming' = "none"
  /\ altering' = FALSE /\ savingIn' = {} /\ alters' = {} /\ renamedTwice' = FALSE

AlterFails(c) ==
  /\ AlterEnds(c) /\ ClosesAlert(c)
  /\ UNCHANGED <<structureShown, structureDialog, previewing>>

StructureNext ==
  \/ CloseDialog \/ PreviewStatement \/ CancelConfirm
  \/ SendFromDialog \/ SendPreviewed \/ SendRename \/ SendConfirmed \/ Maintenance
  \/ \E r \in structureReads : StructureComes(r) \/ StructureFails(r)
  \/ \E d \in Dialogs : OpenDialog(d)
  \/ \E what \in Confirmed : AskToConfirm(what)
  \/ \E c \in alters : AlteredFromDialog(c) \/ Altered(c) \/ TableGone(c) \/ AlterFails(c)

StructureSpec == StructureInit /\ [][StructureNext]_structureVars

-----------------------------------------------------------------------------
(* Properties *)

(* The view is busy while one of the statements it runs itself is on its   *)
(* way and only then, though its dialogs can be closed and others opened   *)
(* meanwhile: no statement is confirmed twice. A second rename, sent with  *)
(* the Enter key, is the exception: the first answer ends busy.            *)
BusyIsHonest ==
  renamedTwice \/ (altering <=> \E c \in alters : c.by \notin OwnFlag)

(* When no read is on its way, the structure shown is the table's as every *)
(* statement of the tab left it; unless the last reads overlapped or the   *)
(* last one failed.                                                        *)
StructureIsCurrent ==
  (structureReads = {} /\ structureDoubt = {}) => structure = shape
=============================================================================
