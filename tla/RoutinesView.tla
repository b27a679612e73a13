---------------------------- MODULE RoutinesView ----------------------------
(***************************************************************************)
(* The stored objects of a database (routines, triggers and events),       *)
(* frontend/src/components/RoutinesView.tsx: their list, the editor and    *)
(* the alert on one of them; and the handler that saves one,               *)
(* backend/objects.go, which drops the object of that name and runs the    *)
(* definition, two statements of their own.                                *)
(*                                                                         *)
(* Abstractions.                                                           *)
(*  - The three kinds of objects are handled alike and are one. An object  *)
(*    is there or not; a definition is the name it creates.                *)
(*  - A list or a definition is read when it is asked for; the dialog that *)
(*    shows a definition keeps nothing and is left out.                    *)
(*  - MaxRoutineReads bounds each kind of read in flight, MaxDrops the     *)
(*    drops. There is one save at most: its flag is never reset before it  *)
(*    is answered.                                                         *)
(***************************************************************************)
EXTENDS Calls

CONSTANTS Objects, NewObject, MaxRoutineReads, MaxDrops, NoObject, NoSave

ASSUME NewObjectIsOne == NewObject \in Objects

VARIABLES
  objects,      \* the server's
  listed,       \* the list shown
  objectReads,  \* list calls: [n, seen]
  objectDoubt,  \* history: {"objects"} if the list was last read while another read was
                \* on its way, or in vain, or a save has failed or is half done since
  definitions,  \* definition calls of the Edit buttons: [n, name]
  editor,       \* [open, editing, name, creates]
  saving,       \* the object being saved: [name, creates, replaces, dropped]
  dropTarget,   \* the object the alert asks to drop
  drops         \* drop calls: [n, name]

routineVars == <<objects, listed, objectReads, objectDoubt, definitions, editor, saving,
                 dropTarget, drops>>

AskForObjects(now) ==
  /\ Cardinality(objectReads) < MaxRoutineReads
  /\ objectReads' = objectReads \cup
       {[n |-> FreeNumber(objectReads, MaxRoutineReads), seen |-> now]}
  /\ objectDoubt' = AskedFor("objects", objectReads, objectDoubt)

RoutinesInit ==
  /\ objects \in SUBSET Objects /\ listed = {}
  /\ objectReads = {[n |-> 1, seen |-> objects]} /\ objectDoubt = {}
  /\ definitions = {} /\ saving = NoSave /\ dropTarget = NoObject /\ drops = {}
  /\ editor = [open |-> FALSE, editing |-> FALSE, name |-> NewObject, creates |-> NewObject]

-----------------------------------------------------------------------------
(* The Refresh button; load is disabled by its own flag. *)
RefreshObjects ==
  /\ objectReads = {} /\ AskForObjects(objects)
  /\ UNCHANGED <<objects, listed, definitions, editor, saving, dropTarget, drops>>

ObjectsCome(r) ==
  /\ objectReads' = objectReads \ {r} /\ listed' = r.seen
  /\ UNCHANGED <<objects, objectDoubt, definitions, editor, saving, dropTarget, drops>>

ObjectsFail(r) ==
  /\ objectReads' = objectReads \ {r} /\ objectDoubt' = {"objects"}
  /\ UNCHANGED <<objects, listed, definitions, editor, saving, dropTarget, drops>>

-----------------------------------------------------------------------------
(* The editor *)

NothingOver == ~editor.open /\ dropTarget = NoObject

OpenCreate ==
  /\ NothingOver
  /\ editor' = [open |-> TRUE, editing |-> FALSE, name |-> NewObject, creates |-> NewObject]
  /\ UNCHANGED <<objects, listed, objectReads, objectDoubt, definitions, saving, dropTarget,
                 drops>>

(* editObject up to its call *)
EditObject(o) ==
  /\ NothingOver /\ o \in listed /\ Cardinality(definitions) < MaxRoutineReads
  /\ definitions' = definitions \cup
       {[n |-> FreeNumber(definitions, MaxRoutineReads), name |-> o]}
  /\ UNCHANGED <<objects, listed, objectReads, objectDoubt, editor, saving, dropTarget, drops>>

(* It replaces what is in the editor, open or not. *)
DefinitionComes(d) ==
  /\ d.name \in objects /\ definitions' = definitions \ {d}
  /\ editor' = [open |-> TRUE, editing |-> TRUE, name |-> d.name, creates |-> d.name]
  /\ UNCHANGED <<objects, listed, objectReads, objectDoubt, saving, dropTarget, drops>>

DefinitionFails(d) ==
  /\ definitions' = definitions \ {d}
  /\ UNCHANGED <<objects, listed, objectReads, objectDoubt, editor, saving, dropTarget, drops>>

(* The name can be typed in the editor of a new object only. *)
TypeName(o) ==
  /\ editor.open /\ ~editor.editing /\ editor' = [editor EXCEPT !.name = o]
  /\ UNCHANGED <<objects, listed, objectReads, objectDoubt, definitions, saving, dropTarget,
                 drops>>

TypeDefinition(o) ==
  /\ editor.open /\ editor' = [editor EXCEPT !.creates = o]
  /\ UNCHANGED <<objects, listed, objectReads, objectDoubt, definitions, saving, dropTarget,
                 drops>>

(* Another kind: a new object gets the template of its name. *)
PickKind ==
  /\ editor.open /\ ~editor.editing /\ editor' = [editor EXCEPT !.creates = editor.name]
  /\ UNCHANGED <<objects, listed, objectReads, objectDoubt, definitions, saving, dropTarget,
                 drops>>

CloseEditor ==
  /\ editor.open /\ editor' = [editor EXCEPT !.open = FALSE]
  /\ UNCHANGED <<objects, listed, objectReads, objectDoubt, definitions, saving, dropTarget,
                 drops>>

(* saveObject up to its call *)
SaveObject ==
  /\ editor.open /\ saving = NoSave
  /\ saving' = [name |-> editor.name, creates |-> editor.creates, replaces |-> editor.editing,
                dropped |-> FALSE]
  /\ UNCHANGED <<objects, listed, objectReads, objectDoubt, definitions, editor, dropTarget,
                 drops>>

(* The handler's first statement. *)
SaveDrops ==
  /\ saving # NoSave /\ ~saving.dropped
  /\ objects' = objects \ {saving.name} /\ saving' = [saving EXCEPT !.dropped = TRUE]
  /\ objectDoubt' = {"objects"}
  /\ UNCHANGED <<listed, objectReads, definitions, editor, dropTarget, drops>>

(* Its second; then any editor is closed, and the list is read again. *)
SaveCreates ==
  /\ saving # NoSave /\ saving.dropped /\ saving.creates \notin objects
  /\ objects' = objects \cup {saving.creates} /\ saving' = NoSave
  /\ editor' = [editor EXCEPT !.open = FALSE]
  /\ AskForObjects(objects')
  /\ UNCHANGED <<listed, definitions, dropTarget, drops>>

(* Either of them fails; the editor stays, and the list is not read. *)
SaveFails ==
  /\ saving # NoSave /\ saving' = NoSave
  /\ UNCHANGED <<objects, listed, objectReads, objectDoubt, definitions, editor, dropTarget,
                 drops>>

-----------------------------------------------------------------------------
(* The alert *)

AskToDrop(o) ==
  /\ NothingOver /\ o \in listed /\ dropTarget' = o
  /\ UNCHANGED <<objects, listed, objectReads, objectDoubt, definitions, editor, saving, drops>>

CancelDrop ==
  /\ dropTarget # NoObject /\ dropTarget' = NoObject
  /\ UNCHANGED <<objects, listed, objectReads, objectDoubt, definitions, editor, saving, drops>>

(* The button closes the alert. *)
ConfirmDrop ==
  /\ dropTarget # NoObject /\ dropTarget' = NoObject /\ Cardinality(drops) < MaxDrops
  /\ drops' = drops \cup {[n |-> FreeNumber(drops, MaxDrops), name |-> dropTarget]}
  /\ UNCHANGED <<objects, listed, objectReads, objectDoubt, definitions, editor, saving>>

(* The alert open by then, of whatever object, is closed. *)
DropSucceeds(d) ==
  /\ d.name \in objects /\ objects' = objects \ {d.name}
  /\ drops' = drops \ {d} /\ dropTarget' = NoObject
  /\ AskForObjects(objects')
  /\ UNCHANGED <<listed, definitions, editor, saving>>

DropFails(d) ==
  /\ drops' = drops \ {d} /\ dropTarget' = NoObject
  /\ UNCHANGED <<objects, listed, objectReads, objectDoubt, definitions, editor, saving>>

RoutinesNext ==
  \/ RefreshObjects \/ OpenCreate \/ PickKind \/ CloseEditor
  \/ SaveObject \/ SaveDrops \/ SaveCreates \/ SaveFails \/ CancelDrop \/ ConfirmDrop
  \/ \E r \in objectReads : ObjectsCome(r) \/ ObjectsFail(r)
  \/ \E d \in definitions : DefinitionComes(d) \/ DefinitionFails(d)
  \/ \E o \in Objects : EditObject(o) \/ TypeName(o) \/ TypeDefinition(o) \/ AskToDrop(o)
  \/ \E d \in drops : DropSucceeds(d) \/ DropFails(d)

RoutinesSpec == RoutinesInit /\ [][RoutinesNext]_routineVars

-----------------------------------------------------------------------------
(* Properties *)

(* When no read is on its way, the objects listed are those of the         *)
(* database, whatever was created, replaced or dropped from the view;      *)
(* unless the last reads overlapped, the last one failed, or a save has    *)
(* got no further than its drop.                                           *)
ObjectsAreListed ==
  (objectReads = {} /\ objectDoubt = {}) => listed = objects

(* Modifying an object leaves one: when the save of an edited object ends, *)
(* after the object was dropped for it, there is an object of its name or  *)
(* of the name its definition gives it. It does not hold: the object is    *)
(* dropped before the database has accepted its new definition.            *)
ModifiedIsThere ==
  [][(saving # NoSave /\ saving' = NoSave /\ saving.replaces /\ saving.dropped) =>
       {saving.name, saving.creates} \cap objects' # {}]_routineVars
=============================================================================
