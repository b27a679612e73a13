------------------------------ MODULE MCViews ------------------------------
(***************************************************************************)
(* The views and dialogs for TLC. They share no variable, so their state   *)
(* spaces are searched side by side: "part" says which one moves, and the  *)
(* others stay where they start.                                           *)
(***************************************************************************)
EXTENDS ConnectionForm, ImportDialog, SchemaVersions, SchemaDiffs, StructureView,
        ForeignKeyForm, SavedLists, UsersTab, RoutinesView, BackupDialog, MonitorTab,
        PrivilegeMatrix

MCPlaces == {[server |-> "c1", schema |-> "d1"], [server |-> "c1", schema |-> "d2"],
             [server |-> "c2", schema |-> "d1"]}
MCRefTables(d) == IF d = "home" THEN {"t"} ELSE {"t", "u"}

VARIABLE part

objectVars == <<formVars, importVars, versionVars, syncVars, structureVars, refVars, listVars>>
adminVars  == <<usersVars, routineVars, backupVars, monitorVars, matrixVars>>

ViewsInit ==
  /\ part \in {"form", "import", "versions", "diffs", "structure", "foreignKey", "lists",
               "users", "routines", "backups", "monitor", "matrix"}
  /\ FormInit /\ ImportInit /\ RefInit /\ SyncInit /\ UsersInit
  /\ VersionsInit  /\ (part # "versions" => live = {})
  /\ part # "diffs" => /\ view = "tables" /\ content = [p \in Places |-> "x"]
                       /\ sourcePicked = CHOOSE p \in Places : TRUE
  /\ StructureInit /\ (part # "structure" => shape = CHOOSE s \in Shapes : TRUE)
  /\ ListsInit     /\ (part # "lists" => list = "pins")
  /\ RoutinesInit  /\ (part # "routines" => objects = {})
  /\ BackupInit    /\ (part # "backups" => settings = Defaults /\ dumps = {})
  /\ MonitorInit
  /\ part # "monitor" => alive = {} /\ ~auto /\ variable = CHOOSE v \in Values : TRUE
  /\ MatrixInit    /\ (part # "matrix" => held = {} /\ heldOnTables = {})

ObjectViewsNext ==
  \/ part = "form" /\ FormNext
     /\ UNCHANGED <<importVars, versionVars, syncVars, structureVars, refVars, listVars>>
  \/ part = "import" /\ ImportNext
     /\ UNCHANGED <<formVars, versionVars, syncVars, structureVars, refVars, listVars>>
  \/ part = "versions" /\ VersionsNext
     /\ UNCHANGED <<formVars, importVars, syncVars, structureVars, refVars, listVars>>
  \/ part = "diffs" /\ SyncNext
     /\ UNCHANGED <<formVars, importVars, versionVars, structureVars, refVars, listVars>>
  \/ part = "structure" /\ StructureNext
     /\ UNCHANGED <<formVars, importVars, versionVars, syncVars, refVars, listVars>>
  \/ part = "foreignKey" /\ RefNext
     /\ UNCHANGED <<formVars, importVars, versionVars, syncVars, structureVars, listVars>>
  \/ part = "lists" /\ ListsNext
     /\ UNCHANGED <<formVars, importVars, versionVars, syncVars, structureVars, refVars>>

AdminNext ==
  \/ part = "users" /\ UsersNext
     /\ UNCHANGED <<routineVars, backupVars, monitorVars, matrixVars>>
  \/ part = "routines" /\ RoutinesNext
     /\ UNCHANGED <<usersVars, backupVars, monitorVars, matrixVars>>
  \/ part = "backups" /\ BackupNext
     /\ UNCHANGED <<usersVars, routineVars, monitorVars, matrixVars>>
  \/ part = "monitor" /\ MonitorNext
     /\ UNCHANGED <<usersVars, routineVars, backupVars, matrixVars>>
  \/ part = "matrix" /\ MatrixNext
     /\ UNCHANGED <<usersVars, routineVars, backupVars, monitorVars>>

ViewsNext ==
  /\ UNCHANGED part
  /\ \/ ObjectViewsNext /\ UNCHANGED adminVars
     \/ AdminNext /\ UNCHANGED objectVars

ViewsSpec == ViewsInit /\ [][ViewsNext]_<<part, objectVars, adminVars>>

(* What a view shows, once its requests are answered and its own changes   *)
(* are reloaded, is what the server, or the browser's storage, has: the    *)
(* accounts, the routines, the dumps, the processes and variables, the     *)
(* privileges, the structure of a table, the lists that are kept. Each     *)
(* part says when it need not be.                                          *)
ViewsAreCurrent ==
  /\ AccountsAreCurrent
  /\ ObjectsAreListed
  /\ FilesAreListed
  /\ MonitorIsCurrent
  /\ MatrixIsCurrent
  /\ StructureIsCurrent
  /\ CopiesAreCurrent
=============================================================================
