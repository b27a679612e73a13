---------------------------- MODULE BackupDialog ----------------------------
(***************************************************************************)
(* The dialog of the scheduled backups,                                    *)
(* frontend/src/components/BackupDialog.tsx: their settings, the dumps     *)
(* there are, and the deletion and the restore of one. The server is       *)
(* module BackupManager; here it keeps settings and files.                 *)
(*                                                                         *)
(* Abstractions.                                                           *)
(*  - The four settings are one value of BackupSettings. A field can be    *)
(*    typed in while the settings are loaded or saved. The directory is    *)
(*    one of them: "dumps" are the files in it.                            *)
(*  - Status, directory and downloads are left out; so is what a restore   *)
(*    does, and which connection it takes for the one the file names.      *)
(*  - Settings and files are read when they are asked for and changed when *)
(*    the call that changes them is answered, with or without an error. A  *)
(*    call whose answer is lost is a change made by another client.        *)
(*    MaxBackupCalls bounds the calls of each kind in flight.              *)
(***************************************************************************)
EXTENDS Calls

CONSTANTS BackupSettings, Defaults, Dumps, MaxBackupCalls, NoDump

ASSUME DefaultsAreSettings == Defaults \in BackupSettings

VARIABLES
  settings, dumps,   \* the server: the settings, the files
  backupOpen, backupForm,  \* the dialog; the settings in it
  backupBusy,        \* its flag
  backupCalls,       \* calls: [n, kind, settings, dumps, dump]
  files,             \* the files listed
  deleteTarget, restoreTarget, restoring,  \* the alert and the dialog on a file; its flag
  filesDoubt,        \* history: the files were last read while another read was on
                     \* its way, or in vain, or have changed by themselves or by a
                     \* call after which they are not read
  touched            \* history: since it was opened the form was typed in, not loaded,
                     \* an answer to a call of before may have ended busy, or another
                     \* client has changed the settings

backupVars == <<settings, dumps, backupOpen, backupForm, backupBusy, backupCalls, files,
                deleteTarget, restoreTarget, restoring, filesDoubt, touched>>
server == <<settings, dumps>>
onFiles == <<deleteTarget, restoreTarget, restoring>>

ReadKinds == {"load", "files", "ranFiles", "deletedFiles"}
Reading == {c \in backupCalls : c.kind \in ReadKinds}
(* The calls whose answer ends busy. *)
Unsets == {"load", "save", "run", "ranFiles"}

(* A call keeps what is sent and what is read. *)
BackupCall(kind, d) ==
  [n |-> FreeNumber({c \in backupCalls : c.kind = kind}, MaxBackupCalls), kind |-> kind,
   settings |-> CASE kind = "save" -> backupForm
                  [] kind = "load" -> settings
                  [] OTHER -> Defaults,
   dumps |-> IF kind \in ReadKinds THEN dumps' ELSE {}, dump |-> d]

AskBackup(kind, d, calls) ==
  /\ Cardinality({c \in calls : c.kind = kind}) < MaxBackupCalls
  /\ backupCalls' = calls \cup {BackupCall(kind, d)}

(* The same, of a call that reads the files. *)
AskForFiles(kind, calls) ==
  /\ AskBackup(kind, NoDump, calls)
  /\ filesDoubt' = AskedFor("files", Reading \cap calls, filesDoubt)

BackupInit ==
  /\ settings \in BackupSettings /\ dumps \in SUBSET Dumps
  /\ backupOpen = FALSE /\ backupForm = Defaults /\ backupBusy = FALSE /\ backupCalls = {}
  /\ files = {} /\ deleteTarget = NoDump /\ restoreTarget = NoDump /\ restoring = FALSE
  /\ filesDoubt = {"files"} /\ touched = FALSE

OnTop == backupOpen /\ deleteTarget = NoDump /\ restoreTarget = NoDump

-----------------------------------------------------------------------------
(* The dialog opens, and load is called. *)
OpenBackup ==
  /\ ~backupOpen /\ backupOpen' = TRUE /\ backupBusy' = TRUE
  /\ touched' = (\E c \in backupCalls : c.kind \in Unsets)
  /\ UNCHANGED <<server, backupForm, files, onFiles>>
  /\ AskForFiles("load", backupCalls)

(* The Escape key does not look at busy; the calls stay on their way. *)
CloseBackup ==
  /\ OnTop /\ backupOpen' = FALSE
  /\ UNCHANGED <<server, backupForm, backupBusy, backupCalls, files, onFiles, filesDoubt,
                 touched>>

(* No files are listed when only their list could not be read. *)
LoadComes(c) ==
  /\ c.kind = "load" /\ backupCalls' = backupCalls \ {c}
  /\ backupForm' = c.settings /\ backupBusy' = FALSE
  /\ \/ files' = c.dumps /\ UNCHANGED filesDoubt
     \/ files' = {} /\ filesDoubt' = {"files"}
  /\ UNCHANGED <<server, backupOpen, onFiles, touched>>

(* The form stays as it was, and can be saved. *)
LoadFails(c) ==
  /\ c.kind = "load" /\ backupCalls' = backupCalls \ {c} /\ backupBusy' = FALSE
  /\ filesDoubt' = {"files"} /\ touched' = TRUE
  /\ UNCHANGED <<server, backupOpen, backupForm, files, onFiles>>

TypeSettings(s) ==
  /\ OnTop /\ backupForm' = s /\ touched' = TRUE
  /\ UNCHANGED <<server, backupOpen, backupBusy, backupCalls, files, onFiles, filesDoubt>>

(* Mutant: the button is there while the settings are loaded. *)
SaveAnyTime ==
  /\ OnTop /\ backupBusy' = TRUE
  /\ UNCHANGED <<server, backupOpen, backupForm, files, onFiles, filesDoubt, touched>>
  /\ AskBackup("save", NoDump, backupCalls)

SaveSettings ==
  /\ OnTop /\ ~backupBusy /\ backupBusy' = TRUE
  /\ UNCHANGED <<server, backupOpen, backupForm, files, onFiles, filesDoubt, touched>>
  /\ AskBackup("save", NoDump, backupCalls)

(* Other files are there, and no list of them is asked for.                *)
FilesMove ==
  /\ dumps' \in SUBSET Dumps
  /\ filesDoubt' = IF dumps' = dumps THEN filesDoubt ELSE {"files"}

(* Another directory has other files. *)
SettingsBecome(s) ==
  /\ settings' = s
  /\ IF s = settings THEN UNCHANGED <<dumps, filesDoubt>> ELSE FilesMove

SettingsSaved(c) ==
  /\ c.kind = "save" /\ backupCalls' = backupCalls \ {c}
  /\ SettingsBecome(c.settings) /\ backupBusy' = FALSE
  /\ UNCHANGED <<backupOpen, backupForm, files, onFiles, touched>>

BackupNow ==
  /\ OnTop /\ ~backupBusy /\ backupBusy' = TRUE
  /\ UNCHANGED <<server, backupOpen, backupForm, files, onFiles, filesDoubt, touched>>
  /\ AskBackup("run", NoDump, backupCalls)

(* run: there are the files it has made and not those it found too old,    *)
(* which are listed before busy ends.                                      *)
BackupRan(c) ==
  /\ c.kind = "run" /\ dumps' \in SUBSET Dumps
  /\ UNCHANGED <<settings, backupOpen, backupForm, backupBusy, files, onFiles, touched>>
  /\ AskForFiles("ranFiles", backupCalls \ {c})

(* The settings may have been set, though not saved in their file. *)
SettingsFail(c) ==
  /\ c.kind = "save" /\ backupCalls' = backupCalls \ {c} /\ backupBusy' = FALSE
  /\ \E s \in {settings, c.settings} : SettingsBecome(s)
  /\ UNCHANGED <<backupOpen, backupForm, files, onFiles, touched>>

(* A run goes on after an error and answers with the first: other files    *)
(* may have been made, and old ones removed.                               *)
RunFails(c) ==
  /\ c.kind = "run" /\ backupCalls' = backupCalls \ {c} /\ backupBusy' = FALSE
  /\ FilesMove
  /\ UNCHANGED <<settings, backupOpen, backupForm, files, onFiles, touched>>

-----------------------------------------------------------------------------
(* The files *)

ListFiles ==
  /\ OnTop
  /\ UNCHANGED <<server, backupOpen, backupForm, backupBusy, files, onFiles, touched>>
  /\ AskForFiles("files", backupCalls)

FilesCome(c) ==
  /\ c \in Reading /\ c.kind # "load" /\ backupCalls' = backupCalls \ {c}
  /\ files' = c.dumps /\ backupBusy' = (backupBusy /\ c.kind # "ranFiles")
  /\ UNCHANGED <<server, backupOpen, backupForm, onFiles, filesDoubt, touched>>

FilesFail(c) ==
  /\ c \in Reading /\ c.kind # "load" /\ backupCalls' = backupCalls \ {c}
  /\ filesDoubt' = {"files"} /\ backupBusy' = (backupBusy /\ c.kind # "ranFiles")
  /\ UNCHANGED <<server, backupOpen, backupForm, files, onFiles, touched>>

AskToDelete(d) ==
  /\ OnTop /\ d \in files /\ deleteTarget' = d
  /\ UNCHANGED <<server, backupOpen, backupForm, backupBusy, backupCalls, files, restoreTarget,
                 restoring, filesDoubt, touched>>

(* The button closes the alert. *)
ConfirmDelete ==
  /\ deleteTarget # NoDump /\ deleteTarget' = NoDump
  /\ UNCHANGED <<server, backupOpen, backupForm, backupBusy, files, restoreTarget, restoring,
                 filesDoubt, touched>>
  /\ AskBackup("delete", deleteTarget, backupCalls)

(* The alert open by then, on whatever file, is closed. *)
Deleted(c) ==
  /\ c.kind = "delete" /\ c.dump \in dumps /\ dumps' = dumps \ {c.dump}
  /\ deleteTarget' = NoDump
  /\ UNCHANGED <<settings, backupOpen, backupForm, backupBusy, files, restoreTarget, restoring,
                 touched>>
  /\ AskForFiles("deletedFiles", backupCalls \ {c})

DeleteFails(c) ==
  /\ c.kind = "delete" /\ backupCalls' = backupCalls \ {c}
  /\ UNCHANGED <<server, backupOpen, backupForm, backupBusy, files, onFiles, filesDoubt,
                 touched>>

OpenRestore(d) ==
  /\ OnTop /\ d \in files /\ restoreTarget' = d
  /\ UNCHANGED <<server, backupOpen, backupForm, backupBusy, backupCalls, files, deleteTarget,
                 restoring, filesDoubt, touched>>

(* Cancel is there while the restore runs. *)
CloseFileDialog ==
  /\ deleteTarget # NoDump \/ restoreTarget # NoDump
  /\ deleteTarget' = NoDump /\ restoreTarget' = NoDump
  /\ UNCHANGED <<server, backupOpen, backupForm, backupBusy, backupCalls, files, restoring,
                 filesDoubt, touched>>

ConfirmRestore ==
  /\ restoreTarget # NoDump /\ ~restoring /\ restoring' = TRUE
  /\ UNCHANGED <<server, backupOpen, backupForm, backupBusy, files, deleteTarget, restoreTarget,
                 filesDoubt, touched>>
  /\ AskBackup("restore", restoreTarget, backupCalls)

(* The dialog open by then, on whatever file, is closed. *)
Restored(c) ==
  /\ c.kind = "restore" /\ backupCalls' = backupCalls \ {c}
  /\ restoring' = FALSE /\ restoreTarget' = NoDump
  /\ UNCHANGED <<server, backupOpen, backupForm, backupBusy, files, deleteTarget, filesDoubt,
                 touched>>

RestoreFails(c) ==
  /\ c.kind = "restore" /\ backupCalls' = backupCalls \ {c} /\ restoring' = FALSE
  /\ UNCHANGED <<server, backupOpen, backupForm, backupBusy, files, deleteTarget, restoreTarget,
                 filesDoubt, touched>>

(* The schedule writes a dump, or the retention removes some. *)
ScheduleRuns ==
  /\ filesDoubt = {} /\ filesDoubt' = {"files"} /\ dumps' \in SUBSET Dumps
  /\ UNCHANGED <<settings, backupOpen, backupForm, backupBusy, backupCalls, files, onFiles,
                 touched>>

(* Another client saves settings. *)
SettingsElsewhere(s) ==
  /\ ~touched /\ touched' = TRUE /\ SettingsBecome(s)
  /\ UNCHANGED <<backupOpen, backupForm, backupBusy, backupCalls, files, onFiles>>

BackupNext ==
  \/ OpenBackup \/ CloseBackup \/ SaveSettings \/ BackupNow \/ ListFiles \/ ConfirmDelete
  \/ CloseFileDialog \/ ConfirmRestore \/ ScheduleRuns
  \/ \E s \in BackupSettings : TypeSettings(s) \/ SettingsElsewhere(s)
  \/ \E d \in Dumps : AskToDelete(d) \/ OpenRestore(d)
  \/ \E c \in backupCalls :
       \/ LoadComes(c) \/ LoadFails(c) \/ SettingsSaved(c) \/ BackupRan(c)
       \/ SettingsFail(c) \/ RunFails(c) \/ FilesCome(c) \/ FilesFail(c)
       \/ Deleted(c) \/ DeleteFails(c) \/ Restored(c) \/ RestoreFails(c)

BackupSpec == BackupInit /\ [][BackupNext]_backupVars

-----------------------------------------------------------------------------
(* Properties *)

(* What the open dialog would save, were its button pressed now, are the   *)
(* settings there are, as long as nobody has typed in it: what it has not  *)
(* read it does not write. Unless the load failed, the dialog was opened   *)
(* over calls of before, whose answer enables the button too early, or     *)
(* another client has saved settings since.                                *)
UntouchedIsKept ==
  (backupOpen /\ ~backupBusy /\ ~touched) => backupForm = settings

(* When nothing that reads the files is on its way, those listed are those *)
(* there are, whatever was dumped or deleted from the dialog; unless the   *)
(* last reads overlapped, the last one failed, or the files have changed   *)
(* since: the schedule has run, a run from the dialog failed half way, or  *)
(* the directory is another.                                               *)
FilesAreListed ==
  (Reading = {} /\ filesDoubt = {}) => files = dumps
=============================================================================
