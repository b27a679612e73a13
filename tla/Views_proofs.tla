---------------------------- MODULE Views_proofs ----------------------------
(***************************************************************************)
(* Proofs about the dialogs and views, for any connections, files, shapes, *)
(* settings, databases, accounts, objects, versions, entries and number of *)
(* calls in flight. What a dialog holds and sends comes first, in the      *)
(* order: the connection dialog, the import dialog, the structure tab, the *)
(* backup dialog, the comparison of databases, the users' tab, schema      *)
(* versions, and the dialog that adds a foreign key. Then what a view      *)
(* shows: it is what the server, or the storage, has.                      *)
(***************************************************************************)
EXTENDS MCViews, Sublists_proofs, FiniteSetTheorems, TLAPS

(* What is in the connection dialog and on its way to or from it is the    *)
(* connection's the dialog is open for, or was open for last.              *)
Forms == [from : Profiles \cup {NoProfile}, secret : {"stored", "blank", "typed"},
          complete : BOOLEAN]

FormTypes ==
  /\ dialog \in [open : BOOLEAN, connection : Profiles \cup {NoProfile}]
  /\ form \in Forms /\ profiles \in [Profiles -> Forms]
  /\ \A f \in fetches : f.of \in Profiles
  /\ \A s \in saves : s.connection \in Profiles \cup {NoProfile} /\ s.form \in Forms

FormInv ==
  /\ FormTypes
  /\ ~crossed => /\ form.from = dialog.connection
                 /\ \A f \in fetches : f.of = dialog.connection
  /\ StoredAsItsOwn

LEMMA FormStep == FormInv /\ [FormNext]_formVars => FormInv'
<1> SUFFICES ASSUME FormInv, [FormNext]_formVars PROVE FormInv'
  OBVIOUS
<1> USE DEF FormInv, FormTypes, StoredAsItsOwn, Forms
<1>1. ASSUME NEW c \in Profiles \cup {NoProfile}, OpenForm(c) PROVE FormInv'
  <2>1. form' \in Forms /\ form'.from \in Profiles \cup {NoProfile}
    BY <1>1 DEF OpenForm, OpensWith, EmptyForm, Redacted
  <2>2. ~crossed => form'.from = c
    BY <1>1 DEF OpenForm, OpensWith, EmptyForm, Redacted
  <2>3. \A f \in fetches' : f \in fetches \/ (f.of = c /\ c \in Profiles)
    <3>1. CASE c = NoProfile
      BY <1>1, <3>1 DEF OpenForm
    <3>2. CASE c # NoProfile
      <4> DEFINE n == CHOOSE i \in 1..MaxFetches : \A f \in fetches : f.n # i
      <4>1. fetches' = fetches \cup {[n |-> n, of |-> c]}
        BY <1>1, <3>2 DEF OpenForm
      <4> HIDE DEF n
      <4>. QED
        BY <3>2, <4>1
    <3>. QED
      BY <3>1, <3>2
  <2>4. FormTypes'
    BY <1>1, <2>1, <2>3 DEF OpenForm
  <2>5. ~crossed' => ~crossed /\ fetches = {}
    BY <1>1 DEF OpenForm
  <2>6. StoredAsItsOwn'
    BY <1>1, <2>5 DEF OpenForm
  <2>. QED
    BY <1>1, <2>2, <2>3, <2>4, <2>5, <2>6 DEF OpenForm
<1>2. CASE CloseForm
  BY <1>2 DEF CloseForm
<1>3. ASSUME NEW f \in fetches, RecordComes(f) \/ RecordFails(f) PROVE FormInv'
  BY <1>3 DEF RecordComes, RecordFails
<1>4. CASE Fields
  BY <1>4 DEF Fields, TypeSecret, PasteUrl, TypeField
<1>5. CASE Test \/ TestEnds
  BY <1>5 DEF Test, TestEnds
<1>6. CASE SaveProfile
  BY <1>6 DEF SaveProfile
<1>7. ASSUME NEW s \in saves, SaveEnds(s) \/ ProfileSaveFails(s) PROVE FormInv'
  BY <1>7 DEF SaveEnds, ProfileSaveFails
<1>8. CASE UNCHANGED formVars
  BY <1>8 DEF formVars
<1>. QED
  BY <1>1, <1>2, <1>3, <1>4, <1>5, <1>6, <1>7, <1>8 DEF FormNext

(* A connection is stored with its own address and secrets, unless the     *)
(* dialog was opened over the record of an earlier one.                    *)
THEOREM StoredOwn == FormSpec => []StoredAsItsOwn
<1>1. FormInit => FormInv
  BY DEF FormInit, EmptyForm, FormInv, FormTypes, Forms, StoredAsItsOwn
<1>2. FormInv => StoredAsItsOwn
  BY DEF FormInv
<1>. QED
  BY <1>1, <1>2, FormStep, PTL DEF FormSpec

-----------------------------------------------------------------------------
(* The mapping in the import dialog and the previews on their way are of   *)
(* the file chosen in it.                                                  *)
ImportInv ==
  /\ mapping # NoPreview => mapping = [file |-> mapping.file, maps |-> mapping.maps]
  /\ ~mixed => /\ mapping # NoPreview => mapping.file = file
               /\ \A p \in previews : p.file = file
  /\ ImportMapsItsFile

(* A preview that is asked for is the only one on its way, or mixed is set.*)
LEMMA LoadAsksForOne ==
  ASSUME NEW f, NEW header, NEW shown, LoadPreview(f, header, shown), ~mixed'
  PROVE  ~mixed /\ previews = {} /\ \A p \in previews' : p.file = f
<1>1. ~mixed /\ previews = {}
  BY DEF LoadPreview
<1>. QED
  BY <1>1 DEF LoadPreview

LEMMA ImportStep == ImportInv /\ [ImportNext]_importVars => ImportInv'
<1> SUFFICES ASSUME ImportInv, [ImportNext]_importVars PROVE ImportInv'
  OBVIOUS
<1> USE DEF ImportInv, ImportMapsItsFile
<1>1. ASSUME NEW table, OpenImport(table) PROVE ImportInv'
  BY <1>1 DEF OpenImport
<1>2. CASE CloseImport \/ \E m \in Modes : SetMode(m)
  BY <1>2 DEF CloseImport, SetMode
<1>3. CASE BlurDelimiter
  BY <1>3, LoadAsksForOne DEF BlurDelimiter
<1>4. CASE ToggleHeader
  BY <1>4, LoadAsksForOne DEF ToggleHeader
<1>5. ASSUME NEW f, ChooseFile(f) PROVE ImportInv'
  BY <1>5, LoadAsksForOne DEF ChooseFile
<1>6. ASSUME NEW p \in previews, NEW maps, PreviewComes(p, maps) PROVE ImportInv'
  BY <1>6 DEF PreviewComes
<1>7. ASSUME NEW p \in previews, PreviewFails(p) PROVE ImportInv'
  BY <1>7 DEF PreviewFails
<1>8. ASSUME NEW maps, MapColumn(maps) PROVE ImportInv'
  BY <1>8 DEF MapColumn
<1>9. CASE Submit
  BY <1>9 DEF Submit
<1>10. ASSUME NEW i \in imports, ImportEnds(i) \/ ImportFails(i) PROVE ImportInv'
  BY <1>10 DEF ImportEnds, ImportFails
<1>11. CASE UNCHANGED importVars
  BY <1>11 DEF importVars
<1>. QED
  BY <1>1, <1>2, <1>3, <1>4, <1>5, <1>6, <1>7, <1>8, <1>9, <1>10, <1>11 DEF ImportNext

(* A file is imported with a mapping of its own columns, unless it was     *)
(* chosen while a preview was on its way.                                  *)
THEOREM ImportMapped == ImportSpec => []ImportMapsItsFile
<1>1. ImportInit => ImportInv
  BY DEF ImportInit, ImportInv, ImportMapsItsFile
<1>2. ImportInv => ImportMapsItsFile
  BY DEF ImportInv
<1>. QED
  BY <1>1, <1>2, ImportStep, PTL DEF ImportSpec

-----------------------------------------------------------------------------
(* The flag is never set without a statement the view runs itself, and     *)
(* unless a rename was sent twice there is at most one of these.           *)
ByView(c) == c.by \notin OwnFlag

BusyInv ==
  /\ altering \in BOOLEAN /\ renamedTwice \in BOOLEAN
  /\ confirming \in Confirmed \cup {"none"}
  /\ altering => \E c \in alters : ByView(c)
  /\ ~renamedTwice => \A c, d \in alters : ByView(c) /\ ByView(d) => c = d
  /\ BusyIsHonest

(* The answer to a statement, whatever else it does.                       *)
LEMMA AnswerKeepsBusy ==
  ASSUME BusyInv, NEW c \in alters, AlterEnds(c), confirming' \in {confirming, "none"}
  PROVE  BusyInv'
  BY DEF BusyInv, BusyIsHonest, AlterEnds, ByView

LEMMA BusyStep == BusyInv /\ [StructureNext]_structureVars => BusyInv'
<1> SUFFICES ASSUME BusyInv, [StructureNext]_structureVars PROVE BusyInv'
  OBVIOUS
<1>1. ASSUME UNCHANGED <<altering, alters, renamedTwice>>,
             confirming' \in Confirmed \cup {confirming, "none"}
      PROVE  BusyInv'
  BY <1>1 DEF BusyInv, BusyIsHonest, ByView
<1>2. CASE CloseDialog \/ PreviewStatement \/ CancelConfirm
  BY <1>1, <1>2 DEF CloseDialog, PreviewStatement, CancelConfirm
<1>3. CASE \/ \E d \in Dialogs : OpenDialog(d)
           \/ \E what \in Confirmed : AskToConfirm(what)
  BY <1>1, <1>3 DEF OpenDialog, AskToConfirm
<1>4. CASE \E r \in structureReads : StructureComes(r) \/ StructureFails(r)
  BY <1>1, <1>4 DEF StructureComes, StructureFails, dialogVars
<1>5. ASSUME NEW by, SendAlter(by), by \in OwnFlag, UNCHANGED <<altering, renamedTwice, confirming>>
      PROVE  BusyInv'
  <2>1. PICK new : ~ByView(new) /\ alters' = alters \cup {new}
    BY <1>5 DEF SendAlter, ByView
  <2>. QED
    BY <1>5, <2>1 DEF BusyInv, BusyIsHonest, ByView
<1>6. ASSUME NEW by, SendAlter(by), by \notin OwnFlag, altering' = TRUE,
             renamedTwice' \in BOOLEAN, ~renamedTwice' => ~renamedTwice /\ ~altering,
             confirming' \in {confirming, "none"}
      PROVE  BusyInv'
  <2>1. PICK new : ByView(new) /\ alters' = alters \cup {new}
    BY <1>6 DEF SendAlter, ByView
  <2>2. ~renamedTwice' => ~renamedTwice /\ \A c \in alters : ~ByView(c)
    BY <1>6 DEF BusyInv, BusyIsHonest, ByView
  <2>3. BusyIsHonest' /\ (altering' => \E c \in alters' : ByView(c)')
    BY <1>6, <2>1 DEF BusyIsHonest, ByView
  <2>4. renamedTwice' \in BOOLEAN /\ confirming' \in Confirmed \cup {"none"}
    BY <1>6 DEF BusyInv
  <2>5. ~renamedTwice' => \A c, d \in alters' : ByView(c) /\ ByView(d) => c = d
    BY <2>1, <2>2
  <2>. QED
    BY <1>6, <2>3, <2>4, <2>5 DEF BusyInv, ByView
<1>7. CASE SendFromDialog
  BY <1>5, <1>7 DEF SendFromDialog
<1>8. CASE SendPreviewed
  BY <1>6, <1>8 DEF BusyInv, SendPreviewed, dialogVars
<1>9. CASE SendRename \/ SendConfirmed \/ Maintenance
  <2>1. confirming \in Confirmed \cup {"none"}
    BY DEF BusyInv
  <2>2. CASE SendRename
    BY <1>6, <2>2 DEF BusyInv, SendRename, OwnFlag, dialogVars
  <2>3. CASE SendConfirmed
    BY <1>6, <2>1, <2>3 DEF BusyInv, SendConfirmed, OwnFlag, Confirmed
  <2>4. CASE Maintenance
    BY <1>6, <2>4 DEF BusyInv, Maintenance, OwnFlag, dialogVars
  <2>. QED
    BY <1>9, <2>2, <2>3, <2>4
<1>11. ASSUME NEW c \in alters, AlteredFromDialog(c) \/ Altered(c) \/ AlterFails(c)
       PROVE  BusyInv'
  BY <1>11, AnswerKeepsBusy DEF AlteredFromDialog, Altered, AlterFails, ClosesAlert
<1>12. ASSUME NEW c \in alters, TableGone(c) PROVE BusyInv'
  BY <1>12 DEF TableGone, BusyInv, BusyIsHonest, ByView
<1>13. CASE UNCHANGED structureVars
  BY <1>1, <1>13 DEF structureVars
<1>. QED
  BY <1>2, <1>3, <1>4, <1>7, <1>8, <1>9, <1>11, <1>12, <1>13
     DEF StructureNext

(* The structure tab is busy while a statement it runs itself is on its    *)
(* way and only then, unless a rename was sent twice.                      *)
THEOREM BusyHonest == StructureSpec => []BusyIsHonest
<1>1. StructureInit => BusyInv
  BY DEF StructureInit, BusyInv, BusyIsHonest
<1>2. BusyInv => BusyIsHonest
  BY DEF BusyInv
<1>. QED
  BY <1>1, <1>2, BusyStep, PTL DEF StructureSpec

-----------------------------------------------------------------------------
(* An open dialog nobody has typed in has at most one call on its way that *)
(* will end busy, and is busy until then. A load brings the settings there *)
(* are; after it the form has them, and a save writes them again.          *)
Unsetting == {c \in backupCalls : c.kind \in Unsets}

UntouchedInv ==
  (backupOpen /\ ~touched) =>
    /\ \A c, d \in Unsetting : c = d
    /\ \A c \in Unsetting :
         /\ backupBusy
         /\ c.kind \in {"load", "save"} => c.settings = settings
         /\ c.kind # "load" => backupForm = settings
    /\ ~backupBusy => backupForm = settings

(* A call that is asked for.                                               *)
LEMMA AskAdds ==
  ASSUME NEW kind, NEW d, NEW calls, AskBackup(kind, d, calls)
  PROVE  \E new : /\ backupCalls' = calls \cup {new} /\ new.kind = kind
                  /\ kind = "load" => new.settings = settings
                  /\ kind = "save" => new.settings = backupForm
<1> DEFINE new == BackupCall(kind, d)
<1>1. /\ new.kind = kind
      /\ kind = "load" => new.settings = settings
      /\ kind = "save" => new.settings = backupForm
  BY DEF BackupCall
<1>2. backupCalls' = calls \cup {new}
  BY DEF AskBackup
<1> HIDE DEF new
<1>. QED
  BY <1>1, <1>2

LEMMA UntouchedStep == UntouchedInv /\ [BackupNext]_backupVars => UntouchedInv'
<1> SUFFICES ASSUME UntouchedInv, [BackupNext]_backupVars PROVE UntouchedInv'
  OBVIOUS
<1> USE DEF UntouchedInv, Unsetting, Unsets
<1>1. ASSUME UNCHANGED <<settings, backupOpen, backupForm, backupBusy, touched>>,
             \A c \in Unsetting' : c \in Unsetting
      PROVE  UntouchedInv'
  BY <1>1
<1>2. CASE OpenBackup
  <2>1. PICK new : /\ backupCalls' = backupCalls \cup {new} /\ new.kind = "load"
                   /\ new.settings = settings
    BY <1>2, AskAdds DEF OpenBackup, AskForFiles
  <2>. QED
    BY <1>2, <2>1 DEF OpenBackup, server
<1>3. CASE CloseBackup
  BY <1>3 DEF CloseBackup
<1>4. ASSUME NEW c \in backupCalls, LoadComes(c) \/ LoadFails(c) PROVE UntouchedInv'
  <2>1. c \in Unsetting /\ c.kind = "load" /\ backupCalls' = backupCalls \ {c}
    BY <1>4 DEF LoadComes, LoadFails
  <2>2. CASE LoadComes(c)
    <3>1. UNCHANGED <<settings, backupOpen, touched>> /\ backupForm' = c.settings
      BY <2>2 DEF LoadComes, server
    <3>. QED
      BY <2>1, <3>1
  <2>3. CASE LoadFails(c)
    BY <2>3 DEF LoadFails
  <2>. QED
    BY <1>4, <2>2, <2>3
<1>5. CASE \E s \in BackupSettings : TypeSettings(s)
  BY <1>5 DEF TypeSettings
<1>6. CASE SaveSettings
  <2>1. PICK new : /\ backupCalls' = backupCalls \cup {new} /\ new.kind = "save"
                   /\ new.settings = backupForm
    BY <1>6, AskAdds DEF SaveSettings
  <2>. QED
    BY <1>6, <2>1 DEF SaveSettings, server
<1>7. CASE BackupNow
  <2>1. PICK new : backupCalls' = backupCalls \cup {new} /\ new.kind = "run"
    BY <1>7, AskAdds DEF BackupNow
  <2>. QED
    BY <1>7, <2>1 DEF BackupNow, server
<1>8. ASSUME NEW c \in backupCalls, SettingsSaved(c) \/ SettingsFail(c) PROVE UntouchedInv'
  <2>1. /\ c.kind = "save" /\ backupCalls' = backupCalls \ {c} /\ backupBusy' = FALSE
        /\ settings' \in {settings, c.settings}
        /\ UNCHANGED <<backupOpen, backupForm, touched>>
    BY <1>8 DEF SettingsSaved, SettingsFail, SettingsBecome
  <2>2. c \in Unsetting
    BY <2>1
  <2>. QED
    BY <2>1, <2>2
<1>9. ASSUME NEW c \in backupCalls, BackupRan(c) PROVE UntouchedInv'
  <2>1. PICK new : backupCalls' = (backupCalls \ {c}) \cup {new} /\ new.kind = "ranFiles"
    BY <1>9, AskAdds DEF BackupRan, AskForFiles
  <2>. QED
    BY <1>9, <2>1 DEF BackupRan
<1>10. ASSUME NEW c \in backupCalls, RunFails(c) PROVE UntouchedInv'
  BY <1>10 DEF RunFails
<1>11. ASSUME NEW c \in backupCalls, FilesCome(c) \/ FilesFail(c) PROVE UntouchedInv'
  <2>1. /\ UNCHANGED <<settings, backupOpen, backupForm, touched>>
        /\ backupCalls' = backupCalls \ {c} /\ c.kind # "load"
        /\ c.kind \in ReadKinds
        /\ backupBusy' = (backupBusy /\ c.kind # "ranFiles")
    BY <1>11 DEF FilesCome, FilesFail, Reading, server
  <2>2. CASE c.kind = "ranFiles"
    BY <2>1, <2>2
  <2>3. CASE c.kind # "ranFiles"
    <3>1. c \notin Unsetting /\ Unsetting' = Unsetting
      BY <2>1, <2>3 DEF ReadKinds
    <3>2. backupBusy => backupBusy'
      BY <2>1, <2>3
    <3>3. backupBusy' => backupBusy
      BY <2>1
    <3>. QED
      BY <2>1, <3>1, <3>2, <3>3
  <2>. QED
    BY <2>2, <2>3
<1>12. CASE ListFiles
  <2>1. PICK new : backupCalls' = backupCalls \cup {new} /\ new.kind = "files"
    BY <1>12, AskAdds DEF ListFiles, AskForFiles
  <2>. QED
    BY <1>1, <1>12, <2>1 DEF ListFiles, server
<1>13. CASE ConfirmDelete
  <2>1. PICK new : backupCalls' = backupCalls \cup {new} /\ new.kind = "delete"
    BY <1>13, AskAdds DEF ConfirmDelete
  <2>. QED
    BY <1>1, <1>13, <2>1 DEF ConfirmDelete, server
<1>14. CASE ConfirmRestore
  <2>1. PICK new : backupCalls' = backupCalls \cup {new} /\ new.kind = "restore"
    BY <1>14, AskAdds DEF ConfirmRestore
  <2>. QED
    BY <1>1, <1>14, <2>1 DEF ConfirmRestore, server
<1>15. ASSUME NEW c \in backupCalls, Deleted(c) PROVE UntouchedInv'
  <2>1. PICK new : backupCalls' = (backupCalls \ {c}) \cup {new} /\ new.kind = "deletedFiles"
    BY <1>15, AskAdds DEF Deleted, AskForFiles
  <2>. QED
    BY <1>1, <1>15, <2>1 DEF Deleted
<1>16. ASSUME NEW c \in backupCalls, DeleteFails(c) \/ Restored(c) \/ RestoreFails(c)
       PROVE  UntouchedInv'
  BY <1>1, <1>16 DEF DeleteFails, Restored, RestoreFails, server
<1>17. CASE \E d \in Dumps : AskToDelete(d) \/ OpenRestore(d)
  BY <1>1, <1>17 DEF AskToDelete, OpenRestore, server
<1>18. CASE CloseFileDialog \/ ScheduleRuns
  BY <1>1, <1>18 DEF CloseFileDialog, ScheduleRuns, server
<1>19. CASE \E s \in BackupSettings : SettingsElsewhere(s)
  BY <1>19 DEF SettingsElsewhere
<1>20. CASE UNCHANGED backupVars
  BY <1>1, <1>20 DEF backupVars
<1>. QED
  BY <1>2, <1>3, <1>4, <1>5, <1>6, <1>7, <1>8, <1>9, <1>10, <1>11, <1>12, <1>13, <1>14,
     <1>15, <1>16, <1>17, <1>18, <1>19, <1>20 DEF BackupNext

(* What the backup dialog would save are the settings there are, as long   *)
(* as nobody has typed in it, the load has not failed, no call of an       *)
(* earlier opening was on its way and no other client has saved any.       *)
THEOREM UntouchedKept == BackupSpec => []UntouchedIsKept
<1>1. BackupInit => UntouchedInv
  BY DEF BackupInit, UntouchedInv
<1>2. UntouchedInv => UntouchedIsKept
  BY DEF UntouchedInv, UntouchedIsKept
<1>. QED
  BY <1>1, <1>2, UntouchedStep, PTL DEF BackupSpec

-----------------------------------------------------------------------------
(* The comparison shown says what is so, or a place changed or other ones  *)
(* were picked; what is compared and run on are places.                    *)
SyncInv ==
  /\ SyncIsCurrent
  /\ compared # NoSync =>
       compared.source \in Places /\ compared.target \in Places /\ executing = NoSync
  /\ sync # NoSync => sync.source \in Places /\ sync.target \in Places
  /\ (executing # NoSync /\ sync # NoSync /\ ~moved) =>
       executing.source = sync.source /\ executing.target = sync.target

LEMMA SyncStep == SyncInv /\ [SyncNext]_syncVars => SyncInv'
<1> SUFFICES ASSUME SyncInv, [SyncNext]_syncVars PROVE SyncInv'
  OBVIOUS
<1>1. ASSUME NEW from, NEW to, Picks(from, to) PROVE SyncInv'
  BY <1>1 DEF SyncInv, SyncIsCurrent, Picks
<1>2. CASE PickTables \/ PickAcross \/ PickDatabases
  BY <1>1, <1>2 DEF PickTables, PickAcross, PickDatabases, PicksFrom
<1>3. CASE CompareTables \/ CompareAcross \/ CompareDatabases
  <2>1. compared = NoSync /\ executing = NoSync /\ AsksToCompare(sourcePicked, targetPicked)
        /\ UNCHANGED executing
    BY <1>3 DEF CompareTables, CompareAcross, CompareDatabases, Compares, Loading
  <2>. QED
    BY <2>1 DEF SyncInv, SyncIsCurrent, AsksToCompare
<1>4. CASE CompareFails
  BY <1>4 DEF SyncInv, SyncIsCurrent, CompareFails
<1>5. ASSUME NEW qualified \in BOOLEAN, CompareComes(qualified) PROVE SyncInv'
  BY <1>5 DEF SyncInv, SyncIsCurrent, CompareComes
<1>6. CASE ExecuteOnTable \/ ExecuteAcross \/ ExecuteMigration
  <2>1. /\ executing' = [sync |-> sync, source |-> sourcePicked, target |-> targetPicked]
        /\ moved' = (moved \/ targetPicked # sync.target \/ sourcePicked # sync.source)
        /\ compared = NoSync /\ UNCHANGED <<content, sync, compared, elsewhere>>
    BY <1>6 DEF ExecuteOnTable, ExecuteAcross, ExecuteMigration, Executes, Loading
  <2>2. executing'.source = sourcePicked /\ executing'.target = targetPicked
    BY <2>1
  <2>3. ~moved' => sourcePicked = sync.source /\ targetPicked = sync.target /\ ~moved
    BY <2>1
  <2>. QED
    BY <2>1, <2>2, <2>3 DEF SyncInv, SyncIsCurrent
<1>7. CASE Executed
  <2>1. CASE AsksToCompare(executing.source, executing.target)
    BY <1>7, <2>1 DEF SyncInv, SyncIsCurrent, Executed, AsksToCompare
  <2>2. CASE /\ {executing.source, executing.target} \ Places # {}
             /\ UNCHANGED <<sync, compared, elsewhere, moved>>
    BY <1>7, <2>2 DEF SyncInv, SyncIsCurrent, Executed
  <2>. QED
    BY <1>7, <2>1, <2>2 DEF Executed
<1>8. CASE ExecuteFails
  BY <1>8 DEF SyncInv, SyncIsCurrent, ExecuteFails
<1>9. CASE ChangedElsewhere
  BY <1>9 DEF SyncInv, SyncIsCurrent, ChangedElsewhere
<1>10. CASE UNCHANGED syncVars
  BY <1>10 DEF SyncInv, SyncIsCurrent, syncVars
<1>. QED
  BY <1>2, <1>3, <1>4, <1>5, <1>6, <1>7, <1>8, <1>9, <1>10 DEF SyncNext

(* A comparison shown as different is different until a place is changed   *)
(* elsewhere or other places are picked.                                   *)
THEOREM SyncCurrent == SyncSpec => []SyncIsCurrent
<1>1. SyncInit => SyncInv
  BY DEF SyncInit, SyncInv, SyncIsCurrent
<1>2. SyncInv => SyncIsCurrent
  BY DEF SyncInv
<1>. QED
  BY <1>1, <1>2, SyncStep, PTL DEF SyncSpec

-----------------------------------------------------------------------------
(* Unless the grants are doubtful, a read on its way is the only one and   *)
(* has the grants of the account selected, and without one they are shown. *)
GrantsInv ==
  "grants" \notin doubtful =>
    /\ \A r \in grantReads : r.of = selected /\ r.has = (selected \in granted)
    /\ \A r, s \in grantReads : r = s
    /\ (grantReads = {} /\ selected # NoUser /\ grants # Unread) =>
         grants = [of |-> selected, has |-> selected \in granted]

LEMMA GrantsStep == GrantsInv /\ [UsersNext]_usersVars => GrantsInv'
<1> SUFFICES ASSUME GrantsInv, [UsersNext]_usersVars, "grants" \notin doubtful' PROVE GrantsInv'
  BY DEF GrantsInv
<1> USE DEF GrantsInv
<1>1. ASSUME NEW kind, NEW u, NEW from, Writes(kind, u, from) PROVE GrantsInv'
  BY <1>1 DEF Writes
<1>2. ASSUME NEW u, LoadGrants(u, u \in granted'), doubtful' = Asked("grants", grantReads, doubtful)
      PROVE  GrantsInv'
  <2> DEFINE read == [n |-> FreeRead(grantReads), of |-> u, has |-> u \in granted']
  <2>1. grantReads = {}
    BY <1>2 DEF Asked
  <2>2. selected' = u /\ grantReads' = {read}
    BY <1>2, <2>1 DEF LoadGrants
  <2>3. read.of = u /\ read.has = (u \in granted')
    OBVIOUS
  <2> HIDE DEF read
  <2>. QED
    BY <2>2, <2>3
<1>3. CASE Refresh
  BY <1>3 DEF Refresh, Asked
<1>4. CASE UsersChange
  BY <1>4 DEF UsersChange
<1>5. ASSUME NEW r \in userReads, UsersCome(r) \/ UsersFail(r) PROVE GrantsInv'
  BY <1>5 DEF UsersCome, UsersFail
<1>6. ASSUME NEW r \in grantReads, GrantsCome(r) PROVE GrantsInv'
  BY <1>6 DEF GrantsCome
<1>7. ASSUME NEW r \in grantReads, GrantsFail(r) PROVE GrantsInv'
  BY <1>7 DEF GrantsFail
<1>8. ASSUME NEW u, SelectUser(u) PROVE GrantsInv'
  BY <1>2, <1>8 DEF SelectUser
<1>9. ASSUME NEW w \in writes, Created(w) PROVE GrantsInv'
  BY <1>9 DEF Created, Leaves, Asked
<1>10. ASSUME NEW w \in writes, Locked(w) PROVE GrantsInv'
  BY <1>10 DEF Locked, Asked
<1>11. ASSUME NEW w \in writes, Dropped(w) PROVE GrantsInv'
  BY <1>11 DEF Dropped, Asked
<1>12. ASSUME NEW w \in writes, Granted(w) PROVE GrantsInv'
  <2>1. LoadGrants(w.user, w.user \in granted')
    BY <1>12 DEF Granted, LoadGrants
  <2>. QED
    BY <1>2, <1>12, <2>1 DEF Granted
<1>13. ASSUME NEW w \in writes, Copied(w) PROVE GrantsInv'
  BY <1>13 DEF Copied, Leaves
<1>14. ASSUME NEW w \in writes, WriteFails(w) PROVE GrantsInv'
  BY <1>14 DEF WriteFails
<1>15. ASSUME NEW w \in writes, CopyStops(w) PROVE GrantsInv'
  <2>1. w.user # selected /\ "grants" \notin doubtful
    BY <1>15 DEF CopyStops, Leaves
  <2>2. /\ UNCHANGED <<selected, grants, grantReads>>
        /\ (selected \in granted' <=> selected \in granted)
    BY <1>15, <2>1 DEF CopyStops
  <2>. QED
    BY <2>1, <2>2
<1>16. CASE AccountsChange
  BY <1>16 DEF AccountsChange
<1>17. CASE UNCHANGED usersVars
  BY <1>17 DEF usersVars
<1>. QED
  BY <1>1, <1>3, <1>4, <1>5, <1>6, <1>7, <1>8, <1>9, <1>10, <1>11, <1>12, <1>13, <1>14, <1>15,
     <1>16, <1>17
     DEF UsersNext, SubmitGrant, SubmitCreate, ToggleLock, DropUser, SubmitCopy, SubmitCopyUser

(* The grants shown are those of the account selected, as they are, unless *)
(* loads overlapped or what does not load them has changed them, such as a *)
(* copy onto the account that failed half way.                             *)
THEOREM GrantsOfSelected == UsersSpec => []GrantsAreOfSelected
<1>1. UsersInit => GrantsInv
  BY DEF UsersInit, GrantsInv
<1>2. GrantsInv => GrantsAreOfSelected
  BY DEF GrantsInv, GrantsAreOfSelected
<1>. QED
  BY <1>1, <1>2, GrantsStep, PTL DEF UsersSpec

-----------------------------------------------------------------------------
(* While statements of an Apply run, which will be followed by a new       *)
(* comparison, nothing is said; else a comparison made or shown is current.*)
Current(r) ==
  (IsLive(r.base) => r.from = live) /\ (IsLive(r.target) => r.to = live)

IsComparison(d) ==
  d = [n |-> d.n, base |-> d.base, target |-> d.target, made |-> d.made, by |-> d.by]

AreStatements(a) ==
  a = [creates |-> a.creates, drops |-> a.drops, base |-> a.base, target |-> a.target]

ResultInv ==
  /\ \A d \in diffs : IsComparison(d)
  /\ apply # NoApply => AreStatements(apply)
  /\ ~stale =>
       /\ \A d, e \in diffs : d = e
       /\ diffs # {} => result = NoResult
       /\ ~Applies =>
            /\ result # NoResult => Current(result)
            /\ \A d \in diffs : d.made # NoResult => Current(d.made)

NoApplyIsNoRecord ==
  \A c, d, b, t : [creates |-> c, drops |-> d, base |-> b, target |-> t] # NoApply

LEMMA ResultStep ==
  ASSUME NoApplyIsNoRecord, ResultInv, [VersionsNext]_versionVars PROVE ResultInv'
<1>1. ASSUME UNCHANGED <<live, diffs, result, apply, stale>> PROVE ResultInv'
  BY <1>1 DEF ResultInv, Applies, Current
<1>2. CASE Seal \/ SealComes \/ SealFails \/ Pick \/ Swap
  BY <1>1, <1>2 DEF Seal, SealComes, SealFails, Pick, Swap, Select
<1>3. ASSUME NEW from, NEW to, NEW by, RunDiff(from, to, by), UNCHANGED <<live, apply>>
      PROVE  ResultInv'
  <2> DEFINE new == [n |-> Free(diffs, MaxDiffs), base |-> from, target |-> to,
                     made |-> NoResult, by |-> by]
  <2>1. IsComparison(new) /\ new.made = NoResult
    BY DEF IsComparison
  <2>2. diffs' = diffs \cup {new} /\ result' = NoResult /\ stale' = (diffs # {})
    BY <1>3 DEF RunDiff
  <2> HIDE DEF new
  <2>. QED
    BY <1>3, <2>1, <2>2 DEF ResultInv
<1>4. CASE Compare
  BY <1>3, <1>4 DEF Compare
<1>5. CASE Apply
  <2>1. ~Applies' => ~Applies
    BY <1>5 DEF Apply, Applies
  <2>2. AreStatements(apply')
    BY <1>5 DEF Apply, AreStatements
  <2>. QED
    BY <1>5, <2>1, <2>2 DEF Apply, ResultInv, Current
<1>6. CASE RunsStatement
  <2>1. Applies /\ UNCHANGED <<diffs, result, stale>>
    BY <1>6 DEF RunsStatement
  <2>2. apply' # NoApply => Applies'
    BY <2>1 DEF Applies
  <2>3. AreStatements(apply)
    BY <1>6 DEF RunsStatement, Applies, ResultInv
  <2>4. \E c, d : apply' = [creates |-> c, drops |-> d, base |-> apply.base,
                            target |-> apply.target]
    <3>1. ASSUME NEW t, apply' = [apply EXCEPT !.creates = @ \ {t}]
          PROVE  apply' = [creates |-> apply.creates \ {t}, drops |-> apply.drops,
                           base |-> apply.base, target |-> apply.target]
      BY <2>3, <3>1 DEF AreStatements
    <3>2. ASSUME NEW t, apply' = [apply EXCEPT !.drops = @ \ {t}]
          PROVE  apply' = [creates |-> apply.creates, drops |-> apply.drops \ {t},
                           base |-> apply.base, target |-> apply.target]
      BY <2>3, <3>2 DEF AreStatements
    <3>. QED
      BY <1>6, <3>1, <3>2 DEF RunsStatement
  <2>5. apply' # NoApply
    BY <2>4 DEF NoApplyIsNoRecord
  <2>6. AreStatements(apply')
    BY <2>4 DEF AreStatements
  <2>. QED
    BY <2>1, <2>2, <2>5, <2>6 DEF ResultInv
<1>7. CASE StatementFails
  BY <1>7 DEF StatementFails, ResultInv
<1>8. CASE Applied
  BY <1>3, <1>8 DEF Applied
<1>9. CASE Elsewhere
  BY <1>9 DEF Elsewhere, ResultInv
<1>10. ASSUME NEW l \in lists, ListComes(l) \/ ListFails(l) PROVE ResultInv'
  BY <1>1, <1>10 DEF ListComes, ListFails
<1>11. ASSUME NEW v, Remove(v) \/ RemoveComes(v) PROVE ResultInv'
  BY <1>1, <1>11 DEF Remove, RemoveComes
<1>12. ASSUME NEW d \in diffs, DiffIsMade(d) PROVE ResultInv'
  <2>1. IsComparison(d)
    BY DEF ResultInv
  <2>2. PICK made : /\ Current(made)
                    /\ diffs' = (diffs \ {d}) \cup {[d EXCEPT !.made = made]}
    <3> DEFINE m == [base |-> d.base, target |-> d.target,
                     from |-> Structure(d.base), to |-> Structure(d.target)]
    <3>1. Current(m)
      BY DEF Current, Structure
    <3>2. diffs' = (diffs \ {d}) \cup {[d EXCEPT !.made = m]}
      BY <1>12 DEF DiffIsMade
    <3> HIDE DEF m
    <3>. QED
      BY <3>1, <3>2
  <2>3. UNCHANGED <<live, result, apply, stale>>
    BY <1>12 DEF DiffIsMade
  <2> DEFINE new == [d EXCEPT !.made = made]
  <2>4. IsComparison(new) /\ new.made = made /\ new.by = d.by
    BY <2>1 DEF IsComparison
  <2>5. diffs' = (diffs \ {d}) \cup {new}
    BY <2>2
  <2> HIDE DEF new
  <2>6. Applies' <=> Applies
    BY <2>3, <2>4, <2>5 DEF Applies
  <2>. QED
    BY <2>2, <2>3, <2>4, <2>5, <2>6 DEF ResultInv, Current
<1>13. ASSUME NEW d \in diffs, DiffComes(d) \/ DiffFails(d) PROVE ResultInv'
  <2>1. /\ diffs' = diffs \ {d} /\ UNCHANGED <<live, stale>>
        /\ apply' = IF d.by = "apply" THEN NoApply ELSE apply
        /\ result' = result \/ (result' = d.made /\ d.made # NoResult)
    BY <1>13 DEF DiffComes, DiffFails, DiffEnds
  <2>2. ~stale' /\ ~Applies' => ~Applies
    BY <2>1 DEF Applies, ResultInv
  <2>. QED
    BY <2>1, <2>2 DEF ResultInv, Current
<1>14. CASE UNCHANGED versionVars
  BY <1>1, <1>14 DEF versionVars
<1>. QED
  BY <1>2, <1>4, <1>5, <1>6, <1>7, <1>8, <1>9, <1>10, <1>11, <1>12, <1>13, <1>14
     DEF VersionsNext

(* The differences shown are those of the two structures as they are.      *)
THEOREM ResultCurrent ==
  ASSUME NoApplyIsNoRecord PROVE VersionsSpec => []ResultIsCurrent
<1>1. VersionsInit => ResultInv
  BY DEF VersionsInit, ResultInv
<1>2. ResultInv => ResultIsCurrent
  BY DEF ResultInv, ResultIsCurrent, Applies, Current
<1>. QED
  BY <1>1, <1>2, ResultStep, PTL DEF VersionsSpec

-----------------------------------------------------------------------------
(* While lists of a kind are not in doubt, there is one call of it at most *)
(* and it is of the pick that precedes it; without one, the list is.       *)
ListsInv ==
  /\ \A c \in refCalls : c.kind \in {"tables", "columns"}
  /\ "tables" \notin refCrossed =>
       /\ \A c, d \in OnTheirWay("tables") : c = d
       /\ refOpen => \A c \in OnTheirWay("tables") : c.of[1] = refDatabase
       /\ (refOpen /\ OnTheirWay("tables") = {}) => tablesOf \in {refDatabase, NoRef}
       /\ (refOpen /\ refTable # NoRef /\ ~guessed) => refTable \in RefTables(refDatabase)
  /\ "columns" \notin refCrossed =>
       /\ \A c, d \in OnTheirWay("columns") : c = d
       /\ (refOpen /\ refTable # NoRef) =>
            /\ \A c \in OnTheirWay("columns") : c.of = <<refDatabase, refTable>>
            /\ OnTheirWay("columns") = {} => columnsOf \in {<<refDatabase, refTable>>, NoRef}
            /\ ~guessed => refColumn \in {<<refDatabase, refTable>>, NoRef}

LEMMA TwoAreMore ==
  ASSUME NEW S, IsFiniteSet(S), NEW a \in S, NEW b \in S, a # b
  PROVE  Cardinality(S) > 1
<1>1. IsFiniteSet({a}) /\ Cardinality({a}) = 1
  BY FS_Singleton
<1>2. Cardinality({a} \cup {b}) = 2 /\ IsFiniteSet({a} \cup {b})
  BY <1>1, FS_AddElement
<1>3. Cardinality({a} \cup {b}) <= Cardinality(S)
  BY <1>2, FS_Subset
<1>. QED
  BY <1>2, <1>3, FS_CardinalityType

(* Lists of a kind that are asked for and not in doubt after it are one    *)
(* list; of another kind nothing changes.                                  *)
LEMMA ListsAsked ==
  ASSUME NEW asked, IsFiniteSet(asked), AskForLists(asked), NEW k
  PROVE  /\ ~(\E a \in asked : a.kind = k) =>
              OnTheirWay(k)' = OnTheirWay(k) /\ (k \in refCrossed' <=> k \in refCrossed)
         /\ ((\E a \in asked : a.kind = k) /\ k \notin refCrossed') =>
              /\ \A c, d \in OnTheirWay(k)' : c = d
              /\ OnTheirWay(k)' # {}
              /\ \A a \in asked : a.kind = k => \A c \in OnTheirWay(k)' : c.of = a.of
         /\ \A c \in refCalls' : c \in refCalls \/ \E a \in asked : c.kind = a.kind
<1> DEFINE of    == {a \in asked : a.kind = k}
           kinds == {a.kind : a \in asked}
           call(a) == [n |-> FreeNumber({c \in refCalls : c.kind = a.kind /\ c.of = a.of},
                                        MaxRefLists),
                       kind |-> a.kind, of |-> a.of]
<1>1. /\ refCalls' = refCalls \cup {call(a) : a \in asked}
      /\ refCrossed' = (refCrossed \ kinds) \cup
           {i \in kinds : Cardinality({a \in asked : a.kind = i}) > 1 \/ OnTheirWay(i) # {}}
  BY DEF AskForLists
<1>2. \A a : call(a).kind = a.kind /\ call(a).of = a.of
  OBVIOUS
<1> HIDE DEF call
<1>3. CASE ~\E a \in asked : a.kind = k
  BY <1>1, <1>2, <1>3 DEF OnTheirWay
<1>4. ASSUME NEW a \in asked, a.kind = k, k \notin refCrossed'
      PROVE  OnTheirWay(k)' = {call(a)} /\ \A b \in asked : b.kind = k => b = a
  <2>1. OnTheirWay(k) = {} /\ ~(Cardinality(of) > 1)
    BY <1>1, <1>4
  <2>2. IsFiniteSet(of)
    BY FS_Subset
  <2>3. \A b \in of : b = a
    BY <1>4, <2>1, <2>2, TwoAreMore
  <2>. QED
    BY <1>1, <1>2, <1>4, <2>1, <2>3 DEF OnTheirWay
<1>5. \A c \in refCalls' : c \in refCalls \/ \E a \in asked : c.kind = a.kind
  BY <1>1, <1>2
<1>. QED
  BY <1>2, <1>3, <1>4, <1>5

LEMMA ListsStep == ListsInv /\ [RefNext]_refVars => ListsInv'
<1> SUFFICES ASSUME ListsInv, [RefNext]_refVars PROVE ListsInv'
  OBVIOUS
<1>0. ASSUME NEW asked, IsFiniteSet(asked), AskForLists(asked),
             \A a \in asked : a.kind \in {"tables", "columns"}
      PROVE  \A c \in refCalls' : c.kind \in {"tables", "columns"}
  BY <1>0, ListsAsked DEF ListsInv
<1>1. CASE OpenRefForm
  <2> DEFINE asked == {TableList(refDatabase), TableList(HomeDatabase)}
                        \cup {c \in {ColumnList(refDatabase, refTable)} : refTable # NoRef}
  <2>1. /\ TableList(refDatabase) \in asked /\ TableList(HomeDatabase) \in asked
        /\ \A a \in asked : a.kind \in {"tables", "columns"}
    BY DEF TableList, ColumnList
  <2>2. IsFiniteSet(asked)
    <3> DEFINE three == {TableList(refDatabase)} \cup {TableList(HomeDatabase)}
                          \cup {ColumnList(refDatabase, refTable)}
    <3>1. IsFiniteSet(three)
      BY FS_Singleton, FS_AddElement
    <3>2. asked \in SUBSET three
      OBVIOUS
    <3> HIDE DEF asked, three
    <3>. QED
      BY <3>1, <3>2, FS_Subset
  <2>3. AskForLists(asked)
    BY <1>1 DEF OpenRefForm
  <2>4. /\ TableList(HomeDatabase).kind = "tables"
        /\ TableList(HomeDatabase).of[1] = HomeDatabase
    BY DEF TableList
  <2> HIDE DEF asked
  <2>5. "tables" \notin refCrossed' =>
          /\ \A c, d \in OnTheirWay("tables")' : c = d
          /\ OnTheirWay("tables")' # {}
          /\ \A c \in OnTheirWay("tables")' : c.of[1] = HomeDatabase
    BY <2>1, <2>2, <2>3, <2>4, ListsAsked
  <2>6. "columns" \notin refCrossed' => \A c, d \in OnTheirWay("columns")' : c = d
    BY <2>2, <2>3, ListsAsked DEF ListsInv
  <2>. QED
    BY <1>0, <1>1, <2>1, <2>2, <2>3, <2>5, <2>6 DEF OpenRefForm, ListsInv
<1>2. CASE CloseRefForm
  BY <1>2 DEF CloseRefForm, ListsInv, OnTheirWay
<1>3. CASE StructureReadAgain
  <2> DEFINE asked == {c \in {TableList(HomeDatabase)} : refDatabase # HomeDatabase}
  <2>1. \A a \in asked : a.kind = "tables" /\ a.of[1] = HomeDatabase
    BY DEF TableList
  <2>2. IsFiniteSet(asked)
    BY FS_Singleton, FS_Subset
  <2>3. AskForLists(asked)
    BY <1>3 DEF StructureReadAgain
  <2>4. refDatabase # HomeDatabase <=> \E a \in asked : a.kind = "tables"
    BY <2>1
  <2> HIDE DEF asked
  <2>5. OnTheirWay("columns")' = OnTheirWay("columns")
        /\ ("columns" \in refCrossed' <=> "columns" \in refCrossed)
    BY <2>1, <2>2, <2>3, ListsAsked
  <2>6. "tables" \notin refCrossed' =>
          /\ \A c, d \in OnTheirWay("tables")' : c = d
          /\ \A c \in OnTheirWay("tables")' : c.of[1] = HomeDatabase
    BY <1>3, <2>1, <2>2, <2>3, <2>4, ListsAsked DEF ListsInv, StructureReadAgain
  <2>. QED
    BY <1>0, <1>3, <2>1, <2>2, <2>3, <2>5, <2>6 DEF StructureReadAgain, ListsInv
<1>4. CASE PickColumn
  BY <1>4 DEF PickColumn, ListsInv, OnTheirWay
<1>5. ASSUME NEW d \in RefDatabases, PickDatabase(d) PROVE ListsInv'
  <2>1. IsFiniteSet({TableList(d)})
    BY FS_Singleton
  <2>2. TableList(d).kind = "tables" /\ TableList(d).of[1] = d
    BY DEF TableList
  <2>3. AskForLists({TableList(d)})
    BY <1>5 DEF PickDatabase
  <2>4. OnTheirWay("columns")' = OnTheirWay("columns")
        /\ ("columns" \in refCrossed' <=> "columns" \in refCrossed)
    BY <2>1, <2>2, <2>3, ListsAsked
  <2>5. "tables" \notin refCrossed' =>
          /\ \A c, e \in OnTheirWay("tables")' : c = e
          /\ OnTheirWay("tables")' # {}
          /\ \A c \in OnTheirWay("tables")' : c.of[1] = d
    BY <2>1, <2>2, <2>3, ListsAsked
  <2>. QED
    BY <1>0, <1>5, <2>1, <2>2, <2>3, <2>4, <2>5 DEF PickDatabase, ListsInv
<1>6. ASSUME NEW t, PickTable(t) PROVE ListsInv'
  <2> DEFINE l == ColumnList(refDatabase, t)
  <2>1. IsFiniteSet({l})
    BY FS_Singleton
  <2>2. l.kind = "columns" /\ l.of = <<refDatabase, t>>
    BY DEF ColumnList
  <2>3. AskForLists({l})
    BY <1>6 DEF PickTable
  <2> HIDE DEF l
  <2>4. OnTheirWay("tables")' = OnTheirWay("tables")
        /\ ("tables" \in refCrossed' <=> "tables" \in refCrossed)
    BY <2>1, <2>2, <2>3, ListsAsked
  <2>5. "columns" \notin refCrossed' =>
          /\ \A c, e \in OnTheirWay("columns")' : c = e
          /\ OnTheirWay("columns")' # {}
          /\ \A c \in OnTheirWay("columns")' : c.of = <<refDatabase, t>>
    BY <2>1, <2>2, <2>3, ListsAsked
  <2>6. \A c \in refCalls' : c.kind \in {"tables", "columns"}
    BY <1>0, <2>1, <2>2, <2>3
  <2>. QED
    BY <1>6, <2>4, <2>5, <2>6 DEF PickTable, ListsInv
<1>7. ASSUME NEW c \in refCalls, TablesCome(c) PROVE ListsInv'
  BY <1>7 DEF TablesCome, ListsInv, OnTheirWay
<1>8. ASSUME NEW c \in refCalls, ColumnsCome(c) PROVE ListsInv'
  BY <1>8 DEF ColumnsCome, ListsInv, OnTheirWay
<1>9. ASSUME NEW c \in refCalls, ListFailsToCome(c) PROVE ListsInv'
  BY <1>9 DEF ListFailsToCome, ListsInv, OnTheirWay
<1>10. CASE UNCHANGED refVars
  BY <1>10 DEF refVars, ListsInv, OnTheirWay
<1>. QED
  BY <1>1, <1>2, <1>3, <1>4, <1>5, <1>6, <1>7, <1>8, <1>9, <1>10 DEF RefNext

(* The key that would be added refers to a table of the database picked    *)
(* and a column of that table.                                             *)
THEOREM RefersThere == RefSpec => []RefersToWhatIsThere
<1>1. RefInit => ListsInv
  BY DEF RefInit, ListsInv, OnTheirWay
<1>2. ListsInv => RefersToWhatIsThere
  BY DEF ListsInv, RefersToWhatIsThere
<1>. QED
  BY <1>1, <1>2, ListsStep, PTL DEF RefSpec


-----------------------------------------------------------------------------
(* A view whose reads are not doubtful: one is on its way at most and has  *)
(* seen what there is now; without one, that is shown.                     *)
Fresh(reads, shown, now) ==
  /\ \A r, s \in reads : r = s
  /\ \A r \in reads : r.seen = now
  /\ reads = {} => shown = now

LEMMA FreshAsked ==
  ASSUME NEW reads, NEW shown, NEW now, NEW new,
         reads = {}, new.seen = now
  PROVE  Fresh(reads \cup {new}, shown, now)
  BY DEF Fresh

LEMMA FreshAnswered ==
  ASSUME NEW reads, NEW shown, NEW now, NEW r \in reads, Fresh(reads, shown, now)
  PROVE  Fresh(reads \ {r}, r.seen, now)
  BY DEF Fresh

-----------------------------------------------------------------------------
(* The accounts in the users' tab.                                         *)
AccountsInv == "users" \notin doubtful => Fresh(userReads, users, accounts)

LEMMA AccountsStep == AccountsInv /\ [UsersNext]_usersVars => AccountsInv'
<1> SUFFICES ASSUME AccountsInv, [UsersNext]_usersVars, "users" \notin doubtful'
             PROVE  Fresh(userReads, users, accounts)'
  BY DEF AccountsInv
<1> USE DEF AccountsInv
<1>1. ASSUME UNCHANGED <<accounts, users, userReads>>, "users" \notin doubtful
      PROVE  Fresh(userReads, users, accounts)'
  BY <1>1 DEF Fresh
<1>2. ASSUME LoadUsers(accounts'), NEW before, doubtful' = Asked("users", userReads, before)
      PROVE  Fresh(userReads, users, accounts)'
  <2>1. userReads = {}
    BY <1>2 DEF Asked
  <2>2. PICK new : new.seen = accounts' /\ userReads' = userReads \cup {new}
    BY <1>2 DEF LoadUsers
  <2>. QED
    BY <2>1, <2>2, FreshAsked
<1>3. CASE Refresh
  BY <1>2, <1>3 DEF Refresh
<1>4. ASSUME NEW r \in userReads, UsersCome(r) PROVE Fresh(userReads, users, accounts)'
  BY <1>4, FreshAnswered DEF UsersCome
<1>5. ASSUME NEW r \in userReads, UsersFail(r) PROVE Fresh(userReads, users, accounts)'
  BY <1>5 DEF UsersFail
<1>6. ASSUME NEW kind, NEW u, NEW from, Writes(kind, u, from)
      PROVE  Fresh(userReads, users, accounts)'
  BY <1>1, <1>6 DEF Writes
<1>7. ASSUME NEW w, Created(w) \/ Locked(w) \/ Dropped(w)
      PROVE  Fresh(userReads, users, accounts)'
  BY <1>2, <1>7 DEF Created, Locked, Dropped
<1>8. ASSUME NEW w, WriteFails(w) \/ Granted(w) \/ Copied(w) \/ CopyStops(w)
      PROVE  Fresh(userReads, users, accounts)'
  <2>1. CASE CopyStops(w)
    <3>1. w.kind = "copy" /\ w.user \in accounts /\ "users" \notin doubtful
      BY <2>1 DEF CopyStops, Leaves
    <3>2. UNCHANGED <<accounts, users, userReads>>
      BY <2>1, <3>1 DEF CopyStops
    <3>. QED
      BY <1>1, <3>1, <3>2
  <2>2. CASE WriteFails(w) \/ Granted(w) \/ Copied(w)
    BY <1>1, <2>2 DEF WriteFails, Granted, Copied, LoadGrants, Asked, Leaves
  <2>. QED
    BY <1>8, <2>1, <2>2
<1>9. CASE UsersChange \/ AccountsChange \/ \E u \in Users : SelectUser(u)
  BY <1>1, <1>9 DEF UsersChange, AccountsChange, SelectUser, LoadGrants, Asked
<1>10. CASE \E r \in grantReads : GrantsCome(r) \/ GrantsFail(r)
  BY <1>1, <1>10 DEF GrantsCome, GrantsFail
<1>11. CASE UNCHANGED usersVars
  BY <1>1, <1>11 DEF usersVars
<1>. QED
  BY <1>3, <1>4, <1>5, <1>6, <1>7, <1>8, <1>9, <1>10, <1>11
     DEF UsersNext, SubmitGrant, SubmitCreate, ToggleLock, DropUser, SubmitCopy, SubmitCopyUser

(* When no load is on its way the users' tab has the accounts of the       *)
(* server, unless loads overlapped or one failed, a copy failed after it   *)
(* had created the account, or another client has changed them.            *)
THEOREM AccountsCurrent == UsersSpec => []AccountsAreCurrent
<1>1. UsersInit => AccountsInv
  <2>1. Fresh({} \cup {[n |-> 1, seen |-> accounts]}, users, accounts)
    BY FreshAsked
  <2>. QED
    BY <2>1 DEF UsersInit, AccountsInv
<1>2. AccountsInv => AccountsAreCurrent
  BY DEF AccountsInv, AccountsAreCurrent, Fresh
<1>. QED
  BY <1>1, <1>2, AccountsStep, PTL DEF UsersSpec

-----------------------------------------------------------------------------
(* The routines, triggers and events.                                      *)
ObjectsInv == objectDoubt = {} => Fresh(objectReads, listed, objects)

LEMMA ObjectsStep == ObjectsInv /\ [RoutinesNext]_routineVars => ObjectsInv'
<1> SUFFICES ASSUME ObjectsInv, [RoutinesNext]_routineVars, objectDoubt' = {}
             PROVE  Fresh(objectReads, listed, objects)'
  BY DEF ObjectsInv
<1> USE DEF ObjectsInv
<1>1. ASSUME UNCHANGED <<objects, listed, objectReads, objectDoubt>>
      PROVE  Fresh(objectReads, listed, objects)'
  BY <1>1 DEF Fresh
<1>2. ASSUME AskForObjects(objects') PROVE Fresh(objectReads, listed, objects)'
  <2>1. objectReads = {}
    BY <1>2 DEF AskForObjects, AskedFor
  <2>2. PICK new : new.seen = objects' /\ objectReads' = objectReads \cup {new}
    BY <1>2 DEF AskForObjects
  <2>. QED
    BY <2>1, <2>2, FreshAsked
<1>3. CASE RefreshObjects
  BY <1>2, <1>3 DEF RefreshObjects
<1>4. ASSUME NEW r \in objectReads, ObjectsCome(r) PROVE Fresh(objectReads, listed, objects)'
  BY <1>4, FreshAnswered DEF ObjectsCome
<1>5. ASSUME NEW r \in objectReads, ObjectsFail(r) PROVE Fresh(objectReads, listed, objects)'
  BY <1>5 DEF ObjectsFail
<1>6. CASE SaveDrops
  BY <1>6 DEF SaveDrops
<1>7. CASE SaveCreates \/ \E d \in drops : DropSucceeds(d)
  BY <1>2, <1>7 DEF SaveCreates, DropSucceeds
<1>8. CASE OpenCreate \/ PickKind \/ CloseEditor \/ SaveObject \/ SaveFails \/ CancelDrop
           \/ ConfirmDrop
  BY <1>1, <1>8 DEF OpenCreate, PickKind, CloseEditor, SaveObject, SaveFails, CancelDrop,
     ConfirmDrop
<1>9. CASE \/ \E d \in definitions : DefinitionComes(d) \/ DefinitionFails(d)
           \/ \E o \in Objects : EditObject(o) \/ TypeName(o) \/ TypeDefinition(o) \/ AskToDrop(o)
           \/ \E d \in drops : DropFails(d)
  BY <1>1, <1>9 DEF DefinitionComes, DefinitionFails, EditObject, TypeName, TypeDefinition,
     AskToDrop, DropFails
<1>10. CASE UNCHANGED routineVars
  BY <1>1, <1>10 DEF routineVars
<1>. QED
  BY <1>3, <1>4, <1>5, <1>6, <1>7, <1>8, <1>9, <1>10 DEF RoutinesNext

(* When no read is on its way the objects listed are those of the          *)
(* database, unless reads overlapped, one failed, or a save is half done.  *)
THEOREM ObjectsListed == RoutinesSpec => []ObjectsAreListed
<1>1. RoutinesInit => ObjectsInv
  <2>1. Fresh({} \cup {[n |-> 1, seen |-> objects]}, listed, objects)
    BY FreshAsked
  <2>. QED
    BY <2>1 DEF RoutinesInit, ObjectsInv
<1>2. ObjectsInv => ObjectsAreListed
  BY DEF ObjectsInv, ObjectsAreListed, Fresh
<1>. QED
  BY <1>1, <1>2, ObjectsStep, PTL DEF RoutinesSpec

-----------------------------------------------------------------------------
(* The dumps in the backup dialog.                                         *)
FilesInv ==
  filesDoubt = {} =>
    /\ \A c, d \in Reading : c = d
    /\ \A c \in Reading : c.dumps = dumps
    /\ Reading = {} => files = dumps

LEMMA FilesAsked ==
  ASSUME NEW kind \in ReadKinds, NEW calls, calls \in SUBSET backupCalls,
         AskForFiles(kind, calls), filesDoubt' = {},
         \A c \in backupCalls \ calls : c.kind \notin ReadKinds
  PROVE  FilesInv'
<1>1. Reading = {}
  BY DEF AskForFiles, AskedFor, Reading
<1> DEFINE asked == BackupCall(kind, NoDump)
<1>2. asked.kind = kind /\ asked.dumps = dumps'
  BY DEF BackupCall
<1>3. backupCalls' = calls \cup {asked}
  BY DEF AskForFiles, AskBackup
<1> HIDE DEF asked
<1>4. \A c \in Reading' : c = asked
  BY <1>1, <1>2, <1>3 DEF Reading
<1>5. asked \in Reading'
  BY <1>2, <1>3 DEF Reading
<1>. QED
  BY <1>2, <1>4, <1>5 DEF FilesInv

LEMMA FilesStep == FilesInv /\ [BackupNext]_backupVars => FilesInv'
<1> SUFFICES ASSUME FilesInv, [BackupNext]_backupVars, filesDoubt' = {} PROVE FilesInv'
  BY DEF FilesInv
<1>1. ASSUME UNCHANGED <<dumps, files, filesDoubt>>, Reading' = Reading PROVE FilesInv'
  BY <1>1 DEF FilesInv
<1>2. ASSUME NEW c \in backupCalls, c.kind \notin ReadKinds, backupCalls' = backupCalls \ {c}
      PROVE  Reading' = Reading
  BY <1>2 DEF Reading
<1>3. ASSUME NEW kind, kind \notin ReadKinds, NEW d, AskBackup(kind, d, backupCalls)
      PROVE  Reading' = Reading
  <2>1. PICK new : backupCalls' = backupCalls \cup {new} /\ new.kind = kind
    BY <1>3, AskAdds
  <2>. QED
    BY <1>3, <2>1 DEF Reading
<1>4. CASE OpenBackup \/ ListFiles
  BY <1>4, FilesAsked DEF OpenBackup, ListFiles, ReadKinds
<1>5. ASSUME NEW c \in backupCalls, BackupRan(c) \/ Deleted(c) PROVE FilesInv'
  <2>1. c.kind \notin ReadKinds
    BY <1>5 DEF BackupRan, Deleted, ReadKinds
  <2>. QED
    BY <1>5, <2>1, FilesAsked DEF BackupRan, Deleted, ReadKinds
<1>6. ASSUME NEW c \in Reading, backupCalls' = backupCalls \ {c}, files' = c.dumps,
             UNCHANGED <<dumps, filesDoubt>>
      PROVE  FilesInv'
  BY <1>6 DEF FilesInv, Reading
<1>7. ASSUME NEW c \in backupCalls, LoadComes(c) \/ FilesCome(c) PROVE FilesInv'
  BY <1>6, <1>7 DEF LoadComes, FilesCome, Reading, ReadKinds, server
<1>8. ASSUME NEW c \in backupCalls, LoadFails(c) \/ FilesFail(c) PROVE FilesInv'
  BY <1>8 DEF LoadFails, FilesFail
<1>9. CASE SaveSettings \/ BackupNow \/ ConfirmDelete \/ ConfirmRestore
  BY <1>1, <1>3, <1>9 DEF SaveSettings, BackupNow, ConfirmDelete, ConfirmRestore, ReadKinds,
     server
<1>10. ASSUME NEW c \in backupCalls,
              \/ SettingsSaved(c) \/ SettingsFail(c) \/ RunFails(c) \/ DeleteFails(c)
              \/ Restored(c) \/ RestoreFails(c)
       PROVE  FilesInv'
  <2>1. /\ c.kind \notin ReadKinds /\ backupCalls' = backupCalls \ {c}
        /\ UNCHANGED <<dumps, files, filesDoubt>>
    BY <1>10 DEF SettingsSaved, SettingsFail, SettingsBecome, RunFails, FilesMove, DeleteFails,
       Restored, RestoreFails, ReadKinds, server
  <2>. QED
    BY <1>1, <1>2, <2>1
<1>11. CASE \/ CloseBackup \/ CloseFileDialog
            \/ \E s \in BackupSettings : TypeSettings(s)
            \/ \E d \in Dumps : AskToDelete(d) \/ OpenRestore(d)
  BY <1>1, <1>11 DEF CloseBackup, CloseFileDialog, TypeSettings, AskToDelete, OpenRestore,
     Reading, server
<1>12. CASE ScheduleRuns \/ \E s \in BackupSettings : SettingsElsewhere(s)
  BY <1>1, <1>12 DEF ScheduleRuns, SettingsElsewhere, SettingsBecome, FilesMove, Reading
<1>13. CASE UNCHANGED backupVars
  BY <1>1, <1>13 DEF backupVars, Reading
<1>. QED
  BY <1>4, <1>5, <1>7, <1>8, <1>9, <1>10, <1>11, <1>12, <1>13 DEF BackupNext

(* When nothing that reads the files is on its way those listed are those  *)
(* there are, unless reads overlapped, one failed, or they have changed    *)
(* since: the schedule has run, a run failed half way, or the directory is *)
(* another.                                                                *)
THEOREM FilesListed == BackupSpec => []FilesAreListed
<1>1. BackupInit => FilesInv
  BY DEF BackupInit, FilesInv
<1>2. FilesInv => FilesAreListed
  BY DEF FilesInv, FilesAreListed
<1>. QED
  BY <1>1, <1>2, FilesStep, PTL DEF BackupSpec

-----------------------------------------------------------------------------
(* The processes and the variables of the monitor.                         *)
ProcessesInv ==
  "processes" \notin monitorDoubt => Fresh(processReads, shownProcesses, alive)
VariablesInv ==
  "variables" \notin monitorDoubt => Fresh(variableReads, shownVariable, variable)

LEMMA ProcessesAsked ==
  ASSUME NEW by, NEW before, ReadProcesses(by, alive'), UNCHANGED shownProcesses,
         monitorDoubt' = AskedFor("processes", processReads, before)
  PROVE  ProcessesInv'
<1> SUFFICES ASSUME "processes" \notin monitorDoubt'
             PROVE  Fresh(processReads', shownProcesses, alive')
  BY DEF ProcessesInv
<1>1. processReads = {}
  BY DEF AskedFor
<1>2. PICK new : new.seen = alive' /\ processReads' = processReads \cup {new}
  BY DEF ReadProcesses, NewRead
<1>. QED
  BY <1>1, <1>2, FreshAsked

LEMMA VariablesAsked ==
  ASSUME NEW by, ReadVariables(by, variable'), UNCHANGED shownVariable,
         "variables" \in monitorDoubt' \/ variableReads = {}
  PROVE  VariablesInv'
<1> SUFFICES ASSUME "variables" \notin monitorDoubt'
             PROVE  Fresh(variableReads', shownVariable, variable')
  BY DEF VariablesInv
<1>1. PICK new : new.seen = variable' /\ variableReads' = variableReads \cup {new}
  BY DEF ReadVariables, NewRead
<1>. QED
  BY <1>1, FreshAsked

LEMMA ProcessesStep == ProcessesInv /\ [MonitorNext]_monitorVars => ProcessesInv'
<1> SUFFICES ASSUME ProcessesInv, [MonitorNext]_monitorVars PROVE ProcessesInv'
  OBVIOUS
<1>1. ASSUME UNCHANGED <<alive, shownProcesses, processReads>>,
             "processes" \in monitorDoubt => "processes" \in monitorDoubt'
      PROVE  ProcessesInv'
  BY <1>1 DEF ProcessesInv, Fresh
<1>2. CASE Activate \/ Poll \/ RefreshMonitor \/ \E k \in kills : Killed(k)
  BY <1>2, ProcessesAsked DEF Activate, Poll, RefreshMonitor, Killed
<1>3. ASSUME NEW r \in processReads, ProcessesCome(r) PROVE ProcessesInv'
  BY <1>3, FreshAnswered DEF ProcessesCome, ProcessesInv
<1>4. ASSUME NEW r \in processReads, ProcessesFail(r) PROVE ProcessesInv'
  BY <1>4 DEF ProcessesFail, ProcessesInv
<1>5. CASE ProcessesChange
  BY <1>5 DEF ProcessesChange, ProcessesInv
<1>6. CASE Deactivate \/ ToggleAuto \/ CancelKill \/ CloseVariable \/ VariableSet \/ SetFails
  BY <1>1, <1>6 DEF Deactivate, ToggleAuto, CancelKill, CloseVariable, VariableSet, SetFails,
     processVars, AskedFor
<1>7. CASE \/ \E p \in Processes : AskToKill(p)
           \/ \E query \in BOOLEAN : ConfirmKill(query)
           \/ \E k \in kills : KillFails(k)
  BY <1>1, <1>7 DEF AskToKill, ConfirmKill, KillFails
<1>8. CASE \/ \E r \in variableReads : VariablesCome(r) \/ VariablesFail(r)
           \/ \E v \in Values : EditVariable(v)
           \/ \E scope \in {"GLOBAL", "SESSION"} : SaveVariable(scope)
  BY <1>1, <1>8 DEF VariablesCome, VariablesFail, EditVariable, SaveVariable, processVars
<1>9. CASE UNCHANGED monitorVars
  BY <1>1, <1>9 DEF monitorVars
<1>. QED
  BY <1>2, <1>3, <1>4, <1>5, <1>6, <1>7, <1>8, <1>9 DEF MonitorNext

LEMMA VariablesStep == VariablesInv /\ [MonitorNext]_monitorVars => VariablesInv'
<1> SUFFICES ASSUME VariablesInv, [MonitorNext]_monitorVars PROVE VariablesInv'
  OBVIOUS
<1>1. ASSUME UNCHANGED <<variable, shownVariable, variableReads>>,
             "variables" \in monitorDoubt => "variables" \in monitorDoubt'
      PROVE  VariablesInv'
  BY <1>1 DEF VariablesInv, Fresh
<1>2. CASE Activate
  BY <1>2, VariablesAsked DEF Activate, AskedFor
<1>3. CASE VariableSet
  BY <1>3, VariablesAsked DEF VariableSet, AskedFor
<1>4. ASSUME NEW r \in variableReads, VariablesCome(r) PROVE VariablesInv'
  BY <1>4, FreshAnswered DEF VariablesCome, VariablesInv
<1>5. ASSUME NEW r \in variableReads, VariablesFail(r) PROVE VariablesInv'
  BY <1>5 DEF VariablesFail, VariablesInv
<1>6. CASE Deactivate \/ ToggleAuto \/ CancelKill \/ CloseVariable \/ SetFails
  BY <1>1, <1>6 DEF Deactivate, ToggleAuto, CancelKill, CloseVariable, SetFails, variableVars
<1>7. CASE \/ Poll \/ RefreshMonitor \/ ProcessesChange
           \/ \E k \in kills : Killed(k)
           \/ \E r \in processReads : ProcessesCome(r) \/ ProcessesFail(r)
  BY <1>1, <1>7 DEF Poll, RefreshMonitor, ProcessesChange, Killed, ProcessesCome, ProcessesFail,
     AskedFor, variableVars
<1>8. CASE \/ \E p \in Processes : AskToKill(p)
           \/ \E query \in BOOLEAN : ConfirmKill(query)
           \/ \E k \in kills : KillFails(k)
           \/ \E v \in Values : EditVariable(v)
           \/ \E scope \in {"GLOBAL", "SESSION"} : SaveVariable(scope)
  BY <1>1, <1>8 DEF AskToKill, ConfirmKill, KillFails, EditVariable, SaveVariable, variableVars
<1>9. CASE UNCHANGED monitorVars
  BY <1>1, <1>9 DEF monitorVars
<1>. QED
  BY <1>2, <1>3, <1>4, <1>5, <1>6, <1>7, <1>8, <1>9 DEF MonitorNext

(* When no list is on its way the processes and variables shown are the    *)
(* server's, unless lists overlapped, one failed, or processes came or     *)
(* went.                                                                   *)
THEOREM MonitorCurrent == MonitorSpec => []MonitorIsCurrent
<1>1. MonitorInit => ProcessesInv /\ VariablesInv
  BY DEF MonitorInit, ProcessesInv, VariablesInv
<1>2. ProcessesInv /\ VariablesInv => MonitorIsCurrent
  BY DEF ProcessesInv, VariablesInv, MonitorIsCurrent, Fresh
<1>. QED
  BY <1>1, <1>2, ProcessesStep, VariablesStep, PTL DEF MonitorSpec

-----------------------------------------------------------------------------
(* The privilege matrix of an account.                                     *)
MatrixInv == matrixDoubt = {} => Fresh(matrixReads, matrix, OwnCells(held, heldOnTables))

LEMMA MatrixStep == MatrixInv /\ [MatrixNext]_matrixVars => MatrixInv'
<1> SUFFICES ASSUME MatrixInv, [MatrixNext]_matrixVars, matrixDoubt' = {}
             PROVE  Fresh(matrixReads, matrix, OwnCells(held, heldOnTables))'
  BY DEF MatrixInv
<1> USE DEF MatrixInv
<1>1. ASSUME UNCHANGED <<privileges, matrix, matrixReads, matrixDoubt>>
      PROVE  Fresh(matrixReads, matrix, OwnCells(held, heldOnTables))'
  BY <1>1 DEF Fresh, OwnCells, privileges
<1>2. ASSUME NEW by, LoadMatrix(by, held'), UNCHANGED <<heldOnTables, matrix>>
      PROVE  Fresh(matrixReads, matrix, OwnCells(held, heldOnTables))'
  <2>1. matrixReads = {}
    BY <1>2 DEF LoadMatrix, AskedFor
  <2>2. PICK new : /\ new.seen = OwnCells(held', heldOnTables')
                   /\ matrixReads' = matrixReads \cup {new}
    BY <1>2 DEF LoadMatrix, OwnCells
  <2>3. OwnCells(held, heldOnTables)' = OwnCells(held', heldOnTables')
    BY DEF OwnCells
  <2>. QED
    BY <2>1, <2>2, <2>3, FreshAsked
<1>3. CASE OpenMatrix \/ RefreshMatrix
  BY <1>2, <1>3 DEF OpenMatrix, RefreshMatrix, privileges
<1>4. ASSUME NEW c, Toggled(c)
      PROVE  Fresh(matrixReads, matrix, OwnCells(held, heldOnTables))'
  BY <1>2, <1>4 DEF Toggled
<1>5. ASSUME NEW r \in matrixReads, MatrixComes(r)
      PROVE  Fresh(matrixReads, matrix, OwnCells(held, heldOnTables))'
  <2>1. OwnCells(held, heldOnTables)' = OwnCells(held, heldOnTables)
    BY <1>5 DEF MatrixComes, privileges, OwnCells
  <2>. QED
    BY <1>5, <2>1, FreshAnswered DEF MatrixComes
<1>6. CASE PrivilegesChange \/ \E r \in matrixReads : MatrixFails(r)
  BY <1>6 DEF PrivilegesChange, MatrixFails
<1>7. CASE \/ CloseMatrix
           \/ \E cell \in Cells : TogglePrivilege(cell)
           \/ \E c \in toggles : ToggleFails(c)
  BY <1>1, <1>7 DEF CloseMatrix, TogglePrivilege, ToggleFails
<1>8. CASE UNCHANGED matrixVars
  BY <1>1, <1>8 DEF matrixVars, privileges
<1>. QED
  BY <1>3, <1>4, <1>5, <1>6, <1>7, <1>8 DEF MatrixNext

(* When no read is on its way a cell of the matrix shows the privilege if  *)
(* and only if the account has it there, unless reads overlapped, one      *)
(* failed, or privileges were changed elsewhere.                           *)
THEOREM MatrixCurrent == MatrixSpec => []MatrixIsCurrent
<1>1. MatrixInit => MatrixInv
  BY DEF MatrixInit, MatrixInv
<1>2. MatrixInv => MatrixIsCurrent
  BY DEF MatrixInv, MatrixIsCurrent, Fresh
<1>. QED
  BY <1>1, <1>2, MatrixStep, PTL DEF MatrixSpec

-----------------------------------------------------------------------------
(* The structure tab of a table.                                           *)
StructureInv == structureDoubt = {} => Fresh(structureReads, structure, shape)

LEMMA StructureStep == StructureInv /\ [StructureNext]_structureVars => StructureInv'
<1> SUFFICES ASSUME StructureInv, [StructureNext]_structureVars, structureDoubt' = {}
             PROVE  Fresh(structureReads, structure, shape)'
  BY DEF StructureInv
<1> USE DEF StructureInv
<1>1. ASSUME UNCHANGED structureShown PROVE Fresh(structureReads, structure, shape)'
  BY <1>1 DEF Fresh, structureShown
<1>2. ASSUME NEW r \in structureReads, StructureComes(r)
      PROVE  Fresh(structureReads, structure, shape)'
  BY <1>2, FreshAnswered DEF StructureComes
<1>3. ASSUME NEW r \in structureReads, StructureFails(r)
      PROVE  Fresh(structureReads, structure, shape)'
  BY <1>3 DEF StructureFails
<1>4. ASSUME NEW c, AlteredFromDialog(c) \/ Altered(c)
      PROVE  Fresh(structureReads, structure, shape)'
  <2>1. AskForStructure(shape')
    BY <1>4 DEF AlteredFromDialog, Altered
  <2>2. structureReads = {}
    BY <2>1 DEF AskForStructure, AskedFor
  <2>3. PICK new : new.seen = shape' /\ structureReads' = structureReads \cup {new}
    BY <2>1 DEF AskForStructure
  <2>. QED
    BY <2>2, <2>3, FreshAsked
<1>5. ASSUME NEW c, TableGone(c) PROVE Fresh(structureReads, structure, shape)'
  <2>1. Fresh({} \cup {[n |-> 1, seen |-> shape']}, structure', shape')
    BY FreshAsked
  <2>. QED
    BY <1>5, <2>1 DEF TableGone
<1>6. CASE \/ CloseDialog \/ PreviewStatement \/ CancelConfirm
           \/ \E d \in Dialogs : OpenDialog(d)
           \/ \E what \in Confirmed : AskToConfirm(what)
  BY <1>1, <1>6 DEF CloseDialog, PreviewStatement, CancelConfirm, OpenDialog, AskToConfirm
<1>7. CASE SendFromDialog \/ SendPreviewed \/ SendRename \/ SendConfirmed \/ Maintenance
  BY <1>1, <1>7 DEF SendFromDialog, SendPreviewed, SendRename, SendConfirmed, Maintenance,
     SendAlter
<1>8. CASE \E c \in alters : AlterFails(c)
  BY <1>1, <1>8 DEF AlterFails
<1>9. CASE UNCHANGED structureVars
  BY <1>1, <1>9 DEF structureVars
<1>. QED
  BY <1>2, <1>3, <1>4, <1>5, <1>6, <1>7, <1>8, <1>9 DEF StructureNext

(* When no read is on its way the structure shown is the table's, unless   *)
(* reads overlapped or one failed.                                         *)
THEOREM StructureCurrent == StructureSpec => []StructureIsCurrent
<1>1. StructureInit => StructureInv
  <2>1. Fresh({} \cup {[n |-> 1, seen |-> shape]}, structure, shape)
    BY FreshAsked
  <2>. QED
    BY <2>1 DEF StructureInit, StructureInv
<1>2. StructureInv => StructureIsCurrent
  BY DEF StructureInv, StructureIsCurrent, Fresh
<1>. QED
  BY <1>1, <1>2, StructureStep, PTL DEF StructureSpec

-----------------------------------------------------------------------------
(* The windows' copies of a list they share.                               *)
CopiesInv == CopiesAreCurrent /\ DOMAIN copy = Holders

LEMMA CopiesStep == CopiesInv /\ [ListsNext]_listVars => CopiesInv'
<1> SUFFICES ASSUME CopiesInv, [ListsNext]_listVars PROVE CopiesInv'
  OBVIOUS
<1> USE DEF CopiesInv, CopiesAreCurrent
<1>1. ASSUME NEW h \in Holders, NEW next, Persist(h, next) PROVE CopiesInv'
  BY <1>1 DEF Persist
<1>2. ASSUME NEW h \in Holders, NEW next, WriteBack(h, next), list \notin Synced
      PROVE  CopiesInv'
  BY <1>2 DEF WriteBack
<1>3. ASSUME NEW h \in Holders, Told(h) \/ OpenHolder(h) PROVE CopiesInv'
  BY <1>3 DEF Told, OpenHolder
<1>4. ASSUME NEW h \in Holders, NEW e,
             \/ Pin(h, e) \/ Unpin(h, e) \/ ToggleFavorite(h, e)
             \/ SaveEntry(h, e) \/ RemoveEntry(h, e)
      PROVE  CopiesInv'
  BY <1>1, <1>4 DEF Pin, Unpin, ToggleFavorite, SaveEntry, RemoveEntry
<1>5. ASSUME NEW h \in Holders, NEW e,
             ClearHistory(h) \/ PushHistory(h, e) \/ RemoveHistory(h, e) \/ ToggleStar(h, e)
      PROVE  CopiesInv'
  BY <1>2, <1>5 DEF ClearHistory, PushHistory, RemoveHistory, ToggleStar, Synced
<1>6. CASE UNCHANGED listVars
  BY <1>6 DEF listVars
<1>. QED
  BY <1>3, <1>4, <1>5, <1>6 DEF ListsNext

(* A window to which no event of the storage is on its way shows the list  *)
(* that is stored.                                                         *)
THEOREM CopiesCurrent == ListsSpec => []CopiesAreCurrent
<1>1. ListsInit => CopiesInv
  BY DEF ListsInit, CopiesInv, CopiesAreCurrent
<1>2. CopiesInv => CopiesAreCurrent
  BY DEF CopiesInv
<1>. QED
  BY <1>1, <1>2, CopiesStep, PTL DEF ListsSpec

-----------------------------------------------------------------------------
(* What is stored, and every copy of it, has its entries once.             *)
EntriesInv ==
  /\ stored \in Seq(Entries) /\ IsInjective(stored)
  /\ DOMAIN copy = Holders
  /\ \A h \in Holders : copy[h] \in Seq(Entries) /\ IsInjective(copy[h])

LEMMA EmptyIsInjective ==
  <<>> \in Seq(Entries) /\ IsInjective(<<>>)
  BY DEF IsInjective

LEMMA WithoutKeeps ==
  ASSUME NEW entries \in Seq(Entries), NEW e
  PROVE  /\ Without(entries, e) \in Seq(Entries)
         /\ Range(Without(entries, e)) = Range(entries) \ {e}
         /\ IsInjective(entries) => IsInjective(Without(entries, e))
  BY OmitLeaves, OmitRange, OmitInjective DEF Without

(* A new entry is first, and only those without room go.                   *)
LEMMA PrependKeeps ==
  ASSUME NEW entries \in Seq(Entries), NEW e \in Entries
  PROVE  /\ Prepend(e, entries) \in Seq(Entries)
         /\ Range(entries) \ Range(Prepend(e, entries))
              \subseteq {entries[i] : i \in MaxKept..Len(entries)}
         /\ (e \notin Range(entries) /\ IsInjective(entries)) => IsInjective(Prepend(e, entries))
<1> DEFINE all  == <<e>> \o entries
           next == Prepend(e, entries)
<1>1. /\ all \in Seq(Entries) /\ Len(all) = Len(entries) + 1
      /\ all[1] = e /\ \A i \in 1..Len(entries) : all[i + 1] = entries[i]
  <2>1. <<e>> \in Seq(Entries) /\ Len(<<e>>) = 1 /\ <<e>>[1] = e
    OBVIOUS
  <2>2. Len(entries) \in Nat
    BY LenProperties
  <2>. QED
    BY <2>1, <2>2, ConcatProperties
<1>2. Len(entries) \in Nat /\ DOMAIN entries = 1..Len(entries) /\ DOMAIN all = 1..Len(all)
  BY <1>1, LenProperties
<1> HIDE DEF all
<1>3. /\ next \in Seq(Entries)
      /\ Len(next) <= Len(all) /\ (Len(next) < Len(all) => Len(next) = MaxKept)
      /\ \A i \in 1..Len(next) : next[i] = all[i]
  <2>1. CASE list \in Capped /\ Len(all) > MaxKept
    <3>1. next = SubSeq(all, 1, MaxKept)
      BY <2>1 DEF Prepend, all
    <3>2. \A i \in 1..MaxKept : all[i] \in Entries
      BY <1>1, <1>2, <2>1, ElementOfSeq, MaxKeptAssumption
    <3>3. /\ SubSeq(all, 1, MaxKept) \in Seq(Entries)
          /\ Len(SubSeq(all, 1, MaxKept)) = IF 1 <= MaxKept THEN MaxKept - 1 + 1 ELSE 0
          /\ \A i \in 1..(MaxKept - 1 + 1) : SubSeq(all, 1, MaxKept)[i] = all[1 + i - 1]
      BY <3>2, SubSeqProperties, MaxKeptAssumption
    <3> HIDE DEF next
    <3>4. Len(next) = MaxKept
      BY <3>1, <3>3, MaxKeptAssumption
    <3>. QED
      BY <1>1, <1>2, <2>1, <3>1, <3>3, <3>4, MaxKeptAssumption
  <2>2. CASE ~(list \in Capped /\ Len(all) > MaxKept)
    BY <1>1, <1>2, <2>2 DEF Prepend, all
  <2>. QED
    BY <2>1, <2>2
<1>4. Len(next) \in Nat /\ DOMAIN next = 1..Len(next)
  BY <1>3, LenProperties
<1> HIDE DEF next
<1>5. ASSUME NEW i \in 1..Len(entries), entries[i] \notin Range(next)
      PROVE  i \in MaxKept..Len(entries)
  <2>1. i + 1 \notin 1..Len(next)
    BY <1>1, <1>2, <1>3, <1>4, <1>5 DEF Range
  <2>2. Len(next) < Len(all)
    BY <1>1, <1>2, <1>4, <2>1
  <2>3. Len(next) = MaxKept
    BY <1>3, <2>2
  <2>. QED
    BY <1>2, <2>1, <2>3, MaxKeptAssumption
<1>6. Range(entries) \ Range(next) \subseteq {entries[i] : i \in MaxKept..Len(entries)}
  BY <1>2, <1>5 DEF Range
<1>7. ASSUME e \notin Range(entries), IsInjective(entries) PROVE IsInjective(next)
  <2>1. ASSUME NEW i \in 1..Len(all), NEW j \in 1..Len(all), all[i] = all[j] PROVE i = j
    <3>1. \A k \in 1..Len(all) : k # 1 => k - 1 \in 1..Len(entries) /\ all[k] = entries[k - 1]
      BY <1>1, <1>2
    <3>2. CASE i # 1 /\ j # 1
      <4>1. i - 1 = j - 1
        BY <1>2, <1>7, <2>1, <3>1, <3>2 DEF IsInjective
      <4>. QED
        BY <1>1, <1>2, <4>1
    <3>3. CASE i = 1 \/ j = 1
      BY <1>1, <1>2, <1>7, <2>1, <3>1, <3>3 DEF Range
    <3>. QED
      BY <3>2, <3>3
  <2>2. \A i \in 1..Len(next) : i \in 1..Len(all)
    BY <1>1, <1>2, <1>3, <1>4
  <2>. QED
    BY <1>3, <1>4, <2>1, <2>2 DEF IsInjective
<1>. QED
  BY <1>3, <1>6, <1>7 DEF next

LEMMA EntriesStep == EntriesInv /\ [ListsNext]_listVars => EntriesInv'
<1> SUFFICES ASSUME EntriesInv, [ListsNext]_listVars PROVE EntriesInv'
  OBVIOUS
<1>1. ASSUME NEW h \in Holders, NEW next \in Seq(Entries), IsInjective(next),
             stored' = next, copy' = [copy EXCEPT ![h] = next]
      PROVE  EntriesInv'
  BY <1>1 DEF EntriesInv
<1>2. ASSUME NEW h \in Holders, NEW e \in Entries,
             \/ Pin(h, e) \/ Unpin(h, e) \/ ToggleFavorite(h, e)
             \/ SaveEntry(h, e) \/ RemoveEntry(h, e)
      PROVE  EntriesInv'
  <2>1. stored \in Seq(Entries) /\ IsInjective(stored)
    BY DEF EntriesInv
  <2>2. \/ Persist(h, Without(stored, e)) \/ Persist(h, stored)
        \/ e \notin Range(stored) /\ Persist(h, Prepend(e, stored))
    BY <1>2 DEF Pin, Unpin, ToggleFavorite, SaveEntry, RemoveEntry
  <2>. QED
    BY <1>1, <2>1, <2>2, WithoutKeeps, PrependKeeps DEF Persist
<1>3. ASSUME NEW h \in Holders, NEW e \in Entries,
             PushHistory(h, e) \/ RemoveHistory(h, e) \/ ToggleStar(h, e)
      PROVE  EntriesInv'
  <2>1. copy[h] \in Seq(Entries) /\ IsInjective(copy[h])
    BY DEF EntriesInv
  <2>2. \/ WriteBack(h, Without(copy[h], e))
        \/ e \notin Range(copy[h]) /\ WriteBack(h, Prepend(e, copy[h]))
        \/ WriteBack(h, Prepend(e, Without(copy[h], e)))
    BY <1>3 DEF PushHistory, RemoveHistory, ToggleStar
  <2>3. /\ Without(copy[h], e) \in Seq(Entries) /\ IsInjective(Without(copy[h], e))
        /\ e \notin Range(Without(copy[h], e))
    BY <2>1, WithoutKeeps
  <2>. QED
    BY <1>1, <2>1, <2>2, <2>3, PrependKeeps DEF WriteBack
<1>4. ASSUME NEW h \in Holders, ClearHistory(h) PROVE EntriesInv'
  BY <1>1, <1>4, EmptyIsInjective DEF ClearHistory, WriteBack
<1>5. ASSUME NEW h \in Holders, Told(h) \/ OpenHolder(h) PROVE EntriesInv'
  BY <1>5 DEF Told, OpenHolder, EntriesInv
<1>6. CASE UNCHANGED listVars
  BY <1>6 DEF listVars, EntriesInv
<1>. QED
  BY <1>2, <1>3, <1>4, <1>5, <1>6 DEF ListsNext

LEMMA EntriesAtFirst == ListsInit => EntriesInv
  BY EmptyIsInjective DEF ListsInit, EntriesInv

(* No entry is stored twice, though a window decides by a list that may be *)
(* behind what the others have stored.                                     *)
THEOREM OneEntry == ListsSpec => []OneEntryEach
<1>1. EntriesInv => OneEntryEach
  BY DEF EntriesInv, OneEntryEach
<1>. QED
  BY <1>1, EntriesAtFirst, EntriesStep, PTL DEF ListsSpec

(* A change of a list the windows share leaves the entries it was not      *)
(* asked to remove, but those a new one leaves no room for.                *)
LEMMA ChangeLeaves ==
  ASSUME EntriesInv, [ListsNext]_listVars, list \in Synced
  PROVE  LeavesUnasked \subseteq NoRoom
<1>1. ASSUME NEW h \in Holders, NEW e \in Entries,
             \/ Pin(h, e) \/ Unpin(h, e) \/ ToggleFavorite(h, e)
             \/ SaveEntry(h, e) \/ RemoveEntry(h, e)
      PROVE  LeavesUnasked \subseteq NoRoom
  <2>1. stored \in Seq(Entries)
    BY DEF EntriesInv
  <2>2. \/ stored' = Without(stored, e) /\ removed' = {e}
        \/ stored' = stored
        \/ stored' = Prepend(e, stored)
    BY <1>1 DEF Pin, Unpin, ToggleFavorite, SaveEntry, RemoveEntry, Persist
  <2>3. Range(Without(stored, e)) = Range(stored) \ {e}
    BY <2>1, WithoutKeeps
  <2>4. Range(stored) \ Range(Prepend(e, stored)) \subseteq NoRoom
    BY <2>1, PrependKeeps DEF NoRoom
  <2>. QED
    BY <2>2, <2>3, <2>4 DEF LeavesUnasked
<1>2. CASE UNCHANGED stored
  BY <1>2 DEF LeavesUnasked
<1>3. ASSUME NEW h, NEW e,
             ClearHistory(h) \/ PushHistory(h, e) \/ RemoveHistory(h, e) \/ ToggleStar(h, e)
      PROVE  FALSE
  BY <1>3 DEF ClearHistory, PushHistory, RemoveHistory, ToggleStar, Synced
<1>4. CASE \E h \in Holders : Told(h) \/ OpenHolder(h)
  BY <1>2, <1>4 DEF Told, OpenHolder
<1>5. CASE UNCHANGED listVars
  BY <1>2, <1>5 DEF listVars
<1>. QED
  BY <1>1, <1>3, <1>4, <1>5 DEF ListsNext

(* An entry leaves a list the windows share only when it is removed, or    *)
(* when a new one takes its room.                                          *)
THEOREM EntriesStayThere == ListsSpec => EntriesStay
<1>1. EntriesInv /\ [ListsNext]_listVars =>
        [(list \in Synced) => LeavesUnasked \subseteq NoRoom]_listVars
  BY ChangeLeaves
<1>. QED
  BY <1>1, EntriesAtFirst, EntriesStep, PTL DEF ListsSpec, EntriesStay

-----------------------------------------------------------------------------
(* The views side by side: what holds of each alone holds of all of them.  *)
LEMMA PartsStart ==
  ViewsInit =>
    /\ UsersInit /\ RoutinesInit /\ BackupInit /\ MonitorInit /\ MatrixInit
    /\ StructureInit /\ ListsInit
  BY DEF ViewsInit

LEMMA PartsStep ==
  [ViewsNext]_<<part, objectVars, adminVars>> =>
    /\ [UsersNext]_usersVars /\ [RoutinesNext]_routineVars /\ [BackupNext]_backupVars
    /\ [MonitorNext]_monitorVars /\ [MatrixNext]_matrixVars
    /\ [StructureNext]_structureVars /\ [ListsNext]_listVars
<1> SUFFICES ASSUME [ViewsNext]_<<part, objectVars, adminVars>>
             PROVE  /\ [UsersNext]_usersVars /\ [RoutinesNext]_routineVars
                    /\ [BackupNext]_backupVars /\ [MonitorNext]_monitorVars
                    /\ [MatrixNext]_matrixVars
                    /\ [StructureNext]_structureVars /\ [ListsNext]_listVars
  OBVIOUS
<1>1. UNCHANGED objectVars => UNCHANGED structureVars /\ UNCHANGED listVars
  BY DEF objectVars
<1>2. UNCHANGED adminVars =>
        /\ UNCHANGED usersVars /\ UNCHANGED routineVars /\ UNCHANGED backupVars
        /\ UNCHANGED monitorVars /\ UNCHANGED matrixVars
  BY DEF adminVars
<1>3. CASE ObjectViewsNext /\ UNCHANGED adminVars
  BY <1>2, <1>3 DEF ObjectViewsNext
<1>4. CASE AdminNext /\ UNCHANGED objectVars
  BY <1>1, <1>4 DEF AdminNext
<1>5. CASE UNCHANGED <<part, objectVars, adminVars>>
  BY <1>1, <1>2, <1>5
<1>. QED
  BY <1>3, <1>4, <1>5 DEF ViewsNext

(* What each view shows, once its requests are answered and its own        *)
(* changes are reloaded, is what the server, or the storage, has.          *)
THEOREM ViewsCurrent == ViewsSpec => []ViewsAreCurrent
<1>1. ViewsSpec => UsersSpec /\ RoutinesSpec /\ BackupSpec /\ MonitorSpec /\ MatrixSpec
                   /\ StructureSpec /\ ListsSpec
  BY PartsStart, PartsStep, PTL DEF ViewsSpec, UsersSpec, RoutinesSpec, BackupSpec,
     MonitorSpec, MatrixSpec, StructureSpec, ListsSpec
<1>2. /\ AccountsAreCurrent /\ ObjectsAreListed /\ FilesAreListed /\ MonitorIsCurrent
      /\ MatrixIsCurrent /\ StructureIsCurrent /\ CopiesAreCurrent
      => ViewsAreCurrent
  BY DEF ViewsAreCurrent
<1>. QED
  BY <1>1, <1>2, AccountsCurrent, ObjectsListed, FilesListed, MonitorCurrent, MatrixCurrent,
     StructureCurrent, CopiesCurrent, PTL
=============================================================================
