--------------------------- MODULE BackupManager ---------------------------
(***************************************************************************)
(* Scheduled backups: backupManager in backend/backup_manager.go, the dump *)
(* in backend/sqldump.go and the restore of a dump in backend/power.go.    *)
(*                                                                         *)
(* The scheduler and any number of requests share one set of settings, one *)
(* running flag and one state file. The state is saved outside the lock,   *)
(* by every writer through the same temporary file.                        *)
(*                                                                         *)
(* Abstractions.                                                           *)
(*  - Time has one unit, for the interval (hours in the code) and for the  *)
(*    retention (days). A run ends within the unit it began in, and has a  *)
(*    stamp of its own: no two begin in one second.                        *)
(*  - Connections do not change during a run, and their names differ.      *)
(*  - FilePart is safeFilePart, which may map two names to one.            *)
(*  - Of a dump, the database and the time of writing are kept; of a       *)
(*    restore, the database it writes to.                                  *)
(*  - The directory of the dumps is left out of the settings.              *)
(***************************************************************************)
EXTENDS Integers, FiniteSets

CONSTANTS
  Clients,    \* requests: each runs a backup, configures, deletes or restores
  Scheduler,
  Databases,  \* Databases[c]: names of the databases of connection c
  Names,      \* of databases
  FilePart,   \* FilePart[n]: the file name part made of name n
  Inputs,     \* settings a user may submit
  Default,    \* the settings of a new installation
  Horizon,    \* bound on time
  MaxCrashes, \* bound
  Absent, Cut, Torn, \* a state file that is missing, empty, a mixture
  None

Actors == Clients \cup {Scheduler}
Conns == DOMAIN Databases
Tables == {t \in Conns \X Names : t[2] \in Databases[t[1]]}
Times == 0..Horizon
Input == [enabled : BOOLEAN, interval : Nat, keep : Nat]
Config == {c \in Input : c.interval > 0 /\ c.keep > 0}
State == [settings : Config, lastRun : Times \cup {None}, ok : BOOLEAN]
Unreadable == {Absent, Cut, Torn}
Paths == [conn : Conns, part : Names, run : Nat]
Dumps == [name : Names, at : Times]

ASSUME NamesAssumption == None \notin Actors \cup Names \cup Times /\ Scheduler \notin Clients
ASSUME DatabasesAssumption == Databases \in [Conns -> SUBSET Names]
ASSUME FilePartAssumption == FilePart \in [Names -> Names]
ASSUME SettingsAssumption == Inputs \subseteq Input /\ Default \in Config
ASSUME UnreadableAssumption == \A f \in Unreadable : f \notin State
ASSUME BoundsAssumption == Horizon \in Nat /\ MaxCrashes \in Nat

VARIABLES
  \* ---- the manager ----
  settings,  \* the configured part of m.settings
  lastRun,   \* or None
  lastOK,    \* LastError is empty
  running,
  \* ---- on disk ----
  stateFile, \* backups.json
  tmp,       \* backups.json.tmp
  files,     \* the dumps: path -> database, time of writing
  \* ---- actor a ----
  pc,
  keep,      \* the retention its run began with
  stamp,     \* of its run
  left,      \* connections the run has not begun
  todo, cur, \* databases to dump of the current one; the one that is dumped
  failed,    \* firstErr is set
  out,       \* the state it saves
  fd,        \* what the file it has open has become
  \* ---- environment and history ----
  now, runs, crashes,
  configured, \* the settings of the last configure
  lost,       \* since then, the process ended while the state was not safely on disk
  missed,     \* connections that failed in the last run
  contended,  \* the last save met another one or failed
  restored    \* <<asked, landed>> of every restore

managerVars == <<settings, lastRun, lastOK, running>>
diskVars == <<stateFile, tmp>>
runVars  == <<keep, stamp, left, todo, cur, failed, missed, runs>>
saveVars == <<out, fd, contended>>
envVars  == <<now, crashes, lost>>
vars == <<managerVars, diskVars, files, pc, runVars, saveVars, envVars, configured, restored>>

Memory == [settings |-> settings, lastRun |-> lastRun, ok |-> lastOK]
Fresh == [settings |-> Default, lastRun |-> None, ok |-> TRUE]

(* Numbers that are not positive are replaced.                             *)
Normal(c) ==
  [c EXCEPT !.interval = IF @ = 0 THEN Default.interval ELSE @,
            !.keep = IF @ = 0 THEN Default.keep ELSE @]

(* newBackupManager: a file that cannot be read is ignored.                *)
Loaded(f) == IF f \in Unreadable THEN Fresh ELSE [f EXCEPT !.settings = Normal(@)]

InRun == {"work", "write", "finish", "open", "put", "rename", "reset"}
InSave == {"open", "put", "rename"}

TypeOK ==
  /\ settings \in Config /\ lastRun \in Times \cup {None} /\ lastOK \in BOOLEAN
  /\ running \in BOOLEAN
  /\ \A f \in {stateFile, tmp} : f \in Unreadable \/ f \in State
  /\ DOMAIN files \subseteq Paths /\ \A p \in DOMAIN files : files[p] \in Dumps
  /\ pc \in [Actors -> {"start", "idle", "call", "done"} \cup InRun]
  /\ keep \in [Actors -> Nat] /\ stamp \in [Actors -> Nat] /\ runs \in Nat
  /\ left \in [Actors -> SUBSET Conns] /\ todo \in [Actors -> SUBSET Tables]
  /\ cur \in [Actors -> Tables \cup {None}]
  /\ failed \in [Actors -> BOOLEAN]
  /\ out \in [Actors -> State] /\ fd \in [Actors -> {"none", "tmp", "state", "gone"}]
  /\ now \in Times /\ crashes \in 0..MaxCrashes
  /\ configured \in Config /\ lost \in BOOLEAN
  /\ missed \subseteq Conns /\ contended \in BOOLEAN
  /\ restored \subseteq (Names \cup {None}) \X Names

Init ==
  /\ settings = Default /\ lastRun = None /\ lastOK = TRUE /\ running = FALSE
  /\ stateFile = Absent /\ tmp = Absent
  /\ files = [p \in {} |-> None]
  /\ pc = [a \in Actors |-> IF a = Scheduler THEN "idle" ELSE "start"]
  /\ keep = [a \in Actors |-> 0]
  /\ stamp = [a \in Actors |-> 0]
  /\ left = [a \in Actors |-> {}]
  /\ todo = [a \in Actors |-> {}]
  /\ cur = [a \in Actors |-> None]
  /\ failed = [a \in Actors |-> FALSE]
  /\ out = [a \in Actors |-> Fresh]
  /\ fd = [a \in Actors |-> "none"]
  /\ now = 0 /\ runs = 0 /\ crashes = 0
  /\ configured = Default /\ lost = FALSE /\ missed = {} /\ contended = FALSE /\ restored = {}

Go(a, x) == pc' = [pc EXCEPT ![a] = x]

----------------------------------------------------------------------------
(* The scheduler and the run handler *)

Due == settings.enabled /\ (lastRun # None => now - lastRun >= settings.interval)

Tick ==
  /\ pc[Scheduler] = "idle"
  /\ Due
  /\ Go(Scheduler, "call")
  /\ UNCHANGED <<managerVars, diskVars, files, runVars, saveVars, envVars, configured, restored>>

RunNow(c) ==
  /\ pc[c] = "start"
  /\ Go(c, "call")
  /\ UNCHANGED <<managerVars, diskVars, files, runVars, saveVars, envVars, configured, restored>>

(* "backup is already running"                                             *)
Refuse(a) ==
  /\ pc[a] = "call"
  /\ running
  /\ Go(a, IF a = Scheduler THEN "idle" ELSE "done")
  /\ UNCHANGED <<managerVars, diskVars, files, runVars, saveVars, envVars, configured, restored>>

Begin(a) ==
  /\ pc[a] = "call"
  /\ ~running
  /\ running' = TRUE
  /\ runs' = runs + 1
  /\ stamp' = [stamp EXCEPT ![a] = runs + 1]
  /\ keep' = [keep EXCEPT ![a] = settings.keep]
  /\ left' = [left EXCEPT ![a] = Conns]
  /\ failed' = [failed EXCEPT ![a] = FALSE]
  /\ missed' = {}
  /\ Go(a, "work")
  /\ UNCHANGED <<settings, lastRun, lastOK, diskVars, files, todo, cur, saveVars, envVars, configured,
                 restored>>

(* The directory cannot be made: nothing is dumped and nothing is deleted. *)
NoDirectory(a) ==
  /\ pc[a] = "work"
  /\ left[a] = Conns
  /\ todo[a] = {}
  /\ failed' = [failed EXCEPT ![a] = TRUE]
  /\ missed' = Conns
  /\ Go(a, "finish")
  /\ UNCHANGED <<managerVars, diskVars, files, keep, stamp, left, todo, cur, runs, saveVars, envVars,
                 configured, restored>>

(* The databases of a connection are listed. An error between the rows is  *)
(* not looked at: some may be missing.                                     *)
ListDatabases(a) ==
  /\ pc[a] = "work"
  /\ todo[a] = {}
  /\ \E c \in left[a] :
       /\ left' = [left EXCEPT ![a] = @ \ {c}]
       /\ \E S \in SUBSET Databases[c] : todo' = [todo EXCEPT ![a] = {c} \X S]
  /\ UNCHANGED <<managerVars, diskVars, files, pc, keep, stamp, cur, failed, missed, runs, saveVars,
                 envVars, configured, restored>>

(* No pool, no list or no directory for a connection.                      *)
ConnFails(a) ==
  /\ pc[a] = "work"
  /\ todo[a] = {}
  /\ \E c \in left[a] : left' = [left EXCEPT ![a] = @ \ {c}] /\ missed' = missed \cup {c}
  /\ failed' = [failed EXCEPT ![a] = TRUE]
  /\ UNCHANGED <<managerVars, diskVars, files, pc, keep, stamp, todo, cur, runs, saveVars, envVars,
                 configured, restored>>

DumpPath(a, t) == [conn |-> t[1], part |-> FilePart[t[2]], run |-> stamp[a]]

(* os.Create: a dump of the same name is truncated.                        *)
CreateDump(a) ==
  /\ pc[a] = "work"
  /\ \E t \in todo[a] :
       /\ files' = [p \in DOMAIN files \cup {DumpPath(a, t)} |->
                      IF p = DumpPath(a, t) THEN [name |-> t[2], at |-> now]
                                            ELSE files[p]]
       /\ cur' = [cur EXCEPT ![a] = t]
       /\ todo' = [todo EXCEPT ![a] = @ \ {t}]
  /\ Go(a, "write")
  /\ UNCHANGED <<managerVars, diskVars, keep, stamp, left, failed, missed, runs, saveVars, envVars,
                 configured, restored>>

(* Queries of writeDatabaseDump may fail: that is not reported. The file   *)
(* may have been deleted under the writer.                                 *)
EndDump(a) ==
  /\ pc[a] = "write"
  /\ files' = [p \in DOMAIN files |->
                 IF p = DumpPath(a, cur[a]) THEN [files[p] EXCEPT !.at = now] ELSE files[p]]
  /\ cur' = [cur EXCEPT ![a] = None]
  /\ Go(a, "work")
  /\ UNCHANGED <<managerVars, diskVars, keep, stamp, left, todo, failed, missed, runs, saveVars, envVars,
                 configured, restored>>

(* Mutant of DumpFails: only the first file of a run counts.               *)
DumpErrorLost(a) ==
  /\ pc[a] \in {"work", "write"}
  /\ IF pc[a] = "work" THEN \E t \in todo[a] : todo' = [todo EXCEPT ![a] = @ \ {t}] /\ missed' = missed \cup {t[1]}
                       ELSE todo' = todo /\ missed' = missed \cup {cur[a][1]}
  /\ failed' = [failed EXCEPT ![a] = left[a] # {}]
  /\ cur' = [cur EXCEPT ![a] = None]
  /\ Go(a, "work")
  /\ UNCHANGED <<managerVars, diskVars, files, keep, stamp, left, runs, saveVars, envVars, configured,
                 restored>>

(* The file cannot be created, or its first or last lines not be written.  *)
DumpFails(a) ==
  /\ \/ /\ pc[a] = "work"
        /\ \E t \in todo[a] : todo' = [todo EXCEPT ![a] = @ \ {t}] /\ missed' = missed \cup {t[1]}
     \/ /\ pc[a] = "write"
        /\ missed' = missed \cup {cur[a][1]}
        /\ todo' = todo
  /\ failed' = [failed EXCEPT ![a] = TRUE]
  /\ cur' = [cur EXCEPT ![a] = None]
  /\ Go(a, "work")
  /\ UNCHANGED <<managerVars, diskVars, files, keep, stamp, left, runs, saveVars, envVars, configured,
                 restored>>

(* Mutant of Cleanup: the retention is one less.                           *)
CleanupEarly(a) ==
  /\ pc[a] = "work"
  /\ left[a] = {} /\ todo[a] = {}
  /\ files' = [p \in {q \in DOMAIN files : now - files[q].at < keep[a] - 1} |-> files[p]]
  /\ Go(a, "finish")
  /\ UNCHANGED <<managerVars, diskVars, runVars, saveVars, envVars, configured, restored>>

(* The retention. The unit is coarse: at the boundary both may happen.      *)
Cleanup(a) ==
  /\ pc[a] = "work"
  /\ left[a] = {} /\ todo[a] = {}
  /\ LET expired(n) == {p \in DOMAIN files : now - files[p].at >= n}
     IN  \E gone \in {expired(keep[a]), expired(keep[a] + 1)} :
           files' = [p \in DOMAIN files \ gone |-> files[p]]
  /\ Go(a, "finish")
  /\ UNCHANGED <<managerVars, diskVars, runVars, saveVars, envVars, configured, restored>>

----------------------------------------------------------------------------
(* The state file *)

Saving(a) == pc[a] \in InSave

(* A copy of the state is taken under the lock and saved after it.         *)
Copy(a, state) ==
  /\ out' = [out EXCEPT ![a] = state]
  /\ contended' = \E b \in Actors \ {a} : Saving(b)
  /\ Go(a, "open")

(* Mutant of Finish: the file gets the settings the run began with.        *)
FinishSavesItsOwn(a) ==
  /\ pc[a] = "finish"
  /\ lastRun' = now
  /\ lastOK' = ~failed[a]
  /\ Copy(a, [settings |-> [settings EXCEPT !.keep = keep[a]], lastRun |-> now, ok |-> ~failed[a]])
  /\ UNCHANGED <<settings, running, diskVars, files, runVars, fd, envVars, configured, restored>>

Finish(a) ==
  /\ pc[a] = "finish"
  /\ lastRun' = now
  /\ lastOK' = ~failed[a]
  /\ Copy(a, [settings |-> settings, lastRun |-> now, ok |-> ~failed[a]])
  /\ UNCHANGED <<settings, running, diskVars, files, runVars, fd, envVars, configured, restored>>

Configure(c) ==
  /\ pc[c] = "start"
  /\ \E input \in Inputs :
       /\ settings' = Normal(input)
       /\ configured' = Normal(input)
       /\ Copy(c, [Memory EXCEPT !.settings = Normal(input)])
  /\ lost' = FALSE
  /\ UNCHANGED <<lastRun, lastOK, running, diskVars, files, runVars, fd, now, crashes, restored>>

(* WriteFile opens and truncates the temporary file, which may be the one  *)
(* another writer has open ...                                             *)
OpenTmp(a) ==
  /\ pc[a] = "open"
  /\ tmp' = Cut
  /\ fd' = [fd EXCEPT ![a] = "tmp"]
  /\ Go(a, "put")
  /\ UNCHANGED <<managerVars, stateFile, files, runVars, out, contended, envVars, configured, restored>>

(* ... and writes from its beginning, whatever it has become.              *)
Written(old, new) == IF old = Cut THEN {new} ELSE {new, Torn}

PutState(a) ==
  /\ pc[a] = "put"
  /\ IF fd[a] = "tmp" THEN tmp' \in Written(tmp, out[a]) ELSE tmp' = tmp
  /\ IF fd[a] = "state" THEN stateFile' \in Written(stateFile, out[a]) ELSE stateFile' = stateFile
  /\ Go(a, "rename")
  /\ UNCHANGED <<managerVars, files, runVars, saveVars, envVars, configured, restored>>

SaveReturns(a) ==
  /\ out' = [out EXCEPT ![a] = Fresh]
  /\ Go(a, IF stamp[a] = 0 THEN "done" ELSE "reset")

RenameTmp(a) ==
  /\ pc[a] = "rename"
  /\ tmp # Absent
  /\ stateFile' = tmp
  /\ tmp' = Absent
  /\ fd' = [b \in Actors |-> CASE b = a -> "none"
                               [] b # a /\ fd[b] = "tmp" -> "state"
                               [] b # a /\ fd[b] = "state" -> "gone"
                               [] OTHER -> fd[b]]
  /\ SaveReturns(a)
  /\ UNCHANGED <<managerVars, files, runVars, contended, envVars, configured, restored>>

(* The disk is full, or another writer has renamed the file. A run ignores *)
(* the error.                                                              *)
SaveFails(a) ==
  /\ Saving(a)
  /\ contended' = TRUE
  /\ fd' = [fd EXCEPT ![a] = "none"]
  /\ SaveReturns(a)
  /\ UNCHANGED <<managerVars, diskVars, files, runVars, envVars, configured, restored>>

(* The local variables of a run that ends.                                 *)
Forget(a) ==
  /\ stamp' = [stamp EXCEPT ![a] = 0]
  /\ keep' = [keep EXCEPT ![a] = 0]
  /\ left' = [left EXCEPT ![a] = {}]
  /\ failed' = [failed EXCEPT ![a] = FALSE]

(* Mutant of Reset: a run of a client does not clear the flag.             *)
ResetByScheduler(a) ==
  /\ pc[a] = "reset"
  /\ running' = (a # Scheduler)
  /\ Forget(a)
  /\ Go(a, IF a = Scheduler THEN "idle" ELSE "done")
  /\ UNCHANGED <<settings, lastRun, lastOK, diskVars, files, todo, cur, missed, runs, saveVars, envVars,
                 configured, restored>>

(* The deferred end of a run.                                              *)
Reset(a) ==
  /\ pc[a] = "reset"
  /\ running' = FALSE
  /\ Forget(a)
  /\ Go(a, IF a = Scheduler THEN "idle" ELSE "done")
  /\ UNCHANGED <<settings, lastRun, lastOK, diskVars, files, todo, cur, missed, runs, saveVars, envVars,
                 configured, restored>>

----------------------------------------------------------------------------
(* The file manager *)

DeleteFile(c) ==
  /\ pc[c] = "start"
  /\ \E p \in DOMAIN files : files' = [q \in DOMAIN files \ {p} |-> files[q]]
  /\ Go(c, "done")
  /\ UNCHANGED <<managerVars, diskVars, runVars, saveVars, envVars, configured, restored>>

(* The name in the file is replaced where it is the one of the file name.  *)
RewrittenTo(p, target) ==
  IF target # None /\ target # p.part /\ files[p].name = p.part THEN target ELSE files[p].name

RestoreFile(c) ==
  /\ pc[c] = "start"
  /\ \E p \in DOMAIN files, target \in Names \cup {None} :
       restored' = restored \cup {<<target, RewrittenTo(p, target)>>}
  /\ Go(c, "done")
  /\ UNCHANGED <<managerVars, diskVars, files, runVars, saveVars, envVars, configured>>

----------------------------------------------------------------------------
TimePasses ==
  /\ now < Horizon
  /\ \A a \in Actors : stamp[a] = 0
  /\ now' = now + 1
  /\ UNCHANGED <<managerVars, diskVars, files, pc, runVars, saveVars, crashes, lost, configured, restored>>

(* The process ends at any moment, also during a shutdown, which does not  *)
(* wait for the scheduler, and is started again.                           *)
Crash ==
  /\ crashes < MaxCrashes
  /\ crashes' = crashes + 1
  /\ settings' = Loaded(stateFile).settings
  /\ lastRun' = Loaded(stateFile).lastRun
  /\ lastOK' = Loaded(stateFile).ok
  /\ lost' = (lost \/ contended \/ \E a \in Actors : Saving(a))
  /\ running' = FALSE
  /\ pc' = [a \in Actors |-> IF a = Scheduler THEN "idle"
                              ELSE IF pc[a] = "start" THEN "start" ELSE "done"]
  /\ stamp' = [a \in Actors |-> 0] /\ keep' = [a \in Actors |-> 0]
  /\ left' = [a \in Actors |-> {}] /\ todo' = [a \in Actors |-> {}]
  /\ cur' = [a \in Actors |-> None] /\ failed' = [a \in Actors |-> FALSE]
  /\ fd' = [a \in Actors |-> "none"] /\ out' = [a \in Actors |-> Fresh]
  /\ contended' = FALSE
  /\ missed' = {}
  /\ UNCHANGED <<diskVars, files, runs, now, configured, restored>>

Run(a) ==
  \/ Refuse(a) \/ Begin(a) \/ NoDirectory(a) \/ ListDatabases(a) \/ ConnFails(a)
  \/ CreateDump(a) \/ EndDump(a) \/ DumpFails(a) \/ Cleanup(a) \/ Finish(a) \/ Reset(a)
Save(a) == OpenTmp(a) \/ PutState(a) \/ RenameTmp(a) \/ SaveFails(a)
Request(c) == RunNow(c) \/ Configure(c) \/ DeleteFile(c) \/ RestoreFile(c)

Next ==
  \/ Tick
  \/ \E a \in Actors : Run(a) \/ Save(a)
  \/ \E c \in Clients : Request(c)
  \/ TimePasses
  \/ Crash

Fairness == WF_vars(Tick) /\ \A a \in Actors : WF_vars(Run(a)) /\ WF_vars(Save(a))

Spec == Init /\ [][Next]_vars /\ Fairness

----------------------------------------------------------------------------
(* Safety *)

(* There is one run at a time, and the flag is set exactly as long: no     *)
(* failure and no early return leaves it behind.                           *)
OneRun ==
  /\ running <=> \E a \in Actors : stamp[a] # 0
  /\ \A a, b \in Actors : stamp[a] # 0 /\ stamp[b] # 0 => a = b

(* Settings stay as they were submitted last: neither a run that works     *)
(* with older ones, nor what it saves when it ends, nor a restart undoes   *)
(* them. Excepted is a process that ended while a state was being saved,   *)
(* or after a last save that failed or met another one.                    *)
SettingsStay == ~lost => settings = configured

(* When nobody saves, the file holds what is in memory, unless the last    *)
(* save met another one or failed.                                         *)
StateIsSaved ==
  ~contended /\ (\A a \in Actors : ~Saving(a)) => Loaded(stateFile) = Memory

(* The last run reports an error if a connection or a file of it failed,   *)
(* whatever succeeded after.                                               *)
FailureIsReported == lastRun # None /\ lastOK /\ ~running => missed = {}

(* The retention never takes a dump of the run that just made it.          *)
RunKeepsItsDumps ==
  [][\A a \in Actors, p \in DOMAIN files :
       pc[a] = "work" /\ pc'[a] = "finish" /\ p.run = stamp[a] => p \in DOMAIN files']_vars

----------------------------------------------------------------------------
(* The inductive invariant, which BackupManager_proofs establishes *)

Working(a) == pc[a] \in {"work", "write", "finish"}

(* What the place of an actor says of its run.                             *)
PlaceOK(a) ==
  /\ pc[a] \in {"start", "idle", "call", "done"} => stamp[a] = 0
  /\ Working(a) \/ pc[a] = "reset" => stamp[a] # 0
  /\ pc[a] = "write" => cur[a] \in Tables
  /\ stamp[a] # 0 => keep[a] > 0
  /\ stamp[a] <= runs
PlaceInv == \A a \in Actors : PlaceOK(a)

(* The files of the run in progress are new.                               *)
FilesInv ==
  \A p \in DOMAIN files :
    /\ p.run <= runs
    /\ \A a \in Actors : stamp[a] # 0 /\ p.run = stamp[a] => files[p].at = now

(* A failure is in failed until Finish, and in lastOK after it.            *)
FailOK(a) ==
  stamp[a] # 0 /\ missed # {} => IF Working(a) THEN failed[a] ELSE ~lastOK
FailInv == FailureIsReported /\ \A a \in Actors : FailOK(a)

(* An undisturbed save is of what is in memory.                            *)
SaveOK(a) ==
  /\ Saving(a) =>
       /\ out[a] = Memory
       /\ \A b \in Actors \ {a} : ~Saving(b)
  /\ pc[a] = "put" => fd[a] = "tmp" /\ tmp = Cut
  /\ pc[a] = "rename" => tmp = out[a]
SaveInv ==
  /\ StateIsSaved
  /\ ~contended => \A a \in Actors : SaveOK(a)

(* A restart without loss finds the settings, because the file has them.   *)
IInv == TypeOK /\ OneRun /\ PlaceInv /\ FilesInv /\ FailInv /\ SaveInv /\ SettingsStay

----------------------------------------------------------------------------
(* Liveness *)

(* A backup that is due is made.                                           *)
DueIsRun == Due ~> ~Due

----------------------------------------------------------------------------
(* Statements that the code does not keep *)

(* The save that returns last leaves the submitted settings in the file: a *)
(* run that copied the state before they were submitted renames its older  *)
(* copy over theirs, and the next start undoes them.                       *)
SavedIsConfigured ==
  [][\A a \in Actors :
       RenameTmp(a) /\ (\A b \in Actors \ {a} : ~Saving(b))
         => Loaded(stateFile').settings = configured]_vars

(* "the dump lands where the user asked"                                   *)
RestoreLandsWhereAsked == \A x \in restored : x[1] # None => x[2] = x[1]
=============================================================================
