------------------------ MODULE BackupManager_proofs ------------------------
(***************************************************************************)
(* Proofs about BackupManager: its safety for any requests, connections,   *)
(* databases, settings, time and number of crashes.                        *)
(***************************************************************************)
EXTENDS BackupManager, TLAPS

(* Normal makes any input a configuration and keeps one that is.           *)
LEMMA NormalSettings ==
  ASSUME NEW c \in Input
  PROVE  Normal(c) \in Config /\ (c \in Config => Normal(c) = c)
<1> DEFINE i == IF c.interval = 0 THEN Default.interval ELSE c.interval
           k == IF c.keep = 0 THEN Default.keep ELSE c.keep
<1>1. i \in Nat /\ i > 0 /\ k \in Nat /\ k > 0
  BY SettingsAssumption DEF Config, Input
<1>2. Normal(c) = [c EXCEPT !.interval = i, !.keep = k]
  BY DEF Normal, Input
<1>3. Normal(c) = [enabled |-> c.enabled, interval |-> i, keep |-> k]
  BY <1>2 DEF Input
<1>4. Normal(c) \in Config
  BY <1>1, <1>3 DEF Config, Input
<1>5. ASSUME c \in Config PROVE Normal(c) = c
  <2>1. i = c.interval /\ k = c.keep
    BY <1>5 DEF Config, Input
  <2>. QED
    BY <1>3, <2>1 DEF Input
<1>. QED
  BY <1>4, <1>5

(* A file that was loaded is a state; a saved state is loaded as it is.    *)
LEMMA LoadedState ==
  /\ \A f : f \in Unreadable \/ f \in State => Loaded(f) \in State
  /\ \A f \in State : Loaded(f) = f
<1>1. Fresh \in State
  BY SettingsAssumption DEF Fresh, State
<1>2. ASSUME NEW f \in State PROVE Loaded(f) = f
  <2>1. f \notin Unreadable /\ f.settings \in Config /\ f.settings \in Input
    BY UnreadableAssumption DEF State, Config
  <2>2. Normal(f.settings) = f.settings
    BY <2>1, NormalSettings
  <2>. QED
    BY <2>1, <2>2 DEF Loaded, State
<1>. QED
  BY <1>1, <1>2 DEF Loaded

LEMMA MemoryState == TypeOK => Memory \in State
BY DEF TypeOK, Memory, State

(* Type correctness; one step per action.                                  *)
LEMMA TypeStep == TypeOK /\ PlaceInv /\ [Next]_vars => TypeOK'
<1> SUFFICES ASSUME TypeOK, PlaceInv, [Next]_vars PROVE TypeOK'
  OBVIOUS
<1> USE NamesAssumption, BoundsAssumption
    DEF TypeOK, Go, managerVars, diskVars, runVars, saveVars, envVars, InRun
<1>a. Memory \in State /\ Fresh \in State
  BY MemoryState, SettingsAssumption DEF Fresh, State
<1>b. {Absent, Cut, Torn} \subseteq Unreadable
  BY DEF Unreadable
<1>1. CASE Tick
  BY <1>1 DEF Tick, Actors
<1>2. ASSUME NEW a \in Actors, Refuse(a) PROVE TypeOK'
  BY <1>2 DEF Refuse
<1>3. ASSUME NEW a \in Actors, Begin(a) PROVE TypeOK'
  BY <1>3 DEF Begin, Config, Input
<1>4. ASSUME NEW a \in Actors, NoDirectory(a) PROVE TypeOK'
  BY <1>4 DEF NoDirectory
<1>5. ASSUME NEW a \in Actors, ListDatabases(a) PROVE TypeOK'
  <2>1. PICK c \in left[a] :
          /\ left' = [left EXCEPT ![a] = @ \ {c}]
          /\ \E S \in SUBSET Databases[c] : todo' = [todo EXCEPT ![a] = {c} \X S]
    BY <1>5 DEF ListDatabases
  <2>2. \A S \in SUBSET Databases[c] : {c} \X S \subseteq Tables
    BY DatabasesAssumption DEF Tables, Conns
  <2>. QED
    BY <1>5, <2>1, <2>2 DEF ListDatabases
<1>6. ASSUME NEW a \in Actors, ConnFails(a) PROVE TypeOK'
  BY <1>6 DEF ConnFails
<1>7. ASSUME NEW a \in Actors, CreateDump(a) PROVE TypeOK'
  <2>1. PICK t \in todo[a] :
          /\ files' = [p \in DOMAIN files \cup {DumpPath(a, t)} |->
                         IF p = DumpPath(a, t) THEN [name |-> t[2], at |-> now] ELSE files[p]]
          /\ cur' = [cur EXCEPT ![a] = t] /\ todo' = [todo EXCEPT ![a] = @ \ {t}]
    BY <1>7 DEF CreateDump
  <2>2. t \in Tables /\ t[1] \in Conns /\ t[2] \in Names
    BY DEF Tables
  <2>3. DumpPath(a, t) \in Paths /\ [name |-> t[2], at |-> now] \in Dumps
    BY <2>2, FilePartAssumption DEF DumpPath, Paths, Dumps
  <2>4. DOMAIN files' \subseteq Paths /\ \A p \in DOMAIN files' : files'[p] \in Dumps
    BY <2>1, <2>3
  <2>. QED
    BY <1>7, <2>1, <2>2, <2>4 DEF CreateDump
<1>8. ASSUME NEW a \in Actors, EndDump(a) PROVE TypeOK'
  <2>1. \A p \in DOMAIN files : [files[p] EXCEPT !.at = now] \in Dumps
    BY DEF Dumps
  <2>. QED
    BY <1>8, <2>1 DEF EndDump
<1>9. ASSUME NEW a \in Actors, DumpFails(a) PROVE TypeOK'
  <2>1. \A t \in Tables : t[1] \in Conns
    BY DEF Tables
  <2>2. pc[a] = "write" => cur[a][1] \in Conns
    BY <2>1 DEF PlaceInv, PlaceOK
  <2>3. missed' \subseteq Conns /\ todo' \in [Actors -> SUBSET Tables]
    BY <1>9, <2>1, <2>2 DEF DumpFails
  <2>. QED
    BY <1>9, <2>3 DEF DumpFails
<1>10. ASSUME NEW a \in Actors, Cleanup(a) PROVE TypeOK'
  BY <1>10 DEF Cleanup
<1>11. ASSUME NEW a \in Actors, Finish(a) PROVE TypeOK'
  BY <1>11 DEF Finish, Copy, State
<1>12. ASSUME NEW a \in Actors, Reset(a) PROVE TypeOK'
  BY <1>12 DEF Reset, Forget
<1>13. ASSUME NEW a \in Actors, OpenTmp(a) PROVE TypeOK'
  BY <1>13, <1>b DEF OpenTmp
<1>14. ASSUME NEW a \in Actors, PutState(a) PROVE TypeOK'
  BY <1>14, <1>b DEF PutState, Written
<1>15. ASSUME NEW a \in Actors, RenameTmp(a) PROVE TypeOK'
  BY <1>15, <1>a, <1>b DEF RenameTmp, SaveReturns
<1>16. ASSUME NEW a \in Actors, SaveFails(a) PROVE TypeOK'
  BY <1>16, <1>a DEF SaveFails, SaveReturns
<1>17. ASSUME NEW c \in Clients, RunNow(c) PROVE TypeOK'
  BY <1>17 DEF RunNow, Actors
<1>18. ASSUME NEW c \in Clients, Configure(c) PROVE TypeOK'
  <2>1. PICK input \in Inputs :
          /\ settings' = Normal(input) /\ configured' = Normal(input)
          /\ Copy(c, [Memory EXCEPT !.settings = Normal(input)])
    BY <1>18 DEF Configure
  <2>2. Normal(input) \in Config
    BY NormalSettings, SettingsAssumption
  <2>3. [Memory EXCEPT !.settings = Normal(input)] \in State
    BY <2>2, <1>a DEF State
  <2>. QED
    BY <1>18, <2>1, <2>2, <2>3 DEF Configure, Copy, Actors
<1>19. ASSUME NEW c \in Clients, DeleteFile(c) PROVE TypeOK'
  BY <1>19 DEF DeleteFile, Actors
<1>20. ASSUME NEW c \in Clients, RestoreFile(c) PROVE TypeOK'
  <2>1. \A p \in DOMAIN files, target \in Names \cup {None} :
          <<target, RewrittenTo(p, target)>> \in (Names \cup {None}) \X Names
    BY DEF RewrittenTo, Dumps
  <2>. QED
    BY <1>20, <2>1 DEF RestoreFile, Actors
<1>21. CASE TimePasses
  <2>1. \A p \in DOMAIN files : files[p] \in Dumps
    OBVIOUS
  <2>. QED
    BY <1>21 DEF TimePasses, Times
<1>22. CASE Crash
  <2>1. Loaded(stateFile) \in State
    BY LoadedState
  <2>2. /\ Loaded(stateFile).settings \in Config
        /\ Loaded(stateFile).lastRun \in Times \cup {None}
        /\ Loaded(stateFile).ok \in BOOLEAN
    BY <2>1 DEF State
  <2>3. /\ settings' \in Config /\ lastRun' \in Times \cup {None} /\ lastOK' \in BOOLEAN
        /\ configured' \in Config /\ lost' \in BOOLEAN /\ missed' \subseteq Conns /\ crashes' \in 0..MaxCrashes
    BY <1>22, <2>2 DEF Crash
  <2>4. /\ pc' \in [Actors -> {"start", "idle", "call", "done"} \cup InRun]
        /\ keep' \in [Actors -> Nat] /\ stamp' \in [Actors -> Nat]
        /\ left' \in [Actors -> SUBSET Conns] /\ todo' \in [Actors -> SUBSET Tables]
        /\ cur' \in [Actors -> Tables \cup {None}] /\ failed' \in [Actors -> BOOLEAN]
    BY <1>22 DEF Crash
  <2>5. out' \in [Actors -> State] /\ fd' \in [Actors -> {"none", "tmp", "state", "gone"}]
    BY <1>22, <1>a DEF Crash
  <2>. QED
    BY <1>22, <2>3, <2>4, <2>5 DEF Crash
<1>23. CASE UNCHANGED vars
  BY <1>23 DEF vars
<1>. QED
  BY <1>1, <1>2, <1>3, <1>4, <1>5, <1>6, <1>7, <1>8, <1>9, <1>10, <1>11, <1>12, <1>13, <1>14, <1>15,
     <1>16, <1>17, <1>18, <1>19, <1>20, <1>21, <1>22, <1>23 DEF Next, Run, Save, Request

(* Every step is one of these: steps of a run, steps of a save, requests   *)
(* that work at once, and the environment.                                 *)
LEMMA PlaceStep == TypeOK /\ PlaceInv /\ [Next]_vars => PlaceInv'
<1> SUFFICES ASSUME TypeOK, PlaceInv, [Next]_vars PROVE PlaceInv'
  OBVIOUS
<1>. USE DEF Go, runVars, PlaceInv, PlaceOK, Working
<1>t. pc \in [Actors -> {"start", "idle", "call", "done"} \cup InRun] /\ runs \in Nat
      /\ keep \in [Actors -> Nat] /\ stamp \in [Actors -> Nat] /\ cur \in [Actors -> Tables \cup {None}]
      /\ todo \in [Actors -> SUBSET Tables] /\ settings \in Config
  BY DEF TypeOK
<1>1. CASE Tick \/ \E c \in Clients : RunNow(c) \/ DeleteFile(c) \/ RestoreFile(c)
  BY <1>1, <1>t DEF Tick, RunNow, DeleteFile, RestoreFile
<1>2. ASSUME NEW a \in Actors, Refuse(a) \/ NoDirectory(a) \/ ListDatabases(a) \/ ConnFails(a) \/ Cleanup(a)
      PROVE  PlaceInv'
  BY <1>2, <1>t DEF Refuse, NoDirectory, ListDatabases, ConnFails, Cleanup
<1>3. ASSUME NEW a \in Actors, Begin(a) PROVE PlaceInv'
  BY <1>3, <1>t DEF Begin, Config, Input
<1>4. ASSUME NEW a \in Actors, CreateDump(a) PROVE PlaceInv'
  BY <1>4, <1>t DEF CreateDump
<1>5. ASSUME NEW a \in Actors, EndDump(a) \/ DumpFails(a) PROVE PlaceInv'
  BY <1>5, <1>t DEF EndDump, DumpFails
<1>6. ASSUME NEW a \in Actors, Finish(a) PROVE PlaceInv'
  BY <1>6, <1>t DEF Finish, Copy
<1>7. ASSUME NEW a \in Actors, Reset(a) PROVE PlaceInv'
  BY <1>7, <1>t DEF Reset, Forget
<1>8. ASSUME NEW a \in Actors, Save(a) PROVE PlaceInv'
  BY <1>8, <1>t DEF Save, OpenTmp, PutState, RenameTmp, SaveFails, SaveReturns
<1>9. ASSUME NEW c \in Clients, Configure(c) PROVE PlaceInv'
  BY <1>9, <1>t DEF Configure, Copy
<1>10. CASE TimePasses \/ UNCHANGED vars
  BY <1>10 DEF TimePasses, vars
<1>11. CASE Crash
  BY <1>11, <1>t DEF Crash
<1>. QED
  BY <1>1, <1>2, <1>3, <1>4, <1>5, <1>6, <1>7, <1>8, <1>9, <1>10, <1>11 DEF Next, Run, Request

(* Only Begin, Reset and a crash touch the flag and the stamps.            *)
LEMMA StampsStay ==
  ASSUME [Next]_vars, ~Crash, \A a \in Actors : ~Begin(a) /\ ~Reset(a)
  PROVE  UNCHANGED <<running, stamp, runs, keep>>
BY DEF Next, Run, Save, Request, vars, managerVars, runVars, Tick, RunNow, DeleteFile, RestoreFile, Refuse,
       NoDirectory, ListDatabases, ConnFails, Cleanup, CreateDump, EndDump, DumpFails, Finish, OpenTmp,
       PutState, RenameTmp, SaveFails, Configure, TimePasses

LEMMA OneRunStep == TypeOK /\ PlaceInv /\ OneRun /\ [Next]_vars => OneRun'
<1> SUFFICES ASSUME TypeOK, PlaceInv, OneRun, [Next]_vars PROVE OneRun'
  OBVIOUS
<1>t. stamp \in [Actors -> Nat] /\ runs \in Nat
  BY DEF TypeOK
<1>1. ASSUME NEW a \in Actors, Begin(a) PROVE OneRun'
  BY <1>1, <1>t DEF Begin, OneRun
<1>2. ASSUME NEW a \in Actors, Reset(a) PROVE OneRun'
  <2>1. stamp[a] # 0
    BY <1>2 DEF Reset, PlaceInv, PlaceOK
  <2>. QED
    BY <1>2, <1>t, <2>1 DEF Reset, Forget, OneRun
<1>3. CASE Crash
  BY <1>3 DEF Crash, OneRun
<1>4. CASE UNCHANGED <<running, stamp, runs, keep>>
  BY <1>4 DEF OneRun
<1>. QED
  BY <1>1, <1>2, <1>3, <1>4, StampsStay

LEMMA FilesStep == TypeOK /\ PlaceInv /\ FilesInv /\ [Next]_vars => FilesInv'
<1> SUFFICES ASSUME TypeOK, PlaceInv, FilesInv, [Next]_vars PROVE FilesInv'
  OBVIOUS
<1>t. /\ stamp \in [Actors -> Nat] /\ runs \in Nat /\ now \in Nat
      /\ \A p \in DOMAIN files : p.run \in Nat /\ files[p] \in Dumps
      /\ todo \in [Actors -> SUBSET Tables]
  BY BoundsAssumption DEF TypeOK, Paths, Times
<1>p. \A a \in Actors : stamp[a] <= runs
  BY DEF PlaceInv, PlaceOK
<1>1. ASSUME NEW a \in Actors, Begin(a) PROVE FilesInv'
  <2>1. /\ runs' = runs + 1 /\ stamp' = [stamp EXCEPT ![a] = runs + 1]
        /\ files' = files /\ now' = now
    BY <1>1 DEF Begin, envVars
  <2>. QED
    BY <1>t, <2>1 DEF FilesInv
<1>2. ASSUME NEW a \in Actors, CreateDump(a) PROVE FilesInv'
  <2>1. PICK t \in todo[a] :
          files' = [p \in DOMAIN files \cup {DumpPath(a, t)} |->
                      IF p = DumpPath(a, t) THEN [name |-> t[2], at |-> now] ELSE files[p]]
    BY <1>2 DEF CreateDump
  <2>2. DumpPath(a, t).run = stamp[a]
    BY DEF DumpPath
  <2>3. UNCHANGED <<stamp, runs, now>>
    BY <1>2 DEF CreateDump, envVars
  <2>. QED
    BY <1>t, <1>p, <2>1, <2>2, <2>3 DEF FilesInv
<1>3. ASSUME NEW a \in Actors, EndDump(a) PROVE FilesInv'
  <2>1. /\ DOMAIN files' = DOMAIN files
        /\ \A p \in DOMAIN files : files'[p].at \in {now, files[p].at}
    BY <1>3, <1>t DEF EndDump, Dumps
  <2>2. UNCHANGED <<stamp, runs, now>>
    BY <1>3 DEF EndDump, runVars, envVars
  <2>. QED
    BY <2>1, <2>2 DEF FilesInv
<1>4. ASSUME NEW a \in Actors, Cleanup(a) PROVE FilesInv'
  <2>1. /\ DOMAIN files' \subseteq DOMAIN files /\ \A p \in DOMAIN files' : files'[p] = files[p]
        /\ UNCHANGED <<stamp, runs, now>>
    BY <1>4 DEF Cleanup, runVars, envVars
  <2>. QED
    BY <2>1 DEF FilesInv
<1>5. ASSUME NEW c \in Clients, DeleteFile(c) PROVE FilesInv'
  <2>1. /\ DOMAIN files' \subseteq DOMAIN files /\ \A p \in DOMAIN files' : files'[p] = files[p]
        /\ UNCHANGED <<stamp, runs, now>>
    BY <1>5 DEF DeleteFile, runVars, envVars
  <2>. QED
    BY <2>1 DEF FilesInv
<1>6. CASE TimePasses
  BY <1>6 DEF TimePasses, FilesInv, runVars
<1>7. CASE Crash
  BY <1>7 DEF Crash, FilesInv
<1>8. ASSUME NEW a \in Actors, Reset(a) PROVE FilesInv'
  <2>1. \A b \in Actors : stamp'[b] \in {0, stamp[b]}
    BY <1>8, <1>t DEF Reset, Forget
  <2>. QED
    BY <1>8, <2>1 DEF Reset, FilesInv, envVars
<1>9. CASE UNCHANGED <<files, stamp, runs, now>>
  BY <1>9 DEF FilesInv
<1>10. \/ Crash \/ TimePasses \/ UNCHANGED <<files, stamp, runs, now>>
       \/ \E a \in Actors : Begin(a) \/ CreateDump(a) \/ EndDump(a) \/ Cleanup(a) \/ Reset(a)
       \/ \E c \in Clients : DeleteFile(c)
  BY DEF Next, Run, Save, Request, vars, runVars, envVars, Tick, RunNow, RestoreFile, Refuse, NoDirectory,
         ListDatabases, ConnFails, DumpFails, Finish, OpenTmp, PutState, RenameTmp, SaveFails, Configure
<1>. QED
  BY <1>1, <1>2, <1>3, <1>4, <1>5, <1>6, <1>7, <1>8, <1>9, <1>10

LEMMA FailStep == TypeOK /\ PlaceInv /\ OneRun /\ FailInv /\ [Next]_vars => FailInv'
<1> SUFFICES ASSUME TypeOK, PlaceInv, OneRun, FailInv, [Next]_vars PROVE FailInv'
  OBVIOUS
<1>. USE DEF Go, runVars, managerVars
<1>t. /\ pc \in [Actors -> {"start", "idle", "call", "done"} \cup InRun]
      /\ stamp \in [Actors -> Nat] /\ failed \in [Actors -> BOOLEAN]
      /\ lastOK \in BOOLEAN /\ running \in BOOLEAN
  BY DEF TypeOK
<1>f. FailureIsReported /\ \A b \in Actors : FailOK(b)
  BY DEF FailInv
<1>p. \A b \in Actors : PlaceOK(b)
  BY DEF PlaceInv
<1>r. ASSUME NEW a \in Actors, stamp[a] # 0 PROVE running /\ \A b \in Actors \ {a} : stamp[b] = 0
  BY <1>r DEF OneRun
<1>1. CASE missed' = {}
  BY <1>1 DEF FailInv, FailOK, FailureIsReported
<1>2. ASSUME NEW a \in Actors, NoDirectory(a) \/ ConnFails(a) \/ DumpFails(a) PROVE FailInv'
  <2>1. Working(a) /\ Working(a)' /\ failed'[a] /\ UNCHANGED <<stamp, running>>
    BY <1>2, <1>t DEF NoDirectory, ConnFails, DumpFails, Working
  <2>2. stamp[a] # 0
    BY <2>1, <1>p DEF PlaceOK
  <2>. QED
    BY <2>1, <2>2, <1>r DEF FailInv, FailOK, FailureIsReported
<1>3. ASSUME NEW a \in Actors, Finish(a) PROVE FailInv'
  <2>1. Working(a) /\ ~Working(a)' /\ lastOK' = ~failed[a] /\ UNCHANGED <<stamp, running, missed>>
    BY <1>3, <1>t DEF Finish, Copy, Working
  <2>2. stamp[a] # 0
    BY <2>1, <1>p DEF PlaceOK
  <2>. QED
    BY <2>1, <2>2, <1>r, <1>f DEF FailInv, FailOK, FailureIsReported
<1>4. ASSUME NEW a \in Actors, Reset(a) PROVE FailInv'
  <2>1. /\ stamp[a] # 0 /\ ~Working(a)
        /\ stamp' = [stamp EXCEPT ![a] = 0]
        /\ UNCHANGED <<lastOK, missed, lastRun>>
    BY <1>4, <1>p DEF Reset, Forget, PlaceOK, Working
  <2>2. \A b \in Actors : stamp'[b] = 0
    BY <2>1, <1>t, <1>r
  <2>3. missed # {} => ~lastOK
    BY <2>1, <1>f DEF FailOK
  <2>. QED
    BY <2>1, <2>2, <2>3 DEF FailInv, FailOK, FailureIsReported
<1>5. CASE /\ UNCHANGED <<lastRun, lastOK, running, missed, stamp, failed>>
           /\ \A b \in Actors : stamp[b] # 0 => (Working(b) <=> Working(b)')
  BY <1>5, <1>f DEF FailInv, FailOK, FailureIsReported
<1>6. ASSUME NEW a \in Actors, ListDatabases(a) \/ CreateDump(a) \/ EndDump(a) \/ Cleanup(a) PROVE FailInv'
  BY <1>6, <1>5, <1>t DEF ListDatabases, CreateDump, EndDump, Cleanup, Working
<1>7. ASSUME NEW a \in Actors, Save(a) PROVE FailInv'
  BY <1>7, <1>5, <1>t DEF Save, OpenTmp, PutState, RenameTmp, SaveFails, SaveReturns, Saving, InSave, Working
<1>8. ASSUME NEW a \in Actors, Refuse(a) PROVE FailInv'
  BY <1>8, <1>5, <1>t DEF Refuse, Working
<1>9. ASSUME NEW c \in Clients, Request(c) PROVE FailInv'
  <2>1. c \in Actors
    BY DEF Actors
  <2>2. \A b \in Actors \ {c} : pc'[b] = pc[b]
    BY <1>9, <1>t DEF Request, RunNow, Configure, DeleteFile, RestoreFile, Copy
  <2>3. pc[c] = "start" /\ ~Working(c) /\ ~Working(c)'
    BY <1>9, <1>t, <2>1 DEF Request, RunNow, Configure, DeleteFile, RestoreFile, Copy, Working
  <2>4. \A b \in Actors : Working(b) <=> Working(b)'
    BY <2>2, <2>3 DEF Working
  <2>5. UNCHANGED <<lastRun, lastOK, running, missed, stamp, failed>>
    BY <1>9 DEF Request, RunNow, Configure, DeleteFile, RestoreFile
  <2>. QED
    BY <1>5, <2>4, <2>5
<1>10. CASE Tick \/ TimePasses \/ UNCHANGED vars
  BY <1>10, <1>5, <1>t DEF Tick, TimePasses, vars, Working
<1>11. \/ missed' = {} \/ Tick \/ TimePasses \/ UNCHANGED vars \/ \E c \in Clients : Request(c)
       \/ \E a \in Actors : \/ NoDirectory(a) \/ ConnFails(a) \/ DumpFails(a) \/ Finish(a) \/ Reset(a)
                             \/ ListDatabases(a) \/ CreateDump(a) \/ EndDump(a) \/ Cleanup(a)
                             \/ Save(a) \/ Refuse(a)
  BY DEF Next, Run, Begin, Crash
<1>. QED
  BY <1>1, <1>2, <1>3, <1>4, <1>6, <1>7, <1>8, <1>9, <1>10, <1>11

(* The settings in memory are those submitted last; a restart reads them   *)
(* from a file that SaveInv says is up to date.                            *)
LEMMA SettingsStep == TypeOK /\ SaveInv /\ SettingsStay /\ [Next]_vars => SettingsStay'
<1> SUFFICES ASSUME TypeOK, SaveInv, SettingsStay, [Next]_vars PROVE SettingsStay'
  OBVIOUS
<1>1. ASSUME NEW c \in Clients, Configure(c) PROVE SettingsStay'
  BY <1>1 DEF Configure, SettingsStay
<1>2. CASE UNCHANGED <<settings, configured, lost>>
  BY <1>2 DEF SettingsStay
<1>4. CASE Crash
  <2> SUFFICES ASSUME ~lost' PROVE settings' = configured'
    BY DEF SettingsStay
  <2>1. ~lost /\ ~contended /\ \A a \in Actors : ~Saving(a)
    BY <1>4 DEF Crash
  <2>2. Loaded(stateFile) = Memory
    BY <2>1 DEF SaveInv, StateIsSaved
  <2>3. Loaded(stateFile).settings = settings
    BY <2>2 DEF Memory
  <2>. QED
    BY <1>4, <2>1, <2>3 DEF Crash, SettingsStay
<1>3. Crash \/ (\E c \in Clients : Configure(c)) \/ UNCHANGED <<settings, configured, lost>>
  BY DEF Next, envVars, Run, Save, Request, vars, managerVars, Tick, RunNow, DeleteFile, RestoreFile, Refuse, Begin,
       Reset, NoDirectory, ListDatabases, ConnFails, Cleanup, CreateDump, EndDump, DumpFails, Finish, OpenTmp,
       PutState, RenameTmp, SaveFails, TimePasses
<1>. QED
  BY <1>1, <1>2, <1>3, <1>4

(* A step that leaves the saves in progress and what they work on alone.   *)
LEMMA SaveFrame ==
  ASSUME SaveInv, UNCHANGED <<settings, lastRun, lastOK, stateFile, tmp, out, fd, contended>>,
         \A b \in Actors : pc'[b] = pc[b] \/ (pc[b] \notin InSave /\ pc'[b] \notin InSave)
  PROVE  SaveInv'
<1>1. Memory' = Memory /\ Loaded(stateFile)' = Loaded(stateFile)
  BY DEF Memory, Loaded
<1>2. \A b \in Actors : Saving(b)' <=> Saving(b)
  BY DEF Saving
<1>3. StateIsSaved'
  BY <1>1, <1>2 DEF SaveInv, StateIsSaved
<1>4. ASSUME ~contended, NEW a \in Actors PROVE SaveOK(a)'
  <2>1. SaveOK(a)
    BY <1>4 DEF SaveInv
  <2>. QED
    BY <2>1, <1>1, <1>2 DEF SaveOK, InSave
<1>. QED
  BY <1>3, <1>4 DEF SaveInv

(* A copy of the state of memory is taken.                                 *)
LEMMA CopyStep ==
  ASSUME TypeOK, NEW a \in Actors, NEW state, Copy(a, state), Memory' = state
  PROVE  SaveInv'
<1>t. pc \in [Actors -> {"start", "idle", "call", "done"} \cup InRun] /\ out \in [Actors -> State]
  BY DEF TypeOK
<1>1. pc'[a] = "open" /\ out'[a] = Memory' /\ \A b \in Actors \ {a} : pc'[b] = pc[b]
  BY <1>t DEF Copy, Go
<1>2. Saving(a)'
  BY <1>1 DEF Saving, InSave
<1>3. ASSUME ~contended' PROVE \A b \in Actors \ {a} : ~Saving(b)'
  BY <1>1, <1>3 DEF Copy, Saving
<1>4. ASSUME ~contended', NEW b \in Actors PROVE SaveOK(b)'
  <2>1. CASE b = a
    BY <2>1, <1>1, <1>3, <1>4 DEF SaveOK
  <2>2. CASE b # a
    BY <2>2, <1>3, <1>4 DEF SaveOK, Saving, InSave
  <2>. QED
    BY <2>1, <2>2
<1>. QED
  BY <1>2, <1>4 DEF SaveInv, StateIsSaved

LEMMA SaveStep == TypeOK /\ SaveInv /\ [Next]_vars => SaveInv'
<1> SUFFICES ASSUME TypeOK, SaveInv, [Next]_vars PROVE SaveInv'
  OBVIOUS
<1>t. /\ pc \in [Actors -> {"start", "idle", "call", "done"} \cup InRun]
      /\ out \in [Actors -> State] /\ fd \in [Actors -> {"none", "tmp", "state", "gone"}]
      /\ settings \in Config
  BY DEF TypeOK
<1>1. ASSUME NEW a \in Actors, Finish(a) PROVE SaveInv'
  <2>1. Memory' = [settings |-> settings, lastRun |-> now, ok |-> ~failed[a]]
    BY <1>1 DEF Finish, Memory
  <2>. QED
    BY <1>1, <2>1, CopyStep DEF Finish
<1>2. ASSUME NEW c \in Clients, Configure(c) PROVE SaveInv'
  <2>1. PICK input \in Inputs :
          settings' = Normal(input) /\ Copy(c, [Memory EXCEPT !.settings = Normal(input)])
    BY <1>2 DEF Configure
  <2>2. Memory' = [Memory EXCEPT !.settings = Normal(input)]
    BY <1>2, <2>1 DEF Configure, Memory
  <2>3. c \in Actors
    BY DEF Actors
  <2>. QED
    BY <2>1, <2>2, <2>3, CopyStep
<1>3. ASSUME NEW a \in Actors, SaveFails(a) PROVE SaveInv'
  BY <1>3 DEF SaveFails, SaveInv, StateIsSaved
<1>4. CASE contended /\ contended'
  BY <1>4 DEF SaveInv, StateIsSaved
<1>5. ASSUME NEW a \in Actors, OpenTmp(a), ~contended PROVE SaveInv'
  <2>1. SaveOK(a) /\ Saving(a)
    BY <1>5 DEF SaveInv, OpenTmp, Saving, InSave
  <2>2. /\ pc'[a] = "put" /\ fd'[a] = "tmp" /\ tmp' = Cut /\ out' = out /\ Memory' = Memory
        /\ \A b \in Actors \ {a} : pc'[b] = pc[b]
    BY <1>5, <1>t DEF OpenTmp, Go, managerVars, Memory
  <2>3. Saving(a)' /\ \A b \in Actors \ {a} : ~Saving(b)'
    BY <2>1, <2>2 DEF SaveOK, Saving, InSave
  <2>4. \A b \in Actors : SaveOK(b)'
    BY <2>1, <2>2, <2>3 DEF SaveOK, Saving, InSave
  <2>. QED
    BY <2>3, <2>4 DEF SaveInv, StateIsSaved
<1>6. ASSUME NEW a \in Actors, PutState(a), ~contended PROVE SaveInv'
  <2>1. SaveOK(a) /\ Saving(a) /\ pc[a] = "put"
    BY <1>6 DEF SaveInv, PutState, Saving, InSave
  <2>2. fd[a] = "tmp" /\ tmp = Cut
    BY <2>1 DEF SaveOK
  <2>3. /\ pc'[a] = "rename" /\ tmp' = out[a] /\ out' = out /\ Memory' = Memory
        /\ \A b \in Actors \ {a} : pc'[b] = pc[b]
    BY <1>6, <1>t, <2>2 DEF PutState, Written, Go, managerVars, Memory, saveVars
  <2>4. Saving(a)' /\ \A b \in Actors \ {a} : ~Saving(b)'
    BY <2>1, <2>3 DEF SaveOK, Saving, InSave
  <2>5. \A b \in Actors : SaveOK(b)'
    BY <2>1, <2>3, <2>4 DEF SaveOK, Saving, InSave
  <2>. QED
    BY <2>4, <2>5 DEF SaveInv, StateIsSaved
<1>7. ASSUME NEW a \in Actors, RenameTmp(a), ~contended PROVE SaveInv'
  <2>1. SaveOK(a) /\ Saving(a) /\ pc[a] = "rename"
    BY <1>7 DEF SaveInv, RenameTmp, Saving, InSave
  <2>2. tmp = Memory /\ Memory \in State
    BY <2>1, MemoryState DEF SaveOK
  <2>3. /\ pc'[a] \in {"done", "reset"} /\ stateFile' = Memory /\ Memory' = Memory
        /\ \A b \in Actors \ {a} : pc'[b] = pc[b]
    BY <1>7, <1>t, <2>2 DEF RenameTmp, SaveReturns, Go, managerVars, Memory
  <2>4. \A b \in Actors : ~Saving(b)'
    BY <2>1, <2>3 DEF SaveOK, Saving, InSave
  <2>5. Loaded(stateFile') = Memory'
    BY <2>2, <2>3, LoadedState
  <2>6. \A b \in Actors : SaveOK(b)'
    BY <2>4 DEF SaveOK, Saving, InSave
  <2>. QED
    BY <2>5, <2>6 DEF SaveInv, StateIsSaved, Loaded
<1>8. CASE Crash
  <2>1. Loaded(stateFile) \in State
    BY LoadedState DEF TypeOK
  <2>2. Memory' = Loaded(stateFile) /\ stateFile' = stateFile
    BY <1>8, <2>1 DEF Crash, Memory, State, diskVars
  <2>3. \A b \in Actors : pc'[b] \in {"start", "idle", "done"}
    BY <1>8 DEF Crash
  <2>. QED
    BY <2>2, <2>3 DEF SaveInv, StateIsSaved, SaveOK, Saving, InSave, Loaded
<1>9. ASSUME NEW a \in Actors,
             \/ Refuse(a) \/ Begin(a) \/ NoDirectory(a) \/ ListDatabases(a) \/ ConnFails(a)
             \/ CreateDump(a) \/ EndDump(a) \/ DumpFails(a) \/ Cleanup(a) \/ Reset(a)
      PROVE  SaveInv'
  <2>1. UNCHANGED <<settings, lastRun, lastOK, stateFile, tmp, out, fd, contended>>
    BY <1>9 DEF Refuse, Begin, NoDirectory, ListDatabases, ConnFails, CreateDump, EndDump, DumpFails,
                Cleanup, Reset, managerVars, diskVars, saveVars
  <2>2. \A b \in Actors : pc'[b] = pc[b] \/ (pc[b] \notin InSave /\ pc'[b] \notin InSave)
    BY <1>9, <1>t DEF Refuse, Begin, NoDirectory, ListDatabases, ConnFails, CreateDump, EndDump, DumpFails,
                Cleanup, Reset, Go, InSave
  <2>. QED
    BY <2>1, <2>2, SaveFrame
<1>10. CASE \/ Tick \/ TimePasses \/ UNCHANGED vars
            \/ \E c \in Clients : RunNow(c) \/ DeleteFile(c) \/ RestoreFile(c)
  <2>1. UNCHANGED <<settings, lastRun, lastOK, stateFile, tmp, out, fd, contended>>
    BY <1>10 DEF Tick, TimePasses, vars, RunNow, DeleteFile, RestoreFile, managerVars, diskVars, saveVars
  <2>2. \A b \in Actors : pc'[b] = pc[b] \/ (pc[b] \notin InSave /\ pc'[b] \notin InSave)
    BY <1>10, <1>t DEF Tick, TimePasses, vars, RunNow, DeleteFile, RestoreFile, Go, InSave
  <2>. QED
    BY <2>1, <2>2, SaveFrame
<1>11. /\ contended \in BOOLEAN
       /\ \A a \in Actors : OpenTmp(a) \/ PutState(a) \/ RenameTmp(a) => contended' = contended
  BY DEF TypeOK, OpenTmp, PutState, RenameTmp, saveVars
<1>. QED
  BY <1>1, <1>2, <1>3, <1>4, <1>5, <1>6, <1>7, <1>8, <1>9, <1>10, <1>11 DEF Next, Run, Save, Request

----------------------------------------------------------------------------
LEMMA Initially == Init => IInv
<1> SUFFICES ASSUME Init PROVE IInv
  OBVIOUS
<1>1. Fresh \in State
  BY SettingsAssumption DEF Fresh, State
<1>2. TypeOK
  <2>1. /\ settings \in Config /\ configured \in Config /\ lastRun \in Times \cup {None}
        /\ now \in Times /\ crashes \in 0..MaxCrashes
        /\ stateFile \in Unreadable /\ tmp \in Unreadable
    BY SettingsAssumption, BoundsAssumption DEF Init, Times, Unreadable
  <2>2. DOMAIN files = {}
    BY DEF Init
  <2>3. /\ pc \in [Actors -> {"start", "idle", "call", "done"} \cup InRun]
        /\ keep \in [Actors -> Nat] /\ stamp \in [Actors -> Nat]
        /\ left \in [Actors -> SUBSET Conns] /\ todo \in [Actors -> SUBSET Tables]
        /\ cur \in [Actors -> Tables \cup {None}] /\ failed \in [Actors -> BOOLEAN]
        /\ out \in [Actors -> State] /\ fd \in [Actors -> {"none", "tmp", "state", "gone"}]
    BY <1>1 DEF Init
  <2>4. /\ lastOK \in BOOLEAN /\ running \in BOOLEAN /\ runs \in Nat /\ missed \subseteq Conns
        /\ contended \in BOOLEAN /\ lost \in BOOLEAN /\ restored \subseteq (Names \cup {None}) \X Names
    BY DEF Init
  <2>. QED
    BY <2>1, <2>2, <2>3, <2>4 DEF TypeOK
<1>3. OneRun /\ PlaceInv /\ FilesInv /\ SettingsStay
  BY DEF Init, OneRun, PlaceInv, PlaceOK, Working, FilesInv, SettingsStay
<1>4. FailInv
  BY DEF Init, FailInv, FailOK, FailureIsReported
<1>5. Loaded(stateFile) = Memory
  BY DEF Init, Loaded, Unreadable, Fresh, Memory
<1>6. SaveInv
  BY <1>5 DEF Init, SaveInv, StateIsSaved, SaveOK, Saving, InSave
<1>. QED
  BY <1>2, <1>3, <1>4, <1>6 DEF IInv

(* IInv is an invariant.                                                   *)
THEOREM Invariance == Spec => []IInv
<1>1. IInv /\ [Next]_vars => IInv'
  BY TypeStep, PlaceStep, OneRunStep, FilesStep, FailStep, SaveStep, SettingsStep DEF IInv
<1>. QED
  BY Initially, <1>1, PTL DEF Spec

(* Every variable keeps its type; settings are positive whatever is        *)
(* submitted or read from the file.                                        *)
THEOREM TypeCorrect == Spec => []TypeOK
BY Invariance, PTL DEF IInv

(* There is one run at a time, and the flag tells.                         *)
THEOREM RunsExclude == Spec => []OneRun
BY Invariance, PTL DEF IInv

(* Settings that were submitted are in memory and, unless the process      *)
(* ended in or after a disturbed save, are found again after a restart.    *)
THEOREM SettingsKept == Spec => []SettingsStay
BY Invariance, PTL DEF IInv

(* When nobody saves and the last save was undisturbed, the file holds     *)
(* what is in memory.                                                      *)
THEOREM StateSaved == Spec => []StateIsSaved
<1>1. IInv => StateIsSaved
  BY DEF IInv, SaveInv
<1>. QED
  BY Invariance, <1>1, PTL

(* A failure of any connection or file of the last run is reported.        *)
THEOREM FailureReported == Spec => []FailureIsReported
<1>1. IInv => FailureIsReported
  BY DEF IInv, FailInv
<1>. QED
  BY Invariance, <1>1, PTL

(* The retention never takes a dump of the run that just made it: its      *)
(* files are new and the retention is positive.                            *)
THEOREM DumpsKept == Spec => RunKeepsItsDumps
<1> DEFINE Kept == \A a \in Actors, p \in DOMAIN files :
             pc[a] = "work" /\ pc'[a] = "finish" /\ p.run = stamp[a] => p \in DOMAIN files'
<1>1. ASSUME IInv, [Next]_vars PROVE Kept
  <2> SUFFICES ASSUME NEW a \in Actors, NEW p \in DOMAIN files, pc[a] = "work", pc'[a] = "finish",
                      p.run = stamp[a]
               PROVE  p \in DOMAIN files'
    OBVIOUS
  <2>t. pc \in [Actors -> {"start", "idle", "call", "done"} \cup InRun]
    BY <1>1 DEF IInv, TypeOK
  <2>1. CASE files' = files
    BY <2>1
  <2>2. CASE Cleanup(a)
    <3>1. files[p].at = now /\ keep[a] > 0 /\ keep[a] \in Nat /\ now \in Nat
      BY <1>1, BoundsAssumption DEF IInv, FilesInv, PlaceInv, PlaceOK, Working, TypeOK, Times
    <3>. QED
      BY <2>2, <3>1 DEF Cleanup
  <2>3. ASSUME NEW b \in Actors, CreateDump(b) \/ EndDump(b) PROVE FALSE
    BY <2>3, <2>t DEF CreateDump, EndDump, Go
  <2>4. ASSUME NEW c \in Clients, DeleteFile(c) PROVE FALSE
    BY <2>4, <2>t DEF DeleteFile, Go
  <2>5. ASSUME NEW b \in Actors \ {a}, Cleanup(b) PROVE FALSE
    BY <2>5, <2>t DEF Cleanup, Go
  <2>6. \/ files' = files \/ \E b \in Actors : CreateDump(b) \/ EndDump(b) \/ Cleanup(b)
        \/ \E c \in Clients : DeleteFile(c)
    BY <1>1 DEF Next, Run, Save, Request, vars, Tick, RunNow, RestoreFile, Refuse, Begin, NoDirectory,
       ListDatabases, ConnFails, DumpFails, Finish, Reset, OpenTmp, PutState, RenameTmp, SaveFails, Configure,
       TimePasses, Crash
  <2>. QED
    BY <2>1, <2>2, <2>3, <2>4, <2>5, <2>6
<1>2. IInv /\ [Next]_vars => [Kept]_vars
  BY <1>1
<1>. QED
  BY Invariance, <1>2, PTL DEF Spec, RunKeepsItsDumps
=============================================================================
