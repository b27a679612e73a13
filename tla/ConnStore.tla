----------------------------- MODULE ConnStore -----------------------------
(***************************************************************************)
(* The store of saved connections: Store in backend/store.go, the handlers *)
(* that change it in backend/handlers.go and backend/power.go, and the     *)
(* start of the server with its key file (backend/crypto.go, main.go).     *)
(*                                                                         *)
(* Memory is changed first, under the store's write lock, and the whole    *)
(* map is then written to a temporary file that replaces the old one. When *)
(* that fails, create and update take the change back; delete does not.    *)
(* The favourite and clone handlers read the data of an entry outside the  *)
(* lock and submit it as a whole.                                          *)
(*                                                                         *)
(* Abstractions.                                                           *)
(*  - The data of a connection is what the edit dialog sets (read-only     *)
(*    flag, host, secrets: one of Edits) and the favourite flag. Every     *)
(*    connection has a secret.                                             *)
(*  - An import is one create request per connection; names, and renaming, *)
(*    are left out. The id of a new connection is new: a UUID.             *)
(*  - A file is its content: per id a value, and whether the secrets are   *)
(*    encrypted. Crashes are those of the process: what was written stays. *)
(*  - The master key comes from the key file, not the environment.         *)
(*  - A read of an entry's data that races with a write returns the old or *)
(*    the new data or a mixture.                                           *)
(***************************************************************************)
EXTENDS Naturals, FiniteSets

CONSTANTS
  Requests,
  Ids,        \* of connections
  Edits,      \* what a user enters in the dialog
  Mixed,      \* the content of a read that races with a write
  Boot,       \* the start of the server
  MaxCrashes, \* bound
  None

ASSUME NamesAssumption ==
  /\ None \notin Requests \cup Ids \cup {Boot}
  /\ Boot \notin Requests
  /\ Mixed \notin Edits
ASSUME MaxCrashesAssumption == MaxCrashes \in Nat

Actors == Requests \cup {Boot}
Entered == [edit : Edits, favorite : BOOLEAN]
Values == [edit : Edits \cup {Mixed}, favorite : BOOLEAN]
ASSUME ValuesAssumption == None \notin Values

Contents == [Ids -> Values \cup {None}]
Files == [data : Contents, encrypted : BOOLEAN, torn : BOOLEAN]
Empty == [i \in Ids |-> None]
Torn == [data |-> Empty, encrypted |-> TRUE, torn |-> TRUE]

VARIABLES
  \* ---- on disk ----
  file,      \* connections.json
  tmp,       \* connections.json.tmp, or None
  keyFile,   \* secret.key: absent, empty or written
  \* ---- the process ----
  conns,     \* ids in the store
  info,      \* the data of an entry, also of one that was deleted
  mu,        \* holder of the write lock
  pc,        \* where a request, or the start of the server, is
  crashes,
  \* ---- request r ----
  kind, id,
  source,    \* the connection that a clone copies
  want,      \* the data it submits
  prev,      \* the data an update found
  answer

diskVars == <<file, tmp, keyFile>>
reqVars  == <<kind, id, source, want, prev, answer>>
vars == <<diskVars, conns, info, mu, pc, crashes, reqVars>>

Kinds == {"none", "create", "clone", "update", "favorite", "delete"}
Saving == {"save", "tmp", "rename"}

TypeOK ==
  /\ file \in Files
  /\ tmp \in Files \cup {None}
  /\ keyFile \in {"absent", "empty", "written"}
  /\ conns \subseteq Ids
  /\ info \in Contents
  /\ mu \in Actors \cup {None}
  /\ pc \in [Actors -> {"start", "key", "load", "copy", "ready", "write", "saved", "failed", "done"}
                       \cup Saving]
  /\ crashes \in 0..MaxCrashes
  /\ kind \in [Requests -> Kinds]
  /\ id \in [Requests -> Ids \cup {None}]
  /\ source \in [Requests -> Ids \cup {None}]
  /\ want \in [Requests -> Values \cup {None}]
  /\ prev \in [Requests -> Values \cup {None}]
  /\ answer \in [Requests -> {"none", "ok", "error", "lost"}]

(* The store may have been written by a version without encryption.        *)
Init ==
  /\ file \in [data : [Ids -> Entered \cup {None}], encrypted : BOOLEAN, torn : {FALSE}]
  /\ keyFile \in {"absent", "written"}
  /\ file.encrypted => keyFile = "written"
  /\ tmp = None
  /\ conns = {}
  /\ info = Empty
  /\ mu = None
  /\ pc = [a \in Actors |-> "start"]
  /\ crashes = 0
  /\ kind = [r \in Requests |-> "none"]
  /\ id = [r \in Requests |-> None]
  /\ source = [r \in Requests |-> None]
  /\ want = [r \in Requests |-> None]
  /\ prev = [r \in Requests |-> None]
  /\ answer = [r \in Requests |-> "none"]

Serving == pc[Boot] = "done"

Go(a, x) == pc' = [pc EXCEPT ![a] = x]

----------------------------------------------------------------------------
(* The start of the server *)

(* LoadKey finds a key.                                                    *)
KeyFound ==
  /\ pc[Boot] = "start"
  /\ keyFile = "written"
  /\ Go(Boot, "load")
  /\ UNCHANGED <<diskVars, conns, info, mu, crashes, reqVars>>

(* LoadKey finds none: WriteFile creates the file ...                      *)
KeyCreated ==
  /\ pc[Boot] = "start"
  /\ keyFile = "absent"
  /\ keyFile' = "empty"
  /\ Go(Boot, "key")
  /\ UNCHANGED <<file, tmp, conns, info, mu, crashes, reqVars>>

(* ... and fills it.                                                       *)
KeyWritten ==
  /\ pc[Boot] = "key"
  /\ keyFile' = "written"
  /\ Go(Boot, "load")
  /\ UNCHANGED <<file, tmp, conns, info, mu, crashes, reqVars>>

(* Mutant of Load: plaintext secrets wait for the next save.               *)
LoadWithoutMigration ==
  /\ pc[Boot] = "load"
  /\ ~file.torn
  /\ conns' = {i \in Ids : file.data[i] # None}
  /\ info' = file.data
  /\ mu' = None
  /\ Go(Boot, "done")
  /\ UNCHANGED <<diskVars, crashes, reqVars>>

(* NewStoreWithCipher: plaintext secrets are migrated before the store is  *)
(* used.                                                                   *)
Load ==
  /\ pc[Boot] = "load"
  /\ ~file.torn
  /\ conns' = {i \in Ids : file.data[i] # None}
  /\ info' = file.data
  /\ IF file.encrypted \/ conns' = {}
       THEN Go(Boot, "done") /\ mu' = None
       ELSE Go(Boot, "save") /\ mu' = Boot
  /\ UNCHANGED <<diskVars, crashes, reqVars>>

Migrated ==
  /\ pc[Boot] = "saved"
  /\ mu' = None
  /\ Go(Boot, "done")
  /\ UNCHANGED <<diskVars, conns, info, crashes, reqVars>>

(* The process ends, and requests with it. *)
Stop ==
  /\ conns' = {}
  /\ info' = Empty
  /\ mu' = None
  /\ pc' = [a \in Actors |-> IF a = Boot THEN "start"
                             ELSE IF pc[a] = "start" THEN "start" ELSE "done"]
  /\ answer' = [r \in Requests |->
                  IF pc[r] \notin {"start", "done"} THEN "lost" ELSE answer[r]]
  /\ UNCHANGED <<diskVars, kind, id, source, want, prev>>

(* The migration could not be saved: the server does not start.            *)
MigrationFails ==
  /\ pc[Boot] = "failed"
  /\ crashes < MaxCrashes
  /\ crashes' = crashes + 1
  /\ Stop

Crash ==
  /\ crashes < MaxCrashes
  /\ crashes' = crashes + 1
  /\ Stop

----------------------------------------------------------------------------
(* The handlers up to the call of the store *)

(* A connection that is created gets an id nothing has had before.         *)
Unused == {i \in Ids : info[i] = None /\ file.data[i] = None /\ \A r \in Requests : id[r] # i}

SubmitCreate(r) ==
  /\ Serving
  /\ pc[r] = "start"
  /\ \E i \in Unused, v \in Entered :
       id' = [id EXCEPT ![r] = i] /\ want' = [want EXCEPT ![r] = v]
  /\ kind' = [kind EXCEPT ![r] = "create"]
  /\ Go(r, "ready")
  /\ UNCHANGED <<diskVars, conns, info, mu, crashes, source, prev, answer>>

SubmitUpdate(r) ==
  /\ Serving
  /\ pc[r] = "start"
  /\ \E i \in Ids, v \in Entered :
       id' = [id EXCEPT ![r] = i] /\ want' = [want EXCEPT ![r] = v]
  /\ kind' = [kind EXCEPT ![r] = "update"]
  /\ Go(r, "ready")
  /\ UNCHANGED <<diskVars, conns, info, mu, crashes, source, prev, answer>>

SubmitDelete(r) ==
  /\ Serving
  /\ pc[r] = "start"
  /\ \E i \in Ids : id' = [id EXCEPT ![r] = i]
  /\ kind' = [kind EXCEPT ![r] = "delete"]
  /\ Go(r, "ready")
  /\ UNCHANGED <<diskVars, conns, info, mu, crashes, source, want, prev, answer>>

(* Store.Get: readers wait for a writer. The handler keeps the entry.      *)
GetEntry(r) ==
  /\ Serving
  /\ pc[r] = "start"
  /\ mu = None
  /\ \E i \in conns, k \in {"clone", "favorite"} :
       source' = [source EXCEPT ![r] = i] /\ kind' = [kind EXCEPT ![r] = k]
  /\ Go(r, "copy")
  /\ UNCHANGED <<diskVars, conns, info, mu, crashes, id, want, prev, answer>>

(* What a read of entry i returns: an update may be writing it.            *)
Readable(i) ==
  LET w == {r \in Requests : id[r] = i /\ pc[r] \in {"write", "failed"}
                             /\ kind[r] \in {"update", "favorite"}}
  IN  {info[i]} \cup (IF w = {} THEN {} ELSE [edit : {Mixed}, favorite : BOOLEAN])
        \cup {want[r] : r \in {q \in w : pc[q] = "write"}}
        \cup {prev[r] : r \in {q \in w : pc[q] = "failed"}}

CopyForClone(r) ==
  /\ pc[r] = "copy"
  /\ kind[r] = "clone"
  /\ \E v \in Readable(source[r]) : want' = [want EXCEPT ![r] = v]
  /\ \E i \in Unused : id' = [id EXCEPT ![r] = i]
  /\ Go(r, "ready")
  /\ UNCHANGED <<diskVars, conns, info, mu, crashes, kind, source, prev, answer>>

CopyForFavorite(r) ==
  /\ pc[r] = "copy"
  /\ kind[r] = "favorite"
  /\ \E v \in Readable(source[r]), f \in BOOLEAN :
       want' = [want EXCEPT ![r] = [v EXCEPT !.favorite = f]]
  /\ id' = [id EXCEPT ![r] = source[r]]
  /\ Go(r, "ready")
  /\ UNCHANGED <<diskVars, conns, info, mu, crashes, kind, source, prev, answer>>

----------------------------------------------------------------------------
(* Store.Create, Store.Update, Store.Delete *)

Create(r) ==
  /\ pc[r] = "ready"
  /\ kind[r] \in {"create", "clone"}
  /\ mu = None
  /\ mu' = r
  /\ conns' = conns \cup {id[r]}
  /\ info' = [info EXCEPT ![id[r]] = want[r]]
  /\ Go(r, "save")
  /\ UNCHANGED <<diskVars, crashes, reqVars>>

(* "connection not found"                                                  *)
NotFound(r) ==
  /\ pc[r] = "ready"
  /\ kind[r] \in {"update", "favorite", "delete"}
  /\ mu = None
  /\ id[r] \notin conns
  /\ answer' = [answer EXCEPT ![r] = "error"]
  /\ Go(r, "done")
  /\ UNCHANGED <<diskVars, conns, info, mu, crashes, kind, id, source, want, prev>>

(* e.Info is being written.                                                *)
Update(r) ==
  /\ pc[r] = "ready"
  /\ kind[r] \in {"update", "favorite"}
  /\ mu = None
  /\ id[r] \in conns
  /\ mu' = r
  /\ prev' = [prev EXCEPT ![r] = info[id[r]]]
  /\ Go(r, "write")
  /\ UNCHANGED <<diskVars, conns, info, crashes, kind, id, source, want, answer>>

Updated(r) ==
  /\ pc[r] = "write"
  /\ info' = [info EXCEPT ![id[r]] = want[r]]
  /\ Go(r, "save")
  /\ UNCHANGED <<diskVars, conns, mu, crashes, reqVars>>

Delete(r) ==
  /\ pc[r] = "ready"
  /\ kind[r] = "delete"
  /\ mu = None
  /\ id[r] \in conns
  /\ mu' = r
  /\ conns' = conns \ {id[r]}
  /\ Go(r, "save")
  /\ UNCHANGED <<diskVars, info, crashes, reqVars>>

----------------------------------------------------------------------------
(* saveLocked *)

Snapshot ==
  [data |-> [i \in Ids |-> IF i \in conns THEN info[i] ELSE None],
   encrypted |-> TRUE, torn |-> FALSE]

(* WriteFile truncates the temporary file ...                              *)
SaveBegins(a) ==
  /\ pc[a] = "save"
  /\ tmp' = Torn
  /\ Go(a, "tmp")
  /\ UNCHANGED <<file, keyFile, conns, info, mu, crashes, reqVars>>

(* ... and writes it.                                                      *)
TmpWritten(a) ==
  /\ pc[a] = "tmp"
  /\ tmp' = Snapshot
  /\ Go(a, "rename")
  /\ UNCHANGED <<file, keyFile, conns, info, mu, crashes, reqVars>>

Renamed(a) ==
  /\ pc[a] = "rename"
  /\ file' = tmp
  /\ tmp' = None
  /\ Go(a, "saved")
  /\ UNCHANGED <<keyFile, conns, info, mu, crashes, reqVars>>

(* Mutant of SaveFails: an error is not returned.                          *)
SaveErrorIgnored(a) ==
  /\ pc[a] \in Saving
  /\ Go(a, "saved")
  /\ UNCHANGED <<diskVars, conns, info, mu, crashes, reqVars>>

SaveFails(a) ==
  /\ pc[a] \in Saving
  /\ Go(a, "failed")
  /\ UNCHANGED <<diskVars, conns, info, mu, crashes, reqVars>>

(* The call returns and the handler answers.                               *)
Return(r, x) ==
  /\ mu' = None
  /\ answer' = [answer EXCEPT ![r] = x]
  /\ Go(r, "done")

Succeed(r) ==
  /\ pc[r] = "saved"
  /\ Return(r, "ok")
  /\ UNCHANGED <<diskVars, conns, info, crashes, kind, id, source, want, prev>>

CreateFails(r) ==
  /\ pc[r] = "failed"
  /\ kind[r] \in {"create", "clone"}
  /\ conns' = conns \ {id[r]}
  /\ Return(r, "error")
  /\ UNCHANGED <<diskVars, info, crashes, kind, id, source, want, prev>>

UpdateFails(r) ==
  /\ pc[r] = "failed"
  /\ kind[r] \in {"update", "favorite"}
  /\ info' = [info EXCEPT ![id[r]] = prev[r]]
  /\ Return(r, "error")
  /\ UNCHANGED <<diskVars, conns, crashes, kind, id, source, want, prev>>

(* The entry is gone although the file still has it.                       *)
DeleteFails(r) ==
  /\ pc[r] = "failed"
  /\ kind[r] = "delete"
  /\ Return(r, "error")
  /\ UNCHANGED <<diskVars, conns, info, crashes, kind, id, source, want, prev>>

----------------------------------------------------------------------------
Start == KeyFound \/ KeyCreated \/ KeyWritten \/ Load \/ Migrated

Save(a) == SaveBegins(a) \/ TmpWritten(a) \/ Renamed(a) \/ SaveFails(a)

Handle(r) ==
  \/ SubmitCreate(r) \/ SubmitUpdate(r) \/ SubmitDelete(r)
  \/ GetEntry(r) \/ CopyForClone(r) \/ CopyForFavorite(r)
  \/ Create(r) \/ NotFound(r) \/ Update(r) \/ Updated(r) \/ Delete(r)
  \/ Succeed(r) \/ CreateFails(r) \/ UpdateFails(r) \/ DeleteFails(r)

Next ==
  \/ Start
  \/ \E a \in Actors : Save(a)
  \/ MigrationFails
  \/ \E r \in Requests : Handle(r)
  \/ Crash

Spec == Init /\ [][Next]_vars

----------------------------------------------------------------------------
(* What the store promises: a map on disk that requests change atomically. *)

(* Entries that the store has forgotten although the file has them.        *)
Forgotten ==
  IF Serving
    THEN {i \in Ids \ conns : /\ file.data[i] # None
                              /\ ~\E r \in Requests : kind[r] = "delete" /\ mu = r /\ id[r] = i}
    ELSE {}

Status(r) ==
  CASE id[r] = None -> "idle"
    [] id[r] # None /\ answer[r] = "ok" -> "acked"
    [] id[r] # None /\ answer[r] = "error" -> "refused"
    [] id[r] # None /\ answer[r] = "lost" -> "lost"
    [] id[r] # None /\ answer[r] = "none" /\ pc[r] = "saved" -> "committed"
    [] OTHER -> "open"

Map == INSTANCE DurableMap WITH
  db <- file.data,
  at <- id,
  new <- want,
  status <- [r \in Requests |-> Status(r)],
  doomed <- Forgotten

StoreSpec == Map!Spec

----------------------------------------------------------------------------
(* Safety *)

(* The file can be read at every moment, also between the steps of a save  *)
(* and after one that failed: a crash never costs the connections.         *)
FileReadable == ~file.torn

(* When nobody saves, the connections in the store are those in the file,  *)
(* with the same data, whatever failed before; only an entry whose         *)
(* deletion failed is in the file alone.                                   *)
MemoryIsFile ==
  Serving /\ mu = None =>
    \A i \in Ids :
      IF i \in conns
        THEN file.data[i] = info[i]
        ELSE file.data[i] # None =>
               \E r \in Requests : kind[r] = "delete" /\ id[r] = i /\ answer[r] = "error"

(* "Existing plaintext stores are migrated on first load": a server that   *)
(* answers requests has no plaintext secrets on disk.                      *)
SecretsEncrypted == Serving => file.encrypted \/ file.data = Empty

(* No secret is encrypted with a key that a crash could lose.              *)
KeyBeforeData == file.encrypted /\ file.data # Empty => keyFile = "written"

----------------------------------------------------------------------------
(* The inductive invariant behind the safety properties *)

Unsaved == {"write", "save", "tmp", "rename", "failed"}

(* The holder of the write lock is the one that changes or saves. Requests *)
(* only exist while the server runs, which has a key by then.              *)
LockInv ==
  /\ \A a \in Actors : pc[a] \in Unsaved \cup {"saved"} <=> mu = a
  /\ \A r \in Requests : pc[r] \notin {"start", "done"} => Serving
  /\ pc[Boot] \notin {"copy", "ready", "write"}
  /\ \A r \in Requests : pc[r] \notin {"key", "load"}
  /\ pc[Boot] \in {"start", "key", "load"} => conns = {}
  /\ pc[Boot] \notin {"start", "key"} \/ file.encrypted => keyFile = "written"

(* What the position of a request says of its parameters.                  *)
RequestOK(r) ==
  /\ pc[r] = "start" <=> kind[r] = "none"
  /\ pc[r] = "done" <=> answer[r] # "none"
  /\ pc[r] \in {"start", "copy"} => id[r] = None /\ want[r] = None
  /\ pc[r] = "copy" =>
       source[r] \in Ids /\ info[source[r]] \in Values /\ kind[r] \in {"clone", "favorite"}
  /\ kind[r] = "delete" => id[r] \in Ids /\ want[r] = None
  /\ pc[r] \in {"ready", "saved"} \cup Unsaved /\ kind[r] # "delete" =>
       id[r] \in Ids /\ want[r] \in Values
  /\ pc[r] = "write" => kind[r] \in {"update", "favorite"}
  /\ pc[r] \in Unsaved /\ kind[r] \in {"update", "favorite"} => prev[r] \in Values

RequestInv == \A r \in Requests : RequestOK(r)

(* Nobody else uses the id of a connection that is to be created.          *)
NewIdOK(r) ==
  pc[r] = "ready" /\ kind[r] \in {"create", "clone"} =>
    /\ id[r] \notin conns
    /\ file.data[id[r]] = None
    /\ \A q \in Requests : mu = q => id[q] # id[r]
    /\ \A q \in Requests \ {r} : pc[q] = "ready" /\ kind[q] \in {"create", "clone"} => id[q] # id[r]

NewIdInv == \A r \in Requests : NewIdOK(r)

(* An entry is the same in memory and in the file, unless the holder of    *)
(* the lock is changing it or its deletion has failed.                     *)
EntryOK(i) ==
  /\ i \in conns =>
       /\ info[i] \in Values
       /\ \/ file.data[i] = info[i]
          \/ mu \in Requests /\ id[mu] = i /\ pc[mu] \in Unsaved \ {"write"}
  /\ i \notin conns /\ file.data[i] # None =>
       \/ ~Serving /\ mu = None
       \/ mu \in Requests /\ id[mu] = i /\ kind[mu] = "delete"
       \/ \E r \in Requests : kind[r] = "delete" /\ id[r] = i /\ answer[r] = "error"

FileInv ==
  /\ ~file.torn
  /\ Serving => file.encrypted \/ file.data = Empty
  /\ \A i \in Ids : EntryOK(i)

(* What the holder of the lock has changed so far.                         *)
ChangeOK(r) ==
  /\ pc[r] \in Unsaved /\ kind[r] \in {"create", "clone"} =>
       id[r] \in conns /\ info[id[r]] = want[r] /\ file.data[id[r]] = None
  /\ pc[r] \in Unsaved /\ kind[r] \in {"update", "favorite"} =>
       id[r] \in conns /\ prev[r] = file.data[id[r]]
       /\ info[id[r]] = IF pc[r] = "write" THEN prev[r] ELSE want[r]
  /\ pc[r] \in Unsaved /\ kind[r] = "delete" => id[r] \notin conns /\ file.data[id[r]] # None
  /\ pc[r] = "saved" => file.data[id[r]] = want[r] /\ file.encrypted
  /\ pc[r] = "saved" => \A i \in Ids \ conns : file.data[i] = None

ChangeInv == \A r \in Requests : ChangeOK(r)

(* The temporary file that is about to replace the old one is complete.    *)
TmpInv ==
  /\ \A a \in Actors : pc[a] = "rename" => tmp = Snapshot
  /\ pc[Boot] = "saved" => file.encrypted
  /\ ~Serving /\ mu # None => mu = Boot /\ conns = {i \in Ids : file.data[i] # None}

IInv == TypeOK /\ LockInv /\ RequestInv /\ NewIdInv /\ FileInv /\ ChangeInv /\ TmpInv

----------------------------------------------------------------------------
(* Statements of the documentation that the code does not keep *)

(* "favorite / unfavorite a connection": the favourite handler changes     *)
(* nothing else of the connection on disk.                                 *)
FavoriteOnlyFlags ==
  [][\A r \in Requests :
       kind[r] = "favorite" /\ pc[r] = "rename" /\ pc'[r] = "saved" =>
         file'.data[id[r]].edit = file.data[id[r]].edit]_vars
=============================================================================
