-------------------------- MODULE ConnStore_proofs --------------------------
(***************************************************************************)
(* Proofs about ConnStore: the safety of the store, and that it implements *)
(* DurableMap, for any sets of requests, ids and data.                     *)
(***************************************************************************)
EXTENDS ConnStore, TLAPS

(* A read that races with a write still returns a value.                   *)
LEMMA ReadableValues ==
  ASSUME RequestInv, NEW i \in Ids, info[i] \in Values
  PROVE  Readable(i) \subseteq Values
<1>1. [edit : {Mixed}, favorite : BOOLEAN] \subseteq Values
  BY DEF Values
<1>2. \A q \in Requests : pc[q] \in {"write", "failed"} /\ kind[q] \in {"update", "favorite"} =>
        want[q] \in Values /\ prev[q] \in Values
  BY DEF RequestInv, RequestOK, Unsaved
<1>. QED
  BY <1>1, <1>2 DEF Readable

(* One step per action, used by the lemmas below.                          *)
LEMMA TypeStep == IInv /\ [Next]_vars => TypeOK'
<1> SUFFICES ASSUME TypeOK, RequestInv, TmpInv, [Next]_vars PROVE TypeOK'
  BY DEF IInv
<1> USE NamesAssumption, ValuesAssumption, MaxCrashesAssumption
    DEF TypeOK, Actors, Saving, Kinds, Go, diskVars, reqVars
<1>a. Entered \subseteq Values /\ Empty \in Contents /\ Torn \in Files
  BY DEF Entered, Values, Empty, Contents, Torn, Files
<1>1. CASE KeyFound
  BY <1>1 DEF KeyFound
<1>2. CASE KeyCreated
  BY <1>2 DEF KeyCreated
<1>3. CASE KeyWritten
  BY <1>3 DEF KeyWritten
<1>4. CASE Load
  BY <1>4 DEF Load, Files
<1>5. CASE Migrated
  BY <1>5 DEF Migrated
<1>6. CASE Stop /\ crashes' \in 0..MaxCrashes
  BY <1>6, <1>a DEF Stop
<1>7. CASE MigrationFails \/ Crash
  BY <1>6, <1>7 DEF MigrationFails, Crash
<1>8. ASSUME NEW r \in Requests, SubmitCreate(r) \/ SubmitUpdate(r) \/ SubmitDelete(r) PROVE TypeOK'
  BY <1>8, <1>a DEF SubmitCreate, SubmitUpdate, SubmitDelete, Unused
<1>9. ASSUME NEW r \in Requests, GetEntry(r) PROVE TypeOK'
  BY <1>9 DEF GetEntry
<1>10. ASSUME NEW r \in Requests, CopyForClone(r) \/ CopyForFavorite(r) PROVE TypeOK'
  <2>1. source[r] \in Ids /\ info[source[r]] \in Values
    BY <1>10 DEF CopyForClone, CopyForFavorite, RequestInv, RequestOK
  <2>2. Readable(source[r]) \subseteq Values
    BY <2>1, ReadableValues
  <2>. QED
    BY <1>10, <2>1, <2>2 DEF CopyForClone, CopyForFavorite, Unused, Values
<1>11. ASSUME NEW r \in Requests, Create(r) \/ NotFound(r) \/ Update(r) \/ Updated(r) \/ Delete(r)
       PROVE  TypeOK'
  BY <1>11 DEF Create, NotFound, Update, Updated, Delete, Contents, RequestInv, RequestOK, Unsaved
<1>12. ASSUME NEW r \in Requests,
              Succeed(r) \/ CreateFails(r) \/ UpdateFails(r) \/ DeleteFails(r)
       PROVE  TypeOK'
  BY <1>12 DEF Succeed, CreateFails, UpdateFails, DeleteFails, Return, Contents, RequestInv, RequestOK, Unsaved
<1>13. ASSUME NEW a \in Actors, Save(a) PROVE TypeOK'
  <2>1. Snapshot \in Files
    BY DEF Snapshot, Files, Contents
  <2>. QED
    BY <1>13, <1>a, <2>1 DEF TmpInv, Save, SaveBegins, TmpWritten, Renamed, SaveFails
<1>14. CASE UNCHANGED vars
  BY <1>14 DEF vars
<1>. QED
  BY <1>1, <1>2, <1>3, <1>4, <1>5, <1>7, <1>8, <1>9, <1>10, <1>11, <1>12, <1>13, <1>14
     DEF Next, Start, Handle

(* The lock is held by the request that changes or saves.                  *)
LEMMA LockStep == IInv /\ [Next]_vars => LockInv'
<1> SUFFICES ASSUME TypeOK, LockInv, RequestInv, TmpInv, [Next]_vars PROVE LockInv'
  BY DEF IInv
<1> USE NamesAssumption, ValuesAssumption DEF TypeOK, LockInv, Actors, Saving, Unsaved, Serving, Go, diskVars, reqVars
<1>1. CASE KeyFound
  BY <1>1 DEF KeyFound
<1>2. CASE KeyCreated
  BY <1>2 DEF KeyCreated
<1>3. CASE KeyWritten
  BY <1>3 DEF KeyWritten
<1>4. CASE Load
  BY <1>4 DEF Load
<1>5. CASE Migrated
  BY <1>5 DEF Migrated
<1>6. CASE MigrationFails
  BY <1>6 DEF MigrationFails, Stop
<1>7. CASE Crash
  BY <1>7 DEF Crash, Stop
<1>8. ASSUME NEW r \in Requests, SubmitCreate(r) PROVE LockInv'
  BY <1>8 DEF SubmitCreate, Unused
<1>9. ASSUME NEW r \in Requests, SubmitUpdate(r) PROVE LockInv'
  BY <1>9 DEF SubmitUpdate
<1>10. ASSUME NEW r \in Requests, SubmitDelete(r) PROVE LockInv'
  BY <1>10 DEF SubmitDelete
<1>11. ASSUME NEW r \in Requests, GetEntry(r) PROVE LockInv'
  BY <1>11 DEF GetEntry
<1>12. ASSUME NEW r \in Requests, CopyForClone(r) PROVE LockInv'
  BY <1>12 DEF CopyForClone, Unused
<1>13. ASSUME NEW r \in Requests, CopyForFavorite(r) PROVE LockInv'
  BY <1>13 DEF CopyForFavorite
<1>14. ASSUME NEW r \in Requests, Create(r) PROVE LockInv'
  BY <1>14 DEF Create
<1>15. ASSUME NEW r \in Requests, NotFound(r) PROVE LockInv'
  BY <1>15 DEF NotFound
<1>16. ASSUME NEW r \in Requests, Update(r) PROVE LockInv'
  BY <1>16 DEF Update
<1>17. ASSUME NEW r \in Requests, Updated(r) PROVE LockInv'
  BY <1>17 DEF Updated
<1>18. ASSUME NEW r \in Requests, Delete(r) PROVE LockInv'
  BY <1>18 DEF Delete
<1>19. ASSUME NEW r \in Requests, Succeed(r) PROVE LockInv'
  BY <1>19 DEF Succeed, Return
<1>20. ASSUME NEW r \in Requests, CreateFails(r) PROVE LockInv'
  BY <1>20 DEF CreateFails, Return
<1>21. ASSUME NEW r \in Requests, UpdateFails(r) PROVE LockInv'
  BY <1>21 DEF UpdateFails, Return
<1>22. ASSUME NEW r \in Requests, DeleteFails(r) PROVE LockInv'
  BY <1>22 DEF DeleteFails, Return
<1>23. ASSUME NEW a \in Actors, SaveBegins(a) PROVE LockInv'
  BY <1>23 DEF SaveBegins
<1>24. ASSUME NEW a \in Actors, TmpWritten(a) PROVE LockInv'
  BY <1>24 DEF TmpWritten
<1>25. ASSUME NEW a \in Actors, Renamed(a) PROVE LockInv'
  BY <1>25 DEF Renamed
<1>26. ASSUME NEW a \in Actors, SaveFails(a) PROVE LockInv'
  BY <1>26 DEF SaveFails
<1>27. CASE UNCHANGED vars
  BY <1>27 DEF vars
<1>. QED
  BY <1>1, <1>2, <1>3, <1>4, <1>5, <1>6, <1>7, <1>8, <1>9, <1>10, <1>11, <1>12, <1>13, <1>14, <1>15, <1>16, <1>17, <1>18, <1>19, <1>20, <1>21, <1>22, <1>23, <1>24, <1>25, <1>26, <1>27 DEF Next, Start, Handle, Save

(* A request keeps what it submitted.                                      *)
LEMMA RequestFrame ==
  ASSUME NEW q \in Requests, RequestOK(q),
         pc'[q] = pc[q], kind'[q] = kind[q], id'[q] = id[q], source'[q] = source[q],
         want'[q] = want[q], prev'[q] = prev[q], answer'[q] = answer[q],
         pc[q] = "copy" => info'[source[q]] \in Values
  PROVE  RequestOK(q)'
  BY DEF RequestOK

LEMMA RequestOther ==
  ASSUME TypeOK, RequestInv, NEW r \in Requests, NEW q \in Requests, q # r, Handle(r)
  PROVE  RequestOK(q)'
<1> USE DEF TypeOK, Actors, Go, Return, reqVars
<1>1. RequestOK(q) /\ RequestOK(r)
  BY DEF RequestInv
<1>2. pc'[q] = pc[q] /\ kind'[q] = kind[q] /\ id'[q] = id[q]
  BY DEF Handle, SubmitCreate, SubmitUpdate, SubmitDelete, GetEntry, CopyForClone, CopyForFavorite,
         Create, NotFound, Update, Updated, Delete, Succeed, CreateFails, UpdateFails, DeleteFails
<1>3. source'[q] = source[q] /\ want'[q] = want[q]
  BY DEF Handle, SubmitCreate, SubmitUpdate, SubmitDelete, GetEntry, CopyForClone, CopyForFavorite,
         Create, NotFound, Update, Updated, Delete, Succeed, CreateFails, UpdateFails, DeleteFails
<1>4. prev'[q] = prev[q] /\ answer'[q] = answer[q]
  BY DEF Handle, SubmitCreate, SubmitUpdate, SubmitDelete, GetEntry, CopyForClone, CopyForFavorite,
         Create, NotFound, Update, Updated, Delete, Succeed, CreateFails, UpdateFails, DeleteFails
<1>5. info' = info \/ \E v \in Values : info' = [info EXCEPT ![id[r]] = v]
  <2>1. CASE Create(r) \/ Updated(r)
    <3>1. want[r] \in Values
      BY <1>1, <2>1 DEF RequestOK, Unsaved, Create, Updated
    <3>. QED
      BY <3>1, <2>1 DEF Create, Updated
  <2>2. CASE UpdateFails(r)
    <3>1. prev[r] \in Values
      BY <1>1, <2>2 DEF RequestOK, Unsaved, UpdateFails
    <3>. QED
      BY <3>1, <2>2 DEF UpdateFails
  <2>. QED
    BY <2>1, <2>2 DEF Handle, SubmitCreate, SubmitUpdate, SubmitDelete, GetEntry, CopyForClone,
         CopyForFavorite, NotFound, Update, Delete, Succeed, CreateFails, DeleteFails
<1>6. pc[q] = "copy" => info'[source[q]] \in Values
  <2>1. pc[q] = "copy" => source[q] \in Ids /\ info[source[q]] \in Values
    BY <1>1 DEF RequestOK
  <2>. QED
    BY <1>5, <2>1 DEF Contents
<1>. QED
  BY <1>1, <1>2, <1>3, <1>4, <1>6, RequestFrame

LEMMA RequestStep == IInv /\ [Next]_vars => RequestInv'
<1> SUFFICES ASSUME TypeOK, TypeOK', LockInv, RequestInv, FileInv, [Next]_vars,
                    NEW q \in Requests
             PROVE  RequestOK(q)'
  BY TypeStep DEF IInv, RequestInv
<1>0. RequestOK(q)
  BY DEF RequestInv
<1>a. q # Boot /\ (pc[q] \in {"start", "done"} \/ Serving)
  BY NamesAssumption DEF LockInv
<1> USE NamesAssumption, ValuesAssumption DEF Actors
<1>1. CASE KeyFound \/ KeyCreated \/ KeyWritten \/ Migrated
  <2>1. pc'[q] = pc[q] /\ info' = info /\ reqVars' = reqVars
    BY <1>1 DEF TypeOK, KeyFound, KeyCreated, KeyWritten, Migrated, Go, diskVars
  <2>. QED
    BY <1>0, <2>1 DEF reqVars, RequestOK
<1>2. CASE Load
  <2>1. pc'[q] = pc[q] /\ reqVars' = reqVars
    BY <1>2 DEF TypeOK, Load, Go
  <2>2. pc[q] # "copy"
    BY <1>2, <1>a DEF Load, Serving
  <2>. QED
    BY <1>0, <2>1, <2>2, RequestFrame DEF reqVars
<1>3. CASE Stop
  <2>1. pc'[q] = IF pc[q] = "start" THEN "start" ELSE "done"
    BY <1>3 DEF Stop
  <2>2. kind'[q] = kind[q] /\ id'[q] = id[q] /\ want'[q] = want[q]
    BY <1>3 DEF Stop
  <2>3. answer'[q] = IF pc[q] \notin {"start", "done"} THEN "lost" ELSE answer[q]
    BY <1>3 DEF Stop
  <2>. QED
    BY <1>0, <2>1, <2>2, <2>3 DEF RequestOK, Unsaved
<1>4. ASSUME NEW r \in Requests, Handle(r), q # r PROVE RequestOK(q)'
  BY <1>4, RequestOther
<1>5. ASSUME SubmitCreate(q) \/ SubmitUpdate(q) \/ SubmitDelete(q) PROVE RequestOK(q)'
  <2>1. Entered \subseteq Values
    BY DEF Entered, Values
  <2>. QED
    BY <1>5, <1>0, <2>1 DEF TypeOK, SubmitCreate, SubmitUpdate, SubmitDelete, RequestOK, Unsaved, Go, Unused
<1>6. ASSUME GetEntry(q) PROVE RequestOK(q)'
  <2>1. \A i \in conns : i \in Ids /\ info[i] \in Values
    BY DEF FileInv, EntryOK, TypeOK
  <2>. QED
    BY <1>6, <1>0, <2>1 DEF TypeOK, GetEntry, RequestOK, Unsaved, Go
<1>7. ASSUME CopyForClone(q) \/ CopyForFavorite(q) PROVE RequestOK(q)'
  <2>1. pc'[q] = "ready" /\ kind'[q] = kind[q] /\ kind[q] \in {"clone", "favorite"} /\ answer'[q] = answer[q]
        /\ pc[q] = "copy"
    BY <1>7 DEF TypeOK, CopyForClone, CopyForFavorite, Go
  <2>2. id'[q] \in Ids /\ want'[q] # None /\ want'[q] \in Values \cup {None}
    <3>1. id' \in [Requests -> Ids \cup {None}] /\ want' \in [Requests -> Values \cup {None}]
      BY DEF TypeOK
    <3>2. source[q] \in Ids
      BY <1>0, <2>1 DEF RequestOK
    <3>3. Readable(source[q]) \subseteq Values
      BY <1>0, <2>1, <3>2, ReadableValues DEF RequestOK
    <3>. QED
      BY <1>7, <3>1, <3>2, <3>3 DEF TypeOK, CopyForClone, CopyForFavorite, Unused, Values
  <2>. QED
    BY <1>0, <2>1, <2>2 DEF RequestOK, Unsaved
<1>8. ASSUME Create(q) \/ Updated(q) \/ Delete(q) PROVE RequestOK(q)'
  BY <1>8, <1>0 DEF TypeOK, Create, Updated, Delete, RequestOK, Unsaved, Go, reqVars
<1>9. ASSUME Update(q) PROVE RequestOK(q)'
  <2>1. info[id[q]] \in Values
    BY <1>9 DEF Update, FileInv, EntryOK, TypeOK
  <2>. QED
    BY <1>9, <1>0, <2>1 DEF TypeOK, Update, RequestOK, Unsaved, Go, reqVars
<1>10. ASSUME NotFound(q) \/ Succeed(q) \/ CreateFails(q) \/ UpdateFails(q) \/ DeleteFails(q)
       PROVE  RequestOK(q)'
  BY <1>10, <1>0 DEF TypeOK, NotFound, Succeed, CreateFails, UpdateFails, DeleteFails, Return,
                     RequestOK, Unsaved, Go
<1>11. ASSUME NEW a \in Actors, Save(a) PROVE RequestOK(q)'
  <2>1. info' = info /\ reqVars' = reqVars
    BY <1>11 DEF Save, SaveBegins, TmpWritten, Renamed, SaveFails
  <2>2. \/ pc'[q] = pc[q]
        \/ pc[q] \in Saving /\ pc'[q] \in {"tmp", "rename", "saved", "failed"}
    BY <1>11 DEF TypeOK, Save, SaveBegins, TmpWritten, Renamed, SaveFails, Go, Saving
  <2>. QED
    BY <1>0, <2>1, <2>2 DEF RequestOK, reqVars, Saving, Unsaved
<1>12. CASE UNCHANGED vars
  BY <1>0, <1>12 DEF vars, reqVars, RequestOK
<1>13. CASE MigrationFails \/ Crash
  BY <1>3, <1>13 DEF MigrationFails, Crash
<1>. QED
  BY <1>1, <1>2, <1>4, <1>5, <1>6, <1>7, <1>8, <1>9, <1>10, <1>11, <1>12, <1>13
     DEF Next, Start, Handle

(* Steps of a request that does not hold the lock change no shared state   *)
(* and nothing of the other requests.                                      *)
Outside(r) ==
  \/ SubmitCreate(r) \/ SubmitUpdate(r) \/ SubmitDelete(r)
  \/ GetEntry(r) \/ CopyForClone(r) \/ CopyForFavorite(r) \/ NotFound(r)

LEMMA OutsideFrame ==
  ASSUME TypeOK, NEW r \in Requests, Outside(r)
  PROVE  /\ UNCHANGED <<file, tmp, conns, info, mu, prev>>
         /\ pc[r] \in {"start", "copy", "ready"} /\ pc'[r] \in {"copy", "ready", "done"}
         /\ \A a \in Actors \ {r} : pc'[a] = pc[a]
         /\ \A q \in Requests \ {r} :
              kind'[q] = kind[q] /\ id'[q] = id[q] /\ want'[q] = want[q] /\ answer'[q] = answer[q]
<1> USE DEF TypeOK, Go, diskVars
<1>1. UNCHANGED <<file, tmp, conns, info, mu, prev>>
  BY DEF Outside, SubmitCreate, SubmitUpdate, SubmitDelete, GetEntry, CopyForClone, CopyForFavorite,
         NotFound
<1>2. pc[r] \in {"start", "copy", "ready"}
  BY DEF Outside, SubmitCreate, SubmitUpdate, SubmitDelete, GetEntry, CopyForClone, CopyForFavorite,
         NotFound
<1>3. pc'[r] \in {"copy", "ready", "done"} /\ \A a \in Actors \ {r} : pc'[a] = pc[a]
  BY DEF Outside, SubmitCreate, SubmitUpdate, SubmitDelete, GetEntry, CopyForClone, CopyForFavorite,
         NotFound, Actors
<1>4. \A q \in Requests \ {r} : kind'[q] = kind[q] /\ id'[q] = id[q]
  BY DEF Outside, SubmitCreate, SubmitUpdate, SubmitDelete, GetEntry, CopyForClone, CopyForFavorite,
         NotFound
<1>5. \A q \in Requests \ {r} : want'[q] = want[q] /\ answer'[q] = answer[q]
  BY DEF Outside, SubmitCreate, SubmitUpdate, SubmitDelete, GetEntry, CopyForClone, CopyForFavorite,
         NotFound
<1>. QED
  BY <1>1, <1>2, <1>3, <1>4, <1>5

(* Without a server there are no requests under way.                       *)
LEMMA NoRequests ==
  ASSUME TypeOK, LockInv, ~Serving
  PROVE  /\ \A r \in Requests : pc[r] \in {"start", "done"} /\ mu # r
         /\ pc[Boot] \in {"start", "key", "load"} => mu = None
<1>1. \A r \in Requests : pc[r] \in {"start", "done"}
  BY DEF LockInv
<1>2. \A r \in Requests : mu # r
  BY <1>1 DEF LockInv, Unsaved, Actors
<1>3. pc[Boot] \in {"start", "key", "load"} => mu # Boot
  BY DEF LockInv, Unsaved, Actors
<1>. QED
  BY <1>1, <1>2, <1>3 DEF TypeOK, Actors

(* The holder of the lock is the only one with unsaved changes.            *)
LEMMA Holder ==
  ASSUME LockInv, NEW a \in Actors, pc[a] \in Unsaved \cup {"saved"}
  PROVE  mu = a
  BY DEF LockInv

(* The id of a new connection stays unused until it is created.            *)
LEMMA NewIdFrame ==
  ASSUME NEW q \in Requests, NewIdOK(q), UNCHANGED <<id, kind>>,
         \A p \in Requests : pc'[p] = "ready" => pc[p] = "ready",
         pc[q] = "ready" /\ kind[q] \in {"create", "clone"} =>
           /\ id[q] \notin conns'
           /\ file'.data[id[q]] = None
           /\ \A p \in Requests : mu' = p => id[p] # id[q]
  PROVE  NewIdOK(q)'
  BY DEF NewIdOK

LEMMA NewIdStep == IInv /\ [Next]_vars => NewIdInv'
<1> SUFFICES ASSUME TypeOK, LockInv, RequestInv, NewIdInv, FileInv, TmpInv, [Next]_vars,
                    NEW q \in Requests
             PROVE  NewIdOK(q)'
  BY DEF IInv, NewIdInv
<1>0. NewIdOK(q)
  BY DEF NewIdInv
<1>1. CASE Start
  <2>1. pc[q] \in {"start", "done"} 
    <3>1. ~Serving
      BY <1>1 DEF Start, KeyFound, KeyCreated, KeyWritten, Load, Migrated, Serving
    <3>. QED
      BY <3>1, NoRequests
  <2>2. pc'[q] = pc[q]
    BY <1>1, NamesAssumption
       DEF Start, KeyFound, KeyCreated, KeyWritten, Load, Migrated, TypeOK, Go, Actors
  <2>. QED
    BY <2>1, <2>2 DEF NewIdOK
<1>2. CASE Stop
  <2>1. pc'[q] \in {"start", "done"}
    BY <1>2, NamesAssumption DEF Stop, Actors
  <2>. QED
    BY <2>1 DEF NewIdOK
<1>3. ASSUME SubmitCreate(q) \/ CopyForClone(q) PROVE NewIdOK(q)'
  <2>1. PICK i \in Unused : id' = [id EXCEPT ![q] = i]
    BY <1>3 DEF SubmitCreate, CopyForClone
  <2>2. i \notin conns
    BY <2>1, ValuesAssumption DEF Unused, FileInv, EntryOK, TypeOK
  <2>3. UNCHANGED <<file, conns, mu>> /\ pc[q] \in {"start", "copy"}
    BY <1>3 DEF SubmitCreate, CopyForClone, diskVars
  <2>4. mu # q
    BY <2>3 DEF LockInv, Unsaved, Actors
  <2>. QED
    BY <2>1, <2>2, <2>3, <2>4 DEF NewIdOK, Unused, TypeOK
<1>4. ASSUME SubmitUpdate(q) \/ SubmitDelete(q) \/ GetEntry(q) \/ CopyForFavorite(q) \/ NotFound(q)
      PROVE  NewIdOK(q)'
  <2>1. kind'[q] \notin {"create", "clone"} \/ pc'[q] # "ready"
    BY <1>4 DEF SubmitUpdate, SubmitDelete, GetEntry, CopyForFavorite, NotFound, TypeOK, Go, Actors
  <2>. QED
    BY <2>1 DEF NewIdOK
<1>5. ASSUME NEW r \in Requests, Outside(r), r # q PROVE NewIdOK(q)'
  <2>1. pc'[q] = pc[q] /\ kind'[q] = kind[q] /\ id'[q] = id[q] /\ UNCHANGED <<file, conns, mu>>
    BY <1>5, OutsideFrame DEF Actors
  <2>2. mu # r
    BY <1>5, OutsideFrame DEF LockInv, Unsaved, Actors
  <2>3. pc'[r] = "ready" /\ kind'[r] \in {"create", "clone"} => \A p \in Requests : id[p] # id'[r]
    BY <1>5 DEF Outside, SubmitCreate, SubmitUpdate, SubmitDelete, GetEntry, CopyForClone,
                CopyForFavorite, NotFound, TypeOK, Go, Actors, Unused
  <2>4. \A p \in Requests \ {r} : pc'[p] = pc[p] /\ kind'[p] = kind[p] /\ id'[p] = id[p]
    BY <1>5, OutsideFrame DEF Actors
  <2>. QED
    BY <1>0, <2>1, <2>2, <2>3, <2>4 DEF NewIdOK
<1>6. ASSUME NEW r \in Requests, Create(r) \/ Update(r) \/ Delete(r) PROVE NewIdOK(q)'
  <2>1. /\ UNCHANGED <<id, kind, file>> /\ mu' = r
        /\ pc[r] = "ready"
        /\ \A p \in Requests : pc'[p] = "ready" => pc[p] = "ready" /\ p # r
    BY <1>6 DEF Create, Update, Delete, TypeOK, Go, diskVars, reqVars, Actors
  <2>2. CASE q = r
    BY <2>1, <2>2 DEF NewIdOK
  <2>3. CASE q # r
    <3>1. \/ kind[r] \in {"create", "clone"} /\ conns' = conns \cup {id[r]}
          \/ id[r] \in conns /\ conns' \subseteq conns
      BY <1>6 DEF Create, Update, Delete
    <3>2. pc[q] = "ready" /\ kind[q] \in {"create", "clone"} => id[r] # id[q]
      BY <1>0, <2>1, <2>3, <3>1 DEF NewIdOK
    <3>. QED
      BY <1>0, <2>1, <2>3, <3>1, <3>2 DEF NewIdOK
  <2>. QED
    BY <2>2, <2>3
<1>7. ASSUME NEW r \in Requests,
             Updated(r) \/ Succeed(r) \/ CreateFails(r) \/ UpdateFails(r) \/ DeleteFails(r)
      PROVE  NewIdOK(q)'
  <2>1. /\ UNCHANGED <<id, kind, file>> /\ mu' \in {mu, None}
        /\ conns' \subseteq conns
        /\ \A p \in Requests : pc'[p] = "ready" => pc[p] = "ready"
    BY <1>7 DEF Updated, Succeed, CreateFails, UpdateFails, DeleteFails, Return, TypeOK, Go, diskVars,
                reqVars, Actors
  <2>. QED
    BY <1>0, <2>1, NewIdFrame, NamesAssumption DEF NewIdOK
<1>8. ASSUME NEW a \in Actors, Save(a) PROVE NewIdOK(q)'
  <2>1. /\ UNCHANGED <<id, kind, conns, mu>>
        /\ \A p \in Requests : pc'[p] = "ready" => pc[p] = "ready"
    BY <1>8 DEF Save, SaveBegins, TmpWritten, Renamed, SaveFails, TypeOK, Go, diskVars, reqVars, Actors
  <2>2. file' = file \/ file' = Snapshot
    BY <1>8 DEF Save, SaveBegins, TmpWritten, Renamed, SaveFails, TmpInv, diskVars
  <2>3. pc[q] = "ready" /\ kind[q] \in {"create", "clone"} =>
          id[q] \in Ids /\ id[q] \notin conns /\ file.data[id[q]] = None
    BY <1>0 DEF NewIdOK, RequestInv, RequestOK
  <2>4. pc[q] = "ready" /\ kind[q] \in {"create", "clone"} => file'.data[id[q]] = None
    BY <2>2, <2>3 DEF Snapshot
  <2>. QED
    BY <1>0, <2>1, <2>3, <2>4, NewIdFrame DEF NewIdOK
<1>9. CASE UNCHANGED vars
  BY <1>0, <1>9 DEF vars, diskVars, reqVars, NewIdOK
<1>. QED
  BY <1>1, <1>2, <1>3, <1>4, <1>5, <1>6, <1>7, <1>8, <1>9
     DEF Next, Handle, MigrationFails, Crash, Outside

(* Memory and file differ only where the holder of the lock is changing.   *)
LEMMA EncryptedStep == IInv /\ [Next]_vars => (~file.torn /\ (Serving => file.encrypted \/ file.data = Empty))'
<1> SUFFICES ASSUME TypeOK, LockInv, FileInv, TmpInv, [Next]_vars
             PROVE  (~file.torn /\ (Serving => file.encrypted \/ file.data = Empty))'
  BY DEF IInv
<1>1. CASE Load
  <2>1. file.data \in Contents
    BY DEF TypeOK, Files
  <2>2. conns' = {} => file.data = Empty
    BY <1>1, <2>1 DEF Load, Contents, Empty
  <2>3. pc'[Boot] = "done" => file.encrypted \/ conns' = {}
    BY <1>1 DEF Load, TypeOK, Go, Actors
  <2>. QED
    BY <1>1, <2>2, <2>3 DEF Load, diskVars, Serving
<1>2. ASSUME NEW a \in Actors, Save(a) PROVE (~file.torn /\ (Serving => file.encrypted \/ file.data = Empty))'
  <2>1. \/ UNCHANGED file /\ (Serving' => Serving)
        \/ file' = Snapshot
    BY <1>2 DEF Save, SaveBegins, TmpWritten, Renamed, SaveFails, TmpInv, diskVars, Serving, TypeOK, Go,
                Actors
  <2>. QED
    BY <2>1 DEF FileInv, Snapshot
<1>3. CASE Migrated
  BY <1>3 DEF Migrated, TmpInv, FileInv, diskVars
<1>4. CASE KeyFound \/ KeyCreated \/ KeyWritten
  BY <1>4 DEF KeyFound, KeyCreated, KeyWritten, FileInv, diskVars, Serving, TypeOK, Go, Actors
<1>5. CASE Stop
  BY <1>5 DEF Stop, FileInv, diskVars, Serving, Actors
<1>6. ASSUME NEW r \in Requests, Handle(r) PROVE UNCHANGED file /\ (Serving' => Serving)
  <2>1. UNCHANGED file /\ pc'[Boot] = pc[Boot]
    <3>1. CASE Outside(r)
      BY <3>1, OutsideFrame, NamesAssumption DEF Actors
    <3>2. CASE Create(r) \/ Update(r) \/ Updated(r) \/ Delete(r)
      BY <3>2, NamesAssumption DEF Create, Update, Updated, Delete, TypeOK, Go, diskVars, Actors
    <3>3. CASE Succeed(r) \/ CreateFails(r) \/ UpdateFails(r) \/ DeleteFails(r)
      BY <3>3, NamesAssumption
         DEF Succeed, CreateFails, UpdateFails, DeleteFails, Return, TypeOK, Go, diskVars, Actors
    <3>. QED
      BY <1>6, <3>1, <3>2, <3>3 DEF Handle, Outside
  <2>. QED
    BY <2>1 DEF Serving
<1>7. CASE UNCHANGED vars
  BY <1>7 DEF vars, diskVars, FileInv, Serving
<1>. QED
  BY <1>1, <1>2, <1>3, <1>4, <1>5, <1>6, <1>7 DEF Next, Start, MigrationFails, Crash, FileInv

LEMMA EntryStep == ASSUME IInv, [Next]_vars, NEW i \in Ids PROVE EntryOK(i)'
<1> USE NamesAssumption, ValuesAssumption
<1>0. /\ TypeOK /\ LockInv /\ RequestInv /\ FileInv /\ ChangeInv /\ TmpInv
      /\ EntryOK(i)
  BY DEF IInv, FileInv
<1>1. CASE KeyFound \/ KeyCreated \/ KeyWritten
  <2>1. ~Serving /\ pc[Boot] \in {"start", "key"} /\ ~Serving' /\ UNCHANGED <<mu, conns>>
    BY <1>0, <1>1 DEF KeyFound, KeyCreated, KeyWritten, Serving, TypeOK, Go, Actors
  <2>2. mu = None /\ conns = {}
    BY <1>0, <2>1, NoRequests DEF LockInv
  <2>. QED
    BY <2>1, <2>2 DEF EntryOK
<1>2. CASE Load
  <2>1. /\ conns' = {j \in Ids : file.data[j] # None} /\ info' = file.data /\ file' = file
        /\ file.data \in Contents
    BY <1>0, <1>2 DEF Load, diskVars, TypeOK, Files
  <2>. QED
    BY <2>1 DEF EntryOK, Contents
<1>3. CASE Migrated
  <2>1. /\ UNCHANGED <<file, conns, info>> /\ mu = Boot /\ conns = {j \in Ids : file.data[j] # None}
    BY <1>0, <1>3, Holder DEF Migrated, diskVars, TmpInv, Serving, Actors
  <2>. QED
    BY <1>0, <2>1 DEF EntryOK
<1>4. CASE Stop
  BY <1>4 DEF Stop, EntryOK, Serving, Actors
<1>5. ASSUME NEW r \in Requests, Outside(r) PROVE EntryOK(i)'
  <2>1. UNCHANGED <<file, conns, info, mu>> /\ mu # r /\ (Serving' <=> Serving)
    BY <1>0, <1>5, OutsideFrame DEF LockInv, Unsaved, Actors, Serving
  <2>2. \A q \in Requests : q # r => pc'[q] = pc[q] /\ id'[q] = id[q] /\ kind'[q] = kind[q] /\ answer'[q] = answer[q]
    BY <1>0, <1>5, OutsideFrame DEF Actors
  <2>3. answer[r] = "none"
    BY <1>0, <1>5, OutsideFrame DEF RequestInv, RequestOK
  <2>4. i \notin conns /\ (\E p \in Requests : kind[p] = "delete" /\ id[p] = i /\ answer[p] = "error") =>
          \E p \in Requests : kind'[p] = "delete" /\ id'[p] = i /\ answer'[p] = "error"
    BY <2>2, <2>3
  <2>. QED
    BY <1>0, <2>1, <2>2, <2>4 DEF EntryOK
<1>6. ASSUME NEW r \in Requests, Create(r) PROVE EntryOK(i)'
  <2>1. /\ mu = None /\ mu' = r /\ pc'[r] = "save" /\ UNCHANGED <<file, kind, id, answer>>
        /\ conns' = conns \cup {id[r]} /\ info' = [info EXCEPT ![id[r]] = want[r]]
        /\ Serving
    BY <1>0, <1>6 DEF Create, TypeOK, Go, diskVars, reqVars, Actors, LockInv
  <2>2. want[r] \in Values /\ id[r] \in Ids
    BY <1>0, <1>6 DEF RequestInv, RequestOK, Create
  <2>3. CASE i = id[r]
    BY <1>0, <2>1, <2>2, <2>3 DEF EntryOK, TypeOK, Contents, Unsaved
  <2>4. CASE i # id[r]
    BY <1>0, <2>1, <2>2, <2>4 DEF EntryOK, TypeOK, Contents
  <2>. QED
    BY <2>3, <2>4
<1>7. ASSUME NEW r \in Requests, Update(r) PROVE EntryOK(i)'
  <2>1. /\ mu = None /\ mu' = r /\ UNCHANGED <<file, conns, info, kind, id, answer>> /\ Serving
    BY <1>0, <1>7 DEF Update, diskVars, LockInv
  <2>. QED
    BY <1>0, <2>1 DEF EntryOK
<1>8. ASSUME NEW r \in Requests, Updated(r) PROVE EntryOK(i)'
  <2>1. /\ mu = r /\ mu' = r /\ pc[r] = "write" /\ pc'[r] = "save" /\ Serving
        /\ UNCHANGED <<file, conns, kind, id, answer>> /\ info' = [info EXCEPT ![id[r]] = want[r]]
    BY <1>0, <1>8, Holder DEF Updated, TypeOK, Go, diskVars, reqVars, Actors, LockInv, Unsaved
  <2>2. want[r] \in Values /\ id[r] \in Ids
    BY <1>0, <2>1 DEF RequestInv, RequestOK, Unsaved
  <2>3. CASE i = id[r]
    BY <1>0, <2>1, <2>2, <2>3 DEF EntryOK, TypeOK, Contents, Unsaved
  <2>4. CASE i # id[r]
    BY <1>0, <2>1, <2>2, <2>4 DEF EntryOK, TypeOK, Contents
  <2>. QED
    BY <2>3, <2>4
<1>9. ASSUME NEW r \in Requests, Delete(r) PROVE EntryOK(i)'
  <2>1. /\ mu = None /\ mu' = r /\ UNCHANGED <<file, info, kind, id, answer>> /\ Serving
        /\ conns' = conns \ {id[r]} /\ kind[r] = "delete"
    BY <1>0, <1>9 DEF Delete, diskVars, reqVars, LockInv
  <2>. QED
    BY <1>0, <2>1 DEF EntryOK
<1>10. ASSUME NEW r \in Requests, Succeed(r) PROVE EntryOK(i)'
  <2>1. mu = r /\ pc[r] = "saved" /\ UNCHANGED <<file, conns, info>>
    BY <1>0, <1>10, Holder DEF Succeed, diskVars, Actors
  <2>2. i \notin conns => file.data[i] = None
    BY <1>0, <2>1 DEF ChangeInv, ChangeOK
  <2>. QED
    BY <1>0, <2>1, <2>2 DEF EntryOK, Unsaved
<1>11. ASSUME NEW r \in Requests, CreateFails(r) \/ UpdateFails(r) \/ DeleteFails(r) PROVE EntryOK(i)'
  <2>1. /\ mu = r /\ mu' = None /\ pc[r] = "failed" /\ UNCHANGED <<file, kind, id>> /\ Serving
        /\ answer' = [answer EXCEPT ![r] = "error"]
    BY <1>0, <1>11, Holder DEF CreateFails, UpdateFails, DeleteFails, Return, diskVars, Actors, LockInv, Unsaved
  <2>2. RequestOK(r) /\ ChangeOK(r)
    BY <1>0 DEF RequestInv, ChangeInv
  <2>3. \A p \in Requests : answer[p] = "error" => answer'[p] = "error"
    BY <1>0, <2>1 DEF TypeOK
  <2>4. CASE CreateFails(r)
    <3>1. /\ conns' = conns \ {id[r]} /\ info' = info /\ kind[r] # "delete"
          /\ file.data[id[r]] = None
      BY <2>1, <2>2, <2>4 DEF CreateFails, ChangeOK, Unsaved
    <3>. QED
      BY <1>0, <2>1, <2>3, <3>1 DEF EntryOK
  <2>5. CASE UpdateFails(r)
    <3>1. /\ conns' = conns /\ info' = [info EXCEPT ![id[r]] = prev[r]] /\ kind[r] # "delete"
          /\ prev[r] = file.data[id[r]] /\ id[r] \in conns /\ prev[r] \in Values
      BY <2>1, <2>2, <2>5 DEF UpdateFails, ChangeOK, RequestOK, Unsaved
    <3>2. CASE i = id[r]
      BY <1>0, <2>1, <3>1, <3>2 DEF EntryOK, TypeOK, Contents
    <3>3. CASE i # id[r]
      BY <1>0, <2>1, <2>3, <3>1, <3>3 DEF EntryOK, TypeOK, Contents
    <3>. QED
      BY <3>2, <3>3
  <2>6. CASE DeleteFails(r)
    <3>1. conns' = conns /\ info' = info /\ kind[r] = "delete" /\ id[r] \notin conns /\ answer'[r] = "error"
      BY <1>0, <2>1, <2>2, <2>6 DEF DeleteFails, ChangeOK, Unsaved, TypeOK
    <3>. QED
      BY <1>0, <2>1, <2>3, <3>1 DEF EntryOK
  <2>. QED
    BY <1>11, <2>4, <2>5, <2>6
<1>12. ASSUME NEW a \in Actors, SaveBegins(a) \/ TmpWritten(a) \/ SaveFails(a) PROVE EntryOK(i)'
  <2>1. /\ mu = a /\ UNCHANGED <<file, conns, info, mu, kind, id, answer>>
        /\ pc[a] \in Saving /\ pc'[a] \in {"tmp", "rename", "failed"}
        /\ (Serving' <=> Serving)
    BY <1>0, <1>12, Holder
       DEF SaveBegins, TmpWritten, SaveFails, diskVars, reqVars, Saving, Unsaved, TypeOK, Go, Actors, Serving
  <2>. QED
    BY <1>0, <2>1 DEF EntryOK, Saving, Unsaved
<1>13. ASSUME NEW a \in Actors, Renamed(a) PROVE EntryOK(i)'
  <2>1. file' = Snapshot /\ UNCHANGED <<conns, info>>
    BY <1>0, <1>13 DEF Renamed, TmpInv
  <2>. QED
    BY <1>0, <2>1 DEF EntryOK, Snapshot
<1>14. CASE UNCHANGED vars
  BY <1>0, <1>14 DEF vars, diskVars, reqVars, EntryOK, Serving
<1>. QED
  BY <1>1, <1>2, <1>3, <1>4, <1>5, <1>6, <1>7, <1>8, <1>9, <1>10, <1>11, <1>12, <1>13, <1>14
     DEF Next, Start, Save, Handle, Outside, MigrationFails, Crash

(* The holder of the lock knows what it has changed.                       *)
LEMMA ChangeStep == ASSUME IInv, [Next]_vars, NEW q \in Requests PROVE ChangeOK(q)'
<1> USE NamesAssumption, ValuesAssumption
<1>0. /\ TypeOK /\ LockInv /\ RequestInv /\ NewIdInv /\ FileInv /\ ChangeInv /\ TmpInv
      /\ RequestOK(q) /\ NewIdOK(q) /\ ChangeOK(q)
  BY DEF IInv, RequestInv, NewIdInv, ChangeInv
<1>a. (pc'[q] \in Unsaved \cup {"saved"} => mu' = q) /\ TypeOK'
  BY LockStep, TypeStep DEF LockInv, Actors
<1>b. pc'[q] \notin Unsaved \cup {"saved"} => ChangeOK(q)'
  BY DEF ChangeOK
<1>1. CASE Start \/ Stop
  <2>1. pc'[q] \in {"start", "done"}
    <3>1. CASE Start
      <4>1. ~Serving
        BY <3>1 DEF Start, KeyFound, KeyCreated, KeyWritten, Load, Migrated, Serving
      <4>2. pc'[q] = pc[q]
        BY <1>0, <3>1 DEF Start, KeyFound, KeyCreated, KeyWritten, Load, Migrated, TypeOK, Go, Actors
      <4>. QED
        BY <1>0, <4>1, <4>2, NoRequests
    <3>2. CASE Stop
      BY <3>2 DEF Stop, Actors
    <3>. QED
      BY <1>1, <3>1, <3>2
  <2>. QED
    BY <1>b, <2>1 DEF Unsaved
<1>2. ASSUME NEW r \in Requests, Outside(r) PROVE ChangeOK(q)'
  <2>1. CASE q = r
    BY <1>0, <1>2, <1>b, <2>1, OutsideFrame DEF Unsaved
  <2>2. CASE q # r
    <3>1. /\ pc'[q] = pc[q] /\ kind'[q] = kind[q] /\ id'[q] = id[q] /\ want'[q] = want[q] /\ prev' = prev
          /\ UNCHANGED <<file, conns, info>>
      BY <1>0, <1>2, <2>2, OutsideFrame DEF Actors
    <3>. QED
      BY <1>0, <3>1 DEF ChangeOK
  <2>. QED
    BY <2>1, <2>2
<1>3. ASSUME NEW r \in Requests, r # q, Create(r) \/ Update(r) \/ Updated(r) \/ Delete(r)
      PROVE  ChangeOK(q)'
  <2>1. mu' = r
    BY <1>0, <1>3, Holder DEF Create, Update, Updated, Delete, Actors, Unsaved
  <2>. QED
    BY <1>3, <1>a, <1>b, <2>1
<1>4. ASSUME NEW r \in Requests, Succeed(r) \/ CreateFails(r) \/ UpdateFails(r) \/ DeleteFails(r)
      PROVE  ChangeOK(q)'
  <2>1. mu' = None
    BY <1>4 DEF Succeed, CreateFails, UpdateFails, DeleteFails, Return
  <2>. QED
    BY <1>a, <1>b, <2>1
<1>5. ASSUME Create(q) PROVE ChangeOK(q)'
  <2>1. /\ pc'[q] = "save" /\ UNCHANGED <<file, kind, id, want>> /\ kind[q] \in {"create", "clone"}
        /\ conns' = conns \cup {id[q]} /\ info' = [info EXCEPT ![id[q]] = want[q]] /\ pc[q] = "ready"
    BY <1>0, <1>5 DEF Create, TypeOK, Go, diskVars, reqVars, Actors
  <2>2. id[q] \in Ids /\ file.data[id[q]] = None
    BY <1>0, <2>1 DEF RequestOK, NewIdOK
  <2>. QED
    BY <1>0, <2>1, <2>2 DEF ChangeOK, TypeOK, Contents
<1>6. ASSUME Update(q) PROVE ChangeOK(q)'
  <2>1. /\ pc'[q] = "write" /\ UNCHANGED <<file, conns, info, kind, id>> /\ kind[q] \in {"update", "favorite"}
        /\ prev'[q] = info[id[q]] /\ id[q] \in conns /\ mu = None
    BY <1>0, <1>6 DEF Update, TypeOK, Go, diskVars, Actors
  <2>2. file.data[id[q]] = info[id[q]]
    BY <1>0, <2>1 DEF FileInv, EntryOK, TypeOK
  <2>. QED
    BY <2>1, <2>2 DEF ChangeOK
<1>7. ASSUME Updated(q) PROVE ChangeOK(q)'
  <2>1. /\ pc[q] = "write" /\ pc'[q] = "save" /\ UNCHANGED <<file, conns, kind, id, want, prev>>
        /\ info' = [info EXCEPT ![id[q]] = want[q]]
    BY <1>0, <1>7 DEF Updated, TypeOK, Go, diskVars, reqVars, Actors
  <2>2. kind[q] \in {"update", "favorite"} /\ id[q] \in Ids
    BY <1>0, <2>1 DEF RequestOK, Unsaved
  <2>. QED
    BY <1>0, <2>1, <2>2 DEF ChangeOK, TypeOK, Contents, Unsaved
<1>8. ASSUME Delete(q) PROVE ChangeOK(q)'
  <2>1. /\ pc'[q] = "save" /\ UNCHANGED <<file, kind, id>> /\ kind[q] = "delete"
        /\ conns' = conns \ {id[q]} /\ id[q] \in conns /\ mu = None
    BY <1>0, <1>8 DEF Delete, TypeOK, Go, diskVars, reqVars, Actors
  <2>2. file.data[id[q]] # None
    BY <1>0, <2>1 DEF FileInv, EntryOK, TypeOK
  <2>. QED
    BY <2>1, <2>2 DEF ChangeOK
<1>9. ASSUME NEW a \in Actors, SaveBegins(a) \/ TmpWritten(a) \/ SaveFails(a) PROVE ChangeOK(q)'
  <2>1. UNCHANGED <<file, conns, info, kind, id, want, prev>>
    BY <1>9 DEF SaveBegins, TmpWritten, SaveFails, diskVars, reqVars
  <2>2. \/ pc'[q] = pc[q]
        \/ pc[q] \in Saving /\ pc'[q] \in {"tmp", "rename", "failed"}
    BY <1>0, <1>9 DEF SaveBegins, TmpWritten, SaveFails, TypeOK, Go, Actors, Saving
  <2>. QED
    BY <1>0, <2>1, <2>2 DEF ChangeOK, Saving, Unsaved
<1>10. ASSUME NEW a \in Actors, Renamed(a) PROVE ChangeOK(q)'
  <2>1. /\ UNCHANGED <<conns, info, kind, id, want, prev, mu>> /\ file' = Snapshot
        /\ pc[a] = "rename" /\ pc'[a] = "saved"
    BY <1>0, <1>10 DEF Renamed, TmpInv, reqVars, TypeOK, Go
  <2>2. CASE a # q
    <3>1. mu' # q
      BY <1>0, <2>1, <2>2, Holder DEF Unsaved
    <3>. QED
      BY <1>a, <1>b, <3>1
  <2>3. CASE a = q
    <3>1. \A i \in Ids : file'.data[i] = IF i \in conns THEN info[i] ELSE None
      BY <2>1 DEF Snapshot
    <3>2. file'.encrypted
      BY <2>1 DEF Snapshot
    <3>3. id[q] \in Ids
      BY <1>0, <2>1, <2>3 DEF RequestOK, Unsaved
    <3>4. file'.data[id[q]] = want[q]
      <4>1. CASE kind[q] \in {"create", "clone"}
        BY <1>0, <2>1, <2>3, <3>1, <3>3, <4>1 DEF ChangeOK, Unsaved
      <4>2. CASE kind[q] \in {"update", "favorite"}
        BY <1>0, <2>1, <2>3, <3>1, <3>3, <4>2 DEF ChangeOK, Unsaved
      <4>3. CASE kind[q] = "delete"
        BY <1>0, <2>1, <2>3, <3>1, <3>3, <4>3 DEF ChangeOK, RequestOK, Unsaved
      <4>4. kind[q] # "none"
        BY <1>0, <2>1, <2>3 DEF RequestOK
      <4>. QED
        BY <1>0, <4>1, <4>2, <4>3, <4>4 DEF TypeOK, Kinds
    <3>. QED
      BY <2>1, <2>3, <3>1, <3>2, <3>4 DEF ChangeOK, Unsaved
  <2>. QED
    BY <2>2, <2>3
<1>11. CASE UNCHANGED vars
  BY <1>0, <1>11 DEF vars, diskVars, reqVars, ChangeOK
<1>. QED
  BY <1>1, <1>2, <1>3, <1>4, <1>5, <1>6, <1>7, <1>8, <1>9, <1>10, <1>11
     DEF Next, Save, Handle, Outside, MigrationFails, Crash

(* The temporary file holds what is in memory.                             *)
LEMMA TmpStep == IInv /\ [Next]_vars => TmpInv'
<1> SUFFICES ASSUME IInv, [Next]_vars PROVE TmpInv'
  OBVIOUS
<1> USE NamesAssumption, ValuesAssumption
<1>0. TypeOK /\ LockInv /\ RequestInv /\ FileInv /\ TmpInv /\ LockInv' /\ TypeOK'
  BY LockStep, TypeStep DEF IInv
<1>a. ASSUME UNCHANGED <<file, tmp, conns, info, mu>>, Serving' <=> Serving,
             \A a \in Actors : pc'[a] \in {"rename", "saved"} => pc'[a] = pc[a]
      PROVE  TmpInv'
  BY <1>0, <1>a DEF TmpInv, Snapshot, Actors
<1>1. CASE KeyFound \/ KeyCreated \/ KeyWritten
  <2>1. ~Serving /\ pc[Boot] \in {"start", "key"} /\ ~Serving' /\ UNCHANGED <<mu, conns>>
        /\ pc'[Boot] \in {"key", "load"} /\ \A r \in Requests : pc'[r] = pc[r]
    BY <1>0, <1>1 DEF KeyFound, KeyCreated, KeyWritten, Serving, TypeOK, Go, Actors
  <2>2. mu = None /\ \A r \in Requests : pc[r] \in {"start", "done"}
    BY <1>0, <2>1, NoRequests
  <2>. QED
    BY <2>1, <2>2 DEF TmpInv, Actors
<1>2. CASE Load
  <2>1. /\ UNCHANGED file /\ conns' = {j \in Ids : file.data[j] # None} /\ mu' \in {Boot, None}
        /\ pc'[Boot] \in {"done", "save"} /\ (\A r \in Requests : pc'[r] = pc[r]) /\ ~Serving
    BY <1>0, <1>2 DEF Load, TypeOK, Go, diskVars, Actors, Serving
  <2>2. \A r \in Requests : pc[r] \in {"start", "done"}
    BY <1>0, <2>1, NoRequests
  <2>. QED
    BY <2>1, <2>2 DEF TmpInv, Actors
<1>3. CASE Migrated
  <2>1. mu' = None /\ pc'[Boot] = "done" /\ Serving'
    BY <1>0, <1>3 DEF Migrated, Serving, TypeOK, Go, Actors
  <2>2. \A a \in Actors : pc'[a] # "rename"
    BY <1>0, <2>1 DEF LockInv, Unsaved, Actors
  <2>. QED
    BY <2>1, <2>2 DEF TmpInv
<1>4. CASE Stop
  BY <1>4 DEF Stop, TmpInv, Actors
<1>5. ASSUME NEW r \in Requests, Outside(r) PROVE TmpInv'
  BY <1>0, <1>5, <1>a, OutsideFrame DEF Actors, Serving
<1>6. ASSUME NEW r \in Requests,
             \/ Create(r) \/ Update(r) \/ Updated(r) \/ Delete(r)
             \/ Succeed(r) \/ CreateFails(r) \/ UpdateFails(r) \/ DeleteFails(r)
      PROVE  TmpInv'
  <2>1. /\ mu' \in {r, None} /\ pc'[r] \in {"write", "save", "done"} /\ pc'[Boot] = pc[Boot]
        /\ pc[r] \notin {"start", "done"}
    <3>1. CASE Create(r) \/ Update(r) \/ Updated(r) \/ Delete(r)
      BY <1>0, <3>1, Holder DEF Create, Update, Updated, Delete, TypeOK, Go, Actors, Unsaved
    <3>2. CASE Succeed(r) \/ CreateFails(r) \/ UpdateFails(r) \/ DeleteFails(r)
      BY <1>0, <3>2 DEF Succeed, CreateFails, UpdateFails, DeleteFails, Return, TypeOK, Go, Actors
    <3>. QED
      BY <1>6, <3>1, <3>2
  <2>2. Serving' /\ pc'[Boot] # "saved"
    BY <1>0, <2>1 DEF LockInv, Serving
  <2>3. \A a \in Actors : pc'[a] # "rename"
    BY <1>0, <2>1 DEF LockInv, Unsaved, Actors
  <2>. QED
    BY <2>2, <2>3 DEF TmpInv
<1>7. ASSUME NEW a \in Actors, SaveBegins(a) \/ SaveFails(a) PROVE TmpInv'
  <2>1. /\ mu' = a /\ mu = a /\ pc'[a] \in {"tmp", "failed"} /\ (Serving' <=> Serving)
        /\ UNCHANGED <<file, conns>>
        /\ (pc'[Boot] = "saved" => pc[Boot] = "saved")
    BY <1>0, <1>7, Holder DEF SaveBegins, SaveFails, TypeOK, Go, Actors, Saving, Unsaved, Serving, diskVars
  <2>2. \A b \in Actors : pc'[b] # "rename"
    BY <1>0, <2>1 DEF LockInv, Unsaved
  <2>. QED
    BY <1>0, <2>1, <2>2 DEF TmpInv
<1>8. ASSUME NEW a \in Actors, TmpWritten(a) PROVE TmpInv'
  <2>1. /\ (Serving' <=> Serving) /\ UNCHANGED <<file, conns, info, mu>> /\ tmp' = Snapshot
        /\ (pc'[Boot] = "saved" => pc[Boot] = "saved")
    BY <1>0, <1>8 DEF TmpWritten, TypeOK, Go, Actors, Serving
  <2>. QED
    BY <1>0, <2>1 DEF TmpInv, Snapshot
<1>9. ASSUME NEW a \in Actors, Renamed(a) PROVE TmpInv'
  <2>1. /\ mu' = a /\ mu = a /\ pc'[a] = "saved" /\ (Serving' <=> Serving)
        /\ UNCHANGED <<info, conns>> /\ file' = Snapshot
    BY <1>0, <1>9, Holder DEF Renamed, TypeOK, Go, Actors, Unsaved, Serving, TmpInv
  <2>2. \A b \in Actors : pc'[b] # "rename"
    BY <1>0, <2>1 DEF LockInv, Unsaved
  <2>3. file'.encrypted /\ \A i \in Ids : file'.data[i] = IF i \in conns THEN info[i] ELSE None
    BY <2>1 DEF Snapshot
  <2>4. \A i \in conns : i \in Ids /\ info[i] # None
    BY <1>0 DEF FileInv, EntryOK, TypeOK
  <2>. QED
    BY <1>0, <2>1, <2>2, <2>3, <2>4 DEF TmpInv
<1>10. CASE UNCHANGED vars
  <2>1. UNCHANGED <<file, tmp, conns, info, mu, pc>>
    BY <1>10 DEF vars, diskVars
  <2>. QED
    BY <2>1, <1>a DEF Serving
<1>. QED
  BY <1>1, <1>2, <1>3, <1>4, <1>5, <1>6, <1>7, <1>8, <1>9, <1>10
     DEF Next, Start, Save, Handle, Outside, MigrationFails, Crash

LEMMA InitInv == Init => IInv
<1> SUFFICES ASSUME Init PROVE IInv
  OBVIOUS
<1> USE NamesAssumption, ValuesAssumption, MaxCrashesAssumption DEF Init, Actors
<1>0. Empty \in Contents /\ [Ids -> Entered \cup {None}] \subseteq Contents
  BY DEF Empty, Contents, Entered, Values
<1>a. file \in Files
  BY <1>0 DEF Files
<1>b. crashes \in 0..MaxCrashes
  OBVIOUS
<1>1. TypeOK
  BY <1>0, <1>a, <1>b DEF TypeOK, Kinds
<1>2. LockInv
  BY DEF LockInv, Unsaved
<1>3. RequestInv /\ NewIdInv /\ ChangeInv
  BY DEF RequestInv, RequestOK, NewIdInv, NewIdOK, ChangeInv, ChangeOK, Unsaved
<1>4. FileInv /\ TmpInv
  BY DEF FileInv, EntryOK, TmpInv, Serving
<1>. QED
  BY <1>1, <1>2, <1>3, <1>4 DEF IInv

THEOREM Invariance == Spec => []IInv
<1>1. IInv /\ [Next]_vars => IInv'
  <2> SUFFICES ASSUME IInv, [Next]_vars PROVE IInv'
    OBVIOUS
  <2>1. FileInv'
    BY EncryptedStep, EntryStep DEF FileInv
  <2>2. ChangeInv'
    BY ChangeStep DEF ChangeInv
  <2>. QED
    BY TypeStep, LockStep, RequestStep, NewIdStep, <2>1, <2>2, TmpStep DEF IInv
<1>. QED
  BY InitInv, <1>1, PTL DEF Spec

----------------------------------------------------------------------------
(* Every variable stays in its range: no step of a save, a failure or a    *)
(* crash leaves a value that the code could not represent.                 *)
THEOREM TypeCorrect == Spec => []TypeOK
<1>1. IInv => TypeOK
  BY DEF IInv
<1>. QED
  BY Invariance, <1>1, PTL

(* connections.json can be read at every moment, whichever save failed and *)
(* wherever the process stopped.                                           *)
THEOREM FileIsReadable == Spec => []FileReadable
<1>1. IInv => FileReadable
  BY DEF IInv, FileInv, FileReadable
<1>. QED
  BY Invariance, <1>1, PTL

(* Between saves, memory and file hold the same connections with the same  *)
(* data, but for entries whose deletion failed.                            *)
THEOREM MemoryAgreesWithFile == Spec => []MemoryIsFile
<1>1. IInv => MemoryIsFile
  BY NamesAssumption DEF IInv, FileInv, EntryOK, MemoryIsFile
<1>. QED
  BY Invariance, <1>1, PTL

(* A server that answers requests has no plaintext secrets on disk.        *)
THEOREM SecretsAreEncrypted == Spec => []SecretsEncrypted
<1>1. IInv => SecretsEncrypted
  BY DEF IInv, FileInv, SecretsEncrypted
<1>. QED
  BY Invariance, <1>1, PTL

(* Secrets are only encrypted with a key that is on disk.                  *)
THEOREM KeyComesFirst == Spec => []KeyBeforeData
<1>1. IInv => KeyBeforeData
  BY DEF IInv, LockInv, KeyBeforeData
<1>. QED
  BY Invariance, <1>1, PTL

----------------------------------------------------------------------------
(* The refinement *)

Stat == [r \in Requests |-> Status(r)]

LEMMA StatusSame ==
  ASSUME NEW r \in Requests, answer'[r] = answer[r], id'[r] = None <=> id[r] = None,
         pc'[r] = "saved" <=> pc[r] = "saved"
  PROVE  Status(r)' = Status(r)
  BY DEF Status

LEMMA StatExcept ==
  ASSUME NEW r \in Requests, NEW x, Status(r)' = x, \A q \in Requests \ {r} : Status(q)' = Status(q)
  PROVE  Stat' = [Stat EXCEPT ![r] = x]
  BY DEF Stat

LEMMA StatUnchanged ==
  ASSUME \A q \in Requests : Status(q)' = Status(q)
  PROVE  Stat' = Stat
  BY DEF Stat

(* What the store has forgotten only changes with the store.               *)
LEMMA ForgottenSame ==
  ASSUME UNCHANGED <<file, conns, mu>>, Serving' <=> Serving,
         \A r \in Requests : mu = r => kind'[r] = kind[r] /\ id'[r] = id[r]
  PROVE  Forgotten' = Forgotten
  BY DEF Forgotten

LEMMA RefinementInit == Init => Map!Init
<1> SUFFICES ASSUME Init PROVE Map!Init
  OBVIOUS
<1>1. file.data \in [Ids -> Values \cup {None}]
  BY DEF Init, Entered, Values
<1>2. \A r \in Requests : Status(r) = "idle"
  BY DEF Init, Status, Actors
<1>3. Forgotten = {}
  BY NamesAssumption DEF Init, Forgotten, Serving, Actors
<1>. QED
  BY <1>1, <1>2, <1>3 DEF Map!Init, Init

(* A request that does not hold the lock asks, or is refused.              *)
LEMMA RefinementOutside ==
  ASSUME IInv, NEW r \in Requests, Outside(r), TypeOK'
  PROVE  Map!Next \/ UNCHANGED <<file.data, id, want, Stat, Forgotten>>
<1> USE NamesAssumption, ValuesAssumption
<1>0. TypeOK /\ LockInv /\ RequestInv /\ RequestOK(r)
  BY DEF IInv, RequestInv
<1>1. UNCHANGED <<file, conns, mu>> /\ (Serving' <=> Serving) /\ mu # r
  BY <1>0, OutsideFrame DEF Serving, LockInv, Unsaved, Actors
<1>2. \A q \in Requests \ {r} : Status(q)' = Status(q)
  <2> SUFFICES ASSUME NEW q \in Requests \ {r} PROVE Status(q)' = Status(q)
    OBVIOUS
  <2>1. answer'[q] = answer[q] /\ id'[q] = id[q] /\ pc'[q] = pc[q]
    BY <1>0, OutsideFrame DEF Actors
  <2>. QED
    BY <2>1, StatusSame
<1>3. Forgotten' = Forgotten
  BY <1>0, <1>1, ForgottenSame, OutsideFrame
<1>4. CASE SubmitCreate(r) \/ SubmitUpdate(r) \/ SubmitDelete(r) \/ CopyForClone(r) \/ CopyForFavorite(r)
  <2>1. /\ pc[r] \in {"start", "copy"} /\ pc'[r] = "ready" /\ answer' = answer
        /\ \E i \in Ids \cup {None} : id' = [id EXCEPT ![r] = i]
        /\ want' = want \/ \E v \in Values \cup {None} : want' = [want EXCEPT ![r] = v]
    <3>1. pc[r] \in {"start", "copy"} /\ pc'[r] = "ready" /\ answer' = answer
      BY <1>0, <1>4 DEF SubmitCreate, SubmitUpdate, SubmitDelete, CopyForClone, CopyForFavorite, TypeOK,
                        Go, Actors
    <3>2. id' = [id EXCEPT ![r] = id'[r]] /\ want' = [want EXCEPT ![r] = want'[r]]
      BY <1>0, OutsideFrame DEF TypeOK
    <3>. QED
      BY <3>1, <3>2 DEF TypeOK
  <2>2. Status(r) = "idle" /\ id[r] = None /\ want[r] = None
    BY <1>0, <2>1 DEF RequestOK, Status
  <2>3. PICK i \in Ids : id' = [id EXCEPT ![r] = i]
    <3>1. kind'[r] = "delete" \/ kind'[r] \in Kinds \ {"none", "delete"}
      BY <1>0, <1>4 DEF SubmitCreate, SubmitUpdate, SubmitDelete, CopyForClone, CopyForFavorite, TypeOK, Kinds
    <3>2. source[r] \in Ids \/ pc[r] # "copy"
      BY <1>0 DEF RequestOK
    <3>. QED
      BY <1>4, <3>2 DEF SubmitCreate, SubmitUpdate, SubmitDelete, CopyForClone, CopyForFavorite, Unused
  <2>4. PICK v \in Values \cup {None} : want' = [want EXCEPT ![r] = v]
    BY <1>0, <2>1, <2>2 DEF TypeOK
  <2>5. Status(r)' = "open"
    BY <1>0, <2>1, <2>3 DEF Status, RequestOK, TypeOK
  <2>6. Stat' = [Stat EXCEPT ![r] = "open"] /\ Stat[r] = "idle"
    BY <1>2, <2>2, <2>5, StatExcept DEF Stat
  <2>7. Map!Ask(r)
    BY <1>1, <1>3, <2>3, <2>4, <2>6 DEF Map!Ask, Stat
  <2>. QED
    BY <2>7 DEF Map!Next
<1>5. CASE GetEntry(r)
  <2>1. Status(r)' = Status(r) /\ UNCHANGED <<id, want>>
    BY <1>0, <1>5, StatusSame DEF GetEntry, TypeOK, Go, Actors
  <2>. QED
    BY <1>1, <1>2, <1>3, <2>1, StatUnchanged
<1>6. CASE NotFound(r)
  <2>1. Status(r) = "open"
    BY <1>0, <1>6 DEF NotFound, RequestOK, Status
  <2>a. answer'[r] = "error" /\ UNCHANGED <<id, want>> /\ id[r] # None
    BY <1>0, <1>6 DEF NotFound, TypeOK, RequestOK
  <2>2. Status(r)' = "refused" /\ UNCHANGED <<id, want>>
    BY <2>a DEF Status
  <2>3. Stat' = [Stat EXCEPT ![r] = "refused"] /\ Stat[r] = "open"
    BY <1>2, <2>1, <2>2, StatExcept DEF Stat
  <2>4. Map!Refuse(r)
    BY <1>1, <1>3, <2>2, <2>3 DEF Map!Refuse, Stat
  <2>. QED
    BY <2>4 DEF Map!Next
<1>. QED
  BY <1>4, <1>5, <1>6 DEF Outside

(* Replacing the file commits the request that holds the lock.             *)
LEMMA RefinementRenamed ==
  ASSUME IInv, NEW a \in Actors, Renamed(a), FileInv', ChangeInv', TypeOK'
  PROVE  Map!Next \/ UNCHANGED <<file.data, id, want, Stat, Forgotten>>
<1> USE NamesAssumption, ValuesAssumption
<1>0. TypeOK /\ LockInv /\ RequestInv /\ FileInv /\ ChangeInv /\ TmpInv
  BY DEF IInv
<1>1. /\ mu = a /\ UNCHANGED <<conns, info, mu, kind, id, want, answer>> /\ file' = Snapshot
      /\ pc[a] = "rename" /\ pc'[a] = "saved" /\ (Serving' <=> Serving)
      /\ \A b \in Actors \ {a} : pc'[b] = pc[b]
  BY <1>0, Holder DEF Renamed, reqVars, TmpInv, TypeOK, Go, Actors, Unsaved, Serving
<1>2. file'.data = [i \in Ids |-> IF i \in conns THEN info[i] ELSE None]
  BY <1>1 DEF Snapshot
<1>3. \A q \in Requests \ {a} : Status(q)' = Status(q)
  BY <1>1, StatusSame DEF Actors
<1>4. Forgotten' = {}
  BY <1>1, <1>2 DEF Forgotten
<1>5. CASE a = Boot
  <2>1. ~Serving /\ mu \notin Requests /\ conns = {i \in Ids : file.data[i] # None}
    BY <1>0, <1>1, <1>5 DEF Serving, TmpInv
  <2>2. \A i \in conns : file.data[i] = info[i]
    BY <1>0, <2>1 DEF FileInv, EntryOK
  <2>3. file'.data = file.data
    BY <1>0, <1>2, <2>1, <2>2 DEF TypeOK, Files, Contents
  <2>4. Forgotten = {}
    BY <2>1 DEF Forgotten
  <2>. QED
    BY <1>1, <1>3, <1>4, <1>5, <2>3, <2>4, StatUnchanged
<1>6. CASE a \in Requests
  <2>1. Status(a) = "open" /\ Status(a)' = "committed"
    BY <1>0, <1>1, <1>6 DEF RequestInv, RequestOK, Unsaved, Status
  <2>2. Stat' = [Stat EXCEPT ![a] = "committed"] /\ Stat[a] = "open"
    BY <1>3, <1>6, <2>1, StatExcept DEF Stat
  <2>3. Serving
    BY <1>0, <1>1, <1>6 DEF LockInv
  <2>4. ASSUME NEW i \in Ids
        PROVE  file'.data[i] = IF i = id[a] THEN want[a] ELSE IF i \in Forgotten THEN None ELSE file.data[i]
    <3>1. CASE i = id[a]
      BY <1>1, <1>6, <3>1 DEF ChangeInv, ChangeOK
    <3>2. CASE i # id[a] /\ i \in conns
      <4>1. file.data[i] = info[i]
        BY <1>0, <1>1, <3>2 DEF FileInv, EntryOK
      <4>. QED
        BY <1>2, <3>2, <4>1 DEF Forgotten
    <3>3. CASE i # id[a] /\ i \notin conns
      <4>1. i \in Forgotten \/ file.data[i] = None
        BY <1>1, <2>3, <3>3 DEF Forgotten
      <4>. QED
        BY <1>2, <3>3, <4>1
    <3>. QED
      BY <3>1, <3>2, <3>3
  <2>5. file'.data =
          [i \in Ids |-> IF i = id[a] THEN want[a] ELSE IF i \in Forgotten THEN None ELSE file.data[i]]
    BY <1>2, <2>4
  <2>6. Map!Commit(a)
    BY <1>1, <1>4, <2>2, <2>5 DEF Map!Commit, Stat
  <2>. QED
    BY <1>6, <2>6 DEF Map!Next
<1>. QED
  BY <1>5, <1>6 DEF Actors

(* The end of a call acknowledges or refuses.                              *)
LEMMA RefinementReturn ==
  ASSUME IInv, NEW r \in Requests,
         Succeed(r) \/ CreateFails(r) \/ UpdateFails(r) \/ DeleteFails(r)
  PROVE  Map!Next
<1> USE NamesAssumption, ValuesAssumption
<1>0. TypeOK /\ LockInv /\ RequestOK(r) /\ ChangeOK(r)
  BY DEF IInv, RequestInv, ChangeInv
<1>1. /\ mu = r /\ mu' = None /\ pc[r] \in {"saved", "failed"} /\ UNCHANGED <<file, kind, id, want>>
      /\ Serving /\ Serving'
    <2>1. mu = r /\ mu' = None /\ pc[r] \in {"saved", "failed"} /\ UNCHANGED <<file, kind, id, want>>
      BY <1>0, Holder DEF Succeed, CreateFails, UpdateFails, DeleteFails, Return, Unsaved, Actors, diskVars
    <2>2. Serving /\ pc'[Boot] = pc[Boot]
      BY <1>0, <2>1 DEF LockInv, Succeed, CreateFails, UpdateFails, DeleteFails, Return, Go, TypeOK, Actors
    <2>. QED
      BY <2>1, <2>2 DEF Serving
<1>2. \A q \in Requests \ {r} : Status(q)' = Status(q)
  <2>1. \A q \in Requests \ {r} : answer'[q] = answer[q] /\ pc'[q] = pc[q]
    BY <1>0 DEF Succeed, CreateFails, UpdateFails, DeleteFails, Return, Go, TypeOK, Actors
  <2>. QED
    BY <1>1, <2>1, StatusSame
<1>3. CASE Succeed(r)
  <2>1. pc[r] = "saved" /\ conns' = conns /\ answer' = [answer EXCEPT ![r] = "ok"]
    BY <1>3 DEF Succeed, Return
  <2>a. answer'[r] = "ok" /\ answer[r] = "none" /\ id[r] # None
    BY <1>0, <2>1 DEF RequestOK, TypeOK
  <2>2. Status(r) = "committed" /\ Status(r)' = "acked"
    BY <1>1, <2>a, <2>1 DEF Status
  <2>3. Forgotten = {} /\ Forgotten' = {}
    BY <1>0, <1>1, <2>1 DEF Forgotten, ChangeOK
  <2>4. Stat' = [Stat EXCEPT ![r] = "acked"] /\ Stat[r] = "committed"
    BY <1>2, <2>2, StatExcept DEF Stat
  <2>5. Map!Acknowledge(r)
    BY <1>1, <2>3, <2>4 DEF Map!Acknowledge, Stat
  <2>. QED
    BY <2>5 DEF Map!Next
<1>4. CASE CreateFails(r) \/ UpdateFails(r) \/ DeleteFails(r)
  <2>1. pc[r] = "failed" /\ answer' = [answer EXCEPT ![r] = "error"]
    BY <1>4 DEF CreateFails, UpdateFails, DeleteFails, Return
  <2>a. answer'[r] = "error" /\ answer[r] = "none" /\ id[r] # None
    BY <1>0, <2>1 DEF RequestOK, TypeOK, Unsaved
  <2>2. Status(r) = "open" /\ Status(r)' = "refused"
    BY <1>1, <2>a, <2>1 DEF Status
  <2>3. Stat' = [Stat EXCEPT ![r] = "refused"] /\ Stat[r] = "open"
    BY <1>2, <2>2, StatExcept DEF Stat
  <2>4. CASE CreateFails(r) \/ UpdateFails(r)
    <3>1. kind[r] # "delete" /\ (conns' = conns \/ (conns' = conns \ {id[r]} /\ file.data[id[r]] = None))
      <4>1. CASE CreateFails(r)
        BY <1>0, <2>1, <4>1 DEF CreateFails, ChangeOK, Unsaved
      <4>2. CASE UpdateFails(r)
        BY <4>2 DEF UpdateFails
      <4>. QED
        BY <2>4, <4>1, <4>2
    <3>2. Forgotten' = Forgotten
      BY <1>1, <3>1 DEF Forgotten
    <3>3. Map!Refuse(r)
      BY <1>1, <2>3, <3>2 DEF Map!Refuse, Stat
    <3>. QED
      BY <3>3 DEF Map!Next
  <2>5. CASE DeleteFails(r)
    <3>1. /\ kind[r] = "delete" /\ conns' = conns /\ id[r] \in Ids \ conns /\ want[r] = None
          /\ file.data[id[r]] # None
      BY <1>0, <2>1, <2>5 DEF DeleteFails, RequestOK, ChangeOK, Unsaved
    <3>2. Forgotten' = Forgotten \cup {id[r]}
      BY <1>1, <3>1 DEF Forgotten
    <3>3. Map!RefuseRemoval(r)
      BY <1>1, <2>3, <3>1, <3>2 DEF Map!RefuseRemoval, Stat
    <3>. QED
      BY <3>3 DEF Map!Next
  <2>. QED
    BY <1>4, <2>4, <2>5
<1>. QED
  BY <1>3, <1>4

LEMMA RefinementStop ==
  ASSUME IInv, Stop
  PROVE  Map!Next
<1> USE NamesAssumption, ValuesAssumption
<1>1. \A r \in Requests : Status(r)' = IF Status(r) \in {"open", "committed"} THEN "lost" ELSE Status(r)
  <2> SUFFICES ASSUME NEW r \in Requests
               PROVE  Status(r)' = IF Status(r) \in {"open", "committed"} THEN "lost" ELSE Status(r)
    OBVIOUS
  <2>1. RequestOK(r) /\ id' = id
        /\ answer'[r] = (IF pc[r] \notin {"start", "done"} THEN "lost" ELSE answer[r])
        /\ answer[r] \in {"none", "ok", "error", "lost"} /\ pc'[r] # "saved"
    BY DEF IInv, RequestInv, Stop, TypeOK, Actors
  <2>2. CASE pc[r] \in {"start", "done"}
    BY <2>1, <2>2 DEF RequestOK, Status
  <2>3. CASE pc[r] \notin {"start", "done"}
    <3>1. answer[r] = "none" /\ answer'[r] = "lost"
      BY <2>1, <2>3 DEF RequestOK
    <3>. QED
      BY <2>1, <3>1 DEF Status
  <2>. QED
    BY <2>2, <2>3
<1>2. Forgotten' = {}
  BY DEF Stop, Forgotten, Serving, Actors
<1>3. UNCHANGED <<file, id, want>>
  BY DEF Stop, diskVars
<1>4. Map!Crash
  BY <1>1, <1>2, <1>3 DEF Map!Crash
<1>. QED
  BY <1>4 DEF Map!Next

(* Everything else is invisible: the map changes when the file is replaced. *)
LEMMA RefinementStutter ==
  ASSUME IInv,
         \/ Start
         \/ \E r \in Requests : Create(r) \/ Update(r) \/ Updated(r) \/ Delete(r)
         \/ \E a \in Actors : SaveBegins(a) \/ TmpWritten(a) \/ SaveFails(a)
         \/ UNCHANGED vars
  PROVE  UNCHANGED <<file.data, id, want, Stat, Forgotten>>
<1> USE NamesAssumption, ValuesAssumption
<1>0. TypeOK /\ LockInv /\ RequestInv /\ FileInv /\ NewIdInv /\ TmpInv
  BY DEF IInv
<1>1. CASE Start
  <2>1. UNCHANGED <<file, reqVars>> /\ ~Serving /\ \A r \in Requests : pc'[r] = pc[r]
    BY <1>0, <1>1 DEF Start, KeyFound, KeyCreated, KeyWritten, Load, Migrated, diskVars, TypeOK, Go, Actors,
                      Serving
  <2>2. Serving' => conns' = {i \in Ids : file.data[i] # None}
    <3>1. CASE Load
      BY <3>1 DEF Load
    <3>2. CASE Migrated
      BY <1>0, <3>2, Holder DEF Migrated, TmpInv, Serving, Actors
    <3>3. CASE KeyFound \/ KeyCreated \/ KeyWritten
      BY <1>0, <3>3 DEF KeyFound, KeyCreated, KeyWritten, TypeOK, Go, Actors, Serving
    <3>. QED
      BY <1>1, <3>1, <3>2, <3>3 DEF Start
  <2>3. Forgotten = {} /\ Forgotten' = {}
    BY <2>1, <2>2 DEF Forgotten
  <2>4. Stat' = Stat
    BY <2>1, StatusSame, StatUnchanged DEF reqVars
  <2>. QED
    BY <2>1, <2>3, <2>4 DEF reqVars
<1>2. ASSUME NEW r \in Requests, Create(r) \/ Update(r) \/ Updated(r) \/ Delete(r)
      PROVE  UNCHANGED <<file.data, id, want, Stat, Forgotten>>
  <2>1. /\ UNCHANGED <<file, id, want, kind, answer>> /\ mu' = r /\ mu \in {r, None}
        /\ pc[r] \in {"ready", "write"} /\ pc'[r] \in {"write", "save"}
        /\ \A b \in Actors \ {r} : pc'[b] = pc[b]
    BY <1>0, <1>2, Holder DEF Create, Update, Updated, Delete, reqVars, diskVars, TypeOK, Go, Actors, Unsaved
  <2>2. Stat' = Stat
    BY <2>1, StatusSame, StatUnchanged DEF Actors
  <2>3. Serving' <=> Serving
    BY <2>1 DEF Serving, Actors
  <2>4. RequestOK(r) /\ NewIdOK(r)
    BY <1>0 DEF RequestInv, NewIdInv
  <2>5. CASE Create(r)
    <3>1. /\ conns' = conns \cup {id[r]} /\ file.data[id[r]] = None /\ kind[r] # "delete" /\ mu = None
      BY <2>4, <2>5 DEF Create, NewIdOK
    <3>. QED
      BY <2>1, <2>2, <2>3, <3>1 DEF Forgotten
  <2>6. CASE Update(r) \/ Updated(r)
    <3>1. conns' = conns /\ kind[r] # "delete"
      BY <1>0, <2>4, <2>6 DEF Update, Updated, RequestOK
    <3>. QED
      BY <2>1, <2>2, <2>3, <3>1 DEF Forgotten
  <2>7. CASE Delete(r)
    <3>1. conns' = conns \ {id[r]} /\ kind[r] = "delete" /\ mu = None /\ id[r] \in conns
      BY <2>7 DEF Delete
    <3>. QED
      BY <2>1, <2>2, <2>3, <3>1 DEF Forgotten
  <2>. QED
    BY <1>2, <2>5, <2>6, <2>7
<1>3. ASSUME NEW a \in Actors, SaveBegins(a) \/ TmpWritten(a) \/ SaveFails(a)
      PROVE  UNCHANGED <<file.data, id, want, Stat, Forgotten>>
  <2>1. /\ UNCHANGED <<file, conns, mu, kind, id, want, answer>> /\ (Serving' <=> Serving)
        /\ \A b \in Actors : pc'[b] = "saved" <=> pc[b] = "saved"
    BY <1>0, <1>3 DEF SaveBegins, TmpWritten, SaveFails, Saving, reqVars, diskVars, TypeOK, Go, Actors, Serving
  <2>. QED
    BY <2>1, StatusSame, StatUnchanged, ForgottenSame DEF Actors
<1>4. CASE UNCHANGED vars
  <2>1. UNCHANGED <<file, conns, mu, pc, kind, id, want, answer>>
    BY <1>4 DEF vars, diskVars, reqVars
  <2>. QED
    BY <2>1, StatusSame, StatUnchanged, ForgottenSame DEF Serving
<1>. QED
  BY <1>1, <1>2, <1>3, <1>4

(* The store implements DurableMap: requests change the map on disk one at *)
(* a time and as a whole, whatever fails and wherever the process stops.   *)
THEOREM ImplementsDurableMap == Spec => StoreSpec
<1>1. ASSUME IInv, [Next]_vars
      PROVE  [Map!Next]_<<file.data, id, want, Stat, Forgotten>>
  <2>1. TypeOK' /\ FileInv' /\ ChangeInv'
    BY <1>1, TypeStep, EncryptedStep, EntryStep, ChangeStep DEF FileInv, ChangeInv
  <2>2. CASE Stop
    BY <1>1, <2>2, RefinementStop
  <2>3. ASSUME NEW r \in Requests, Handle(r)
        PROVE  [Map!Next]_<<file.data, id, want, Stat, Forgotten>>
    <3>1. CASE Outside(r)
      BY <1>1, <2>1, <3>1, RefinementOutside
    <3>2. CASE Create(r) \/ Update(r) \/ Updated(r) \/ Delete(r)
      BY <1>1, <3>2, RefinementStutter
    <3>3. CASE Succeed(r) \/ CreateFails(r) \/ UpdateFails(r) \/ DeleteFails(r)
      BY <1>1, <3>3, RefinementReturn
    <3>. QED
      BY <2>3, <3>1, <3>2, <3>3 DEF Handle, Outside
  <2>4. ASSUME NEW a \in Actors, Save(a)
        PROVE  [Map!Next]_<<file.data, id, want, Stat, Forgotten>>
    <3>1. CASE Renamed(a)
      BY <1>1, <2>1, <3>1, RefinementRenamed
    <3>2. CASE SaveBegins(a) \/ TmpWritten(a) \/ SaveFails(a)
      BY <1>1, <3>2, RefinementStutter
    <3>. QED
      BY <2>4, <3>1, <3>2 DEF Save
  <2>5. CASE Start \/ UNCHANGED vars
    BY <1>1, <2>5, RefinementStutter
  <2>. QED
    BY <1>1, <2>2, <2>3, <2>4, <2>5 DEF Next, MigrationFails, Crash
<1>2. IInv /\ [Next]_vars => [Map!Next]_<<file.data, id, want, [r \in Requests |-> Status(r)], Forgotten>>
  BY <1>1 DEF Stat
<1>. QED
  BY RefinementInit, Invariance, <1>2, PTL DEF Spec, StoreSpec, Map!Spec
=============================================================================
