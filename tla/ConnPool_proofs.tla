--------------------------- MODULE ConnPool_proofs ---------------------------
(***************************************************************************)
(* Proofs about ConnPool: its safety properties for every number of calls, *)
(* updates, deletes and databases, that it implements PoolCache, and that  *)
(* an update leaves no pool with old data when saves succeed.              *)
(***************************************************************************)
EXTENDS ConnPool, TLAPS

(* Type correctness is preserved.                                          *)
LEMMA TypeStep == IInv /\ [Next]_vars => TypeOK'
<1> SUFFICES ASSUME TypeOK, StoreInv, CallInv, [Next]_vars PROVE TypeOK'
  BY DEF IInv
<1> USE NamesAssumption DEF TypeOK, Critical, Ended, Writers, callVars, poolVars, tunnelVars, writeVars
<1>1. Visible \subseteq Infos
  BY DEF Visible, StoreInv, Ended
<1>2. VisibleAddr \subseteq Infos \cup {Mixed}
  BY <1>1 DEF VisibleAddr
<1>3. \A c \in Callers : cstate[c] \in {"none", "up", "broken", "closed"} /\ Dropped[c] \in {"none", "up", "broken", "closed"}
  BY DEF Dropped
<1>4. Dropped \in [Callers -> {"none", "up", "broken", "closed"}]
  BY DEF Dropped
<1>5. ASSUME NEW r \in Callers, Lookup(r) PROVE TypeOK'
  BY <1>5 DEF Lookup
<1>6. ASSUME NEW r \in Callers, LookupFails(r) PROVE TypeOK'
  BY <1>6 DEF LookupFails
<1>7. ASSUME NEW r \in Callers, ChooseTCP(r) PROVE TypeOK'
  BY <1>7 DEF ChooseTCP
<1>8. ASSUME NEW r \in Callers, ChooseTunnel(r) PROVE TypeOK'
  BY <1>8 DEF ChooseTunnel
<1>9. ASSUME NEW r \in Callers, CopyInfo(r) PROVE TypeOK'
  BY <1>9, <1>1 DEF CopyInfo
<1>34. ASSUME NEW r \in Callers, EnsureLock(r) PROVE TypeOK'
  BY <1>34 DEF EnsureLock
<1>10. ASSUME NEW r \in Callers, EnsureReuse(r) PROVE TypeOK'
  BY <1>10 DEF EnsureReuse
<1>11. ASSUME NEW r \in Callers, EnsureDial(r) PROVE TypeOK'
  BY <1>11, <1>4 DEF EnsureDial
<1>12. ASSUME NEW r \in Callers, EnsureFails(r) PROVE TypeOK'
  BY <1>12, <1>4 DEF EnsureFails
<1>13. ASSUME NEW r \in Callers, EnsureTCP(r) PROVE TypeOK'
  BY <1>13, <1>4 DEF EnsureTCP
<1>14. ASSUME NEW r \in Callers, Lock(r) PROVE TypeOK'
  BY <1>14 DEF Lock
<1>15. ASSUME NEW r \in Callers, Hit(r) PROVE TypeOK'
  BY <1>15 DEF Hit, Leave, CallInv
<1>16. ASSUME NEW r \in Callers, DropDead(r) PROVE TypeOK'
  BY <1>16 DEF DropDead
<1>17. ASSUME NEW r \in Callers, Miss(r) PROVE TypeOK'
  BY <1>17 DEF Miss
<1>18. ASSUME NEW r \in Callers, OpenPool(r) PROVE TypeOK'
  BY <1>18, <1>2 DEF OpenPool
<1>19. ASSUME NEW r \in Callers, PingOK(r) PROVE TypeOK'
  BY <1>19 DEF PingOK, Leave, CallInv
<1>20. ASSUME NEW r \in Callers, PingFails(r) PROVE TypeOK'
  BY <1>20 DEF PingFails, Leave
<1>21. ASSUME NEW u \in Updates, UpdateBegin(u) PROVE TypeOK'
  BY <1>21 DEF UpdateBegin
<1>22. ASSUME NEW u \in Updates, UpdateWritten(u) PROVE TypeOK'
  BY <1>22 DEF UpdateWritten, StoreInv, Ended
<1>23. ASSUME NEW u \in Updates, UpdateSaved(u) PROVE TypeOK'
  BY <1>23 DEF UpdateSaved
<1>24. ASSUME NEW u \in Updates, UpdateSaveFails(u) PROVE TypeOK'
  BY <1>24 DEF UpdateSaveFails
<1>25. ASSUME NEW u \in Updates, UpdateRestored(u) PROVE TypeOK'
  BY <1>25 DEF UpdateRestored, StoreInv, Ended
<1>26. ASSUME NEW u \in Updates, UpdateClosesTunnel(u) PROVE TypeOK'
  BY <1>26, <1>4 DEF UpdateClosesTunnel
<1>27. ASSUME NEW d \in Deletes, DeleteBegin(d) PROVE TypeOK'
  BY <1>27 DEF DeleteBegin
<1>28. ASSUME NEW d \in Deletes, DeleteClosesTunnel(d) PROVE TypeOK'
  BY <1>28, <1>4 DEF DeleteClosesTunnel
<1>29. ASSUME NEW d \in Deletes, Forget(d) PROVE TypeOK'
  BY <1>29 DEF Forget
<1>30. ASSUME NEW w \in Writers, WriterFindsNothing(w) PROVE TypeOK'
  BY <1>30 DEF WriterFindsNothing
<1>31. ASSUME NEW w \in Writers, ClosePools(w) PROVE TypeOK'
  BY <1>31 DEF ClosePools
<1>32. CASE TunnelBreaks
  BY <1>32 DEF TunnelBreaks
<1>33. CASE UNCHANGED vars
  BY <1>33 DEF vars
<1>. QED
  BY <1>5, <1>6, <1>7, <1>8, <1>9, <1>10, <1>11, <1>12, <1>13, <1>14, <1>15, <1>16, <1>17, <1>18, <1>19, <1>20, <1>21, <1>22, <1>23, <1>24, <1>25, <1>26, <1>27, <1>28, <1>29, <1>30, <1>31, <1>32, <1>33, <1>34
     DEF Next, GetDB, Update, Delete, AllDone

(* What a step of a writer or of the network leaves alone.                 *)
LEMMA WriterFrame ==
  ASSUME \/ \E u \in Updates : Update(u)
         \/ \E d \in Deletes : Delete(d)
         \/ TunnelBreaks
         \/ UNCHANGED vars
  PROVE  UNCHANGED <<pc, db, net, eMu, tMu, paddr, pnet>>
BY DEF Update, Delete, UpdateBegin, WriterFindsNothing, UpdateWritten, UpdateSaved,
       UpdateSaveFails, UpdateRestored, ClosePools, UpdateClosesTunnel, DeleteBegin,
       DeleteClosesTunnel, Forget, TunnelBreaks, vars, callVars, poolVars, tunnelVars

(* What a step of a call leaves alone.                                     *)
LEMMA CallFrame ==
  ASSUME NEW r \in Callers, GetDB(r)
  PROVE  UNCHANGED <<info, writeVars>>
BY DEF GetDB, Lookup, LookupFails, ChooseTCP, ChooseTunnel, CopyInfo, EnsureLock, EnsureReuse, EnsureDial,
       EnsureFails, EnsureTCP, Lock, Hit, DropDead, Miss, OpenPool, PingOK, PingFails

(* The two mutexes: exactly the holder is in the critical section.         *)
LEMMA LockStep == IInv /\ [Next]_vars => LockInv'
<1> SUFFICES ASSUME TypeOK, LockInv, [Next]_vars PROVE LockInv'
  BY DEF IInv
<1> USE NamesAssumption DEF LockInv, Critical
<1>1. CASE UNCHANGED <<pc, eMu, tMu>>
  BY <1>1
<1>2. ASSUME NEW r \in Callers,
             Lookup(r) \/ LookupFails(r) \/ ChooseTCP(r) \/ ChooseTunnel(r) \/ CopyInfo(r)
      PROVE  LockInv'
  <2>1. pc[r] \in {"start", "choose", "copy"} /\ UNCHANGED <<eMu, tMu>>
    BY <1>2 DEF Lookup, LookupFails, ChooseTCP, ChooseTunnel, CopyInfo, tunnelVars
  <2>2. \E x \in {"choose", "done", "lock", "copy", "ensure"} : pc' = [pc EXCEPT ![r] = x]
    BY <1>2 DEF Lookup, LookupFails, ChooseTCP, ChooseTunnel, CopyInfo
  <2>. QED
    BY <2>1, <2>2 DEF TypeOK
<1>3. ASSUME NEW r \in Callers, EnsureLock(r) PROVE LockInv'
  BY <1>3 DEF EnsureLock, TypeOK
<1>4. ASSUME NEW r \in Callers, EnsureReuse(r) \/ EnsureDial(r) \/ EnsureFails(r) \/ EnsureTCP(r)
      PROVE  LockInv'
  <2>1. pc[r] = "tunnel" /\ tMu' = None /\ UNCHANGED eMu
    BY <1>4 DEF EnsureReuse, EnsureDial, EnsureFails, EnsureTCP
  <2>2. \E x \in {"done", "lock"} : pc' = [pc EXCEPT ![r] = x]
    BY <1>4 DEF EnsureReuse, EnsureDial, EnsureFails, EnsureTCP
  <2>. QED
    BY <2>1, <2>2 DEF TypeOK
<1>5. ASSUME NEW r \in Callers, Lock(r) PROVE LockInv'
  BY <1>5 DEF Lock, TypeOK, tunnelVars
<1>6. ASSUME NEW r \in Callers, DropDead(r) \/ Miss(r) \/ OpenPool(r) PROVE LockInv'
  BY <1>6 DEF DropDead, Miss, OpenPool, TypeOK, tunnelVars
<1>7. ASSUME NEW r \in Callers, Hit(r) \/ PingOK(r) \/ PingFails(r) PROVE LockInv'
  <2>1. pc[r] \in Critical /\ Leave(r) /\ UNCHANGED tMu
    BY <1>7 DEF Hit, PingOK, PingFails, tunnelVars
  <2>. QED
    BY <2>1 DEF Leave, TypeOK
<1>. QED
  BY <1>1, <1>2, <1>3, <1>4, <1>5, <1>6, <1>7, WriterFrame DEF Next, GetDB, AllDone

(* What the position of a call says of its pool.                           *)
LEMMA CallStep == IInv /\ [Next]_vars => CallInv'
<1> SUFFICES ASSUME IInv, [Next]_vars PROVE CallInv'
  OBVIOUS
<1> USE NamesAssumption DEF CallInv, Critical, IInv, TypeOK
<1>1. CASE UNCHANGED <<pc, db, pools, pstate>>
  BY <1>1
<1>2. ASSUME NEW w \in Writers, ClosePools(w) PROVE CallInv'
  <2>1. eMu = None /\ UNCHANGED <<pc, db>>
    BY <1>2 DEF ClosePools, callVars
  <2>2. \A r \in Callers : pc[r] \notin Critical
    BY <2>1 DEF LockInv
  <2>3. \A o \in Callers : pstate[o] # "open" => pstate'[o] = pstate[o]
    BY <1>2 DEF ClosePools, CacheInv, CachedIsOpen
  <2>4. \A o \in Callers : pstate[o] = "open" => pstate'[o] \in {"open", "closed"}
    BY <1>2 DEF ClosePools
  <2>. QED
    BY <2>1, <2>2, <2>3, <2>4
<1>3. ASSUME NEW r \in Callers, Lookup(r) PROVE CallInv'
  BY <1>3 DEF Lookup, poolVars
<1>4. ASSUME NEW r \in Callers,
             \/ LookupFails(r) \/ ChooseTCP(r) \/ ChooseTunnel(r) \/ CopyInfo(r)
             \/ EnsureLock(r) \/ EnsureReuse(r) \/ EnsureDial(r) \/ EnsureFails(r) \/ EnsureTCP(r)
             \/ Lock(r) \/ Hit(r)
      PROVE  CallInv'
  <2>1. UNCHANGED <<db, pools, pstate>>
    BY <1>4 DEF LookupFails, ChooseTCP, ChooseTunnel, CopyInfo, EnsureLock, EnsureReuse, EnsureDial,
                EnsureFails, EnsureTCP, Lock, Hit, poolVars
  <2>2. \E x \in {"choose", "copy", "ensure", "tunnel", "lock", "held", "done"} :
          /\ pc' = [pc EXCEPT ![r] = x]
          /\ pc[r] = "start" => x = "done"
          /\ pc[r] \notin {"ping", "done"}
    BY <1>4 DEF LookupFails, ChooseTCP, ChooseTunnel, CopyInfo, EnsureLock, EnsureReuse, EnsureDial,
                EnsureFails, EnsureTCP, Lock, Hit, Leave
  <2>. QED
    BY <2>1, <2>2
<1>5. ASSUME NEW r \in Callers, DropDead(r) \/ Miss(r) PROVE CallInv'
  <2>1. \A q \in Callers \ {r} : pc[q] \notin Critical
    BY <1>5 DEF DropDead, Miss, LockInv
  <2>2. CASE DropDead(r)
    <3>1. pstate[pools[db[r]]] = "open" /\ pools[db[r]] \in Callers
      BY <2>2 DEF DropDead, CacheInv, CachedIsOpen
    <3>. QED
      BY <2>1, <2>2, <3>1 DEF DropDead
  <2>3. CASE Miss(r)
    BY <2>3 DEF Miss, poolVars
  <2>. QED
    BY <1>5, <2>2, <2>3
<1>6. ASSUME NEW r \in Callers, OpenPool(r) PROVE CallInv'
  BY <1>6 DEF OpenPool
<1>7. ASSUME NEW r \in Callers, PingOK(r) \/ PingFails(r) PROVE CallInv'
  <2>1. \A q \in Callers \ {r} : pc[q] \notin Critical
    BY <1>7 DEF PingOK, PingFails, LockInv
  <2>. QED
    BY <1>7, <2>1 DEF PingOK, PingFails, Leave
<1>8. ASSUME \/ \E u \in Updates : Update(u)
             \/ \E d \in Deletes : Delete(d)
             \/ TunnelBreaks
             \/ UNCHANGED vars
      PROVE  \/ UNCHANGED <<pc, db, pools, pstate>>
             \/ \E w \in Writers : ClosePools(w)
  BY <1>8 DEF Update, Delete, UpdateBegin, WriterFindsNothing, UpdateWritten, UpdateSaved,
              UpdateSaveFails, UpdateRestored, UpdateClosesTunnel, DeleteBegin, Writers,
              DeleteClosesTunnel, Forget, TunnelBreaks, vars, callVars, poolVars
<1>. QED
  BY <1>1, <1>2, <1>3, <1>4, <1>5, <1>6, <1>7, <1>8 DEF Next, GetDB, AllDone

(* The cache holds exactly the open pools.                                 *)
LEMMA CacheStep == IInv /\ [Next]_vars => CacheInv'
<1> SUFFICES ASSUME IInv, [Next]_vars PROVE CacheInv'
  OBVIOUS
<1> USE NamesAssumption DEF CacheInv, CachedIsOpen, IInv, TypeOK
<1>1. CASE UNCHANGED <<db, pools, pstate>>
  BY <1>1
<1>2. ASSUME NEW w \in Writers, ClosePools(w) PROVE CacheInv'
  <2>1. /\ pools' = [d \in Databases |-> None]
        /\ \A o \in Callers : pstate[o] = "open" => pstate'[o] = "closed"
        /\ \A o \in Callers : pstate[o] # "open" => pstate'[o] # "open"
    BY <1>2 DEF ClosePools
  <2>. QED
    BY <2>1
<1>3. ASSUME NEW r \in Callers, Lookup(r) PROVE CacheInv'
  <2>1. pstate[r] = "none"
    BY <1>3 DEF Lookup, CallInv
  <2>. QED
    BY <1>3, <2>1 DEF Lookup, poolVars
<1>4. ASSUME NEW r \in Callers, DropDead(r) PROVE CacheInv'
  <2>1. db[r] \in Databases
    BY <1>4 DEF DropDead, CallInv
  <2>. QED
    BY <1>4, <2>1 DEF DropDead
<1>5. ASSUME NEW r \in Callers, OpenPool(r) PROVE CacheInv'
  <2>1. pstate[r] = "none"
    BY <1>5 DEF OpenPool, CallInv
  <2>. QED
    BY <1>5, <2>1 DEF OpenPool
<1>6. ASSUME NEW r \in Callers, PingOK(r) PROVE CacheInv'
  <2>1. pstate[r] = "opening" /\ db[r] \in Databases /\ pools[db[r]] = None
    BY <1>6 DEF PingOK, CallInv
  <2>. QED
    BY <1>6, <2>1 DEF PingOK
<1>7. ASSUME NEW r \in Callers, PingFails(r) PROVE CacheInv'
  <2>1. pstate[r] = "opening"
    BY <1>7 DEF PingFails, CallInv
  <2>. QED
    BY <1>7, <2>1 DEF PingFails
<1>8. ASSUME NEW r \in Callers,
             \/ LookupFails(r) \/ ChooseTCP(r) \/ ChooseTunnel(r) \/ CopyInfo(r)
             \/ EnsureLock(r) \/ EnsureReuse(r) \/ EnsureDial(r) \/ EnsureFails(r) \/ EnsureTCP(r)
             \/ Lock(r) \/ Hit(r) \/ Miss(r)
      PROVE  UNCHANGED <<db, pools, pstate>>
  BY <1>8 DEF LookupFails, ChooseTCP, ChooseTunnel, CopyInfo, EnsureLock, EnsureReuse, EnsureDial,
              EnsureFails, EnsureTCP, Lock, Hit, Miss, poolVars
<1>9. ASSUME \/ \E u \in Updates : Update(u)
             \/ \E d \in Deletes : Delete(d)
             \/ TunnelBreaks
             \/ UNCHANGED vars
      PROVE  \/ UNCHANGED <<db, pools, pstate>>
             \/ \E w \in Writers : ClosePools(w)
  BY <1>9 DEF Update, Delete, UpdateBegin, WriterFindsNothing, UpdateWritten, UpdateSaved,
              UpdateSaveFails, UpdateRestored, UpdateClosesTunnel, DeleteBegin, Writers,
              DeleteClosesTunnel, Forget, TunnelBreaks, vars, callVars, poolVars
<1>. QED
  BY <1>1, <1>2, <1>3, <1>4, <1>5, <1>6, <1>7, <1>8, <1>9 DEF Next, GetDB, AllDone

(* The tunnel's client is the only one that is not closed.                 *)
LEMMA ClientStep == IInv /\ [Next]_vars => ClientInv'
<1> SUFFICES ASSUME TypeOK, ClientInv, [Next]_vars PROVE ClientInv'
  BY DEF IInv
<1> USE NamesAssumption DEF ClientInv, NoLostClient, DialerFollowsTunnel, TypeOK
<1>1. ASSUME UNCHANGED <<client, cstate, dialer>>,
             \A r \in Callers : pc'[r] \in {"start", "choose", "copy", "ensure", "tunnel"} =>
                                pc[r] \in {"start", "choose", "copy", "ensure", "tunnel"}
      PROVE  ClientInv'
  BY <1>1
<1>2. ASSUME NEW r \in Callers, EnsureDial(r) PROVE ClientInv'
  <2>1. cstate[r] = "none" /\ client # r
    BY <1>2 DEF EnsureDial
  <2>2. \A c \in Callers \ {r} : cstate'[c] \notin {"up", "broken"}
    BY <1>2, <2>1 DEF EnsureDial, Dropped
  <2>3. cstate'[r] = "up"
    BY <1>2 DEF EnsureDial, Dropped
  <2>4. \A c \in Callers \ {r} : cstate[c] = "none" => cstate'[c] = "none"
    BY <1>2 DEF EnsureDial, Dropped
  <2>. QED
    BY <1>2, <2>2, <2>3, <2>4 DEF EnsureDial
<1>3. ASSUME client' = None, cstate' = Dropped, UNCHANGED dialer,
             \A r \in Callers : pc'[r] \in {"start", "choose", "copy", "ensure", "tunnel"} =>
                                pc[r] \in {"start", "choose", "copy", "ensure", "tunnel"}
      PROVE  ClientInv'
  BY <1>3 DEF Dropped
<1>4. CASE TunnelBreaks
  BY <1>4 DEF TunnelBreaks, callVars
<1>5. ASSUME NEW r \in Callers, EnsureFails(r) \/ EnsureTCP(r) PROVE ClientInv'
  BY <1>3, <1>5 DEF EnsureFails, EnsureTCP
<1>6. ASSUME NEW r \in Callers,
             \/ Lookup(r) \/ LookupFails(r) \/ ChooseTCP(r) \/ ChooseTunnel(r) \/ CopyInfo(r)
             \/ EnsureLock(r) \/ EnsureReuse(r) \/ Lock(r) \/ Hit(r) \/ DropDead(r) \/ Miss(r)
             \/ OpenPool(r) \/ PingOK(r) \/ PingFails(r)
      PROVE  ClientInv'
  <2>1. UNCHANGED <<client, cstate, dialer>>
    BY <1>6 DEF Lookup, LookupFails, ChooseTCP, ChooseTunnel, CopyInfo, EnsureLock, EnsureReuse, Lock, Hit,
                DropDead, Miss, OpenPool, PingOK, PingFails, tunnelVars
  <2>2. \E x : /\ pc' = [pc EXCEPT ![r] = x]
               /\ x \in {"choose", "copy", "ensure", "tunnel"} => pc[r] \in {"start", "choose", "copy", "ensure"}
               /\ x # "start"
    BY <1>6 DEF Lookup, LookupFails, ChooseTCP, ChooseTunnel, CopyInfo, EnsureLock, EnsureReuse, Lock, Hit,
                DropDead, Miss, OpenPool, PingOK, PingFails, Leave
  <2>. QED
    BY <1>1, <2>1, <2>2
<1>7. ASSUME NEW w \in Writers, UpdateClosesTunnel(w) \/ DeleteClosesTunnel(w) PROVE ClientInv'
  BY <1>3, <1>7 DEF UpdateClosesTunnel, DeleteClosesTunnel, callVars
<1>8. ASSUME \/ \E u \in Updates : Update(u)
             \/ \E d \in Deletes : Delete(d)
             \/ UNCHANGED vars
      PROVE  \/ UNCHANGED <<client, cstate, dialer, pc>>
             \/ \E w \in Writers : UpdateClosesTunnel(w) \/ DeleteClosesTunnel(w)
  BY <1>8 DEF Update, Delete, UpdateBegin, WriterFindsNothing, UpdateWritten, UpdateSaved,
              UpdateSaveFails, UpdateRestored, ClosePools, DeleteBegin, Writers,
              Forget, vars, callVars, tunnelVars
<1>. QED
  BY <1>1, <1>2, <1>4, <1>5, <1>6, <1>7, <1>8 DEF Next, GetDB, AllDone

(* One writer at a time.                                                   *)
LEMMA StoreStep == IInv /\ [Next]_vars => StoreInv'
<1> SUFFICES ASSUME TypeOK, StoreInv, [Next]_vars PROVE StoreInv'
  BY DEF IInv
<1> USE NamesAssumption DEF StoreInv, TypeOK, Writers, Ended
<1>1. CASE UNCHANGED writeVars
  BY <1>1 DEF writeVars
<1>2. ASSUME NEW u \in Updates, UpdateBegin(u) PROVE StoreInv'
  BY <1>2 DEF UpdateBegin
<1>3. ASSUME NEW d \in Deletes, DeleteBegin(d) PROVE StoreInv'
  BY <1>3 DEF DeleteBegin
<1>4. ASSUME NEW w \in Writers, WriterFindsNothing(w) \/ ClosePools(w) PROVE StoreInv'
  BY <1>4 DEF WriterFindsNothing, ClosePools
<1>5. ASSUME NEW u \in Updates, UpdateWritten(u) \/ UpdateSaved(u) \/ UpdateSaveFails(u)
      PROVE  StoreInv'
  BY <1>5 DEF UpdateWritten, UpdateSaved, UpdateSaveFails
<1>6. ASSUME NEW u \in Updates, UpdateRestored(u) \/ UpdateClosesTunnel(u) PROVE StoreInv'
  BY <1>6 DEF UpdateRestored, UpdateClosesTunnel
<1>7. ASSUME NEW d \in Deletes, DeleteClosesTunnel(d) \/ Forget(d) PROVE StoreInv'
  BY <1>7 DEF DeleteClosesTunnel, Forget
<1>8. TunnelBreaks \/ UNCHANGED vars => UNCHANGED writeVars
  BY DEF TunnelBreaks, vars
<1>. QED
  BY <1>1, <1>2, <1>3, <1>4, <1>5, <1>6, <1>7, <1>8, CallFrame DEF Next, Update, Delete, AllDone

LEMMA InitInv == Init => IInv
BY NamesAssumption
   DEF Init, IInv, TypeOK, LockInv, CallInv, CacheInv, CachedIsOpen, ClientInv, NoLostClient,
       DialerFollowsTunnel, StoreInv, Critical, Writers

(* The inductive invariant.                                                *)
THEOREM Invariance == Spec => []IInv
<1>1. IInv /\ [Next]_vars => IInv'
  BY TypeStep, LockStep, CallStep, CacheStep, ClientStep, StoreStep DEF IInv
<1>. QED
  BY InitInv, <1>1, PTL DEF Spec

(* Type correctness.                                                       *)
THEOREM TypeCorrect == Spec => []TypeOK
<1>1. IInv => TypeOK
  BY DEF IInv
<1>. QED
  BY <1>1, Invariance, PTL

(* A cached pool is open and belongs to its database.                      *)
THEOREM CachedPoolsAreOpen == Spec => []CachedIsOpen
<1>1. IInv => CachedIsOpen
  BY DEF IInv, CacheInv
<1>. QED
  BY <1>1, Invariance, PTL

(* An open pool is cached, one being opened is in its creator's hands.     *)
THEOREM NoPoolIsLost == Spec => []NoLostPool
<1>1. IInv => NoLostPool
  BY DEF IInv, CacheInv, CallInv, LockInv, NoLostPool, Critical
<1>. QED
  BY <1>1, Invariance, PTL

(* An SSH client that was not closed is the tunnel's.                      *)
THEOREM NoClientIsLost == Spec => []NoLostClient
<1>1. IInv => NoLostClient
  BY DEF IInv, ClientInv
<1>. QED
  BY <1>1, Invariance, PTL

(* The registered dial function leads through the tunnel's client.         *)
THEOREM PoolsFollowTheTunnel == Spec => []DialerFollowsTunnel
<1>1. IInv => DialerFollowsTunnel
  BY DEF IInv, ClientInv
<1>. QED
  BY <1>1, Invariance, PTL

----------------------------------------------------------------------------
(* Updates *)

LEMMA AddrStep == IInv /\ AddrInv /\ [Next]_vars => AddrInv'
<1> SUFFICES ASSUME IInv, AddrInv, [Next]_vars PROVE AddrInv'
  OBVIOUS
<1> USE NamesAssumption DEF AddrInv, IInv, TypeOK, Updating, NoneRefused, Writers
<1>1. CASE UNCHANGED <<info, wpc, pstate, paddr>>
  BY <1>1
<1>2. ASSUME NEW r \in Callers, GetDB(r) PROVE AddrInv'
  <2>1. UNCHANGED <<info, wpc>>
    BY <1>2, CallFrame DEF writeVars
  <2>2. CASE OpenPool(r)
    <3>1. ~Updating => VisibleAddr = {info}
      BY DEF VisibleAddr, Visible
    <3>. QED
      BY <2>1, <2>2, <3>1 DEF OpenPool
  <2>3. CASE DropDead(r)
    BY <2>1, <2>3 DEF DropDead
  <2>4. CASE PingOK(r)
    BY <2>1, <2>4 DEF PingOK, CallInv
  <2>5. CASE PingFails(r)
    BY <2>1, <2>5 DEF PingFails
  <2>6. ASSUME \/ Lookup(r) \/ LookupFails(r) \/ ChooseTCP(r) \/ ChooseTunnel(r) \/ CopyInfo(r)
               \/ EnsureLock(r) \/ EnsureReuse(r) \/ EnsureDial(r) \/ EnsureFails(r) \/ EnsureTCP(r)
               \/ Lock(r) \/ Hit(r) \/ Miss(r)
        PROVE  UNCHANGED <<pstate, paddr>>
    BY <2>6 DEF Lookup, LookupFails, ChooseTCP, ChooseTunnel, CopyInfo, EnsureLock, EnsureReuse, EnsureDial,
                EnsureFails, EnsureTCP, Lock, Hit, Miss, poolVars
  <2>. QED
    BY <1>1, <1>2, <2>1, <2>2, <2>3, <2>4, <2>5, <2>6 DEF GetDB
<1>3. ASSUME NEW u \in Updates, UpdateBegin(u) \/ UpdateWritten(u) \/ UpdateSaved(u) PROVE AddrInv'
  <2>1. wpc'[u] \in {"write", "save", "closePools"}
    BY <1>3 DEF UpdateBegin, UpdateWritten, UpdateSaved
  <2>2. \A v \in Updates \ {u} : wpc'[v] = wpc[v]
    BY <1>3 DEF UpdateBegin, UpdateWritten, UpdateSaved
  <2>. QED
    BY <2>1, <2>2
<1>4. ASSUME NEW w \in Writers, ClosePools(w) PROVE AddrInv'
  <2>1. \A r \in Callers : pstate[r] # "opening"
    BY <1>4 DEF ClosePools, LockInv, CallInv, Critical
  <2>2. \A r \in Callers : pstate'[r] \notin {"opening", "open"}
    BY <1>4, <2>1 DEF ClosePools, CacheInv
  <2>. QED
    BY <2>2
<1>5. ASSUME NEW w \in Writers,
             WriterFindsNothing(w) \/ UpdateClosesTunnel(w) \/ DeleteBegin(w)
             \/ DeleteClosesTunnel(w) \/ Forget(w)
      PROVE  AddrInv'
  <2>1. UNCHANGED <<info, pstate, paddr>>
    BY <1>5 DEF WriterFindsNothing, UpdateClosesTunnel, DeleteBegin, DeleteClosesTunnel, Forget,
                poolVars
  <2>2. /\ \A v \in Writers \ {w} : wpc'[v] = wpc[v]
        /\ wpc[w] \in {"start", "closeTunnel", "forget"}
        /\ wpc'[w] # "refused"
    BY <1>5 DEF WriterFindsNothing, UpdateClosesTunnel, DeleteBegin, DeleteClosesTunnel, Forget
  <2>. QED
    BY <2>1, <2>2
<1>6. ASSUME NEW u \in Updates, UpdateSaveFails(u) \/ UpdateRestored(u) PROVE AddrInv'
  <2>1. wpc'[u] \in {"restore", "refused"}
    BY <1>6 DEF UpdateSaveFails, UpdateRestored
  <2>. QED
    BY <2>1
<1>7. TunnelBreaks \/ UNCHANGED vars => UNCHANGED <<info, wpc, pstate, paddr>>
  BY DEF TunnelBreaks, vars, poolVars, writeVars
<1>. QED
  BY <1>1, <1>2, <1>3, <1>4, <1>5, <1>6, <1>7 DEF Next, Update, Delete, AllDone

(* Unless a save failed, no pool with the old host or credentials survives *)
(* an update.                                                              *)
THEOREM UpdatesReplacePools == Spec => []AddrIsCurrent
<1>1. Init => AddrInv
  BY DEF Init, AddrInv, Writers
<1>2. IInv /\ AddrInv => AddrIsCurrent
  BY NamesAssumption DEF IInv, TypeOK, CacheInv, CachedIsOpen, AddrInv, AddrIsCurrent
<1>3. IInv /\ AddrInv /\ [Next]_vars => AddrInv'
  BY AddrStep
<1>. QED
  BY <1>1, <1>2, <1>3, Invariance, PTL DEF Spec

----------------------------------------------------------------------------
(* Refinement *)

AbstractState == [o \in Callers |-> IF pstate[o] \in {"none", "opening"} THEN "new" ELSE pstate[o]]

LEMMA CacheRefinement == IInv /\ [Next]_vars => [Cache!Next]_<<pools, AbstractState>>
<1> SUFFICES ASSUME IInv, [Next]_vars PROVE [Cache!Next]_<<pools, AbstractState>>
  OBVIOUS
<1> USE NamesAssumption DEF AbstractState, IInv, TypeOK
<1>1. ASSUME UNCHANGED <<pools, pstate>> PROVE UNCHANGED <<pools, AbstractState>>
  BY <1>1
<1>2. ASSUME NEW r \in Callers, OpenPool(r) PROVE UNCHANGED <<pools, AbstractState>>
  <2>1. pstate[r] = "none"
    BY <1>2 DEF OpenPool, CallInv
  <2>. QED
    BY <1>2, <2>1 DEF OpenPool
<1>3. ASSUME NEW r \in Callers, PingOK(r) PROVE Cache!Open(db[r], r) /\ db[r] \in Databases
  <2>1. pstate[r] = "opening" /\ db[r] \in Databases /\ pools[db[r]] = None
    BY <1>3 DEF PingOK, CallInv
  <2>. QED
    BY <1>3, <2>1 DEF PingOK, Cache!Open
<1>4. ASSUME NEW r \in Callers, PingFails(r) PROVE Cache!Discard(r)
  <2>1. pstate[r] = "opening"
    BY <1>4 DEF PingFails, CallInv
  <2>. QED
    BY <1>4, <2>1 DEF PingFails, Cache!Discard
<1>5. ASSUME NEW r \in Callers, DropDead(r) PROVE \E d \in Databases : Cache!Drop(d)
  <2>1. PICK d \in Databases : d = db[r]
    BY <1>5 DEF DropDead, CallInv
  <2>2. pstate[pools[d]] = "open" /\ pools[d] \in Callers
    BY <1>5, <2>1 DEF DropDead, CallInv, CacheInv, CachedIsOpen
  <2>3. Cache!Drop(d)
    BY <1>5, <2>1, <2>2 DEF DropDead, Cache!Drop
  <2>. QED
    BY <2>3
<1>6. ASSUME NEW w \in Writers, ClosePools(w) PROVE Cache!DropAll
  <2>1. \A o \in Callers : (\E d \in Databases : pools[d] = o) <=> pstate[o] = "open"
    BY DEF CacheInv, CachedIsOpen
  <2>. QED
    BY <1>6, <2>1 DEF ClosePools, Cache!DropAll
<1>7. ASSUME NEW r \in Callers,
             \/ Lookup(r) \/ LookupFails(r) \/ ChooseTCP(r) \/ ChooseTunnel(r) \/ CopyInfo(r)
             \/ EnsureLock(r) \/ EnsureReuse(r) \/ EnsureDial(r) \/ EnsureFails(r) \/ EnsureTCP(r)
             \/ Lock(r) \/ Hit(r) \/ Miss(r)
      PROVE  UNCHANGED <<pools, pstate>>
  BY <1>7 DEF Lookup, LookupFails, ChooseTCP, ChooseTunnel, CopyInfo, EnsureLock, EnsureReuse, EnsureDial,
              EnsureFails, EnsureTCP, Lock, Hit, Miss, poolVars
<1>8. ASSUME \/ \E u \in Updates : Update(u)
             \/ \E d \in Deletes : Delete(d)
             \/ TunnelBreaks
             \/ UNCHANGED vars
      PROVE  UNCHANGED <<pools, pstate>> \/ \E w \in Writers : ClosePools(w)
  BY <1>8 DEF Update, Delete, UpdateBegin, WriterFindsNothing, UpdateWritten, UpdateSaved,
              UpdateSaveFails, UpdateRestored, UpdateClosesTunnel, DeleteBegin, Writers,
              DeleteClosesTunnel, Forget, TunnelBreaks, vars, callVars, poolVars
<1> HIDE DEF AbstractState, IInv, TypeOK
<1>9. CASE \E r \in Callers : GetDB(r)
  <2>1. PICK r \in Callers : GetDB(r)
    BY <1>9
  <2>2. CASE OpenPool(r)
    BY <1>2, <2>2
  <2>3. CASE PingOK(r)
    BY <1>3, <2>3 DEF Cache!Next
  <2>4. CASE PingFails(r)
    BY <1>4, <2>4 DEF Cache!Next
  <2>5. CASE DropDead(r)
    <3>1. \E d \in Databases : Cache!Drop(d)
      BY <1>5, <2>5
    <3>. QED
      BY <3>1 DEF Cache!Next
  <2>6. CASE ~(OpenPool(r) \/ PingOK(r) \/ PingFails(r) \/ DropDead(r))
    BY <1>1, <1>7, <2>1, <2>6 DEF GetDB
  <2>. QED
    BY <2>2, <2>3, <2>4, <2>5, <2>6
<1>10. CASE ~(\E r \in Callers : GetDB(r))
  <2>1. UNCHANGED <<pools, pstate>> \/ \E w \in Writers : ClosePools(w)
    BY <1>8, <1>10 DEF Next, AllDone
  <2>. QED
    BY <1>1, <1>6, <2>1 DEF Cache!Next
<1>. QED
  BY <1>9, <1>10

(* getDB and Close implement a cache with one open pool per database.      *)
THEOREM ImplementsPoolCache == Spec => CacheSpec
<1>1. Init => Cache!Init
  BY DEF Init, Cache!Init
<1>2. IInv /\ [Next]_vars => [Cache!Next]_<<pools, AbstractState>>
  BY CacheRefinement
<1>. QED
  BY <1>1, <1>2, Invariance, PTL DEF Spec, CacheSpec, Cache!Spec, AbstractState
=============================================================================
