------------------------ MODULE QuerySession_proofs ------------------------
(***************************************************************************)
(* Safety of query sessions, for every number of requests, session ids,    *)
(* connections, databases and cancels.                                     *)
(***************************************************************************)
EXTENDS QuerySession, TLAPS

(* Every action keeps the type invariant.                                  *)
LEMMA TypeStep == IInv /\ [Next]_vars => TypeOK'
<1> SUFFICES ASSUME TypeOK, HandlerInv, [Next]_vars PROVE TypeOK'
  BY DEF IInv
<1> USE DEF TypeOK, Actors, Statements, Pcs, Phases
<1>1. ASSUME NEW r \in Requests, Start(r) PROVE TypeOK'
  BY <1>1, ScriptsAssumption DEF Start, ctxVars, mgrVars, connVars, cancelVars
<1>2. ASSUME NEW r \in Requests, GetAbsent(r) PROVE TypeOK'
  BY <1>2 DEF GetAbsent, reqVars, runVars, ctxVars, mgrVars, connVars, cancelVars
<1>3. ASSUME NEW r \in Requests, GetReuse(r) PROVE TypeOK'
  <2>1. sid[r] \in SessionIds /\ sessions[sid[r]] \in Requests
    BY <1>3 DEF GetReuse, HandlerInv
  <2>. QED
    BY <1>3, <2>1 DEF GetReuse, reqVars, runVars, ctxVars, connVars, cancelVars
<1>4. ASSUME NEW r \in Requests, GetReplace(r) PROVE TypeOK'
  <2>1. sid[r] \in SessionIds /\ sessions[sid[r]] \in Requests
    BY <1>4 DEF GetReplace, HandlerInv
  <2>. QED
    BY <1>4, <2>1 DEF GetReplace, TakeOut, reqVars, runVars, ctxVars, connVars, cancelVars
<1>5. ASSUME NEW r \in Requests, Create(r) PROVE TypeOK'
  <2>1. oconn' \in [Requests -> Conns \cup {None}]
    BY <1>5 DEF Create
  <2>2. cstate' \in [Conns -> {"unopened", "idle", "leased", "dead"}]
    BY <1>5 DEF Create
  <2>3. ctarget' \in [Conns -> Targets \cup {None}]
    BY <1>5 DEF Create
  <2>. QED
    BY <1>5, <2>1, <2>2, <2>3 DEF Create, reqVars, runVars, ctxVars, cancelVars
<1>6. ASSUME NEW r \in Requests, CreateFails(r) PROVE TypeOK'
  BY <1>6 DEF CreateFails, reqVars, ctxVars, mgrVars, connVars, cancelVars
<1>7. ASSUME NEW r \in Requests, Install(r) PROVE TypeOK'
  BY <1>7 DEF Install, reqVars, runVars, ctxVars, connVars, cancelVars
<1>8. ASSUME NEW r \in Requests, Adopt(r) PROVE TypeOK'
  <2>1. sid[r] \in SessionIds /\ sessions[sid[r]] \in Requests
    BY <1>8 DEF Adopt, HandlerInv
  <2>. QED
    BY <1>8, <2>1 DEF Adopt, GiveBack, reqVars, runVars, ctxVars, cancelVars
<1>9. ASSUME NEW r \in Requests, Lock(r) PROVE TypeOK'
  BY <1>9 DEF Lock, reqVars, runVars, ctxVars, connVars, cancelVars
<1>10. ASSUME NEW r \in Requests, Busy(r) PROVE TypeOK'
  BY <1>10 DEF Busy, reqVars, ctxVars, mgrVars, connVars, cancelVars
<1>11. ASSUME NEW r \in Requests, Identify(r) PROVE TypeOK'
  BY <1>11 DEF Identify, ConnOf, HandlerInv, HasSession, reqVars, ctxVars, mgrVars, connVars, cancelVars
<1>12. ASSUME NEW r \in Requests, Execute(r) PROVE TypeOK'
  <2>1. left[r] \in Seq(Statements) /\ left[r] # <<>>
    BY <1>12 DEF Execute
  <2>2. Tail(left[r]) \in Seq(Statements)
    BY <2>1
  <2>. QED
    BY <1>12, <2>2 DEF Execute, reqVars, ctxVars, mgrVars, cancelVars
<1>13. ASSUME NEW r \in Requests, Fail(r) PROVE TypeOK'
  BY <1>13 DEF Fail, reqVars, runVars, ctxVars, mgrVars, connVars, cancelVars
<1>14. ASSUME NEW r \in Requests, Interrupt(r) PROVE TypeOK'
  <2>1. /\ cstate' \in [Conns -> {"unopened", "idle", "leased", "dead"}]
        /\ tx' \in [Conns -> Requests \cup {None}]
        /\ UNCHANGED ctarget
    BY <1>14 DEF Interrupt, connVars
  <2>. QED
    BY <1>14, <2>1 DEF Interrupt, reqVars, runVars, ctxVars, mgrVars, cancelVars
<1>15. ASSUME NEW r \in Requests, Finish(r) PROVE TypeOK'
  BY <1>15 DEF Finish, reqVars, runVars, ctxVars, connVars, cancelVars
<1>16. ASSUME NEW r \in Requests, Remove(r) PROVE TypeOK'
  <2>1. sid[r] \in SessionIds /\ sessions[sid[r]] \in Requests
    BY <1>16 DEF Remove, HandlerInv
  <2>. QED
    BY <1>16, <2>1 DEF Remove, TakeOut, reqVars, runVars, ctxVars, connVars, cancelVars
<1>17. ASSUME NEW r \in Requests, RemoveAbsent(r) PROVE TypeOK'
  BY <1>17 DEF RemoveAbsent, reqVars, runVars, ctxVars, mgrVars, connVars, cancelVars
<1>18. ASSUME NEW r \in Requests, Unlock(r) PROVE TypeOK'
  <2>1. /\ pc' \in [Requests -> Pcs]
        /\ left' \in [Requests -> Seq(Statements)]
        /\ thread' \in [Requests -> Conns \cup {None}]
    BY <1>18 DEF Unlock, Forget
  <2>2. /\ inTx' \in [Requests -> BOOLEAN]
        /\ ctx' \in [Requests -> {"live", "deadline", "canceled"}]
        /\ canceled' \in [Requests -> BOOLEAN]
    BY <1>18 DEF Unlock, Forget
  <2>. QED
    BY <1>18, <2>1, <2>2 DEF Unlock, reqVars, connVars, cancelVars
<1>19. ASSUME NEW r \in Requests, Return(r) PROVE TypeOK'
  <2>1. /\ pc' \in [Requests -> Pcs]
        /\ left' \in [Requests -> Seq(Statements)]
        /\ thread' \in [Requests -> Conns \cup {None}]
    BY <1>19 DEF Return, Forget
  <2>2. /\ inTx' \in [Requests -> BOOLEAN]
        /\ ctx' \in [Requests -> {"live", "deadline", "canceled"}]
        /\ canceled' \in [Requests -> BOOLEAN]
    BY <1>19 DEF Return, Forget
  <2>. QED
    BY <1>19, <2>1, <2>2 DEF Return, GiveBack, reqVars, cancelVars
<1>20. ASSUME NEW p \in Actors, RollBack(p) PROVE TypeOK'
  <2>1. /\ cstate' \in [Conns -> {"unopened", "idle", "leased", "dead"}]
        /\ tx' \in [Conns -> Requests \cup {None}]
        /\ phase' \in [Requests -> Phases]
    BY <1>20 DEF RollBack
  <2>. QED
    BY <1>20, <2>1 DEF RollBack, reqVars, runVars, ctxVars, cancelVars
<1>21. ASSUME NEW p \in Actors, CloseConn(p) PROVE TypeOK'
  BY <1>21 DEF CloseConn, GiveBack, reqVars, runVars, ctxVars, cancelVars
<1>22. ASSUME Collect PROVE TypeOK'
  BY <1>22 DEF Collect, reqVars, runVars, ctxVars, connVars, cancelVars
<1>23. ASSUME NEW i \in SessionIds, Evict(i) PROVE TypeOK'
  BY <1>23 DEF Evict, TakeOut, reqVars, runVars, ctxVars, connVars, cancelVars
<1>24. ASSUME NEW i \in SessionIds, EvictAbsent(i) PROVE TypeOK'
  BY <1>24 DEF EvictAbsent, reqVars, runVars, ctxVars, connVars, cancelVars
<1>25. ASSUME NEW k \in Cancels, NEW r \in Requests, Cancel(k, r) PROVE TypeOK'
  BY <1>25 DEF Cancel, reqVars, runVars, mgrVars, connVars
<1>26. ASSUME NEW k \in Cancels, Kill(k) PROVE TypeOK'
  <2>1. /\ cstate' \in [Conns -> {"unopened", "idle", "leased", "dead"}]
        /\ tx' \in [Conns -> Requests \cup {None}]
        /\ UNCHANGED ctarget
    BY <1>26 DEF Kill, connVars
  <2>. QED
    BY <1>26, <2>1 DEF Kill, reqVars, runVars, ctxVars, mgrVars
<1>27. ASSUME NEW r \in Requests, Deadline(r) PROVE TypeOK'
  BY <1>27 DEF Deadline, reqVars, runVars, mgrVars, connVars, cancelVars
<1>28. ASSUME NEW r \in Requests, Disconnect(r) PROVE TypeOK'
  BY <1>28 DEF Disconnect, reqVars, runVars, mgrVars, connVars, cancelVars
<1>29. ASSUME NEW o \in Requests, IdleElapses(o) PROVE TypeOK'
  BY <1>29 DEF IdleElapses, reqVars, runVars, ctxVars, connVars, cancelVars
<1>30. CASE UNCHANGED vars
  BY <1>30 DEF vars, reqVars, runVars, ctxVars, mgrVars, connVars, cancelVars
<1>. QED
  BY <1>1, <1>2, <1>3, <1>4, <1>5, <1>6, <1>7, <1>8, <1>9, <1>10, <1>11, <1>12, <1>13,
     <1>14, <1>15, <1>16, <1>17, <1>18, <1>19, <1>20, <1>21, <1>22, <1>23, <1>24, <1>25,
     <1>26, <1>27, <1>28, <1>29, <1>30
     DEF Next, Handler, Close, AllDone

(* Position of a handler, its object and the object it works on.           *)
LEMMA HandlerStep == IInv /\ [Next]_vars => HandlerInv'
<1> SUFFICES ASSUME TypeOK, HandlerInv, MapInv, CloseInv, [Next]_vars PROVE HandlerInv'
  BY DEF IInv
<1> USE DEF TypeOK, HandlerInv, HasSession, HoldsMutex
<1>1. ASSUME NEW r \in Requests, Start(r) PROVE HandlerInv'
  <2>1. PICK i \in SessionIds \cup {None} :
          /\ sid' = [sid EXCEPT ![r] = i]
          /\ pc' = [pc EXCEPT ![r] = IF i = None THEN "create" ELSE "get"]
    BY <1>1 DEF Start
  <2>2. UNCHANGED <<sess, phase>> /\ pc[r] = "start"
    BY <1>1 DEF Start, mgrVars
  <2>. QED
    BY <2>1, <2>2
<1>2. ASSUME NEW r \in Requests, GetAbsent(r) PROVE HandlerInv'
  BY <1>2 DEF GetAbsent, reqVars, mgrVars
<1>3. ASSUME NEW r \in Requests, GetReuse(r) PROVE HandlerInv'
  BY <1>3 DEF GetReuse, MapInv, MappedIsOpen, reqVars
<1>4. ASSUME NEW r \in Requests, GetReplace(r) PROVE HandlerInv'
  BY <1>4 DEF GetReplace, TakeOut, MapInv, MappedIsOpen, reqVars
<1>5. ASSUME NEW r \in Requests, Create(r) PROVE HandlerInv'
  <2>1. /\ pc[r] = "create" /\ sess[r] = None /\ phase[r] = "none"
        /\ phase' = [phase EXCEPT ![r] = "fresh"]
        /\ sess' = [sess EXCEPT ![r] = IF sid[r] = None THEN r ELSE @]
        /\ pc' = [pc EXCEPT ![r] = IF sid[r] = None THEN "identify" ELSE "install"]
        /\ sid' = sid
    BY <1>5 DEF Create, reqVars
  <2>2. \A q \in Requests : sid[q] # None => sess[q] # r
    BY <2>1, DistinctNames
  <2>3. CASE sid[r] = None
    BY <2>1, <2>2, <2>3, DistinctNames
  <2>4. CASE sid[r] # None
    BY <2>1, <2>2, <2>4
  <2>. QED
    BY <2>3, <2>4
<1>6. ASSUME NEW r \in Requests, CreateFails(r) PROVE HandlerInv'
  BY <1>6 DEF CreateFails, reqVars, mgrVars
<1>7. ASSUME NEW r \in Requests, Install(r) PROVE HandlerInv'
  <2>1. /\ pc[r] = "install" /\ sess[r] = None /\ phase[r] = "fresh" /\ sid[r] # None
        /\ phase' = [phase EXCEPT ![r] = "open"]
        /\ sess' = [sess EXCEPT ![r] = r]
        /\ pc' = [pc EXCEPT ![r] = "lock"]
        /\ sid' = sid
    BY <1>7 DEF Install, reqVars
  <2>2. \A q \in Requests : sid[q] # None => sess[q] # r
    BY <2>1, DistinctNames
  <2>. QED
    BY <2>1, <2>2
<1>8. ASSUME NEW r \in Requests, Adopt(r) PROVE HandlerInv'
  BY <1>8 DEF Adopt, GiveBack, MapInv, MappedIsOpen, reqVars
<1>9. ASSUME NEW r \in Requests, Lock(r) PROVE HandlerInv'
  BY <1>9 DEF Lock, reqVars
<1>10. ASSUME NEW r \in Requests, Busy(r) PROVE HandlerInv'
  BY <1>10 DEF Busy, reqVars, mgrVars
<1>11. ASSUME NEW r \in Requests, Identify(r) PROVE HandlerInv'
  BY <1>11 DEF Identify, reqVars, mgrVars
<1>12. ASSUME NEW r \in Requests, Fail(r) PROVE HandlerInv'
  BY <1>12 DEF Fail, reqVars, mgrVars
<1>13. ASSUME NEW r \in Requests, Interrupt(r) PROVE HandlerInv'
  BY <1>13 DEF Interrupt, reqVars, mgrVars
<1>14. ASSUME NEW r \in Requests, Finish(r) PROVE HandlerInv'
  BY <1>14 DEF Finish, reqVars
<1>15. ASSUME NEW r \in Requests, Remove(r) PROVE HandlerInv'
  BY <1>15 DEF Remove, TakeOut, MapInv, MappedIsOpen, reqVars
<1>16. ASSUME NEW r \in Requests, RemoveAbsent(r) PROVE HandlerInv'
  BY <1>16 DEF RemoveAbsent, reqVars, mgrVars
<1>17. ASSUME NEW r \in Requests, Unlock(r) PROVE HandlerInv'
  BY <1>17 DEF Unlock, Forget, reqVars
<1>18. ASSUME NEW r \in Requests, Return(r) PROVE HandlerInv'
  BY <1>18 DEF Return, Forget, GiveBack, reqVars
<1>19. ASSUME NEW p \in Actors, RollBack(p) PROVE HandlerInv'
  BY <1>19 DEF RollBack, CloseInv, reqVars
<1>20. ASSUME NEW p \in Actors, CloseConn(p) PROVE HandlerInv'
  BY <1>20 DEF CloseConn, GiveBack, CloseInv, reqVars
<1>21. ASSUME NEW i \in SessionIds, Evict(i) PROVE HandlerInv'
  BY <1>21 DEF Evict, TakeOut, MapInv, MappedIsOpen, reqVars
<1>22. CASE UNCHANGED <<pc, sid, sess, phase>>
  BY <1>22
<1>23. ASSUME NEW r \in Requests,
              Execute(r) \/ Deadline(r) \/ Disconnect(r) \/ IdleElapses(r)
       PROVE  UNCHANGED <<pc, sid, sess, phase>>
  BY <1>23 DEF Execute, Deadline, Disconnect, IdleElapses, reqVars, mgrVars
<1>24. ASSUME NEW k \in Cancels, Kill(k) \/ \E r \in Requests : Cancel(k, r)
       PROVE  UNCHANGED <<pc, sid, sess, phase>>
  BY <1>24 DEF Cancel, Kill, reqVars, mgrVars
<1>25. ASSUME Collect \/ \E i \in SessionIds : EvictAbsent(i)
       PROVE  UNCHANGED <<pc, sid, sess, phase>>
  BY <1>25 DEF Collect, EvictAbsent, reqVars
<1>26. UNCHANGED vars => UNCHANGED <<pc, sid, sess, phase>>
  BY DEF vars, reqVars, mgrVars
<1>. QED
  BY <1>1, <1>2, <1>3, <1>4, <1>5, <1>6, <1>7, <1>8, <1>9, <1>10, <1>11, <1>12, <1>13,
     <1>14, <1>15, <1>16, <1>17, <1>18, <1>19, <1>20, <1>21, <1>22, <1>23, <1>24, <1>25, <1>26
     DEF Next, Handler, Close, AllDone

(* Connections: closing an object gives back the connection of that object *)
(* only.                                                                   *)
LEMMA GiveBackStep ==
  ASSUME TypeOK, ConnInv, NEW o \in Requests, Live(o), GiveBack(o)
  PROVE  ConnInv'
<1>1. oconn[o] \in Conns /\ None \notin Conns
  BY DistinctNames DEF TypeOK, ConnInv
<1>2. \A q \in Requests \ {o} : Live(q) => oconn[q] # oconn[o] /\ oconn[q] \in Conns
  BY DEF ConnInv, ConnExclusive, TypeOK
<1>3. /\ phase' = [phase EXCEPT ![o] = "closed"]
      /\ oconn' = [oconn EXCEPT ![o] = None]
      /\ cstate' = [cstate EXCEPT ![oconn[o]] = IF @ = "dead" THEN "dead" ELSE "idle"]
  BY DEF GiveBack
<1>4. ~Live(o)' /\ oconn'[o] = None
  BY <1>3 DEF Live, TypeOK
<1>5. \A q \in Requests \ {o} : (Live(q)' <=> Live(q)) /\ oconn'[q] = oconn[q]
  BY <1>3 DEF Live, TypeOK
<1>6. \A q \in Requests \ {o} : Live(q) => cstate'[oconn[q]] = cstate[oconn[q]]
  BY <1>2, <1>3 DEF TypeOK
<1>. QED
  BY <1>4, <1>5, <1>6 DEF ConnInv, ConnExclusive

(* A change of phase that leaves the same objects live changes nothing.    *)
LEMMA SameLiveStep ==
  ASSUME ConnInv, UNCHANGED oconn, \A o \in Requests : Live(o)' <=> Live(o),
         \A o \in Requests : Live(o) => cstate'[oconn[o]] \in {"leased", "dead"}
  PROVE  ConnInv'
BY DEF ConnInv, ConnExclusive

LEMMA ConnStep == IInv /\ [Next]_vars => ConnInv'
<1> SUFFICES ASSUME TypeOK, HandlerInv, ConnInv, MapInv, CloseInv, [Next]_vars PROVE ConnInv'
  BY DEF IInv
<1>1. ASSUME NEW r \in Requests, Create(r) PROVE ConnInv'
  <2>1. PICK c \in Conns :
          /\ cstate[c] \in {"idle", "unopened"}
          /\ cstate' = [cstate EXCEPT ![c] = "leased"]
          /\ oconn' = [oconn EXCEPT ![r] = c]
    BY <1>1 DEF Create
  <2>2. phase' = [phase EXCEPT ![r] = "fresh"] /\ ~Live(r)
    BY <1>1 DEF Create, HandlerInv, Live
  <2>3. \A o \in Requests : Live(o) => oconn[o] # c /\ oconn[o] \in Conns
    BY <2>1 DEF ConnInv, ConnExclusive, TypeOK
  <2>4. Live(r)' /\ oconn'[r] = c /\ cstate'[c] = "leased"
    BY <2>1, <2>2 DEF Live, TypeOK
  <2>5. \A o \in Requests \ {r} : (Live(o)' <=> Live(o)) /\ oconn'[o] = oconn[o]
    BY <2>1, <2>2 DEF Live, TypeOK
  <2>6. \A o \in Requests : Live(o) => cstate'[oconn[o]] = cstate[oconn[o]]
    BY <2>1, <2>3 DEF TypeOK
  <2>7. c # None
    BY DistinctNames
  <2>. QED
    BY <2>2, <2>3, <2>4, <2>5, <2>6, <2>7 DEF ConnInv, ConnExclusive
<1>2. ASSUME NEW r \in Requests, Adopt(r) PROVE ConnInv'
  BY <1>2, GiveBackStep DEF Adopt, HandlerInv, Live
<1>3. ASSUME NEW r \in Requests, Return(r) PROVE ConnInv'
  BY <1>3, GiveBackStep DEF Return, Forget, HandlerInv, HoldsMutex, Live
<1>4. ASSUME NEW p \in Actors, CloseConn(p) PROVE ConnInv'
  <2>1. closing[p] \in Requests
    BY <1>4 DEF CloseConn, TypeOK
  <2>. QED
    BY <1>4, <2>1, GiveBackStep DEF CloseConn, Live
<1>5. ASSUME NEW r \in Requests, Install(r) PROVE ConnInv'
  <2>1. phase[r] = "fresh" /\ phase' = [phase EXCEPT ![r] = "open"]
    BY <1>5 DEF Install, HandlerInv
  <2>2. \A o \in Requests : Live(o)' <=> Live(o)
    BY <2>1 DEF Live, TypeOK
  <2>3. UNCHANGED <<oconn, cstate>>
    BY <1>5 DEF Install, connVars
  <2>. QED
    BY <2>2, <2>3, SameLiveStep DEF ConnInv, ConnExclusive
<1>6. ASSUME NEW p \in Actors, NEW i \in SessionIds, sessions[i] # None, TakeOut(p, i),
             UNCHANGED <<oconn, cstate>>
      PROVE  ConnInv'
  <2>1. /\ phase[sessions[i]] = "open"
        /\ phase' = [phase EXCEPT ![sessions[i]] = "removed"]
    BY <1>6 DEF TakeOut, MapInv, MappedIsOpen
  <2>2. \A o \in Requests : Live(o)' <=> Live(o)
    BY <2>1 DEF Live, TypeOK
  <2>. QED
    BY <1>6, <2>2, SameLiveStep DEF ConnInv, ConnExclusive
<1>7. ASSUME NEW r \in Requests, GetReplace(r) \/ Remove(r) PROVE ConnInv'
  <2>1. sid[r] \in SessionIds /\ sessions[sid[r]] # None
    BY <1>7 DEF GetReplace, Remove, HandlerInv, TypeOK
  <2>2. TakeOut(r, sid[r]) /\ UNCHANGED <<oconn, cstate>>
    BY <1>7 DEF GetReplace, Remove, connVars
  <2>. QED
    BY <1>6, <2>1, <2>2 DEF Actors
<1>8. ASSUME NEW i \in SessionIds, Evict(i) PROVE ConnInv'
  BY <1>6, <1>8 DEF Evict, connVars, Actors
<1>9. ASSUME NEW p \in Actors, RollBack(p) PROVE ConnInv'
  <2>1. /\ phase[closing[p]] = "removed"
        /\ phase' = [phase EXCEPT ![closing[p]] = "rolledback"]
        /\ UNCHANGED oconn
    BY <1>9 DEF RollBack
  <2>2. \A o \in Requests : Live(o)' <=> Live(o)
    BY <2>1 DEF Live, TypeOK
  <2>3. \A c \in Conns : cstate'[c] \in {cstate[c], "dead"}
    BY <1>9 DEF RollBack, TypeOK
  <2>4. \A o \in Requests : Live(o) => oconn[o] \in Conns
    BY DEF ConnInv, TypeOK
  <2>. QED
    BY <2>1, <2>2, <2>3, <2>4, SameLiveStep DEF ConnInv, ConnExclusive
<1>10. ASSUME UNCHANGED <<phase, oconn>>, \A c \in Conns : cstate'[c] \in {cstate[c], "dead"}
       PROVE  ConnInv'
  <2>1. \A o \in Requests : Live(o) => oconn[o] \in Conns
    BY DEF ConnInv, TypeOK
  <2>2. \A o \in Requests : Live(o)' <=> Live(o)
    BY <1>10 DEF Live
  <2>. QED
    BY <1>10, <2>1, <2>2, SameLiveStep DEF ConnInv, ConnExclusive
<1>11. ASSUME NEW r \in Requests, Interrupt(r) PROVE ConnInv'
  <2>1. \A c \in Conns : cstate'[c] \in {cstate[c], "dead"}
    BY <1>11 DEF Interrupt, connVars, TypeOK
  <2>. QED
    BY <1>10, <1>11, <2>1 DEF Interrupt, mgrVars
<1>12. ASSUME NEW k \in Cancels, Kill(k) PROVE ConnInv'
  <2>1. \A c \in Conns : cstate'[c] \in {cstate[c], "dead"}
    BY <1>12 DEF Kill, connVars, TypeOK
  <2>. QED
    BY <1>10, <1>12, <2>1 DEF Kill, mgrVars
<1>13. CASE UNCHANGED <<phase, oconn, cstate>>
  BY <1>10, <1>13
<1>14. ASSUME NEW r \in Requests,
              \/ Start(r) \/ GetAbsent(r) \/ GetReuse(r) \/ CreateFails(r) \/ Lock(r)
              \/ Busy(r) \/ Identify(r) \/ Execute(r)
       PROVE  UNCHANGED <<phase, oconn, cstate>>
  BY <1>14 DEF Start, GetAbsent, GetReuse, CreateFails, Lock, Busy, Identify, Execute,
               mgrVars, connVars
<1>15. ASSUME NEW r \in Requests,
              \/ Fail(r) \/ Finish(r) \/ RemoveAbsent(r) \/ Unlock(r) \/ Deadline(r)
              \/ Disconnect(r) \/ IdleElapses(r) \/ \E k \in Cancels : Cancel(k, r)
       PROVE  UNCHANGED <<phase, oconn, cstate>>
  BY <1>15 DEF Fail, Finish, RemoveAbsent, Unlock, Deadline, Disconnect, IdleElapses, Cancel,
               mgrVars, connVars
<1>16. ASSUME Collect \/ \E i \in SessionIds : EvictAbsent(i)
       PROVE  UNCHANGED <<phase, oconn, cstate>>
  BY <1>16 DEF Collect, EvictAbsent, connVars
<1>17. UNCHANGED vars => UNCHANGED <<phase, oconn, cstate>>
  BY DEF vars, mgrVars, connVars
<1>. QED
  BY <1>1, <1>2, <1>3, <1>4, <1>5, <1>7, <1>8, <1>9, <1>11, <1>12, <1>13, <1>14, <1>15,
     <1>16, <1>17
     DEF Next, Handler, Close, AllDone

(* The map holds exactly the open sessions, each under its own id.         *)
LEMMA MapStep == IInv /\ [Next]_vars => MapInv'
<1> SUFFICES ASSUME TypeOK, HandlerInv, MapInv, CloseInv, [Next]_vars PROVE MapInv'
  BY DEF IInv
<1> USE DEF MapInv, MappedIsOpen
<1>1. ASSUME NEW r \in Requests, Start(r) PROVE MapInv'
  <2>1. phase[r] = "none" /\ UNCHANGED <<phase, sessions>>
    BY <1>1 DEF Start, HandlerInv, mgrVars
  <2>2. \A o \in Requests : phase[o] = "open" => sid'[o] = sid[o]
    BY <1>1, <2>1 DEF Start, TypeOK
  <2>3. \A i \in SessionIds : sessions[i] # None => sessions[i] \in Requests
    BY DEF TypeOK
  <2>. QED
    BY <2>1, <2>2, <2>3
<1>2. ASSUME NEW p \in Actors, NEW i \in SessionIds, sessions[i] # None, TakeOut(p, i), sid' = sid
      PROVE  MapInv'
  <2>1. /\ sessions' = [sessions EXCEPT ![i] = None]
        /\ phase' = [phase EXCEPT ![sessions[i]] = "removed"]
    BY <1>2 DEF TakeOut
  <2>2. \A j \in SessionIds \ {i} : sessions[j] # None => sessions[j] # sessions[i]
    BY <1>2
  <2>. QED
    BY <1>2, <2>1, <2>2 DEF TypeOK
<1>3. ASSUME NEW r \in Requests, GetReplace(r) \/ Remove(r) PROVE MapInv'
  <2>1. sid[r] \in SessionIds /\ sessions[sid[r]] # None
    BY <1>3 DEF GetReplace, Remove, HandlerInv, TypeOK
  <2>2. TakeOut(r, sid[r]) /\ UNCHANGED sid
    BY <1>3 DEF GetReplace, Remove, reqVars
  <2>. QED
    BY <1>2, <2>1, <2>2 DEF Actors
<1>4. ASSUME NEW i \in SessionIds, Evict(i) PROVE MapInv'
  BY <1>2, <1>4 DEF Evict, reqVars, Actors
<1>5. ASSUME NEW r \in Requests, Install(r) PROVE MapInv'
  <2>1. sid[r] \in SessionIds /\ phase[r] = "fresh" /\ sid' = sid
    BY <1>5 DEF Install, HandlerInv, TypeOK, reqVars
  <2>2. \A i \in SessionIds : sessions[i] # r
    BY <2>1, DistinctNames
  <2>. QED
    BY <1>5, <2>1, <2>2, DistinctNames DEF Install, TypeOK
<1>6. ASSUME NEW o \in Requests, NEW f \in Phases \ {"open"}, phase[o] # "open",
             phase' = [phase EXCEPT ![o] = f], UNCHANGED <<sid, sessions>>
      PROVE  MapInv'
  BY <1>6 DEF TypeOK
<1>7. ASSUME NEW r \in Requests, Create(r) \/ Adopt(r) \/ Return(r) PROVE MapInv'
  <2>1. phase[r] # "open"
    BY <1>7 DEF Create, Adopt, Return, Forget, HandlerInv, HoldsMutex
  <2>2. UNCHANGED <<sid, sessions>>
    BY <1>7 DEF Create, Adopt, Return, reqVars
  <2>3. \E f \in {"fresh", "closed"} : phase' = [phase EXCEPT ![r] = f]
    BY <1>7 DEF Create, Adopt, Return, GiveBack
  <2>. QED
    BY <1>6, <2>1, <2>2, <2>3 DEF Phases
<1>8. ASSUME NEW p \in Actors, Close(p) PROVE MapInv'
  <2>1. closing[p] \in Requests /\ phase[closing[p]] # "open"
    BY <1>8 DEF Close, RollBack, CloseConn, TypeOK
  <2>2. UNCHANGED <<sid, sessions>>
    BY <1>8 DEF Close, RollBack, CloseConn, reqVars
  <2>3. \E f \in {"rolledback", "closed"} : phase' = [phase EXCEPT ![closing[p]] = f]
    BY <1>8 DEF Close, RollBack, CloseConn, GiveBack
  <2>. QED
    BY <1>6, <2>1, <2>2, <2>3 DEF Phases
<1>9. CASE UNCHANGED <<phase, sid, sessions>>
  BY <1>9
<1>10. ASSUME NEW r \in Requests,
              \/ GetAbsent(r) \/ GetReuse(r) \/ CreateFails(r) \/ Lock(r) \/ Busy(r)
              \/ Identify(r) \/ Execute(r) \/ Fail(r) \/ Interrupt(r)
       PROVE  UNCHANGED <<phase, sid, sessions>>
  BY <1>10 DEF GetAbsent, GetReuse, CreateFails, Lock, Busy, Identify, Execute, Fail,
               Interrupt, mgrVars, reqVars
<1>11. ASSUME NEW r \in Requests,
              \/ Finish(r) \/ RemoveAbsent(r) \/ Unlock(r) \/ Deadline(r) \/ Disconnect(r)
              \/ IdleElapses(r)
       PROVE  UNCHANGED <<phase, sid, sessions>>
  BY <1>11 DEF Finish, RemoveAbsent, Unlock, Deadline, Disconnect, IdleElapses, mgrVars, reqVars
<1>12. ASSUME NEW k \in Cancels, Kill(k) \/ \E r \in Requests : Cancel(k, r)
       PROVE  UNCHANGED <<phase, sid, sessions>>
  BY <1>12 DEF Kill, Cancel, mgrVars, reqVars
<1>13. ASSUME Collect \/ \E i \in SessionIds : EvictAbsent(i)
       PROVE  UNCHANGED <<phase, sid, sessions>>
  BY <1>13 DEF Collect, EvictAbsent, reqVars
<1>14. UNCHANGED vars => UNCHANGED <<phase, sid, sessions>>
  BY DEF vars, mgrVars, reqVars
<1>. QED
  BY <1>1, <1>3, <1>4, <1>5, <1>7, <1>8, <1>9, <1>10, <1>11, <1>12, <1>13, <1>14
     DEF Next, Handler, AllDone

(* Every object that was taken out of the map has exactly one closer.      *)
LEMMA CloseStep == IInv /\ [Next]_vars => CloseInv'
<1> SUFFICES ASSUME TypeOK, HandlerInv, MapInv, CloseInv, [Next]_vars PROVE CloseInv'
  BY DEF IInv
<1> DEFINE Busied(r, f) == f[r] \in {"closeOld", "closeRemoved"}
<1>1. ASSUME NEW p \in Actors, NEW i \in SessionIds, sessions[i] # None, TakeOut(p, i),
             closing[p] = None,
             \A r \in Requests : Busied(r, pc') <=> (Busied(r, pc) \/ r = p)
      PROVE  CloseInv'
  <2>1. sessions[i] \in Requests /\ phase[sessions[i]] = "open"
    BY <1>1 DEF MapInv, MappedIsOpen, TypeOK
  <2>2. \A q \in Actors : closing[q] # sessions[i]
    BY <2>1, DistinctNames DEF CloseInv
  <2>3. /\ phase' = [phase EXCEPT ![sessions[i]] = "removed"]
        /\ closing' = [closing EXCEPT ![p] = sessions[i]]
    BY <1>1 DEF TakeOut
  <2>4. \A q \in Actors \ {p} : closing'[q] = closing[q]
    BY <2>3 DEF TypeOK
  <2>5. closing'[p] = sessions[i] /\ phase'[sessions[i]] = "removed"
    BY <2>1, <2>3 DEF TypeOK
  <2>6. \A o \in Requests \ {sessions[i]} : phase'[o] = phase[o]
    BY <2>3 DEF TypeOK
  <2>7. \A q \in Actors : closing'[q] # None => phase'[closing'[q]] \in {"removed", "rolledback"}
    <3>1. \A q \in Actors \ {p} : closing[q] # None =>
            closing[q] \in Requests \ {sessions[i]} /\ phase[closing[q]] \in {"removed", "rolledback"}
      BY <2>2 DEF CloseInv, TypeOK
    <3>. QED
      BY <3>1, <2>4, <2>5, <2>6
  <2>8. \A q, u \in Actors : closing'[q] # None /\ closing'[q] = closing'[u] => q = u
    BY <2>2, <2>4, <2>5 DEF CloseInv
  <2>9. \A o \in Requests : phase'[o] \in {"removed", "rolledback"} => \E q \in Actors : closing'[q] = o
    <3> SUFFICES ASSUME NEW o \in Requests, phase'[o] \in {"removed", "rolledback"}
                 PROVE  \E q \in Actors : closing'[q] = o
      OBVIOUS
    <3>1. CASE o = sessions[i]
      BY <3>1, <2>5
    <3>2. CASE o # sessions[i]
      <4>1. PICK q \in Actors : closing[q] = o
        BY <3>2, <2>6 DEF CloseInv
      <4>. QED
        BY <4>1, <2>4, <1>1, DistinctNames
    <3>. QED
      BY <3>1, <3>2
  <2>10. \A r \in Requests : closing'[r] # None <=> Busied(r, pc')
    BY <1>1, <2>1, <2>4, <2>5, DistinctNames DEF CloseInv, Actors
  <2>. QED
    BY <2>7, <2>8, <2>9, <2>10 DEF CloseInv
<1>2. ASSUME NEW r \in Requests, GetReplace(r) \/ Remove(r) PROVE CloseInv'
  <2>1. sid[r] \in SessionIds /\ sessions[sid[r]] # None
    BY <1>2 DEF GetReplace, Remove, HandlerInv, TypeOK
  <2>2. TakeOut(r, sid[r]) /\ closing[r] = None
    BY <1>2 DEF GetReplace, Remove, CloseInv
  <2>3. \A q \in Requests : Busied(q, pc') <=> (Busied(q, pc) \/ q = r)
    BY <1>2 DEF GetReplace, Remove, TypeOK
  <2>. QED
    BY <1>1, <2>1, <2>2, <2>3 DEF Actors
<1>3. ASSUME NEW i \in SessionIds, Evict(i) PROVE CloseInv'
  BY <1>1, <1>3, DistinctNames DEF Evict, Actors
<1>4. ASSUME NEW p \in Actors, RollBack(p) PROVE CloseInv'
  <2>1. /\ phase[closing[p]] = "removed"
        /\ phase' = [phase EXCEPT ![closing[p]] = "rolledback"]
        /\ UNCHANGED <<closing, pc>>
    BY <1>4 DEF RollBack
  <2>. QED
    BY <2>1 DEF CloseInv, TypeOK
<1>5. ASSUME NEW p \in Actors, CloseConn(p) PROVE CloseInv'
  <2>1. /\ closing[p] \in Requests
        /\ phase' = [phase EXCEPT ![closing[p]] = "closed"]
        /\ closing' = [closing EXCEPT ![p] = None]
    BY <1>5 DEF CloseConn, GiveBack, TypeOK
  <2>2. \A r \in Requests : Busied(r, pc') <=> (Busied(r, pc) /\ r # p)
    BY <1>5 DEF CloseConn
  <2>3. closing'[p] = None /\ \A q \in Actors \ {p} : closing'[q] = closing[q] /\ closing[q] # closing[p]
    BY <2>1, DistinctNames DEF TypeOK, CloseInv
  <2>4. phase'[closing[p]] = "closed" /\ \A o \in Requests \ {closing[p]} : phase'[o] = phase[o]
    BY <2>1 DEF TypeOK
  <2>5. \A q \in Actors : closing'[q] # None => phase'[closing'[q]] \in {"removed", "rolledback"}
    BY <2>3, <2>4 DEF CloseInv, TypeOK
  <2>6. \A q, u \in Actors : closing'[q] # None /\ closing'[q] = closing'[u] => q = u
    BY <2>3 DEF CloseInv
  <2>7. \A o \in Requests : phase'[o] \in {"removed", "rolledback"} => \E q \in Actors : closing'[q] = o
    <3> SUFFICES ASSUME NEW o \in Requests, phase'[o] \in {"removed", "rolledback"}
                 PROVE  \E q \in Actors : closing'[q] = o
      OBVIOUS
    <3>1. PICK q \in Actors : closing[q] = o
      BY <2>4 DEF CloseInv
    <3>. QED
      BY <3>1, <2>3, <2>4
  <2>8. \A r \in Requests : closing'[r] # None <=> Busied(r, pc')
    BY <2>2, <2>3 DEF CloseInv, Actors
  <2>. QED
    BY <2>5, <2>6, <2>7, <2>8 DEF CloseInv
<1>6. ASSUME UNCHANGED closing,
             \A o \in Requests :
               phase'[o] = phase[o] \/ {phase[o], phase'[o]} \cap {"removed", "rolledback"} = {},
             \A r \in Requests : Busied(r, pc') <=> Busied(r, pc)
      PROVE  CloseInv'
  <2>1. \A o \in Requests : phase'[o] \in {"removed", "rolledback"} <=>
                            phase[o] \in {"removed", "rolledback"}
    BY <1>6
  <2>2. \A p \in Actors : closing[p] # None => closing[p] \in Requests
    BY DEF TypeOK
  <2>. QED
    BY <1>6, <2>1, <2>2 DEF CloseInv
<1>7. ASSUME NEW r \in Requests, Create(r) \/ Install(r) \/ Adopt(r) \/ Return(r) PROVE CloseInv'
  <2>1. phase[r] \in {"none", "fresh"} /\ UNCHANGED closing
    BY <1>7 DEF Create, Install, Adopt, Return, Forget, HandlerInv, HoldsMutex
  <2>2. \E f \in {"fresh", "open", "closed"} : phase' = [phase EXCEPT ![r] = f]
    BY <1>7 DEF Create, Install, Adopt, Return, GiveBack
  <2>3. \A q \in Requests : Busied(q, pc') <=> Busied(q, pc)
    BY <1>7 DEF Create, Install, Adopt, Return, Forget, TypeOK
  <2>. QED
    BY <1>6, <2>1, <2>2, <2>3 DEF TypeOK
<1>8. ASSUME NEW r \in Requests,
             \/ Start(r) \/ GetAbsent(r) \/ GetReuse(r) \/ CreateFails(r) \/ Lock(r)
             \/ Busy(r) \/ Identify(r)
      PROVE  CloseInv'
  <2>1. UNCHANGED <<closing, phase>>
    BY <1>8 DEF Start, GetAbsent, GetReuse, CreateFails, Lock, Busy, Identify, mgrVars
  <2>2. \A q \in Requests : Busied(q, pc') <=> Busied(q, pc)
    BY <1>8 DEF Start, GetAbsent, GetReuse, CreateFails, Lock, Busy, Identify, TypeOK
  <2>. QED
    BY <1>6, <2>1, <2>2
<1>9. ASSUME NEW r \in Requests,
             \/ Fail(r) \/ Interrupt(r) \/ Finish(r) \/ RemoveAbsent(r) \/ Unlock(r)
      PROVE  CloseInv'
  <2>1. UNCHANGED <<closing, phase>>
    BY <1>9 DEF Fail, Interrupt, Finish, RemoveAbsent, Unlock, mgrVars
  <2>2. \A q \in Requests : Busied(q, pc') <=> Busied(q, pc)
    BY <1>9 DEF Fail, Interrupt, Finish, RemoveAbsent, Unlock, Forget, TypeOK
  <2>. QED
    BY <1>6, <2>1, <2>2
<1>10. CASE UNCHANGED <<closing, phase, pc>>
  BY <1>6, <1>10
<1>11. ASSUME NEW r \in Requests,
              Execute(r) \/ Deadline(r) \/ Disconnect(r) \/ IdleElapses(r)
       PROVE  UNCHANGED <<closing, phase, pc>>
  BY <1>11 DEF Execute, Deadline, Disconnect, IdleElapses, mgrVars
<1>12. ASSUME NEW k \in Cancels, Kill(k) \/ \E r \in Requests : Cancel(k, r)
       PROVE  UNCHANGED <<closing, phase, pc>>
  BY <1>12 DEF Kill, Cancel, mgrVars
<1>13. ASSUME Collect \/ \E i \in SessionIds : EvictAbsent(i)
       PROVE  UNCHANGED <<closing, phase, pc>>
  BY <1>13 DEF Collect, EvictAbsent
<1>14. UNCHANGED vars => UNCHANGED <<closing, phase, pc>>
  BY DEF vars, mgrVars
<1>. QED
  BY <1>2, <1>3, <1>4, <1>5, <1>7, <1>8, <1>9, <1>10, <1>11, <1>12, <1>13, <1>14
     DEF Next, Handler, Close, AllDone

(* A handler that passed TryLock holds the run mutex until it returns.     *)
LEMMA MutexStep == IInv /\ [Next]_vars => MutexInv'
<1> SUFFICES ASSUME TypeOK, HandlerInv, CloseInv, MutexInv, [Next]_vars PROVE MutexInv'
  BY DEF IInv
<1> DEFINE Holds(r) == pc[r] \in HoldsMutex /\ sid[r] # None
<1>1. ASSUME NEW r \in Requests, Lock(r) PROVE MutexInv'
  <2>1. /\ sess[r] \in Requests /\ runMu[sess[r]] = None
        /\ runMu' = [runMu EXCEPT ![sess[r]] = r]
        /\ pc' = [pc EXCEPT ![r] = "identify"]
        /\ UNCHANGED <<sid, sess>>
    BY <1>1 DEF Lock, HandlerInv, HasSession, TypeOK, reqVars
  <2>2. \A q \in Requests : Holds(q) => sess[q] # sess[r]
    BY <2>1, DistinctNames DEF MutexInv
  <2>. QED
    BY <2>1, <2>2 DEF MutexInv, TypeOK, HoldsMutex
<1>2. ASSUME NEW r \in Requests, Unlock(r) PROVE MutexInv'
  <2>1. /\ Holds(r)
        /\ runMu' = [runMu EXCEPT ![sess[r]] = None]
        /\ pc' = [pc EXCEPT ![r] = "done"]
        /\ UNCHANGED <<sid, sess>>
    BY <1>2 DEF Unlock, Forget, reqVars, HoldsMutex
  <2>2. \A q \in Requests \ {r} : Holds(q) => sess[q] # sess[r]
    BY <2>1 DEF MutexInv
  <2>. QED
    BY <2>1, <2>2 DEF MutexInv, TypeOK, HoldsMutex
<1>3. ASSUME UNCHANGED runMu,
             \A r \in Requests : Holds(r)' => Holds(r) /\ sess'[r] = sess[r]
      PROVE  MutexInv'
  BY <1>3 DEF MutexInv
<1>4. ASSUME NEW r \in Requests, Start(r) PROVE MutexInv'
  <2>1. \A q \in Requests \ {r} : pc'[q] = pc[q] /\ sid'[q] = sid[q]
    BY <1>4 DEF Start, TypeOK
  <2>2. UNCHANGED <<runMu, sess>> /\ pc'[r] \in {"get", "create"}
    BY <1>4 DEF Start, TypeOK, mgrVars
  <2>. QED
    BY <1>3, <2>1, <2>2 DEF HoldsMutex
<1>5. ASSUME NEW r \in Requests,
             \/ GetAbsent(r) \/ GetReuse(r) \/ GetReplace(r) \/ Create(r) \/ CreateFails(r)
             \/ Install(r) \/ Adopt(r) \/ Busy(r)
      PROVE  MutexInv'
  <2>1. UNCHANGED <<runMu, sid>>
    BY <1>5 DEF GetAbsent, GetReuse, GetReplace, Create, CreateFails, Install, Adopt, Busy,
                mgrVars, reqVars
  <2>2. \A q \in Requests \ {r} : pc'[q] = pc[q] /\ sess'[q] = sess[q]
    BY <1>5 DEF GetAbsent, GetReuse, GetReplace, Create, CreateFails, Install, Adopt, Busy, TypeOK
  <2>3. pc'[r] \notin HoldsMutex \/ sid[r] = None
    BY <1>5 DEF GetAbsent, GetReuse, GetReplace, Create, CreateFails, Install, Adopt, Busy,
                TypeOK, HoldsMutex
  <2>. QED
    BY <1>3, <2>1, <2>2, <2>3
<1>6. ASSUME NEW r \in Requests,
             \/ Identify(r) \/ Execute(r) \/ Fail(r) \/ Interrupt(r) \/ Finish(r)
             \/ Remove(r) \/ RemoveAbsent(r) \/ Return(r)
      PROVE  MutexInv'
  <2>1. UNCHANGED <<runMu, sid, sess>>
    BY <1>6 DEF Identify, Execute, Fail, Interrupt, Finish, Remove, RemoveAbsent, Return,
                mgrVars, reqVars
  <2>2. pc[r] \in HoldsMutex /\ \A q \in Requests \ {r} : pc'[q] = pc[q]
    BY <1>6 DEF Identify, Execute, Fail, Interrupt, Finish, Remove, RemoveAbsent, Return,
                Forget, TypeOK, HoldsMutex
  <2>. QED
    BY <1>3, <2>1, <2>2
<1>7. ASSUME NEW p \in Actors, CloseConn(p) PROVE MutexInv'
  <2>1. UNCHANGED <<runMu, sid, sess>>
    BY <1>7 DEF CloseConn, reqVars
  <2>2. \A r \in Requests : pc'[r] \in HoldsMutex => pc[r] \in HoldsMutex \/ sid[r] = None
    BY <1>7 DEF CloseConn, CloseInv, HoldsMutex, TypeOK
  <2>. QED
    BY <1>3, <2>1, <2>2
<1>8. CASE UNCHANGED <<pc, sid, sess, runMu>>
  BY <1>3, <1>8
<1>9. ASSUME NEW r \in Requests, Deadline(r) \/ Disconnect(r) \/ IdleElapses(r)
      PROVE  UNCHANGED <<pc, sid, sess, runMu>>
  BY <1>9 DEF Deadline, Disconnect, IdleElapses, reqVars, mgrVars
<1>10. ASSUME NEW k \in Cancels, Kill(k) \/ \E r \in Requests : Cancel(k, r)
       PROVE  UNCHANGED <<pc, sid, sess, runMu>>
  BY <1>10 DEF Kill, Cancel, mgrVars, reqVars
<1>11. ASSUME Collect \/ \E i \in SessionIds : Evict(i) \/ EvictAbsent(i)
       PROVE  UNCHANGED <<pc, sid, sess, runMu>>
  BY <1>11 DEF Collect, Evict, EvictAbsent, reqVars
<1>12. ASSUME NEW p \in Actors, RollBack(p) PROVE UNCHANGED <<pc, sid, sess, runMu>>
  BY <1>12 DEF RollBack, reqVars
<1>13. UNCHANGED vars => UNCHANGED <<pc, sid, sess, runMu>>
  BY DEF vars, mgrVars, reqVars
<1>. QED
  BY <1>1, <1>2, <1>4, <1>5, <1>6, <1>7, <1>8, <1>9, <1>10, <1>11, <1>12, <1>13
     DEF Next, Handler, Close, AllDone

(* The inductive invariant holds in every behaviour.                       *)
THEOREM Invariance == Spec => []IInv
<1>1. Init => IInv
  <2> SUFFICES ASSUME Init PROVE IInv
    OBVIOUS
  <2>1. TypeOK
    BY DEF Init, TypeOK, Statements, Pcs, Phases, Actors
  <2>2. HandlerInv /\ MutexInv
    BY DEF Init, HandlerInv, MutexInv, HasSession, HoldsMutex
  <2>3. ConnInv
    BY DEF Init, ConnInv, ConnExclusive, Live
  <2>4. MapInv
    BY DEF Init, MapInv, MappedIsOpen
  <2>5. CloseInv
    BY DEF Init, CloseInv, Actors
  <2>. QED
    BY <2>1, <2>2, <2>3, <2>4, <2>5 DEF IInv
<1>2. IInv /\ [Next]_vars => IInv'
  BY TypeStep, HandlerStep, ConnStep, MapStep, CloseStep, MutexStep DEF IInv
<1>. QED
  BY <1>1, <1>2, PTL DEF Spec

(* Every variable keeps its type.                                          *)
THEOREM TypeCorrect == Spec => []TypeOK
<1>1. IInv => TypeOK
  BY DEF IInv
<1>. QED
  BY <1>1, Invariance, PTL

(* A MySQL connection belongs to at most one session or handler, and never *)
(* to one while it lies in a pool.                                         *)
THEOREM ConnectionsAreExclusive == Spec => []ConnExclusive
<1>1. IInv => ConnExclusive
  BY DEF IInv, ConnInv
<1>. QED
  BY <1>1, Invariance, PTL

(* A session that get finds in the map has not been closed.                *)
THEOREM MappedSessionsAreOpen == Spec => []MappedIsOpen
<1>1. IInv => MappedIsOpen
  BY DEF IInv, MapInv
<1>. QED
  BY <1>1, Invariance, PTL

(* No connection is forgotten: it is in the map, or exactly one actor is   *)
(* closing it, or its handler still runs.                                  *)
THEOREM NoConnectionIsLost == Spec => []NoLostConn
<1>1. ASSUME IInv, NEW o \in Requests PROVE phase[o] = "open" => sessions[sid[o]] = o
  BY <1>1 DEF IInv, MapInv
<1>2. ASSUME IInv, NEW o \in Requests, phase[o] \in {"removed", "rolledback"}
      PROVE  \E p \in Actors : closing[p] = o /\ \A q \in Actors \ {p} : closing[q] # o
  <2>1. PICK p \in Actors : closing[p] = o
    BY <1>2 DEF IInv, CloseInv
  <2>2. o # None
    BY DistinctNames
  <2>. QED
    BY <1>2, <2>1, <2>2 DEF IInv, CloseInv
<1>3. ASSUME IInv, NEW o \in Requests
      PROVE  phase[o] = "fresh" => pc[o] \in {"install", "identify", "run", "unlock"}
  BY <1>3 DEF IInv, HandlerInv
<1>4. IInv => NoLostConn
  BY <1>1, <1>2, <1>3 DEF NoLostConn
<1>. QED
  BY <1>4, Invariance, PTL

(* Two handlers that execute on one connection are the same.               *)
LEMMA OneRunnerState == IInv => OneRunnerPerConn
<1>1. ASSUME IInv, NEW r1 \in Requests, NEW r2 \in Requests,
             Executing(r1), Executing(r2), ConnOf(r1) = ConnOf(r2)
      PROVE  r1 = r2
  <2>1. ASSUME NEW r \in Requests, Executing(r) PROVE sess[r] \in Requests /\ Live(sess[r])
    BY <1>1, <2>1 DEF IInv, TypeOK, HandlerInv, Executing, HasSession, HoldsMutex, Live, Phases
  <2>2. sess[r1] = sess[r2]
    BY <1>1, <2>1 DEF IInv, ConnInv, ConnExclusive, ConnOf
  <2>3. ASSUME NEW r \in Requests, Executing(r)
        PROVE  \/ sid[r] # None /\ runMu[sess[r]] = r
               \/ sid[r] = None /\ sess[r] = r /\ phase[r] = "fresh"
    BY <1>1, <2>3 DEF IInv, HandlerInv, MutexInv, Executing, HoldsMutex
  <2>4. ASSUME NEW r \in Requests, Executing(r), sid[r] # None PROVE phase[sess[r]] # "fresh"
    BY <1>1, <2>1, <2>4, DistinctNames DEF IInv, HandlerInv
  <2>. QED
    BY <1>1, <2>2, <2>3, <2>4
<1>. QED
  BY <1>1 DEF OneRunnerPerConn

(* Two handlers never execute statements on one MySQL connection.          *)
THEOREM OneRunner == Spec => []OneRunnerPerConn
BY OneRunnerState, Invariance, PTL

(* No step opens an object that a handler already works on.                *)
LEMMA OpenedIsNew ==
  ASSUME IInv, [Next]_vars, NEW r \in Requests, sid[r] # None, sess[r] # None,
         phase'[sess[r]] = "open"
  PROVE  phase[sess[r]] = "open"
<1>1. sess[r] \in Requests /\ phase[sess[r]] \notin {"none", "fresh"}
  BY DEF IInv, TypeOK, HandlerInv
<1>2. ASSUME NEW q \in Requests, Install(q) PROVE phase[sess[r]] = "open"
  <2>1. phase[q] = "fresh" /\ phase' = [phase EXCEPT ![q] = "open"]
    BY <1>2 DEF Install, IInv, HandlerInv
  <2>. QED
    BY <1>1, <2>1 DEF IInv, TypeOK
<1>3. ASSUME \/ UNCHANGED phase
             \/ \E o \in Requests \cup {None}, f \in Phases \ {"open"} : phase' = [phase EXCEPT ![o] = f]
      PROVE  phase[sess[r]] = "open"
  BY <1>1, <1>3 DEF IInv, TypeOK
<1>4. ASSUME NEW q \in Requests,
             \/ Start(q) \/ GetAbsent(q) \/ GetReuse(q) \/ CreateFails(q) \/ Lock(q) \/ Busy(q)
             \/ Identify(q) \/ Execute(q) \/ Fail(q) \/ Interrupt(q) \/ Finish(q)
      PROVE  UNCHANGED phase
  BY <1>4 DEF Start, GetAbsent, GetReuse, CreateFails, Lock, Busy, Identify, Execute, Fail,
              Interrupt, Finish, mgrVars
<1>5. ASSUME NEW q \in Requests,
             \/ RemoveAbsent(q) \/ Unlock(q) \/ Deadline(q) \/ Disconnect(q) \/ IdleElapses(q)
             \/ \E k \in Cancels : Cancel(k, q)
      PROVE  UNCHANGED phase
  BY <1>5 DEF RemoveAbsent, Unlock, Deadline, Disconnect, IdleElapses, Cancel, mgrVars
<1>6. ASSUME \/ Collect \/ (\E i \in SessionIds : EvictAbsent(i)) \/ (\E k \in Cancels : Kill(k))
             \/ UNCHANGED vars
      PROVE  UNCHANGED phase
  BY <1>6 DEF Collect, EvictAbsent, Kill, mgrVars, vars
<1>7. ASSUME NEW q \in Requests, Create(q) \/ Adopt(q) \/ Return(q)
      PROVE  \E f \in Phases \ {"open"} : phase' = [phase EXCEPT ![q] = f]
  BY <1>7 DEF Create, Adopt, Return, GiveBack, Phases
<1>8. ASSUME NEW p \in Actors, Close(p)
      PROVE  \E f \in Phases \ {"open"} : phase' = [phase EXCEPT ![closing[p]] = f]
  BY <1>8 DEF Close, RollBack, CloseConn, GiveBack, Phases
<1>9. ASSUME NEW p \in Actors, NEW i, TakeOut(p, i)
      PROVE  phase' = [phase EXCEPT ![sessions[i]] = "removed"]
  BY <1>9 DEF TakeOut
<1>10. ASSUME NEW q \in Requests, GetReplace(q) \/ Remove(q)
       PROVE  \E o \in Requests \cup {None} : phase' = [phase EXCEPT ![o] = "removed"]
  BY <1>10 DEF GetReplace, Remove, TakeOut, IInv, TypeOK, HandlerInv
<1>11. ASSUME NEW i \in SessionIds, Evict(i)
       PROVE  \E o \in Requests \cup {None} : phase' = [phase EXCEPT ![o] = "removed"]
  BY <1>11 DEF Evict, TakeOut, IInv, TypeOK
<1>12. \A p \in Actors : closing[p] \in Requests \cup {None}
  BY DEF IInv, TypeOK
<1>13. "removed" \in Phases \ {"open"}
  BY DEF Phases
<1>. QED
  BY <1>2, <1>3, <1>4, <1>5, <1>6, <1>7, <1>8, <1>10, <1>11, <1>12, <1>13
     DEF Next, Handler, AllDone

(* Aborted queries: the session leaves the map before the handler ends.    *)
LEMMA AbortStep == IInv /\ AbortInv /\ [Next]_vars => AbortInv'
<1> SUFFICES ASSUME IInv, AbortInv, [Next]_vars PROVE AbortInv'
  OBVIOUS
<1> USE DEF AbortInv
<1>1. \A r \in Requests : sid[r] # None /\ sess[r] # None /\ phase[sess[r]] # "open"
                            => phase'[sess[r]] # "open"
  BY OpenedIsNew
<1>2. ASSUME NEW r \in Requests, Remove(r) PROVE AbortInv'
  <2>1. /\ sid[r] \in SessionIds /\ sess[r] \in Requests /\ sid[sess[r]] = sid[r]
        /\ phase[sess[r]] = "open" => sessions[sid[r]] = sess[r]
    BY <1>2 DEF Remove, IInv, TypeOK, HandlerInv, HasSession, MapInv
  <2>2. /\ phase' = [phase EXCEPT ![sessions[sid[r]]] = "removed"]
        /\ pc' = [pc EXCEPT ![r] = "closeRemoved"]
        /\ UNCHANGED <<sid, sess, answer>>
    BY <1>2 DEF Remove, TakeOut, reqVars
  <2>3. phase'[sess[r]] # "open"
    BY <2>1, <2>2 DEF IInv, TypeOK
  <2>4. sess[r] # None
    BY <2>1, DistinctNames
  <2>. QED
    BY <1>1, <2>2, <2>3, <2>4 DEF IInv, TypeOK
<1>3. ASSUME NEW r \in Requests, RemoveAbsent(r) PROVE AbortInv'
  <2>1. phase[sess[r]] # "open" /\ sess[r] # None
    BY <1>3 DEF RemoveAbsent, IInv, TypeOK, HandlerInv, HasSession, MapInv
  <2>2. /\ pc' = [pc EXCEPT ![r] = "unlock"]
        /\ UNCHANGED <<sid, sess, answer, phase>>
    BY <1>3 DEF RemoveAbsent, reqVars, mgrVars
  <2>. QED
    BY <2>1, <2>2 DEF IInv, TypeOK
<1>4. ASSUME NEW r \in Requests, Fail(r) \/ Interrupt(r) PROVE AbortInv'
  <2>1. /\ sess[r] # None /\ pc[r] = "run"
        /\ UNCHANGED <<sid, sess, phase>>
    BY <1>4 DEF Fail, Interrupt, IInv, HandlerInv, HasSession, reqVars, mgrVars
  <2>2. /\ \A q \in Requests \ {r} : pc'[q] = pc[q] /\ answer'[q] = answer[q]
        /\ answer'[r] \in {"timeout", "canceled"} =>
             pc'[r] = IF sid[r] # None THEN "remove" ELSE "unlock"
    BY <1>4 DEF Fail, Interrupt, IInv, TypeOK
  <2>. QED
    BY <2>1, <2>2
<1>5. ASSUME NEW r \in Requests, pc[r] \notin {"remove", "closeRemoved", "unlock", "done"},
             answer'[r] \notin {"timeout", "canceled"},
             \A q \in Requests \ {r} : /\ pc'[q] = pc[q] /\ answer'[q] = answer[q]
                                       /\ sess'[q] = sess[q] /\ sid'[q] = sid[q]
      PROVE  AbortInv'
  BY <1>1, <1>5
<1>6. ASSUME NEW r \in Requests,
             \/ Start(r) \/ GetAbsent(r) \/ GetReuse(r) \/ GetReplace(r) \/ Create(r)
             \/ CreateFails(r) \/ Install(r)
      PROVE  AbortInv'
  <2>1. pc[r] \notin {"remove", "closeRemoved", "unlock", "done"}
    BY <1>6 DEF Start, GetAbsent, GetReuse, GetReplace, Create, CreateFails, Install
  <2>2. answer'[r] \notin {"timeout", "canceled"}
    BY <1>6, <2>1 DEF Start, GetAbsent, GetReuse, GetReplace, Create, CreateFails, Install,
                      IInv, TypeOK
  <2>3. \A q \in Requests \ {r} : /\ pc'[q] = pc[q] /\ answer'[q] = answer[q]
                                  /\ sess'[q] = sess[q] /\ sid'[q] = sid[q]
    BY <1>6 DEF Start, GetAbsent, GetReuse, GetReplace, Create, CreateFails, Install,
                IInv, TypeOK, reqVars
  <2>. QED
    BY <1>5, <2>1, <2>2, <2>3
<1>7. ASSUME NEW r \in Requests,
             Adopt(r) \/ Lock(r) \/ Busy(r) \/ Identify(r) \/ Finish(r)
      PROVE  AbortInv'
  <2>1. pc[r] \notin {"remove", "closeRemoved", "unlock", "done"}
    BY <1>7 DEF Adopt, Lock, Busy, Identify, Finish
  <2>2. answer'[r] \notin {"timeout", "canceled"}
    BY <1>7, <2>1 DEF Adopt, Lock, Busy, Identify, Finish, IInv, TypeOK
  <2>3. \A q \in Requests \ {r} : /\ pc'[q] = pc[q] /\ answer'[q] = answer[q]
                                  /\ sess'[q] = sess[q] /\ sid'[q] = sid[q]
    BY <1>7 DEF Adopt, Lock, Busy, Identify, Finish, IInv, TypeOK, reqVars
  <2>. QED
    BY <1>5, <2>1, <2>2, <2>3
<1>8. ASSUME NEW r \in Requests, Unlock(r) \/ Return(r) PROVE AbortInv'
  <2>1. pc[r] = "unlock" /\ pc' = [pc EXCEPT ![r] = "done"] /\ UNCHANGED <<sid, sess, answer>>
    BY <1>8 DEF Unlock, Return, Forget, reqVars
  <2>. QED
    BY <1>1, <2>1 DEF IInv, TypeOK
<1>9. ASSUME NEW p \in Actors, CloseConn(p) PROVE AbortInv'
  <2>1. UNCHANGED <<sid, sess, answer>>
    BY <1>9 DEF CloseConn, reqVars
  <2>2. \A r \in Requests : pc'[r] = pc[r] \/ (pc[r] = "closeRemoved" /\ pc'[r] = "unlock")
                             \/ (pc[r] = "closeOld" /\ pc'[r] = "create")
    BY <1>9 DEF CloseConn, IInv, CloseInv
  <2>. QED
    BY <1>1, <2>1, <2>2
<1>10. CASE UNCHANGED <<pc, sid, sess, answer>>
  BY <1>1, <1>10
<1>11. ASSUME NEW r \in Requests,
              \/ Execute(r) \/ Deadline(r) \/ Disconnect(r) \/ IdleElapses(r)
              \/ \E k \in Cancels : Cancel(k, r)
       PROVE  UNCHANGED <<pc, sid, sess, answer>>
  BY <1>11 DEF Execute, Deadline, Disconnect, IdleElapses, Cancel, reqVars
<1>12. ASSUME \/ Collect \/ (\E i \in SessionIds : Evict(i) \/ EvictAbsent(i))
              \/ (\E k \in Cancels : Kill(k)) \/ (\E p \in Actors : RollBack(p))
       PROVE  UNCHANGED <<pc, sid, sess, answer>>
  BY <1>12 DEF Collect, Evict, EvictAbsent, Kill, RollBack, reqVars
<1>13. UNCHANGED vars => UNCHANGED <<pc, sid, sess, answer>>
  BY DEF vars, reqVars
<1>. QED
  BY <1>2, <1>3, <1>4, <1>6, <1>7, <1>8, <1>9, <1>10, <1>11, <1>12, <1>13
     DEF Next, Handler, Close, AllDone

(* A query that was answered "timed out" or "canceled" leaves no session   *)
(* behind in which its transaction could be continued.                     *)
THEOREM AbortedSessionsAreGone == Spec => []AbortedIsGone
<1>1. Init => AbortInv
  BY DEF Init, AbortInv
<1>2. AbortInv => AbortedIsGone
  BY DEF AbortInv, AbortedIsGone
<1>. QED
  BY <1>1, <1>2, AbortStep, Invariance, PTL DEF Spec

LEMMA InTxStep == IInv /\ InTxInv /\ [Next]_vars => InTxInv'
<1> SUFFICES ASSUME IInv, InTxInv, [Next]_vars PROVE InTxInv'
  OBVIOUS
<1> USE DEF InTxInv
<1>1. ASSUME NEW r \in Requests, UNCHANGED inTx,
             \A q \in Requests \ {r} : pc'[q] = pc[q],
             ~inTx[r] \/ pc'[r] \in {"run", "remove", "closeRemoved", "unlock"}
      PROVE  InTxInv'
  BY <1>1
<1>2. ASSUME NEW r \in Requests,
             \/ Start(r) \/ GetAbsent(r) \/ GetReuse(r) \/ GetReplace(r) \/ Create(r)
             \/ CreateFails(r) \/ Install(r) \/ Adopt(r) \/ Lock(r) \/ Busy(r) \/ Identify(r)
      PROVE  InTxInv'
  <2>1. pc[r] \notin {"run", "remove", "closeRemoved", "unlock"}
    BY <1>2 DEF Start, GetAbsent, GetReuse, GetReplace, Create, CreateFails, Install, Adopt,
                Lock, Busy, Identify
  <2>2. UNCHANGED inTx
    BY <1>2 DEF Start, GetAbsent, GetReuse, GetReplace, Create, CreateFails, Install, Adopt,
                Lock, Busy, Identify, runVars
  <2>3. \A q \in Requests \ {r} : pc'[q] = pc[q]
    BY <1>2 DEF Start, GetAbsent, GetReuse, GetReplace, Create, CreateFails, Install, Adopt,
                Lock, Busy, Identify, IInv, TypeOK
  <2>. QED
    BY <1>1, <2>1, <2>2, <2>3
<1>3. ASSUME NEW r \in Requests,
             Fail(r) \/ Interrupt(r) \/ Finish(r) \/ Remove(r) \/ RemoveAbsent(r)
      PROVE  InTxInv'
  <2>1. UNCHANGED inTx
    BY <1>3 DEF Fail, Interrupt, Finish, Remove, RemoveAbsent, runVars
  <2>2. /\ \A q \in Requests \ {r} : pc'[q] = pc[q]
        /\ pc'[r] \in {"run", "remove", "closeRemoved", "unlock"}
    BY <1>3 DEF Fail, Interrupt, Finish, Remove, RemoveAbsent, IInv, TypeOK
  <2>. QED
    BY <1>1, <2>1, <2>2
<1>4. ASSUME NEW r \in Requests, Execute(r) PROVE InTxInv'
  <2>1. UNCHANGED pc /\ pc[r] = "run" /\ \A q \in Requests \ {r} : inTx'[q] = inTx[q]
    BY <1>4 DEF Execute, IInv, TypeOK
  <2>. QED
    BY <2>1
<1>5. ASSUME NEW r \in Requests, Unlock(r) \/ Return(r) PROVE InTxInv'
  <2>1. /\ inTx' = [inTx EXCEPT ![r] = FALSE]
        /\ pc' = [pc EXCEPT ![r] = "done"]
    BY <1>5 DEF Unlock, Return, Forget
  <2>. QED
    BY <2>1 DEF IInv, TypeOK
<1>6. ASSUME NEW p \in Actors, CloseConn(p) PROVE InTxInv'
  <2>1. UNCHANGED inTx
    BY <1>6 DEF CloseConn, runVars
  <2>2. \A r \in Requests : pc'[r] = pc[r] \/ (pc[r] = "closeRemoved" /\ pc'[r] = "unlock")
                             \/ (pc[r] = "closeOld" /\ pc'[r] = "create")
    BY <1>6 DEF CloseConn, IInv, CloseInv
  <2>. QED
    BY <2>1, <2>2
<1>7. CASE UNCHANGED <<pc, inTx>>
  BY <1>7
<1>8. ASSUME NEW r \in Requests,
             \/ Deadline(r) \/ Disconnect(r) \/ IdleElapses(r) \/ \E k \in Cancels : Cancel(k, r)
      PROVE  UNCHANGED <<pc, inTx>>
  BY <1>8 DEF Deadline, Disconnect, IdleElapses, Cancel, runVars
<1>9. ASSUME \/ Collect \/ (\E i \in SessionIds : Evict(i) \/ EvictAbsent(i))
             \/ (\E k \in Cancels : Kill(k)) \/ (\E p \in Actors : RollBack(p)) \/ UNCHANGED vars
      PROVE  UNCHANGED <<pc, inTx>>
  BY <1>9 DEF Collect, Evict, EvictAbsent, Kill, RollBack, runVars, vars
<1>. QED
  BY <1>2, <1>3, <1>4, <1>5, <1>6, <1>7, <1>8, <1>9 DEF Next, Handler, Close, AllDone

(* The transaction of a running handler survives every step that leaves    *)
(* its session registered: r is the handler, c its connection.             *)
LEMMA TxStep ==
  IInv /\ IInv' /\ OneRunnerPerConn /\ InTxInv /\ MappedTxIntact /\ [Next]_vars => MappedTxIntact'
<1> SUFFICES ASSUME IInv, IInv', OneRunnerPerConn, InTxInv, MappedTxIntact, [Next]_vars,
                    NEW r \in Requests, pc'[r] = "run", inTx'[r], phase'[sess'[r]] = "open",
                    Usable(r)'
             PROVE  tx'[ConnOf(r)'] = r
  BY DEF MappedTxIntact
<1>1. ~Identify(r) /\ pc[r] = "run" /\ sess'[r] = sess[r] /\ sid'[r] = sid[r]
  <2>1. ASSUME Identify(r) PROVE FALSE
    BY <2>1 DEF Identify, InTxInv
  <2>2. ASSUME NEW q \in Requests, Start(q) \/ Handler(q) \/ Deadline(q) \/ Disconnect(q), q # r
        PROVE  pc'[r] = pc[r] /\ sess'[r] = sess[r] /\ sid'[r] = sid[r]
    <3>1. CASE \/ Start(q) \/ GetAbsent(q) \/ GetReuse(q) \/ GetReplace(q) \/ Create(q)
               \/ CreateFails(q) \/ Install(q) \/ Adopt(q) \/ Lock(q) \/ Busy(q) \/ Identify(q)
      BY <2>2, <3>1 DEF Start, GetAbsent, GetReuse, GetReplace, Create, CreateFails, Install,
                        Adopt, Lock, Busy, Identify, reqVars, IInv, TypeOK
    <3>2. CASE \/ Execute(q) \/ Fail(q) \/ Interrupt(q) \/ Finish(q) \/ Remove(q)
               \/ RemoveAbsent(q) \/ Deadline(q) \/ Disconnect(q)
      <4>1. UNCHANGED <<sess, sid>>
        BY <3>2 DEF Execute, Fail, Interrupt, Finish, Remove, RemoveAbsent, Deadline,
                    Disconnect, reqVars
      <4>2. pc'[r] = pc[r]
        <5>1. \/ UNCHANGED pc
              \/ \E w \in Pcs : pc' = [pc EXCEPT ![q] = w]
          BY <3>2 DEF Execute, Fail, Interrupt, Finish, Remove, RemoveAbsent, Deadline,
                      Disconnect, Pcs
        <5>. QED
          BY <2>2, <5>1 DEF IInv, TypeOK
      <4>. QED
        BY <4>1, <4>2
    <3>3. CASE Unlock(q) \/ Return(q)
      BY <2>2, <3>3 DEF Unlock, Return, Forget, reqVars, IInv, TypeOK
    <3>. QED
      BY <2>2, <3>1, <3>2, <3>3 DEF Handler
  <2>3. ASSUME Execute(r) \/ Deadline(r) \/ Disconnect(r)
        PROVE  pc'[r] = pc[r] /\ sess'[r] = sess[r] /\ sid'[r] = sid[r]
    BY <2>3 DEF Execute, Deadline, Disconnect, reqVars
  <2>4. ASSUME \/ Start(r) \/ GetAbsent(r) \/ GetReuse(r) \/ GetReplace(r) \/ Create(r)
               \/ CreateFails(r) \/ Install(r) \/ Adopt(r) \/ Lock(r) \/ Busy(r)
        PROVE  FALSE
    BY <2>4 DEF Start, GetAbsent, GetReuse, GetReplace, Create, CreateFails, Install, Adopt,
                Lock, Busy, IInv, TypeOK
  <2>5. ASSUME \/ Fail(r) \/ Interrupt(r) \/ Finish(r) \/ Remove(r) \/ RemoveAbsent(r)
               \/ Unlock(r) \/ Return(r)
        PROVE  FALSE
    BY <2>5 DEF Fail, Interrupt, Finish, Remove, RemoveAbsent, Unlock, Return, Forget, IInv, TypeOK
  <2>6. ASSUME NEW p \in Actors, CloseConn(p)
        PROVE  pc'[r] = pc[r] /\ sess'[r] = sess[r] /\ sid'[r] = sid[r]
    BY <2>6 DEF CloseConn, reqVars
  <2>7. ASSUME \/ \E q \in Requests : IdleElapses(q) \/ \E k \in Cancels : Cancel(k, q)
               \/ Collect \/ (\E i \in SessionIds : Evict(i) \/ EvictAbsent(i))
               \/ (\E k \in Cancels : Kill(k)) \/ (\E p \in Actors : RollBack(p)) \/ UNCHANGED vars
        PROVE  pc'[r] = pc[r] /\ sess'[r] = sess[r] /\ sid'[r] = sid[r]
    BY <2>7 DEF IdleElapses, Cancel, Collect, Evict, EvictAbsent, Kill, RollBack, reqVars, vars
  <2>. QED
    BY <2>1, <2>2, <2>3, <2>4, <2>5, <2>6, <2>7 DEF Next, Handler, Close, AllDone
<1> DEFINE s == sess[r]
           c == oconn[s]
<1>2. /\ s \in Requests /\ sid[r] # None
      /\ phase[s] = "open" /\ phase'[s] = "open" /\ oconn'[s] \in Conns /\ c \in Conns
  <2>1. s \in Requests /\ s # None
    BY <1>1, DistinctNames DEF IInv, TypeOK, HandlerInv, HasSession
  <2>2. sid'[r] # None
    BY <1>1, <2>1 DEF IInv, HandlerInv, HoldsMutex
  <2>3. phase[s] = "open"
    BY <1>1, <2>1, <2>2, OpenedIsNew
  <2>4. oconn'[s] # None /\ c # None
    BY <1>1, <2>1, <2>3 DEF IInv, ConnInv, Live
  <2>. QED
    BY <1>1, <2>1, <2>2, <2>3, <2>4 DEF IInv, TypeOK
<1>3. cstate'[oconn'[s]] = "leased"
  BY <1>1 DEF Usable, ConnOf
<1>4. ASSUME oconn'[s] = c, inTx[r],
             cstate'[c] = "leased" => cstate[c] = "leased" /\ tx'[c] = tx[c]
      PROVE  tx'[ConnOf(r)'] = r
  BY <1>1, <1>2, <1>3, <1>4 DEF MappedTxIntact, Usable, ConnOf
<1>5. ASSUME NEW q \in Requests, Create(q) PROVE tx'[ConnOf(r)'] = r
  <2>1. PICK d \in Conns : /\ cstate[d] \in {"idle", "unopened"}
                           /\ cstate' = [cstate EXCEPT ![d] = "leased"]
                           /\ oconn' = [oconn EXCEPT ![q] = d]
    BY <1>5 DEF Create
  <2>2. q # s /\ UNCHANGED <<inTx, tx>>
    BY <1>5, <1>2 DEF Create, IInv, HandlerInv, runVars
  <2>3. cstate[c] \in {"leased", "dead"}
    BY <1>2 DEF IInv, ConnInv, ConnExclusive, Live
  <2>4. oconn'[s] = c /\ (cstate'[c] = "leased" => cstate[c] = "leased")
    BY <1>2, <2>1, <2>2, <2>3 DEF IInv, TypeOK
  <2>. QED
    BY <1>4, <2>2, <2>4
<1>6. ASSUME NEW o \in Requests, GiveBack(o), UNCHANGED tx, inTx[r]
      PROVE  tx'[ConnOf(r)'] = r
  <2>1. o # s
    BY <1>6, <1>2 DEF GiveBack, IInv, TypeOK
  <2>2. oconn'[s] = c /\ (cstate'[c] = "leased" => cstate[c] = "leased")
    BY <1>6, <2>1, <1>2 DEF GiveBack, IInv, TypeOK
  <2>. QED
    BY <1>4, <1>6, <2>2
<1>7. ASSUME NEW q \in Requests, Execute(q) PROVE tx'[ConnOf(r)'] = r
  <2>1. UNCHANGED <<oconn, cstate, sess, phase>>
    BY <1>7 DEF Execute, mgrVars
  <2> DEFINE st == Head(left[q])
  <2>4. /\ tx' = [tx EXCEPT ![ConnOf(q)] = IF st = "begin" THEN q ELSE IF st = "end" THEN None ELSE @]
        /\ inTx' = [inTx EXCEPT ![q] = IF st = "begin" THEN TRUE ELSE IF st = "end" THEN FALSE ELSE @]
    BY <1>7 DEF Execute
  <2> HIDE DEF st
  <2>2. CASE q = r
    <3>1. ConnOf(q) = c /\ ConnOf(r)' = c
      BY <2>1, <2>2 DEF ConnOf
    <3>2. cstate[c] = "leased"
      BY <1>3, <2>1
    <3>3. inTx[r] => tx[c] = r
      BY <1>1, <1>2, <3>2 DEF MappedTxIntact, Usable, ConnOf
    <3>4. CASE st = "begin"
      BY <1>2, <2>4, <2>2, <3>1, <3>4 DEF IInv, TypeOK
    <3>5. CASE st = "end"
      BY <2>4, <2>2, <3>5 DEF IInv, TypeOK
    <3>6. CASE st \notin {"begin", "end"}
      BY <1>2, <2>4, <2>2, <3>1, <3>3, <3>6 DEF IInv, TypeOK
    <3>. QED
      BY <3>4, <3>5, <3>6
  <2>3. CASE q # r
    <3>1. Executing(q) /\ Executing(r)
      BY <1>1, <1>2, <1>7 DEF Execute, Executing, Usable
    <3>2. ConnOf(q) # c
      BY <2>3, <3>1 DEF OneRunnerPerConn, ConnOf
    <3>3. tx'[c] = tx[c]
      BY <1>2, <2>4, <3>2 DEF IInv, TypeOK
    <3>4. inTx[r]
      <4>1. inTx \in [Requests -> BOOLEAN]
        BY DEF IInv, TypeOK
      <4>. QED
        BY <2>3, <2>4, <4>1, Zenon
    <3>. QED
      BY <1>4, <2>1, <3>3, <3>4
  <2>. QED
    BY <2>2, <2>3
<1>8. ASSUME NEW d, UNCHANGED <<oconn, inTx>>,
             tx' = [tx EXCEPT ![d] = None] \/ tx' = tx,
             cstate' = cstate \/ cstate' = [cstate EXCEPT ![d] = "dead"],
             d # c \/ cstate' = [cstate EXCEPT ![d] = "dead"]
      PROVE  tx'[ConnOf(r)'] = r
  <2>1. cstate'[c] = "leased" => cstate[c] = "leased" /\ tx'[c] = tx[c]
    BY <1>2, <1>8 DEF IInv, TypeOK
  <2>. QED
    BY <1>4, <1>8, <2>1
<1>9. ASSUME UNCHANGED <<oconn, cstate, tx>>, inTx[r] PROVE tx'[ConnOf(r)'] = r
  BY <1>4, <1>9
<1>10. ASSUME NEW p \in Actors, RollBack(p) PROVE tx'[ConnOf(r)'] = r
  <2>1. closing[p] \in Requests /\ phase[closing[p]] = "removed" /\ UNCHANGED <<oconn, inTx>>
    BY <1>10, DistinctNames DEF RollBack, IInv, TypeOK, runVars
  <2>2. oconn[closing[p]] # c
    BY <1>2, <2>1 DEF IInv, ConnInv, ConnExclusive, Live
  <2>3. /\ tx' = [tx EXCEPT ![oconn[closing[p]]] = None] \/ tx' = tx
        /\ cstate' = cstate \/ cstate' = [cstate EXCEPT ![oconn[closing[p]]] = "dead"]
    BY <1>10 DEF RollBack
  <2>. QED
    BY <1>8, <2>1, <2>2, <2>3
<1>11. ASSUME NEW q \in Requests, Interrupt(q) PROVE tx'[ConnOf(r)'] = r
  <2>1. /\ UNCHANGED <<oconn, inTx>>
        /\ \/ UNCHANGED <<cstate, tx>>
           \/ /\ tx' = [tx EXCEPT ![ConnOf(q)] = None]
              /\ cstate' = [cstate EXCEPT ![ConnOf(q)] = "dead"]
    BY <1>11 DEF Interrupt, mgrVars, runVars, connVars
  <2>. QED
    BY <1>8, <1>9, <2>1
<1>12. ASSUME NEW k \in Cancels, Kill(k) PROVE tx'[ConnOf(r)'] = r
  <2>1. /\ UNCHANGED <<oconn, inTx>>
        /\ \/ UNCHANGED <<cstate, tx>>
           \/ /\ tx' = [tx EXCEPT ![kthread[k]] = None]
              /\ cstate' = [cstate EXCEPT ![kthread[k]] = "dead"]
    BY <1>12 DEF Kill, mgrVars, runVars, connVars
  <2>. QED
    BY <1>8, <1>9, <2>1
<1>13. ASSUME NEW q \in Requests,
              \/ Start(q) \/ GetAbsent(q) \/ GetReuse(q) \/ GetReplace(q) \/ CreateFails(q)
              \/ Install(q) \/ Lock(q) \/ Busy(q) \/ Identify(q) \/ Fail(q) \/ Finish(q)
              \/ Remove(q) \/ RemoveAbsent(q)
       PROVE  UNCHANGED <<oconn, inTx, cstate, tx>>
  BY <1>13 DEF Start, GetAbsent, GetReuse, GetReplace, CreateFails, Install, Lock, Busy,
               Identify, Fail, Finish, Remove, RemoveAbsent, TakeOut, mgrVars, runVars, connVars
<1>14. ASSUME NEW q \in Requests, Unlock(q) \/ Return(q)
       PROVE  UNCHANGED tx /\ inTx[r]
  <2>1. q # r
    BY <1>1, <1>14 DEF Unlock, Return, Forget
  <2>2. inTx \in [Requests -> BOOLEAN]
    BY DEF IInv, TypeOK
  <2>3. inTx' = [inTx EXCEPT ![q] = FALSE] /\ UNCHANGED tx
    BY <1>14 DEF Unlock, Return, Forget, connVars
  <2>. QED
    BY <2>1, <2>2, <2>3, Zenon
<1>15. ASSUME NEW q \in Requests, Unlock(q) PROVE UNCHANGED <<oconn, cstate>>
  BY <1>15 DEF Unlock, connVars
<1>16. ASSUME NEW q \in Requests, Return(q) PROVE GiveBack(q)
  BY <1>16 DEF Return
<1>17. ASSUME NEW q \in Requests, Adopt(q) PROVE GiveBack(q) /\ UNCHANGED <<tx, inTx>>
  BY <1>17 DEF Adopt, runVars
<1>18. ASSUME NEW p \in Actors, CloseConn(p)
       PROVE  closing[p] \in Requests /\ GiveBack(closing[p]) /\ UNCHANGED <<tx, inTx>>
  BY <1>18, DistinctNames DEF CloseConn, runVars, IInv, TypeOK
<1>19. ASSUME NEW q \in Requests,
              \/ Deadline(q) \/ Disconnect(q) \/ IdleElapses(q) \/ \E k \in Cancels : Cancel(k, q)
       PROVE  UNCHANGED <<oconn, inTx, cstate, tx>>
  BY <1>19 DEF Deadline, Disconnect, IdleElapses, Cancel, mgrVars, runVars, connVars
<1>20. ASSUME \/ Collect \/ (\E i \in SessionIds : Evict(i) \/ EvictAbsent(i)) \/ UNCHANGED vars
       PROVE  UNCHANGED <<oconn, inTx, cstate, tx>>
  BY <1>20 DEF Collect, Evict, EvictAbsent, vars, mgrVars, runVars, connVars
<1>. HIDE DEF s, c
<1>. QED
  BY <1>5, <1>6, <1>7, <1>9, <1>10, <1>11, <1>12, <1>13, <1>14, <1>15, <1>16, <1>17, <1>18,
     <1>19, <1>20 DEF Next, Handler, Close, AllDone

(* While a session is registered, the transaction the running request      *)
(* opened on it stays open on the server.                                  *)
THEOREM RegisteredTransactionsAreIntact == Spec => []MappedTxIntact
<1>1. Init => InTxInv /\ MappedTxIntact
  BY DEF Init, InTxInv, MappedTxIntact
<1>. QED
  BY <1>1, InTxStep, TxStep, OneRunner, Invariance, PTL DEF Spec

-----------------------------------------------------------------------------
(* Refinement: each step is one of the consoles' or touches nothing that   *)
(* is seen of them.                                                        *)
SeenVars == <<sessions, SeenState, oconn, runMu, SeenAlive, tx>>

LEMMA SeenSame ==
  /\ phase' = phase => SeenState' = SeenState
  /\ cstate' = cstate => SeenAlive' = SeenAlive
  BY DEF SeenState, SeenAlive

LEMMA SeenAt ==
  ASSUME NEW o \in Requests
  PROVE  SeenState[o] = Seen(phase[o])
  BY DEF SeenState

LEMMA SeenSet ==
  ASSUME phase \in [Requests -> Phases], NEW o \in Requests, NEW p,
         phase' = [phase EXCEPT ![o] = p]
  PROVE  SeenState' = [SeenState EXCEPT ![o] = Seen(p)]
<1>1. \A q \in Requests : phase'[q] = IF q = o THEN p ELSE phase[q]
  OBVIOUS
<1>2. SeenState' = [q \in Requests |-> Seen(phase'[q])]
  BY DEF SeenState
<1>3. [SeenState EXCEPT ![o] = Seen(p)] = [q \in Requests |-> IF q = o THEN Seen(p) ELSE Seen(phase[q])]
  BY DEF SeenState
<1>. QED
  BY <1>1, <1>2, <1>3

LEMMA AliveSame ==
  ASSUME \A c \in Conns : cstate'[c] = "dead" <=> cstate[c] = "dead"
  PROVE  SeenAlive' = SeenAlive
  BY DEF SeenAlive

LEMMA SeenUnchanged ==
  ASSUME UNCHANGED <<sessions, phase, oconn, runMu, cstate, tx>>
  PROVE  UNCHANGED SeenVars
  BY SeenSame DEF SeenVars

(* Conn.Close, of a console that is closed or was never registered.        *)
LEMMA ConsoleCloses ==
  ASSUME IInv, NEW o \in Requests, GiveBack(o), phase[o] \in {"fresh", "rolledback"},
         UNCHANGED <<sessions, runMu, tx>>
  PROVE  Console!Next
<1>1. SeenState' = [SeenState EXCEPT ![o] = "closed"]
  BY SeenSet DEF GiveBack, IInv, TypeOK, Seen
<1>2. SeenState[o] \in {"fresh", "closing"}
  BY SeenAt DEF Seen
<1>3. SeenAlive' = SeenAlive
  <2>1. \A c \in Conns : cstate'[c] = "dead" <=> cstate[c] = "dead"
    BY DEF GiveBack, IInv, TypeOK
  <2>. QED
    BY <2>1, AliveSame
<1>4. Console!Close(o)
  BY <1>1, <1>2, <1>3 DEF Console!Close, GiveBack
<1>. QED
  BY <1>4 DEF Console!Next

LEMMA ConsoleUnregisters ==
  ASSUME IInv, NEW p, NEW i \in SessionIds, sessions[i] # None, TakeOut(p, i),
         UNCHANGED <<oconn, runMu, cstate, tx>>
  PROVE  Console!Next
<1>1. sessions[i] \in Requests
  BY DEF IInv, TypeOK
<1>2. SeenState' = [SeenState EXCEPT ![sessions[i]] = "closing"]
  BY <1>1, SeenSet DEF TakeOut, IInv, TypeOK, Seen
<1>3. Console!Unregister(i)
  BY <1>2, SeenSame DEF Console!Unregister, TakeOut
<1>. QED
  BY <1>3 DEF Console!Next

LEMMA ConnectionDies ==
  ASSUME IInv, NEW c \in Conns \cup {None}, cstate' = [cstate EXCEPT ![c] = "dead"],
         tx' = [tx EXCEPT ![c] = None], UNCHANGED <<sessions, phase, oconn, runMu>>
  PROVE  Console!Next \/ UNCHANGED SeenVars
<1>1. CASE c \in Conns
  <2>1. \A d \in Conns : cstate'[d] = IF d = c THEN "dead" ELSE cstate[d]
    BY DEF IInv, TypeOK
  <2>2. SeenAlive' = [SeenAlive EXCEPT ![c] = FALSE]
    BY <2>1 DEF SeenAlive
  <2>3. Console!Die(c)
    BY <2>2, SeenSame DEF Console!Die
  <2>. QED
    BY <1>1, <2>3 DEF Console!Next
<1>2. CASE c \notin Conns
  <2>1. cstate' = cstate /\ tx' = tx
    BY <1>2 DEF IInv, TypeOK
  <2>. QED
    BY <2>1, SeenUnchanged
<1>. QED
  BY <1>1, <1>2

(* Who executes a statement works at the console: it holds the mutex of a  *)
(* session, or the connection is its own.                                  *)
LEMMA RunnerWorks ==
  ASSUME IInv, NEW r \in Requests, pc[r] \in {"identify", "run"}
  PROVE  sess[r] \in Requests /\ Console!Works(sess[r], r)
<1>1. sess[r] \in Requests
  BY DEF IInv, TypeOK, HandlerInv, HasSession
<1>2. SeenState[sess[r]] = "fresh" <=> phase[sess[r]] = "fresh"
  BY <1>1, SeenAt DEF Seen
<1>3. CASE sid[r] = None
  <2>1. sess[r] = r /\ phase[r] = "fresh"
    BY <1>3 DEF IInv, HandlerInv, HoldsMutex
  <2>. QED
    BY <1>1, <1>2, <2>1 DEF Console!Works
<1>4. CASE sid[r] # None
  <2>1. runMu[sess[r]] = r
    BY <1>4 DEF IInv, MutexInv, HoldsMutex
  <2>2. phase[sess[r]] # "fresh"
    BY <1>1, <1>4 DEF IInv, HandlerInv, TypeOK, HasSession
  <2>. QED
    BY <1>1, <1>2, <2>1, <2>2 DEF Console!Works
<1>. QED
  BY <1>3, <1>4

LEMMA ConsolesRefinement == IInv /\ [Next]_vars => [Console!Next]_SeenVars
<1> SUFFICES ASSUME IInv, [Next]_vars
             PROVE  Console!Next \/ UNCHANGED SeenVars
  OBVIOUS
<1> USE DEF reqVars, runVars, ctxVars, mgrVars, connVars, cancelVars
<1>1. ASSUME NEW r \in Requests, Start(r) \/ Deadline(r) \/ Disconnect(r)
      PROVE  UNCHANGED SeenVars
  BY <1>1, SeenUnchanged DEF Start, Deadline, Disconnect
<1>2. ASSUME NEW r \in Requests,
             \/ GetAbsent(r) \/ GetReuse(r) \/ CreateFails(r) \/ Busy(r) \/ Identify(r)
             \/ Fail(r) \/ Finish(r) \/ RemoveAbsent(r)
      PROVE  UNCHANGED SeenVars
  BY <1>2, SeenUnchanged DEF GetAbsent, GetReuse, CreateFails, Busy, Identify, Fail, Finish,
     RemoveAbsent
<1>3. ASSUME NEW r \in Requests, GetReplace(r) \/ Remove(r) PROVE Console!Next
  <2>1. sid[r] \in SessionIds
    BY <1>3 DEF GetReplace, Remove, IInv, TypeOK, HandlerInv
  <2>2. sessions[sid[r]] # None /\ TakeOut(r, sid[r]) /\ UNCHANGED <<oconn, runMu, cstate, tx>>
    BY <1>3 DEF GetReplace, Remove
  <2>. QED
    BY <2>1, <2>2, ConsoleUnregisters
<1>4. ASSUME NEW r \in Requests, Create(r) PROVE Console!Next
  <2>1. PICK c \in Conns : /\ cstate[c] \in {"idle", "unopened"}
                           /\ cstate' = [cstate EXCEPT ![c] = "leased"]
                           /\ oconn' = [oconn EXCEPT ![r] = c]
    BY <1>4 DEF Create
  <2>2. /\ pc[r] = "create" /\ phase' = [phase EXCEPT ![r] = "fresh"]
        /\ UNCHANGED <<sessions, runMu, tx>>
    BY <1>4 DEF Create
  <2>3. SeenState[r] = "none" /\ SeenState' = [SeenState EXCEPT ![r] = "fresh"]
    <3>1. phase[r] = "none"
      BY <2>2 DEF IInv, HandlerInv
    <3>. QED
      BY <2>2, <3>1, SeenAt, SeenSet DEF IInv, TypeOK, Seen
  <2>4. SeenAlive[c] /\ SeenAlive' = SeenAlive
    <3>1. \A d \in Conns : cstate'[d] = "dead" <=> cstate[d] = "dead"
      BY <2>1 DEF IInv, TypeOK
    <3>. QED
      BY <2>1, <3>1, AliveSame DEF SeenAlive
  <2>5. \A p \in Requests : oconn[p] # c
    <3>1. c # None
      BY DistinctNames
    <3>. QED
      BY <2>1, <3>1 DEF IInv, ConnInv, ConnExclusive
  <2>6. Console!Connect(r, c)
    BY <2>1, <2>2, <2>3, <2>4, <2>5 DEF Console!Connect
  <2>. QED
    BY <2>6 DEF Console!Next
<1>5. ASSUME NEW r \in Requests, Install(r) PROVE Console!Next
  <2>1. /\ pc[r] = "install" /\ sessions[sid[r]] = None
        /\ phase' = [phase EXCEPT ![r] = "open"]
        /\ sessions' = [sessions EXCEPT ![sid[r]] = r]
        /\ UNCHANGED <<oconn, runMu, cstate, tx>>
    BY <1>5 DEF Install
  <2>2. phase[r] = "fresh" /\ sid[r] \in SessionIds
    BY <2>1 DEF IInv, HandlerInv, TypeOK
  <2>3. SeenState[r] = "fresh" /\ SeenState' = [SeenState EXCEPT ![r] = "open"]
    BY <2>1, <2>2, SeenAt, SeenSet DEF IInv, TypeOK, Seen
  <2>4. Console!Register(sid[r], r)
    BY <2>1, <2>3, SeenSame DEF Console!Register
  <2>. QED
    BY <2>2, <2>4 DEF Console!Next
<1>6. ASSUME NEW r \in Requests, Adopt(r) \/ Return(r) PROVE Console!Next
  <2>1. GiveBack(r) /\ UNCHANGED <<sessions, runMu, tx>>
    BY <1>6 DEF Adopt, Return
  <2>2. phase[r] = "fresh"
    BY <1>6 DEF Adopt, Return, Forget, IInv, HandlerInv, HoldsMutex
  <2>. QED
    BY <2>1, <2>2, ConsoleCloses
<1>7. ASSUME NEW r \in Requests, Lock(r) PROVE Console!Next
  <2>1. /\ pc[r] = "lock" /\ runMu[sess[r]] = None
        /\ runMu' = [runMu EXCEPT ![sess[r]] = r]
        /\ UNCHANGED <<sessions, phase, oconn, cstate, tx>>
    BY <1>7 DEF Lock
  <2>2. sess[r] \in Requests /\ phase[sess[r]] \in {"open", "removed", "rolledback", "closed"}
    <3>1. sess[r] \in Requests /\ sess[r] # None /\ sid[r] # None
      BY <2>1, DistinctNames DEF IInv, TypeOK, HandlerInv, HasSession
    <3>2. phase[sess[r]] \in Phases /\ phase[sess[r]] \notin {"none", "fresh"}
      BY <3>1 DEF IInv, TypeOK, HandlerInv
    <3>. QED
      BY <3>1, <3>2 DEF Phases
  <2>3. SeenState[sess[r]] \in {"open", "closing", "closed"}
    BY <2>2, SeenAt DEF Seen
  <2>4. Console!SitDown(sess[r], r)
    BY <2>1, <2>3, SeenSame DEF Console!SitDown
  <2>. QED
    BY <2>2, <2>4 DEF Console!Next
<1>8. ASSUME NEW r \in Requests, Execute(r) PROVE Console!Next \/ UNCHANGED SeenVars
  <2> DEFINE o == sess[r]
  <2>1. /\ pc[r] = "run" /\ phase[o] # "closed" /\ cstate[oconn[o]] = "leased"
        /\ UNCHANGED <<sessions, phase, oconn, runMu, cstate>>
        /\ \/ \E t \in {r, None} : tx' = [tx EXCEPT ![oconn[o]] = t]
           \/ tx' = [tx EXCEPT ![oconn[o]] = @]
    BY <1>8 DEF Execute, Usable, ConnOf
  <2>2. o \in Requests /\ Console!Works(o, r)
    BY <2>1, RunnerWorks
  <2>3. oconn[o] \in Conns
    <3>1. phase[o] \in Phases /\ phase[o] # "none"
      <4>1. phase[o] \in Phases /\ o # None
        BY <2>2, DistinctNames DEF IInv, TypeOK
      <4>2. CASE sid[r] = None
        <5>1. sess[r] = r /\ phase[r] = "fresh"
          BY <2>1, <4>2 DEF IInv, HandlerInv, HoldsMutex
        <5>. QED
          BY <4>1, <5>1
      <4>3. CASE sid[r] # None
        BY <4>1, <4>3 DEF IInv, HandlerInv
      <4>. QED
        BY <4>1, <4>2, <4>3
    <3>2. Live(o)
      BY <2>1, <3>1 DEF Live, Phases
    <3>. QED
      BY <2>2, <3>2 DEF IInv, TypeOK, ConnInv
  <2>4. CASE tx' = [tx EXCEPT ![oconn[o]] = @]
    <3>1. tx' = tx
      BY <2>4 DEF IInv, TypeOK
    <3>. QED
      BY <2>1, <3>1, SeenUnchanged
  <2>5. CASE \E t \in {r, None} : tx' = [tx EXCEPT ![oconn[o]] = t]
    <3>1. SeenAlive[oconn[o]] /\ oconn[o] # None
      BY <2>1, <2>3, DistinctNames DEF SeenAlive
    <3>2. Console!Execute(o, r)
      BY <2>1, <2>2, <2>5, <3>1, SeenSame DEF Console!Execute
    <3>. QED
      BY <2>2, <3>2 DEF Console!Next
  <2>. QED
    BY <2>1, <2>4, <2>5
<1>9. ASSUME NEW r \in Requests, Interrupt(r) PROVE Console!Next \/ UNCHANGED SeenVars
  <2>1. /\ UNCHANGED <<sessions, phase, oconn, runMu>>
        /\ \/ UNCHANGED <<cstate, tx>>
           \/ /\ cstate' = [cstate EXCEPT ![oconn[sess[r]]] = "dead"]
              /\ tx' = [tx EXCEPT ![oconn[sess[r]]] = None]
    BY <1>9 DEF Interrupt, ConnOf
  <2>2. oconn[sess[r]] \in Conns \cup {None}
    BY <1>9, RunnerWorks DEF Interrupt, IInv, TypeOK
  <2>. QED
    BY <2>1, <2>2, ConnectionDies, SeenUnchanged
<1>10. ASSUME NEW r \in Requests, Unlock(r) PROVE Console!Next
  <2>1. /\ pc[r] = "unlock" /\ sid[r] # None /\ runMu' = [runMu EXCEPT ![sess[r]] = None]
        /\ UNCHANGED <<sessions, phase, oconn, cstate, tx>>
    BY <1>10 DEF Unlock, Forget
  <2>2. sess[r] \in Requests /\ runMu[sess[r]] = r /\ r # None
    BY <2>1, DistinctNames DEF IInv, TypeOK, HandlerInv, HasSession, MutexInv, HoldsMutex
  <2>3. Console!GetUp(sess[r])
    BY <2>1, <2>2, SeenSame DEF Console!GetUp
  <2>. QED
    BY <2>2, <2>3 DEF Console!Next
<1>11. ASSUME NEW p \in Actors, RollBack(p) PROVE Console!Next \/ UNCHANGED SeenVars
  <2> DEFINE o == closing[p]
             c == oconn[o]
  <2>1. /\ o # None /\ phase[o] = "removed" /\ phase' = [phase EXCEPT ![o] = "rolledback"]
        /\ UNCHANGED <<sessions, oconn, runMu>>
        /\ \/ tx' = [tx EXCEPT ![c] = None] /\ cstate' = cstate
           \/ tx' = [tx EXCEPT ![c] = None] /\ cstate' = [cstate EXCEPT ![c] = "dead"]
           \/ UNCHANGED <<cstate, tx>>
    BY <1>11 DEF RollBack
  <2>2. o \in Requests
    BY <2>1 DEF IInv, TypeOK
  <2>3. SeenState' = SeenState /\ SeenState[o] = "closing"
    <3>1. SeenState[o] = "closing"
      BY <2>1, <2>2, SeenAt DEF Seen
    <3>2. SeenState' = [SeenState EXCEPT ![o] = "closing"]
      BY <2>1, <2>2, SeenSet DEF IInv, TypeOK, Seen
    <3>. QED
      BY <3>1, <3>2 DEF SeenState
  <2>4. CASE tx' = [tx EXCEPT ![c] = None] /\ cstate' = cstate
    <3>1. Console!RollBack(o)
      BY <2>1, <2>3, <2>4, SeenSame DEF Console!RollBack
    <3>. QED
      BY <2>2, <3>1 DEF Console!Next
  <2>5. CASE tx' = [tx EXCEPT ![c] = None] /\ cstate' = [cstate EXCEPT ![c] = "dead"]
    <3>1. c \in Conns
      BY <2>1, <2>2 DEF IInv, TypeOK, ConnInv, Live
    <3>2. \A d \in Conns : cstate'[d] = IF d = c THEN "dead" ELSE cstate[d]
      BY <2>5 DEF IInv, TypeOK
    <3>3. SeenAlive' = [SeenAlive EXCEPT ![c] = FALSE]
      BY <3>1, <3>2 DEF SeenAlive
    <3>4. Console!Die(c)
      BY <2>1, <2>3, <2>5, <3>3 DEF Console!Die
    <3>. QED
      BY <3>1, <3>4 DEF Console!Next
  <2>6. CASE UNCHANGED <<cstate, tx>>
    BY <2>1, <2>3, <2>6, SeenSame DEF SeenVars
  <2>. QED
    BY <2>1, <2>4, <2>5, <2>6
<1>12. ASSUME NEW p \in Actors, CloseConn(p) PROVE Console!Next
  <2>1. /\ closing[p] # None /\ phase[closing[p]] = "rolledback" /\ GiveBack(closing[p])
        /\ UNCHANGED <<sessions, runMu, tx>>
    BY <1>12 DEF CloseConn
  <2>2. closing[p] \in Requests
    BY <2>1 DEF IInv, TypeOK
  <2>. QED
    BY <2>1, <2>2, ConsoleCloses
<1>13. ASSUME Collect \/ (\E o \in Requests : IdleElapses(o))
              \/ (\E i \in SessionIds : EvictAbsent(i))
              \/ (\E k \in Cancels : \E r \in Requests : Cancel(k, r))
              \/ AllDone \/ UNCHANGED vars
       PROVE  UNCHANGED SeenVars
  BY <1>13, SeenUnchanged DEF Collect, IdleElapses, EvictAbsent, Cancel, AllDone, vars
<1>14. ASSUME NEW i \in SessionIds, Evict(i) PROVE Console!Next
  BY <1>14, ConsoleUnregisters DEF Evict
<1>15. ASSUME NEW k \in Cancels, Kill(k) PROVE Console!Next \/ UNCHANGED SeenVars
  <2>1. /\ UNCHANGED <<sessions, phase, oconn, runMu>>
        /\ \/ UNCHANGED <<cstate, tx>>
           \/ /\ cstate' = [cstate EXCEPT ![kthread[k]] = "dead"]
              /\ tx' = [tx EXCEPT ![kthread[k]] = None]
    BY <1>15 DEF Kill
  <2>2. kthread[k] \in Conns \cup {None}
    BY DEF IInv, TypeOK
  <2>. QED
    BY <2>1, <2>2, ConnectionDies, SeenUnchanged
<1>. QED
  BY <1>1, <1>2, <1>3, <1>4, <1>5, <1>6, <1>7, <1>8, <1>9, <1>10, <1>11, <1>12, <1>13, <1>14,
     <1>15 DEF Next, Handler, Close

(* The manager of sessions keeps what is promised of consoles.             *)
THEOREM ImplementsConsoles == Spec => ConsolesSpec
<1>1. Init => Console!Init
  BY DEF Init, Console!Init, SeenState, SeenAlive, Seen
<1>2. IInv /\ [Next]_vars => [Console!Next]_SeenVars
  BY ConsolesRefinement
<1>. QED
  BY <1>1, <1>2, Invariance, PTL DEF Spec, ConsolesSpec, Console!Spec, SeenVars
=============================================================================
