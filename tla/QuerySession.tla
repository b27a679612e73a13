---------------------------- MODULE QuerySession ----------------------------
(***************************************************************************)
(* Query-console sessions: backend/querysession.go and runQuery in         *)
(* backend/handlers.go.                                                    *)
(*                                                                         *)
(* A request may name a session. The manager keeps one MySQL connection    *)
(* per session, requests on it are serialised by runMu (TryLock, busy on   *)
(* failure), a janitor goroutine closes sessions that idled for 30         *)
(* minutes, a query that timed out or was cancelled closes its session,    *)
(* and a cancel request also sends KILL to the MySQL thread it saw.        *)
(*                                                                         *)
(* Abstractions.                                                           *)
(*  - A request runs once. The session object a request may allocate has   *)
(*    the request's own name, so "object r" is the querySession (or, with  *)
(*    no session id, the private *sql.Conn) that request r created.        *)
(*  - A target is a pair of connection id and database.                    *)
(*  - A statement is "begin", "write" or "end" (COMMIT or ROLLBACK) and is *)
(*    atomic, as database/sql holds the driver connection during a call.   *)
(*  - idle[o] says that o is registered and that 30 minutes passed since   *)
(*    it was last touched.                                                 *)
(*  - A closed object has no connection: *sql.Conn.Close is final.         *)
(*  - Conns are MySQL threads: a dead one never comes back. They bound the *)
(*    number of connections a behaviour opens.                             *)
(***************************************************************************)
EXTENDS Naturals, Sequences, FiniteSets

CONSTANTS
  Requests,    \* runs of the runQuery handler
  SessionIds,  \* client-chosen session ids
  Targets,     \* (connection id, database) pairs
  Conns,       \* MySQL threads
  Cancels,     \* runs of the cancel handler
  Scripts,     \* the scripts a request may carry
  Anonymous,   \* whether a request may come without a session id
  Cleaner,     \* the janitor goroutine
  None

ASSUME DistinctNames ==
  /\ None \notin Requests \cup SessionIds \cup Conns \cup Targets
  /\ Cleaner \notin Requests

Statements == {"begin", "write", "end"}

ASSUME ScriptsAssumption == Scripts \subseteq Seq(Statements)
ASSUME AnonymousAssumption == Anonymous \in BOOLEAN

Actors == Requests \cup {Cleaner}

VARIABLES
  \* ---- the handler of request r ----
  pc,        \* where it is
  sid,       \* the session id of its body, None when it has none
  target,    \* the connection and database it asks for
  left,      \* statements of the script that have not run yet
  ctx,       \* its context: live, past the deadline, or canceled
  canceled,  \* activeQuery.canceled
  thread,    \* activeQuery.mysqlID
  sess,      \* the session (or private connection) it works on
  answer,    \* what the client was told
  inTx,      \* it executed BEGIN and has not ended that transaction
  torn,      \* it executed a later statement outside that transaction
  \* ---- the session manager ----
  sessions,  \* session id -> object
  phase,     \* life cycle of object o
  oconn,     \* connection of object o
  idle,      \* idleFor() > querySessionIdleTimeout
  runMu,     \* holder of object o's run mutex
  closing,   \* the object an actor is closing
  stale,     \* ids the janitor has collected
  \* ---- database/sql pools and the MySQL server ----
  cstate,    \* unopened, idle in a pool, leased, or dead
  ctarget,   \* the pool a connection belongs to
  tx,        \* request that opened the transaction in progress on it
  \* ---- cancel handlers ----
  kphase, kreq, kthread

reqVars    == <<sid, target>>
runVars    == <<left, thread, inTx, torn>>
ctxVars    == <<ctx, canceled>>
mgrVars    == <<sessions, phase, oconn, idle, runMu, closing, stale>>
connVars   == <<cstate, ctarget, tx>>
cancelVars == <<kphase, kreq, kthread>>
vars == <<pc, reqVars, runVars, ctxVars, sess, answer, mgrVars, connVars, cancelVars>>

Pcs == {"start", "get", "closeOld", "create", "install", "lock", "identify",
        "run", "remove", "closeRemoved", "unlock", "done"}
Phases == {"none", "fresh", "open", "removed", "rolledback", "closed"}

TypeOK ==
  /\ pc \in [Requests -> Pcs]
  /\ sid \in [Requests -> SessionIds \cup {None}]
  /\ target \in [Requests -> Targets \cup {None}]
  /\ left \in [Requests -> Seq(Statements)]
  /\ ctx \in [Requests -> {"live", "deadline", "canceled"}]
  /\ canceled \in [Requests -> BOOLEAN]
  /\ thread \in [Requests -> Conns \cup {None}]
  /\ sess \in [Requests -> Requests \cup {None}]
  /\ answer \in [Requests -> {"none", "ok", "busy", "failed", "timeout", "canceled"}]
  /\ inTx \in [Requests -> BOOLEAN]
  /\ torn \in [Requests -> BOOLEAN]
  /\ sessions \in [SessionIds -> Requests \cup {None}]
  /\ phase \in [Requests -> Phases]
  /\ oconn \in [Requests -> Conns \cup {None}]
  /\ idle \in [Requests -> BOOLEAN]
  /\ runMu \in [Requests -> Requests \cup {None}]
  /\ closing \in [Actors -> Requests \cup {None}]
  /\ stale \subseteq SessionIds
  /\ cstate \in [Conns -> {"unopened", "idle", "leased", "dead"}]
  /\ ctarget \in [Conns -> Targets \cup {None}]
  /\ tx \in [Conns -> Requests \cup {None}]
  /\ kphase \in [Cancels -> {"idle", "kill", "done"}]
  /\ kreq \in [Cancels -> Requests \cup {None}]
  /\ kthread \in [Cancels -> Conns \cup {None}]

Init ==
  /\ pc = [r \in Requests |-> "start"]
  /\ sid = [r \in Requests |-> None]
  /\ target = [r \in Requests |-> None]
  /\ left = [r \in Requests |-> <<>>]
  /\ ctx = [r \in Requests |-> "live"]
  /\ canceled = [r \in Requests |-> FALSE]
  /\ thread = [r \in Requests |-> None]
  /\ sess = [r \in Requests |-> None]
  /\ answer = [r \in Requests |-> "none"]
  /\ inTx = [r \in Requests |-> FALSE]
  /\ torn = [r \in Requests |-> FALSE]
  /\ sessions = [i \in SessionIds |-> None]
  /\ phase = [o \in Requests |-> "none"]
  /\ oconn = [o \in Requests |-> None]
  /\ idle = [o \in Requests |-> FALSE]
  /\ runMu = [o \in Requests |-> None]
  /\ closing = [p \in Actors |-> None]
  /\ stale = {}
  /\ cstate = [c \in Conns |-> "unopened"]
  /\ ctarget = [c \in Conns |-> None]
  /\ tx = [c \in Conns |-> None]
  /\ kphase = [k \in Cancels |-> "idle"]
  /\ kreq = [k \in Cancels |-> None]
  /\ kthread = [k \in Cancels |-> None]

----------------------------------------------------------------------------
(* The connection that request r's handler holds a *sql.Conn for.          *)
ConnOf(r) == oconn[sess[r]]

(* A *sql.Conn that was closed refuses every call (sql.ErrConnDone); one   *)
(* whose network connection died fails every call (driver.ErrBadConn).     *)
Usable(r) == phase[sess[r]] # "closed" /\ cstate[ConnOf(r)] = "leased"

(* Entries of Server.queries: stored after runMu is taken, deleted when    *)
(* the handler returns.                                                    *)
Registered(r) == pc[r] \in {"identify", "run", "remove", "closeRemoved", "unlock"}

(* Conn.Close of object o: its connection goes back to the pool, unless it *)
(* is dead.                                                                *)
GiveBack(o) ==
  /\ phase' = [phase EXCEPT ![o] = "closed"]
  /\ oconn' = [oconn EXCEPT ![o] = None]
  /\ cstate' = [cstate EXCEPT ![oconn[o]] = IF @ = "dead" THEN "dead" ELSE "idle"]

(* delete(m.sessions, id) by actor p, which then owns the close of the     *)
(* object that was registered, whichever object that is.                   *)
TakeOut(p, id) ==
  /\ sessions' = [sessions EXCEPT ![id] = None]
  /\ phase' = [phase EXCEPT ![sessions[id]] = "removed"]
  /\ idle' = [idle EXCEPT ![sessions[id]] = FALSE]
  /\ closing' = [closing EXCEPT ![p] = sessions[id]]

----------------------------------------------------------------------------
(* The handler of a request *)

(* The request arrives: its body has been decoded and validated.           *)
Start(r) ==
  /\ pc[r] = "start"
  /\ \E i \in SessionIds \cup (IF Anonymous THEN {None} ELSE {}), t \in Targets, s \in Scripts :
       /\ sid' = [sid EXCEPT ![r] = i]
       /\ target' = [target EXCEPT ![r] = t]
       /\ left' = [left EXCEPT ![r] = s]
       /\ pc' = [pc EXCEPT ![r] = IF i = None THEN "create" ELSE "get"]
  /\ UNCHANGED <<ctxVars, thread, inTx, torn, sess, answer, mgrVars, connVars, cancelVars>>

(* querySessionManager.get: no session has this id.                        *)
GetAbsent(r) ==
  /\ pc[r] = "get"
  /\ sessions[sid[r]] = None
  /\ pc' = [pc EXCEPT ![r] = "create"]
  /\ UNCHANGED <<reqVars, runVars, ctxVars, sess, answer, mgrVars, connVars, cancelVars>>

(* get: the registered session is for the same connection and database.    *)
GetReuse(r) ==
  /\ pc[r] = "get"
  /\ sessions[sid[r]] # None
  /\ target[sessions[sid[r]]] = target[r]
  /\ idle' = [idle EXCEPT ![sessions[sid[r]]] = FALSE]
  /\ sess' = [sess EXCEPT ![r] = sessions[sid[r]]]
  /\ pc' = [pc EXCEPT ![r] = "lock"]
  /\ UNCHANGED <<reqVars, runVars, ctxVars, answer, sessions, phase, oconn, runMu, closing,
                 stale, connVars, cancelVars>>

(* get: it is for another one. It is unregistered, then closed outside     *)
(* m.mu, and a new session is created.                                     *)
GetReplace(r) ==
  /\ pc[r] = "get"
  /\ sessions[sid[r]] # None
  /\ target[sessions[sid[r]]] # target[r]
  /\ TakeOut(r, sid[r])
  /\ pc' = [pc EXCEPT ![r] = "closeOld"]
  /\ UNCHANGED <<reqVars, runVars, ctxVars, sess, answer, oconn, runMu, stale, connVars,
                 cancelVars>>

(* getDB and db.Conn: an idle connection of the target's pool, or a new    *)
(* one. With no session id the connection is private to the handler.       *)
Create(r) ==
  /\ pc[r] = "create"
  /\ \E c \in Conns :
       /\ \/ cstate[c] = "idle" /\ ctarget[c] = target[r]
          \/ cstate[c] = "unopened"
       /\ cstate' = [cstate EXCEPT ![c] = "leased"]
       /\ ctarget' = [ctarget EXCEPT ![c] = target[r]]
       /\ oconn' = [oconn EXCEPT ![r] = c]
  /\ phase' = [phase EXCEPT ![r] = "fresh"]
  /\ sess' = [sess EXCEPT ![r] = IF sid[r] = None THEN r ELSE @]
  /\ pc' = [pc EXCEPT ![r] = IF sid[r] = None THEN "identify" ELSE "install"]
  /\ UNCHANGED <<reqVars, runVars, ctxVars, answer, sessions, idle, runMu, closing,
                 stale, tx, cancelVars>>

(* getDB or db.Conn failed: "connection failed".                           *)
CreateFails(r) ==
  /\ pc[r] = "create"
  /\ answer' = [answer EXCEPT ![r] = "failed"]
  /\ pc' = [pc EXCEPT ![r] = "done"]
  /\ left' = [left EXCEPT ![r] = <<>>]
  /\ UNCHANGED <<reqVars, thread, inTx, torn, ctxVars, sess, mgrVars, connVars, cancelVars>>

(* Mutant of Install: the map is not looked at again.                      *)
InstallOverwrites(r) ==
  /\ pc[r] = "install"
  /\ sess' = [sess EXCEPT ![r] = r]
  /\ phase' = [phase EXCEPT ![r] = "open"]
  /\ sessions' = [sessions EXCEPT ![sid[r]] = r]
  /\ pc' = [pc EXCEPT ![r] = "lock"]
  /\ UNCHANGED <<reqVars, runVars, ctxVars, answer, oconn, idle, runMu, closing, stale,
                 connVars, cancelVars>>

(* The end of create: the session is registered.                           *)
Install(r) ==
  /\ pc[r] = "install"
  /\ sessions[sid[r]] = None
  /\ sess' = [sess EXCEPT ![r] = r]
  /\ phase' = [phase EXCEPT ![r] = "open"]
  /\ sessions' = [sessions EXCEPT ![sid[r]] = r]
  /\ pc' = [pc EXCEPT ![r] = "lock"]
  /\ UNCHANGED <<reqVars, runVars, ctxVars, answer, oconn, idle, runMu, closing, stale,
                 connVars, cancelVars>>

(* The end of create: a session that another request registered meanwhile  *)
(* is returned as it is, and the new connection goes back to the pool.     *)
Adopt(r) ==
  /\ pc[r] = "install"
  /\ sessions[sid[r]] # None
  /\ sess' = [sess EXCEPT ![r] = sessions[sid[r]]]
  /\ GiveBack(r)
  /\ pc' = [pc EXCEPT ![r] = "lock"]
  /\ UNCHANGED <<reqVars, runVars, ctxVars, answer, sessions, idle, runMu, closing, stale,
                 ctarget, tx, cancelVars>>

(* Mutant of Lock: the result of TryLock is ignored.                       *)
LockIgnoresHolder(r) ==
  /\ pc[r] = "lock"
  /\ runMu' = [runMu EXCEPT ![sess[r]] = r]
  /\ pc' = [pc EXCEPT ![r] = "identify"]
  /\ UNCHANGED <<reqVars, runVars, ctxVars, sess, answer, sessions, phase, oconn, idle,
                 closing, stale, connVars, cancelVars>>

(* sess.runMu.TryLock()                                                    *)
Lock(r) ==
  /\ pc[r] = "lock"
  /\ runMu[sess[r]] = None
  /\ runMu' = [runMu EXCEPT ![sess[r]] = r]
  /\ pc' = [pc EXCEPT ![r] = "identify"]
  /\ UNCHANGED <<reqVars, runVars, ctxVars, sess, answer, sessions, phase, oconn, idle,
                 closing, stale, connVars, cancelVars>>

Busy(r) ==
  /\ pc[r] = "lock"
  /\ runMu[sess[r]] # None
  /\ answer' = [answer EXCEPT ![r] = "busy"]
  /\ pc' = [pc EXCEPT ![r] = "done"]
  /\ left' = [left EXCEPT ![r] = <<>>]
  /\ UNCHANGED <<reqVars, thread, inTx, torn, ctxVars, sess, mgrVars, connVars, cancelVars>>

(* SELECT CONNECTION_ID(): its failure is ignored.                         *)
Identify(r) ==
  /\ pc[r] = "identify"
  /\ thread' = [thread EXCEPT ![r] = IF Usable(r) THEN ConnOf(r) ELSE None]
  /\ pc' = [pc EXCEPT ![r] = "run"]
  /\ UNCHANGED <<reqVars, left, inTx, torn, ctxVars, sess, answer, mgrVars, connVars,
                 cancelVars>>

(* A statement is executed by the server. BEGIN in a transaction commits   *)
(* the previous one and opens another.                                     *)
Execute(r) ==
  /\ pc[r] = "run"
  /\ left[r] # <<>>
  /\ Usable(r)
  /\ ctx[r] = "live"
  /\ LET c == ConnOf(r)
         s == Head(left[r]) IN
     /\ tx' = [tx EXCEPT ![c] = IF s = "begin" THEN r ELSE IF s = "end" THEN None ELSE @]
     /\ inTx' = [inTx EXCEPT ![r] = IF s = "begin" THEN TRUE ELSE IF s = "end" THEN FALSE ELSE @]
     /\ torn' = [torn EXCEPT ![r] = @ \/ (inTx[r] /\ tx[c] # r)]
  /\ left' = [left EXCEPT ![r] = Tail(@)]
  /\ UNCHANGED <<pc, reqVars, thread, ctxVars, sess, answer, mgrVars, cstate, ctarget,
                 cancelVars>>

(* A statement fails for a reason other than the context: an SQL error, a  *)
(* closed or a dead connection. The session stays, unless the query had    *)
(* been marked canceled.                                                   *)
Fail(r) ==
  /\ pc[r] = "run"
  /\ left[r] # <<>>
  /\ ctx[r] = "live" \/ ~Usable(r)
  /\ answer' = [answer EXCEPT ![r] = IF canceled[r] THEN "canceled" ELSE "failed"]
  /\ pc' = [pc EXCEPT ![r] = IF canceled[r] /\ sid[r] # None THEN "remove" ELSE "unlock"]
  /\ UNCHANGED <<reqVars, runVars, ctxVars, sess, mgrVars, connVars, cancelVars>>

(* The context ended before or during a statement. In the second case the  *)
(* driver drops the network connection and the server rolls back.          *)
Interrupt(r) ==
  /\ pc[r] = "run"
  /\ left[r] # <<>>
  /\ ctx[r] # "live"
  /\ phase[sess[r]] # "closed"
  /\ \/ UNCHANGED connVars
     \/ /\ cstate' = [cstate EXCEPT ![ConnOf(r)] = "dead"]
        /\ tx' = [tx EXCEPT ![ConnOf(r)] = None]
        /\ UNCHANGED ctarget
  /\ answer' = [answer EXCEPT ![r] = IF ctx[r] = "deadline" THEN "timeout" ELSE "canceled"]
  /\ pc' = [pc EXCEPT ![r] = IF sid[r] # None THEN "remove" ELSE "unlock"]
  /\ UNCHANGED <<reqVars, runVars, ctxVars, sess, mgrVars, cancelVars>>

(* The script is finished: session.touch() and the result.                 *)
Finish(r) ==
  /\ pc[r] = "run"
  /\ left[r] = <<>>
  /\ idle' = IF sid[r] # None THEN [idle EXCEPT ![sess[r]] = FALSE] ELSE idle
  /\ answer' = [answer EXCEPT ![r] = "ok"]
  /\ pc' = [pc EXCEPT ![r] = "unlock"]
  /\ UNCHANGED <<reqVars, runVars, ctxVars, sess, sessions, phase, oconn, runMu, closing,
                 stale, connVars, cancelVars>>

(* Mutant of Remove: the session stays in the map.                         *)
RemoveSkipped(r) ==
  /\ pc[r] = "remove"
  /\ pc' = [pc EXCEPT ![r] = "unlock"]
  /\ UNCHANGED <<reqVars, runVars, ctxVars, sess, answer, mgrVars, connVars, cancelVars>>

(* Mutant of RemoveAbsent: a session that is gone already is not expected. *)
RemoveWaits(r) ==
  /\ pc[r] = "remove"
  /\ sessions[sid[r]] = None
  /\ UNCHANGED vars

(* sessionManager().remove(in.SessionID): by id, not by object.            *)
Remove(r) ==
  /\ pc[r] = "remove"
  /\ sessions[sid[r]] # None
  /\ TakeOut(r, sid[r])
  /\ pc' = [pc EXCEPT ![r] = "closeRemoved"]
  /\ UNCHANGED <<reqVars, runVars, ctxVars, sess, answer, oconn, runMu, stale, connVars,
                 cancelVars>>

RemoveAbsent(r) ==
  /\ pc[r] = "remove"
  /\ sessions[sid[r]] = None
  /\ pc' = [pc EXCEPT ![r] = "unlock"]
  /\ UNCHANGED <<reqVars, runVars, ctxVars, sess, answer, mgrVars, connVars, cancelVars>>

(* The handler returns and its deferred calls run: clearActive,            *)
(* queries.Delete, cancel and runMu.Unlock. What only the handler knew is  *)
(* forgotten.                                                              *)
Forget(r) ==
  /\ pc[r] = "unlock"
  /\ pc' = [pc EXCEPT ![r] = "done"]
  /\ left' = [left EXCEPT ![r] = <<>>]
  /\ thread' = [thread EXCEPT ![r] = None]
  /\ inTx' = [inTx EXCEPT ![r] = FALSE]
  /\ ctx' = [ctx EXCEPT ![r] = "canceled"]
  /\ canceled' = [canceled EXCEPT ![r] = FALSE]

Unlock(r) ==
  /\ sid[r] # None
  /\ Forget(r)
  /\ runMu' = [runMu EXCEPT ![sess[r]] = None]
  /\ UNCHANGED <<reqVars, torn, sess, answer, sessions, phase, oconn, idle, closing, stale,
                 connVars, cancelVars>>

(* With no session the deferred call is conn.Close().                      *)
Return(r) ==
  /\ sid[r] = None
  /\ Forget(r)
  /\ GiveBack(r)
  /\ UNCHANGED <<reqVars, torn, sess, answer, sessions, idle, runMu, closing, stale, ctarget,
                 tx, cancelVars>>

----------------------------------------------------------------------------
(* querySession.close, run by a handler or by the janitor *)

(* A request is executing on the object.                                   *)
RunsOn(r, o) == sess[r] = o /\ pc[r] \in {"identify", "run"}

(* Mutant of RollBack: the connection is back in the pool before ROLLBACK. *)
RollBackAfterGiveBack(p) ==
  /\ closing[p] # None
  /\ LET o == closing[p] IN
     /\ phase[o] = "removed"
     /\ phase' = [phase EXCEPT ![o] = "rolledback"]
     /\ cstate' = [cstate EXCEPT ![oconn[o]] = IF @ = "dead" THEN "dead" ELSE "idle"]
     /\ tx' = [tx EXCEPT ![oconn[o]] = None]
  /\ UNCHANGED <<pc, reqVars, runVars, ctxVars, sess, answer, sessions, oconn, idle, runMu,
                 closing, stale, ctarget, cancelVars>>

(* ROLLBACK with a context of 3 seconds; its error is ignored. It waits    *)
(* for the statement in progress, so it may expire without being sent; if  *)
(* it expires while the server works on it the connection is dropped.      *)
RollBack(p) ==
  /\ closing[p] # None
  /\ LET o == closing[p]
         c == oconn[o] IN
     /\ phase[o] = "removed"
     /\ phase' = [phase EXCEPT ![o] = "rolledback"]
     /\ \/ /\ tx' = [tx EXCEPT ![c] = None]
           /\ UNCHANGED cstate
        \/ /\ tx' = [tx EXCEPT ![c] = None]
           /\ cstate' = [cstate EXCEPT ![c] = "dead"]
        \/ /\ \E r \in Requests : RunsOn(r, o)
           /\ UNCHANGED <<cstate, tx>>
  /\ UNCHANGED <<pc, reqVars, runVars, ctxVars, sess, answer, sessions, oconn, idle, runMu,
                 closing, stale, ctarget, cancelVars>>

(* conn.Close(), and the closer continues.                                 *)
CloseConn(p) ==
  /\ closing[p] # None
  /\ phase[closing[p]] = "rolledback"
  /\ GiveBack(closing[p])
  /\ closing' = [closing EXCEPT ![p] = None]
  /\ pc' = [r \in Requests |->
              IF r # p THEN pc[r]
              ELSE IF pc[r] = "closeOld" THEN "create" ELSE "unlock"]
  /\ UNCHANGED <<reqVars, runVars, ctxVars, sess, answer, sessions, idle, runMu, stale,
                 ctarget, tx, cancelVars>>

----------------------------------------------------------------------------
(* The janitor *)

(* A tick: the ids of the sessions that idled too long, read under m.mu.   *)
Collect ==
  /\ stale = {}
  /\ closing[Cleaner] = None
  /\ stale' = {i \in SessionIds : sessions[i] # None /\ idle[sessions[i]]}
  /\ stale' # {}
  /\ UNCHANGED <<pc, reqVars, runVars, ctxVars, sess, answer, sessions, phase, oconn, idle,
                 runMu, closing, connVars, cancelVars>>

(* Mutant of Evict: the collected ids are dropped without remove.          *)
EvictSkips(i) ==
  /\ closing[Cleaner] = None
  /\ i \in stale
  /\ stale' = stale \ {i}
  /\ UNCHANGED <<pc, reqVars, runVars, ctxVars, sess, answer, sessions, phase, oconn, idle,
                 runMu, closing, connVars, cancelVars>>

(* m.remove(id), one id after the other, with m.mu released in between.    *)
Evict(i) ==
  /\ closing[Cleaner] = None
  /\ i \in stale
  /\ sessions[i] # None
  /\ stale' = stale \ {i}
  /\ TakeOut(Cleaner, i)
  /\ UNCHANGED <<pc, reqVars, runVars, ctxVars, sess, answer, oconn, runMu, connVars,
                 cancelVars>>

EvictAbsent(i) ==
  /\ closing[Cleaner] = None
  /\ i \in stale
  /\ sessions[i] = None
  /\ stale' = stale \ {i}
  /\ UNCHANGED <<pc, reqVars, runVars, ctxVars, sess, answer, sessions, phase, oconn, idle,
                 runMu, closing, connVars, cancelVars>>

----------------------------------------------------------------------------
(* The cancel handler *)

(* The run is looked up, marked canceled, and its context canceled.        *)
Cancel(k, r) ==
  /\ kphase[k] = "idle"
  /\ Registered(r)
  /\ canceled' = [canceled EXCEPT ![r] = TRUE]
  /\ ctx' = [ctx EXCEPT ![r] = IF @ = "live" THEN "canceled" ELSE @]
  /\ kphase' = [kphase EXCEPT ![k] = IF thread[r] = None THEN "done" ELSE "kill"]
  /\ kreq' = [kreq EXCEPT ![k] = IF thread[r] = None THEN None ELSE r]
  /\ kthread' = [kthread EXCEPT ![k] = thread[r]]
  /\ UNCHANGED <<pc, reqVars, runVars, sess, answer, mgrVars, connVars>>

(* KILL <thread>, sent on another connection; it may fail or not be sent.  *)
Kill(k) ==
  /\ kphase[k] = "kill"
  /\ kphase' = [kphase EXCEPT ![k] = "done"]
  /\ \/ /\ cstate' = [cstate EXCEPT ![kthread[k]] = "dead"]
        /\ tx' = [tx EXCEPT ![kthread[k]] = None]
        /\ UNCHANGED ctarget
     \/ UNCHANGED connVars
  /\ kreq' = [kreq EXCEPT ![k] = None]
  /\ kthread' = [kthread EXCEPT ![k] = None]
  /\ UNCHANGED <<pc, reqVars, runVars, ctxVars, sess, answer, mgrVars>>

----------------------------------------------------------------------------
(* The environment *)

(* The optional timeoutSec of the request expires. Once the script is over *)
(* nothing reads the context any more.                                     *)
Deadline(r) ==
  /\ pc[r] = "run"
  /\ ctx[r] = "live"
  /\ ctx' = [ctx EXCEPT ![r] = "deadline"]
  /\ UNCHANGED <<pc, reqVars, runVars, canceled, sess, answer, mgrVars, connVars, cancelVars>>

(* The client goes away: net/http cancels r.Context().                     *)
Disconnect(r) ==
  /\ pc[r] = "run"
  /\ ctx[r] = "live"
  /\ ctx' = [ctx EXCEPT ![r] = "canceled"]
  /\ UNCHANGED <<pc, reqVars, runVars, canceled, sess, answer, mgrVars, connVars, cancelVars>>

(* Thirty minutes pass since the session was last touched.                 *)
IdleElapses(o) ==
  /\ phase[o] = "open"
  /\ ~idle[o]
  /\ idle' = [idle EXCEPT ![o] = TRUE]
  /\ UNCHANGED <<pc, reqVars, runVars, ctxVars, sess, answer, sessions, phase, oconn, runMu,
                 closing, stale, connVars, cancelVars>>

(* Every request has been answered and no actor has work left.             *)
AllDone ==
  /\ \A r \in Requests : pc[r] = "done"
  /\ \A p \in Actors : closing[p] = None
  /\ UNCHANGED vars

Handler(r) ==
  \/ GetAbsent(r) \/ GetReuse(r) \/ GetReplace(r) \/ Create(r) \/ CreateFails(r)
  \/ Install(r) \/ Adopt(r) \/ Lock(r) \/ Busy(r) \/ Identify(r)
  \/ Execute(r) \/ Fail(r) \/ Interrupt(r) \/ Finish(r)
  \/ Remove(r) \/ RemoveAbsent(r) \/ Unlock(r) \/ Return(r)

Close(p) == RollBack(p) \/ CloseConn(p)

Next ==
  \/ \E r \in Requests : Start(r) \/ Handler(r) \/ Deadline(r) \/ Disconnect(r)
  \/ \E o \in Requests : IdleElapses(o)
  \/ \E p \in Actors : Close(p)
  \/ Collect
  \/ \E i \in SessionIds : Evict(i) \/ EvictAbsent(i)
  \/ \E k \in Cancels : Kill(k) \/ \E r \in Requests : Cancel(k, r)
  \/ AllDone

Spec == Init /\ [][Next]_vars

(* Goroutines are scheduled: a handler that can step eventually does, a    *)
(* close in progress continues (it waits at most 3 seconds for ROLLBACK),  *)
(* the ticker fires. Nothing is assumed of the clients, of time-outs, of   *)
(* cancels or of the passage of half an hour.                              *)
Fairness ==
  /\ \A r \in Requests : WF_vars(Handler(r))
  /\ \A p \in Actors : WF_vars(Close(p))
  /\ WF_vars(Collect)
  /\ WF_vars(\E i \in SessionIds : Evict(i) \/ EvictAbsent(i))

FairSpec == Spec /\ Fairness

----------------------------------------------------------------------------
(* Safety *)

Live(o) == phase[o] \in {"fresh", "open", "removed", "rolledback"}

(* A connection that left its pool belongs to exactly one session or       *)
(* handler, and one that lies in a pool to none: a close that ran twice or *)
(* a checkout of a connection still in use would let two consoles share    *)
(* one transaction.                                                        *)
ConnExclusive ==
  /\ \A o1, o2 \in Requests : Live(o1) /\ Live(o2) /\ o1 # o2 => oconn[o1] # oconn[o2]
  /\ \A o \in Requests : Live(o) => cstate[oconn[o]] \in {"leased", "dead"}

(* A session found in the map has not been closed and is registered under  *)
(* its own id: get, remove and the janitor unregister it before they close *)
(* it, and create never registers over another session.                    *)
MappedIsOpen ==
  \A i \in SessionIds :
    sessions[i] # None => phase[sessions[i]] = "open" /\ sid[sessions[i]] = i

(* No connection is lost: an open session is in the map, one that was      *)
(* taken out has exactly one actor closing it, and a connection that is    *)
(* not registered yet belongs to a handler that still runs.                *)
NoLostConn ==
  \A o \in Requests :
    /\ phase[o] = "open" => sessions[sid[o]] = o
    /\ phase[o] \in {"removed", "rolledback"} =>
         \E p \in Actors : closing[p] = o /\ \A q \in Actors \ {p} : closing[q] # o
    /\ phase[o] = "fresh" => pc[o] \in {"install", "identify", "run", "unlock"}

(* Two handlers never execute statements on one MySQL connection, even     *)
(* when a session is closed under the request that runs on it and its      *)
(* connection has been handed to somebody else.                            *)
Executing(r) == pc[r] \in {"identify", "run"} /\ phase[sess[r]] # "closed"
OneRunnerPerConn ==
  \A r1, r2 \in Requests :
    Executing(r1) /\ Executing(r2) /\ r1 # r2 => ConnOf(r1) # ConnOf(r2)

(* While a session stays registered nobody disturbs the transaction that   *)
(* the running request opened on it: only closing the session does.        *)
MappedTxIntact ==
  \A r \in Requests :
    pc[r] = "run" /\ inTx[r] /\ phase[sess[r]] = "open" /\ Usable(r) => tx[ConnOf(r)] = r

(* A client that was told "timed out" or "canceled" can reuse its session  *)
(* id: the session the query ran on is out of the map, so no later request *)
(* continues in the half-finished transaction.                             *)
AbortedIsGone ==
  \A r \in Requests :
    pc[r] \in {"unlock", "done"} /\ answer[r] \in {"timeout", "canceled"} /\ sid[r] # None
      => phase[sess[r]] # "open"

----------------------------------------------------------------------------
(* Refinement *)

(* What those who work at the consoles see of them.                        *)
Seen(p) == IF p \in {"removed", "rolledback"} THEN "closing" ELSE p

SeenState == [o \in Requests |-> Seen(phase[o])]
SeenAlive == [c \in Conns |-> cstate[c] # "dead"]

Console == INSTANCE Consoles WITH
  Ids <- SessionIds, Clients <- Requests,
  registered <- sessions, state <- SeenState, held <- oconn, runner <- runMu,
  alive <- SeenAlive

(* The manager keeps what is promised of consoles, whatever requests,      *)
(* janitor, cancels, time-outs and KILLs cross: no close is done twice, no *)
(* connection is given away while a console has it, and no transaction is  *)
(* touched by anybody but the request that runs at its console.            *)
ConsolesSpec == Console!Spec

----------------------------------------------------------------------------
(* The inductive invariant behind the safety properties *)

HasSession == {"lock", "identify", "run", "remove", "closeRemoved", "unlock"}
HoldsMutex == {"identify", "run", "remove", "closeRemoved", "unlock"}

(* What the position of a handler says of the object it created and of the *)
(* object it works on.                                                     *)
HandlerInv ==
  \A r \in Requests :
    /\ pc[r] \in {"start", "get", "closeOld", "create"} => phase[r] = "none"
    /\ pc[r] = "install" => phase[r] = "fresh"
    /\ pc[r] \in {"start", "get", "closeOld", "create", "install"} => sess[r] = None
    /\ phase[r] = "fresh" =>
         pc[r] = "install" \/ (sid[r] = None /\ pc[r] \in {"identify", "run", "unlock"})
    /\ pc[r] \in {"get", "closeOld", "install", "lock", "remove", "closeRemoved"} => sid[r] # None
    /\ phase[r] \in {"open", "removed", "rolledback"} => sid[r] # None /\ pc[r] # "start"
    /\ sid[r] = None /\ pc[r] \in HoldsMutex => sess[r] = r /\ phase[r] = "fresh"
    /\ pc[r] \in HasSession => sess[r] # None
    /\ sid[r] # None /\ sess[r] # None =>
         phase[sess[r]] \notin {"none", "fresh"} /\ sid[sess[r]] = sid[r]

(* An object has a connection as long as it is live.                       *)
ConnInv ==
  /\ ConnExclusive
  /\ \A o \in Requests : Live(o) <=> oconn[o] # None

(* The map and the objects agree on what is open.                          *)
MapInv ==
  /\ MappedIsOpen
  /\ \A o \in Requests : phase[o] = "open" => sessions[sid[o]] = o

(* Every object being closed has exactly one closer.                       *)
CloseInv ==
  /\ \A p \in Actors : closing[p] # None => phase[closing[p]] \in {"removed", "rolledback"}
  /\ \A p, q \in Actors : closing[p] # None /\ closing[p] = closing[q] => p = q
  /\ \A o \in Requests :
       phase[o] \in {"removed", "rolledback"} => \E p \in Actors : closing[p] = o
  /\ \A r \in Requests : closing[r] # None <=> pc[r] \in {"closeOld", "closeRemoved"}

(* A handler that passed TryLock holds the mutex until it returns.         *)
MutexInv ==
  \A r \in Requests : pc[r] \in HoldsMutex /\ sid[r] # None => runMu[sess[r]] = r

IInv == TypeOK /\ HandlerInv /\ ConnInv /\ MapInv /\ CloseInv /\ MutexInv

(* What a client was told: an aborted query is past its removal, or about  *)
(* to do it.                                                               *)
AbortInv ==
  \A r \in Requests :
    answer[r] \in {"timeout", "canceled"} =>
      /\ pc[r] \in {"remove", "closeRemoved", "unlock", "done"}
      /\ sess[r] # None
      /\ sid[r] # None /\ pc[r] # "remove" => phase[sess[r]] # "open"

(* Only a handler that reached its script can be inside a transaction.     *)
InTxInv == \A r \in Requests : inTx[r] => pc[r] \in {"run", "remove", "closeRemoved", "unlock"}

----------------------------------------------------------------------------
(* Liveness *)

(* Every request that was accepted is answered: TryLock never waits, and   *)
(* closing a session never waits for its runner to finish the script.      *)
Answered == \A r \in Requests : pc[r] = "get" ~> pc[r] = "done"

(* A session that idles for half an hour is closed or used again, and what *)
(* was taken out of the map is given back to the pool.                     *)
IdleIsEvicted ==
  /\ \A o \in Requests : phase[o] = "open" /\ idle[o] ~> phase[o] # "open" \/ ~idle[o]
  /\ \A o \in Requests : phase[o] = "removed" ~> phase[o] = "closed"

----------------------------------------------------------------------------
(* Statements of the documentation that the code does not keep *)

(* handlers.go runs a request on the connection and in the database it     *)
(* names: get compares both before it reuses a session.                    *)
RunsOnItsTarget ==
  \A r \in Requests : pc[r] \in {"identify", "run"} => target[sess[r]] = target[r]

(* "BEGIN/COMMIT/ROLLBACK ... behave like a SQL console": a script that    *)
(* was answered with success executed its transaction as one transaction.  *)
NoTornTx == \A r \in Requests : answer[r] = "ok" => ~torn[r]
=============================================================================
