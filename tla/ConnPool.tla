------------------------------ MODULE ConnPool ------------------------------
(***************************************************************************)
(* The connection pools and the SSH tunnel of one saved connection:        *)
(* ConnEntry and Store.Update, Store.Delete in backend/store.go, sshTunnel *)
(* in backend/ssh.go.                                                      *)
(*                                                                         *)
(* Every handler looks the entry up and asks it for the pool of a          *)
(* database. getDB first chooses the network, which may establish the SSH  *)
(* tunnel under the tunnel's mutex, then finds or opens the pool under the *)
(* entry's mutex. Update changes the entry's data under the store's mutex  *)
(* only, saves, and then closes pools and tunnel; Delete closes them and   *)
(* forgets the entry. A caller that looked the entry up keeps it.          *)
(*                                                                         *)
(* Abstractions.                                                           *)
(*  - Each caller calls getDB once; the pool, or the SSH client, that it   *)
(*    creates has its name. The Ping of the create, update and test        *)
(*    handlers is such a call.                                             *)
(*  - An info is one version of the connection's data. It is Tunnelled     *)
(*    when its SSH section is enabled.                                     *)
(*  - What ensure does under the tunnel's mutex is one step, and so is     *)
(*    closing the tunnel. A call may stay before its step for ever: the    *)
(*    keep-alive and the handshake have no deadline.                       *)
(*  - e.Info is written without the entry's mutex. A read during the write *)
(*    returns the old or the new SSH pointer, and for the rest the old     *)
(*    data, the new data or a mixture.                                     *)
(*  - A ping may fail at any time, may never be answered (it has no        *)
(*    context and the driver no read time-out), and succeeds only if the   *)
(*    network the pool dials exists.                                       *)
(***************************************************************************)
EXTENDS Naturals, FiniteSets

CONSTANTS
  Callers,     \* calls of getDB
  Updates,     \* calls of Store.Update
  Deletes,     \* calls of Store.Delete
  Databases,
  Infos,       \* versions of the connection data
  Tunnelled,   \* those with SSH enabled
  Mixed,       \* what a read that races with the write may return
  None

Writers == Updates \cup Deletes

ASSUME NamesAssumption ==
  /\ None \notin Callers \cup Writers \cup Databases \cup Infos
  /\ Callers \cap Writers = {}
  /\ Updates \cap Deletes = {}
  /\ Mixed \notin Infos \cup {None}
ASSUME TunnelledAssumption == Tunnelled \subseteq Infos

VARIABLES
  \* ---- the call of getDB by caller r ----
  pc,        \* where it is
  db,        \* the database it wants
  ssh,       \* the copy of the connection data that ensure works with
  net,       \* the network it was given: tcp or tunnel
  result,    \* the pool it returned
  \* ---- the entry ----
  info,      \* e.Info
  eMu,       \* holder of e.mu
  pools,     \* database -> pool
  pstate,    \* life cycle of pool o
  paddr,     \* the data pool o was opened with
  pnet,      \* the network pool o dials
  \* ---- the tunnel and the driver's table of dialers ----
  tMu,       \* holder of t.mu
  client,    \* t.client
  cstate,    \* life cycle of SSH client c
  cinfo,     \* the data client c was dialled with
  dialer,    \* the client behind the registered dial function
  \* ---- the store ----
  registered, \* the entry is in the store
  storeMu,   \* holder of the write lock
  wpc,       \* where an update or a delete is
  newInfo,   \* the data an update writes
  prev       \* the data it found

callVars   == <<pc, db, ssh, net, result>>
poolVars   == <<pools, pstate, paddr, pnet>>
tunnelVars == <<tMu, client, cstate, cinfo, dialer>>
writeVars  == <<registered, storeMu, wpc, newInfo, prev>>
vars == <<callVars, info, eMu, poolVars, tunnelVars, writeVars>>

Critical == {"held", "open", "ping"}

(* An update whose save failed ends refused.                               *)
Ended == {"done", "refused"}

TypeOK ==
  /\ pc \in [Callers -> {"start", "choose", "copy", "ensure", "tunnel", "lock", "done"} \cup Critical]
  /\ db \in [Callers -> Databases \cup {None}]
  /\ ssh \in [Callers -> Infos \cup {None}]
  /\ net \in [Callers -> {"tcp", "tunnel"}]
  /\ result \in [Callers -> Callers \cup {None}]
  /\ info \in Infos
  /\ eMu \in Callers \cup {None}
  /\ pools \in [Databases -> Callers \cup {None}]
  /\ pstate \in [Callers -> {"none", "opening", "open", "closed"}]
  /\ paddr \in [Callers -> Infos \cup {Mixed, None}]
  /\ pnet \in [Callers -> {"tcp", "tunnel"}]
  /\ tMu \in Callers \cup {None}
  /\ client \in Callers \cup {None}
  /\ cstate \in [Callers -> {"none", "up", "broken", "closed"}]
  /\ cinfo \in [Callers -> Infos \cup {None}]
  /\ dialer \in Callers \cup {None}
  /\ registered \in BOOLEAN
  /\ storeMu \in Writers \cup {None}
  /\ wpc \in [Writers -> {"start", "write", "save", "restore", "closePools", "closeTunnel",
                          "forget", "done", "refused"}]
  /\ newInfo \in [Updates -> Infos \cup {None}]
  /\ prev \in [Updates -> Infos \cup {None}]

Init ==
  /\ pc = [r \in Callers |-> "start"]
  /\ db = [r \in Callers |-> None]
  /\ ssh = [r \in Callers |-> None]
  /\ net = [r \in Callers |-> "tcp"]
  /\ result = [r \in Callers |-> None]
  /\ info \in Infos
  /\ eMu = None
  /\ pools = [d \in Databases |-> None]
  /\ pstate = [o \in Callers |-> "none"]
  /\ paddr = [o \in Callers |-> None]
  /\ pnet = [o \in Callers |-> "tcp"]
  /\ tMu = None
  /\ client = None
  /\ cstate = [c \in Callers |-> "none"]
  /\ cinfo = [c \in Callers |-> None]
  /\ dialer = None
  /\ registered = TRUE
  /\ storeMu = None
  /\ wpc = [w \in Writers |-> "start"]
  /\ newInfo = [u \in Updates |-> None]
  /\ prev = [u \in Updates |-> None]

----------------------------------------------------------------------------
(* What a read of e.Info may return: a write in progress shows the old and *)
(* the new data.                                                           *)
Visible ==
  {info} \cup {newInfo[u] : u \in {v \in Updates : wpc[v] = "write"}}
         \cup {prev[u] : u \in {v \in Updates : wpc[v] = "restore"}}

(* The fields that dsn reads one after the other may also be a mixture.    *)
VisibleAddr ==
  IF \E u \in Updates : wpc[u] \in {"write", "restore"} THEN Visible \cup {Mixed} ELSE Visible

(* The pool's network leads somewhere: a dial over the tunnel goes through *)
(* the client that was registered last.                                    *)
Reachable(o) == pnet[o] = "tcp" \/ (dialer # None /\ cstate[dialer] = "up")

----------------------------------------------------------------------------
(* getDB *)

(* Store.Get: readers wait for a writer.                                   *)
Lookup(r) ==
  /\ pc[r] = "start"
  /\ storeMu = None
  /\ registered
  /\ \E d \in Databases : db' = [db EXCEPT ![r] = d]
  /\ pc' = [pc EXCEPT ![r] = "choose"]
  /\ UNCHANGED <<ssh, net, result, info, eMu, poolVars, tunnelVars, writeVars>>

LookupFails(r) ==
  /\ pc[r] = "start"
  /\ storeMu = None
  /\ ~registered
  /\ pc' = [pc EXCEPT ![r] = "done"]
  /\ UNCHANGED <<db, ssh, net, result, info, eMu, poolVars, tunnelVars, writeVars>>

(* SSH is not enabled.                                                     *)
ChooseTCP(r) ==
  /\ pc[r] = "choose"
  /\ \E v \in Visible : v \notin Tunnelled
  /\ pc' = [pc EXCEPT ![r] = "lock"]
  /\ UNCHANGED <<db, ssh, net, result, info, eMu, poolVars, tunnelVars, writeVars>>

ChooseTunnel(r) ==
  /\ pc[r] = "choose"
  /\ \E v \in Visible : v \in Tunnelled
  /\ pc' = [pc EXCEPT ![r] = "copy"]
  /\ UNCHANGED <<db, ssh, net, result, info, eMu, poolVars, tunnelVars, writeVars>>

(* e.Info is read a second time, for the argument of ensure.               *)
CopyInfo(r) ==
  /\ pc[r] = "copy"
  /\ \E v \in Visible : ssh' = [ssh EXCEPT ![r] = v]
  /\ pc' = [pc EXCEPT ![r] = "ensure"]
  /\ UNCHANGED <<db, net, result, info, eMu, poolVars, tunnelVars, writeVars>>

(* ensure begins: t.mu.                                                    *)
EnsureLock(r) ==
  /\ pc[r] = "ensure"
  /\ tMu = None
  /\ tMu' = r
  /\ pc' = [pc EXCEPT ![r] = "tunnel"]
  /\ UNCHANGED <<db, ssh, net, result, info, eMu, poolVars, client, cstate, cinfo, dialer, writeVars>>

(* ensure: the tunnel answers a keep-alive, whatever it was dialled with.  *)
EnsureReuse(r) ==
  /\ pc[r] = "tunnel"
  /\ tMu' = None
  /\ client # None
  /\ cstate[client] = "up"
  /\ net' = [net EXCEPT ![r] = "tunnel"]
  /\ pc' = [pc EXCEPT ![r] = "lock"]
  /\ UNCHANGED <<db, ssh, result, info, eMu, poolVars, client, cstate, cinfo, dialer, writeVars>>

NoTunnel == client # None => cstate[client] = "broken"

(* Client states once a broken client has been closed.                     *)
Dropped == [c \in Callers |-> IF c = client THEN "closed" ELSE cstate[c]]

(* ensure: there is no tunnel, or a broken one that is closed first; a new *)
(* one is dialled and its dial function registered.                        *)
EnsureDial(r) ==
  /\ pc[r] = "tunnel"
  /\ tMu' = None
  /\ NoTunnel
  /\ ssh[r] \in Tunnelled
  /\ client' = r
  /\ cstate' = [Dropped EXCEPT ![r] = "up"]
  /\ cinfo' = [cinfo EXCEPT ![r] = ssh[r]]
  /\ dialer' = r
  /\ net' = [net EXCEPT ![r] = "tunnel"]
  /\ pc' = [pc EXCEPT ![r] = "lock"]
  /\ UNCHANGED <<db, ssh, result, info, eMu, poolVars, writeVars>>

(* The dial failed: getDB returns an error.                                *)
EnsureFails(r) ==
  /\ pc[r] = "tunnel"
  /\ tMu' = None
  /\ NoTunnel
  /\ ssh[r] \in Tunnelled
  /\ client' = None
  /\ cstate' = Dropped
  /\ pc' = [pc EXCEPT ![r] = "done"]
  /\ UNCHANGED <<db, ssh, net, result, info, eMu, poolVars, cinfo, dialer, writeVars>>

(* SSH was disabled between the two reads of e.Info.                       *)
EnsureTCP(r) ==
  /\ pc[r] = "tunnel"
  /\ tMu' = None
  /\ NoTunnel
  /\ ssh[r] \notin Tunnelled
  /\ client' = None
  /\ cstate' = Dropped
  /\ pc' = [pc EXCEPT ![r] = "lock"]
  /\ UNCHANGED <<db, ssh, net, result, info, eMu, poolVars, cinfo, dialer, writeVars>>

(* Mutant of Lock: the cache is read and filled without e.mu.              *)
LockNothing(r) ==
  /\ pc[r] = "lock"
  /\ pc' = [pc EXCEPT ![r] = "held"]
  /\ UNCHANGED <<eMu, db, ssh, net, result, info, poolVars, tunnelVars, writeVars>>

Lock(r) ==
  /\ pc[r] = "lock"
  /\ eMu = None
  /\ eMu' = r
  /\ pc' = [pc EXCEPT ![r] = "held"]
  /\ UNCHANGED <<db, ssh, net, result, info, poolVars, tunnelVars, writeVars>>

(* The call returns: e.mu is released.                                     *)
Leave(r) ==
  /\ eMu' = None
  /\ pc' = [pc EXCEPT ![r] = "done"]

(* A pool is cached and answers.                                           *)
Hit(r) ==
  /\ pc[r] = "held"
  /\ pools[db[r]] # None
  /\ Reachable(pools[db[r]])
  /\ result' = [result EXCEPT ![r] = pools[db[r]]]
  /\ Leave(r)
  /\ UNCHANGED <<db, ssh, net, info, poolVars, tunnelVars, writeVars>>

(* A pool is cached and its ping fails: it is closed and dropped.          *)
DropDead(r) ==
  /\ pc[r] = "held"
  /\ pools[db[r]] # None
  /\ pstate' = [pstate EXCEPT ![pools[db[r]]] = "closed"]
  /\ pools' = [pools EXCEPT ![db[r]] = None]
  /\ pc' = [pc EXCEPT ![r] = "open"]
  /\ UNCHANGED <<db, ssh, net, result, info, eMu, paddr, pnet, tunnelVars, writeVars>>

(* No pool is cached.                                                      *)
Miss(r) ==
  /\ pc[r] = "held"
  /\ pools[db[r]] = None
  /\ pc' = [pc EXCEPT ![r] = "open"]
  /\ UNCHANGED <<db, ssh, net, result, info, eMu, poolVars, tunnelVars, writeVars>>

(* sql.Open with e.dsn, which reads e.Info once more.                      *)
OpenPool(r) ==
  /\ pc[r] = "open"
  /\ pstate' = [pstate EXCEPT ![r] = "opening"]
  /\ \E v \in VisibleAddr : paddr' = [paddr EXCEPT ![r] = v]
  /\ pnet' = [pnet EXCEPT ![r] = net[r]]
  /\ pc' = [pc EXCEPT ![r] = "ping"]
  /\ UNCHANGED <<db, ssh, net, result, info, eMu, pools, tunnelVars, writeVars>>

(* The new pool answers and is cached.                                     *)
PingOK(r) ==
  /\ pc[r] = "ping"
  /\ Reachable(r)
  /\ pstate' = [pstate EXCEPT ![r] = "open"]
  /\ pools' = [pools EXCEPT ![db[r]] = r]
  /\ result' = [result EXCEPT ![r] = r]
  /\ Leave(r)
  /\ UNCHANGED <<db, ssh, net, info, paddr, pnet, tunnelVars, writeVars>>

(* Mutant of PingFails: the early return forgets e.mu.                     *)
PingFailsKeepsLock(r) ==
  /\ pc[r] = "ping"
  /\ pstate' = [pstate EXCEPT ![r] = "closed"]
  /\ pc' = [pc EXCEPT ![r] = "done"]
  /\ UNCHANGED <<eMu, db, ssh, net, result, info, pools, paddr, pnet, tunnelVars, writeVars>>

PingFails(r) ==
  /\ pc[r] = "ping"
  /\ pstate' = [pstate EXCEPT ![r] = "closed"]
  /\ Leave(r)
  /\ UNCHANGED <<db, ssh, net, result, info, pools, paddr, pnet, tunnelVars, writeVars>>

----------------------------------------------------------------------------
(* Store.Update and Store.Delete *)

(* The write of e.Info begins.                                             *)
UpdateBegin(u) ==
  /\ wpc[u] = "start"
  /\ storeMu = None
  /\ registered
  /\ storeMu' = u
  /\ prev' = [prev EXCEPT ![u] = info]
  /\ \E v \in Infos : newInfo' = [newInfo EXCEPT ![u] = v]
  /\ wpc' = [wpc EXCEPT ![u] = "write"]
  /\ UNCHANGED <<callVars, info, eMu, poolVars, tunnelVars, registered>>

(* "connection not found".                                                 *)
WriterFindsNothing(w) ==
  /\ wpc[w] = "start"
  /\ storeMu = None
  /\ ~registered
  /\ wpc' = [wpc EXCEPT ![w] = "done"]
  /\ UNCHANGED <<callVars, info, eMu, poolVars, tunnelVars, registered, storeMu, newInfo, prev>>

UpdateWritten(u) ==
  /\ wpc[u] = "write"
  /\ info' = newInfo[u]
  /\ wpc' = [wpc EXCEPT ![u] = "save"]
  /\ UNCHANGED <<callVars, eMu, poolVars, tunnelVars, registered, storeMu, newInfo, prev>>

(* Mutant of UpdateSaved: only the tunnel is closed.                       *)
UpdateSavedKeepsPools(u) ==
  /\ wpc[u] = "save"
  /\ wpc' = [wpc EXCEPT ![u] = "closeTunnel"]
  /\ UNCHANGED <<callVars, info, eMu, poolVars, tunnelVars, registered, storeMu, newInfo, prev>>

UpdateSaved(u) ==
  /\ wpc[u] = "save"
  /\ wpc' = [wpc EXCEPT ![u] = "closePools"]
  /\ UNCHANGED <<callVars, info, eMu, poolVars, tunnelVars, registered, storeMu, newInfo, prev>>

(* The save fails: the old data is written back.                           *)
UpdateSaveFails(u) ==
  /\ wpc[u] = "save"
  /\ wpc' = [wpc EXCEPT ![u] = "restore"]
  /\ UNCHANGED <<callVars, info, eMu, poolVars, tunnelVars, registered, storeMu, newInfo, prev>>

UpdateRestored(u) ==
  /\ wpc[u] = "restore"
  /\ info' = prev[u]
  /\ storeMu' = None
  /\ wpc' = [wpc EXCEPT ![u] = "refused"]
  /\ UNCHANGED <<callVars, eMu, poolVars, tunnelVars, registered, newInfo, prev>>

DeleteBegin(d) ==
  /\ wpc[d] = "start"
  /\ storeMu = None
  /\ registered
  /\ storeMu' = d
  /\ wpc' = [wpc EXCEPT ![d] = "closePools"]
  /\ UNCHANGED <<callVars, info, eMu, poolVars, tunnelVars, registered, newInfo, prev>>

(* e.Close(): every pool, under e.mu.                                      *)
ClosePools(w) ==
  /\ wpc[w] = "closePools"
  /\ eMu = None
  /\ pstate' = [o \in Callers |->
                  IF \E d \in Databases : pools[d] = o THEN "closed" ELSE pstate[o]]
  /\ pools' = [d \in Databases |-> None]
  /\ wpc' = [wpc EXCEPT ![w] = "closeTunnel"]
  /\ UNCHANGED <<callVars, info, eMu, paddr, pnet, tunnelVars, registered, storeMu, newInfo, prev>>

(* e.Close(): then the tunnel, under t.mu. Update is finished.             *)
UpdateClosesTunnel(u) ==
  /\ wpc[u] = "closeTunnel"
  /\ tMu = None
  /\ client' = None
  /\ cstate' = Dropped
  /\ storeMu' = None
  /\ wpc' = [wpc EXCEPT ![u] = "done"]
  /\ UNCHANGED <<callVars, info, eMu, poolVars, tMu, cinfo, dialer, registered, newInfo, prev>>

DeleteClosesTunnel(d) ==
  /\ wpc[d] = "closeTunnel"
  /\ tMu = None
  /\ client' = None
  /\ cstate' = Dropped
  /\ wpc' = [wpc EXCEPT ![d] = "forget"]
  /\ UNCHANGED <<callVars, info, eMu, poolVars, tMu, cinfo, dialer, registered, storeMu, newInfo, prev>>

(* The entry leaves the store, whether it can be saved or not.             *)
Forget(d) ==
  /\ wpc[d] = "forget"
  /\ registered' = FALSE
  /\ storeMu' = None
  /\ wpc' = [wpc EXCEPT ![d] = "done"]
  /\ UNCHANGED <<callVars, info, eMu, poolVars, tunnelVars, newInfo, prev>>

----------------------------------------------------------------------------
(* The SSH connection breaks.                                              *)
TunnelBreaks ==
  /\ client # None
  /\ cstate[client] = "up"
  /\ cstate' = [cstate EXCEPT ![client] = "broken"]
  /\ UNCHANGED <<callVars, info, eMu, poolVars, tMu, client, cinfo, dialer, writeVars>>

AllDone ==
  /\ \A r \in Callers : pc[r] = "done"
  /\ \A w \in Writers : wpc[w] \in Ended
  /\ UNCHANGED vars

GetDB(r) ==
  \/ Lookup(r) \/ LookupFails(r) \/ ChooseTCP(r) \/ ChooseTunnel(r) \/ CopyInfo(r)
  \/ EnsureLock(r) \/ EnsureReuse(r) \/ EnsureDial(r) \/ EnsureFails(r) \/ EnsureTCP(r)
  \/ Lock(r) \/ Hit(r) \/ DropDead(r) \/ Miss(r) \/ OpenPool(r) \/ PingOK(r) \/ PingFails(r)

Update(u) ==
  \/ UpdateBegin(u) \/ WriterFindsNothing(u) \/ UpdateWritten(u) \/ UpdateSaved(u)
  \/ UpdateSaveFails(u) \/ UpdateRestored(u) \/ ClosePools(u) \/ UpdateClosesTunnel(u)

Delete(d) ==
  DeleteBegin(d) \/ WriterFindsNothing(d) \/ ClosePools(d) \/ DeleteClosesTunnel(d) \/ Forget(d)

Next ==
  \/ \E r \in Callers : GetDB(r)
  \/ \E u \in Updates : Update(u)
  \/ \E d \in Deletes : Delete(d)
  \/ TunnelBreaks
  \/ AllDone

Spec == Init /\ [][Next]_vars

(* The call waits for an answer of the network while it holds a mutex: a   *)
(* keep-alive or an SSH handshake under t.mu, a ping under e.mu. None of   *)
(* them has a deadline.                                                    *)
AtNetwork(r) ==
  \/ pc[r] = "tunnel" /\ (client # None \/ ssh[r] \in Tunnelled)
  \/ pc[r] = "held" /\ pools[db[r]] # None
  \/ pc[r] = "ping"

(* Goroutines are scheduled, and Go's mutexes are fair: one that waits     *)
(* longer than a millisecond is handed over first. Nothing obliges a       *)
(* client to make a call, so its first step is not fair, and nothing       *)
(* obliges the network to answer or to report an error.                    *)
Fairness ==
  /\ \A r \in Callers : SF_vars(pc[r] # "start" /\ ~AtNetwork(r) /\ GetDB(r))
  /\ \A u \in Updates : SF_vars(wpc[u] # "start" /\ Update(u))
  /\ \A d \in Deletes : SF_vars(wpc[d] # "start" /\ Delete(d))

FairSpec == Spec /\ Fairness

----------------------------------------------------------------------------
(* What getDB and Close promise: a cache with one open pool per database.  *)
Cache == INSTANCE PoolCache WITH
  Pools <- Callers,
  cache <- pools,
  state <- [o \in Callers |-> IF pstate[o] \in {"none", "opening"} THEN "new" ELSE pstate[o]]

CacheSpec == Cache!Spec

----------------------------------------------------------------------------
(* Safety *)

(* A pool that a request finds in the cache has not been closed and is the *)
(* one of its database: closing a pool and dropping it go together, in     *)
(* getDB and in Close.                                                     *)
CachedIsOpen ==
  \A d \in Databases : pools[d] # None => pstate[pools[d]] = "open" /\ db[pools[d]] = d

(* No pool is lost: one that is open is cached, one being opened belongs   *)
(* to the holder of e.mu. Two requests that open the same database at once *)
(* never leave a second pool with its ten connections behind.              *)
NoLostPool ==
  \A o \in Callers :
    /\ pstate[o] = "open" => pools[db[o]] = o
    /\ pstate[o] = "opening" => eMu = o

(* No SSH client is lost: one that was not closed is the tunnel's.         *)
NoLostClient == \A c \in Callers : cstate[c] \in {"up", "broken"} => client = c

(* Pools outlive a tunnel that broke: their dial function leads through    *)
(* the client that replaced it.                                            *)
DialerFollowsTunnel == client # None => dialer = client

Updating == \E u \in Updates : wpc[u] \in {"write", "save", "restore", "closePools"}
NoneRefused == \A u \in Updates : wpc[u] # "refused"

(* No pool with the old host or credentials survives an update, although   *)
(* pools are opened while the data is being written: unless a save failed, *)
(* every cached pool was opened with the current data.                     *)
AddrIsCurrent ==
  ~Updating /\ NoneRefused => \A d \in Databases : pools[d] # None => paddr[pools[d]] = info

----------------------------------------------------------------------------
(* The inductive invariant behind the safety properties *)

(* The critical sections of getDB and of ensure.                           *)
LockInv ==
  \A r \in Callers :
    /\ pc[r] \in Critical <=> eMu = r
    /\ pc[r] = "tunnel" <=> tMu = r

(* What the position of a call says of the pool it creates.                *)
CallInv ==
  \A r \in Callers :
    /\ pc[r] \notin {"ping", "done"} => pstate[r] = "none"
    /\ pc[r] = "ping" <=> pstate[r] = "opening"
    /\ pc[r] \notin {"start", "done"} => db[r] \in Databases
    /\ pc[r] \in {"open", "ping"} => pools[db[r]] = None

(* The cache and the open pools correspond.                                *)
CacheInv ==
  /\ CachedIsOpen
  /\ \A o \in Callers : pstate[o] = "open" => db[o] \in Databases /\ pools[db[o]] = o

ClientInv ==
  /\ NoLostClient
  /\ DialerFollowsTunnel
  /\ client # None => cstate[client] \in {"up", "broken"}
  /\ \A r \in Callers : pc[r] \in {"start", "choose", "copy", "ensure", "tunnel"} => cstate[r] = "none"

(* One writer at a time, and an update knows both versions of the data.    *)
StoreInv ==
  /\ \A w \in Writers : wpc[w] \notin {"start"} \cup Ended => storeMu = w
  /\ \A u \in Updates : wpc[u] \notin {"start"} \cup Ended => newInfo[u] \in Infos /\ prev[u] \in Infos

IInv == TypeOK /\ LockInv /\ CallInv /\ CacheInv /\ ClientInv /\ StoreInv

(* No pool, cached or being opened, has old data.                          *)
AddrInv ==
  ~Updating /\ NoneRefused =>
    \A o \in Callers : pstate[o] \in {"opening", "open"} => paddr[o] = info

----------------------------------------------------------------------------
(* Liveness *)

(* Every call that got the entry ends, and so does every update and every  *)
(* delete.                                                                 *)
CallsEnd ==
  /\ \A r \in Callers : pc[r] = "choose" ~> pc[r] = "done"
  /\ \A w \in Writers : storeMu = w ~> wpc[w] \in Ended

(* Every call ends, unless the network keeps one of them waiting for ever: *)
(* the store's, the entry's and the tunnel's mutexes are never waited for  *)
(* in a cycle, and no path leaves one of them locked.                      *)
EveryCallEnds == (\E r \in Callers : <>[]AtNetwork(r)) \/ CallsEnd

----------------------------------------------------------------------------
(* Statements of the comments that the code does not keep *)

(* "Credentials or host may have changed: drop existing pools": after an   *)
(* update that was saved, the pools dial the network of the current data   *)
(* and the tunnel is the one of the current data.                          *)
NetworkIsCurrent ==
  (\A w \in Writers : wpc[w] \in {"start", "done"}) =>
    /\ \A d \in Databases :
         pools[d] # None => (pnet[pools[d]] = "tunnel") = (info \in Tunnelled)
    /\ client # None => cinfo[client] = info
=============================================================================
