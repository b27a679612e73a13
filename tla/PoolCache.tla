----------------------------- MODULE PoolCache -----------------------------
(***************************************************************************)
(* What the pools of a connection promise to the handlers: per database at *)
(* most one open pool, which every caller is given; a pool that was closed *)
(* never comes back; and no open pool is out of the cache's reach, so that *)
(* dropping all pools closes every one of them.                            *)
(***************************************************************************)
CONSTANTS Databases, Pools, None

VARIABLES
  cache,  \* database -> its pool
  state   \* new, open or closed

TypeOK ==
  /\ cache \in [Databases -> Pools \cup {None}]
  /\ state \in [Pools -> {"new", "open", "closed"}]

Init ==
  /\ cache = [d \in Databases |-> None]
  /\ state = [o \in Pools |-> "new"]

(* The first request for a database opens its pool.                        *)
Open(d, o) ==
  /\ cache[d] = None
  /\ state[o] = "new"
  /\ cache' = [cache EXCEPT ![d] = o]
  /\ state' = [state EXCEPT ![o] = "open"]

(* A pool that cannot reach its server is given up before it is cached.    *)
Discard(o) ==
  /\ state[o] = "new"
  /\ state' = [state EXCEPT ![o] = "closed"]
  /\ UNCHANGED cache

(* A cached pool that no longer answers is closed.                         *)
Drop(d) ==
  /\ cache[d] # None
  /\ cache' = [cache EXCEPT ![d] = None]
  /\ state' = [state EXCEPT ![cache[d]] = "closed"]

(* The connection was changed or deleted: all its pools are closed.        *)
DropAll ==
  /\ cache' = [d \in Databases |-> None]
  /\ state' = [o \in Pools |-> IF state[o] = "open" THEN "closed" ELSE state[o]]

Next ==
  \/ \E o \in Pools : Discard(o) \/ \E d \in Databases : Open(d, o)
  \/ \E d \in Databases : Drop(d)
  \/ DropAll

Spec == Init /\ [][Next]_<<cache, state>>
=============================================================================
