----------------------------- MODULE DurableMap -----------------------------
(***************************************************************************)
(* What the store of connections promises: a map on disk that changes only *)
(* by requests, one request at a time and as a whole. A request that is    *)
(* answered with success has changed the map, one that is answered with an *)
(* error never does, and a crash leaves the request that was under way     *)
(* either done or not done.                                                *)
(*                                                                         *)
(* The exception is a removal that was refused: the store has forgotten    *)
(* the entry, and the next request that succeeds removes it from the disk  *)
(* too, unless a crash brings it back first.                               *)
(***************************************************************************)
CONSTANTS Ids, Values, Requests, None

VARIABLES
  db,      \* id -> value
  at, new, \* what request r asks for: db[at[r]] becomes new[r], None removes
  status,  \* of request r
  doomed   \* ids whose removal was refused

Statuses == {"idle", "open", "committed", "acked", "refused", "lost"}

TypeOK ==
  /\ db \in [Ids -> Values \cup {None}]
  /\ at \in [Requests -> Ids \cup {None}]
  /\ new \in [Requests -> Values \cup {None}]
  /\ status \in [Requests -> Statuses]
  /\ doomed \subseteq Ids

Init ==
  /\ db \in [Ids -> Values \cup {None}]
  /\ at = [r \in Requests |-> None]
  /\ new = [r \in Requests |-> None]
  /\ status = [r \in Requests |-> "idle"]
  /\ doomed = {}

Ask(r) ==
  /\ status[r] = "idle"
  /\ status' = [status EXCEPT ![r] = "open"]
  /\ \E i \in Ids, v \in Values \cup {None} :
       at' = [at EXCEPT ![r] = i] /\ new' = [new EXCEPT ![r] = v]
  /\ UNCHANGED <<db, doomed>>

Commit(r) ==
  /\ status[r] = "open"
  /\ status' = [status EXCEPT ![r] = "committed"]
  /\ db' = [i \in Ids |-> IF i = at[r] THEN new[r] ELSE IF i \in doomed THEN None ELSE db[i]]
  /\ doomed' = {}
  /\ UNCHANGED <<at, new>>

Acknowledge(r) ==
  /\ status[r] = "committed"
  /\ status' = [status EXCEPT ![r] = "acked"]
  /\ UNCHANGED <<db, at, new, doomed>>

Refuse(r) ==
  /\ status[r] \in {"idle", "open"}
  /\ status' = [status EXCEPT ![r] = "refused"]
  /\ UNCHANGED <<db, at, new, doomed>>

RefuseRemoval(r) ==
  /\ status[r] = "open"
  /\ new[r] = None
  /\ status' = [status EXCEPT ![r] = "refused"]
  /\ doomed' = doomed \cup {at[r]}
  /\ UNCHANGED <<db, at, new>>

Crash ==
  /\ status' = [r \in Requests |->
                  IF status[r] \in {"open", "committed"} THEN "lost" ELSE status[r]]
  /\ doomed' = {}
  /\ UNCHANGED <<db, at, new>>

Next ==
  \/ \E r \in Requests :
       Ask(r) \/ Commit(r) \/ Acknowledge(r) \/ Refuse(r) \/ RefuseRemoval(r)
  \/ Crash

Spec == Init /\ [][Next]_<<db, at, new, status, doomed>>
=============================================================================
