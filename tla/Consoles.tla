------------------------------ MODULE Consoles ------------------------------
(***************************************************************************)
(* What the session manager promises to those who work at SQL consoles. A  *)
(* console has one connection to itself from when it is opened until it is *)
(* closed, and is never opened again. A session id stands for one console  *)
(* at most, which is open; several clients may work at it, one at a time.  *)
(* A transaction is begun and ended by the client at the console that has  *)
(* the connection. Nobody else ends it while the console is open, unless   *)
(* the connection dies; a console that is being closed is rolled back, if  *)
(* that can still be done.                                                 *)
(*                                                                         *)
(* A console has the name of the client that opened it.                    *)
(***************************************************************************)
CONSTANTS Ids, Clients, Conns, None

VARIABLES
  registered,  \* session id -> console
  state,       \* console: none, fresh, open, closing or closed
  held,        \* console -> its connection
  runner,      \* console -> the client that works at it
  alive,       \* whether a connection lives
  tx           \* connection -> the client that began the transaction on it

Init ==
  /\ registered = [i \in Ids |-> None]
  /\ state = [o \in Clients |-> "none"]
  /\ held = [o \in Clients |-> None]
  /\ runner = [o \in Clients |-> None]
  /\ alive = [c \in Conns |-> TRUE]
  /\ tx = [c \in Conns |-> None]

(* A connection nobody has is taken from its pool, with what was left on   *)
(* it, or is a new one.                                                    *)
Connect(o, c) ==
  /\ state[o] = "none"
  /\ alive[c] /\ \A p \in Clients : held[p] # c
  /\ state' = [state EXCEPT ![o] = "fresh"]
  /\ held' = [held EXCEPT ![o] = c]
  /\ UNCHANGED <<registered, runner, alive, tx>>

Register(i, o) ==
  /\ state[o] = "fresh" /\ registered[i] = None
  /\ registered' = [registered EXCEPT ![i] = o]
  /\ state' = [state EXCEPT ![o] = "open"]
  /\ UNCHANGED <<held, runner, alive, tx>>

(* A client sits down at a console and finds it free. It may be closed in  *)
(* the meantime.                                                           *)
SitDown(o, r) ==
  /\ state[o] \in {"open", "closing", "closed"} /\ runner[o] = None
  /\ runner' = [runner EXCEPT ![o] = r]
  /\ UNCHANGED <<registered, state, held, alive, tx>>

GetUp(o) ==
  /\ runner[o] # None
  /\ runner' = [runner EXCEPT ![o] = None]
  /\ UNCHANGED <<registered, state, held, alive, tx>>

(* A console that was not registered is its opener's alone.                *)
Works(o, r) == IF state[o] = "fresh" THEN r = o ELSE runner[o] = r

(* A statement begins a transaction, or ends the one there is.             *)
Execute(o, r) ==
  /\ Works(o, r) /\ held[o] # None /\ alive[held[o]]
  /\ \E t \in {r, None} : tx' = [tx EXCEPT ![held[o]] = t]
  /\ UNCHANGED <<registered, state, held, runner, alive>>

Unregister(i) ==
  /\ registered[i] # None
  /\ registered' = [registered EXCEPT ![i] = None]
  /\ state' = [state EXCEPT ![registered[i]] = "closing"]
  /\ UNCHANGED <<held, runner, alive, tx>>

RollBack(o) ==
  /\ state[o] = "closing"
  /\ tx' = [tx EXCEPT ![held[o]] = None]
  /\ UNCHANGED <<registered, state, held, runner, alive>>

Close(o) ==
  /\ state[o] \in {"fresh", "closing"}
  /\ state' = [state EXCEPT ![o] = "closed"]
  /\ held' = [held EXCEPT ![o] = None]
  /\ UNCHANGED <<registered, runner, alive, tx>>

(* The connection breaks or its thread is killed: the server rolls back.   *)
Die(c) ==
  /\ alive' = [alive EXCEPT ![c] = FALSE]
  /\ tx' = [tx EXCEPT ![c] = None]
  /\ UNCHANGED <<registered, state, held, runner>>

Next ==
  \/ \E o \in Clients :
       \/ \E c \in Conns : Connect(o, c)
       \/ \E i \in Ids : Register(i, o)
       \/ \E r \in Clients : SitDown(o, r) \/ Execute(o, r)
       \/ GetUp(o) \/ RollBack(o) \/ Close(o)
  \/ \E i \in Ids : Unregister(i)
  \/ \E c \in Conns : Die(c)

Spec == Init /\ [][Next]_<<registered, state, held, runner, alive, tx>>
=============================================================================
