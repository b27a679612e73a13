------------------------------ MODULE UsersTab ------------------------------
(***************************************************************************)
(* The accounts of a server, frontend/src/components/UsersTab.tsx: their   *)
(* list, the grants of the account selected, and the dialogs on it. The    *)
(* matrix of all privileges is module PrivilegeMatrix.                     *)
(*                                                                         *)
(* Abstractions.                                                           *)
(*  - An account is there or not, and has one privilege or not; hosts,     *)
(*    plugins, passwords, the text of the forms, and whether an account is *)
(*    locked (but for the load that follows) are left out. A dialog keeps  *)
(*    nothing but that, so filling and submitting it is one action.        *)
(*  - A list is read when it is asked for, a write done when it is         *)
(*    answered, with or without an error. One whose answer is lost is a    *)
(*    change made by another client.                                       *)
(*  - MaxReads bounds each kind of read in flight, MaxWrites the writes.   *)
(***************************************************************************)
EXTENDS Naturals, FiniteSets

CONSTANTS Users, MaxReads, MaxWrites, NoUser, Unread

VARIABLES
  accounts, granted,   \* the server: its accounts; who has the privilege
  users, userReads,    \* the list shown; listUsers calls: [n, seen]
  selected,
  grants, grantReads,  \* the grants shown: [of, has]; userGrants calls: [n, of, has]
  writes,              \* calls that change an account: [kind, user, selected];
                       \* the selection matters to a copy and to a drop
  doubtful             \* history: which of "users", "grants" was last read
                       \* while another read of it was on its way, or in vain, or was
                       \* changed by a write that does not read it again, such as
                       \* one that fails half way, or by another client

usersVars == <<accounts, granted, users, userReads, selected, grants, grantReads,
               writes, doubtful>>

FreeRead(reads) == CHOOSE n \in 1..MaxReads : \A r \in reads : r.n # n

(* What is doubtful once "kind" is asked for, with "reads" on their way. *)
Asked(kind, reads, before) ==
  IF reads = {} THEN before \ {kind} ELSE before \cup {kind}

(* load up to its call. *)
LoadUsers(now) ==
  /\ Cardinality(userReads) < MaxReads
  /\ userReads' = userReads \cup {[n |-> FreeRead(userReads), seen |-> now]}

(* loadGrants up to its call: the account is selected. *)
LoadGrants(u, now) ==
  /\ Cardinality(grantReads) < MaxReads
  /\ selected' = u
  /\ grantReads' = grantReads \cup {[n |-> FreeRead(grantReads), of |-> u, has |-> now]}

UsersInit ==
  /\ accounts = Users /\ granted = {}
  /\ users = {} /\ userReads = {[n |-> 1, seen |-> accounts]}
  /\ selected = NoUser /\ grants = Unread /\ grantReads = {}
  /\ writes = {} /\ doubtful = {}

-----------------------------------------------------------------------------
(* The Refresh button over the list. *)
Refresh ==
  /\ userReads = {}
  /\ LoadUsers(accounts) /\ doubtful' = Asked("users", userReads, doubtful)
  /\ UNCHANGED <<accounts, granted, users, selected, grants, grantReads, writes>>

UsersCome(r) ==
  /\ userReads' = userReads \ {r} /\ users' = r.seen
  /\ UNCHANGED <<accounts, granted, selected, grants, grantReads, writes, doubtful>>

UsersFail(r) ==
  /\ userReads' = userReads \ {r} /\ doubtful' = doubtful \cup {"users"}
  /\ UNCHANGED <<accounts, granted, users, selected, grants, grantReads, writes>>

(* A click on a row. *)
SelectUser(u) ==
  /\ u \in users
  /\ LoadGrants(u, u \in granted) /\ doubtful' = Asked("grants", grantReads, doubtful)
  /\ UNCHANGED <<accounts, granted, users, userReads, grants, writes>>

GrantsCome(r) ==
  /\ grantReads' = grantReads \ {r}
  /\ grants' = [of |-> r.of, has |-> r.has]
  /\ UNCHANGED <<accounts, granted, users, userReads, selected, writes, doubtful>>

GrantsFail(r) ==
  /\ grantReads' = grantReads \ {r} /\ grants' = Unread
  /\ UNCHANGED <<accounts, granted, users, userReads, selected, writes, doubtful>>

-----------------------------------------------------------------------------
(* The dialogs and buttons up to their call, which is on the account       *)
(* selected or chosen in the list, or on one that is typed.                *)
Writes(kind, u, from) ==
  /\ Cardinality(writes) < MaxWrites
  /\ writes' = writes \cup {[kind |-> kind, user |-> u, selected |-> from]}
  /\ UNCHANGED <<accounts, granted, users, userReads, selected, grants, grantReads, doubtful>>

SubmitCreate(u) == Writes("create", u, NoUser)
ToggleLock(u) == u \in users /\ Writes("lock", u, NoUser)
DropUser(u) == u \in users /\ Writes("drop", u, selected)
SubmitGrant == selected # NoUser /\ Writes("grant", selected, NoUser)
SubmitCopy(u) == selected # NoUser /\ Writes("copy", u, selected)
SubmitCopyUser(u) == selected # NoUser /\ Writes("copyUser", u, selected)

(* It has changed nothing; all but the copies are one statement.           *)
WriteFails(w) ==
  /\ writes' = writes \ {w}
  /\ UNCHANGED <<accounts, granted, users, userReads, selected, grants, grantReads, doubtful>>

(* What a write that does not load the grants leaves doubtful, if it       *)
(* changes those of the account selected.                                  *)
Leaves(w) == doubtful \cup {k \in {"grants"} : w.user = selected}

(* copyUser creates the account, and both copies give it one grant of the  *)
(* source's after the other: when one of them fails those before it stay.  *)
(* Neither handler loads anything then.                                    *)
CopyStops(w) ==
  /\ w.kind \in {"copy", "copyUser"} /\ (w.user \in accounts <=> w.kind = "copy")
  /\ writes' = writes \ {w}
  /\ accounts' = accounts \cup {w.user}
  /\ \E given \in SUBSET {u \in {w.user} : w.selected \in granted} :
       granted' = granted \cup given
  /\ doubtful' = Leaves(w) \cup {k \in {"users"} : w.kind = "copyUser"}
  /\ UNCHANGED <<users, userReads, selected, grants, grantReads>>

(* submitCreate and submitCopyUser: the list is loaded again. *)
Created(w) ==
  /\ w.kind \in {"create", "copyUser"} /\ w.user \notin accounts
  /\ w.kind = "copyUser" => w.selected \in accounts
  /\ writes' = writes \ {w}
  /\ accounts' = accounts \cup {w.user}
  /\ granted' = granted \cup {u \in {w.user} : w.kind = "copyUser" /\ w.selected \in granted}
  /\ LoadUsers(accounts') /\ doubtful' = Asked("users", userReads, Leaves(w))
  /\ UNCHANGED <<users, selected, grants, grantReads>>

(* toggleLock *)
Locked(w) ==
  /\ w.kind = "lock" /\ w.user \in accounts
  /\ writes' = writes \ {w}
  /\ LoadUsers(accounts) /\ doubtful' = Asked("users", userReads, doubtful)
  /\ UNCHANGED <<accounts, granted, users, selected, grants, grantReads>>

(* confirmDrop: what was selected when it was confirmed is deselected if   *)
(* it is the account dropped.                                              *)
Dropped(w) ==
  /\ w.kind = "drop" /\ w.user \in accounts
  /\ writes' = writes \ {w}
  /\ accounts' = accounts \ {w.user} /\ granted' = granted \ {w.user}
  /\ selected' = IF w.selected = w.user THEN NoUser ELSE selected
  /\ grants' = IF w.selected = w.user THEN Unread ELSE grants
  /\ LoadUsers(accounts')
  /\ doubtful' = Asked("users", userReads,
                   doubtful \cup {k \in {"grants"} : selected' = w.user \/ grantReads # {}})
  /\ UNCHANGED <<users, grantReads>>

(* Mutant: the grants are not loaded again. *)
GrantedOnly(w) ==
  /\ w.kind = "grant" /\ w.user \in accounts
  /\ writes' = writes \ {w}
  /\ granted' = granted \cup {w.user}
  /\ UNCHANGED <<accounts, users, userReads, selected, grants, grantReads, doubtful>>

(* submitGrant: the account it was for is selected again. *)
Granted(w) ==
  /\ w.kind = "grant" /\ w.user \in accounts
  /\ writes' = writes \ {w}
  /\ granted' = granted \cup {w.user}
  /\ LoadGrants(w.user, TRUE) /\ doubtful' = Asked("grants", grantReads, doubtful)
  /\ UNCHANGED <<accounts, users, userReads, grants>>

(* submitCopy *)
Copied(w) ==
  /\ w.kind = "copy" /\ {w.user, w.selected} \subseteq accounts
  /\ writes' = writes \ {w}
  /\ granted' = granted \cup {u \in {w.user} : w.selected \in granted}
  /\ doubtful' = Leaves(w)
  /\ UNCHANGED <<accounts, users, userReads, selected, grants, grantReads>>

(* The matrix, or another client, changes a privilege. *)
UsersChange ==
  /\ "grants" \notin doubtful /\ doubtful' = doubtful \cup {"grants"}
  /\ granted' \in SUBSET accounts
  /\ UNCHANGED <<accounts, users, userReads, selected, grants, grantReads, writes>>

(* Another client creates or drops accounts. *)
AccountsChange ==
  /\ "users" \notin doubtful /\ doubtful' = doubtful \cup {"users", "grants"}
  /\ accounts' \in SUBSET Users /\ granted' = granted \cap accounts'
  /\ UNCHANGED <<users, userReads, selected, grants, grantReads, writes>>

UsersNext ==
  \/ Refresh \/ SubmitGrant \/ UsersChange \/ AccountsChange
  \/ \E r \in userReads : UsersCome(r) \/ UsersFail(r)
  \/ \E r \in grantReads : GrantsCome(r) \/ GrantsFail(r)
  \/ \E u \in Users :
       \/ SelectUser(u) \/ SubmitCreate(u) \/ ToggleLock(u) \/ DropUser(u)
       \/ SubmitCopy(u) \/ SubmitCopyUser(u)
  \/ \E w \in writes :
       \/ WriteFails(w) \/ CopyStops(w) \/ Created(w) \/ Locked(w)
       \/ Dropped(w) \/ Granted(w) \/ Copied(w)

UsersSpec == UsersInit /\ [][UsersNext]_usersVars

-----------------------------------------------------------------------------
(* Properties *)

(* When no load is on its way the list has the accounts of the server,     *)
(* whatever was created, copied or dropped; unless two loads overlapped or *)
(* one failed, a copy failed after it had created the account, or another  *)
(* client has changed them.                                                *)
AccountsAreCurrent ==
  (userReads = {} /\ "users" \notin doubtful) => users = accounts

(* The grants shown are those of the account selected, as they are, though *)
(* a grant may select another account when it is answered; unless two      *)
(* loads overlapped, or they were changed by what does not load them:      *)
(* something else than the tab, a copy onto the account whether it fails   *)
(* or not, or its drop when it was selected meanwhile.                     *)
GrantsAreOfSelected ==
  (selected # NoUser /\ grants # Unread /\ grantReads = {} /\ "grants" \notin doubtful) =>
    grants = [of |-> selected, has |-> selected \in granted]
=============================================================================
