--------------------------- MODULE SchemaVersions ---------------------------
(***************************************************************************)
(* The schema versions of a database,                                      *)
(* frontend/src/components/SchemaVersionsView.tsx: its structure is sealed *)
(* as a version, two versions or a version and the live database are       *)
(* compared, and the statements that turn the one into the other are run   *)
(* on the live database.                                                   *)
(*                                                                         *)
(* Abstractions.                                                           *)
(*  - A structure is a set of tables, and what turns one into another      *)
(*    creates and drops some of them; altered tables are left out.         *)
(*  - Names, notes, the copy button, and the dialogs that show or seal a   *)
(*    version and keep nothing, are left out.                              *)
(*  - MaxVersions bounds the versions ever sealed, MaxLists and MaxDiffs   *)
(*    the lists and the comparisons in flight.                             *)
(***************************************************************************)
EXTENDS Naturals, FiniteSets, FiniteSetsExt

CONSTANTS Tables, MaxVersions, MaxLists, MaxDiffs, LIVE, Unset, NoResult, NoApply

VARIABLES
  live, store, sealed, \* the server: the database; the versions by id; their count
  lists,               \* listSchemaVersions calls: [n, ids, by]
  sealing, removing,   \* createSchemaVersion is on its way; the ids being deleted
  versions,            \* the ids listed
  base, target,        \* the selection
  diffs, diffing,      \* diffSchemaVersions calls: [n, base, target, made, by]
  result,              \* the comparison shown: [base, target, from, to]
  apply,               \* the statements being run: [creates, drops, base, target]
  stale                \* history: since the last comparison was asked for on its own,
                       \* live was changed elsewhere, statements failed, or another
                       \* comparison was asked for

versionVars == <<live, store, sealed, lists, sealing, removing, versions, base,
                 target, diffs, diffing, result, apply, stale>>

Free(calls, most) == CHOOSE n \in 1..most : \A c \in calls : c.n # n

IsLive(ref) == ref \in {LIVE, Unset}
Structure(ref) == IF IsLive(ref) THEN live ELSE store[ref]
Known(ref) == IsLive(ref) \/ ref \in DOMAIN store

VersionsInit ==
  /\ live \in SUBSET Tables /\ store = <<>> /\ sealed = 0
  /\ lists = {[n |-> 1, ids |-> {}, by |-> "mount"]}
  /\ sealing = FALSE /\ removing = {}
  /\ versions = {} /\ base = Unset /\ target = LIVE
  /\ diffs = {} /\ diffing = FALSE /\ result = NoResult /\ apply = NoApply
  /\ stale = FALSE

(* refresh up to its call, which is answered with the versions of now. *)
AsksForList(now, by) ==
  /\ Cardinality(lists) < MaxLists
  /\ lists' = lists \cup {[n |-> Free(lists, MaxLists), ids |-> now, by |-> by]}

(* A base that is not listed becomes the newest version; the target stays. *)
ListComes(l) ==
  /\ lists' = lists \ {l} /\ versions' = l.ids
  /\ base' = IF base = LIVE \/ base \in l.ids THEN base
             ELSE IF l.ids = {} THEN LIVE ELSE Max(l.ids)
  /\ sealing' = IF l.by = "seal" THEN FALSE ELSE sealing
  /\ UNCHANGED <<live, store, sealed, removing, target, diffs, diffing, result, apply, stale>>

ListFails(l) ==
  /\ lists' = lists \ {l}
  /\ sealing' = IF l.by = "seal" THEN FALSE ELSE sealing
  /\ UNCHANGED <<live, store, sealed, removing, versions, base, target, diffs, diffing, result,
                 apply, stale>>

-----------------------------------------------------------------------------
(* createSnapshot *)
Seal ==
  /\ ~sealing /\ sealed < MaxVersions /\ sealing' = TRUE
  /\ UNCHANGED <<live, store, sealed, lists, removing, versions, base, target, diffs, diffing,
                 result, apply, stale>>

SealComes ==
  /\ sealing /\ \A l \in lists : l.by # "seal"
  /\ sealed' = sealed + 1
  /\ store' = [v \in DOMAIN store \cup {sealed'} |-> IF v = sealed' THEN live ELSE store[v]]
  /\ AsksForList(DOMAIN store', "seal")
  /\ UNCHANGED <<live, sealing, removing, versions, base, target, diffs, diffing, result,
                 apply, stale>>

SealFails ==
  /\ sealing /\ \A l \in lists : l.by # "seal"
  /\ sealing' = FALSE
  /\ UNCHANGED <<live, store, sealed, lists, removing, versions, base, target, diffs, diffing,
                 result, apply, stale>>

(* remove, once it is confirmed. *)
Remove(v) ==
  /\ v \in versions \ removing /\ removing' = removing \cup {v}
  /\ UNCHANGED <<live, store, sealed, lists, sealing, versions, base, target, diffs, diffing,
                 result, apply, stale>>

RemoveComes(v) ==
  /\ v \in removing /\ removing' = removing \ {v}
  /\ \/ /\ v \in DOMAIN store
        /\ store' = [w \in DOMAIN store \ {v} |-> store[w]]
        /\ AsksForList(DOMAIN store', "remove")
     \/ UNCHANGED <<store, lists>>
  /\ UNCHANGED <<live, sealed, sealing, versions, base, target, diffs, diffing, result,
                 apply, stale>>

-----------------------------------------------------------------------------
(* The pickers, which leave the comparison shown. *)
Select(from, to) ==
  /\ base' = from /\ target' = to
  /\ UNCHANGED <<live, store, sealed, lists, sealing, removing, versions, diffs, diffing,
                 result,
                 apply, stale>>

Pick ==
  \E ref \in versions \cup {LIVE} : Select(ref, target) \/ Select(base, ref)

Swap == Select(target, base)

(* runDiff up to its call. *)
RunDiff(from, to, by) ==
  /\ Cardinality(diffs) < MaxDiffs
  /\ diffing' = TRUE /\ result' = NoResult
  /\ stale' = (diffs # {})
  /\ diffs' = diffs \cup
       {[n |-> Free(diffs, MaxDiffs), base |-> from, target |-> to, made |-> NoResult,
         by |-> by]}

Compare ==
  /\ ~diffing /\ RunDiff(base, target, "compare")
  /\ UNCHANGED <<live, store, sealed, lists, sealing, removing, versions, base, target,
                 apply>>

(* The server compares the two as they are. *)
DiffIsMade(d) ==
  /\ d.made = NoResult /\ Known(d.base) /\ Known(d.target)
  /\ diffs' = (diffs \ {d}) \cup
       {[d EXCEPT !.made = [base |-> d.base, target |-> d.target,
                            from |-> Structure(d.base), to |-> Structure(d.target)]]}
  /\ UNCHANGED <<live, store, sealed, lists, sealing, removing, versions, base, target,
                 diffing, result, apply, stale>>

(* The end of runDiff, and of executeDdl when that called it. *)
DiffEnds(d) ==
  /\ diffs' = diffs \ {d} /\ diffing' = FALSE
  /\ apply' = IF d.by = "apply" THEN NoApply ELSE apply
  /\ UNCHANGED <<live, store, sealed, lists, sealing, removing, versions, base, target, stale>>

DiffComes(d) == d.made # NoResult /\ result' = d.made /\ DiffEnds(d)

DiffFails(d) == UNCHANGED result /\ DiffEnds(d)

-----------------------------------------------------------------------------
(* executeDdl: the statements of the result shown, those that create first *)
(* (schemaversion.go:283-306), for the selection of now.                   *)
Apply ==
  /\ result # NoResult /\ result.from # result.to
  /\ apply = NoApply /\ target = LIVE
  /\ apply' = [creates |-> result.to \ result.from, drops |-> result.from \ result.to,
               base |-> base, target |-> target]
  /\ UNCHANGED <<live, store, sealed, lists, sealing, removing, versions, base, target,
                 diffs, diffing, result, stale>>

Applies == apply # NoApply /\ \A d \in diffs : d.by # "apply"

RunsStatement ==
  /\ Applies
  /\ \/ \E t \in apply.creates \ live :
          /\ live' = live \cup {t}
          /\ apply' = [apply EXCEPT !.creates = @ \ {t}]
     \/ \E t \in apply.drops \cap live :
          /\ apply.creates = {}
          /\ live' = live \ {t}
          /\ apply' = [apply EXCEPT !.drops = @ \ {t}]
  /\ UNCHANGED <<store, sealed, lists, sealing, removing, versions, base, target, diffs,
                 diffing, result, stale>>

(* A table is there already, or not there to drop, or the call fails. *)
StatementFails ==
  /\ Applies /\ apply.creates \cup apply.drops # {}
  /\ apply' = NoApply /\ stale' = TRUE
  /\ UNCHANGED <<live, store, sealed, lists, sealing, removing, versions, base, target,
                 diffs, diffing, result>>

(* Mutant: the comparison is not made again. *)
AppliedOnly ==
  /\ Applies /\ apply.creates \cup apply.drops = {}
  /\ apply' = NoApply
  /\ UNCHANGED <<live, store, sealed, lists, sealing, removing, versions, base, target,
                 diffs, diffing, result, stale>>

Applied ==
  /\ Applies /\ apply.creates \cup apply.drops = {}
  /\ RunDiff(apply.base, apply.target, "apply")
  /\ UNCHANGED <<live, store, sealed, lists, sealing, removing, versions, base, target,
                 apply>>

(* Another session changes the database. *)
Elsewhere ==
  /\ ~stale /\ stale' = (result # NoResult \/ diffs # {})
  /\ live' \in SUBSET Tables \ {live}
  /\ UNCHANGED <<store, sealed, lists, sealing, removing, versions, base, target, diffs,
                 diffing, result, apply>>

VersionsNext ==
  \/ Seal \/ SealComes \/ SealFails \/ Pick \/ Swap \/ Compare
  \/ Apply \/ RunsStatement \/ StatementFails \/ Applied \/ Elsewhere
  \/ \E l \in lists : ListComes(l) \/ ListFails(l)
  \/ \E v \in DOMAIN store : Remove(v)
  \/ \E v \in removing : RemoveComes(v)
  \/ \E d \in diffs : DiffIsMade(d) \/ DiffComes(d) \/ DiffFails(d)

VersionsSpec == VersionsInit /\ [][VersionsNext]_versionVars

-----------------------------------------------------------------------------
(* Properties *)

(* The differences shown are those of the two structures as they are, and  *)
(* are compared again once statements were run; but for a database that    *)
(* was changed elsewhere, statements that failed or are being run, and two *)
(* comparisons at a time.                                                  *)
ResultIsCurrent ==
  (result # NoResult /\ ~stale /\ apply = NoApply) =>
    /\ IsLive(result.base) => result.from = live
    /\ IsLive(result.target) => result.to = live

(* schemaversion.go:259 "returns the DDL that turns base into target", and *)
(* SchemaVersionsView.tsx:404 "Apply runs these statements on the live     *)
(* database": they run on a database that has the structure of the base.   *)
RunsOnItsBase ==
  [][(apply = NoApply /\ apply' # NoApply /\ ~stale) => result.from = live]_versionVars
=============================================================================
