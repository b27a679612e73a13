----------------------------- MODULE SavedLists -----------------------------
(***************************************************************************)
(* The lists the client keeps in the browser's storage, each as one value: *)
(* frontend/src/lib/pinnedQueries.ts, favorites.ts, tableViews.ts,         *)
(* sqlSnippets.ts and queryHistory.ts, the starred queries of              *)
(* components/QueryTab.tsx, and the dialogs on them. Whoever shows a list  *)
(* holds a copy of it: a window of the browser, and each query tab for     *)
(* itself of the history and the starred queries.                          *)
(*                                                                         *)
(* Abstractions.                                                           *)
(*  - One list at a time is followed, and an entry is what tells it from   *)
(*    the others: a query, an object, the name of a view, an id. What else *)
(*    it says, which replacing it in place changes, is left out.           *)
(*  - A write to the storage is seen by all at once; the other windows are *)
(*    told of it later.                                                    *)
(*  - The limits of the lists are one, MaxKept.                            *)
(***************************************************************************)
EXTENDS Naturals, Sequences, Functions, Sublists

CONSTANTS Holders, Entries, MaxKept

ASSUME MaxKeptAssumption == MaxKept \in Nat

VARIABLES
  list,    \* which list it is
  stored,  \* the entries stored, the newest first
  copy,    \* each holder's copy
  told,    \* the holders to which an event of the storage is on its way
  removed  \* history: the entries the last step was asked to remove

listVars == <<list, stored, copy, told, removed>>

Synced == {"pins", "favorites", "views", "snippets"}
Lists == Synced \cup {"history", "starred"}
Capped == Lists \ {"favorites", "views"}

Without(entries, e) == Omit(entries, {e})

(* The entry first, and no more of the others than there is room for. *)
Prepend(e, entries) ==
  LET all == <<e>> \o entries
  IN IF list \in Capped /\ Len(all) > MaxKept THEN SubSeq(all, 1, MaxKept) ELSE all

ListsInit ==
  /\ list \in Lists /\ stored = <<>> /\ copy = [h \in Holders |-> <<>>]
  /\ told = {} /\ removed = {}

-----------------------------------------------------------------------------
(* Lists whose holders listen: what is stored is read, changed and stored. *)

(* persist: the window reads the list again at once, the others when they  *)
(* are told; the storage tells nobody of a value it had.                   *)
Persist(h, entries) ==
  /\ stored' = entries /\ copy' = [copy EXCEPT ![h] = entries]
  /\ told' = told \cup {g \in Holders \ {h} : entries # stored}
  /\ UNCHANGED list

(* Mutant: what the window shows decides. *)
PinUnlessShown(h, e) ==
  /\ list = "pins" /\ e \notin Range(copy[h]) /\ removed' = {}
  /\ Persist(h, Prepend(e, stored))

(* togglePin, where the window shows no such pin, and the pin of the query *)
(* dialog; a pin that is stored by now is left where it is.                *)
Pin(h, e) ==
  /\ list = "pins" /\ e \notin Range(stored) /\ removed' = {}
  /\ Persist(h, Prepend(e, stored))

(* Mutant: the list shown, without the pin, is stored. *)
UnpinFromCopy(h, e) ==
  /\ list = "pins" /\ e \in Range(copy[h]) /\ removed' = {e}
  /\ Persist(h, Without(copy[h], e))

Unpin(h, e) ==
  /\ list = "pins" /\ e \in Range(copy[h]) /\ removed' = {e}
  /\ Persist(h, Without(stored, e))

(* toggle: the entry is added or removed as the one stored has it. *)
ToggleFavorite(h, e) ==
  /\ list = "favorites"
  /\ IF e \in Range(stored) THEN Persist(h, Without(stored, e)) /\ removed' = {e}
                            ELSE Persist(h, Prepend(e, stored)) /\ removed' = {}

(* saveTableView and updateSqlSnippet: one that is there is replaced. *)
SaveEntry(h, e) ==
  /\ list \in {"views", "snippets"} /\ removed' = {}
  /\ Persist(h, IF e \in Range(stored) THEN stored ELSE Prepend(e, stored))

(* deleteTableView, removeSqlSnippet and remove: of an entry that is shown *)
RemoveEntry(h, e) ==
  /\ list \in Synced \ {"pins"} /\ e \in Range(copy[h]) /\ removed' = {e}
  /\ Persist(h, Without(stored, e))

Told(h) ==
  /\ h \in told /\ told' = told \ {h} /\ copy' = [copy EXCEPT ![h] = stored]
  /\ removed' = {} /\ UNCHANGED <<list, stored>>

-----------------------------------------------------------------------------
(* Lists of the query tabs: the tab's copy is changed and stored. *)

WriteBack(h, entries) ==
  /\ copy' = [copy EXCEPT ![h] = entries] /\ stored' = entries
  /\ UNCHANGED <<list, told>>

(* pushQueryHistory, of a query that has run *)
PushHistory(h, e) ==
  /\ list = "history" /\ removed' = {}
  /\ WriteBack(h, Prepend(e, Without(copy[h], e)))

RemoveHistory(h, e) ==
  /\ list = "history" /\ e \in Range(copy[h]) /\ removed' = {e}
  /\ WriteBack(h, Without(copy[h], e))

ClearHistory(h) ==
  /\ list = "history" /\ removed' = Entries /\ WriteBack(h, <<>>)

(* toggleFavorite of the query tab *)
ToggleStar(h, e) ==
  /\ list = "starred"
  /\ IF e \in Range(copy[h])
     THEN WriteBack(h, Without(copy[h], e)) /\ removed' = {e}
     ELSE WriteBack(h, Prepend(e, copy[h])) /\ removed' = {}

-----------------------------------------------------------------------------
(* A window or a query tab is opened, or reloaded: it reads what is stored. *)
OpenHolder(h) ==
  /\ copy' = [copy EXCEPT ![h] = stored] /\ told' = told \ {h} /\ removed' = {}
  /\ UNCHANGED <<list, stored>>

ListsNext ==
  \/ \E h \in Holders : Told(h) \/ ClearHistory(h) \/ OpenHolder(h)
  \/ \E h \in Holders, e \in Entries :
       \/ Pin(h, e) \/ Unpin(h, e) \/ ToggleFavorite(h, e)
       \/ SaveEntry(h, e) \/ RemoveEntry(h, e)
       \/ PushHistory(h, e) \/ RemoveHistory(h, e) \/ ToggleStar(h, e)

ListsSpec == ListsInit /\ [][ListsNext]_listVars

-----------------------------------------------------------------------------
(* Properties *)

(* A window to which no event is on its way shows the list that is stored, *)
(* whichever windows changed it and in whatever order they were told.      *)
CopiesAreCurrent ==
  list \in Synced => \A h \in Holders \ told : copy[h] = stored

(* No entry is stored twice, though a window decides by a list that may be *)
(* behind what the others have stored.                                     *)
OneEntryEach == IsInjective(stored)

LeavesUnasked == Range(stored) \ (Range(stored') \cup removed')
NoRoom == {stored[i] : i \in MaxKept..Len(stored)}

(* An entry leaves a list the windows share only when it is removed, or    *)
(* when a new one takes its room: no window stores over what another one   *)
(* has stored since.                                                       *)
EntriesStay ==
  [][(list \in Synced) => LeavesUnasked \subseteq NoRoom]_listVars

(* The same of the history of the query tabs, which does not hold: each    *)
(* stores its own copy, with what it has run, over what the others stored. *)
HistoryStays ==
  [][(list = "history") => LeavesUnasked \subseteq NoRoom]_listVars
=============================================================================
