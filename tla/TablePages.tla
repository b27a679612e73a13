----------------------------- MODULE TablePages -----------------------------
(***************************************************************************)
(* Which page of a table a table tab shows: the view state, the keyset     *)
(* position and the loads of frontend/src/components/TableTab.tsx.         *)
(*                                                                         *)
(* The tab loads a page whenever something the request depends on changes, *)
(* and after every write. No request is cancelled, and the answers come in *)
(* any order. A handler keeps the state of the render it was created in    *)
(* across its await: a write in flight carries the request its             *)
(* continuation will send.                                                 *)
(*                                                                         *)
(* Abstractions.                                                           *)
(*  - A request stands for the page it returns. Of an answer only what     *)
(*    moves on is kept: "last" is maxPage, "next" the token of the page    *)
(*    after it. The server's data may change at any time: any of Answers   *)
(*    may come. Rows and their edits are in TableEdits.                    *)
(*  - Filter lists, quick filters and search words are values.             *)
(*  - A visit to the structure view leaves the rest of the tab as it is.   *)
(*  - MaxLoads bounds the loads and writes, and numbers them, and it       *)
(*    bounds the list of tokens.                                           *)
(***************************************************************************)
EXTENDS Integers, FiniteSets, Sequences

CONSTANTS Sortable, Sizes, DefaultSize, Filters, Words, SavedViews, Answers, MaxLoads, None

ASSUME ViewAssumption ==
  DefaultSize \in Sizes /\ None \notin Filters /\ None \notin Words
ASSUME LoadsAssumption == MaxLoads \in Nat

VARIABLES
  structure,  \* has the table's structure arrived, and with it the keys?
  view,       \* page, pageSize, orderBy, filters, quickFilters, search, pageMode
  keyset,     \* keysetTokens and keysetPos (from 1)
  data,       \* the page shown, None before the first answer
  loading, error,
  calls, sent,
  overtaken   \* history: an answer came after that of a later load, or a
              \* write reloaded a page the view had left

pagesVars == <<structure, view, keyset, data, loading, error, calls, sent, overtaken>>

Start == [tokens |-> <<None>>, pos |-> 1]

Pending(api) == {k \in calls : k.api = api}

HasPrimaryKey == structure = "keyed"

(* What loadData's closure depends on. *)
Request(v, keyed, ks) ==
  LET on == v.pageMode = "keyset" /\ v.orderBy = <<>> /\ keyed
  IN [page |-> v.page, size |-> v.pageSize, orderBy |-> v.orderBy,
      filters |-> <<v.filters, v.quickFilters>>, search |-> v.search,
      keyset |-> on, token |-> IF on THEN ks.tokens[ks.pos] ELSE None]

Current == Request(view, HasPrimaryKey, keyset)

(* loadData up to its await, for each of a sequence of requests. *)
LoadData(rest, reqs) ==
  /\ sent + Len(reqs) <= MaxLoads /\ sent' = sent + Len(reqs)
  /\ calls' = rest \cup {[api |-> "tableData", n |-> sent + i, req |-> reqs[i]] :
                           i \in DOMAIN reqs}
  /\ IF reqs = <<>> THEN UNCHANGED <<loading, error>>
     ELSE loading' = TRUE /\ error' = FALSE

(* On mount the view state is read twice, and the second reading replaces  *)
(* the filter lists by equal ones: two loads start.                        *)
PagesInit ==
  /\ structure = "none"
  /\ \E mode \in {"offset", "keyset"} :
       view = [page |-> 0, pageSize |-> DefaultSize, orderBy |-> <<>>, filters |-> None,
               quickFilters |-> None, search |-> None, pageMode |-> mode]
  /\ keyset = Start
  /\ data = None /\ loading = TRUE /\ error = FALSE
  /\ calls = {[api |-> "tableStructure", n |-> 0]} \cup
             {[api |-> "tableData", n |-> i, req |-> Request(view, FALSE, Start)] : i \in 1..2}
  /\ sent = 2 /\ overtaken = FALSE

-----------------------------------------------------------------------------
(* The effects that follow a change of the view state. The load effect     *)
(* runs before the one that resets the keyset position, so that a change   *)
(* on a later keyset page loads twice: with the old token, then without.   *)
(* "fresh" says that a filter list was replaced, even by an equal one.     *)

ResetDeps(v) == <<v.filters, v.quickFilters, v.search, v.orderBy, v.pageSize, v.pageMode>>

(* Mutant: the keyset position survives a new search. *)
KeepKeysetOnSearch(v, ks, fresh) ==
  IF fresh \/ ResetDeps(v) # ResetDeps([view EXCEPT !.search = v.search]) THEN Start ELSE ks

ResetKeyset(v, ks, fresh) == IF fresh \/ ResetDeps(v) # ResetDeps(view) THEN Start ELSE ks

(* Mutant: the load effect does not depend on the keyset token. *)
LoadsIgnoreToken(v, keyed, ks, fresh) ==
  LET req == Request(v, keyed, ks)
  IN IF fresh \/ [req EXCEPT !.token = None] # [Current EXCEPT !.token = None]
     THEN <<req>> ELSE <<>>

LoadsOf(v, keyed, ks, fresh) ==
  LET first  == Request(v, keyed, ks)
      second == Request(v, keyed, ResetKeyset(v, ks, fresh))
  IN (IF fresh \/ first # Current THEN <<first>> ELSE <<>>) \o
     (IF second # first THEN <<second>> ELSE <<>>)

Change(v, keyed, ks, fresh, rest) ==
  /\ view' = v /\ keyset' = ResetKeyset(v, ks, fresh)
  /\ LoadData(rest, LoadsOf(v, keyed, ks, fresh))

ViewChange(v, fresh) ==
  /\ Change(v, HasPrimaryKey, keyset, fresh, calls)
  /\ UNCHANGED <<structure, data, overtaken>>

GridUp == data # None /\ ~error

(* The order a click on a header makes of the present one. *)
ToggleSort(entries, column, additive) ==
  LET at  == {i \in DOMAIN entries : entries[i].column = column}
      up  == [column |-> column, desc |-> FALSE]
      down == [column |-> column, desc |-> TRUE]
      rising == \E i \in at : ~entries[i].desc
  IN CASE at = {}              -> IF additive THEN Append(entries, up) ELSE <<up>>
       [] at # {} /\ ~additive -> IF rising THEN <<down>> ELSE <<>>
       [] at # {} /\ additive  ->
            IF rising THEN [i \in DOMAIN entries |-> IF i \in at THEN down ELSE entries[i]]
            ELSE SelectSeq(entries, LAMBDA e : e.column # column)

Sort(column, additive) ==
  /\ GridUp
  /\ ViewChange([view EXCEPT !.orderBy = ToggleSort(@, column, additive),
                             !.pageMode = "offset", !.page = 0], FALSE)

(* The filter bar, or a foreign key that another tab followed to here. *)
ApplyFilters(f) == ViewChange([view EXCEPT !.filters = f, !.page = 0], TRUE)

QuickFilter(f) ==
  /\ GridUp
  /\ ViewChange([view EXCEPT !.quickFilters = f, !.page = 0], TRUE)

ClearFilters ==
  /\ GridUp
  /\ view.filters # None \/ view.quickFilters # None
  /\ ViewChange([view EXCEPT !.filters = None, !.quickFilters = None, !.page = 0], TRUE)

SearchFor(w) == ViewChange([view EXCEPT !.search = w, !.page = 0], FALSE)

PickPageSize(s) ==
  /\ s # view.pageSize
  /\ ViewChange([view EXCEPT !.pageSize = s, !.page = 0], FALSE)

PickPageMode(m) ==
  /\ m # view.pageMode
  /\ m = "keyset" => HasPrimaryKey
  /\ ViewChange([view EXCEPT !.pageMode = m, !.page = 0], FALSE)

(* A saved view is applied. *)
ApplyTableView(saved) ==
  ViewChange([view EXCEPT !.orderBy = saved.orderBy, !.filters = saved.filters,
                          !.quickFilters = saved.quickFilters, !.pageSize = saved.pageSize,
                          !.pageMode = "offset", !.page = 0], TRUE)

OffsetButtons == view.pageMode = "offset" /\ ~loading

PreviousPage ==
  /\ OffsetButtons /\ view.page > 0
  /\ ViewChange([view EXCEPT !.page = @ - 1], FALSE)

NextPage ==
  /\ OffsetButtons /\ data # None /\ view.page < data.last
  /\ ViewChange([view EXCEPT !.page = @ + 1], FALSE)

KeysetButtons == view.pageMode = "keyset" /\ ~loading

KeysetStep(ks, v) ==
  /\ KeysetButtons
  /\ Change(v, HasPrimaryKey, ks, FALSE, calls)
  /\ UNCHANGED <<structure, data, overtaken>>

PreviousKeyset ==
  /\ keyset.pos > 1
  /\ KeysetStep([keyset EXCEPT !.pos = @ - 1], [view EXCEPT !.page = 0])

PushToken(token) ==
  [tokens |-> Append(SubSeq(keyset.tokens, 1, keyset.pos), token), pos |-> keyset.pos + 1]

NextKeyset ==
  /\ data # None /\ data.next # None
  /\ Len(keyset.tokens) < MaxLoads
  /\ KeysetStep(PushToken(data.next), view)

-----------------------------------------------------------------------------
(* Loads and what starts them again *)

Refresh ==
  /\ ~loading
  /\ LoadData(calls, <<Current>>)
  /\ UNCHANGED <<structure, view, keyset, data, overtaken>>

(* refreshAll, after a change made in the structure view. *)
RefreshAll ==
  /\ structure # "none"
  /\ LoadData(calls \cup {[api |-> "tableStructure", n |-> 0]}, <<Current>>)
  /\ UNCHANGED <<structure, view, keyset, data, overtaken>>

(* A primary key that appears turns a restored keyset mode on. *)
StructureArrives(s) ==
  \E k \in Pending("tableStructure") :
    /\ structure' = s
    /\ Change(view, s = "keyed", keyset, FALSE, calls \ {k})
    /\ UNCHANGED <<data, overtaken>>

AfterLoad(k) ==
  /\ loading' = FALSE
  /\ calls' = calls \ {k}
  /\ overtaken' = (overtaken \/ \E l \in Pending("tableData") : l.n < k.n)
  /\ UNCHANGED <<structure, view, keyset, sent>>

LoadAnswers(k, a) ==
  /\ k \in Pending("tableData")
  /\ data' = [last |-> a.last, next |-> IF k.req.keyset THEN a.next ELSE None,
              req |-> k.req]
  /\ UNCHANGED error
  /\ AfterLoad(k)

LoadFails(k) ==
  /\ k \in Pending("tableData")
  /\ error' = TRUE
  /\ UNCHANGED data
  /\ AfterLoad(k)

(* Any write: a commit of the batch, an insert, a paste or a delete. "back"*)
(* says that it deletes all rows of a page that is not the first.          *)
Write(back) ==
  /\ GridUp /\ (back => view.page > 0)
  /\ sent < MaxLoads /\ sent' = sent + 1
  /\ calls' = calls \cup {[api |-> "write", n |-> sent + 1, req |-> Current, back |-> back]}
  /\ UNCHANGED <<structure, view, keyset, data, loading, error, overtaken>>

(* Afterwards the page of the closure is loaded again, or the tab steps    *)
(* back one page from wherever it is by then.                              *)
WriteSucceeds(k) ==
  /\ k \in Pending("write")
  /\ IF k.back
     THEN /\ Change([view EXCEPT !.page = @ - 1], HasPrimaryKey, keyset, FALSE, calls \ {k})
          /\ UNCHANGED overtaken
     ELSE /\ LoadData(calls \ {k}, <<k.req>>)
          /\ overtaken' = (overtaken \/ k.req # Current)
          /\ UNCHANGED <<view, keyset>>
  /\ UNCHANGED <<structure, data>>

WriteFails(k) ==
  /\ k \in Pending("write") /\ calls' = calls \ {k}
  /\ UNCHANGED <<structure, view, keyset, data, loading, error, sent, overtaken>>

PagesNext ==
  \/ \E c \in Sortable, additive \in BOOLEAN : Sort(c, additive)
  \/ \E f \in Filters \cup {None} : ApplyFilters(f) \/ QuickFilter(f)
  \/ ClearFilters
  \/ \E w \in Words \cup {None} : SearchFor(w)
  \/ \E s \in Sizes : PickPageSize(s)
  \/ \E m \in {"offset", "keyset"} : PickPageMode(m)
  \/ \E saved \in SavedViews : ApplyTableView(saved)
  \/ PreviousPage \/ NextPage \/ PreviousKeyset \/ NextKeyset
  \/ Refresh \/ RefreshAll
  \/ \E s \in {"keyed", "keyless"} : StructureArrives(s)
  \/ \E back \in BOOLEAN : Write(back)
  \/ \E k \in calls :
       \/ \E a \in Answers : LoadAnswers(k, a)
       \/ LoadFails(k) \/ WriteSucceeds(k) \/ WriteFails(k)

PagesSpec == PagesInit /\ [][PagesNext]_pagesVars

-----------------------------------------------------------------------------
(* Properties *)

(* When nothing is in flight the page shown is the one the controls ask    *)
(* for, unless an answer came out of turn: the load effect depends on all  *)
(* it should, through sorts, filters, page modes and keyset positions.     *)
ShownIsAskedFor ==
  (calls = {} /\ GridUp /\ ~overtaken) => data.req = Current

(* A step that changes what is searched for, sorted by or how much fits on *)
(* a page leaves the keyset position at the first page.                    *)
NewSearchStartsOver ==
  [][ResetDeps(view') # ResetDeps(view) => keyset'.pos = 1]_pagesVars

=============================================================================
