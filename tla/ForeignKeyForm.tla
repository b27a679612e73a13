--------------------------- MODULE ForeignKeyForm ---------------------------
(***************************************************************************)
(* The form of a new foreign key,                                          *)
(* frontend/src/components/ForeignKeyDialog.tsx: a database is picked, one *)
(* of its tables and one of its columns, each from a list that is asked    *)
(* for when the pick before it changes and replaced when it is answered.   *)
(*                                                                         *)
(* Abstractions.                                                           *)
(*  - A table has one column, named by the table; the referencing column,  *)
(*    the name, the actions and the list of databases, which nothing else  *)
(*    depends on, are left out.                                            *)
(*  - The call that adds the key, and the flag that it is on its way, are  *)
(*    those of module StructureView.                                       *)
(*  - MaxRefLists bounds the calls of each kind in flight.                 *)
(***************************************************************************)
EXTENDS Calls

CONSTANTS RefDatabases, RefTables(_), HomeDatabase, NoRef, MaxRefLists

VARIABLES
  refOpen,                          \* the form is open
  refDatabase, refTable, refColumn, \* the picks; a column is its table, in its database
  tablesOf, columnsOf,              \* what the lists shown are of
  refCalls,                         \* listTables and tableStructure calls: [n, kind, of]
  refCrossed,                       \* history: kinds whose last call was not alone
  guessed                           \* history: a pick was made before the list of what
                                    \* precedes it had come

refVars == <<refOpen, refDatabase, refTable, refColumn, tablesOf, columnsOf, refCalls,
             refCrossed, guessed>>

OnTheirWay(kind) == {c \in refCalls : c.kind = kind}

(* What the effects ask for: of each kind, the things in "asked". *)
AskForLists(asked) ==
  LET of(kind) == {a \in asked : a.kind = kind}
      kinds == {a.kind : a \in asked}
      Calls(kind) == OnTheirWay(kind) \cup of(kind)
  IN /\ \A k \in kinds : Cardinality(OnTheirWay(k)) + Cardinality(of(k)) <= MaxRefLists
     /\ refCalls' = refCalls \cup
          {[n |-> FreeNumber({c \in refCalls : c.kind = a.kind /\ c.of = a.of}, MaxRefLists),
            kind |-> a.kind, of |-> a.of] : a \in asked}
     /\ refCrossed' = (refCrossed \ kinds) \cup
          {k \in kinds : Cardinality(of(k)) > 1 \/ OnTheirWay(k) # {}}

TableList(d) == [kind |-> "tables", of |-> <<d>>]
ColumnList(d, t) == [kind |-> "columns", of |-> <<d, t>>]

RefInit ==
  /\ refOpen = FALSE /\ refDatabase = HomeDatabase
  /\ refTable = NoRef /\ refColumn = NoRef /\ tablesOf = NoRef /\ columnsOf = NoRef
  /\ refCalls = {} /\ refCrossed = {} /\ guessed = FALSE

(* The reset effect; the lists of the picks before it are asked for by the *)
(* other two, which run in the same commit, and again for those after it.  *)
OpenRefForm ==
  /\ ~refOpen /\ refOpen' = TRUE
  /\ AskForLists({TableList(refDatabase), TableList(HomeDatabase)}
                   \cup {c \in {ColumnList(refDatabase, refTable)} : refTable # NoRef})
  /\ refDatabase' = HomeDatabase /\ refTable' = NoRef /\ refColumn' = NoRef
  /\ tablesOf' = NoRef /\ columnsOf' = NoRef
  /\ guessed' = FALSE

CloseRefForm ==
  /\ refOpen /\ refOpen' = FALSE
  /\ UNCHANGED <<refDatabase, refTable, refColumn, tablesOf, columnsOf, refCalls, refCrossed,
                 guessed>>

(* The structure is read again while the form is open: it is reset, and    *)
(* its list of tables asked for only if the database changes with that.    *)
StructureReadAgain ==
  /\ refOpen
  /\ AskForLists({c \in {TableList(HomeDatabase)} : refDatabase # HomeDatabase})
  /\ refDatabase' = HomeDatabase /\ refTable' = NoRef /\ refColumn' = NoRef
  /\ tablesOf' = NoRef /\ columnsOf' = NoRef /\ guessed' = FALSE
  /\ UNCHANGED refOpen

(* Mutant: the table picked stays. *)
PickDatabaseOnly(d) ==
  /\ refOpen /\ d # refDatabase
  /\ AskForLists({TableList(d)} \cup {c \in {ColumnList(d, refTable)} : refTable # NoRef})
  /\ refDatabase' = d /\ refColumn' = NoRef
  /\ UNCHANGED <<refOpen, refTable, tablesOf, columnsOf, guessed>>

PickDatabase(d) ==
  /\ refOpen /\ d # refDatabase
  /\ AskForLists({TableList(d)})
  /\ refDatabase' = d /\ refTable' = NoRef /\ refColumn' = NoRef /\ columnsOf' = NoRef
  /\ guessed' = FALSE
  /\ UNCHANGED <<refOpen, tablesOf>>

(* From the list shown, be it that of the database picked before. *)
PickTable(t) ==
  /\ refOpen /\ tablesOf # NoRef /\ t \in RefTables(tablesOf) \ {refTable}
  /\ AskForLists({ColumnList(refDatabase, t)})
  /\ refTable' = t /\ refColumn' = NoRef
  /\ guessed' = (OnTheirWay("tables") # {})
  /\ UNCHANGED <<refOpen, refDatabase, tablesOf, columnsOf>>

PickColumn ==
  /\ refOpen /\ columnsOf # NoRef /\ refColumn # columnsOf
  /\ refColumn' = columnsOf
  /\ guessed' = (guessed \/ OnTheirWay("columns") # {})
  /\ UNCHANGED <<refOpen, refDatabase, refTable, tablesOf, columnsOf, refCalls, refCrossed>>

-----------------------------------------------------------------------------
TablesCome(c) ==
  /\ c.kind = "tables" /\ refCalls' = refCalls \ {c} /\ tablesOf' = c.of[1]
  /\ UNCHANGED <<refOpen, refDatabase, refTable, refColumn, columnsOf, refCrossed, guessed>>

ColumnsCome(c) ==
  /\ c.kind = "columns" /\ c.of[2] \in RefTables(c.of[1])
  /\ refCalls' = refCalls \ {c} /\ columnsOf' = c.of
  /\ UNCHANGED <<refOpen, refDatabase, refTable, refColumn, tablesOf, refCrossed, guessed>>

ListFailsToCome(c) ==
  /\ refCalls' = refCalls \ {c}
  /\ tablesOf' = IF c.kind = "tables" THEN NoRef ELSE tablesOf
  /\ columnsOf' = IF c.kind = "columns" THEN NoRef ELSE columnsOf
  /\ UNCHANGED <<refOpen, refDatabase, refTable, refColumn, refCrossed, guessed>>

RefNext ==
  \/ OpenRefForm \/ CloseRefForm \/ StructureReadAgain \/ PickColumn
  \/ \E d \in RefDatabases : PickDatabase(d)
  \/ \E t \in UNION {RefTables(d) : d \in RefDatabases} : PickTable(t)
  \/ \E c \in refCalls : TablesCome(c) \/ ColumnsCome(c) \/ ListFailsToCome(c)

RefSpec == RefInit /\ [][RefNext]_refVars

-----------------------------------------------------------------------------
(* Properties *)

(* The key that would be added refers to a table of the database picked    *)
(* and a column of that table, however the picks are changed, the form     *)
(* closed and opened and the structure read again meanwhile; unless lists  *)
(* of a kind overlapped, or a pick was made from a list that another was   *)
(* on its way to replace.                                                  *)
RefersToWhatIsThere ==
  (refOpen /\ refTable # NoRef /\ ~guessed /\ refCrossed = {}) =>
    refTable \in RefTables(refDatabase) /\ refColumn \in {NoRef, <<refDatabase, refTable>>}
=============================================================================
