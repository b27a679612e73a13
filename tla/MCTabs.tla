------------------------------- MODULE MCTabs -------------------------------
(***************************************************************************)
(* The query tab and the table tab for TLC. Their modules share no         *)
(* variable, so their state spaces are searched side by side and not       *)
(* multiplied: "part" says which one moves, and the others stay where they *)
(* start. The grid's rows, cells and filters share none either, but for    *)
(* the row count. The saved columns are one part with writes that fail and *)
(* other windows that write; the part with ranges has writes that succeed. *)
(*                                                                         *)
(* The query tab's script is a SELECT followed by a DELETE without WHERE;  *)
(* its text with placeholders becomes such a DELETE.                       *)
(***************************************************************************)
EXTENDS QueryTab, TablePages, TableEdits, DataGrid

CONSTANTS select, update, wipe, params, script

MCTexts == {select, update, wipe, params, script}
MCKind == [t \in MCTexts |->
  CASE t = wipe -> "wipe" [] t = update -> "write" [] OTHER -> "select"]
MCStatements == [t \in MCTexts |-> IF t = script THEN {select, wipe} ELSE {t}]
MCExpand  == [t \in {params} |-> wipe]
MCTable   == [t \in MCTexts |-> IF t = select THEN "users" ELSE Nothing]
MCResultColumns == [t \in MCTexts |-> IF t \in {select, script} THEN "users" ELSE "none"]

MCAnswers == {[last |-> 1, next |-> "t1"], [last |-> 0, next |-> None]}
MCSavedViews == {[orderBy |-> <<[column |-> "a", desc |-> TRUE]>>, filters |-> None,
                  quickFilters |-> CHOOSE f \in Filters : TRUE, pageSize |-> DefaultSize]}
MCOthersPrefs == {[DefaultPrefs EXCEPT !.hidden = {1}]}
MCPagesOfRows == {<<"k1", "k2">>, <<>>}

VARIABLE part

tabVars == <<part, queryVars, pagesVars, editsVars, gridVars>>

TabInit ==
  /\ part \in {"query", "pages", "edits", "rows", "cells", "columns", "filters"}
  /\ QueryInit
  /\ part # "query" => connectionId = (CHOOSE c \in Connections : TRUE) /\ database = Nothing
  /\ PagesInit /\ (part # "pages" => view.pageMode = "offset")
  /\ EditsInit /\ (part # "edits" => keyed /\ rows = <<>>)
  /\ GridInit /\ (part \notin {"rows", "cells"} => gridRows = CHOOSE n \in RowCounts : TRUE)

TabNext ==
  /\ UNCHANGED part
  /\ \/ part = "query"   /\ QueryNext   /\ UNCHANGED <<pagesVars, editsVars, gridVars>>
     \/ part = "pages"   /\ PagesNext   /\ UNCHANGED <<queryVars, editsVars, gridVars>>
     \/ part = "edits"   /\ EditsNext   /\ UNCHANGED <<queryVars, pagesVars, gridVars>>
     \/ part = "rows"    /\ RowsNext    /\ UNCHANGED <<queryVars, pagesVars, editsVars>>
     \/ part = "cells"   /\ CellsNext   /\ ~unsaved' /\ UNCHANGED <<queryVars, pagesVars, editsVars>>
     \/ part = "columns" /\ StorageNext /\ UNCHANGED <<queryVars, pagesVars, editsVars>>
     \/ part = "filters" /\ FiltersNext /\ UNCHANGED <<queryVars, pagesVars, editsVars>>

TabSpec == TabInit /\ [][TabNext]_tabVars
=============================================================================
