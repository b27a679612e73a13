------------------------------ MODULE QueryTab ------------------------------
(***************************************************************************)
(* The query tab: frontend/src/components/QueryTab.tsx with the dialogs it *)
(* opens.                                                                  *)
(*                                                                         *)
(* An api call is an element of "inFlight" that carries the arguments its  *)
(* handler captured; its .then, .catch and finally blocks are the actions  *)
(* that take it out again, in any order. A handler that returned early is  *)
(* a disabled action. A modal dialog covers the toolbar and the editor.    *)
(*                                                                         *)
(* Abstractions.                                                           *)
(*  - The editor's text is an input: any text may be there when the user   *)
(*    asks for a run. A text is a value. Kind says how it starts, which is *)
(*    all the anchored regular expressions look at; Statements is what the *)
(*    server will execute; Expand is defined on texts with placeholders;   *)
(*    Table is what parseEditableQuery makes of it, ResultColumns what     *)
(*    columns its result has.                                              *)
(*  - A result is the text it answers and where that ran. Its rows, the    *)
(*    selection, the exports and the chart change nothing else.            *)
(*  - An effect runs with the change that triggers it. The tableStructure  *)
(*    answer of an effect that was cleaned up is ignored by the code, so   *)
(*    its call leaves inFlight with the clean-up.                          *)
(*  - loadMore is defined and never called by the component.               *)
(*  - MaxCalls bounds the calls the user makes; they also number the runs. *)
(***************************************************************************)
EXTENDS Naturals, FiniteSets

CONSTANTS
  Connections,  \* ids of saved connections
  ReadOnly,     \* those with the read-only flag
  Databases,    \* database names
  Texts,        \* what the editor or a file may hold
  Kind,         \* text -> how it starts
  Statements,   \* text -> the statements it holds
  Expand,       \* text with placeholders -> the text applyParams makes of it
  Table,        \* text -> its table when it is a plain single-table SELECT
  ResultColumns, \* text -> the columns of its result
  Files,        \* texts a .sql file may hold
  MaxCalls,     \* bound on the calls that run, estimate or change something
  Nothing

ASSUME NamesAssumption ==
  /\ Nothing \notin Connections \cup Databases \cup Texts \cup Nat
  /\ ReadOnly \subseteq Connections
ASSUME TextsAssumption ==
  /\ DOMAIN Expand \subseteq Texts /\ Files \subseteq Texts
  /\ \A t \in DOMAIN Expand : Expand[t] \in Texts \ DOMAIN Expand
  /\ \A t \in Texts : Statements[t] \subseteq Texts
ASSUME BoundsAssumption == MaxCalls \in Nat

HasParams(t)   == t \in DOMAIN Expand
StartsWrite(t) == Kind[t] \in {"write", "wipe"}   \* UPDATE or DELETE
Risky(t)       == Kind[t] \in {"wipe", "drop"}    \* assessSQLRisk finds something

VARIABLES
  conns,         \* the connections prop
  connectionId, database,
  lastRunSql,
  result,        \* what is shown, Nothing for nothing
  editTarget,    \* where cell edits go, Nothing when the result is read-only
  failed,        \* an error is shown
  lastFailed,    \* what Retry would run
  running, activeRunId, canceledRef,
  callsMade,     \* calls made so far
  inTransaction,
  paramRequest,  \* text the parameter dialog is open for
  riskRequest,   \* text and spinner of the risk dialog
  inFlight,      \* api calls in flight
  vetted         \* history: texts confirmed in a dialog or cleared by EXPLAIN

queryVars == <<conns, connectionId, database, lastRunSql, result, editTarget,
              failed, lastFailed, running, activeRunId, canceledRef, callsMade,
              inTransaction, paramRequest, riskRequest, inFlight, vetted>>

place   == <<conns, connectionId, database>>
runner  == <<running, activeRunId, canceledRef>>
shown   == <<result, failed, lastFailed>>
dialogs == <<paramRequest, riskRequest>>

Send == callsMade < MaxCalls /\ callsMade' = callsMade + 1

Awaiting(api) == {k \in inFlight : k.api = api}
NoDialog == paramRequest = Nothing /\ riskRequest = Nothing

QueryInit ==
  /\ conns = Connections
  /\ connectionId \in Connections /\ database \in Databases \cup {Nothing}
  /\ lastRunSql = Nothing
  /\ result = Nothing /\ editTarget = Nothing /\ failed = FALSE /\ lastFailed = Nothing
  /\ running = FALSE /\ activeRunId = Nothing /\ canceledRef = FALSE /\ callsMade = 0
  /\ inTransaction = FALSE
  /\ paramRequest = Nothing /\ riskRequest = Nothing
  /\ inFlight = {} /\ vetted = {}

-----------------------------------------------------------------------------
(* The edit-target effect. parseEditableQuery fills in the tab's database; *)
(* the effect runs again only when one of Deps changed.                    *)

ParseEditable(t, d) ==
  IF t = Nothing \/ d = Nothing THEN Nothing
  ELSE IF Table[t] = Nothing THEN Nothing ELSE [d |-> d, table |-> Table[t]]

Deps == <<connectionId \in conns, connectionId, database, lastRunSql,
          result # Nothing, IF result = Nothing THEN Nothing ELSE ResultColumns[result.text]>>

EditCandidate ==
  IF /\ connectionId \in conns \ ReadOnly
     /\ result # Nothing
  THEN ParseEditable(lastRunSql, database)
  ELSE Nothing

(* Mutant: no cancelled flag in the effect's clean-up. *)
DetectWithoutCleanUp(rest, target) ==
  IF Deps' = Deps
  THEN editTarget' = target /\ inFlight' = rest
  ELSE /\ editTarget' = Nothing
       /\ inFlight' = rest \cup
            (IF EditCandidate' = Nothing THEN {}
             ELSE {[api |-> "tableStructure", d |-> EditCandidate'.d,
                    table |-> EditCandidate'.table]})

DetectEditTarget(rest, target) ==
  IF Deps' = Deps
  THEN editTarget' = target /\ inFlight' = rest
  ELSE /\ editTarget' = Nothing
       /\ inFlight' = {k \in rest : k.api # "tableStructure"} \cup
            (IF EditCandidate' = Nothing THEN {}
             ELSE {[api |-> "tableStructure", d |-> EditCandidate'.d,
                    table |-> EditCandidate'.table]})

(* The structure arrived: editable when it is a base table whose primary   *)
(* key is among the result's columns and some other column may be edited.  *)
StructureAnswers(k) ==
  /\ k \in Awaiting("tableStructure")
  /\ \/ editTarget' = [d |-> k.d, table |-> k.table]
     \/ UNCHANGED editTarget
  /\ inFlight' = inFlight \ {k}
  /\ UNCHANGED <<place, lastRunSql, shown, runner, inTransaction, dialogs, callsMade, vetted>>

-----------------------------------------------------------------------------
(* Choosing where and what to run *)

InTransactionReset(moved) == inTransaction' = (inTransaction /\ ~moved)

PickConnection(c) ==
  /\ NoDialog /\ c \in conns /\ c # connectionId
  /\ connectionId' = c /\ database' = Nothing
  /\ InTransactionReset(TRUE)
  /\ UNCHANGED <<conns, lastRunSql, shown, runner, dialogs, callsMade, vetted>>
  /\ DetectEditTarget(inFlight, editTarget)

PickDatabase(d) ==
  /\ NoDialog /\ d # database
  /\ database' = d
  /\ InTransactionReset(TRUE)
  /\ UNCHANGED <<conns, connectionId, lastRunSql, shown, runner,
                 dialogs, callsMade, vetted>>
  /\ DetectEditTarget(inFlight, editTarget)

(* A connection is deleted elsewhere: the tab moves to the first one left. *)
ConnectionGone(c) ==
  /\ c \in conns /\ conns # {c}
  /\ conns' = conns \ {c}
  /\ IF connectionId = c
     THEN connectionId' \in conns' /\ database' = Nothing /\ InTransactionReset(TRUE)
     ELSE UNCHANGED <<connectionId, database, inTransaction>>
  /\ UNCHANGED <<lastRunSql, shown, runner, dialogs, callsMade, vetted>>
  /\ DetectEditTarget(inFlight, editTarget)

Clear ==
  /\ NoDialog
  /\ result' = Nothing /\ failed' = FALSE
  /\ UNCHANGED <<place, lastRunSql, lastFailed, runner, inTransaction, dialogs, callsMade,
                 vetted>>
  /\ DetectEditTarget(inFlight, editTarget)

-----------------------------------------------------------------------------
(* Running a query *)

(* runRaw up to its await, with the connection and database its closure    *)
(* captured. "rest" is what else is in flight.                             *)
RunRaw(t, c, d, rest) ==
  /\ Send
  /\ canceledRef' = FALSE
  /\ activeRunId' = callsMade'
  /\ running' = TRUE
  /\ failed' = FALSE
  /\ editTarget' = Nothing
  /\ inFlight' = rest \cup
       {[api |-> "runQuery", run |-> callsMade', c |-> c, d |-> d, text |-> t]}

Estimate(t, dialog) ==
  [api |-> "estimateQuery", c |-> connectionId, d |-> database, text |-> t, dialog |-> dialog]

(* assessAndRun: what comes of a text the user asked to run. *)
AskParams(t) ==
  /\ HasParams(t)
  /\ paramRequest' = t
  /\ UNCHANGED <<riskRequest, failed, editTarget, runner, callsMade, inFlight>>

AskRisk(t) ==
  /\ ~HasParams(t) /\ Risky(t)
  /\ IF StartsWrite(t) THEN Send ELSE UNCHANGED callsMade
  /\ riskRequest' = [text |-> t, estimating |-> StartsWrite(t)]
  /\ inFlight' = inFlight \cup (IF StartsWrite(t) THEN {Estimate(t, TRUE)} ELSE {})
  /\ UNCHANGED <<failed, editTarget, runner>>

AskEstimate(t) ==
  /\ ~HasParams(t) /\ ~Risky(t) /\ StartsWrite(t)
  /\ Send
  /\ inFlight' = inFlight \cup {Estimate(t, FALSE)}
  /\ UNCHANGED <<riskRequest, failed, editTarget, runner>>

RunAtOnce(t) ==
  /\ ~HasParams(t) /\ ~Risky(t) /\ ~StartsWrite(t)
  /\ RunRaw(t, connectionId, database, inFlight)
  /\ UNCHANGED riskRequest

AssessAndRun(t) ==
  \/ AskParams(t)
  \/ (AskRisk(t) \/ AskEstimate(t) \/ RunAtOnce(t)) /\ UNCHANGED paramRequest

(* txBusy is set while a command of the transaction menu is in flight,     *)
(* txRunning while runTransaction is.                                      *)
txBusy == Awaiting("command") # {}

ToolbarIdle == NoDialog /\ ~running /\ ~txBusy

(* run: the selection, the statement at the caret or the whole editor, as  *)
(* the editor's shortcut asks for it: it has no guard on a run in progress.*)
Run(t) ==
  /\ NoDialog
  /\ AssessAndRun(t)
  /\ UNCHANGED <<place, lastRunSql, result, lastFailed, inTransaction, vetted>>

(* Mutant: the expanded text is run, not assessed again. *)
ParamsRunRaw ==
  /\ paramRequest # Nothing
  /\ paramRequest' = Nothing
  /\ RunRaw(Expand[paramRequest], connectionId, database, inFlight)
  /\ UNCHANGED <<place, lastRunSql, result, lastFailed, inTransaction, riskRequest, vetted>>

ParamsRun ==
  /\ paramRequest # Nothing
  /\ paramRequest' = Nothing
  /\ \/ AskRisk(Expand[paramRequest])
     \/ AskEstimate(Expand[paramRequest])
     \/ RunAtOnce(Expand[paramRequest])
  /\ UNCHANGED <<place, lastRunSql, result, lastFailed, inTransaction, vetted>>

ParamsClose ==
  /\ paramRequest # Nothing
  /\ paramRequest' = Nothing
  /\ UNCHANGED <<place, lastRunSql, shown, editTarget, runner, inTransaction, riskRequest,
                 inFlight, callsMade, vetted>>

(* EXPLAIN answered before anything was sent: above the threshold the risk *)
(* dialog opens over whatever is there; below it, or on failure, the text  *)
(* runs where it was asked for.                                            *)
EstimateAnswers(k, big) ==
  /\ k \in Awaiting("estimateQuery") /\ ~k.dialog
  /\ IF big
     THEN /\ riskRequest' = [text |-> k.text, estimating |-> FALSE]
          /\ inFlight' = inFlight \ {k}
          /\ UNCHANGED <<failed, editTarget, runner, callsMade, vetted>>
     ELSE /\ RunRaw(k.text, k.c, k.d, inFlight \ {k})
          /\ vetted' = vetted \cup {k.text}
          /\ UNCHANGED riskRequest
  /\ UNCHANGED <<place, lastRunSql, result, lastFailed, inTransaction, paramRequest>>

(* It answers a risk dialog: whichever request is open takes the figure. *)
EstimateForDialog(k) ==
  /\ k \in Awaiting("estimateQuery") /\ k.dialog
  /\ riskRequest' = IF riskRequest = Nothing THEN Nothing
                    ELSE [riskRequest EXCEPT !.estimating = FALSE]
  /\ inFlight' = inFlight \ {k}
  /\ UNCHANGED <<place, lastRunSql, shown, editTarget, runner, inTransaction, paramRequest,
                 callsMade, vetted>>

RiskRun ==
  /\ riskRequest # Nothing
  /\ riskRequest' = Nothing
  /\ vetted' = vetted \cup {riskRequest.text}
  /\ RunRaw(riskRequest.text, connectionId, database, inFlight)
  /\ UNCHANGED <<place, lastRunSql, result, lastFailed, inTransaction, paramRequest>>

RiskCancel ==
  /\ riskRequest # Nothing
  /\ riskRequest' = Nothing
  /\ UNCHANGED <<place, lastRunSql, shown, editTarget, runner, inTransaction, paramRequest,
                 inFlight, callsMade, vetted>>

RunSucceeds(k) ==
  /\ k \in Awaiting("runQuery")
  /\ result' = [text |-> k.text, c |-> k.c, d |-> k.d]
  /\ lastRunSql' = k.text
  /\ lastFailed' = Nothing
  /\ inTransaction' = CASE Kind[k.text] = "begin" -> TRUE
                        [] Kind[k.text] = "end" -> FALSE
                        [] OTHER -> inTransaction
  /\ activeRunId' = Nothing /\ running' = FALSE
  /\ UNCHANGED <<place, failed, canceledRef, dialogs, callsMade, vetted>>
  /\ DetectEditTarget(inFlight \ {k}, editTarget)

(* Mutant: the catch block does the work of finally, but for the run id. *)
RunFailsHalf(k) ==
  /\ k \in Awaiting("runQuery")
  /\ result' = Nothing /\ failed' = TRUE
  /\ inTransaction' = (inTransaction /\ ~canceledRef)
  /\ lastFailed' = IF canceledRef THEN lastFailed ELSE k.text
  /\ running' = FALSE
  /\ UNCHANGED <<place, lastRunSql, activeRunId, canceledRef, dialogs, callsMade, vetted>>
  /\ DetectEditTarget(inFlight \ {k}, editTarget)

RunFails(k) ==
  /\ k \in Awaiting("runQuery")
  /\ result' = Nothing /\ failed' = TRUE
  /\ inTransaction' = (inTransaction /\ ~canceledRef)
  /\ lastFailed' = IF canceledRef THEN lastFailed ELSE k.text
  /\ activeRunId' = Nothing /\ running' = FALSE
  /\ UNCHANGED <<place, lastRunSql, canceledRef, dialogs, callsMade, vetted>>
  /\ DetectEditTarget(inFlight \ {k}, editTarget)

(* The button is there while a run is known; the server may or may not     *)
(* still stop it.                                                          *)
CancelOffered == NoDialog /\ running /\ activeRunId # Nothing

Cancel ==
  /\ CancelOffered /\ ~canceledRef
  /\ canceledRef' = TRUE
  /\ UNCHANGED <<place, lastRunSql, shown, editTarget, running, activeRunId, callsMade,
                 inTransaction, dialogs, inFlight, vetted>>

RetryOffered == NoDialog /\ failed /\ ~running /\ lastFailed # Nothing

Retry ==
  /\ RetryOffered
  /\ result' = Nothing
  /\ RunRaw(lastFailed, connectionId, database, inFlight \ Awaiting("tableStructure"))
  /\ UNCHANGED <<place, lastRunSql, lastFailed, inTransaction, dialogs, vetted>>

-----------------------------------------------------------------------------
(* The transaction menu and files *)

CommandOffered(command) ==
  ToolbarIdle /\ (inTransaction <=> command # "START TRANSACTION")

Transaction(command) ==
  /\ CommandOffered(command)
  /\ Send
  /\ inFlight' = inFlight \cup {[api |-> "command", text |-> command]}
  /\ UNCHANGED <<place, lastRunSql, shown, editTarget, runner, inTransaction,
                 dialogs, vetted>>

TransactionEnds(k, ok) ==
  /\ k \in Awaiting("command")
  /\ inTransaction' = IF ok THEN k.text = "START TRANSACTION" ELSE inTransaction
  /\ inFlight' = inFlight \ {k}
  /\ UNCHANGED <<place, lastRunSql, shown, editTarget, runner, dialogs, callsMade, vetted>>

(* runInTransaction asks window.confirm for a text assessSQLRisk flags. *)
RunInTransaction(t, all) ==
  /\ ToolbarIdle /\ t \in Statements[all] \cup {all}
  /\ vetted' = IF Risky(t) THEN vetted \cup {t} ELSE vetted
  /\ Send
  /\ inFlight' = inFlight \cup {[api |-> "runTransaction", text |-> t, all |-> all]}
  /\ UNCHANGED <<place, lastRunSql, shown, editTarget, runner, inTransaction,
                 dialogs>>

RunInTransactionEnds(k, committed) ==
  /\ k \in Awaiting("runTransaction")
  /\ lastRunSql' = IF committed THEN k.all ELSE lastRunSql
  /\ UNCHANGED <<place, shown, runner, inTransaction, dialogs, callsMade, vetted>>
  /\ DetectEditTarget(inFlight \ {k}, editTarget)

RunFile(t) ==
  /\ ToolbarIdle
  /\ running' = TRUE /\ failed' = FALSE
  /\ Send
  /\ inFlight' = inFlight \cup
       {[api |-> "runSQLFile", c |-> connectionId, d |-> database, text |-> t]}
  /\ UNCHANGED <<place, lastRunSql, result, lastFailed, editTarget, activeRunId,
                 canceledRef, inTransaction, dialogs, vetted>>

RunFileEnds(k, ok) ==
  /\ k \in Awaiting("runSQLFile")
  /\ result' = IF ok THEN [text |-> k.text, c |-> k.c, d |-> k.d] ELSE Nothing
  /\ failed' = IF ok THEN failed ELSE TRUE
  /\ running' = FALSE
  /\ UNCHANGED <<place, lastRunSql, lastFailed, activeRunId, canceledRef, callsMade,
                 inTransaction, dialogs, vetted>>
  /\ DetectEditTarget(inFlight \ {k}, editTarget)

-----------------------------------------------------------------------------
(* Editing a cell of the result *)

CellsEditable == NoDialog /\ editTarget # Nothing /\ result # Nothing /\ ~failed

UpdateResultCell ==
  /\ CellsEditable
  /\ Send
  /\ inFlight' = inFlight \cup {[api |-> "updateRow", c |-> connectionId,
                           d |-> editTarget.d, table |-> editTarget.table]}
  /\ UNCHANGED <<place, lastRunSql, shown, editTarget, runner, inTransaction, dialogs, vetted>>

(* Accepted or refused, only a cell's text changes. *)
UpdateAnswers(k) ==
  /\ k \in Awaiting("updateRow")
  /\ inFlight' = inFlight \ {k}
  /\ UNCHANGED <<place, lastRunSql, shown, editTarget, runner, inTransaction, dialogs,
                 callsMade, vetted>>

-----------------------------------------------------------------------------
Answer ==
  \E k \in inFlight :
    \/ StructureAnswers(k)
    \/ \E big \in BOOLEAN : EstimateAnswers(k, big)
    \/ EstimateForDialog(k)
    \/ RunSucceeds(k)
    \/ RunFails(k)
    \/ \E ok \in BOOLEAN :
         \/ TransactionEnds(k, ok)
         \/ RunInTransactionEnds(k, ok)
         \/ RunFileEnds(k, ok)
    \/ UpdateAnswers(k)

QueryNext ==
  \/ Answer
  \/ \E c \in Connections : PickConnection(c) \/ ConnectionGone(c)
  \/ \E d \in Databases \cup {Nothing} : PickDatabase(d)
  \/ Clear
  \/ \E t \in Texts : Run(t)
  \/ \E t \in Files : RunFile(t)
  \/ \E t, all \in Texts : RunInTransaction(t, all)
  \/ ParamsRun \/ ParamsClose
  \/ RiskRun \/ RiskCancel
  \/ Cancel \/ Retry
  \/ \E m \in {"START TRANSACTION", "COMMIT", "ROLLBACK"} : Transaction(m)
  \/ UpdateResultCell

QuerySpec == QueryInit /\ [][QueryNext]_queryVars

-----------------------------------------------------------------------------
(* Whatever path a text takes to the server (Run, Run all, the shortcut,   *)
(* the parameter dialog, Retry), its placeholders have been expanded, the  *)
(* user has confirmed it if assessSQLRisk flags it, in a transaction too,  *)
(* and an UPDATE or DELETE without a flag was confirmed or EXPLAIN put it  *)
(* below the threshold (or failed).                                        *)
SentIsVetted ==
  /\ \A k \in Awaiting("runQuery") :
       /\ ~HasParams(k.text)
       /\ Risky(k.text) \/ StartsWrite(k.text) => k.text \in vetted
  /\ \A k \in Awaiting("runTransaction") : Risky(k.text) => k.text \in vetted

(* An edit target is the one of the last executed text, for the connection *)
(* and database chosen now, never of a read-only or deleted connection,    *)
(* however late a structure answered.                                      *)
EditTargetIsCurrent ==
  editTarget # Nothing => editTarget = EditCandidate

(* The spinner turns only while a run or a file is on the server, and the  *)
(* Cancel button names a run that is.                                      *)
SpinnerIsHonest ==
  /\ running => Awaiting("runQuery") \cup Awaiting("runSQLFile") # {}
  /\ activeRunId # Nothing => \E k \in Awaiting("runQuery") : k.run = activeRunId

(* What keeps these: whatever may still be sent was asked for without      *)
(* placeholders, Retry has what was sent before, and the structures on     *)
(* their way are of the candidate of now.                                  *)
VettedInv ==
  /\ SentIsVetted
  /\ paramRequest # Nothing => HasParams(paramRequest)
  /\ riskRequest # Nothing =>
       /\ riskRequest = [text |-> riskRequest.text, estimating |-> riskRequest.estimating]
       /\ ~HasParams(riskRequest.text)
  /\ \A k \in Awaiting("estimateQuery") : ~HasParams(k.text)
  /\ lastFailed # Nothing =>
       /\ ~HasParams(lastFailed)
       /\ Risky(lastFailed) \/ StartsWrite(lastFailed) => lastFailed \in vetted

TargetInv ==
  /\ EditTargetIsCurrent
  /\ \A k \in Awaiting("tableStructure") : EditCandidate = [d |-> k.d, table |-> k.table]

(* "Query results are editable only when the SQL is a single plain SELECT  *)
(* from one base table" (QueryTab.tsx:565): while cells of a result may be *)
(* edited, the edits go to the table that the shown result's own SQL read. *)
(* They may not: the candidate is made of the text last executed and of the*)
(* database chosen now, while the result shown can be of another one.      *)
EditableIsItsSelect ==
  editTarget # Nothing /\ result # Nothing =>
    result.d = Nothing \/ editTarget = ParseEditable(result.text, result.d)

(* README.md:86-88: risky UPDATE and DELETE statements are confirmed before*)
(* they run. Not if they are not the first of the text: a script that      *)
(* starts with a SELECT is run at once.                                    *)
RiskyIsConfirmed ==
  \A k \in Awaiting("runQuery") :
    \A s \in Statements[k.text] : Risky(s) => k.text \in vetted
=============================================================================
