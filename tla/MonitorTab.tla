----------------------------- MODULE MonitorTab -----------------------------
(***************************************************************************)
(* The monitor of a server, frontend/src/components/MonitorTab.tsx: its    *)
(* processes are listed, polled while the tab is active, and killed; its   *)
(* variables are listed and set.                                           *)
(*                                                                         *)
(* Abstractions.                                                           *)
(*  - A process is there or not; one variable stands for all. Overview,    *)
(*    replication, slow queries and status, which are read with the        *)
(*    processes and shown as they come, and the filters are left out.      *)
(*  - A list is read when it is asked for; a process is killed, a variable *)
(*    set when that is answered.                                           *)
(*  - MaxProcessReads and MaxVariableReads bound the reads in flight,      *)
(*    MaxKills the kills. There is one variable set at most: its flag is   *)
(*    never reset before it is answered.                                   *)
(***************************************************************************)
EXTENDS Calls

CONSTANTS Processes, Values, MaxProcessReads, MaxVariableReads, MaxKills, NoProcess, NoValue

VARIABLES
  alive, variable,  \* the server: its processes, the variable's global value
  tabActive, auto,  \* whether the tab is active; whether it polls
  shownProcesses, shownVariable,
  processReads,     \* calls that list the processes: [n, by, seen]
  variableReads,    \* calls that list the variables: [n, by, seen]
  refreshing,       \* the flag of refresh
  killTarget, kills,\* the process the alert is about; kill calls: [n, process, query]
  edited,           \* the value typed in the dialog of the variable
  setting,          \* the call that sets it: [value, scope]
  monitorDoubt      \* history: which of "processes", "variables" was last read while
                    \* another read was on its way, or in vain, or changed elsewhere

monitorVars == <<alive, variable, tabActive, auto, shownProcesses, shownVariable,
                 processReads, variableReads, refreshing, killTarget, kills, edited, setting,
                 monitorDoubt>>
processVars == <<alive, shownProcesses, processReads, killTarget, kills>>
variableVars == <<variable, shownVariable, variableReads, edited, setting>>

(* "by" is what is done when the list has come: "refresh" and "set" unset  *)
(* their flags, and tell of a failure.                                     *)
NewRead(reads, most, by, now) ==
  reads \cup {[n |-> FreeNumber(reads, most), by |-> by, seen |-> now]}

ReadProcesses(by, now) ==
  /\ Cardinality(processReads) < MaxProcessReads
  /\ processReads' = NewRead(processReads, MaxProcessReads, by, now)

ReadVariables(by, now) ==
  /\ Cardinality(variableReads) < MaxVariableReads
  /\ variableReads' = NewRead(variableReads, MaxVariableReads, by, now)

MonitorInit ==
  /\ alive \in SUBSET Processes /\ variable \in Values
  /\ tabActive = FALSE /\ auto \in BOOLEAN
  /\ shownProcesses = {} /\ shownVariable = NoValue
  /\ processReads = {} /\ variableReads = {} /\ refreshing = FALSE
  /\ killTarget = NoProcess /\ kills = {} /\ edited = NoValue /\ setting = NoValue
  /\ monitorDoubt = {"processes", "variables"}

MonitorOnTop == tabActive /\ killTarget = NoProcess /\ edited = NoValue

-----------------------------------------------------------------------------
(* The tab becomes active: refresh, and the variables are listed. *)
Activate ==
  /\ ~tabActive /\ tabActive' = TRUE /\ refreshing' = TRUE
  /\ ReadProcesses("refresh", alive) /\ ReadVariables("show", variable)
  /\ monitorDoubt' = AskedFor("processes", processReads,
                       AskedFor("variables", variableReads, monitorDoubt))
  /\ UNCHANGED <<alive, variable, auto, shownProcesses, shownVariable, killTarget, kills,
                 edited, setting>>

Deactivate ==
  /\ MonitorOnTop /\ tabActive' = FALSE
  /\ UNCHANGED <<processVars, variableVars, auto, refreshing, monitorDoubt>>

ToggleAuto ==
  /\ MonitorOnTop /\ auto' = ~auto
  /\ UNCHANGED <<processVars, variableVars, tabActive, refreshing, monitorDoubt>>

(* A tick of the interval; it does not wait for the tick before. *)
Poll ==
  /\ tabActive /\ auto /\ ReadProcesses("poll", alive)
  /\ monitorDoubt' = AskedFor("processes", processReads, monitorDoubt)
  /\ UNCHANGED <<alive, shownProcesses, killTarget, kills, variableVars, tabActive, auto,
                 refreshing>>

RefreshMonitor ==
  /\ MonitorOnTop /\ ~refreshing /\ refreshing' = TRUE /\ ReadProcesses("refresh", alive)
  /\ monitorDoubt' = AskedFor("processes", processReads, monitorDoubt)
  /\ UNCHANGED <<alive, shownProcesses, killTarget, kills, variableVars, tabActive, auto>>

ProcessesCome(r) ==
  /\ processReads' = processReads \ {r} /\ shownProcesses' = r.seen
  /\ refreshing' = (refreshing /\ r.by # "refresh")
  /\ UNCHANGED <<alive, killTarget, kills, variableVars, tabActive, auto, monitorDoubt>>

ProcessesFail(r) ==
  /\ processReads' = processReads \ {r} /\ monitorDoubt' = monitorDoubt \cup {"processes"}
  /\ refreshing' = (refreshing /\ r.by # "refresh")
  /\ UNCHANGED <<alive, shownProcesses, killTarget, kills, variableVars, tabActive, auto>>

-----------------------------------------------------------------------------
(* Kill *)

AskToKill(p) ==
  /\ MonitorOnTop /\ p \in shownProcesses /\ killTarget' = p
  /\ UNCHANGED <<alive, shownProcesses, processReads, kills, variableVars, tabActive, auto,
                 refreshing, monitorDoubt>>

CancelKill ==
  /\ killTarget # NoProcess /\ killTarget' = NoProcess
  /\ UNCHANGED <<alive, shownProcesses, processReads, kills, variableVars, tabActive, auto,
                 refreshing, monitorDoubt>>

(* The button that kills the connection closes the alert, the one that     *)
(* kills its query does not.                                               *)
ConfirmKill(query) ==
  /\ killTarget # NoProcess /\ Cardinality(kills) < MaxKills
  /\ kills' = kills \cup
       {[n |-> FreeNumber(kills, MaxKills), process |-> killTarget, query |-> query]}
  /\ killTarget' = IF query THEN killTarget ELSE NoProcess
  /\ UNCHANGED <<alive, shownProcesses, processReads, variableVars, tabActive, auto,
                 refreshing, monitorDoubt>>

(* The alert open by then, about whatever process, is closed. *)
Killed(k) ==
  /\ k.process \in alive /\ kills' = kills \ {k}
  /\ alive' = alive \ {q \in {k.process} : ~k.query}
  /\ killTarget' = NoProcess
  /\ refreshing' = TRUE /\ ReadProcesses("refresh", alive')
  /\ monitorDoubt' = AskedFor("processes", processReads, monitorDoubt)
  /\ UNCHANGED <<shownProcesses, variableVars, tabActive, auto>>

KillFails(k) ==
  /\ kills' = kills \ {k}
  /\ UNCHANGED <<alive, shownProcesses, processReads, killTarget, variableVars, tabActive,
                 auto, refreshing, monitorDoubt>>

(* Processes come and go. *)
ProcessesChange ==
  /\ "processes" \notin monitorDoubt
  /\ alive' \in SUBSET Processes /\ monitorDoubt' = monitorDoubt \cup {"processes"}
  /\ UNCHANGED <<shownProcesses, processReads, killTarget, kills, variableVars, tabActive,
                 auto, refreshing>>

-----------------------------------------------------------------------------
(* Variables *)

VariablesCome(r) ==
  /\ variableReads' = variableReads \ {r} /\ shownVariable' = r.seen
  /\ UNCHANGED <<variable, edited, setting, processVars, tabActive, auto, refreshing,
                 monitorDoubt>>

VariablesFail(r) ==
  /\ variableReads' = variableReads \ {r} /\ monitorDoubt' = monitorDoubt \cup {"variables"}
  /\ UNCHANGED <<variable, shownVariable, edited, setting, processVars, tabActive, auto,
                 refreshing>>

EditVariable(v) ==
  /\ shownVariable # NoValue /\ tabActive /\ killTarget = NoProcess /\ edited' = v
  /\ UNCHANGED <<variable, shownVariable, variableReads, setting, processVars, tabActive,
                 auto, refreshing, monitorDoubt>>

CloseVariable ==
  /\ edited # NoValue /\ edited' = NoValue
  /\ UNCHANGED <<variable, shownVariable, variableReads, setting, processVars, tabActive,
                 auto, refreshing, monitorDoubt>>

(* The button waits for the variable to be set and listed. *)
VarBusy == setting # NoValue \/ \E r \in variableReads : r.by = "set"

SaveVariable(scope) ==
  /\ edited # NoValue /\ ~VarBusy
  /\ setting' = [value |-> edited, scope |-> scope]
  /\ UNCHANGED <<variable, shownVariable, variableReads, edited, processVars, tabActive,
                 auto, refreshing, monitorDoubt>>

(* The value listed is the global one, which SESSION leaves. *)
VariableSet ==
  /\ setting # NoValue /\ setting' = NoValue /\ edited' = NoValue
  /\ variable' = IF setting.scope = "GLOBAL" THEN setting.value ELSE variable
  /\ ReadVariables("set", variable')
  /\ monitorDoubt' = AskedFor("variables", variableReads, monitorDoubt)
  /\ UNCHANGED <<shownVariable, processVars, tabActive, auto, refreshing>>

SetFails ==
  /\ setting # NoValue /\ setting' = NoValue
  /\ UNCHANGED <<variable, shownVariable, variableReads, edited, processVars, tabActive,
                 auto, refreshing, monitorDoubt>>

MonitorNext ==
  \/ Activate \/ Deactivate \/ ToggleAuto \/ Poll \/ RefreshMonitor
  \/ CancelKill \/ ProcessesChange \/ CloseVariable \/ VariableSet \/ SetFails
  \/ \E r \in processReads : ProcessesCome(r) \/ ProcessesFail(r)
  \/ \E p \in Processes : AskToKill(p)
  \/ \E query \in BOOLEAN : ConfirmKill(query)
  \/ \E k \in kills : Killed(k) \/ KillFails(k)
  \/ \E r \in variableReads : VariablesCome(r) \/ VariablesFail(r)
  \/ \E v \in Values : EditVariable(v)
  \/ \E scope \in {"GLOBAL", "SESSION"} : SaveVariable(scope)

MonitorSpec == MonitorInit /\ [][MonitorNext]_monitorVars

-----------------------------------------------------------------------------
(* Properties *)

(* When no list is on its way, the processes and the variables shown are   *)
(* the server's, whatever was killed or set from the tab; unless the last  *)
(* lists overlapped, as a poll overlaps a refresh, the last one failed, or *)
(* processes came or went since.                                           *)
MonitorIsCurrent ==
  /\ (processReads = {} /\ "processes" \notin monitorDoubt) => shownProcesses = alive
  /\ (variableReads = {} /\ "variables" \notin monitorDoubt) => shownVariable = variable
=============================================================================
