----------------------------- MODULE Tabs_proofs -----------------------------
(***************************************************************************)
(* Proofs about the tabs of the page, in two parts. The query tab, for any *)
(* connections, databases, texts and number of calls: the spinner is       *)
(* honest, what is sent was vetted, and an edit target is that of the text *)
(* last executed where the tab is now. The table tab and its grid, for any *)
(* columns, filters, page sizes, saved views, answers, keys, widths and    *)
(* number of loads and writes.                                             *)
(***************************************************************************)
EXTENDS QueryTab, TablePages, TableEdits, DataGrid, FiniteSetTheorems,
        SequenceTheorems, TLAPS

(* The edit-target effect touches no call but those for a structure.       *)
LEMMA EffectKeepsCalls ==
  ASSUME NEW rest, NEW target, DetectEditTarget(rest, target)
  PROVE  \A k : k.api # "tableStructure" => (k \in inFlight' <=> k \in rest)
  BY DEF DetectEditTarget

-----------------------------------------------------------------------------
(* The spinner turns for a run or a file, Cancel is for a run.             *)
LEMMA SpinnerStep == SpinnerIsHonest /\ [QueryNext]_queryVars => SpinnerIsHonest'
<1> SUFFICES ASSUME SpinnerIsHonest, [QueryNext]_queryVars PROVE SpinnerIsHonest'
  OBVIOUS
<1> USE DEF SpinnerIsHonest, Awaiting, runner
<1>1. CASE UNCHANGED queryVars
  BY <1>1 DEF queryVars
<1>2. ASSUME NEW t, NEW c, NEW d, NEW rest, RunRaw(t, c, d, rest) PROVE SpinnerIsHonest'
  <2> DEFINE new == [api |-> "runQuery", run |-> callsMade', c |-> c, d |-> d, text |-> t]
  <2>1. new \in inFlight' /\ new.api = "runQuery" /\ new.run = activeRunId'
    BY <1>2 DEF RunRaw
  <2>. QED
    BY <2>1
<1>3. ASSUME UNCHANGED runner, inFlight \subseteq inFlight' PROVE SpinnerIsHonest'
  BY <1>3
<1>4. ASSUME UNCHANGED runner,
             \A k : k.api \in {"runQuery", "runSQLFile"} => (k \in inFlight' <=> k \in inFlight)
      PROVE  SpinnerIsHonest'
  BY <1>4
<1>5. ASSUME NEW k \in inFlight, StructureAnswers(k) PROVE SpinnerIsHonest'
  BY <1>4, <1>5 DEF StructureAnswers
<1>6. ASSUME NEW k \in inFlight, NEW big, EstimateAnswers(k, big) PROVE SpinnerIsHonest'
  <2>1. CASE big
    BY <1>4, <1>6, <2>1 DEF EstimateAnswers
  <2>2. CASE ~big
    BY <1>2, <1>6, <2>2 DEF EstimateAnswers
  <2>. QED
    BY <2>1, <2>2
<1>7. ASSUME NEW k \in inFlight, EstimateForDialog(k) PROVE SpinnerIsHonest'
  BY <1>4, <1>7 DEF EstimateForDialog
<1>8. ASSUME NEW k \in inFlight, RunSucceeds(k) PROVE SpinnerIsHonest'
  BY <1>8 DEF RunSucceeds
<1>9. ASSUME NEW k \in inFlight, RunFails(k) PROVE SpinnerIsHonest'
  BY <1>9 DEF RunFails
<1>10. ASSUME NEW k \in inFlight, NEW ok, TransactionEnds(k, ok) PROVE SpinnerIsHonest'
  BY <1>4, <1>10 DEF TransactionEnds
<1>11. ASSUME NEW k \in inFlight, NEW ok, RunInTransactionEnds(k, ok) PROVE SpinnerIsHonest'
  <2>1. UNCHANGED runner /\ k.api = "runTransaction"
    BY <1>11 DEF RunInTransactionEnds
  <2>2. \A j : j.api # "tableStructure" => (j \in inFlight' <=> j \in inFlight \ {k})
    BY <1>11, EffectKeepsCalls DEF RunInTransactionEnds
  <2>. QED
    BY <1>4, <2>1, <2>2
<1>12. ASSUME NEW k \in inFlight, NEW ok, RunFileEnds(k, ok) PROVE SpinnerIsHonest'
  <2>1. ~running' /\ activeRunId' = activeRunId /\ k.api = "runSQLFile"
    BY <1>12 DEF RunFileEnds
  <2>2. \A j : j.api # "tableStructure" => (j \in inFlight' <=> j \in inFlight \ {k})
    BY <1>12, EffectKeepsCalls DEF RunFileEnds
  <2>. QED
    BY <2>1, <2>2
<1>13. ASSUME NEW k \in inFlight, UpdateAnswers(k) PROVE SpinnerIsHonest'
  BY <1>4, <1>13 DEF UpdateAnswers
<1>14. ASSUME UNCHANGED runner, DetectEditTarget(inFlight, editTarget) PROVE SpinnerIsHonest'
  BY <1>4, <1>14, EffectKeepsCalls
<1>15. CASE \E c \in Connections : PickConnection(c) \/ ConnectionGone(c)
  BY <1>14, <1>15 DEF PickConnection, ConnectionGone
<1>16. CASE \/ \E d \in Databases \cup {Nothing} : PickDatabase(d)
            \/ Clear
  BY <1>14, <1>16 DEF PickDatabase, Clear
<1>17. ASSUME NEW t, AskRisk(t) \/ AskEstimate(t) \/ RunAtOnce(t) PROVE SpinnerIsHonest'
  BY <1>2, <1>3, <1>17 DEF AskRisk, AskEstimate, RunAtOnce
<1>18. ASSUME NEW t, Run(t) PROVE SpinnerIsHonest'
  <2>1. CASE AskParams(t)
    BY <1>3, <2>1 DEF AskParams
  <2>2. CASE ~AskParams(t)
    BY <1>17, <1>18, <2>2 DEF Run, AssessAndRun
  <2>. QED
    BY <2>1, <2>2
<1>19. ASSUME NEW t, RunFile(t) PROVE SpinnerIsHonest'
  <2> DEFINE new == [api |-> "runSQLFile", c |-> connectionId, d |-> database, text |-> t]
  <2>1. inFlight' = inFlight \cup {new} /\ new.api = "runSQLFile" /\ activeRunId' = activeRunId
    BY <1>19 DEF RunFile
  <2>. QED
    BY <2>1
<1>20. ASSUME NEW t, NEW all, RunInTransaction(t, all) PROVE SpinnerIsHonest'
  BY <1>3, <1>20 DEF RunInTransaction
<1>21. CASE ParamsRun
  BY <1>17, <1>21 DEF ParamsRun
<1>22. CASE ParamsClose \/ RiskCancel
  BY <1>3, <1>22 DEF ParamsClose, RiskCancel
<1>23. CASE RiskRun
  BY <1>2, <1>23 DEF RiskRun
<1>24. CASE Cancel
  BY <1>24 DEF Cancel
<1>25. CASE Retry
  BY <1>2, <1>25 DEF Retry
<1>26. ASSUME NEW m, Transaction(m) PROVE SpinnerIsHonest'
  BY <1>3, <1>26 DEF Transaction
<1>27. CASE UpdateResultCell
  BY <1>3, <1>27 DEF UpdateResultCell
<1>28. CASE Answer
  BY <1>5, <1>6, <1>7, <1>8, <1>9, <1>10, <1>11, <1>12, <1>13, <1>28 DEF Answer
<1>. QED
  BY <1>1, <1>15, <1>16, <1>18, <1>19, <1>20, <1>21, <1>22, <1>23, <1>24, <1>25, <1>26,
     <1>27, <1>28 DEF QueryNext

(* While the spinner turns a run or a file is on the server, and the       *)
(* Cancel button names a run that is.                                      *)
THEOREM SpinnerHonest == QuerySpec => []SpinnerIsHonest
<1>1. QueryInit => SpinnerIsHonest
  BY DEF QueryInit, SpinnerIsHonest, Awaiting
<1>. QED
  BY <1>1, SpinnerStep, PTL DEF QuerySpec

-----------------------------------------------------------------------------
(* What is sent was vetted. A step that sends nothing, makes nothing to be *)
(* sent and forgets no confirmation keeps the invariant.                   *)
LEMMA VettedFrame ==
  ASSUME VettedInv, UNCHANGED <<paramRequest, riskRequest, lastFailed>>, vetted \subseteq vetted',
         \A k : k.api \in {"runQuery", "runTransaction", "estimateQuery"} =>
                (k \in inFlight' => k \in inFlight)
  PROVE  VettedInv'
  BY DEF VettedInv, SentIsVetted, Awaiting

(* A run of a text without placeholders that needs no confirmation, or has *)
(* one, keeps it too.                                                      *)
LEMMA VettedRun ==
  ASSUME VettedInv, NEW t, NEW c, NEW d, NEW rest, RunRaw(t, c, d, rest), rest \subseteq inFlight,
         ~HasParams(t), Risky(t) \/ StartsWrite(t) => t \in vetted',
         vetted \subseteq vetted', UNCHANGED lastFailed,
         paramRequest' \in {paramRequest, Nothing}, riskRequest' \in {riskRequest, Nothing}
  PROVE  VettedInv'
<1> DEFINE new == [api |-> "runQuery", run |-> callsMade', c |-> c, d |-> d, text |-> t]
<1>1. inFlight' \subseteq inFlight \cup {new} /\ new.api = "runQuery" /\ new.text = t
  BY DEF RunRaw
<1> HIDE DEF new
<1>. QED
  BY <1>1 DEF VettedInv, SentIsVetted, Awaiting

(* What assessAndRun makes of a text, the dialog of parameters apart.      *)
LEMMA VettedAssess ==
  ASSUME VettedInv, NEW t, AskRisk(t) \/ AskEstimate(t) \/ RunAtOnce(t),
         UNCHANGED <<lastFailed, vetted>>, paramRequest' \in {paramRequest, Nothing}
  PROVE  VettedInv'
<1>1. CASE AskRisk(t)
  <2>1. ~HasParams(t) /\ riskRequest' = [text |-> t, estimating |-> StartsWrite(t)]
    BY <1>1 DEF AskRisk
  <2>2. \A k \in inFlight' : k \in inFlight \/ (k.api = "estimateQuery" /\ k.text = t)
    BY <1>1 DEF AskRisk, Estimate
  <2>3. riskRequest' = [text |-> riskRequest'.text, estimating |-> riskRequest'.estimating]
        /\ riskRequest'.text = t
    BY <2>1
  <2>. QED
    BY <2>1, <2>2, <2>3 DEF VettedInv, SentIsVetted, Awaiting
<1>2. CASE AskEstimate(t)
  <2>1. ~HasParams(t) /\ UNCHANGED riskRequest
    BY <1>2 DEF AskEstimate
  <2>2. \A k \in inFlight' : k \in inFlight \/ (k.api = "estimateQuery" /\ k.text = t)
    BY <1>2 DEF AskEstimate, Estimate
  <2>. QED
    BY <2>1, <2>2 DEF VettedInv, SentIsVetted, Awaiting
<1>3. CASE RunAtOnce(t)
  BY <1>3, VettedRun DEF RunAtOnce
<1>. QED
  BY <1>1, <1>2, <1>3

LEMMA VettedStep == VettedInv /\ [QueryNext]_queryVars => VettedInv'
<1> SUFFICES ASSUME VettedInv, [QueryNext]_queryVars PROVE VettedInv'
  OBVIOUS
<1> USE DEF shown, dialogs
<1>1. CASE UNCHANGED queryVars
  BY <1>1, VettedFrame DEF queryVars
<1>2. ASSUME NEW k \in inFlight, StructureAnswers(k) PROVE VettedInv'
  BY <1>2, VettedFrame DEF StructureAnswers
<1>3. ASSUME NEW k \in inFlight, NEW big, EstimateAnswers(k, big) PROVE VettedInv'
  <2>1. ~HasParams(k.text) /\ UNCHANGED <<paramRequest, lastFailed>>
    BY <1>3 DEF EstimateAnswers, VettedInv
  <2>2. CASE big
    <3>1. /\ riskRequest' = [text |-> k.text, estimating |-> FALSE]
          /\ inFlight' \subseteq inFlight /\ vetted' = vetted
      BY <1>3, <2>2 DEF EstimateAnswers
    <3>2. riskRequest' = [text |-> riskRequest'.text, estimating |-> riskRequest'.estimating]
          /\ riskRequest'.text = k.text
      BY <3>1
    <3>. QED
      BY <2>1, <3>1, <3>2 DEF VettedInv, SentIsVetted, Awaiting
  <2>3. CASE ~big
    BY <1>3, <2>1, <2>3, VettedRun DEF EstimateAnswers
  <2>. QED
    BY <2>2, <2>3
<1>4. ASSUME NEW k \in inFlight, EstimateForDialog(k) PROVE VettedInv'
  <2>1. /\ inFlight' \subseteq inFlight /\ UNCHANGED <<paramRequest, lastFailed, vetted>>
        /\ riskRequest' = IF riskRequest = Nothing THEN Nothing
                          ELSE [riskRequest EXCEPT !.estimating = FALSE]
    BY <1>4 DEF EstimateForDialog
  <2>2. riskRequest' # Nothing =>
          /\ riskRequest' = [text |-> riskRequest'.text, estimating |-> riskRequest'.estimating]
          /\ ~HasParams(riskRequest'.text)
    BY <2>1 DEF VettedInv
  <2>. QED
    BY <2>1, <2>2 DEF VettedInv, SentIsVetted, Awaiting
<1>5. ASSUME NEW k \in inFlight, RunSucceeds(k) PROVE VettedInv'
  <2>1. /\ lastFailed' = Nothing /\ UNCHANGED <<paramRequest, riskRequest, vetted>>
        /\ \A j : j.api # "tableStructure" => (j \in inFlight' <=> j \in inFlight \ {k})
    BY <1>5, EffectKeepsCalls DEF RunSucceeds
  <2>. QED
    BY <2>1 DEF VettedInv, SentIsVetted, Awaiting
<1>6. ASSUME NEW k \in inFlight, RunFails(k) PROVE VettedInv'
  <2>1. /\ lastFailed' \in {lastFailed, k.text} /\ k.api = "runQuery"
        /\ UNCHANGED <<paramRequest, riskRequest, vetted>>
        /\ \A j : j.api # "tableStructure" => (j \in inFlight' <=> j \in inFlight \ {k})
    BY <1>6, EffectKeepsCalls DEF RunFails, Awaiting
  <2>. QED
    BY <2>1 DEF VettedInv, SentIsVetted, Awaiting
<1>7. ASSUME NEW k \in inFlight, NEW ok, TransactionEnds(k, ok) PROVE VettedInv'
  BY <1>7, VettedFrame DEF TransactionEnds
<1>8. ASSUME NEW k \in inFlight, NEW ok, RunInTransactionEnds(k, ok) PROVE VettedInv'
  BY <1>8, VettedFrame, EffectKeepsCalls DEF RunInTransactionEnds
<1>9. ASSUME NEW k \in inFlight, NEW ok, RunFileEnds(k, ok) PROVE VettedInv'
  BY <1>9, VettedFrame, EffectKeepsCalls DEF RunFileEnds
<1>10. ASSUME NEW k \in inFlight, UpdateAnswers(k) PROVE VettedInv'
  BY <1>10, VettedFrame DEF UpdateAnswers
<1>11. CASE \E c \in Connections : PickConnection(c) \/ ConnectionGone(c)
  BY <1>11, VettedFrame, EffectKeepsCalls DEF PickConnection, ConnectionGone
<1>12. CASE (\E d \in Databases \cup {Nothing} : PickDatabase(d)) \/ Clear
  BY <1>12, VettedFrame, EffectKeepsCalls DEF PickDatabase, Clear
<1>13. ASSUME NEW t, Run(t) PROVE VettedInv'
  <2>1. UNCHANGED <<lastFailed, vetted>>
    BY <1>13 DEF Run
  <2>2. CASE AskParams(t)
    BY <2>1, <2>2 DEF AskParams, VettedInv, SentIsVetted, Awaiting
  <2>3. CASE ~AskParams(t)
    BY <1>13, <2>1, <2>3, VettedAssess DEF Run, AssessAndRun
  <2>. QED
    BY <2>2, <2>3
<1>14. ASSUME NEW t, RunFile(t) PROVE VettedInv'
  BY <1>14, VettedFrame DEF RunFile
<1>15. ASSUME NEW t, NEW all, RunInTransaction(t, all) PROVE VettedInv'
  <2>1. \A k \in inFlight' : k \in inFlight \/ (k.api = "runTransaction" /\ k.text = t)
    BY <1>15 DEF RunInTransaction
  <2>2. /\ vetted \subseteq vetted' /\ (Risky(t) => t \in vetted')
        /\ UNCHANGED <<paramRequest, riskRequest, lastFailed>>
    BY <1>15 DEF RunInTransaction
  <2>. QED
    BY <2>1, <2>2 DEF VettedInv, SentIsVetted, Awaiting
<1>16. CASE ParamsRun
  BY <1>16, VettedAssess DEF ParamsRun
<1>17. CASE ParamsClose \/ RiskCancel
  <2>1. /\ UNCHANGED <<lastFailed, vetted, inFlight>>
        /\ paramRequest' \in {paramRequest, Nothing} /\ riskRequest' \in {riskRequest, Nothing}
    BY <1>17 DEF ParamsClose, RiskCancel
  <2>. QED
    BY <2>1 DEF VettedInv, SentIsVetted, Awaiting
<1>18. CASE RiskRun
  <2>1. ~HasParams(riskRequest.text) /\ riskRequest.text \in vetted' /\ vetted \subseteq vetted'
    BY <1>18 DEF RiskRun, VettedInv
  <2>. QED
    BY <1>18, <2>1, VettedRun DEF RiskRun
<1>19. CASE Cancel
  BY <1>19, VettedFrame DEF Cancel
<1>20. CASE Retry
  <2>1. lastFailed # Nothing
    BY <1>20 DEF Retry, RetryOffered
  <2>2. ~HasParams(lastFailed) /\ (Risky(lastFailed) \/ StartsWrite(lastFailed) => lastFailed \in vetted)
    BY <2>1 DEF VettedInv
  <2>. QED
    BY <1>20, <2>2, VettedRun DEF Retry
<1>21. ASSUME NEW m, Transaction(m) PROVE VettedInv'
  BY <1>21, VettedFrame DEF Transaction
<1>22. CASE UpdateResultCell
  BY <1>22, VettedFrame DEF UpdateResultCell
<1>23. CASE Answer
  BY <1>2, <1>3, <1>4, <1>5, <1>6, <1>7, <1>8, <1>9, <1>10, <1>23 DEF Answer
<1>. QED
  BY <1>1, <1>11, <1>12, <1>13, <1>14, <1>15, <1>16, <1>17, <1>18, <1>19, <1>20, <1>21,
     <1>22, <1>23 DEF QueryNext

(* Whatever path a text takes to the server, it was expanded and confirmed *)
(* as assessSQLRisk and the estimate asked for.                            *)
THEOREM SentVetted == QuerySpec => []SentIsVetted
<1>1. QueryInit => VettedInv
  BY DEF QueryInit, VettedInv, SentIsVetted, Awaiting
<1>2. VettedInv => SentIsVetted
  BY DEF VettedInv
<1>. QED
  BY <1>1, <1>2, VettedStep, PTL DEF QuerySpec

-----------------------------------------------------------------------------
(* The edit target is the candidate of now. The effect runs again whenever *)
(* the candidate may have changed, and takes back what it has asked for.   *)
LEMMA SameDepsSameCandidate == Deps' = Deps => EditCandidate' = EditCandidate
<1> SUFFICES ASSUME Deps' = Deps PROVE EditCandidate' = EditCandidate
  OBVIOUS
<1>1. /\ (connectionId' \in conns') = (connectionId \in conns)
      /\ UNCHANGED <<connectionId, database, lastRunSql>>
      /\ (result' # Nothing) = (result # Nothing)
  BY DEF Deps
<1>. QED
  BY <1>1 DEF EditCandidate, ParseEditable

LEMMA CandidateIsARecord ==
  EditCandidate # Nothing => EditCandidate = [d |-> EditCandidate.d, table |-> EditCandidate.table]
  BY DEF EditCandidate, ParseEditable

LEMMA TargetEffect ==
  ASSUME TargetInv, NEW rest, rest \subseteq inFlight, DetectEditTarget(rest, editTarget)
  PROVE  TargetInv'
<1>1. CASE Deps' = Deps
  BY <1>1, SameDepsSameCandidate DEF DetectEditTarget, TargetInv, EditTargetIsCurrent, Awaiting
<1>2. CASE Deps' # Deps
  <2>1. editTarget' = Nothing
    BY <1>2 DEF DetectEditTarget
  <2>2. \A k \in inFlight' : k.api = "tableStructure" =>
          /\ EditCandidate' # Nothing /\ k.d = EditCandidate'.d /\ k.table = EditCandidate'.table
    BY <1>2 DEF DetectEditTarget
  <2>3. EditCandidate' # Nothing =>
          EditCandidate' = [d |-> EditCandidate'.d, table |-> EditCandidate'.table]
    BY CandidateIsARecord DEF EditCandidate, ParseEditable
  <2>. QED
    BY <2>1, <2>2, <2>3 DEF TargetInv, EditTargetIsCurrent, Awaiting
<1>. QED
  BY <1>1, <1>2

(* A step that leaves the candidate and asks for no structure.             *)
LEMMA TargetFrame ==
  ASSUME TargetInv, UNCHANGED <<place, lastRunSql>>, (result' # Nothing) <=> (result # Nothing),
         editTarget' \in {editTarget, Nothing},
         \A k : k.api = "tableStructure" => (k \in inFlight' => k \in inFlight)
  PROVE  TargetInv'
<1>1. EditCandidate' = EditCandidate
  BY DEF EditCandidate, ParseEditable, place
<1>. QED
  BY <1>1 DEF TargetInv, EditTargetIsCurrent, Awaiting

LEMMA RunAsksForNoStructure ==
  ASSUME NEW t, NEW c, NEW d, NEW rest, RunRaw(t, c, d, rest)
  PROVE  /\ editTarget' = Nothing
         /\ \A k : k.api = "tableStructure" => (k \in inFlight' => k \in rest)
  BY DEF RunRaw

LEMMA AssessAsksForNoStructure ==
  ASSUME NEW t, AskRisk(t) \/ AskEstimate(t) \/ RunAtOnce(t)
  PROVE  /\ editTarget' \in {editTarget, Nothing}
         /\ \A k : k.api = "tableStructure" => (k \in inFlight' => k \in inFlight)
<1>1. CASE AskRisk(t) \/ AskEstimate(t)
  BY <1>1 DEF AskRisk, AskEstimate, Estimate
<1>2. CASE RunAtOnce(t)
  BY <1>2, RunAsksForNoStructure DEF RunAtOnce
<1>. QED
  BY <1>1, <1>2

LEMMA TargetStep == TargetInv /\ [QueryNext]_queryVars => TargetInv'
<1> SUFFICES ASSUME TargetInv, [QueryNext]_queryVars PROVE TargetInv'
  OBVIOUS
<1> USE DEF shown, dialogs
<1>1. CASE UNCHANGED queryVars
  BY <1>1, TargetFrame DEF queryVars, place
<1>2. ASSUME NEW k \in inFlight, StructureAnswers(k) PROVE TargetInv'
  <2>1. EditCandidate' = EditCandidate
    BY <1>2 DEF StructureAnswers, EditCandidate, ParseEditable, place
  <2>2. editTarget' \in {editTarget, EditCandidate} /\ inFlight' \subseteq inFlight
    BY <1>2 DEF StructureAnswers, TargetInv, Awaiting
  <2>. QED
    BY <2>1, <2>2 DEF TargetInv, EditTargetIsCurrent, Awaiting
<1>3. ASSUME NEW k \in inFlight, NEW big, EstimateAnswers(k, big) PROVE TargetInv'
  <2>1. CASE big
    BY <1>3, <2>1, TargetFrame DEF EstimateAnswers
  <2>2. CASE ~big
    BY <1>3, <2>2, TargetFrame, RunAsksForNoStructure DEF EstimateAnswers
  <2>. QED
    BY <2>1, <2>2
<1>4. ASSUME NEW k \in inFlight, EstimateForDialog(k) PROVE TargetInv'
  BY <1>4, TargetFrame DEF EstimateForDialog
<1>5. ASSUME NEW k \in inFlight, NEW ok,
             RunSucceeds(k) \/ RunFails(k) \/ RunInTransactionEnds(k, ok) \/ RunFileEnds(k, ok)
      PROVE TargetInv'
  BY <1>5, TargetEffect DEF RunSucceeds, RunFails, RunInTransactionEnds, RunFileEnds
<1>6. ASSUME NEW k \in inFlight, NEW ok, TransactionEnds(k, ok) PROVE TargetInv'
  BY <1>6, TargetFrame DEF TransactionEnds
<1>7. ASSUME NEW k \in inFlight, UpdateAnswers(k) PROVE TargetInv'
  BY <1>7, TargetFrame DEF UpdateAnswers
<1>8. CASE \E c \in Connections : PickConnection(c) \/ ConnectionGone(c)
  BY <1>8, TargetEffect DEF PickConnection, ConnectionGone
<1>9. CASE (\E d \in Databases \cup {Nothing} : PickDatabase(d)) \/ Clear
  BY <1>9, TargetEffect DEF PickDatabase, Clear
<1>10. ASSUME NEW t, Run(t) PROVE TargetInv'
  <2>1. UNCHANGED <<place, lastRunSql, result>>
    BY <1>10 DEF Run
  <2>2. CASE AskParams(t)
    BY <2>1, <2>2, TargetFrame DEF AskParams
  <2>3. CASE ~AskParams(t)
    BY <1>10, <2>1, <2>3, AssessAsksForNoStructure, TargetFrame DEF Run, AssessAndRun
  <2>. QED
    BY <2>2, <2>3
<1>11. ASSUME NEW t, RunFile(t) PROVE TargetInv'
  BY <1>11, TargetFrame DEF RunFile
<1>12. ASSUME NEW t, NEW all, RunInTransaction(t, all) PROVE TargetInv'
  BY <1>12, TargetFrame DEF RunInTransaction
<1>13. CASE ParamsRun
  BY <1>13, AssessAsksForNoStructure, TargetFrame DEF ParamsRun
<1>14. CASE ParamsClose \/ RiskCancel \/ Cancel
  BY <1>14, TargetFrame DEF ParamsClose, RiskCancel, Cancel
<1>15. CASE RiskRun
  BY <1>15, RunAsksForNoStructure, TargetFrame DEF RiskRun
<1>16. CASE Retry
  <2>1. editTarget' = Nothing /\ Awaiting("tableStructure")' = {}
    BY <1>16, RunAsksForNoStructure DEF Retry, Awaiting
  <2>. QED
    BY <2>1 DEF TargetInv, EditTargetIsCurrent
<1>17. ASSUME NEW m, Transaction(m) PROVE TargetInv'
  BY <1>17, TargetFrame DEF Transaction
<1>18. CASE UpdateResultCell
  BY <1>18, TargetFrame DEF UpdateResultCell
<1>19. CASE Answer
  BY <1>2, <1>3, <1>4, <1>5, <1>6, <1>7, <1>19 DEF Answer
<1>. QED
  BY <1>1, <1>8, <1>9, <1>10, <1>11, <1>12, <1>13, <1>14, <1>15, <1>16, <1>17, <1>18,
     <1>19 DEF QueryNext

(* However late a structure is answered, an edit target is that of the     *)
(* text last executed, for the connection and database chosen now.         *)
THEOREM EditTargetCurrent == QuerySpec => []EditTargetIsCurrent
<1>1. QueryInit => TargetInv
  BY DEF QueryInit, TargetInv, EditTargetIsCurrent, Awaiting
<1>2. TargetInv => EditTargetIsCurrent
  BY DEF TargetInv
<1>. QED
  BY <1>1, <1>2, TargetStep, PTL DEF QuerySpec

-----------------------------------------------------------------------------

(* A change of the view either asks for nothing, because what is asked for *)
(* stays the same, or the last load it starts asks for what is asked for   *)
(* now.                                                                    *)
LoadsEnough(rest) ==
  \/ calls' = rest /\ sent' = sent /\ error' = error /\ Current' = Current
  \/ /\ error' = FALSE /\ sent' \in Nat /\ sent < sent'
     /\ \E new : /\ calls' = rest \cup new
                 /\ \A k \in new : k.api = "tableData" /\ k.n \in Nat /\ sent < k.n /\ k.n <= sent'
                 /\ \A k, l \in new : k.n = l.n => k = l
                 /\ \E k \in new : k.req = Current' /\ \A l \in new : l.n <= k.n

LEMMA LoadOne ==
  ASSUME sent \in Nat, NEW rest, NEW req, LoadData(rest, <<req>>), Current' = req
  PROVE  LoadsEnough(rest)
<1> DEFINE k == [api |-> "tableData", n |-> sent + 1, req |-> req]
<1>1. DOMAIN <<req>> = {1} /\ <<req>>[1] = req
  OBVIOUS
<1>2. {[api |-> "tableData", n |-> sent + i, req |-> <<req>>[i]] : i \in DOMAIN <<req>>} = {k}
  BY <1>1
<1>3. calls' = rest \cup {k} /\ sent' = sent + 1 /\ error' = FALSE
  BY <1>2 DEF LoadData
<1>4. k.api = "tableData" /\ k.n = sent + 1 /\ k.req = Current'
  OBVIOUS
<1> HIDE DEF k
<1> DEFINE new == {k}
<1>5. /\ calls' = rest \cup new
      /\ \A l \in new : l.api = "tableData" /\ l.n \in Nat /\ sent < l.n /\ l.n <= sent'
      /\ \A m, l \in new : m.n = l.n => m = l
      /\ \E l \in new : l.req = Current' /\ \A m \in new : m.n <= l.n
  BY <1>3, <1>4
<1> HIDE DEF new
<1>. QED
  BY <1>3, <1>5 DEF LoadsEnough

LEMMA LoadTwo ==
  ASSUME sent \in Nat, NEW rest, NEW a, NEW b, LoadData(rest, <<a>> \o <<b>>), Current' = b
  PROVE  LoadsEnough(rest)
<1> DEFINE reqs == <<a>> \o <<b>>
           j == [api |-> "tableData", n |-> sent + 1, req |-> a]
           k == [api |-> "tableData", n |-> sent + 2, req |-> b]
<1>1. /\ reqs \in Seq({a, b}) /\ Len(reqs) = 2
      /\ reqs[1] = a /\ reqs[2] = b
  <2>1. <<a>> \in Seq({a, b}) /\ <<b>> \in Seq({a, b}) /\ Len(<<a>>) = 1 /\ Len(<<b>>) = 1
    OBVIOUS
  <2>. QED
    BY <2>1, ConcatProperties
<1>2. LoadData(rest, reqs)
  OBVIOUS
<1> HIDE DEF reqs
<1>3. DOMAIN reqs = {1, 2} /\ reqs # <<>>
  BY <1>1
<1>4. {[api |-> "tableData", n |-> sent + i, req |-> reqs[i]] : i \in DOMAIN reqs} = {j, k}
  BY <1>1, <1>3
<1>5. calls' = rest \cup {j, k} /\ sent' = sent + 2 /\ error' = FALSE
  BY <1>1, <1>2, <1>3, <1>4 DEF LoadData
<1>6. /\ j.api = "tableData" /\ j.n = sent + 1
      /\ k.api = "tableData" /\ k.n = sent + 2 /\ k.req = Current'
  OBVIOUS
<1> HIDE DEF j, k
<1> DEFINE new == {j, k}
<1>7. /\ calls' = rest \cup new
      /\ \A l \in new : l.api = "tableData" /\ l.n \in Nat /\ sent < l.n /\ l.n <= sent'
      /\ \A m, l \in new : m.n = l.n => m = l
      /\ \E l \in new : l.req = Current' /\ \A m \in new : m.n <= l.n
  BY <1>5, <1>6
<1> HIDE DEF new
<1>. QED
  BY <1>5, <1>7 DEF LoadsEnough

LEMMA ChangeLoadsEnough ==
  ASSUME sent \in Nat, NEW v, NEW hasKey, NEW ks, NEW fresh, NEW rest,
         Change(v, hasKey, ks, fresh, rest), HasPrimaryKey' = hasKey
  PROVE  LoadsEnough(rest)
<1> DEFINE first  == Request(v, hasKey, ks)
           second == Request(v, hasKey, ResetKeyset(v, ks, fresh))
<1>1. Current' = second
  BY DEF Change, Current
<1>2. LoadData(rest, (IF fresh \/ first # Current THEN <<first>> ELSE <<>>) \o
                     (IF second # first THEN <<second>> ELSE <<>>))
  BY DEF Change, LoadsOf
<1> HIDE DEF first, second
<1>3. CASE (fresh \/ first # Current) /\ second # first
  <2>1. LoadData(rest, <<first>> \o <<second>>)
    BY <1>2, <1>3
  <2>. QED
    BY <1>1, <2>1, LoadTwo
<1>4. CASE (fresh \/ first # Current) /\ second = first
  <2>1. LoadData(rest, <<first>> \o <<>>)
    BY <1>2, <1>4
  <2>2. <<first>> \o <<>> = <<first>>
    OBVIOUS
  <2>. QED
    BY <1>1, <1>4, <2>1, <2>2, LoadOne
<1>5. CASE ~(fresh \/ first # Current) /\ second # first
  <2>1. LoadData(rest, <<>> \o <<second>>)
    BY <1>2, <1>5
  <2>2. <<>> \o <<second>> = <<second>>
    OBVIOUS
  <2>. QED
    BY <1>1, <2>1, <2>2, LoadOne
<1>6. CASE ~(fresh \/ first # Current) /\ second = first
  <2>1. LoadData(rest, <<>> \o <<>>)
    BY <1>2, <1>6
  <2>2. <<>> \o <<>> = <<>>
    OBVIOUS
  <2>3. LoadData(rest, <<>>)
    BY <2>1, <2>2
  <2>4. calls' = rest /\ sent' = sent /\ error' = error
    BY <2>3 DEF LoadData
  <2>. QED
    BY <1>1, <1>6, <2>4 DEF LoadsEnough
<1>. QED
  BY <1>3, <1>4, <1>5, <1>6

-----------------------------------------------------------------------------
(* Unless an answer came out of turn, the load sent last is on its way and *)
(* asks for what the controls ask for, or it was the last to be answered.  *)
PagesInv ==
  /\ sent \in Nat
  /\ \A k \in calls : k.n \in Nat /\ k.n <= sent
  /\ \A k, l \in Pending("tableData") : k.n = l.n => k = l
  /\ ~overtaken =>
       \/ \E k \in Pending("tableData") :
            k.req = Current /\ \A l \in Pending("tableData") : l.n <= k.n
       \/ Pending("tableData") = {} /\ (GridUp => data.req = Current)

LEMMA LoadsKeepPagesInv ==
  ASSUME PagesInv, NEW rest, LoadsEnough(rest), UNCHANGED data, ~overtaken' => ~overtaken,
         \A k \in rest : k.n \in Nat /\ k.n <= sent,
         \A k : k.api = "tableData" => (k \in rest <=> k \in calls)
  PROVE  PagesInv'
<1>1. CASE calls' = rest /\ sent' = sent /\ error' = error /\ Current' = Current
  <2>1. Pending("tableData")' = Pending("tableData")
    BY <1>1 DEF Pending
  <2>. QED
    BY <1>1, <2>1 DEF PagesInv, GridUp
<1>2. ASSUME sent' \in Nat, sent < sent', NEW new, calls' = rest \cup new,
             \A k \in new : k.api = "tableData" /\ k.n \in Nat /\ sent < k.n /\ k.n <= sent',
             \A k, l \in new : k.n = l.n => k = l,
             \E k \in new : k.req = Current' /\ \A l \in new : l.n <= k.n
      PROVE  PagesInv'
  <2>1. \A k \in calls' : k.n \in Nat /\ k.n <= sent'
    BY <1>2 DEF PagesInv
  <2>2. Pending("tableData")' = Pending("tableData") \cup new
    BY <1>2 DEF Pending
  <2>3. \A k \in Pending("tableData") : k.n \in Nat /\ k.n <= sent
    BY DEF PagesInv, Pending
  <2>4. \A k, l \in Pending("tableData")' : k.n = l.n => k = l
    BY <1>2, <2>2, <2>3 DEF PagesInv
  <2>5. \E k \in Pending("tableData")' :
          k.req = Current' /\ \A l \in Pending("tableData")' : l.n <= k.n
    <3>1. PICK k \in new : k.req = Current' /\ \A l \in new : l.n <= k.n
      BY <1>2
    <3>2. \A l \in Pending("tableData") : l.n <= k.n
      BY <1>2, <2>3, <3>1 DEF PagesInv
    <3>. QED
      BY <2>2, <3>1, <3>2
  <2>. QED
    BY <1>2, <2>1, <2>4, <2>5 DEF PagesInv
<1>. QED
  BY <1>1, <1>2 DEF LoadsEnough

(* The steps that change the view.                                         *)
LEMMA ViewChangeKeeps ==
  ASSUME PagesInv, NEW v, NEW fresh, ViewChange(v, fresh) PROVE PagesInv'
<1>1. sent \in Nat /\ HasPrimaryKey' = HasPrimaryKey
  BY DEF ViewChange, HasPrimaryKey, PagesInv
<1>2. LoadsEnough(calls)
  BY <1>1, ChangeLoadsEnough DEF ViewChange
<1>. QED
  BY <1>2, LoadsKeepPagesInv DEF ViewChange, PagesInv

LEMMA AnswerKeeps ==
  ASSUME PagesInv, NEW k \in Pending("tableData"), AfterLoad(k),
         GridUp' => data'.req = k.req
  PROVE  PagesInv'
<1>1. Pending("tableData")' = Pending("tableData") \ {k}
  BY DEF AfterLoad, Pending
<1>2. UNCHANGED <<sent, Current>> /\ calls' \subseteq calls
  BY DEF AfterLoad, Current, HasPrimaryKey
<1>3. \A l \in Pending("tableData") : l.n \in Nat
  BY DEF PagesInv, Pending
<1>4. ASSUME ~overtaken'
      PROVE  \/ \E j \in Pending("tableData")' :
                  j.req = Current' /\ \A l \in Pending("tableData")' : l.n <= j.n
             \/ Pending("tableData")' = {} /\ (GridUp' => data'.req = Current')
  <2>1. ~overtaken /\ \A l \in Pending("tableData") : ~(l.n < k.n)
    BY <1>4 DEF AfterLoad
  <2>2. PICK j \in Pending("tableData") :
          j.req = Current /\ \A l \in Pending("tableData") : l.n <= j.n
    BY <2>1 DEF PagesInv
  <2>3. CASE j = k
    <3>1. \A l \in Pending("tableData") : l = k
      BY <1>3, <2>1, <2>2, <2>3 DEF PagesInv
    <3>. QED
      BY <1>1, <1>2, <2>2, <2>3, <3>1
  <2>4. CASE j # k
    BY <1>1, <1>2, <2>2, <2>4
  <2>. QED
    BY <2>3, <2>4
<1>. QED
  BY <1>1, <1>2, <1>4 DEF PagesInv

LEMMA PagesStep == PagesInv /\ [PagesNext]_pagesVars => PagesInv'
<1> SUFFICES ASSUME PagesInv, [PagesNext]_pagesVars PROVE PagesInv'
  OBVIOUS
<1>0. sent \in Nat /\ \A k \in calls : k.n \in Nat /\ k.n <= sent
  BY DEF PagesInv
<1>1. CASE \/ \E c \in Sortable, additive \in BOOLEAN : Sort(c, additive)
           \/ \E f \in Filters \cup {None} : ApplyFilters(f) \/ QuickFilter(f)
           \/ ClearFilters
           \/ \E w \in Words \cup {None} : SearchFor(w)
           \/ \E s \in Sizes : PickPageSize(s)
           \/ \E m \in {"offset", "keyset"} : PickPageMode(m)
           \/ \E saved \in SavedViews : ApplyTableView(saved)
           \/ PreviousPage \/ NextPage
  BY <1>1, ViewChangeKeeps DEF Sort, ApplyFilters, QuickFilter, ClearFilters, SearchFor,
     PickPageSize, PickPageMode, ApplyTableView, PreviousPage, NextPage
<1>2. ASSUME NEW ks, NEW v, KeysetStep(ks, v) PROVE PagesInv'
  <2>1. HasPrimaryKey' = HasPrimaryKey
    BY <1>2 DEF KeysetStep, HasPrimaryKey
  <2>2. LoadsEnough(calls)
    BY <1>0, <1>2, <2>1, ChangeLoadsEnough DEF KeysetStep
  <2>. QED
    BY <1>0, <1>2, <2>2, LoadsKeepPagesInv DEF KeysetStep
<1>3. CASE PreviousKeyset \/ NextKeyset
  BY <1>2, <1>3 DEF PreviousKeyset, NextKeyset
<1>4. CASE Refresh
  <2>1. Current' = Current
    BY <1>4 DEF Refresh, Current, HasPrimaryKey
  <2>2. LoadsEnough(calls)
    BY <1>0, <1>4, <2>1, LoadOne DEF Refresh
  <2>. QED
    BY <1>0, <1>4, <2>2, LoadsKeepPagesInv DEF Refresh
<1>5. CASE RefreshAll
  <2> DEFINE rest == calls \cup {[api |-> "tableStructure", n |-> 0]}
  <2>1. Current' = Current
    BY <1>5 DEF RefreshAll, Current, HasPrimaryKey
  <2>2. LoadsEnough(rest)
    BY <1>0, <1>5, <2>1, LoadOne DEF RefreshAll
  <2>3. \A k : k.api = "tableData" => (k \in rest <=> k \in calls)
    OBVIOUS
  <2>4. \A k \in rest : k.n \in Nat /\ k.n <= sent
    BY <1>0
  <2>. QED
    BY <1>5, <2>2, <2>3, <2>4, LoadsKeepPagesInv DEF RefreshAll
<1>6. ASSUME NEW s \in {"keyed", "keyless"}, StructureArrives(s) PROVE PagesInv'
  <2>1. PICK k \in Pending("tableStructure") :
          Change(view, s = "keyed", keyset, FALSE, calls \ {k})
    BY <1>6 DEF StructureArrives
  <2>2. HasPrimaryKey' = (s = "keyed")
    BY <1>6 DEF StructureArrives, HasPrimaryKey
  <2>3. LoadsEnough(calls \ {k})
    BY <1>0, <2>1, <2>2, ChangeLoadsEnough
  <2>4. \A l : l.api = "tableData" => (l \in calls \ {k} <=> l \in calls)
    BY DEF Pending
  <2>. QED
    BY <1>0, <1>6, <2>3, <2>4, LoadsKeepPagesInv DEF StructureArrives
<1>7. ASSUME NEW k \in calls, NEW a \in Answers, LoadAnswers(k, a) PROVE PagesInv'
  BY <1>7, AnswerKeeps DEF LoadAnswers
<1>8. ASSUME NEW k \in calls, LoadFails(k) PROVE PagesInv'
  BY <1>8, AnswerKeeps DEF LoadFails, GridUp
<1>9. ASSUME NEW back \in BOOLEAN, Write(back) PROVE PagesInv'
  <2> DEFINE w == [api |-> "write", n |-> sent + 1, req |-> Current, back |-> back]
  <2>1. calls' = calls \cup {w} /\ sent' = sent + 1 /\ UNCHANGED <<overtaken, data, error>>
    BY <1>9 DEF Write
  <2>2. Current' = Current
    BY <1>9 DEF Write, Current, HasPrimaryKey
  <2>3. Pending("tableData")' = Pending("tableData")
    BY <2>1 DEF Pending
  <2>4. \A k \in calls' : k.n \in Nat /\ k.n <= sent'
    BY <1>0, <2>1
  <2>. QED
    BY <1>0, <2>1, <2>2, <2>3, <2>4 DEF PagesInv, GridUp
<1>10. ASSUME NEW k \in calls, WriteSucceeds(k) PROVE PagesInv'
  <2>0. \A l : l.api = "tableData" => (l \in calls \ {k} <=> l \in calls)
    BY <1>10 DEF WriteSucceeds, Pending
  <2>1. CASE k.back
    <3>1. HasPrimaryKey' = HasPrimaryKey /\ UNCHANGED <<data, overtaken>>
      BY <1>10, <2>1 DEF WriteSucceeds, HasPrimaryKey
    <3>2. LoadsEnough(calls \ {k})
      BY <1>0, <1>10, <2>1, <3>1, ChangeLoadsEnough DEF WriteSucceeds
    <3>. QED
      BY <1>0, <2>0, <3>1, <3>2, LoadsKeepPagesInv
  <2>2. CASE ~k.back /\ k.req = Current
    <3>1. Current' = Current /\ UNCHANGED data
      BY <1>10, <2>2 DEF WriteSucceeds, Current, HasPrimaryKey
    <3>2. LoadsEnough(calls \ {k})
      BY <1>0, <1>10, <2>2, <3>1, LoadOne DEF WriteSucceeds
    <3>. QED
      BY <1>0, <1>10, <2>0, <2>2, <3>1, <3>2, LoadsKeepPagesInv DEF WriteSucceeds
  <2>3. CASE ~k.back /\ k.req # Current
    <3> DEFINE new == [api |-> "tableData", n |-> sent + 1, req |-> k.req]
    <3>1. LoadData(calls \ {k}, <<k.req>>) /\ overtaken'
      BY <1>10, <2>3 DEF WriteSucceeds
    <3>2. {[api |-> "tableData", n |-> sent + i, req |-> <<k.req>>[i]] :
             i \in DOMAIN <<k.req>>} = {new}
      OBVIOUS
    <3>3. calls' = (calls \ {k}) \cup {new} /\ sent' = sent + 1
      BY <3>1, <3>2 DEF LoadData
    <3>4. Pending("tableData")' = Pending("tableData") \cup {new}
      BY <2>0, <3>3 DEF Pending
    <3>5. \A l \in Pending("tableData") : l.n \in Nat /\ l.n <= sent
      BY DEF PagesInv, Pending
    <3>. QED
      BY <1>0, <3>1, <3>3, <3>4, <3>5 DEF PagesInv
  <2>. QED
    BY <2>1, <2>2, <2>3
<1>11. ASSUME NEW k \in calls, WriteFails(k) PROVE PagesInv'
  <2>1. Pending("tableData")' = Pending("tableData")
    BY <1>11 DEF WriteFails, Pending
  <2>2. Current' = Current
    BY <1>11 DEF WriteFails, Current, HasPrimaryKey
  <2>. QED
    BY <1>11, <2>1, <2>2 DEF WriteFails, PagesInv, GridUp
<1>12. CASE UNCHANGED pagesVars
  BY <1>12 DEF pagesVars, PagesInv, Pending, Current, HasPrimaryKey, GridUp
<1>. QED
  BY <1>1, <1>3, <1>4, <1>5, <1>6, <1>7, <1>8, <1>9, <1>10, <1>11, <1>12 DEF PagesNext

(* When nothing is in flight the page shown is the one the controls ask    *)
(* for, unless an answer came out of turn.                                 *)
THEOREM ShownAskedFor == PagesSpec => []ShownIsAskedFor
<1>1. PagesInit => PagesInv
  <2> SUFFICES ASSUME PagesInit PROVE PagesInv
    OBVIOUS
  <2> DEFINE structureCall == [api |-> "tableStructure", n |-> 0]
             load1 == [api |-> "tableData", n |-> 1, req |-> Request(view, FALSE, Start)]
             load2 == [api |-> "tableData", n |-> 2, req |-> Request(view, FALSE, Start)]
  <2>1. Current = Request(view, FALSE, Start)
    BY DEF PagesInit, Current, HasPrimaryKey
  <2>2. 1..2 = {1, 2}
    OBVIOUS
  <2>3. calls = {structureCall, load1, load2}
    BY <2>2 DEF PagesInit
  <2>4. /\ structureCall.api # "tableData" /\ structureCall.n = 0
        /\ load1.api = "tableData" /\ load1.n = 1
        /\ load2.api = "tableData" /\ load2.n = 2 /\ load2.req = Current
    BY <2>1
  <2> HIDE DEF structureCall, load1, load2
  <2>5. Pending("tableData") = {load1, load2}
    BY <2>3, <2>4 DEF Pending
  <2>6. sent = 2
    BY DEF PagesInit
  <2>7. \A k, l \in Pending("tableData") : k.n = l.n => k = l
    BY <2>4, <2>5
  <2>8. \E k \in Pending("tableData") :
          k.req = Current /\ \A l \in Pending("tableData") : l.n <= k.n
    BY <2>4, <2>5
  <2>9. \A k \in calls : k.n \in Nat /\ k.n <= sent
    BY <2>3, <2>4, <2>6
  <2>. QED
    BY <2>6, <2>7, <2>8, <2>9 DEF PagesInv
<1>2. PagesInv => ShownIsAskedFor
  BY DEF PagesInv, ShownIsAskedFor, Pending
<1>. QED
  BY <1>1, <1>2, PagesStep, PTL DEF PagesSpec

-----------------------------------------------------------------------------
(* A step that changes what is searched for, sorted by or how much fits on *)
(* a page leaves the keyset position at the first page.                    *)
THEOREM SearchStartsOver == PagesSpec => NewSearchStartsOver
<1>1. ASSUME NEW v, NEW hasKey, NEW ks, NEW fresh, NEW rest, Change(v, hasKey, ks, fresh, rest),
             ResetDeps(view') # ResetDeps(view)
      PROVE  keyset'.pos = 1
  BY <1>1 DEF Change, ResetKeyset, Start
<1>2. ASSUME [PagesNext]_pagesVars, ResetDeps(view') # ResetDeps(view) PROVE keyset'.pos = 1
  <2>1. view' # view
    BY <1>2
  <2>2. PagesNext /\ ~UNCHANGED view
    BY <1>2, <2>1 DEF pagesVars
  <2>3. \E v, hasKey, ks, fresh, rest : Change(v, hasKey, ks, fresh, rest)
    BY <2>2 DEF PagesNext, Sort, ApplyFilters, QuickFilter, ClearFilters, SearchFor,
       PickPageSize, PickPageMode, ApplyTableView, PreviousPage, NextPage, ViewChange,
       PreviousKeyset, NextKeyset, KeysetStep, Refresh, RefreshAll, StructureArrives,
       LoadAnswers, LoadFails, AfterLoad, Write, WriteSucceeds, WriteFails
  <2>. QED
    BY <1>1, <1>2, <2>3
<1>. QED
  BY <1>2, PTL DEF PagesSpec, NewSearchStartsOver

-----------------------------------------------------------------------------
(* Queued edits and the rows that show them, and the keys of both.         *)
Consistent(edits, onGrid) ==
  /\ \A c \in DOMAIN edits :
       /\ c = <<c[1], c[2]>> /\ c[1] \in DOMAIN onGrid /\ c[2] \in Columns
       /\ onGrid[c[1]].id = edits[c].pk /\ onGrid[c[1]][c[2]] = edits[c].new
       /\ c[2] = "key" => edits[c].old = onGrid[c[1]].id
  /\ \A r \in DOMAIN onGrid : <<r, "key">> \notin DOMAIN edits => onGrid[r].key = onGrid[r].id

(* Unless crossed, edits are queued only when no load is in flight and the *)
(* grid is up; what Undo restores was made at such a moment.               *)
EditsInv ==
  ~crossed =>
    /\ IF Loads = {} /\ gridUp THEN Consistent(pending, rows) ELSE pending = NoEdits
    /\ undo # NoRow => Consistent(undo.pending, undo.rows)

LEMMA NothingQueued == DOMAIN NoEdits = {}
  BY DEF NoEdits

LEMMA ServerIsConsistent ==
  ASSUME NEW page PROVE Consistent(NoEdits, FromServer(page))
  BY NothingQueued DEF Consistent, FromServer

(* What the rows look like with values put into cells.                     *)
LEMMA ValuesShown ==
  ASSUME NEW onGrid, NEW values,
         \A c \in DOMAIN values : c = <<c[1], c[2]>> /\ c[2] \in Columns
  PROVE  /\ DOMAIN WithValues(onGrid, values) = DOMAIN onGrid
         /\ \A r \in DOMAIN onGrid :
              /\ WithValues(onGrid, values)[r].id = onGrid[r].id
              /\ \A col \in Columns :
                   WithValues(onGrid, values)[r][col] =
                     IF <<r, col>> \in DOMAIN values THEN values[<<r, col>>] ELSE onGrid[r][col]
<1>1. DOMAIN WithValues(onGrid, values) = DOMAIN onGrid
  BY DEF WithValues
<1>2. ASSUME NEW r \in DOMAIN onGrid, NEW col \in {"id"} \cup Columns
      PROVE  WithValues(onGrid, values)[r][col] =
               IF <<r, col>> \in DOMAIN values THEN values[<<r, col>>] ELSE onGrid[r][col]
  BY DEF WithValues
<1>3. ASSUME NEW r PROVE <<r, "id">> \notin DOMAIN values
  BY DEF Columns
<1>4. ASSUME NEW r \in DOMAIN onGrid PROVE WithValues(onGrid, values)[r].id = onGrid[r].id
  BY <1>2, <1>3
<1>. QED
  BY <1>1, <1>2, <1>4

LEMMA QueueKeeps ==
  ASSUME EditsInv, NEW changes, NEW labelled \in BOOLEAN, QueueChanges(changes, labelled),
         \A c \in DOMAIN changes : c = <<c[1], c[2]>> /\ c[2] \in Columns,
         UNCHANGED <<gridUp, work>>
  PROVE  EditsInv'
<1> DEFINE cells == {c \in DOMAIN changes : InGrid(c[1])}
           edit(c) == [pk  |-> PkOf(c[1]), new |-> changes[c],
                       old |-> IF c \in DOMAIN pending THEN pending[c].old
                               ELSE rows[c[1]][c[2]]]
           shownNow == [c \in cells |-> changes[c]]
<1>1. CASE \E c \in cells : PkOf(c[1]) = NoRow
  BY <1>1 DEF QueueChanges, EditsInv, Loads
<1>2. CASE ~\E c \in cells : PkOf(c[1]) = NoRow
  <2>1. /\ pending' = [c \in DOMAIN pending \cup cells |->
                         IF c \in cells THEN edit(c) ELSE pending[c]]
        /\ rows' = WithValues(rows, shownNow)
        /\ undo' = IF labelled THEN [pending |-> pending, rows |-> rows] ELSE undo
        /\ crossed' = (crossed \/ Loads # {} \/ ~gridUp)
    BY <1>2 DEF QueueChanges
  <2> SUFFICES ASSUME ~crossed' PROVE EditsInv'
    BY DEF EditsInv
  <2>2. ~crossed /\ Loads = {} /\ gridUp /\ Loads' = {} /\ gridUp'
    BY <2>1 DEF Loads
  <2>3. Consistent(pending, rows)
    BY <2>2 DEF EditsInv
  <2>4. \A c \in cells : c \in DOMAIN changes /\ c = <<c[1], c[2]>> /\ c[2] \in Columns /\ c[1] \in DOMAIN rows
    BY DEF InGrid
  <2>5. ASSUME NEW c \in cells PROVE PkOf(c[1]) = rows[c[1]].id
    <3>1. CASE RowEdits(c[1]) # {}
      <4>1. (CHOOSE e \in RowEdits(c[1]) : TRUE) \in RowEdits(c[1])
        BY <3>1
      <4>. QED
        BY <2>3, <3>1, <4>1 DEF PkOf, RowEdits, Consistent
    <3>2. CASE RowEdits(c[1]) = {}
      <4>1. <<c[1], "key">> \notin DOMAIN pending
        BY <3>2 DEF RowEdits
      <4>2. PkOf(c[1]) = BuildPrimaryKey(c[1]) /\ PkOf(c[1]) # NoRow
        BY <1>2, <3>2 DEF PkOf
      <4>. QED
        BY <2>3, <2>4, <4>1, <4>2 DEF BuildPrimaryKey, Consistent
    <3>. QED
      BY <3>1, <3>2
  <2>6. /\ DOMAIN rows' = DOMAIN rows
        /\ \A r \in DOMAIN rows :
             /\ rows'[r].id = rows[r].id
             /\ \A col \in Columns :
                  rows'[r][col] = IF <<r, col>> \in cells THEN changes[<<r, col>>]
                                  ELSE rows[r][col]
    <3>1. DOMAIN shownNow = cells /\ \A c \in cells : shownNow[c] = changes[c]
      OBVIOUS
    <3>2. \A c \in DOMAIN shownNow : c = <<c[1], c[2]>> /\ c[2] \in Columns
      BY <2>4, <3>1
    <3> HIDE DEF shownNow, cells
    <3>. QED
      BY <2>1, <3>1, <3>2, ValuesShown
  <2>7. DOMAIN pending' = DOMAIN pending \cup cells
    BY <2>1
  <2>8. ASSUME NEW c \in cells
        PROVE  /\ pending'[c].pk = rows[c[1]].id /\ pending'[c].new = changes[c]
               /\ pending'[c].old = IF c \in DOMAIN pending THEN pending[c].old
                                    ELSE rows[c[1]][c[2]]
    <3>1. pending'[c] = edit(c)
      BY <2>1
    <3>. QED
      BY <2>5, <3>1
  <2>9. \A c \in DOMAIN pending \ cells : pending'[c] = pending[c]
    BY <2>1
  <2> HIDE DEF cells, edit, shownNow
  <2>10. ASSUME NEW c \in DOMAIN pending'
         PROVE  /\ c = <<c[1], c[2]>> /\ c[1] \in DOMAIN rows' /\ c[2] \in Columns
                /\ rows'[c[1]].id = pending'[c].pk /\ rows'[c[1]][c[2]] = pending'[c].new
                /\ c[2] = "key" => pending'[c].old = rows'[c[1]].id
    <3>1. CASE c \in cells
      <4>1. c = <<c[1], c[2]>> /\ c[1] \in DOMAIN rows' /\ c[2] \in Columns
        BY <2>4, <2>6, <3>1
      <4>2. rows'[c[1]][c[2]] = changes[<<c[1], c[2]>>]
        BY <2>6, <3>1, <4>1
      <4>3. ASSUME c[2] = "key" PROVE pending'[c].old = rows[c[1]].id
        <5>1. CASE c \in DOMAIN pending
          BY <2>3, <2>8, <3>1, <4>3, <5>1 DEF Consistent
        <5>2. CASE c \notin DOMAIN pending
          <6>1. rows[c[1]]["key"] = rows[c[1]].id
            BY <2>3, <2>6, <4>1, <4>3, <5>2 DEF Consistent
          <6>. QED
            BY <2>8, <3>1, <4>3, <5>2, <6>1
        <5>. QED
          BY <5>1, <5>2
      <4>. QED
        BY <2>6, <2>8, <3>1, <4>1, <4>2, <4>3
    <3>2. CASE c \notin cells
      <4>1. c \in DOMAIN pending /\ pending'[c] = pending[c]
        BY <2>7, <2>9, <3>2
      <4>2. /\ c = <<c[1], c[2]>> /\ c[1] \in DOMAIN rows /\ c[2] \in Columns
            /\ rows[c[1]].id = pending[c].pk /\ rows[c[1]][c[2]] = pending[c].new
            /\ c[2] = "key" => pending[c].old = rows[c[1]].id
        BY <2>3, <4>1 DEF Consistent
      <4>3. rows'[c[1]].id = rows[c[1]].id /\ rows'[c[1]][c[2]] = rows[c[1]][c[2]]
        BY <2>6, <3>2, <4>2
      <4>. QED
        BY <2>6, <4>1, <4>2, <4>3
    <3>. QED
      BY <3>1, <3>2
  <2>11. ASSUME NEW r \in DOMAIN rows', <<r, "key">> \notin DOMAIN pending'
         PROVE  rows'[r].key = rows'[r].id
    <3>1. r \in DOMAIN rows /\ <<r, "key">> \notin cells /\ <<r, "key">> \notin DOMAIN pending
      BY <2>6, <2>7, <2>11
    <3>2. rows[r].key = rows[r].id /\ "key" \in Columns
      BY <2>3, <3>1 DEF Consistent, Columns
    <3>. QED
      BY <2>6, <3>1, <3>2
  <2>12. Consistent(pending', rows')
    BY <2>10, <2>11 DEF Consistent
  <2>13. undo' # NoRow => Consistent(undo'.pending, undo'.rows)
    <3>1. CASE labelled
      <4>1. undo'.pending = pending /\ undo'.rows = rows
        BY <2>1, <3>1
      <4>. QED
        BY <2>3, <4>1
    <3>2. CASE ~labelled
      BY <2>1, <2>2, <3>2 DEF EditsInv
    <3>. QED
      BY <3>1, <3>2
  <2>. QED
    BY <2>2, <2>12, <2>13 DEF EditsInv
<1>. QED
  BY <1>1, <1>2

(* Starting a load drops the edits; what leaves loads, rows and edits alone*)
(* keeps all.                                                              *)
LEMMA LoadStarted ==
  ASSUME EditsInv, NEW rest, NEW n, NEW then, StartLoad(rest, n, then),
         UNCHANGED <<undo, crossed>>
  PROVE  EditsInv'
<1> DEFINE load == [api |-> "tableData", n |-> n, keys |-> {}, then |-> then]
<1>1. load \in work' /\ load.api = "tableData" /\ pending' = NoEdits
  BY DEF StartLoad
<1> HIDE DEF load
<1>. QED
  BY <1>1 DEF EditsInv, Loads

LEMMA LoadsStay ==
  ASSUME EditsInv, Loads' = Loads, UNCHANGED <<rows, gridUp, pending, undo, crossed>>
  PROVE  EditsInv'
  BY DEF EditsInv

LEMMA EditsStep == EditsInv /\ [EditsNext]_editsVars => EditsInv'
<1> SUFFICES ASSUME EditsInv, [EditsNext]_editsVars PROVE EditsInv'
  OBVIOUS
<1>0. ASSUME NEW api, NEW keys, NEW then, api # "tableData", StartWrite(api, keys, then)
      PROVE  Loads' = Loads
  <2> DEFINE write == [api |-> api, n |-> made + 1, keys |-> keys, then |-> then]
  <2>1. write.api = api /\ work' = work \cup {write}
    BY <1>0 DEF StartWrite
  <2> HIDE DEF write
  <2>. QED
    BY <1>0, <2>1 DEF Loads
<1>1. CASE Reload
  BY <1>1, LoadStarted DEF Reload
<1>2. ASSUME NEW w \in work, NEW page \in PagesOfRows, RowsArrive(w, page) PROVE EditsInv'
  <2>1. ASSUME ~crossed PROVE pending = NoEdits
    BY <1>2, <2>1 DEF EditsInv, RowsArrive
  <2>. QED
    BY <1>2, <2>1, ServerIsConsistent DEF EditsInv, RowsArrive
<1>3. ASSUME NEW w \in work, LoadGivesUp(w) PROVE EditsInv'
  BY <1>3 DEF EditsInv, LoadGivesUp
<1>4. ASSUME NEW w \in work, Written(w) PROVE EditsInv'
  BY <1>4, LoadStarted DEF Written
<1>5. ASSUME NEW w \in work, WriteRefused(w) PROVE EditsInv'
  <2>1. Loads' = Loads
    BY <1>5 DEF WriteRefused, Writes, Loads
  <2>. QED
    BY <1>5, <2>1, LoadsStay DEF WriteRefused
<1>6. ASSUME NEW r \in DOMAIN rows, NEW col \in Columns, NEW v,
             CommitEdit(r, col, v) \/ UpdateCell(r, col, v)
      PROVE  EditsInv'
  <2> DEFINE changes == [c \in {<<r, col>>} |-> v]
  <2>1. QueueChanges(changes, FALSE) /\ UNCHANGED <<gridUp, work>>
    BY <1>6 DEF CommitEdit, UpdateCell
  <2>2. \A c \in DOMAIN changes : c = <<c[1], c[2]>> /\ c[2] \in Columns
    OBVIOUS
  <2> HIDE DEF changes
  <2>. QED
    BY <2>1, <2>2, QueueKeeps
<1>7. ASSUME NEW rs, NEW labelled \in BOOLEAN,
             QueueChanges([c \in {<<r, "val">> : r \in rs} |-> "new"], labelled),
             UNCHANGED <<gridUp, work>>
      PROVE  EditsInv'
  <2> DEFINE changes == [c \in {<<r, "val">> : r \in rs} |-> "new"]
  <2>1. QueueChanges(changes, labelled)
    BY <1>7
  <2>2. \A c \in DOMAIN changes : c = <<c[1], c[2]>> /\ c[2] \in Columns
    BY DEF Columns
  <2> HIDE DEF changes
  <2>. QED
    BY <1>7, <2>1, <2>2, QueueKeeps
<1>8. ASSUME NEW r \in DOMAIN rows, ApplyPaste(r) PROVE EditsInv'
  BY <1>7, <1>8 DEF ApplyPaste
<1>9. ASSUME NEW targets, BulkEdit(targets) PROVE EditsInv'
  BY <1>7, <1>9 DEF BulkEdit
<1>10. ASSUME NEW r \in DOMAIN rows, ConfirmDelete(r) PROVE EditsInv'
  <2>1. Loads' = Loads
    BY <1>0, <1>10 DEF ConfirmDelete, Loads
  <2>. QED
    BY <1>10, <2>1, LoadsStay DEF ConfirmDelete
<1>11. CASE Undo
  <2>1. Loads' = Loads
    BY <1>11 DEF Undo, Loads
  <2>. QED
    BY <1>11, <2>1 DEF EditsInv, Undo
<1>12. CASE RollbackPending
  <2> SUFFICES ASSUME ~crossed PROVE EditsInv'
    BY <1>12 DEF EditsInv, RollbackPending
  <2>1. pending # NoEdits /\ pending' = NoEdits /\ Loads' = Loads
    BY <1>12 DEF RollbackPending, BatchBar, Loads
  <2>2. Loads = {} /\ gridUp /\ Consistent(pending, rows)
    BY <2>1 DEF EditsInv
  <2> DEFINE olds == [c \in DOMAIN pending |-> pending[c].old]
  <2>3. DOMAIN olds = DOMAIN pending /\ \A c \in DOMAIN pending : olds[c] = pending[c].old
    OBVIOUS
  <2>4. \A c \in DOMAIN olds : c = <<c[1], c[2]>> /\ c[2] \in Columns
    BY <2>2 DEF Consistent
  <2>5. rows' = WithValues(rows, olds)
    BY <1>12 DEF RollbackPending
  <2> HIDE DEF olds
  <2>6. /\ DOMAIN rows' = DOMAIN rows
        /\ \A r \in DOMAIN rows :
             /\ rows'[r].id = rows[r].id
             /\ \A col \in Columns :
                  rows'[r][col] = IF <<r, col>> \in DOMAIN olds THEN olds[<<r, col>>]
                                  ELSE rows[r][col]
    BY <2>4, <2>5, ValuesShown
  <2>7. ASSUME NEW r \in DOMAIN rows PROVE rows'[r].key = rows'[r].id
    <3>1. "key" \in Columns
      BY DEF Columns
    <3>2. CASE <<r, "key">> \in DOMAIN pending
      <4>1. pending[<<r, "key">>].old = rows[r].id
        BY <2>2, <3>2 DEF Consistent
      <4>. QED
        BY <2>3, <2>6, <3>1, <3>2, <4>1
    <3>3. CASE <<r, "key">> \notin DOMAIN pending
      <4>1. rows[r].key = rows[r].id
        BY <2>2, <3>3 DEF Consistent
      <4>. QED
        BY <2>3, <2>6, <3>1, <3>3, <4>1
    <3>. QED
      BY <3>2, <3>3
  <2>8. Consistent(pending', rows')
    BY <2>1, <2>6, <2>7, NothingQueued DEF Consistent
  <2>. QED
    BY <1>12, <2>8 DEF EditsInv, RollbackPending, Loads
<1>13. CASE CommitPending
  BY <1>0, <1>13, LoadsStay DEF CommitPending
<1>14. CASE ConfirmBulkDelete
  BY <1>0, <1>14, LoadsStay DEF ConfirmBulkDelete
<1>15. ASSUME NEW duplicates \in BOOLEAN, InsertRows(duplicates) PROVE EditsInv'
  BY <1>0, <1>15, LoadsStay DEF InsertRows
<1>16. ASSUME NEW chosen, Select(chosen) PROVE EditsInv'
  BY <1>16, LoadsStay DEF Select, Loads
<1>17. CASE UNCHANGED editsVars
  BY <1>17, LoadsStay DEF editsVars, Loads
<1>. QED
  BY <1>1, <1>2, <1>3, <1>4, <1>5, <1>6, <1>8, <1>9, <1>10, <1>11, <1>12, <1>13, <1>14,
     <1>15, <1>16, <1>17 DEF EditsNext

(* A queued edit shows in its row and carries the key that row has in the  *)
(* table, unless it was queued or undone while a load was in flight or     *)
(* after it failed.                                                        *)
THEOREM EditsNamed == EditsSpec => []EditsNameTheirRow
<1>1. EditsInit => EditsInv
  BY ServerIsConsistent DEF EditsInit, EditsInv, Loads
<1>2. EditsInv => EditsNameTheirRow
  <2> SUFFICES ASSUME EditsInv, ~crossed PROVE RowsShowEdits
    BY DEF EditsNameTheirRow
  <2>1. CASE pending = NoEdits
    BY <2>1, NothingQueued DEF RowsShowEdits
  <2>2. CASE Consistent(pending, rows)
    BY <2>2 DEF RowsShowEdits, Consistent, InGrid
  <2>. QED
    BY <2>1, <2>2 DEF EditsInv
<1>. QED
  BY <1>1, <1>2, EditsStep, PTL DEF EditsSpec

-----------------------------------------------------------------------------
(* The grid: its columns as they are kept, its selections and ranges. *)

LEMMA DefaultIsPrefs == DefaultPrefs \in Prefs
<1> DEFINE none == [c \in {} |-> "wide"]
<1>1. none \in [{} -> Widths]
  OBVIOUS
<1>2. none \in UNION {[S -> Widths] : S \in SUBSET GridColumns}
  BY <1>1
<1> HIDE DEF none
<1>3. [widths |-> none, hidden |-> {}, frozen |-> {}] \in Prefs
  BY <1>2 DEF Prefs
<1>. QED
  BY <1>3 DEF DefaultPrefs, none

LEMMA WidthSet ==
  ASSUME prefs \in Prefs, NEW column \in GridColumns, NEW width \in Widths
  PROVE  [prefs EXCEPT !.widths =
            [c \in DOMAIN @ \cup {column} |-> IF c = column THEN width ELSE @[c]]] \in Prefs
<1> DEFINE w == prefs.widths
<1> DEFINE new == [c \in DOMAIN w \cup {column} |-> IF c = column THEN width ELSE w[c]]
<1>1. PICK S \in SUBSET GridColumns : w \in [S -> Widths]
  BY DEF Prefs
<1>2. new \in [S \cup {column} -> Widths] /\ S \cup {column} \in SUBSET GridColumns
  BY <1>1
<1>3. new \in UNION {[T -> Widths] : T \in SUBSET GridColumns}
  BY <1>2
<1> HIDE DEF new
<1>4. [prefs EXCEPT !.widths = new] \in Prefs
  BY <1>3 DEF Prefs
<1>. QED
  BY <1>4 DEF new

-----------------------------------------------------------------------------
(* Preferences are saved when they change, unless a column is resized, a   *)
(* write failed or another window wrote its own.                           *)
ColumnsInv ==
  /\ prefs \in Prefs /\ LoadPrefs(stored) \in Prefs
  /\ resizing # NoRowYet => resizing \in GridColumns
  /\ ColumnsAreSaved

(* What is saved is what is loaded again.                                  *)
LEMMA SavedIsLoaded ==
  ASSUME NEW next \in Prefs PROVE LoadPrefs(next) = next
  BY GridAssumption DEF LoadPrefs

(* A write, or one that failed, leaves the columns as they should be.      *)
LEMMA StoreKeeps ==
  ASSUME ColumnsInv, NEW next \in Prefs, StorePrefs(next), prefs' = next,
         resizing' # NoRowYet => resizing' \in GridColumns
  PROVE  ColumnsInv'
<1>1. CASE stored' = next /\ unsaved' = FALSE
  <2>1. LoadPrefs(stored)' = next
    BY <1>1, SavedIsLoaded DEF LoadPrefs
  <2>. QED
    BY <2>1 DEF ColumnsInv, ColumnsAreSaved
<1>2. CASE stored' = stored /\ unsaved' = TRUE
  BY <1>2 DEF ColumnsInv, ColumnsAreSaved, LoadPrefs
<1>. QED
  BY <1>1, <1>2 DEF StorePrefs

LEMMA ColumnsStep == ColumnsInv /\ [GridNext]_gridVars => ColumnsInv'
<1> SUFFICES ASSUME ColumnsInv, [GridNext]_gridVars PROVE ColumnsInv'
  OBVIOUS
<1>1. ASSUME UNCHANGED prefsVars PROVE ColumnsInv'
  BY <1>1 DEF prefsVars, ColumnsInv, ColumnsAreSaved, LoadPrefs
<1>2. ASSUME NEW next \in Prefs, SavePrefs(next), UNCHANGED resizing PROVE ColumnsInv'
  BY <1>2, StoreKeeps DEF SavePrefs, ColumnsInv
<1>3. CASE RowsNext /\ ~MouseUp
  BY <1>1, <1>3 DEF RowsNext, RowsChange, ToggleRow, DragOver, OnRowMouseDown, ToggleAll,
     SelectAllKey
<1>4. CASE MouseUp
  <2>1. CASE resizing = NoRowYet
    BY <1>1, <1>4, <2>1 DEF MouseUp, prefsVars
  <2>2. CASE resizing # NoRowYet
    <3>1. StorePrefs(prefs) /\ prefs' = prefs /\ resizing' = NoRowYet /\ prefs \in Prefs
      BY <1>4, <2>2 DEF MouseUp, ColumnsInv
    <3>. QED
      BY <3>1, StoreKeeps
  <2>. QED
    BY <2>1, <2>2
<1>5. CASE FiltersNext
  BY <1>1, <1>5 DEF FiltersNext, TypeFilter, FilterByValue, ApplyQuickFilters, ClearQuickFilters
<1>6. CASE \/ \E n \in RowCounts : RowsChange(n)
           \/ \E cell \in Cells : \/ OnCellMouseEnter(cell)
                                  \/ \E x \in BOOLEAN : OnCellMouseDown(cell, x)
           \/ KeysNext
  BY <1>1, <1>6 DEF RowsChange, OnCellMouseEnter, OnCellMouseDown, KeysNext, MoveFocus, Escape
<1>7. CASE GridReopens
  BY <1>7 DEF GridReopens, ColumnsInv, ColumnsAreSaved, LoadPrefs
<1>8. ASSUME NEW column \in GridColumns, NEW on \in BOOLEAN, SetHidden(column, on)
      PROVE  ColumnsInv'
  <2> DEFINE next == [prefs EXCEPT !.hidden = IF on THEN @ \cup {column} ELSE @ \ {column}]
  <2>1. next \in Prefs
    BY DEF ColumnsInv, Prefs
  <2>2. SavePrefs(next) /\ UNCHANGED resizing
    BY <1>8 DEF SetHidden
  <2>. QED
    BY <1>2, <2>1, <2>2
<1>9. ASSUME NEW column \in GridColumns, NEW on \in BOOLEAN, SetFrozen(column, on)
      PROVE  ColumnsInv'
  <2> DEFINE next == [prefs EXCEPT !.frozen = IF on THEN @ \cup {column} ELSE @ \ {column}]
  <2>1. next \in Prefs
    BY DEF ColumnsInv, Prefs
  <2>2. SavePrefs(next) /\ UNCHANGED resizing
    BY <1>9 DEF SetFrozen
  <2>. QED
    BY <1>2, <2>1, <2>2
<1>10. ASSUME NEW column \in GridColumns, FreezeUpTo(column) PROVE ColumnsInv'
  <2> DEFINE next == [prefs EXCEPT !.frozen = (1..column) \ prefs.hidden]
  <2>1. 1..column \subseteq GridColumns
    BY GridAssumption DEF GridColumns
  <2>2. next \in Prefs
    BY <2>1 DEF ColumnsInv, Prefs
  <2>3. SavePrefs(next) /\ UNCHANGED resizing
    BY <1>10 DEF FreezeUpTo
  <2>. QED
    BY <1>2, <2>2, <2>3
<1>11. CASE ResetPrefs
  BY <1>2, <1>11, DefaultIsPrefs DEF ResetPrefs
<1>12. ASSUME NEW column \in GridColumns, StartResize(column) PROVE ColumnsInv'
  BY <1>12, GridAssumption DEF StartResize, ColumnsInv, ColumnsAreSaved, GridColumns
<1>13. ASSUME NEW width \in Widths, ResizeTo(width) PROVE ColumnsInv'
  <2>1. prefs' \in Prefs
    BY <1>13, WidthSet DEF ResizeTo, ColumnsInv
  <2>. QED
    BY <1>13, <2>1 DEF ResizeTo, ColumnsInv, ColumnsAreSaved
<1>14. CASE UNCHANGED gridVars
  BY <1>1, <1>14 DEF gridVars, prefsVars
<1>15. CASE OtherWindowSaves
  <2>1. stored' \in Prefs /\ LoadPrefs(stored)' = stored'
    BY <1>15, GridAssumption, SavedIsLoaded DEF OtherWindowSaves, LoadPrefs
  <2>. QED
    BY <1>15, <2>1 DEF OtherWindowSaves, ColumnsInv, ColumnsAreSaved
<1>. QED
  BY <1>3, <1>4, <1>5, <1>6, <1>7, <1>8, <1>9, <1>10, <1>11, <1>12, <1>13, <1>14,
     <1>15 DEF GridNext, CellsNext, StorageNext, ColumnsNext, RowsNext

LEMMA ColumnsStart == GridInit => ColumnsInv
  BY DefaultIsPrefs DEF GridInit, ColumnsInv, ColumnsAreSaved, LoadPrefs

(* What the grid shows is what it would show when opened again, unless a   *)
(* column is being resized, the last write failed or another window wrote. *)
THEOREM ColumnsSaved == GridSpec => []ColumnsAreSaved
<1>1. ColumnsInv => ColumnsAreSaved
  BY DEF ColumnsInv
<1>. QED
  BY <1>1, ColumnsStart, ColumnsStep, PTL DEF GridSpec

-----------------------------------------------------------------------------
(* The number of visible columns, which a range counts.                    *)
LEMMA GridIsFinite == IsFiniteSet(GridColumns)
  BY GridAssumption, FS_Interval DEF GridColumns

LEMMA VisibleColumns ==
  ASSUME prefs \in Prefs
  PROVE  /\ IsFiniteSet(GridColumns \ prefs.hidden)
         /\ NVisible \in Nat
<1>1. IsFiniteSet(GridColumns)
  BY GridIsFinite
<1>2. IsFiniteSet(GridColumns \ prefs.hidden)
  BY <1>1, FS_Difference
<1>. QED
  BY <1>2, FS_CardinalityType DEF NVisible

(* Showing a column takes none away.                                       *)
LEMMA ShowingKeeps ==
  ASSUME prefs \in Prefs, prefs' \in Prefs, prefs'.hidden \subseteq prefs.hidden
  PROVE  1..NVisible \subseteq (1..NVisible)'
<1>1. GridColumns \ prefs.hidden \subseteq GridColumns \ prefs'.hidden
  OBVIOUS
<1>2. IsFiniteSet(GridColumns \ prefs'.hidden) /\ NVisible' \in Nat
  <2>1. IsFiniteSet(GridColumns)
    BY GridIsFinite
  <2>2. IsFiniteSet(GridColumns \ prefs'.hidden)
    BY <2>1, FS_Difference
  <2>. QED
    BY <2>2, FS_CardinalityType DEF NVisible
<1>3. Cardinality(GridColumns \ prefs.hidden) <= Cardinality(GridColumns \ prefs'.hidden)
  BY <1>1, <1>2, FS_Subset
<1>4. NVisible <= NVisible'
  BY <1>3 DEF NVisible
<1>. QED
  BY <1>2, <1>4, VisibleColumns

RowsStay ==
  dragBase \cup ({dragAnchor} \ {NoRowYet}) \subseteq 1..gridRows => SelectionIsOnThePage

RangeStays ==
  range # NoRange => range.anchor.c \in 1..NVisible /\ range.focus.c \in 1..NVisible

LEMMA RowsStayStep ==
  RowsStay /\ gridRows \in Nat /\ RowCounts \subseteq Nat /\ [GridNext]_gridVars => RowsStay'
<1> SUFFICES ASSUME RowsStay, gridRows \in Nat, [GridNext]_gridVars PROVE RowsStay'
  OBVIOUS
<1> USE DEF RowsStay, SelectionIsOnThePage
<1>1. ASSUME UNCHANGED <<picked, dragAnchor, dragBase, gridRows>> PROVE RowsStay'
  BY <1>1
<1>2. ASSUME NEW n, RowsChange(n) PROVE RowsStay'
  BY <1>2 DEF RowsChange
<1>3. ASSUME NEW r \in 1..gridRows, ToggleRow(r) PROVE RowsStay'
  BY <1>3 DEF ToggleRow
<1>4. ASSUME NEW r \in 1..gridRows, DragOver(r) PROVE RowsStay'
  <2> SUFFICES ASSUME dragBase \subseteq 1..gridRows, dragAnchor \in 1..gridRows
               PROVE  dragBase \cup Between(dragAnchor, r) \subseteq 1..gridRows
    BY <1>4 DEF DragOver
  <2>. QED
    BY DEF Between, Least, Largest
<1>5. ASSUME NEW r \in 1..gridRows, NEW how, OnRowMouseDown(r, how) PROVE RowsStay'
  <2>1. CASE how = "extend" /\ dragAnchor # NoRowYet
    <3> SUFFICES ASSUME dragBase \subseteq 1..gridRows, dragAnchor \in 1..gridRows
                 PROVE  dragBase \cup Between(dragAnchor, r) \subseteq 1..gridRows
      BY <1>5, <2>1 DEF OnRowMouseDown
    <3>. QED
      BY DEF Between, Least, Largest
  <2>2. CASE ~(how = "extend" /\ dragAnchor # NoRowYet)
    BY <1>5, <2>2 DEF OnRowMouseDown
  <2>. QED
    BY <2>1, <2>2
<1>6. CASE ToggleAll \/ SelectAllKey
  BY <1>6 DEF ToggleAll, SelectAllKey
<1>7. CASE MouseUp
  BY <1>1, <1>7 DEF MouseUp
<1>8. CASE FiltersNext
  BY <1>1, <1>8 DEF FiltersNext, TypeFilter, FilterByValue, ApplyQuickFilters,
     ClearQuickFilters, selectionVars
<1>9. CASE \/ \E cell \in Cells : \/ OnCellMouseEnter(cell)
                                  \/ \E x \in BOOLEAN : OnCellMouseDown(cell, x)
           \/ KeysNext
  BY <1>1, <1>9 DEF OnCellMouseEnter, OnCellMouseDown, KeysNext, MoveFocus, Escape, selectionVars
<1>10. CASE GridReopens
  BY <1>10 DEF GridReopens
<1>11. CASE ColumnsNext
  BY <1>1, <1>11 DEF ColumnsNext, SetHidden, SetFrozen, FreezeUpTo, ResetPrefs, StartResize,
     ResizeTo, selectionVars
<1>12. CASE UNCHANGED gridVars
  BY <1>1, <1>12 DEF gridVars
<1>13. CASE OtherWindowSaves
  BY <1>1, <1>13 DEF OtherWindowSaves, selectionVars
<1>. QED
  BY <1>2, <1>3, <1>4, <1>5, <1>6, <1>7, <1>8, <1>9, <1>10, <1>11, <1>12, <1>13
     DEF GridNext, CellsNext, StorageNext, RowsNext

LEMMA RangeStaysStep ==
  RangeStays /\ ColumnsInv /\ ColumnsInv' /\ gridRows \in Nat /\ [GridNext]_gridVars
    => RangeStays'
<1> SUFFICES ASSUME RangeStays, ColumnsInv, ColumnsInv', gridRows \in Nat,
                    [GridNext]_gridVars
             PROVE  RangeStays'
  OBVIOUS
<1>0. NVisible \in Nat /\ prefs \in Prefs /\ prefs' \in Prefs
  BY VisibleColumns DEF ColumnsInv
<1>1. ASSUME UNCHANGED range, prefs'.hidden = prefs.hidden PROVE RangeStays'
  BY <1>1 DEF RangeStays, NVisible
<1>2. ASSUME UNCHANGED range, prefs'.hidden \subseteq prefs.hidden PROVE RangeStays'
  BY <1>0, <1>2, ShowingKeeps DEF RangeStays
<1>3. ASSUME range' = NoRange PROVE RangeStays'
  BY <1>3 DEF RangeStays
<1>4. CASE RowsNext
  BY <1>1, <1>4 DEF RowsNext, RowsChange, ToggleRow, DragOver, OnRowMouseDown, ToggleAll,
     SelectAllKey, MouseUp, rangeVars, prefsVars
<1>5. CASE FiltersNext
  BY <1>1, <1>5 DEF FiltersNext, TypeFilter, FilterByValue, ApplyQuickFilters,
     ClearQuickFilters, rangeVars, prefsVars
<1>6. ASSUME NEW cell \in Cells, NEW x \in BOOLEAN, OnCellMouseDown(cell, x) PROVE RangeStays'
  BY <1>6 DEF OnCellMouseDown, RangeStays, Cells, NVisible, prefsVars
<1>7. ASSUME NEW cell \in Cells, OnCellMouseEnter(cell) PROVE RangeStays'
  <2>1. range' = [range EXCEPT !.focus = cell] /\ range # NoRange /\ cell.c \in 1..NVisible
    BY <1>7 DEF OnCellMouseEnter, Cells
  <2>2. UNCHANGED NVisible
    BY <1>7 DEF OnCellMouseEnter, prefsVars, NVisible
  <2>. QED
    BY <2>1, <2>2 DEF RangeStays
<1>8. ASSUME NEW axis, NEW back \in BOOLEAN, NEW extend \in BOOLEAN, MoveFocus(axis, back, extend)
      PROVE  RangeStays'
  <2> DEFINE corner == [r |-> 1, c |-> 1]
             base == IF range = NoRange THEN [anchor |-> corner, focus |-> corner] ELSE range
             next == IF axis = "row"
                     THEN [r |-> Step(base.focus.r, back, gridRows),
                           c |-> Kept(base.focus.c, NVisible)]
                     ELSE [r |-> Kept(base.focus.r, gridRows),
                           c |-> Step(base.focus.c, back, NVisible)]
  <2>1. NVisible > 0 /\ UNCHANGED NVisible
    BY <1>8 DEF MoveFocus, prefsVars, NVisible
  <2>2. base.focus.c \in 1..NVisible /\ base.anchor.c \in 1..NVisible
    BY <1>0, <2>1 DEF RangeStays
  <2>3. range' = [anchor |-> IF extend THEN base.anchor ELSE next, focus |-> next]
    BY <1>8 DEF MoveFocus
  <2> HIDE DEF base
  <2>4. Kept(base.focus.c, NVisible) \in 1..NVisible
    BY <1>0, <2>1, <2>2 DEF Kept, Least, Largest
  <2>5. Step(base.focus.c, back, NVisible) \in 1..NVisible
    BY <1>0, <2>1, <2>2 DEF Step, Least, Largest
  <2>6. next.c \in 1..NVisible
    BY <2>4, <2>5
  <2> HIDE DEF next
  <2>7. range'.focus.c \in 1..NVisible /\ range'.anchor.c \in 1..NVisible
    BY <2>2, <2>3, <2>6
  <2>. QED
    BY <2>1, <2>7 DEF RangeStays
<1>9. CASE Escape \/ GridReopens \/ ResetPrefs
  BY <1>3, <1>9 DEF Escape, GridReopens, ResetPrefs
<1>10. ASSUME NEW column, NEW on \in BOOLEAN, SetHidden(column, on) PROVE RangeStays'
  <2>1. CASE on
    BY <1>3, <1>10, <2>1 DEF SetHidden
  <2>2. CASE ~on
    <3>1. prefs' = [prefs EXCEPT !.hidden = @ \ {column}] /\ UNCHANGED range
      BY <1>10, <2>2 DEF SetHidden, SavePrefs
    <3>2. prefs'.hidden \subseteq prefs.hidden
      BY <1>0, <3>1 DEF Prefs
    <3>. QED
      BY <1>2, <3>1, <3>2
  <2>. QED
    BY <2>1, <2>2
<1>11. ASSUME NEW column, NEW on \in BOOLEAN, SetFrozen(column, on) PROVE RangeStays'
  BY <1>0, <1>1, <1>11 DEF SetFrozen, SavePrefs, rangeVars, Prefs
<1>12. ASSUME NEW column, FreezeUpTo(column) \/ StartResize(column) PROVE RangeStays'
  BY <1>0, <1>1, <1>12 DEF FreezeUpTo, StartResize, SavePrefs, rangeVars, Prefs
<1>13. ASSUME NEW width, ResizeTo(width) PROVE RangeStays'
  <2>1. prefs'.hidden = prefs.hidden /\ UNCHANGED range
    BY <1>0, <1>13 DEF ResizeTo, rangeVars, Prefs
  <2>. QED
    BY <1>1, <2>1
<1>14. CASE \E n \in RowCounts : RowsChange(n)
  BY <1>1, <1>14 DEF RowsChange, rangeVars, prefsVars
<1>15. CASE MouseUp \/ OtherWindowSaves
  BY <1>1, <1>15 DEF MouseUp, OtherWindowSaves, rangeVars
<1>16. CASE UNCHANGED gridVars
  BY <1>1, <1>16 DEF gridVars, rangeVars, prefsVars
<1>. QED
  BY <1>4, <1>5, <1>6, <1>7, <1>8, <1>9, <1>10, <1>11, <1>12, <1>13, <1>14, <1>15, <1>16
     DEF GridNext, CellsNext, StorageNext, KeysNext, ColumnsNext

LEMMA RowCountStep == gridRows \in Nat /\ [GridNext]_gridVars => (gridRows \in Nat)'
<1> SUFFICES ASSUME gridRows \in Nat, [GridNext]_gridVars, gridRows' # gridRows
             PROVE  gridRows' \in Nat
  OBVIOUS
<1>1. gridRows' \in RowCounts
  BY DEF GridNext, RowsNext, CellsNext, StorageNext, OtherWindowSaves, FiltersNext, KeysNext,
     ColumnsNext, RowsChange, ToggleRow, DragOver, OnRowMouseDown, ToggleAll, SelectAllKey, MouseUp, GridReopens,
     OnCellMouseEnter, OnCellMouseDown, MoveFocus, Escape, SetHidden, SetFrozen, FreezeUpTo,
     StartResize, ResizeTo, ResetPrefs, TypeFilter, FilterByValue, ApplyQuickFilters,
     ClearQuickFilters, gridVars
<1>. QED
  BY <1>1, GridAssumption

(* A drag whose anchor is on the page selects rows of the page, and a      *)
(* range never points past the last visible column.                        *)
THEOREM SelectionsStay == GridSpec => []SelectionsStayOnTheGrid
<1>1. GridInit => RowsStay /\ RangeStays /\ gridRows \in Nat
  BY GridAssumption DEF GridInit, RowsStay, SelectionIsOnThePage, RangeStays
<1>2. RowCounts \subseteq Nat
  BY GridAssumption
<1>3. RowsStay /\ RangeStays => SelectionsStayOnTheGrid
  BY DEF RowsStay, RangeStays, SelectionsStayOnTheGrid
<1>. QED
  BY <1>1, <1>2, <1>3, ColumnsStart, ColumnsStep, RowsStayStep, RangeStaysStep, RowCountStep,
     PTL DEF GridSpec
=============================================================================
