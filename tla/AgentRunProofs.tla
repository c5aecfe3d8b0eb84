--------------------------- MODULE AgentRunProofs ---------------------------
(***************************************************************************)
(* What an /agent run promises, for every registry of tools, every step    *)
(* cap, budget, batch size and model: proofs for AgentRun.                 *)
(*                                                                         *)
(* Neither privacy property is inductive.  What carries both is that the   *)
(* session's flag covers every place desktop content can sit: the          *)
(* messages, the arguments of the current batch, the in-run cache and the  *)
(* final text (Covered), together with what was established when the       *)
(* current call was admitted (AdmittedOK).                                 *)
(***************************************************************************)
EXTENDS AgentRun, TLAPS

USE ToolsAssumption, LimitsAssumption, ModelsAssumption
USE DEF loopVars, callVars, provVars, batchVars, endVars, logVars, handlerVars,
        headFrame, toolFrame, runVars

\* Wherever content is, the flag is up.
Covered ==
    /\ inContext => desktopContent
    /\ authored = "content" => desktopContent
    /\ \A a \in Actions : cache[a] = "content" => desktopContent
    /\ final = "content" => desktopContent

\* The call whose confirm or execution is awaited was admitted under the
\* flag's rules, and has raised the flag if it reads the desktop.
AdmittedOK ==
    pc \in {"confirm", "exec"} =>
        /\ batch # <<>>
        /\ Call \in Actions
        /\ inContext => Call \notin Gated \cup Sinks
        /\ Call \in Marked => desktopContent

\* Inside an iteration of the step loop the cap has not been reached.
InLoop == pc \in {"llm", "batch", "confirm", "exec"} => step < MaxSteps

PrivacyInv ==
    /\ TypeOK
    /\ InLoop
    /\ Covered
    /\ AdmittedOK
    /\ ContentStaysLocal
    /\ ContentNeverPersisted
    /\ OfferedAreLocal

-----------------------------------------------------------------------------
(* Facts about the helpers.                                                *)

\* A batch is a sequence of names.
LEMMA BatchesAreSeqs == Batches \subseteq Seq(Names)
  BY DEF Batches

\* Handling a call leaves a sequence of names.
LEMMA TailOfBatch ==
  ASSUME batch \in Seq(Names), batch # <<>>
  PROVE  Tail(batch) \in Seq(Names) /\ Call \in Names
  BY DEF Call

\* A call let through while content is in the messages is neither a network
\* tool nor a sink: the flag was up, so the execution gate judged it.
LEMMA AdmittedIsLocal ==
  ASSUME Covered, Admitted, inContext
  PROVE  Call \notin Gated \cup Sinks
  BY DEF Covered, Admitted, Withheld, NeedsConsent, WritesDurableSink

-----------------------------------------------------------------------------
\* A new conversation holds no content, so nothing has to be covered yet.
LEMMA PrivacyInit == Init => PrivacyInv
  <1> SUFFICES ASSUME Init PROVE PrivacyInv
    OBVIOUS
  <1>1. TypeOK
    <2>1. /\ pc \in Phases /\ step \in 0..MaxSteps /\ tokens \in Nat
          /\ llmCalls \in Nat /\ stopped \in Reasons
          /\ batch \in Seq(Names) /\ cache \in [Actions -> Prov \cup {"none"}]
          /\ authored \in Prov /\ final \in Prov \cup {"none"}
      BY DEF Init, Prov, Phases, Reasons
    <2>2. /\ thinking \in BOOLEAN /\ desktopContent \in BOOLEAN
          /\ inContext \in BOOLEAN /\ denied \in BOOLEAN
          /\ sensitive \in BOOLEAN
      BY Zenon DEF Init
    <2>3. /\ offered \in SUBSET Names
          /\ executed \in SUBSET (Actions \X BOOLEAN)
          /\ chatLog \in SUBSET Prov
          /\ model \in Models /\ chosen \in Models
          /\ restore \in Models \cup {NoModel}
      BY DEF Init
    <2> QED
      BY <2>1, <2>2, <2>3, Zenon DEF TypeOK
  <1>2. InLoop /\ Covered /\ AdmittedOK
    BY DEF Init, InLoop, Covered, AdmittedOK
  <1>3. ContentStaysLocal /\ ContentNeverPersisted /\ OfferedAreLocal
    BY DEF Init, ContentStaysLocal, ContentNeverPersisted, OfferedAreLocal
  <1> QED
    BY <1>1, <1>2, <1>3 DEF PrivacyInv

\* No await of a run carries content to where the flag does not cover it.
LEMMA PrivacyNext == PrivacyInv /\ [Next]_vars => PrivacyInv'
  <1> SUFFICES ASSUME PrivacyInv, [Next]_vars PROVE PrivacyInv'
    OBVIOUS
  <1> USE DEF PrivacyInv, TypeOK, InLoop, Covered, AdmittedOK, ContentStaysLocal,
              ContentNeverPersisted, OfferedAreLocal, Prov, Phases, Reasons
  <1>1. CASE RefuseGoal
    BY <1>1 DEF RefuseGoal, Call
  <1>2. CASE StartRun
    <2>1. TypeOK'
      <3>1. /\ pc' \in Phases /\ step' \in 0..MaxSteps /\ tokens' \in Nat
            /\ llmCalls' \in Nat /\ stopped' \in Reasons
            /\ batch' \in Seq(Names)
            /\ cache' \in [Actions -> Prov \cup {"none"}]
            /\ authored' \in Prov /\ final' \in Prov \cup {"none"}
        BY <1>2 DEF StartRun, FreshCache
      <3>2. /\ thinking' \in BOOLEAN /\ desktopContent' \in BOOLEAN
            /\ inContext' \in BOOLEAN /\ denied' \in BOOLEAN
            /\ sensitive' \in BOOLEAN
        BY <1>2, Zenon DEF StartRun, FreshCache
      <3>3. /\ offered' \in SUBSET Names
            /\ executed' \in SUBSET (Actions \X BOOLEAN)
            /\ chatLog' \in SUBSET Prov
            /\ model' \in Models /\ chosen' \in Models
            /\ restore' \in Models \cup {NoModel}
        BY <1>2 DEF StartRun, FreshCache, SwapsModel
      <3> QED
        BY <3>1, <3>2, <3>3, Zenon DEF TypeOK
    <2>2. InLoop' /\ Covered' /\ AdmittedOK'
      BY <1>2 DEF StartRun, FreshCache
    <2>3. ContentStaysLocal' /\ ContentNeverPersisted' /\ OfferedAreLocal'
      BY <1>2 DEF StartRun, FreshCache
    <2> QED
      BY <2>1, <2>2, <2>3
  <1>3. CASE StepCap
    BY <1>3 DEF StepCap, StepsLeft, AskModel
  <1>4. CASE SensitiveStop
    BY <1>4 DEF SensitiveStop
  <1>5. CASE BudgetStop
    BY <1>5 DEF BudgetStop, AskModel
  <1>6. CASE BeginStep
    BY <1>6 DEF BeginStep, StepsLeft, AskModel, ToolsFor, NeedsConsent, WritesDurableSink
  <1>7. ASSUME NEW used \in 0..StepTokens, NEW reasons \in BOOLEAN,
               NEW empty \in BOOLEAN, Answers(used, reasons, empty)
        PROVE  PrivacyInv'
    BY <1>7 DEF Answers, Charge, Trace, From
  <1>8. ASSUME NEW used \in 0..StepTokens, NEW reasons \in BOOLEAN,
               Truncated(used, reasons)
        PROVE  PrivacyInv'
    <2>1. TypeOK'
      <3>1. tokens' \in Nat /\ llmCalls' \in Nat
        BY <1>8 DEF Truncated, Charge, AskModel
      <3>2. thinking' \in BOOLEAN
        BY <1>8, Zenon DEF Truncated
      <3>3. chatLog' \in SUBSET Prov /\ offered' \in SUBSET Names
        BY <1>8 DEF Truncated, Charge, Trace, From, AskModel
      <3> QED
        BY <1>8, <3>1, <3>2, <3>3, Zenon DEF Truncated
    <2>2. InLoop' /\ Covered' /\ AdmittedOK'
      BY <1>8 DEF Truncated
    <2>3. ContentStaysLocal' /\ OfferedAreLocal'
      BY <1>8 DEF Truncated, AskModel
    <2>4. ContentNeverPersisted'
      BY <1>8 DEF Truncated, Charge, Trace, From
    <2> QED
      BY <2>1, <2>2, <2>3, <2>4, Zenon
  <1>9. ASSUME NEW used \in 0..StepTokens, NEW reasons \in BOOLEAN,
               NEW calls \in Batches, CallsTools(used, reasons, calls)
        PROVE  PrivacyInv'
    BY <1>9, BatchesAreSeqs DEF CallsTools, Charge, Trace, From
  <1>10. ASSUME NEW used \in 0..StepTokens, NEW reasons \in BOOLEAN,
                NEW empty \in BOOLEAN, Synthesizes(used, reasons, empty)
         PROVE  PrivacyInv'
    BY <1>10 DEF Synthesizes, Charge, Trace, From
  <1>11. CASE StepTimesOut
    BY <1>11 DEF StepTimesOut
  <1>12. CASE RunRaises
    BY <1>12 DEF RunRaises
  <1>13. CASE SynthesisFails
    BY <1>13 DEF SynthesisFails
  <1>14. CASE SkipCall
    BY <1>14, TailOfBatch DEF SkipCall, Record, Trace
  <1>15. CASE UnknownTool
    BY <1>15, TailOfBatch DEF UnknownTool, Record, Trace
  <1>16. CASE CacheHit
    BY <1>16, TailOfBatch DEF CacheHit, Admitted, Record, Trace
  <1>17. CASE AskConfirm
    <2>1. /\ desktopContent' \in BOOLEAN
          /\ desktopContent => desktopContent'
          /\ Call \in Marked => desktopContent'
      BY <1>17, Zenon DEF AskConfirm, FlagAfter
    <2>2. TypeOK'
      BY <1>17, <2>1, Zenon DEF AskConfirm
    <2>3. InLoop' /\ Covered'
      BY <1>17, <2>1 DEF AskConfirm, Admitted
    <2>4. AdmittedOK'
      BY <1>17, <2>1, AdmittedIsLocal DEF AskConfirm, Admitted, Call
    <2>5. ContentStaysLocal' /\ ContentNeverPersisted' /\ OfferedAreLocal'
      BY <1>17 DEF AskConfirm
    <2> QED
      BY <2>2, <2>3, <2>4, <2>5, Zenon
  <1>18. CASE Deny
    BY <1>18, TailOfBatch DEF Deny, Record, Trace
  <1>19. CASE Allow
    BY <1>19 DEF Allow, Begin, Trace, Call
  <1>20. CASE Invoke
    <2>1. /\ desktopContent' \in BOOLEAN
          /\ desktopContent => desktopContent'
          /\ Call \in Marked => desktopContent'
      BY <1>20, Zenon DEF Invoke, FlagAfter
    <2>2. executed' = executed \cup {<<Call, inContext>>} /\ Call \in Actions
      BY <1>20, Zenon DEF Invoke, Begin, Admitted
    <2>3. chatLog' \in SUBSET Prov /\ "content" \notin chatLog'
      BY <1>20, <2>1 DEF Invoke, Begin, Trace
    <2>4. TypeOK'
      <3>1. executed' \in SUBSET (Actions \X BOOLEAN)
        BY <2>2
      <3>2. pc' \in Phases
        BY <1>20 DEF Invoke, Begin
      <3> QED
        BY <1>20, <2>1, <2>3, <3>1, <3>2, Zenon DEF Invoke
    <2>5. InLoop' /\ Covered'
      BY <1>20, <2>1 DEF Invoke, Admitted, Begin
    <2>6. AdmittedOK'
      BY <1>20, <2>1, AdmittedIsLocal DEF Invoke, Admitted, Call
    <2>7. ContentStaysLocal'
      BY <1>20, <2>2, AdmittedIsLocal DEF Invoke
    <2>8. ContentNeverPersisted' /\ OfferedAreLocal'
      BY <1>20, <2>3 DEF Invoke, Begin
    <2> QED
      BY <2>4, <2>5, <2>6, <2>7, <2>8, Zenon
  <1>21. CASE Succeeds
    BY <1>21, TailOfBatch
       DEF Succeeds, Record, Trace, ResultProv, ShownProv, CacheEligible
  <1>22. ASSUME NEW result \in Prov, Fails(result)
         PROVE  PrivacyInv'
    BY <1>22, TailOfBatch DEF Fails, Record, Trace, ResultProv, ShownProv
  <1>23. CASE EndBatchDenied
    BY <1>23 DEF EndBatchDenied, AskModel
  <1>24. CASE EndBatch
    BY <1>24 DEF EndBatch, CountStep
  <1>25. CASE Finish
    BY <1>25 DEF Finish, RestoreModel
  <1>26. CASE Deliver
    BY <1>26 DEF Deliver, DeliverReply
  <1>27. CASE SensitiveChanges
    BY <1>27 DEF SensitiveChanges, Call
  <1>28. ASSUME NEW m \in Models, ChooseModel(m)
         PROVE  PrivacyInv'
    BY <1>28 DEF ChooseModel, Call
  <1>29. CASE UNCHANGED vars
    BY <1>29 DEF vars, Call
  <1>30. QED
    BY <1>1, <1>2, <1>3, <1>4, <1>5, <1>6, <1>7, <1>8, <1>9, <1>10, <1>11,
       <1>12, <1>13, <1>14, <1>15, <1>16, <1>17, <1>18, <1>19, <1>20, <1>21,
       <1>22, <1>23, <1>24, <1>25, <1>26, <1>27, <1>28, <1>29
       DEF Next, RunStep, LoopStep, ModelStep, ToolStep

\* The strengthened invariant holds of every behaviour.
THEOREM PrivacyInvariance == Spec => []PrivacyInv
  BY PrivacyInit, PrivacyNext, PTL DEF Spec

\* Every variable keeps its type (agent.py's session and run()'s locals).
THEOREM TypeCorrect == Spec => []TypeOK
  <1>1. PrivacyInv => TypeOK
    BY DEF PrivacyInv
  <1> QED
    BY <1>1, PrivacyInvariance, PTL

\* No network tool and no durable sink is invoked once desktop content is in
\* the run's messages, whatever batches the model sends.
THEOREM ContentStaysLocalThm == Spec => []ContentStaysLocal
  <1>1. PrivacyInv => ContentStaysLocal
    BY DEF PrivacyInv
  <1> QED
    BY <1>1, PrivacyInvariance, PTL

\* No persisted line of the chat log carries desktop content.
THEOREM ContentNeverPersistedThm == Spec => []ContentNeverPersisted
  <1>1. PrivacyInv => ContentNeverPersisted
    BY DEF PrivacyInv
  <1> QED
    BY <1>1, PrivacyInvariance, PTL

\* A step asked with desktop content in context advertises local tools only.
THEOREM OfferedAreLocalThm == Spec => []OfferedAreLocal
  <1>1. PrivacyInv => OfferedAreLocal
    BY DEF PrivacyInv
  <1> QED
    BY <1>1, PrivacyInvariance, PTL

-----------------------------------------------------------------------------
(* The bounds on model calls and tokens.                                   *)

\* The retry of a truncated step has been spent.
Retried == IF thinking THEN 0 ELSE 1

CallsInv ==
    /\ pc = "head" => llmCalls <= step + Retried
    /\ pc \in {"llm", "batch", "confirm", "exec"} =>
           llmCalls <= step + 1 + Retried
    /\ llmCalls <= MaxSteps + 1 + Retried

TokensInv ==
    /\ pc = "llm" => tokens < TokenBudget + Retried * StepTokens
    /\ pc \in {"head", "batch", "confirm", "exec", "synth"} =>
           tokens < TokenBudget + 2 * StepTokens
    /\ tokens < TokenBudget + 3 * StepTokens

\* A denial is handled before the loop comes round.
DenialInv == pc \in {"head", "llm"} => ~denied

BoundsInv == CallsInv /\ TokensInv /\ DenialInv

\* Before the first run nothing has been called or paid for.
LEMMA BoundsInit == Init => BoundsInv
  BY DEF Init, BoundsInv, CallsInv, TokensInv, DenialInv, Retried

\* Every call and every token is accounted for by the step counter, the retry or
\* the phase the run is in.
LEMMA BoundsNext == PrivacyInv /\ BoundsInv /\ [Next]_vars => BoundsInv'
  <1> SUFFICES ASSUME PrivacyInv, BoundsInv, [Next]_vars PROVE BoundsInv'
    OBVIOUS
  <1> USE DEF BoundsInv, CallsInv, TokensInv, DenialInv, Retried
  <1>0. /\ pc \in Phases /\ step \in 0..MaxSteps /\ tokens \in Nat
        /\ llmCalls \in Nat
        /\ pc \in {"llm", "batch", "confirm", "exec"} => step < MaxSteps
    BY DEF PrivacyInv, TypeOK, InLoop
  <1>1. CASE StartRun
    BY <1>0, <1>1 DEF StartRun, FreshCache
  <1>2. CASE LoopStep
    BY <1>0, <1>2 DEF LoopStep, StepCap, SensitiveStop, BudgetStop, BeginStep,
                      AskModel, OverBudget, StepsLeft
  <1>3. ASSUME NEW used \in 0..StepTokens, NEW reasons \in BOOLEAN,
               NEW empty \in BOOLEAN, Answers(used, reasons, empty)
        PROVE  BoundsInv'
    BY <1>0, <1>3 DEF Answers, Charge
  <1>4. ASSUME NEW used \in 0..StepTokens, NEW reasons \in BOOLEAN,
               Truncated(used, reasons)
        PROVE  BoundsInv'
    BY <1>0, <1>4 DEF Truncated, Charge, AskModel
  <1>5. ASSUME NEW used \in 0..StepTokens, NEW reasons \in BOOLEAN,
               NEW calls \in Batches, CallsTools(used, reasons, calls)
        PROVE  BoundsInv'
    BY <1>0, <1>5 DEF CallsTools, Charge
  <1>6. ASSUME NEW used \in 0..StepTokens, NEW reasons \in BOOLEAN,
               NEW empty \in BOOLEAN, Synthesizes(used, reasons, empty)
        PROVE  BoundsInv'
    BY <1>0, <1>6 DEF Synthesizes, Charge
  <1>7. CASE StepTimesOut \/ RunRaises \/ SynthesisFails
    BY <1>0, <1>7 DEF StepTimesOut, RunRaises, SynthesisFails
  <1>8. CASE SkipCall \/ UnknownTool \/ CacheHit \/ Deny \/ Succeeds
    BY <1>0, <1>8 DEF SkipCall, UnknownTool, CacheHit, Admitted, Deny, Succeeds,
                      Record
  <1>9. ASSUME NEW result \in Prov, Fails(result)
        PROVE  BoundsInv'
    BY <1>0, <1>9 DEF Fails, Record
  <1>10. CASE AskConfirm \/ Allow \/ Invoke
    BY <1>0, <1>10 DEF AskConfirm, Allow, Invoke, Admitted, Begin
  <1>11. CASE EndBatchDenied \/ EndBatch
    BY <1>0, <1>11 DEF EndBatchDenied, EndBatch, CountStep, AskModel
  <1>12. CASE Finish \/ Deliver
    BY <1>0, <1>12 DEF Finish, Deliver
  <1>13. CASE RefuseGoal \/ SensitiveChanges
    BY <1>0, <1>13 DEF RefuseGoal, SensitiveChanges
  <1>14. ASSUME NEW m \in Models, ChooseModel(m)
         PROVE  BoundsInv'
    BY <1>0, <1>14 DEF ChooseModel
  <1>15. CASE UNCHANGED vars
    BY <1>0, <1>15 DEF vars
  <1>16. QED
    BY <1>1, <1>2, <1>3, <1>4, <1>5, <1>6, <1>7, <1>8, <1>9, <1>10, <1>11,
       <1>12, <1>13, <1>14, <1>15
       DEF Next, RunStep, ModelStep, ToolStep

\* The bounds hold of every behaviour.
THEOREM BoundsInvariance == Spec => []BoundsInv
  BY BoundsInit, BoundsNext, PrivacyInvariance, PTL DEF Spec

\* At most one model call per step, one retry and one synthesis.
THEOREM ModelCallsBoundedThm == Spec => []ModelCallsBounded
  <1>1. PrivacyInv /\ BoundsInv => ModelCallsBounded
    BY DEF PrivacyInv, TypeOK, BoundsInv, CallsInv, Retried, ModelCallsBounded
  <1> QED
    BY <1>1, PrivacyInvariance, BoundsInvariance, PTL

\* The soft token budget is overshot by three responses at the most.
THEOREM BudgetOvershootBoundedThm == Spec => []BudgetOvershootBounded
  <1>1. BoundsInv => BudgetOvershootBounded
    BY DEF BoundsInv, TokensInv, BudgetOvershootBounded
  <1> QED
    BY <1>1, BoundsInvariance, PTL

\* The action DenialEndsTheLoop allows.
DenialStep == denied => pc' # "llm" /\ (pc # "idle" => denied')

\* A denied call is followed by the rest of its batch and the synthesis only.
LEMMA DenialNext == PrivacyInv /\ BoundsInv /\ [Next]_vars => [DenialStep]_vars
  <1> SUFFICES ASSUME PrivacyInv, BoundsInv, Next, denied PROVE DenialStep
    BY DEF DenialStep
  <1>1. pc \notin {"head", "llm"}
    BY DEF BoundsInv, DenialInv
  <1>2. CASE StartRun
    BY <1>2 DEF StartRun, DenialStep
  <1>3. CASE pc' # "llm" /\ UNCHANGED denied
    BY <1>3 DEF DenialStep
  <1>4. CASE SkipCall \/ UnknownTool \/ CacheHit \/ Deny \/ Succeeds
    BY <1>4 DEF DenialStep, SkipCall, UnknownTool, CacheHit, Deny, Succeeds, Record
  <1>5. ASSUME NEW result \in Prov, Fails(result) PROVE DenialStep
    BY <1>5 DEF DenialStep, Fails, Record
  <1>6. \/ StartRun
        \/ pc' # "llm" /\ UNCHANGED denied
        \/ SkipCall \/ UnknownTool \/ CacheHit \/ Deny \/ Succeeds
        \/ \E result \in Prov : Fails(result)
    BY <1>1 DEF Next, RunStep, LoopStep, ModelStep, ToolStep, RefuseGoal,
         StepCap, SensitiveStop, BudgetStop, BeginStep, Answers, Truncated,
         CallsTools, Synthesizes, StepTimesOut, RunRaises, SynthesisFails,
         AskConfirm, Allow, Invoke, Begin, EndBatchDenied, EndBatch, Finish,
         Deliver, SensitiveChanges, ChooseModel, Admitted
  <1> QED
    BY <1>2, <1>3, <1>4, <1>5, <1>6

\* A denial is not forgotten, and after it no model call advertises a tool.
THEOREM DenialEndsTheLoopThm == Spec => DenialEndsTheLoop
  BY DenialNext, PrivacyInvariance, BoundsInvariance, PTL
     DEF Spec, DenialEndsTheLoop, DenialStep

-----------------------------------------------------------------------------
(* The model swap.                                                         *)

\* A backend on the agent model that the user did not choose is on its way
\* back to a model that is not the agent's.
SwapInv ==
    /\ restore # NoModel => restore # AgentModel /\ AgentModel # NoModel
    /\ model = AgentModel /\ chosen # AgentModel => restore # NoModel
    /\ pc \in {"idle", "deliver"} => restore = NoModel

\* At startup the backend has the model the user chose.
LEMMA SwapInit == Init => SwapInv
  BY DEF Init, SwapInv

\* The model to go back to is remembered for as long as the agent's is loaded.
LEMMA SwapNext == PrivacyInv /\ SwapInv /\ [Next]_vars => SwapInv'
  <1> SUFFICES ASSUME PrivacyInv, SwapInv, [Next]_vars PROVE SwapInv'
    OBVIOUS
  <1> USE DEF SwapInv
  <1>0. /\ model \in Models /\ chosen \in Models
        /\ restore \in Models \cup {NoModel}
    BY DEF PrivacyInv, TypeOK
  <1>1. CASE StartRun
    BY <1>0, <1>1 DEF StartRun, FreshCache, SwapsModel
  <1>2. CASE Finish
    BY <1>0, <1>2 DEF Finish, RestoreModel
  <1>3. ASSUME NEW m \in Models, ChooseModel(m)
        PROVE  SwapInv'
    BY <1>0, <1>3 DEF ChooseModel
  <1>4. CASE /\ UNCHANGED <<model, chosen, restore>>
             /\ pc' \in {"idle", "deliver"} => pc \in {"idle", "deliver"}
    BY <1>4
  <1>5. \/ StartRun \/ Finish
        \/ \E m \in Models : ChooseModel(m)
        \/ /\ UNCHANGED <<model, chosen, restore>>
           /\ pc' \in {"idle", "deliver"} => pc \in {"idle", "deliver"}
    BY DEF vars, Next, RunStep, LoopStep, ModelStep, ToolStep, RefuseGoal,
         StepCap, SensitiveStop, BudgetStop, BeginStep, Answers, Truncated,
         CallsTools, Synthesizes, StepTimesOut, RunRaises, SynthesisFails,
         SkipCall, UnknownTool, CacheHit, AskConfirm, Deny, Allow, Invoke,
         Succeeds, Fails, EndBatchDenied, EndBatch, Deliver, SensitiveChanges,
         Record, Begin
  <1> QED
    BY <1>1, <1>2, <1>3, <1>4, <1>5

\* Whatever way a run ends, the agent model does not outlive it.
THEOREM SwapIsUndoneThm == Spec => []SwapIsUndone
  <1>1. SwapInv => SwapIsUndone
    BY DEF SwapInv, SwapIsUndone
  <1> QED
    BY <1>1, SwapInit, SwapNext, PrivacyInvariance, PTL DEF Spec

-----------------------------------------------------------------------------
(* How far off the end of a run may be.                                    *)

\* A step of the loop is worth its batch and three steps of its own.
LEMMA StepIsWorth ==
  /\ MaxBatch \in Nat \ {0}
  /\ \A n \in Nat : StepsAhead(n) \in Nat
  /\ \A n \in Nat : StepsAhead(n + 1) = StepsAhead(n) + 3 * MaxBatch + 3
  BY DEF StepsAhead

\* A step of the loop costs what its batch, its model call and its head do.
LEMMA StepsLeftAre ==
  ASSUME TypeOK
  PROVE  /\ StepsAhead(MaxSteps - step) \in Nat
         /\ step < MaxSteps =>
              /\ StepsAhead(MaxSteps - step - 1) \in Nat
              /\ StepsAhead(MaxSteps - step)
                   = StepsAhead(MaxSteps - step - 1) + 3 * MaxBatch + 3
  <1>0. step \in 0..MaxSteps /\ MaxSteps \in Nat
    BY DEF TypeOK
  <1>1. StepsAhead(MaxSteps - step) \in Nat
    <2> DEFINE n == MaxSteps - step
    <2>1. n \in Nat
      BY <1>0
    <2> HIDE DEF n
    <2>2. StepsAhead(n) \in Nat
      BY <2>1, StepIsWorth
    <2> QED BY <2>2 DEF n
  <1>2. ASSUME step < MaxSteps
        PROVE  /\ StepsAhead(MaxSteps - step - 1) \in Nat
               /\ StepsAhead(MaxSteps - step)
                    = StepsAhead(MaxSteps - step - 1) + 3 * MaxBatch + 3
    <2> DEFINE n == MaxSteps - step - 1
    <2>1. n \in Nat /\ MaxSteps - step = n + 1
      BY <1>0, <1>2
    <2> HIDE DEF n
    <2>2. StepsAhead(n) \in Nat /\ StepsAhead(n + 1) = StepsAhead(n) + 3 * MaxBatch + 3
      BY <2>1, StepIsWorth
    <2>3. StepsAhead(MaxSteps - step) = StepsAhead(n) + 3 * MaxBatch + 3
      BY <2>1, <2>2
    <2> QED BY <2>2, <2>3 DEF n
  <1> QED BY <1>1, <1>2

\* What is ahead, place by place.
LEMMA AheadIs ==
  ASSUME TypeOK, InLoop
  PROVE  /\ RetryAhead \in 0..1 /\ CallsAhead \in Nat
         /\ pc = "deliver" => Ahead = 1
         /\ pc = "finish" => Ahead = 2
         /\ pc = "synth" => Ahead = 3
         /\ pc = "llm" => Ahead = 3 + StepsAhead(MaxSteps - step) + RetryAhead
         /\ pc = "head" => Ahead = 4 + StepsAhead(MaxSteps - step) + RetryAhead
         /\ pc = "exec" =>
              Ahead = 3 + StepsAhead(MaxSteps - step - 1) + CallsAhead + RetryAhead
         /\ pc = "confirm" =>
              Ahead = 4 + StepsAhead(MaxSteps - step - 1) + CallsAhead + RetryAhead
         /\ pc = "batch" =>
              Ahead = 5 + StepsAhead(MaxSteps - step - 1) + CallsAhead + RetryAhead
  <1>1. RetryAhead \in 0..1 /\ CallsAhead \in Nat
    BY DEF TypeOK, RetryAhead, CallsAhead
  <1> QED BY <1>1 DEF Ahead

\* Inside the loop the end is further off than from the synthesis.
LEMMA LoopIsLonger ==
  ASSUME PrivacyInv, pc \in {"llm", "head", "exec", "confirm", "batch"}
  PROVE  Ahead > 3 /\ Ahead \in Nat
  <1>0. TypeOK /\ InLoop /\ step \in 0..MaxSteps /\ batch \in Seq(Names)
    BY DEF PrivacyInv, TypeOK
  <1>1. CASE pc = "llm"
    <2>1. 3 * MaxBatch + 3 >= 6
      BY StepIsWorth
    <2>2. StepsAhead(MaxSteps - step) \in Nat
      BY <1>0, StepsLeftAre
    <2>3. StepsAhead(MaxSteps - step) >= 6
      BY <1>0, <1>1, <2>1, StepsLeftAre DEF InLoop
    <2>4. Ahead = 3 + StepsAhead(MaxSteps - step) + RetryAhead /\ RetryAhead \in 0..1
      BY <1>0, <1>1, AheadIs
    <2> QED BY <2>2, <2>3, <2>4
  <1>2. CASE pc = "head"
    <2>1. StepsAhead(MaxSteps - step) \in Nat
      BY <1>0, StepsLeftAre
    <2> QED BY <1>0, <1>2, <2>1, AheadIs
  <1>3. CASE pc \in {"exec", "confirm", "batch"}
    <2>1. StepsAhead(MaxSteps - step - 1) \in Nat
      BY <1>0, <1>3, StepsLeftAre DEF InLoop
    <2>2. pc = "exec" => CallsAhead >= 3
      BY <1>0 DEF PrivacyInv, AdmittedOK, CallsAhead
    <2> QED BY <1>0, <1>3, <2>1, <2>2, AheadIs
  <1> QED BY <1>1, <1>2, <1>3

\* A batch is paid for by the step of the loop that was left for it.
LEMMA BatchFits ==
  ASSUME NEW left \in Nat, NEW most \in Nat, NEW calls \in Nat, calls <= most,
         NEW retry \in 0..1
  PROVE  5 + left + 3 * calls + retry < 3 + (left + 3 * most + 3) + retry
  OBVIOUS

\* A call handled is three steps less of the batch.
LEMMA HandledIsLess ==
  ASSUME batch \in Seq(Names), batch # <<>>, batch' = Tail(batch)
  PROVE  CallsAhead' = CallsAhead - 3
  <1>1. Len(Tail(batch)) = Len(batch) - 1
    OBVIOUS
  <1> QED BY <1>1 DEF CallsAhead

\* Each step a run can take brings its end nearer.
LEMMA RunNears ==
  ASSUME PrivacyInv, RunStep
  PROVE  Ahead' < Ahead
  <1>0. TypeOK /\ InLoop /\ step \in 0..MaxSteps /\ batch \in Seq(Names)
        /\ RetryAhead \in 0..1 /\ CallsAhead \in Nat
    BY AheadIs DEF PrivacyInv, TypeOK
  <1>1. CASE pc \in {"llm", "head", "exec", "confirm", "batch"} /\ pc' \in {"synth", "finish"}
    <2>1. Ahead' \in {2, 3}
      BY <1>1 DEF Ahead
    <2> QED BY <1>1, <2>1, LoopIsLonger
  <1>2. CASE pc = "synth" /\ pc' = "finish"
    BY <1>2 DEF Ahead
  <1>3. CASE BeginStep
    <2>1. StepsAhead(MaxSteps - step) \in Nat
      BY <1>0, StepsLeftAre
    <2>2. Ahead' = 3 + StepsAhead(MaxSteps - step) + RetryAhead
      BY <1>3 DEF BeginStep, Ahead, RetryAhead
    <2>3. Ahead = 4 + StepsAhead(MaxSteps - step) + RetryAhead
      BY <1>0, <1>3, AheadIs DEF BeginStep
    <2> QED BY <1>0, <2>1, <2>2, <2>3
  <1>4. ASSUME NEW used \in 0..StepTokens, NEW reasons \in BOOLEAN, Truncated(used, reasons)
        PROVE  Ahead' < Ahead
    <2>1. StepsAhead(MaxSteps - step) \in Nat
      BY <1>0, StepsLeftAre
    <2>2. Ahead' = 3 + StepsAhead(MaxSteps - step) + 0
      BY <1>4 DEF Truncated, Ahead, RetryAhead
    <2>3. Ahead = 3 + StepsAhead(MaxSteps - step) + 1
      BY <1>4 DEF Truncated, Ahead, RetryAhead
    <2> QED BY <2>1, <2>2, <2>3
  <1>5. ASSUME NEW used \in 0..StepTokens, NEW reasons \in BOOLEAN,
               NEW calls \in Batches, CallsTools(used, reasons, calls)
        PROVE  Ahead' < Ahead
    <2> DEFINE n == MaxSteps - step - 1
    <2>1. n \in Nat /\ MaxSteps - step = n + 1
      BY <1>0, <1>5 DEF InLoop, CallsTools
    <2>2. Len(calls) \in Nat /\ Len(calls) <= MaxBatch
      BY DEF Batches
    <2>3. Ahead' = 5 + StepsAhead(n) + 3 * Len(calls) + RetryAhead
      BY <1>5 DEF CallsTools, Ahead, CallsAhead, RetryAhead
    <2>4. Ahead = 3 + StepsAhead(MaxSteps - step) + RetryAhead
      BY <1>0, <1>5, AheadIs DEF CallsTools
    <2>5. StepsAhead(MaxSteps - step) = StepsAhead(n) + 3 * MaxBatch + 3
          /\ StepsAhead(n) \in Nat
      BY <1>0, <1>5, StepsLeftAre DEF InLoop, CallsTools, n
    <2> HIDE DEF n
    <2>6. MaxBatch \in Nat
      BY StepIsWorth
    <2>7. 5 + StepsAhead(n) + 3 * Len(calls) + RetryAhead
            < 3 + (StepsAhead(n) + 3 * MaxBatch + 3) + RetryAhead
      BY <1>0, <2>2, <2>5, <2>6, BatchFits
    <2> QED BY <2>3, <2>4, <2>5, <2>7, Zenon
  <1>6. CASE /\ pc \in {"batch", "confirm", "exec"} /\ pc' = "batch"
             /\ batch # <<>> /\ batch' = Tail(batch)
             /\ UNCHANGED loopVars
    <2>1. StepsAhead(MaxSteps - step - 1) \in Nat
      BY <1>0, <1>6, StepsLeftAre DEF InLoop
    <2>2. CallsAhead' = CallsAhead - 3
      BY <1>0, <1>6, HandledIsLess
    <2>3. Ahead' = 5 + StepsAhead(MaxSteps - step - 1) + CallsAhead' + RetryAhead
      BY <1>6 DEF Ahead, RetryAhead
    <2>4. Ahead >= 3 + StepsAhead(MaxSteps - step - 1) + CallsAhead + RetryAhead
      BY <1>0, <1>6, <2>1, AheadIs
    <2>5. Ahead \in Nat
      BY <1>6, LoopIsLonger
    <2> QED BY <1>0, <2>1, <2>2, <2>3, <2>4, <2>5
  <1>7. CASE AskConfirm \/ Allow \/ Invoke
    <2>1. StepsAhead(MaxSteps - step - 1) \in Nat
      BY <1>0, <1>7, StepsLeftAre DEF InLoop, AskConfirm, Allow, Invoke, Admitted
    <2>2. CASE AskConfirm
      BY <1>0, <2>1, <2>2, AheadIs DEF AskConfirm, Admitted, Ahead, CallsAhead, RetryAhead
    <2>3. CASE Allow
      BY <1>0, <2>1, <2>3, AheadIs DEF Allow, Begin, Ahead, CallsAhead, RetryAhead
    <2>4. CASE Invoke
      BY <1>0, <2>1, <2>4, AheadIs DEF Invoke, Admitted, Begin, Ahead, CallsAhead, RetryAhead
    <2> QED BY <1>7, <2>2, <2>3, <2>4
  <1>8. CASE EndBatch
    <2> DEFINE n == MaxSteps - step - 1
    <2>1. n \in Nat /\ MaxSteps - (step + 1) = n
      BY <1>0, <1>8 DEF InLoop, EndBatch
    <2>2. StepsAhead(n) \in Nat
      BY <1>0, <1>8, StepsLeftAre DEF InLoop, EndBatch
    <2>3. Ahead = 5 + StepsAhead(n) + CallsAhead + RetryAhead
      BY <1>0, <1>8, AheadIs DEF EndBatch
    <2>4. Ahead' = 4 + StepsAhead(n) + RetryAhead
      <3>1. Ahead' = 4 + StepsAhead(MaxSteps - (step + 1)) + RetryAhead
        BY <1>8 DEF EndBatch, CountStep, Ahead, RetryAhead
      <3> QED BY <2>1, <3>1
    <2> QED BY <1>0, <2>2, <2>3, <2>4
  <1>9. CASE Finish \/ Deliver
    BY <1>9 DEF Finish, Deliver, Ahead
  <1>10. ASSUME LoopStep, ~BeginStep
         PROVE  pc = "head" /\ pc' \in {"synth", "finish"}
    BY <1>10 DEF LoopStep, StepCap, SensitiveStop, BudgetStop
  <1>11. ASSUME NEW used \in 0..StepTokens, NEW reasons \in BOOLEAN, NEW empty \in BOOLEAN,
                \/ Answers(used, reasons, empty) \/ Synthesizes(used, reasons, empty)
                \/ StepTimesOut \/ RunRaises \/ SynthesisFails
         PROVE  pc \in {"llm", "confirm", "synth"} /\ pc' = "finish"
    BY <1>11 DEF Answers, Synthesizes, StepTimesOut, RunRaises, SynthesisFails
  <1>12. ASSUME ModelStep
         PROVE  \/ pc \in {"llm", "confirm", "synth"} /\ pc' = "finish"
                \/ \E used \in 0..StepTokens, reasons \in BOOLEAN : Truncated(used, reasons)
                \/ \E used \in 0..StepTokens, reasons \in BOOLEAN, calls \in Batches :
                      CallsTools(used, reasons, calls)
    <2>1. 0 \in 0..StepTokens /\ FALSE \in BOOLEAN
      OBVIOUS
    <2> QED BY <1>11, <1>12, <2>1 DEF ModelStep
  <1>13. ASSUME \/ SkipCall \/ UnknownTool \/ CacheHit \/ Deny \/ Succeeds
                \/ \E result \in Prov : Fails(result)
         PROVE  /\ pc \in {"batch", "confirm", "exec"} /\ pc' = "batch"
                /\ batch # <<>> /\ batch' = Tail(batch)
                /\ UNCHANGED loopVars
    BY <1>13 DEF SkipCall, UnknownTool, CacheHit, Admitted, Deny, Succeeds, Fails, Record,
       PrivacyInv, AdmittedOK
  <1>14. ASSUME EndBatchDenied
         PROVE  pc = "batch" /\ pc' = "synth"
    BY <1>14 DEF EndBatchDenied
  <1>15. CASE LoopStep
    BY <1>1, <1>3, <1>10, <1>15
  <1>16. CASE ModelStep
    BY <1>1, <1>2, <1>4, <1>5, <1>12, <1>16
  <1>17. CASE ToolStep
    BY <1>1, <1>6, <1>7, <1>8, <1>13, <1>14, <1>17 DEF ToolStep
  <1> QED
    BY <1>9, <1>15, <1>16, <1>17 DEF RunStep

\* Every step a run takes brings its end nearer, for every cap, batch size and
\* registry: what is ahead is a natural number, so that no sequence of answers,
\* retries, denials and failures goes on for ever (AgentRunner.run).
THEOREM EveryStepCountsThm == Spec => EveryStepCounts
  <1>1. PrivacyInv /\ [Next]_vars
          => [pc # "idle" => Ahead' < Ahead \/ UNCHANGED <<pc, runVars>>]_vars
    <2> SUFFICES ASSUME PrivacyInv, Next, pc # "idle"
                 PROVE  Ahead' < Ahead \/ UNCHANGED <<pc, runVars>>
      OBVIOUS
    <2>1. CASE RunStep
      BY <2>1, RunNears
    <2>2. CASE RefuseGoal \/ StartRun
      BY <2>2 DEF RefuseGoal, StartRun
    <2>3. CASE SensitiveChanges \/ \E m \in Models : ChooseModel(m)
      BY <2>3 DEF SensitiveChanges, ChooseModel
    <2> QED
      BY <2>1, <2>2, <2>3 DEF Next
  <1> QED
    BY <1>1, PrivacyInvariance, PTL DEF Spec, EveryStepCounts

\* A run is at most this many steps long, however it goes.
RunBound == StepsAhead(MaxSteps) + 5

\* The measure is a natural number wherever the run is.
LEMMA AheadNat == PrivacyInv => Ahead \in Nat
  <1>1. ASSUME PrivacyInv, pc \in {"llm", "head", "exec", "confirm", "batch"}
        PROVE  Ahead \in Nat
    BY <1>1, LoopIsLonger
  <1>2. ASSUME PrivacyInv, pc \in {"idle", "deliver", "finish", "synth"}
        PROVE  Ahead \in Nat
    BY <1>2 DEF Ahead
  <1> QED BY <1>1, <1>2 DEF PrivacyInv, TypeOK, Phases

\* What is ahead of a run never exceeds a bound that the caps alone determine,
\* and with EveryStepCountsThm no run takes more steps than that.
THEOREM RunIsBoundedThm == Spec => [](Ahead \in 0..RunBound)
  <1> DEFINE Near == Ahead <= RunBound
             Whole == Ahead \in Nat
  <1>0. RunBound \in Nat /\ RunBound >= 5
    BY StepIsWorth DEF RunBound
  <1>1. Init => Near
    <2> SUFFICES ASSUME Init PROVE Near
      OBVIOUS
    <2>1. Ahead = 0
      BY DEF Init, Ahead
    <2> QED BY <1>0, <2>1
  <1>2. PrivacyInv => Whole
    BY AheadNat
  <1>3. PrivacyInv /\ Whole /\ Whole' /\ Near /\ [Next]_vars => Near'
    <2> SUFFICES ASSUME PrivacyInv, Whole, Whole', Near, [Next]_vars
                 PROVE  Near'
      OBVIOUS
    <2>1. CASE RunStep
      <3>1. Ahead' < Ahead
        BY <2>1, RunNears
      <3> QED BY <1>0, <3>1 DEF RunBound, StepsAhead
    <2>2. CASE StartRun
      <3>1. /\ MaxSteps - step' = MaxSteps /\ pc' = "head"
            /\ step' = 0
        BY <2>2 DEF StartRun
      <3>2. Ahead' = 4 + StepsAhead(MaxSteps - step') + RetryAhead'
        BY <3>1 DEF Ahead, StepsAhead
      <3>3. RetryAhead' \in 0..1
        BY DEF RetryAhead
      <3> QED BY <1>0, <3>1, <3>2, <3>3, StepIsWorth DEF RunBound
    <2>3. CASE RefuseGoal \/ SensitiveChanges \/ (\E m \in Models : ChooseModel(m))
               \/ UNCHANGED vars
      <3>1. UNCHANGED <<pc, step, thinking, batch>>
        BY <2>3 DEF RefuseGoal, SensitiveChanges, ChooseModel, vars
      <3>2. Ahead' = Ahead
        BY <3>1 DEF Ahead, CallsAhead, RetryAhead
      <3> QED BY <3>2 DEF RunBound, StepsAhead
    <2> QED
      BY <2>1, <2>2, <2>3 DEF Next
  <1>4. Whole /\ Near => Ahead \in 0..RunBound
    BY <1>0
  <1> QED
    BY <1>1, <1>2, <1>3, <1>4, PrivacyInvariance, PTL DEF Spec

-----------------------------------------------------------------------------
(* The two properties the run checks in one.                               *)

\* Desktop content finds neither way out of a run: not by a call that is made,
\* not by one the model is offered.
THEOREM NoWayOutThm == Spec => []NoWayOut
  BY ContentStaysLocalThm, OfferedAreLocalThm, PTL DEF NoWayOut

\* Types, and what a run costs is bounded, in model calls and in tokens, for
\* every cap.
THEOREM CostBoundedThm == Spec => []CostBounded
  BY TypeCorrect, ModelCallsBoundedThm, BudgetOvershootBoundedThm, PTL DEF CostBounded
=============================================================================
