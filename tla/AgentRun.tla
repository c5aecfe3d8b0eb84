------------------------------ MODULE AgentRun ------------------------------
(***************************************************************************)
(* One /agent session at a time: Brain._handle_agent_goal                  *)
(* (brain/orchestrator.py) driving AgentRunner.run (brain/agent.py).       *)
(*                                                                         *)
(* The loop is sequential; what makes it hard is that every await hands    *)
(* the next value to somebody else: the model decides what is called, in   *)
(* which order and how often (a batch may name any tool, advertised or     *)
(* not), tools succeed, fail, raise or time out, the user answers the      *)
(* confirm modal, and /model may be typed at any moment.                   *)
(*                                                                         *)
(* Text is abstracted to its provenance: "content" when text read from     *)
(* another desktop application may be in it, "plain" when it cannot be.    *)
(* A tool name stands for the name with one canonical argument set, the    *)
(* key of the in-run cache.                                                *)
(*                                                                         *)
(* An operator named Slip... is a definition with a plausible mistake in   *)
(* it, next to the one it imitates; no action uses it.  The runs show that *)
(* the properties notice each of them.                                     *)
(***************************************************************************)
EXTENDS Integers, Sequences

CONSTANTS
    Actions,      \* the tools the runner holds (self._actions)
    Names,        \* the names a model may emit: Actions and unknown ones
    Marked,       \* reads_desktop_content
    Sinks,        \* writes_durable_sink
    Gated,        \* names the catalog puts behind a consent category
    Confirmed,    \* requires_confirm
    Cacheable,    \* cacheable
    MaxSteps,     \* [agent] max_steps
    TokenBudget,  \* [agent] token_budget
    StepTokens,   \* BOUND: the most tokens one response reports
    MaxBatch,     \* BOUND: the most tool calls in one response
    Thinking,     \* [agent] thinking
    Models,       \* the model names
    AgentModel,   \* [agent] model, NoModel when "" or the backend cannot swap
    NoModel

ASSUME ToolsAssumption ==
    /\ Actions \subseteq Names
    /\ Marked \subseteq Actions
    /\ Sinks \subseteq Actions
    /\ Gated \subseteq Names
    /\ Confirmed \subseteq Actions
    /\ Cacheable \subseteq Actions

ASSUME LimitsAssumption ==
    /\ MaxSteps \in Nat
    /\ TokenBudget \in Nat \ {0}
    /\ StepTokens \in Nat
    /\ MaxBatch \in Nat \ {0}
    /\ Thinking \in BOOLEAN

ASSUME ModelsAssumption ==
    /\ NoModel \notin Models
    /\ AgentModel \in Models \cup {NoModel}

VARIABLES
    pc,             \* where run() is suspended, or the handler's phase
    step,           \* the loop counter of run()
    tokens,         \* session.tokens_used
    thinking,       \* run()'s local: reasoning still enabled
    desktopContent, \* session.desktop_content
    inContext,      \* history: desktop content really is in `messages`
    authored,       \* provenance of the arguments of the current batch
    cache,          \* self._cache: the provenance of the stored result
    batch,          \* the calls of the current response still to handle
    denied,         \* run()'s local: a call of this batch was denied
    stopped,        \* session.stopped_reason
    final,          \* provenance of session.final_text, "none" when empty
    offered,        \* names advertised in the model call in flight
    llmCalls,       \* history: model calls this run has made
    executed,       \* history: <<tool, inContext when it was invoked>>
    chatLog,        \* history: provenance of every line persisted so far
    sensitive,      \* what the is_sensitive callback answers
    model,          \* the backend's model_name
    chosen,         \* history: the model the user chose last
    restore         \* previous_model when swapped, else NoModel

loopVars == <<step, thinking>>
callVars == <<tokens, offered, llmCalls>>
provVars == <<desktopContent, inContext, authored, cache>>
batchVars == <<batch, denied>>
endVars == <<stopped, final>>
logVars == <<executed, chatLog>>
handlerVars == <<sensitive, model, chosen, restore>>
\* What the head of the loop, and a step of a tool call, leave alone.
headFrame == <<loopVars, provVars, batchVars, logVars, handlerVars>>
toolFrame == <<loopVars, callVars, endVars, handlerVars>>
runVars == <<loopVars, callVars, provVars, batchVars, endVars>>
vars == <<pc, runVars, logVars, handlerVars>>

Prov == {"plain", "content"}

From(tainted) == IF tainted THEN "content" ELSE "plain"

Phases == {"idle", "head", "llm", "batch", "confirm", "exec", "synth",
           "finish", "deliver"}

Reasons == {"RUNNING", "COMPLETE", "STEP_CAP", "TOKEN_BUDGET", "SENSITIVE",
            "DENIED", "TIMEOUT", "CRASHED"}

Batches == UNION {[1..n -> Names] : n \in 0..MaxBatch}

Call == Head(batch)

-----------------------------------------------------------------------------
(* The rules that keep desktop content local.                              *)

NeedsConsent(n) == n \in Gated

\* An unheld name answers TRUE: a lookup miss fails closed.
WritesDurableSink(n) == n \notin Actions \/ n \in Sinks

\* The names advertised in the next step's tool list.
ToolsFor ==
    IF desktopContent
      THEN {n \in Names : ~NeedsConsent(n) /\ ~WritesDurableSink(n)}
      ELSE Names

SlipWithheld(n) == desktopContent /\ NeedsConsent(n)

\* Refused at execution, whatever was advertised.
Withheld(n) == desktopContent /\ (NeedsConsent(n) \/ WritesDurableSink(n))

SlipTrace(flag, provs) ==
    IF flag /\ batch # <<>> /\ Call \in Marked
      THEN chatLog ELSE chatLog \cup provs

\* The chat log after trace lines of these provenances: nothing is persisted
\* once the session's flag is up.
Trace(flag, provs) == IF flag THEN chatLog ELSE chatLog \cup provs

CacheEligible(n) == n \in Cacheable /\ n \notin Confirmed /\ n \notin Marked

-----------------------------------------------------------------------------
(* Brain._handle_agent_goal, up to runner.run.                             *)

RefuseGoal ==
    /\ pc = "idle"
    /\ sensitive
    /\ chatLog' = chatLog \cup {"plain"}
    /\ UNCHANGED <<pc, executed, runVars, handlerVars>>

SwapsModel == AgentModel # NoModel /\ AgentModel # model

\* AgentRunner.__init__: the cache lives as long as the runner, one run.
FreshCache == cache' = [a \in Actions |-> "none"]

StartRun ==
    /\ pc = "idle"
    /\ ~sensitive
    /\ pc' = "head"
    /\ step' = 0
    /\ tokens' = 0
    /\ thinking' = Thinking
    /\ desktopContent' = FALSE
    /\ inContext' = FALSE
    /\ authored' = "plain"
    /\ FreshCache
    /\ batch' = <<>>
    /\ denied' = FALSE
    /\ stopped' = "RUNNING"
    /\ final' = "none"
    /\ offered' = {}
    /\ llmCalls' = 0
    /\ executed' = {}
    /\ chatLog' = chatLog \cup {"plain"}
    /\ restore' = IF SwapsModel THEN model ELSE NoModel
    /\ model' = IF SwapsModel THEN AgentModel ELSE model
    /\ UNCHANGED <<sensitive, chosen>>

-----------------------------------------------------------------------------
(* The head of the step loop.                                              *)

\* Suspends on a model call that advertises the given names.  The history
\* stops counting where ModelCallsBounded has failed.
AskModel(names) ==
    /\ offered' = names
    /\ llmCalls' = IF llmCalls <= MaxSteps + 2 THEN llmCalls + 1 ELSE llmCalls

SlipStepsLeft == step <= MaxSteps

StepsLeft == step < MaxSteps

StepCap ==
    /\ pc = "head"
    /\ ~StepsLeft
    /\ pc' = "synth"
    /\ stopped' = "STEP_CAP"
    /\ AskModel({})
    /\ UNCHANGED <<tokens, final, headFrame>>

SensitiveStop ==
    /\ pc = "head"
    /\ StepsLeft
    /\ sensitive
    /\ pc' = "finish"
    /\ stopped' = "SENSITIVE"
    /\ UNCHANGED <<final, callVars, headFrame>>

OverBudget == tokens >= TokenBudget

BudgetStop ==
    /\ pc = "head"
    /\ StepsLeft
    /\ ~sensitive
    /\ OverBudget
    /\ pc' = "synth"
    /\ stopped' = "TOKEN_BUDGET"
    /\ AskModel({})
    /\ UNCHANGED <<tokens, final, headFrame>>

BeginStep ==
    /\ pc = "head"
    /\ StepsLeft
    /\ ~sensitive
    /\ ~OverBudget
    /\ pc' = "llm"
    /\ AskModel(ToolsFor)
    /\ UNCHANGED <<tokens, endVars, headFrame>>

-----------------------------------------------------------------------------
(* The model's answer (_step): any of these while a call is in flight.     *)

\* Tokens are charged and the reasoning, if any, is traced.
Charge(used, reasons, lines) ==
    /\ tokens' = tokens + used
    /\ chatLog' = Trace(desktopContent,
                        lines \cup IF reasons THEN {From(inContext)} ELSE {})

Answers(used, reasons, empty) ==
    /\ pc = "llm"
    /\ Charge(used, reasons, {})
    /\ pc' = "finish"
    /\ stopped' = "COMPLETE"
    /\ final' = IF empty THEN "none" ELSE From(inContext)
    /\ UNCHANGED <<offered, llmCalls, executed, loopVars, provVars, batchVars,
                   handlerVars>>

SlipTruncated(used, reasons) ==
    /\ pc = "llm"
    /\ thinking
    /\ Charge(used, reasons, {"plain"})
    /\ AskModel(offered)
    /\ UNCHANGED <<pc, executed, loopVars, provVars, batchVars, endVars,
                   handlerVars>>

\* Cut off while thinking: the step is asked again without thinking, and
\* thinking stays off for the rest of the run.
Truncated(used, reasons) ==
    /\ pc = "llm"
    /\ thinking
    /\ thinking' = FALSE
    /\ Charge(used, reasons, {"plain"})
    /\ AskModel(offered)
    /\ UNCHANGED <<pc, step, executed, provVars, batchVars, endVars,
                   handlerVars>>

CallsTools(used, reasons, calls) ==
    /\ pc = "llm"
    /\ calls # <<>>
    /\ Charge(used, reasons, {})
    /\ pc' = "batch"
    /\ batch' = calls
    /\ authored' = From(inContext)
    /\ UNCHANGED <<desktopContent, inContext, cache, denied, offered,
                   llmCalls, executed, loopVars, endVars, handlerVars>>

StepTimesOut ==
    /\ pc = "llm"
    /\ pc' = "finish"
    /\ stopped' = "TIMEOUT"
    /\ UNCHANGED <<final, callVars, headFrame>>

\* The backend or the confirm modal raises: run() unwinds and the handler
\* builds a CRASHED session that keeps the desktop-content marker.
RunRaises ==
    /\ pc \in {"llm", "confirm"}
    /\ pc' = "finish"
    /\ stopped' = "CRASHED"
    /\ final' = "none"
    /\ batch' = <<>>
    /\ UNCHANGED <<denied, loopVars, callVars, provVars, logVars,
                   handlerVars>>

-----------------------------------------------------------------------------
(* The tool calls of one response, handled in order (_execute_one).        *)

SlipRecord(result, lines, denial) ==
    /\ pc' = "batch"
    /\ batch' = Tail(batch)
    /\ inContext' = (inContext \/ result = "content")
    /\ denied' = denial
    /\ chatLog' = Trace(desktopContent', lines)

\* The call's result becomes a tool message; its trace line goes out.
Record(result, lines, denial) ==
    /\ pc' = "batch"
    /\ batch' = Tail(batch)
    /\ inContext' = (inContext \/ result = "content")
    /\ denied' = (denied \/ denial)
    /\ chatLog' = Trace(desktopContent', lines)

SkipCall ==
    /\ pc = "batch"
    /\ batch # <<>>
    /\ Withheld(Call)
    /\ UNCHANGED desktopContent
    /\ Record("plain", {authored}, FALSE)
    /\ UNCHANGED <<authored, cache, executed, toolFrame>>

UnknownTool ==
    /\ pc = "batch"
    /\ batch # <<>>
    /\ ~Withheld(Call)
    /\ Call \notin Actions
    /\ UNCHANGED desktopContent
    /\ Record(authored, {authored}, FALSE)
    /\ UNCHANGED <<authored, cache, executed, toolFrame>>

Admitted ==
    /\ pc = "batch"
    /\ batch # <<>>
    /\ ~Withheld(Call)
    /\ Call \in Actions

FlagAfter(n) == desktopContent \/ n \in Marked

CacheHit ==
    /\ Admitted
    /\ CacheEligible(Call)
    /\ cache[Call] # "none"
    /\ UNCHANGED desktopContent
    /\ Record(cache[Call], {cache[Call]}, FALSE)
    /\ UNCHANGED <<authored, cache, executed, toolFrame>>

AskConfirm ==
    /\ Admitted
    /\ Call \in Confirmed
    /\ pc' = "confirm"
    /\ desktopContent' = FlagAfter(Call)
    /\ UNCHANGED <<inContext, authored, cache, batchVars, logVars, toolFrame>>

Deny ==
    /\ pc = "confirm"
    /\ UNCHANGED desktopContent
    /\ Record("plain", {"plain"}, TRUE)
    /\ UNCHANGED <<authored, cache, executed, toolFrame>>

\* The arguments are traced and the invoker awaits the tool.
Begin ==
    /\ pc' = "exec"
    /\ executed' = executed \cup {<<Call, inContext>>}
    /\ chatLog' = Trace(desktopContent', {authored})

Allow ==
    /\ pc = "confirm"
    /\ UNCHANGED desktopContent
    /\ Begin
    /\ UNCHANGED <<inContext, authored, cache, batchVars, toolFrame>>

Invoke ==
    /\ Admitted
    /\ Call \notin Confirmed
    /\ CacheEligible(Call) => cache[Call] = "none"
    /\ desktopContent' = FlagAfter(Call)
    /\ Begin
    /\ UNCHANGED <<inContext, authored, cache, batchVars, toolFrame>>

\* What a result may quote: the text a marked tool read, or its arguments.
ResultProv == IF Call \in Marked THEN "content" ELSE authored

\* A marked tool's trace shows a length only.
ShownProv == IF Call \in Marked THEN "plain" ELSE authored

Succeeds ==
    /\ pc = "exec"
    /\ UNCHANGED desktopContent
    /\ cache' = IF CacheEligible(Call)
                  THEN [cache EXCEPT ![Call] = ResultProv] ELSE cache
    /\ Record(ResultProv, {ShownProv}, FALSE)
    /\ UNCHANGED <<authored, executed, toolFrame>>

\* A failed result, a raised exception or a timeout: recorded, never cached.
\* Of a marked tool that raised, only the exception's type is kept.
Fails(result) ==
    /\ pc = "exec"
    /\ result \in {"plain", ResultProv}
    /\ UNCHANGED desktopContent
    /\ Record(result, {ShownProv}, FALSE)
    /\ UNCHANGED <<authored, cache, executed, toolFrame>>

EndBatchDenied ==
    /\ pc = "batch"
    /\ batch = <<>>
    /\ denied
    /\ pc' = "synth"
    /\ stopped' = "DENIED"
    /\ AskModel({})
    /\ UNCHANGED <<tokens, final, headFrame>>

CountStep == step' = step + 1

EndBatch ==
    /\ pc = "batch"
    /\ batch = <<>>
    /\ ~denied
    /\ pc' = "head"
    /\ CountStep
    /\ UNCHANGED <<thinking, callVars, provVars, batchVars, endVars, logVars,
                   handlerVars>>

-----------------------------------------------------------------------------
(* Forced synthesis, the handler's finally block and the delivery.         *)

Synthesizes(used, reasons, empty) ==
    /\ pc = "synth"
    /\ Charge(used, reasons, {})
    /\ pc' = "finish"
    /\ final' = IF empty THEN "none" ELSE From(inContext)
    /\ UNCHANGED <<stopped, offered, llmCalls, executed, loopVars, provVars,
                   batchVars, handlerVars>>

SynthesisFails ==
    /\ pc = "synth"
    /\ pc' = "finish"
    /\ final' = "none"
    /\ UNCHANGED <<stopped, callVars, headFrame>>

SlipRestoreModel == model' = model

RestoreModel == model' = IF restore # NoModel THEN restore ELSE model

Finish ==
    /\ pc = "finish"
    /\ pc' = "deliver"
    /\ RestoreModel
    /\ restore' = NoModel
    /\ UNCHANGED <<sensitive, chosen, runVars, logVars>>

\* The summary line and the bubble are persisted. A desktop run's answer goes
\* to the chat pane unpersisted; its bubble is the canned aborted line or a
\* persona line whose prompt carries nothing of the run.
DeliverReply ==
    chatLog' = chatLog \cup {"plain"}
                       \cup IF desktopContent THEN {} ELSE {final} \ {"none"}

SlipDeliver ==
    /\ pc = "deliver"
    /\ final # "none"
    /\ pc' = "idle"
    /\ DeliverReply
    /\ UNCHANGED <<executed, runVars, handlerVars>>

Deliver ==
    /\ pc = "deliver"
    /\ pc' = "idle"
    /\ DeliverReply
    /\ UNCHANGED <<executed, runVars, handlerVars>>

-----------------------------------------------------------------------------
(* What the run does not control.                                          *)

\* The is_sensitive callback may answer differently at any suspension.
SensitiveChanges ==
    /\ sensitive' = ~sensitive
    /\ UNCHANGED <<pc, model, chosen, restore, runVars, logVars>>

\* /model <name>, on the UI thread; nothing checks for a running agent.
ChooseModel(m) ==
    /\ m # chosen
    /\ model' = m
    /\ chosen' = m
    /\ UNCHANGED <<pc, sensitive, restore, runVars, logVars>>

-----------------------------------------------------------------------------
Init ==
    /\ pc = "idle"
    /\ step = 0
    /\ tokens = 0
    /\ thinking = Thinking
    /\ desktopContent = FALSE
    /\ inContext = FALSE
    /\ authored = "plain"
    /\ cache = [a \in Actions |-> "none"]
    /\ batch = <<>>
    /\ denied = FALSE
    /\ stopped = "RUNNING"
    /\ final = "none"
    /\ offered = {}
    /\ llmCalls = 0
    /\ executed = {}
    /\ chatLog = {}
    /\ sensitive \in BOOLEAN
    /\ model \in Models
    /\ chosen = model
    /\ restore = NoModel

LoopStep == StepCap \/ SensitiveStop \/ BudgetStop \/ BeginStep

ModelStep ==
    \/ \E used \in 0..StepTokens, reasons \in BOOLEAN :
          \/ \E empty \in BOOLEAN : Answers(used, reasons, empty)
          \/ Truncated(used, reasons)
          \/ \E calls \in Batches : CallsTools(used, reasons, calls)
          \/ \E empty \in BOOLEAN : Synthesizes(used, reasons, empty)
    \/ StepTimesOut
    \/ RunRaises
    \/ SynthesisFails

ToolStep ==
    \/ SkipCall
    \/ UnknownTool
    \/ CacheHit
    \/ AskConfirm
    \/ Deny
    \/ Allow
    \/ Invoke
    \/ Succeeds
    \/ \E result \in Prov : Fails(result)
    \/ EndBatchDenied
    \/ EndBatch

RunStep == LoopStep \/ ModelStep \/ ToolStep \/ Finish \/ Deliver

Next ==
    \/ RefuseGoal
    \/ StartRun
    \/ RunStep
    \/ SensitiveChanges
    \/ \E m \in Models : ChooseModel(m)

Spec == Init /\ [][Next]_vars

\* A started run keeps moving: model calls and tools are under wait_for, and
\* the user is assumed to answer the confirm modal (it has no timeout).
FairSpec == Spec /\ WF_vars(RunStep)

-----------------------------------------------------------------------------
TypeOK ==
    /\ pc \in Phases
    /\ step \in 0..MaxSteps
    /\ tokens \in Nat
    /\ thinking \in BOOLEAN
    /\ desktopContent \in BOOLEAN
    /\ inContext \in BOOLEAN
    /\ authored \in Prov
    /\ cache \in [Actions -> Prov \cup {"none"}]
    /\ batch \in Seq(Names)
    /\ denied \in BOOLEAN
    /\ stopped \in Reasons
    /\ final \in Prov \cup {"none"}
    /\ offered \in SUBSET Names
    /\ llmCalls \in Nat
    /\ executed \in SUBSET (Actions \X BOOLEAN)
    /\ chatLog \in SUBSET Prov
    /\ sensitive \in BOOLEAN
    /\ model \in Models
    /\ chosen \in Models
    /\ restore \in Models \cup {NoModel}

\* Once text read from another application is in the run's messages, no tool
\* that reaches the network or writes a durable row is ever invoked, not even
\* one named in the same batch as the read or never advertised (agent.py's
\* _writes_durable_sink docstring).
ContentStaysLocal ==
    \A e \in executed : e[2] => e[1] \notin Gated \cup Sinks

\* No line of the chat log that is kept on disk can carry desktop content:
\* not a trace of a later tool's arguments or result, not a cached result,
\* not the reasoning, not the answer (agent.py, _trace).
ContentNeverPersisted == "content" \notin chatLog

\* A model call made with desktop content in its messages advertises no
\* network tool, no durable sink and no unheld name.
OfferedAreLocal ==
    pc = "llm" /\ inContext =>
        offered \cap (Gated \cup Sinks \cup (Names \ Actions)) = {}

\* However often steps are truncated while thinking, a run makes at most one
\* call per step, one retry and one forced synthesis.
ModelCallsBounded == llmCalls <= MaxSteps + 2

\* The budget is soft, but by no more than the step that crosses it, its
\* retry and the forced synthesis.
BudgetOvershootBounded == tokens < TokenBudget + 3 * StepTokens

\* Neither way out: not by a call, not by what the model is offered to call.
NoWayOut == ContentStaysLocal /\ OfferedAreLocal

\* Types, and what a run may cost, in calls and in tokens, however its steps go.
CostBounded == TypeOK /\ ModelCallsBounded /\ BudgetOvershootBounded

\* How far off the end of the run may be: a call takes three steps (its gate, the
\* user, the tool), a step of the loop those of its batch and three of its own,
\* and of the retry there is one.
CallsAhead == 3 * Len(batch)
StepsAhead(n) == n * (3 * MaxBatch + 3)
RetryAhead == IF thinking THEN 1 ELSE 0

Ahead ==
    CASE pc = "idle"    -> 0
      [] pc = "deliver" -> 1
      [] pc = "finish"  -> 2
      [] pc = "synth"   -> 3
      [] pc = "llm"     -> 3 + StepsAhead(MaxSteps - step) + RetryAhead
      [] pc = "head"    -> 4 + StepsAhead(MaxSteps - step) + RetryAhead
      [] pc = "exec"    -> 3 + StepsAhead(MaxSteps - step - 1) + CallsAhead + RetryAhead
      [] pc = "confirm" -> 4 + StepsAhead(MaxSteps - step - 1) + CallsAhead + RetryAhead
      [] pc = "batch"   -> 5 + StepsAhead(MaxSteps - step - 1) + CallsAhead + RetryAhead

\* Whatever the model, the tools and the user answer, a run is changed only by a
\* step that brings its end nearer: this is what makes every run end.
EveryStepCounts ==
    [][pc # "idle" => Ahead' < Ahead \/ UNCHANGED <<pc, runVars>>]_vars

\* Once the user has denied a call, whatever the rest of the batch answers,
\* the denial is not forgotten and no model call that advertises tools is made:
\* only the synthesis is left (agent.py, the denied branch of run).
DenialEndsTheLoop ==
    [][denied => pc' # "llm" /\ (pc # "idle" => denied')]_vars

\* Between runs the backend has no model the user did not choose: the swap is
\* undone on every way out of a run.
SwapIsUndone == pc = "idle" /\ AgentModel \notin {chosen, NoModel} => model # AgentModel

\* Every run ends: no sequence of answers, denials, failures and timeouts
\* keeps the agent mode up for ever.
RunEnds == pc # "idle" ~> pc = "idle"
=============================================================================
