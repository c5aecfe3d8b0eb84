------------------------------ MODULE IdleTools ------------------------------
(***************************************************************************)
(* Idle tools: in a quiet tick the brain rolls for a tool to talk about.   *)
(* The model may be asked to pick one (brain/idle_tools_m3.py); if nothing *)
(* comes of it a rule is drawn (brain/idle_tools.py), both from            *)
(* brain/idle_runner.py.  /idle_tools roll forces a rule in a task of its  *)
(* own (app.py).  The three share one FireTracker and await their tools    *)
(* between reading it and writing it.                                      *)
(*                                                                         *)
(* A moment is an age, how long ago it was, as far back as it can matter.  *)
(* An automatic fire is stamped with the moment its roll began, a forced   *)
(* one with the moment it ended, so the stamps need not be in order.  The  *)
(* predicates, the consents and the dice are choices.  What becomes of the *)
(* output is CommentGate's: the riff is one of its lines.                  *)
(*                                                                         *)
(* An operator named Slip... is a definition with a plausible mistake in   *)
(* it: the run of IdleTools must notice when it takes the other's place.   *)
(***************************************************************************)
EXTENDS Integers, Sequences, FiniteSets

CONSTANTS
    Rules,          \* M1_RULES
    Tools,          \* the tools they invoke, and the model's catalog
    ToolOf,         \* the primary tool of a rule
    Catalog,        \* M3_CATALOG
    Evergreen,      \* _DAILY_EVERGREEN_TOOLS
    RuleCooldown,   \* cooldown_s of a rule
    CoolOff,        \* PER_TOOL_COOLOFF_S
    GlobalCooldown, \* global_cooldown_s
    MaxPerHour,     \* max_per_hour
    Hour,
    M3Cooldown,     \* llm_initiated_cooldown_s
    M3PerHour,      \* llm_initiated_max_per_hour
    PickLimit,      \* CONSECUTIVE_PICK_LIMIT
    CircuitCoolOff, \* CIRCUIT_COOLOFF_S
    Horizon,        \* BOUND: older than anything asks
    CallTime,       \* BOUND: how long a roll takes
    MaxFires        \* BOUND: how many fires are remembered when one is forced

ASSUME ToolsAssumption ==
    /\ ToolOf \in [Rules -> Tools]
    /\ Catalog \subseteq Tools /\ Evergreen \subseteq Tools
ASSUME TimesAssumption ==
    /\ RuleCooldown \in [Rules -> Nat]
    /\ CoolOff \in [Catalog -> Nat]
    /\ {GlobalCooldown, Hour, M3Cooldown, CircuitCoolOff, CallTime, Horizon} \subseteq Nat
ASSUME HorizonAssumption ==
    /\ GlobalCooldown <= Horizon /\ Hour < Horizon /\ M3Cooldown <= Horizon
    /\ CircuitCoolOff <= Horizon /\ CallTime <= Horizon
    /\ \A r \in Rules : RuleCooldown[r] <= Horizon
    /\ \A t \in Catalog : CoolOff[t] <= Horizon
ASSUME CapsAssumption == {MaxPerHour, M3PerHour, PickLimit, MaxFires} \subseteq Nat \ {0}

VARIABLES
    eligible,   \* is_eligible, in a tick that emitted nothing
    auto,       \* the loop's roll: what it awaits, for what, and its age
    forced,     \* the rules being forced
    byRule,     \* last_by_rule
    byTool,     \* last_by_tool
    lastAny,    \* last_any
    fires,      \* recent_fires, oldest entry first
    m3Last,     \* m3_last_fire
    m3Fires,    \* m3_recent_fires
    picks,      \* consecutive_same_tool, not told apart beyond PickLimit
    cached,     \* the evergreen tools with an entry in _daily_cache
    began,      \* history: when the automatic fires of the last hour began
    hold        \* history: how long no rule is to be drawn

tracker == <<byRule, byTool, lastAny, fires, m3Last, m3Fires, picks>>
history == <<began, hold>>
idleVars == <<eligible, auto, forced, tracker, cached, history>>

Older(age) == IF age < Horizon THEN age + 1 ELSE age
AgedFires(ages) == [i \in DOMAIN ages |-> Older(ages[i])]
Resting == [at |-> "none", what |-> "none", age |-> 0]

InHour(age) == age <= Hour
Young(ages) == {i \in DOMAIN ages : InHour(ages[i])}

\* The oldest entries, up to the first that is not over an hour old.
Stale(ages) == {i \in DOMAIN ages : \A j \in 1..i : ~InHour(ages[j])}
Lately(ages) == SubSeq(ages, Cardinality(Stale(ages)) + 1, Len(ages))

SlipPrunedFires(ages) == ages

\* The deque loses its head while that is older than an hour.
PrunedFires(ages) == Lately(ages)

-----------------------------------------------------------------------------
(* The loop's roll.                                                        *)

Open(t) ==
    /\ byTool[t] >= CoolOff[t]
    /\ picks[t] >= PickLimit => byTool[t] >= CircuitCoolOff

\* _build_tool_specs: a tool whose circuit has cooled starts counting anew.
Forgiven == [t \in Catalog |-> IF Open(t) /\ picks[t] >= PickLimit THEN 0 ELSE picks[t]]

\* The model is asked to pick a tool.
AskModel ==
    /\ eligible
    /\ auto.at = "none"
    /\ m3Last >= M3Cooldown
    /\ m3Fires' = PrunedFires(m3Fires)
    /\ Len(m3Fires') < M3PerHour
    /\ fires' = PrunedFires(fires)
    /\ Len(fires') < MaxPerHour
    /\ \E t \in Catalog : Open(t)
    /\ picks' = Forgiven
    /\ auto' = [at |-> "picking", what |-> "none", age |-> 0]
    /\ UNCHANGED <<eligible, forced, byRule, byTool, lastAny, m3Last, cached, history>>

\* A rule that has cooled down, whose predicate and consent say yes.
Draw(r) ==
    /\ lastAny >= GlobalCooldown
    /\ fires' = PrunedFires(fires)
    /\ Len(fires') < MaxPerHour
    /\ byRule[r] >= RuleCooldown[r]
    /\ auto' = [at |-> "rule", what |-> r, age |-> 0]
    /\ UNCHANGED <<eligible, forced, byRule, byTool, lastAny, m3Last, m3Fires, picks,
                   cached, history>>

DrawRule(r) ==
    /\ eligible
    /\ auto.at = "none"
    /\ Draw(r)

GiveUp ==
    /\ auto' = Resting
    /\ UNCHANGED <<eligible, forced, tracker, cached, history>>

\* No pick, a crash, or a tool outside the catalog: a rule may be drawn.
Declined ==
    /\ auto.at = "picking"
    /\ GiveUp \/ \E r \in Rules : Draw(r)

\* The pick is not held against what was offered.
Picked(t) ==
    /\ auto.at = "picking"
    /\ auto' = [auto EXCEPT !.at = "tool", !.what = t]
    /\ UNCHANGED <<eligible, forced, tracker, cached, history>>

\* What every fire writes.
Stamp(t, age) ==
    /\ byTool' = [byTool EXCEPT ![t] = age]
    /\ lastAny' = age
    /\ fires' = Append(fires, age)

\* How often the model picked the same tool in a row.
PickStreak(picked) ==
    [t \in Catalog |-> IF t # picked THEN 0
                       ELSE IF picks[t] < PickLimit THEN picks[t] + 1 ELSE PickLimit]

\* A fire of the loop, stamped with the roll's beginning.
Note ==
    /\ began' = Lately(Append(began, auto.age))
    /\ hold' = IF hold < GlobalCooldown - auto.age THEN GlobalCooldown - auto.age ELSE hold

SlipPickFires ==
    /\ auto.at = "tool"
    /\ byTool' = [byTool EXCEPT ![auto.what] = auto.age]
    /\ lastAny' = auto.age
    /\ m3Last' = auto.age
    /\ m3Fires' = Append(m3Fires, auto.age)
    /\ picks' = PickStreak(auto.what)
    /\ auto' = Resting
    /\ Note
    /\ UNCHANGED <<eligible, forced, byRule, fires, cached>>

\* _record_fire.
PickFires ==
    /\ auto.at = "tool"
    /\ Stamp(auto.what, auto.age)
    /\ m3Last' = auto.age
    /\ m3Fires' = Append(m3Fires, auto.age)
    /\ picks' = PickStreak(auto.what)
    /\ auto' = Resting
    /\ Note
    /\ UNCHANGED <<eligible, forced, byRule, cached>>

\* Nothing is recorded, and a rule may be drawn.
PickFails ==
    /\ auto.at = "tool"
    /\ GiveUp \/ \E r \in Rules : Draw(r)

RuleFires ==
    /\ auto.at = "rule"
    /\ Stamp(ToolOf[auto.what], auto.age)
    /\ byRule' = [byRule EXCEPT ![auto.what] = auto.age]
    /\ cached' = cached \cup ({ToolOf[auto.what]} \cap Evergreen)
    /\ auto' = Resting
    /\ Note
    /\ UNCHANGED <<eligible, forced, m3Last, m3Fires, picks>>

\* An entry past its time is served all the same when it cannot be refreshed.
MayFail(r) == ToolOf[r] \notin cached

RuleFails ==
    /\ auto.at = "rule"
    /\ MayFail(auto.what)
    /\ GiveUp

-----------------------------------------------------------------------------
(* /idle_tools roll.                                                       *)

ForceRule(r) ==
    /\ r \notin forced
    /\ Len(fires) < MaxFires
    /\ forced' = forced \cup {r}
    /\ UNCHANGED <<eligible, auto, tracker, cached, history>>

SlipForceFires(r) ==
    /\ r \in forced
    /\ forced' = forced \ {r}
    /\ hold' = IF auto.at = "none" THEN GlobalCooldown ELSE hold
    /\ UNCHANGED <<eligible, auto, tracker, cached, began>>

\* No automatic roll under way writes an older stamp over this one.
ForceFires(r) ==
    /\ r \in forced
    /\ forced' = forced \ {r}
    /\ Stamp(ToolOf[r], 0)
    /\ byRule' = [byRule EXCEPT ![r] = 0]
    /\ cached' = cached \cup ({ToolOf[r]} \cap Evergreen)
    /\ hold' = IF auto.at = "none" THEN GlobalCooldown ELSE hold
    /\ UNCHANGED <<eligible, auto, m3Last, m3Fires, picks, began>>

\* The tool has no output, or thirty seconds are over.
ForceFails(r) ==
    /\ r \in forced
    /\ forced' = forced \ {r}
    /\ UNCHANGED <<eligible, auto, tracker, cached, history>>

-----------------------------------------------------------------------------
\* warm_daily_cache, at startup, one tool at a time.
Warm(t) ==
    /\ t \in Evergreen \ cached
    /\ cached' = cached \cup {t}
    /\ UNCHANGED <<eligible, auto, forced, tracker, history>>

\* The user talks, pauses or goes back to work; a comment is made.
EligibleChanges ==
    /\ eligible' = ~eligible
    /\ UNCHANGED <<auto, forced, tracker, cached, history>>

IdlePass ==
    /\ auto.at # "none" => auto.age < CallTime
    /\ auto' = IF auto.at = "none" THEN auto ELSE [auto EXCEPT !.age = @ + 1]
    /\ byRule' = [r \in Rules |-> Older(byRule[r])]
    /\ byTool' = [t \in Tools |-> Older(byTool[t])]
    /\ lastAny' = Older(lastAny)
    /\ fires' = AgedFires(fires)
    /\ m3Last' = Older(m3Last)
    /\ m3Fires' = AgedFires(m3Fires)
    /\ began' = Lately(AgedFires(began))
    /\ hold' = IF hold > 0 THEN hold - 1 ELSE 0
    /\ UNCHANGED <<eligible, forced, picks, cached>>

IdleInit ==
    /\ eligible = FALSE
    /\ auto = Resting
    /\ forced = {}
    /\ byRule = [r \in Rules |-> Horizon]
    /\ byTool = [t \in Tools |-> Horizon]
    /\ lastAny = Horizon
    /\ fires = <<>>
    /\ m3Last = Horizon
    /\ m3Fires = <<>>
    /\ picks = [t \in Catalog |-> 0]
    /\ cached = {}
    /\ began = <<>>
    /\ hold = 0

RollAnswer == Declined \/ (\E t \in Catalog : Picked(t)) \/ PickFires \/ PickFails
                  \/ RuleFires \/ RuleFails

Roll == AskModel \/ \E r \in Rules : DrawRule(r)

IdleNext ==
    \/ Roll \/ RollAnswer
    \/ \E r \in Rules : ForceRule(r) \/ ForceFires(r) \/ ForceFails(r)
    \/ \E t \in Tools : Warm(t)
    \/ EligibleChanges
    \/ IdlePass

IdleSpec == IdleInit /\ [][IdleNext]_idleVars

\* Time passes, calls come back, a forced roll is cancelled after thirty
\* seconds, and a rule that may be drawn is drawn in the end: the hours of the
\* day come round and the dice are fair.
IdleFairness ==
    /\ WF_idleVars(IdlePass)
    /\ WF_idleVars(RollAnswer)
    /\ \A r \in Rules : WF_idleVars(ForceFires(r) \/ ForceFails(r))
    /\ SF_idleVars(Roll)

FairIdleSpec == IdleSpec /\ IdleFairness

-----------------------------------------------------------------------------
(* Properties.                                                             *)

FireAges == 0..Horizon

IdleType ==
    /\ eligible \in BOOLEAN
    /\ auto \in [at : {"none", "picking", "tool", "rule"},
                 what : Rules \cup Catalog \cup {"none"}, age : 0..CallTime]
    /\ forced \subseteq Rules
    /\ byRule \in [Rules -> FireAges] /\ byTool \in [Tools -> FireAges]
    /\ lastAny \in FireAges /\ m3Last \in FireAges
    /\ fires \in Seq(FireAges) /\ m3Fires \in Seq(FireAges) /\ began \in Seq(FireAges)
    /\ picks \in [Catalog -> 0..PickLimit]
    /\ cached \subseteq Evergreen
    /\ hold \in 0..GlobalCooldown

\* However picks, rules and forced rolls overlap, whatever order their stamps
\* are in, the loop begins at most max_per_hour fires in an hour, and the model
\* no more of them than its own cap.
FiresAreCapped ==
    /\ Cardinality(Young(began)) <= MaxPerHour
    /\ Cardinality(Young(m3Fires)) <= M3PerHour

CapsOK == IdleType /\ FiresAreCapped

\* No rule is drawn within the cooldown of a fire: neither of the loop's last
\* one nor of a forced one that no roll under way could have stamped over.
DrawsAreSpaced ==
    [][auto.at # "rule" /\ auto'.at = "rule" => hold = 0]_idleVars

\* A quiet stretch always gets its next roll: no order of stamps, no failing
\* tool and no tripped circuit stops the rolls for good, once nobody forces any.
RollsComeBack ==
    <>[](eligible /\ forced = {}) => []<>(auto.at # "none")
=============================================================================
