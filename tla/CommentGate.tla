---------------------------- MODULE CommentGate ----------------------------
(***************************************************************************)
(* What the brain says unasked: one tick of the brain loop at a time, the  *)
(* gate in front of the ambient emitters (brain/orchestrator.py), the      *)
(* wedges (brain/wedge.py, brain/wedges), and the emitters that go round   *)
(* the gate: wedges that bypass it, clicks, idle-tool riffs and the end of *)
(* day summary, which runs in a task of its own.                           *)
(*                                                                         *)
(* Time is relative: a moment is how long ago it was, as far back as it    *)
(* can matter.  Only Pass moves time, so any number of ticks may fall in   *)
(* one unit.  The score, the jitter, the activity level and the dice of a  *)
(* freeform thought are choices.                                           *)
(***************************************************************************)
EXTENDS Integers, Sequences, FiniteSets

CONSTANTS
    Cooldown,       \* the shortest cooldown of _should_comment
    MaxCooldown,    \* the longest: user away, and all of the jitter
    FreeformGap,    \* _FREEFORM_MIN_GAP_S
    ForcedSilence,  \* _FORCED_SILENCE_DURATION
    Burst,          \* _FORCED_SILENCE_AFTER
    Streak,         \* _FORCED_SILENCE_AFTER_SUPPRESSIONS
    Window,         \* _WINDOW_SECONDS
    WindowCap,      \* _MAX_COMMENTS_PER_WINDOW
    QuipGap,        \* between two confused quips
    MaxExtras       \* BOUND: git events, signals of wedges, clicks, rolls, summaries

ASSUME GateAssumption ==
    /\ {Cooldown, MaxCooldown, FreeformGap, ForcedSilence, Burst, Streak,
        Window, WindowCap, QuipGap} \subseteq Nat \ {0}
    /\ Cooldown <= MaxCooldown
    /\ MaxExtras \in Nat

VARIABLES
    sinceLast,      \* now - _last_comment_time
    consecutive,    \* _consecutive_comments, not told apart beyond Burst
    stamps,         \* the ages of the last WindowCap _comment_timestamps
    silence,        \* what is left until _forced_silence_until
    streak,         \* _suppressed_streak
    failures,       \* _consecutive_failures, not told apart beyond 4
    toolsOn,        \* _tool_calling_enabled
    sinceQuip,      \* now - _last_confused_quip
    paused,         \* _paused
    conversing,     \* _in_conversation
    pending,        \* the wedges with something to propose
    working,        \* what the loop is awaiting a line for
    waved,          \* whether the gate was not asked about it
    summary,        \* whether an end of day summary is being written
    extras,         \* what is left of MaxExtras
    gated,          \* history: ages of the last lines the gate let through
    rejected,       \* history: lines thrown away since one was shown
    hush,           \* history: the silence still owed for lines thrown away
    sinceThrown     \* history: how long ago the last line was thrown away

gateVars == <<sinceLast, consecutive, stamps, silence, streak>>
modelVars == <<failures, toolsOn, sinceQuip>>
userVars == <<paused, conversing>>
historyVars == <<gated, rejected, hush, sinceThrown>>
vars == <<gateVars, modelVars, userVars, pending, working, waved, summary,
          extras, historyVars>>

MinOf(a, b) == IF a < b THEN a ELSE b
MaxOf(a, b) == IF a > b THEN a ELSE b

Bypassing == {"rage", "git_nudge"}
Wedges == Bypassing \cup {"drift"}
Gated == {"observation", "drift", "freeform"}
Ambient == Gated \cup Bypassing
Kinds == Ambient \cup {"idle"}

LongAgo == MaxOf(MaxOf(MaxCooldown, FreeformGap), ForcedSilence + 1)

\* The ages of the newest n, one more of age 0 added in front.
Newest(ages, n) == SubSeq(<<0>> \o ages, 1, MinOf(n, Len(ages) + 1))

Aged(ages) == [i \in DOMAIN ages |-> MinOf(Window, ages[i] + 1)]

Recent(ages) == {i \in DOMAIN ages : ages[i] < Window}

\* The ages below Window: they are the first ones, the newest being in front.
InWindow(ages) == SubSeq(ages, 1, Cardinality(Recent(ages)))

-----------------------------------------------------------------------------
(* Lines and lines thrown away.                                            *)

SlipEmit(kind, admitted) ==
    /\ sinceLast' = 0
    /\ consecutive' = MinOf(Burst, consecutive + 1)
    /\ streak' = 0
    /\ stamps' = IF kind = "freeform" THEN stamps ELSE Newest(stamps, WindowCap)
    /\ UNCHANGED silence
    /\ gated' = IF admitted THEN Newest(gated, WindowCap + 1) ELSE gated
    /\ rejected' = 0
    /\ UNCHANGED <<hush, sinceThrown>>

\* _emit_comment: every line is stamped, whatever let it through.
Emit(kind, admitted) ==
    /\ sinceLast' = 0
    /\ consecutive' = MinOf(Burst, consecutive + 1)
    /\ streak' = 0
    /\ stamps' = Newest(stamps, WindowCap)
    /\ UNCHANGED silence
    /\ gated' = IF admitted THEN Newest(gated, WindowCap + 1) ELSE gated
    /\ rejected' = 0
    /\ UNCHANGED <<hush, sinceThrown>>

Stuck == streak + 1 >= Streak

OwedHush == IF rejected + 1 >= Streak THEN ForcedSilence ELSE hush

SlipSuppress ==
    /\ UNCHANGED <<sinceLast, stamps>>
    /\ consecutive' = 0
    /\ streak' = IF Stuck THEN 0 ELSE streak + 1
    /\ silence' = IF Stuck THEN ForcedSilence ELSE silence
    /\ rejected' = (rejected + 1) % Streak
    /\ hush' = OwedHush
    /\ sinceThrown' = 0
    /\ UNCHANGED gated

\* _handle_suppressed_output.
Suppress ==
    /\ sinceLast' = 0
    /\ consecutive' = 0
    /\ streak' = IF Stuck THEN 0 ELSE streak + 1
    /\ silence' = IF Stuck THEN ForcedSilence ELSE silence
    /\ rejected' = (rejected + 1) % Streak
    /\ hush' = OwedHush
    /\ sinceThrown' = 0
    /\ UNCHANGED <<stamps, gated>>

-----------------------------------------------------------------------------
(* The gate.                                                               *)

\* The early returns of _should_comment, with the jittered cooldown c.
Held(c) == paused \/ conversing \/ silence > 0 \/ sinceLast < c

\* A long gap breaks a burst before the burst is looked at.
CurrentBurst == IF sinceLast > ForcedSilence THEN 0 ELSE consecutive

NeedsBreather == CurrentBurst >= Burst

SlipPruned == stamps

\* The stamps _should_comment keeps.
Pruned == InWindow(stamps)

\* _should_comment: what it changes, and whether it answers yes.
GateHeld(c) == Held(c) /\ UNCHANGED gateVars

GateBreathes(c) ==
    /\ ~Held(c)
    /\ NeedsBreather
    /\ silence' = ForcedSilence
    /\ consecutive' = 0
    /\ UNCHANGED <<sinceLast, stamps, streak>>

GateCounts(c) ==
    /\ ~Held(c)
    /\ ~NeedsBreather
    /\ consecutive' = CurrentBurst
    /\ stamps' = Pruned
    /\ UNCHANGED <<sinceLast, silence, streak>>

RoomInWindow == Len(stamps') < WindowCap

\* _should_freeform looks at the stamps as the gate left them.
MayMuse ==
    /\ ~paused /\ ~conversing
    /\ silence' = 0
    /\ sinceLast >= FreeformGap
    /\ RoomInWindow

\* _select_candidate, the observation being what is left when the gate is
\* open and no wedge has a say.
Proposals(open, muses) ==
    (pending \cap Bypassing)
        \cup (IF open THEN (pending \cap {"drift"}) \cup {"observation"} ELSE {})
        \cup (IF ~open /\ muses /\ MayMuse THEN {"freeform"} ELSE {})

Priority == [rage |-> 90, git_nudge |-> 85, drift |-> 50, freeform |-> 5,
             observation |-> 0]

First(proposals) ==
    CHOOSE k \in proposals : \A other \in proposals : Priority[k] >= Priority[other]

-----------------------------------------------------------------------------
(* One tick.  A git transition is urgent: the gate is not asked.           *)

Extra == extras > 0 /\ extras' = extras - 1

\* What the tick sets about: a line is asked for, or a sensitive app keeps the
\* buddy silent.
Call(kind, urgent) ==
    /\ working' = kind
    /\ waved' = urgent
    /\ UNCHANGED <<pending, historyVars>>

Blocked(kind) ==
    /\ pending' = pending \ ({kind} \cap Bypassing)
    /\ UNCHANGED <<working, waved, historyVars>>

SetAbout(kind, urgent) == Call(kind, urgent) \/ Blocked(kind)

Idles == UNCHANGED <<pending, working, waved, historyVars>>

Urgent ==
    /\ Extra
    /\ UNCHANGED gateVars
    /\ SetAbout(First(Proposals(TRUE, FALSE)), TRUE)

Asked(c, interesting, muses) ==
    \/ /\ GateHeld(c) \/ GateBreathes(c)
       /\ LET offered == Proposals(FALSE, muses)
          IN  IF offered = {} THEN Idles ELSE SetAbout(First(offered), FALSE)
    \/ /\ GateCounts(c)
       /\ LET offered == Proposals(RoomInWindow /\ interesting, muses)
          IN  IF offered = {} THEN Idles ELSE SetAbout(First(offered), FALSE)

Tick ==
    /\ working = "none"
    /\ \/ Urgent
       \/ /\ \E c \in Cooldown..MaxCooldown, interesting, muses \in BOOLEAN :
                Asked(c, interesting, muses)
          /\ UNCHANGED extras
    /\ UNCHANGED <<modelVars, userVars, summary>>

-----------------------------------------------------------------------------
(* What comes back.                                                        *)

AtRest == working' = "none" /\ waved' = FALSE

\* on_emitted: drift alone keeps its signal until a line is shown.
Resolve(kind, shown) ==
    pending' = pending \ ({kind} \cap (IF shown THEN Wedges ELSE Bypassing))

SlipRecover ==
    /\ failures' = 0
    /\ UNCHANGED toolsOn

\* An observation that is shown forgives the model its failures.
Recover ==
    /\ failures' = 0
    /\ toolsOn' = (toolsOn \/ failures > 0)

Shown ==
    /\ working # "none"
    /\ Emit(working, working \in Gated /\ ~waved)
    /\ Resolve(working, TRUE)
    /\ IF working = "observation" THEN Recover ELSE UNCHANGED <<failures, toolsOn>>
    /\ AtRest
    /\ UNCHANGED <<sinceQuip, userVars, summary, extras>>

\* check_easter_egg answers an observation without asking the model.
EasterEgg ==
    /\ working = "observation"
    /\ Emit(working, ~waved)
    /\ AtRest
    /\ UNCHANGED <<modelVars, userVars, pending, summary, extras>>

\* Near-duplicates and locked prefixes.  An idle riff skips the funnel.
Rejected ==
    /\ working \in Kinds \ {"idle"}
    /\ Suppress
    /\ Resolve(working, FALSE)
    /\ AtRest
    /\ UNCHANGED <<modelVars, userVars, summary, extras>>

\* The filter leaves nothing, or the model chose silence.
Silent ==
    /\ working # "none"
    /\ consecutive' = IF working = "observation" THEN 0 ELSE consecutive
    /\ Resolve(working, FALSE)
    /\ AtRest
    /\ UNCHANGED <<sinceLast, stamps, silence, streak, modelVars, userVars,
                   summary, extras, historyVars>>

\* A wedge tries again at the next tick.
WedgeRaises ==
    /\ working \in Wedges \cup {"freeform", "idle"}
    /\ AtRest
    /\ UNCHANGED <<gateVars, modelVars, userVars, pending, summary, extras,
                   historyVars>>

\* The quip is shown without being counted as a comment.
Quip ==
    IF sinceQuip >= QuipGap
    THEN sinceQuip' = 0 /\ sinceLast' = 0
    ELSE UNCHANGED <<sinceQuip, sinceLast>>

ObservationRaises ==
    /\ working = "observation"
    /\ failures' = MinOf(4, failures + 1)
    /\ toolsOn' = (toolsOn /\ failures # 2)
    /\ Quip
    /\ AtRest
    /\ UNCHANGED <<consecutive, stamps, silence, streak, userVars, pending,
                   summary, extras, historyVars>>

-----------------------------------------------------------------------------
(* What does not go through the gate.                                      *)

Signal(wedge) ==
    /\ Extra
    /\ pending' = pending \cup {wedge}
    /\ UNCHANGED <<gateVars, modelVars, userVars, working, waved, summary, historyVars>>

\* The user leaves the distraction, or commits.
SignalEnds(wedge) ==
    /\ wedge \in pending \ {"rage"}
    /\ working = "none"
    /\ pending' = pending \ {wedge}
    /\ UNCHANGED <<gateVars, modelVars, userVars, working, waved, summary, extras,
                   historyVars>>

\* _generate_buddy_reaction answers a click or a shake, in the tick.
Click ==
    /\ working = "none"
    /\ Extra
    /\ Emit("click", FALSE)
    /\ UNCHANGED <<modelVars, userVars, pending, working, waved, summary>>

\* An idle tool has run and its output is being put into words.
RollIdle ==
    /\ working = "none"
    /\ ~paused /\ ~conversing
    /\ Extra
    /\ working' = "idle"
    /\ waved' = FALSE
    /\ UNCHANGED <<gateVars, modelVars, userVars, pending, summary, historyVars>>

StartSummary ==
    /\ ~summary
    /\ Extra
    /\ summary' = TRUE
    /\ UNCHANGED <<gateVars, modelVars, userVars, pending, working, waved, historyVars>>

EndSummary ==
    /\ summary
    /\ summary' = FALSE
    /\ Emit("summary", FALSE) \/ UNCHANGED <<gateVars, historyVars>>
    /\ UNCHANGED <<modelVars, userVars, pending, working, waved, extras>>

-----------------------------------------------------------------------------
(* The user and the clock.                                                 *)

SetPaused ==
    /\ paused' = ~paused
    /\ UNCHANGED <<gateVars, modelVars, conversing, pending, working, waved, summary,
                   extras, historyVars>>

\* The loop answers the user itself: no ambient call is under way.
Converse ==
    /\ working = "none"
    /\ conversing' = TRUE
    /\ sinceLast' = 0
    /\ UNCHANGED <<consecutive, stamps, silence, streak, modelVars, paused,
                   pending, working, waved, summary, extras, historyVars>>

ConversationEnds ==
    /\ conversing
    /\ conversing' = FALSE
    /\ UNCHANGED <<gateVars, modelVars, paused, pending, working, waved, summary,
                   extras, historyVars>>

Pass ==
    /\ sinceLast' = MinOf(LongAgo, sinceLast + 1)
    /\ sinceQuip' = MinOf(QuipGap, sinceQuip + 1)
    /\ stamps' = Aged(stamps)
    /\ gated' = InWindow(Aged(gated))
    /\ silence' = MaxOf(0, silence - 1)
    /\ hush' = MaxOf(0, hush - 1)
    /\ sinceThrown' = MinOf(LongAgo, sinceThrown + 1)
    /\ UNCHANGED <<consecutive, streak, failures, toolsOn, userVars, pending,
                   working, waved, summary, extras, rejected>>

Init ==
    /\ sinceLast = 0
    /\ consecutive = 0
    /\ stamps = <<>>
    /\ silence = 0
    /\ streak = 0
    /\ failures = 0
    /\ toolsOn = TRUE
    /\ sinceQuip = QuipGap
    /\ paused = FALSE
    /\ conversing = FALSE
    /\ pending = {}
    /\ working = "none"
    /\ waved = FALSE
    /\ summary = FALSE
    /\ extras = MaxExtras
    /\ gated = <<>>
    /\ rejected = 0
    /\ hush = 0
    /\ sinceThrown = LongAgo

Answer == Shown \/ EasterEgg \/ Rejected \/ Silent \/ WedgeRaises \/ ObservationRaises

Next ==
    \/ Tick \/ Answer
    \/ \E wedge \in Wedges : Signal(wedge) \/ SignalEnds(wedge)
    \/ Click \/ RollIdle \/ StartSummary \/ EndSummary
    \/ SetPaused \/ Converse \/ ConversationEnds
    \/ Pass

Spec == Init /\ [][Next]_vars

\* The clock runs, a call comes back, and a tick that may call the model is
\* taken in the end: the machine keeps changing and the dice are fair.
Fairness ==
    /\ WF_vars(Pass)
    /\ WF_vars(Answer)
    /\ SF_vars(Tick /\ working' # "none")

FairSpec == Spec /\ Fairness

-----------------------------------------------------------------------------
(* Properties.                                                             *)

TypeOK ==
    /\ sinceLast \in 0..LongAgo
    /\ consecutive \in 0..Burst
    /\ stamps \in Seq(0..Window) /\ Len(stamps) <= WindowCap
    /\ silence \in 0..ForcedSilence
    /\ streak \in 0..(Streak - 1)
    /\ failures \in 0..4
    /\ toolsOn \in BOOLEAN
    /\ sinceQuip \in 0..QuipGap
    /\ paused \in BOOLEAN /\ conversing \in BOOLEAN
    /\ pending \subseteq Wedges
    /\ working \in Kinds \cup {"none"}
    /\ waved \in BOOLEAN
    /\ summary \in BOOLEAN
    /\ extras \in 0..MaxExtras
    /\ gated \in Seq(0..Window) /\ Len(gated) <= WindowCap + 1
    /\ rejected \in 0..(Streak - 1)
    /\ hush \in 0..ForcedSilence
    /\ sinceThrown \in 0..LongAgo

\* However many emitters go round the gate, whatever is shown while a line is
\* being written and however the tick falls between two minutes, the lines
\* the gate let through never exceed the cap in a window of five minutes.
GatedWithinWindow == Len(InWindow(gated)) <= WindowCap

GapBefore(kind) == IF kind = "freeform" THEN FreeformGap ELSE Cooldown

\* What has to have passed since a line was thrown away.
Rested(kind) == hush = 0 /\ sinceThrown >= GapBefore(kind)

\* A line thrown away leaves the model alone for a cooldown, or for the gap of
\* a freeform thought, and so many in a row for the forced silence: no path of
\* a tick calls it earlier for an observation, a drift nudge or a freeform
\* thought, whatever an end of day summary, a click or an idle riff does to
\* the counters in between.
RejectionsAreSpaced ==
    [][working = "none" /\ working' \in Gated /\ ~waved'
          => Rested(working')]_vars

\* What docs/commentary-gate.md says, and the code does not keep for drift: rage,
\* git and drift go round the gate, and so none of them waits while the buddy
\* muses or comments.
HighSignalGoesFirst ==
    [][working = "none" /\ working' \in {"freeform", "observation"}
          => pending \cap Wedges = {}]_vars

\* Tools are withheld from the model only while its failures are on record:
\* the observation that forgives the failures gives the tools back.
ToolsComeBack == toolsOn \/ failures >= 3

GateOK == TypeOK /\ ToolsComeBack

\* The gate never locks the buddy out for good: unless the user keeps it
\* paused or keeps talking, the model is called again.
NeverLockedOut ==
    <>[](~paused /\ ~conversing) => []<>(working # "none")
=============================================================================
