------------------------------- MODULE Nudges -------------------------------
(***************************************************************************)
(* Recurring reminders: the schedule (brain/proactive.py), its rows in     *)
(* memory.db (brain/memory.py), the reminder tool (actions/reminder.py)    *)
(* and the delivery of a fired nudge (brain/orchestrator.py).              *)
(*                                                                         *)
(* Time is relative, so nothing grows: a deadline is how long until it is  *)
(* due, and a moment in the past is how long ago it was, as far back as it *)
(* can matter.  Two clocks matter.  Deadlines and the spacing of fires are *)
(* wall clock, which runs on while the machine sleeps and can be set back; *)
(* the spacing of bubbles and asyncio.sleep are monotonic.                 *)
(*                                                                         *)
(* Schedules are of the interval kind, and memory.db is there and enabled. *)
(*                                                                         *)
(* A fire is handed to a task: the reminder's tracked generation, or, when *)
(* that is still in flight, a loose delivery of the canned label.          *)
(*                                                                         *)
(* An operator named Slip... is a definition with a plausible mistake in   *)
(* it, next to the one it imitates; no action uses it.                     *)
(***************************************************************************)
EXTENDS Integers, FiniteSets

CONSTANTS
    Ids,        \* reminder ids
    MaxArmed,   \* MAX_ARMED
    Gap,        \* MIN_NUDGE_GAP_S
    Interval,   \* a schedule's period
    MaxAhead,   \* _MAX_DEADLINE_AHEAD_S
    MaxLate,    \* BOUND: how long past its deadline a reminder is told apart
    MaxBack     \* BOUND: how far the wall clock is set back in all

ASSUME TimesAssumption ==
    /\ MaxArmed \in Nat \ {0}
    /\ Gap \in Nat \ {0}
    /\ Interval \in Nat \ {0}
    /\ MaxAhead \in Nat
    /\ Interval <= MaxAhead
    /\ MaxBack \in Nat
    /\ MaxLate \in Nat
    /\ MaxBack <= MaxLate

VARIABLES
    nudges,     \* ProactiveScheduler._nudges: next_due_at - now by id
    rows,       \* the reminders table: the same of each row
    sinceFire,  \* now - _last_emit_at, LongAgo when it is at least that
    task,       \* the tasks holding a fired nudge
    wait,       \* what is left of each delivery's asyncio.sleep
    sinceShown, \* monotonic() - _last_nudge_delivery
    paused,     \* what _proactive_paused answers
    backLeft,   \* what is left of MaxBack
    quiet       \* history: time left before a reminder may fire again

scheduleVars == <<nudges, rows, quiet>>
taskVars == <<task, wait>>
clockVars == <<sinceFire, backLeft>>
vars == <<scheduleVars, clockVars, taskVars, sinceShown, paused>>

Kinds == {"tracked", "loose"}
Slots == Ids \X Kinds
Stages == {"none", "generating", "queued", "sleeping"}

MinOf(a, b) == IF a < b THEN a ELSE b
MaxOf(a, b) == IF a > b THEN a ELSE b

Armed == DOMAIN nudges

\* Far enough in the past for the spacing of fires, set-backs included.
LongAgo == Gap + backLeft

\* A table with a deadline entered, or with an id removed.
Put(table, id, t) ==
    [i \in DOMAIN table \cup {id} |-> IF i = id THEN t ELSE table[i]]
Without(table, id) == [i \in DOMAIN table \ {id} |-> table[i]]

-----------------------------------------------------------------------------
(* The reminder tool.                                                      *)

\* execute(arm): a new id is refused at MaxArmed, an armed one is replaced.
MayArm(id) == id \in Armed \/ Cardinality(Armed) < MaxArmed

Unrestrained(id) == quiet' = [quiet EXCEPT ![id] = 0]

\* The deadline is the next occurrence after now.
Arm(id) ==
    /\ MayArm(id)
    /\ nudges' = Put(nudges, id, Interval)
    /\ rows' = Put(rows, id, Interval)
    /\ Unrestrained(id)
    /\ UNCHANGED <<clockVars, taskVars, sinceShown, paused>>

\* sqlite cannot encode the label: the tool refuses and rolls back by
\* cancelling the id, in memory and on disk.
ArmRefused(id) ==
    /\ MayArm(id)
    /\ nudges' = Without(nudges, id)
    /\ rows' = Without(rows, id)
    /\ Unrestrained(id)
    /\ UNCHANGED <<clockVars, taskVars, sinceShown, paused>>

\* Any other database error leaves the nudge in memory only, and the tool
\* call fails.
ArmNotStored(id) ==
    /\ MayArm(id)
    /\ nudges' = Put(nudges, id, Interval)
    /\ Unrestrained(id)
    /\ UNCHANGED <<rows, clockVars, taskVars, sinceShown, paused>>

Cancel(id) ==
    /\ id \in Armed \cup DOMAIN rows
    /\ nudges' = Without(nudges, id)
    /\ rows' = Without(rows, id)
    /\ Unrestrained(id)
    /\ UNCHANGED <<clockVars, taskVars, sinceShown, paused>>

-----------------------------------------------------------------------------
(* The brain loop: tick, and the hand-off of what it fired.                *)

\* Re-armed from now, never from the deadline that was missed.
NextDue(id) == Interval

TickOpen == ~paused /\ sinceFire >= Gap

\* tick takes the soonest of the due nudges.
Soonest(id) ==
    /\ id \in Armed
    /\ nudges[id] <= 0
    /\ \A other \in Armed : nudges[id] <= nudges[other]

SlipDropUnbacked(id) ==
    /\ TickOpen
    /\ Soonest(id)
    /\ id \notin DOMAIN rows
    /\ UNCHANGED vars

\* mark_reminder_fired finds no row: the nudge in memory is backed by nothing.
DropUnbacked(id) ==
    /\ TickOpen
    /\ Soonest(id)
    /\ id \notin DOMAIN rows
    /\ nudges' = Without(nudges, id)
    /\ UNCHANGED <<rows, quiet, clockVars, taskVars, sinceShown,
                   paused>>

\* The tracked task of a reminder lives until its nudge is delivered.
InFlight(id) == task[<<id, "tracked">>] # "none"

\* _spawn_nudge_generation.
HandOff(id) ==
    IF InFlight(id)
      THEN /\ task[<<id, "loose">>] = "none"   \* BOUND: one loose task per id
           /\ task' = [task EXCEPT ![<<id, "loose">>] = "queued"]
      ELSE task' = [task EXCEPT ![<<id, "tracked">>] = "generating"]

SlipWriteFire(id) == UNCHANGED rows

\* mark_reminder_fired: the fire is on disk before anything is shown.
WriteFire(id) == rows' = Put(rows, id, NextDue(id))

Fire(id) ==
    /\ TickOpen
    /\ Soonest(id)
    /\ id \in DOMAIN rows
    /\ WriteFire(id)
    /\ nudges' = Put(nudges, id, NextDue(id))
    /\ quiet' = [quiet EXCEPT ![id] = Interval]
    /\ sinceFire' = 0
    /\ HandOff(id)
    /\ UNCHANGED <<backLeft, wait, sinceShown, paused>>

-----------------------------------------------------------------------------
(* The tasks: _generate_nudge and _deliver_nudge.                          *)

\* The model answered, failed or timed out: the label is the fallback.
Generated(s) ==
    /\ task[s] = "generating"
    /\ task' = [task EXCEPT ![s] = "queued"]
    /\ UNCHANGED <<scheduleVars, clockVars, wait, sinceShown, paused>>

SlipLockFree == TRUE

\* _nudge_delivery_lock is held across the sleep.
LockFree == \A s \in Slots : task[s] # "sleeping"

SlipRemainingGap == Gap - sinceFire

RemainingGap == Gap - sinceShown

StartDelivery(s) ==
    /\ task[s] = "queued"
    /\ LockFree
    /\ task' = [task EXCEPT ![s] = "sleeping"]
    /\ wait' = [wait EXCEPT ![s] = RemainingGap]
    /\ UNCHANGED <<scheduleVars, clockVars, sinceShown, paused>>

SlipDeliver(s) ==
    /\ task[s] = "sleeping"
    /\ wait[s] = 0
    /\ ~paused
    /\ task' = [task EXCEPT ![s] = "none"]
    /\ sinceShown' = 0
    /\ UNCHANGED <<scheduleVars, clockVars, wait, paused>>

\* The gate is looked at again after the sleep: closed, the nudge is given
\* up; open, it is shown.
Deliver(s) ==
    /\ task[s] = "sleeping"
    /\ wait[s] = 0
    /\ task' = [task EXCEPT ![s] = "none"]
    /\ sinceShown' = IF paused THEN sinceShown ELSE 0
    /\ UNCHANGED <<scheduleVars, clockVars, wait, paused>>

-----------------------------------------------------------------------------
(* Time, the gate, and the process.                                        *)

Later(table, d) == [id \in DOMAIN table |-> MaxOf(table[id] - d, -MaxLate)]

WallAdvances ==
    /\ nudges' = Later(nudges, 1)
    /\ rows' = Later(rows, 1)
    /\ quiet' = [id \in Ids |-> MaxOf(quiet[id] - 1, 0)]
    /\ sinceFire' = MinOf(sinceFire + 1, LongAgo)

Elapse ==
    /\ WallAdvances
    /\ wait' = [s \in Slots |-> MaxOf(wait[s] - 1, 0)]
    /\ sinceShown' = MinOf(sinceShown + 1, Gap)
    /\ UNCHANGED <<backLeft, task, paused>>

\* The machine sleeps: the wall clock runs on, the monotonic clock does not.
Asleep ==
    /\ WallAdvances
    /\ UNCHANGED <<backLeft, taskVars, sinceShown, paused>>

\* The wall clock is set back: deadlines and the last fire move away.
SetBack(d) ==
    /\ nudges' = Later(nudges, -d)
    /\ rows' = Later(rows, -d)
    /\ sinceFire' = sinceFire - d
    /\ backLeft' = backLeft - d
    /\ UNCHANGED <<quiet, taskVars, sinceShown, paused>>

GateChanges ==
    /\ paused' = ~paused
    /\ UNCHANGED <<scheduleVars, clockVars, taskVars, sinceShown>>

\* hydrate: a deadline no schedule could produce is repaired, on disk too.
Hydrated == [id \in DOMAIN rows |-> IF rows[id] > MaxAhead THEN Interval ELSE rows[id]]

NoTasks == [s \in Slots |-> "none"]

\* Quit or crash, and the next launch: only the rows survive.
Restart ==
    /\ nudges' = Hydrated
    /\ rows' = Hydrated
    /\ sinceFire' = LongAgo
    /\ task' = NoTasks
    /\ wait' = [s \in Slots |-> 0]
    /\ sinceShown' = Gap
    /\ paused' = FALSE
    /\ UNCHANGED <<backLeft, quiet>>

-----------------------------------------------------------------------------
Init ==
    /\ nudges = [id \in {} |-> Interval]
    /\ rows = [id \in {} |-> Interval]
    /\ sinceFire = Gap + MaxBack
    /\ task = NoTasks
    /\ wait = [s \in Slots |-> 0]
    /\ sinceShown = Gap
    /\ paused = FALSE
    /\ backLeft = MaxBack
    /\ quiet = [id \in Ids |-> 0]

UserStep == \E id \in Ids :
    Arm(id) \/ ArmRefused(id) \/ ArmNotStored(id) \/ Cancel(id)

Tick == \E id \in Ids : DropUnbacked(id) \/ Fire(id)

TaskStep(s) == Generated(s) \/ StartDelivery(s) \/ Deliver(s)

Next ==
    \/ UserStep
    \/ Tick
    \/ \E s \in Slots : TaskStep(s)
    \/ Elapse \/ Asleep
    \/ \E d \in 1..backLeft : SetBack(d)
    \/ GateChanges
    \/ Restart

Spec == Init /\ [][Next]_vars

\* The loop polls, tasks run, the lock is FIFO, and time passes. The soonest
\* deadline wins the tick and what waits only gets later, so no id is passed
\* over for ever: strong fairness, because MaxLate makes ties of what are none.
FairSpec ==
    /\ Spec
    /\ \A id \in Ids : SF_vars(DropUnbacked(id) \/ Fire(id))
    /\ \A s \in Slots : /\ WF_vars(Generated(s) \/ Deliver(s))
                        /\ SF_vars(StartDelivery(s))
    /\ WF_vars(Elapse)

-----------------------------------------------------------------------------
TypeOK ==
    /\ Armed \subseteq Ids /\ \A id \in Armed : nudges[id] \in Int
    /\ DOMAIN rows \subseteq Ids /\ \A id \in DOMAIN rows : rows[id] \in Int
    /\ sinceFire \in Int
    /\ task \in [Slots -> Stages]
    /\ wait \in [Slots -> 0..Gap]
    /\ sinceShown \in 0..Gap
    /\ paused \in BOOLEAN
    /\ backLeft \in 0..MaxBack
    /\ quiet \in [Ids -> Nat]

\* One fire is one bubble, bubbles keep their distance, none appears while
\* nudges are paused, and a fire is given up only then or with the process:
\* whatever order generations finish in (_deliver_nudge's docstring).
Promise == INSTANCE NudgePromise WITH
    owed <- [id \in Ids |-> Cardinality({k \in Kinds : task[<<id, k>>] # "none"})],
    since <- sinceShown

KeepsPromise == Promise!Spec

\* A reminder does not fire again before a period of wall clock is over, not
\* after a late fire (no backlog) and not after a crash at any point, unless it
\* was re-armed meanwhile.
FiresOncePerInterval == [][\A id \in Ids : Fire(id) => quiet[id] = 0]_vars

\* Once nudges are no longer paused, what is due fires or is disarmed, although
\* the clock is set back, the machine sleeps, rows go missing and the process
\* restarts.
IsDue(id) == id \in Armed /\ nudges[id] <= 0

DueFires ==
    <>[](~paused) =>
        \A id \in Ids : IsDue(id) ~> ~IsDue(id)

\* A fired nudge is always shown or given up in the end: the delivery lock is
\* never held for ever.
FireIsResolved == \A s \in Slots : task[s] # "none" ~> task[s] = "none"
=============================================================================
