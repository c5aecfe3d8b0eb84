---------------------------- MODULE NudgesProofs ----------------------------
(***************************************************************************)
(* Reminders keep their promise, for any number of them, any period, gap   *)
(* and lateness, and any amount by which the clock is set back: Nudges     *)
(* implements NudgePromise.                                                *)
(***************************************************************************)
EXTENDS Nudges, FiniteSetTheorems, TLAPS

USE DEF scheduleVars, taskVars, clockVars, vars

-----------------------------------------------------------------------------
(* The invariant.                                                          *)

TableType ==
    /\ Armed \subseteq Ids /\ \A id \in Armed : nudges[id] \in Int
    /\ DOMAIN rows \subseteq Ids /\ \A id \in DOMAIN rows : rows[id] \in Int
    /\ quiet \in [Ids -> 0..Interval]

TaskType ==
    /\ task \in [Slots -> Stages]
    /\ wait \in [Slots -> 0..Gap]
    /\ sinceShown \in 0..Gap

ClockType == sinceFire \in Int /\ backLeft \in 0..MaxBack

\* A reminder that must not fire yet is not due before it may, neither in
\* memory nor in the row that a restart would read.
QuietInv == \A id \in Ids :
    /\ id \in Armed => quiet[id] = 0 \/ nudges[id] >= quiet[id]
    /\ id \in DOMAIN rows => quiet[id] = 0 \/ rows[id] >= quiet[id]

\* Whoever sleeps has the lock, and what it sleeps covers what is left of the
\* gap after the last bubble.
SleeperInv ==
    /\ \A s, r \in Slots : task[s] = "sleeping" /\ task[r] = "sleeping" => s = r
    /\ \A s \in Slots : task[s] = "sleeping" => wait[s] >= Gap - sinceShown

PausedType == paused \in BOOLEAN

IInv == TableType /\ QuietInv /\ TaskType /\ SleeperInv /\ ClockType /\ PausedType

\* The times are numbers, as the arithmetic below needs them.
LEMMA Times == /\ Gap \in Nat \ {0} /\ Interval \in Nat \ {0} /\ MaxAhead \in Nat
               /\ MaxBack \in Nat /\ MaxLate \in Nat
BY TimesAssumption

\* The invariant contains the types.
LEMMA IInvImplies == IInv => TypeOK
<1> SUFFICES ASSUME IInv PROVE TypeOK
  OBVIOUS
<1>1. /\ Armed \subseteq Ids /\ \A id \in Armed : nudges[id] \in Int
      /\ DOMAIN rows \subseteq Ids /\ \A id \in DOMAIN rows : rows[id] \in Int
      /\ sinceFire \in Int /\ backLeft \in 0..MaxBack
      /\ task \in [Slots -> Stages] /\ wait \in [Slots -> 0..Gap]
      /\ sinceShown \in 0..Gap
  BY Zenon DEF IInv, TableType, TaskType, ClockType
<1>2. quiet \in [Ids -> Nat]
  BY Times DEF IInv, TableType
<1> QED BY <1>1, <1>2, Zenon DEF IInv, PausedType, TypeOK

\* At startup nothing is armed, no task sleeps and nothing is owed.
LEMMA IInvInit == Init => IInv
<1> SUFFICES ASSUME Init PROVE IInv
  OBVIOUS
<1>1. TableType /\ QuietInv
  BY Times DEF Init, TableType, QuietInv, Armed
<1>2. TaskType
  BY Times DEF Init, TaskType, NoTasks, Stages
<1>3. SleeperInv
  BY DEF Init, SleeperInv, NoTasks
<1>4. ClockType
  BY Times DEF Init, ClockType
<1>5. PausedType
  BY Zenon DEF Init, PausedType
<1> QED BY <1>1, <1>2, <1>3, <1>4, <1>5, Zenon DEF IInv

-----------------------------------------------------------------------------
(* The tables.                                                             *)

\* Every step keeps rows and memory typed, and quiet a reminder that must not fire.
LEMMA TableStep == IInv /\ [Next]_vars => TableType' /\ QuietInv'
<1> SUFFICES ASSUME IInv, [Next]_vars PROVE TableType' /\ QuietInv'
  OBVIOUS
<1>0. TableType /\ QuietInv
  BY Zenon DEF IInv
<1> USE Times DEF TableType, QuietInv, Armed
<1>1. ASSUME NEW id \in Ids, Arm(id) PROVE TableType' /\ QuietInv'
  <2>1. /\ nudges' = Put(nudges, id, Interval) /\ rows' = Put(rows, id, Interval)
        /\ quiet' = [quiet EXCEPT ![id] = 0]
    BY <1>1, Zenon DEF Arm, Unrestrained
  <2> QED BY <2>1, <1>0 DEF Put
<1>2. ASSUME NEW id \in Ids, ArmRefused(id) \/ Cancel(id) PROVE TableType' /\ QuietInv'
  <2>1. /\ nudges' = Without(nudges, id) /\ rows' = Without(rows, id)
        /\ quiet' = [quiet EXCEPT ![id] = 0]
    BY <1>2, Zenon DEF ArmRefused, Cancel, Unrestrained
  <2> QED BY <2>1, <1>0 DEF Without
<1>3. ASSUME NEW id \in Ids, ArmNotStored(id) PROVE TableType' /\ QuietInv'
  <2>1. /\ nudges' = Put(nudges, id, Interval) /\ rows' = rows
        /\ quiet' = [quiet EXCEPT ![id] = 0]
    BY <1>3, Zenon DEF ArmNotStored, Unrestrained
  <2> QED BY <2>1, <1>0 DEF Put
<1>4. ASSUME NEW id \in Ids, DropUnbacked(id) PROVE TableType' /\ QuietInv'
  <2>1. nudges' = Without(nudges, id) /\ rows' = rows /\ quiet' = quiet
    BY <1>4, Zenon DEF DropUnbacked
  <2> QED BY <2>1, <1>0 DEF Without
<1>5. ASSUME NEW id \in Ids, Fire(id) PROVE TableType' /\ QuietInv'
  <2>1. /\ nudges' = Put(nudges, id, Interval) /\ rows' = Put(rows, id, Interval)
        /\ quiet' = [quiet EXCEPT ![id] = Interval]
    BY <1>5, Zenon DEF Fire, WriteFire, NextDue
  <2> QED BY <2>1, <1>0 DEF Put
<1>6. ASSUME WallAdvances PROVE TableType' /\ QuietInv'
  <2>1. /\ nudges' = [id \in Armed |-> MaxOf(nudges[id] - 1, -MaxLate)]
        /\ rows' = [id \in DOMAIN rows |-> MaxOf(rows[id] - 1, -MaxLate)]
        /\ quiet' = [id \in Ids |-> MaxOf(quiet[id] - 1, 0)]
    BY <1>6, Zenon DEF WallAdvances, Later
  <2> QED BY <2>1, <1>0 DEF MaxOf
<1>7. ASSUME NEW d \in 1..backLeft, SetBack(d) PROVE TableType' /\ QuietInv'
  <2>1. /\ nudges' = [id \in Armed |-> MaxOf(nudges[id] - (-d), -MaxLate)]
        /\ rows' = [id \in DOMAIN rows |-> MaxOf(rows[id] - (-d), -MaxLate)]
        /\ quiet' = quiet /\ d \in Nat
    BY <1>7 DEF SetBack, Later, IInv, ClockType
  <2> QED BY <2>1, <1>0 DEF MaxOf
<1>8. ASSUME Restart PROVE TableType' /\ QuietInv'
  <2>1. /\ nudges' = Hydrated /\ rows' = Hydrated /\ quiet' = quiet
    BY <1>8 DEF Restart
  <2> QED BY <2>1, <1>0 DEF Hydrated
<1>9. ASSUME \/ GateChanges \/ UNCHANGED vars
             \/ \E s \in Slots : TaskStep(s)
      PROVE  TableType' /\ QuietInv'
  <2>1. UNCHANGED <<nudges, rows, quiet>>
    BY <1>9, Zenon DEF GateChanges, TaskStep, Generated, StartDelivery, Deliver
  <2> QED BY <2>1, <1>0
<1> QED
  BY <1>1, <1>2, <1>3, <1>4, <1>5, <1>6, <1>7, <1>8, <1>9, Zenon
  DEF Next, UserStep, Tick, Elapse, Asleep

-----------------------------------------------------------------------------
(* The tasks, the clocks and the gate.                                     *)

\* Every step leaves one task asleep at most, and its sleep long enough.
LEMMA TaskStepLemma == IInv /\ [Next]_vars => TaskType' /\ SleeperInv'
<1> SUFFICES ASSUME IInv, [Next]_vars PROVE TaskType' /\ SleeperInv'
  OBVIOUS
<1>0. TaskType /\ SleeperInv
  BY Zenon DEF IInv
<1> USE Times DEF TaskType, SleeperInv, Stages
<1>1. ASSUME NEW id \in Ids, Fire(id) PROVE TaskType' /\ SleeperInv'
  <2>1. PICK s \in Slots, place \in {"queued", "generating"} :
            task' = [task EXCEPT ![s] = place]
    BY <1>1 DEF Fire, HandOff, Slots, Kinds
  <2>2. UNCHANGED <<wait, sinceShown>>
    BY <1>1 DEF Fire
  <2> QED BY <2>1, <2>2, <1>0
<1>2. ASSUME NEW s \in Slots, Generated(s) PROVE TaskType' /\ SleeperInv'
  BY <1>2, <1>0 DEF Generated
<1>3. ASSUME NEW s \in Slots, StartDelivery(s) PROVE TaskType' /\ SleeperInv'
  BY <1>3, <1>0 DEF StartDelivery, LockFree, RemainingGap
<1>4. ASSUME NEW s \in Slots, Deliver(s) PROVE TaskType' /\ SleeperInv'
  <2>1. /\ task[s] = "sleeping" /\ task' = [task EXCEPT ![s] = "none"]
        /\ wait' = wait /\ sinceShown' \in 0..Gap
    BY <1>4, <1>0 DEF Deliver
  <2>2. \A r \in Slots : task'[r] # "sleeping"
    BY <2>1, <1>0
  <2> QED BY <2>1, <2>2, <1>0
<1>5. ASSUME Elapse PROVE TaskType' /\ SleeperInv'
  BY <1>5, <1>0 DEF Elapse, MaxOf, MinOf
<1>6. ASSUME Restart PROVE TaskType' /\ SleeperInv'
  BY <1>6, <1>0 DEF Restart, NoTasks
<1>7. ASSUME \/ UserStep \/ \E id \in Ids : DropUnbacked(id)
             \/ Asleep \/ \E d \in 1..backLeft : SetBack(d)
             \/ GateChanges \/ UNCHANGED vars
      PROVE  TaskType' /\ SleeperInv'
  <2>1. UNCHANGED <<task, wait, sinceShown>>
    BY <1>7, Zenon DEF UserStep, Arm, ArmRefused, ArmNotStored, Cancel, DropUnbacked,
       Asleep, SetBack, GateChanges
  <2> QED BY <2>1, <1>0
<1> QED
  BY <1>1, <1>2, <1>3, <1>4, <1>5, <1>6, <1>7, Zenon DEF Next, Tick, TaskStep

\* Every step keeps the types of clock and pause.
LEMMA ClockStep == IInv /\ [Next]_vars => ClockType' /\ PausedType'
<1> SUFFICES ASSUME IInv, [Next]_vars PROVE ClockType' /\ PausedType'
  OBVIOUS
<1>0. ClockType /\ PausedType
  BY Zenon DEF IInv
<1>1. PausedType'
  <2>1. paused' = paused \/ paused' = ~paused \/ paused' = FALSE
    BY Zenon DEF Next, UserStep, Arm, ArmRefused, ArmNotStored, Cancel, Tick, DropUnbacked,
       Fire, TaskStep, Generated, StartDelivery, Deliver, Elapse, Asleep, SetBack,
       GateChanges, Restart
  <2> QED BY <2>1, <1>0, Zenon DEF PausedType
<1>2. ClockType'
  <2> USE Times DEF ClockType
  <2>1. CASE Elapse \/ Asleep
    BY <2>1, <1>0 DEF Elapse, Asleep, WallAdvances, LongAgo, MinOf
  <2>2. ASSUME NEW d \in 1..backLeft, SetBack(d) PROVE ClockType'
    BY <2>2, <1>0 DEF SetBack
  <2>3. CASE Restart
    BY <2>3, <1>0 DEF Restart, LongAgo
  <2>4. CASE \/ UserStep \/ Tick \/ \E s \in Slots : TaskStep(s)
             \/ GateChanges \/ UNCHANGED vars
    <3>1. backLeft' = backLeft /\ (sinceFire' = sinceFire \/ sinceFire' = 0)
      BY <2>4, Zenon DEF UserStep, Arm, ArmRefused, ArmNotStored, Cancel, Tick,
         DropUnbacked, Fire, TaskStep, Generated, StartDelivery, Deliver, GateChanges
    <3> QED BY <3>1, <1>0
  <2> QED BY <2>1, <2>2, <2>3, <2>4, Zenon DEF Next
<1> QED BY <1>1, <1>2

\* Every step keeps the invariant.
LEMMA IInvStep == IInv /\ [Next]_vars => IInv'
BY TableStep, TaskStepLemma, ClockStep, Zenon DEF IInv

\* So the invariant holds for ever.
LEMMA Invariance == Spec => []IInv
BY IInvInit, IInvStep, PTL DEF Spec

\* The reminder subsystem's type invariant (proactive.py, memory.py), for
\* every set of reminders and every set of times.
THEOREM TypeCorrect == Spec => []TypeOK
BY Invariance, IInvImplies, PTL

\* No reminder fires twice within a period of wall clock, unless it was
\* re-armed meanwhile: not after a late fire, not after a crash between any
\* two steps, and not when the clock is set back (proactive.py, tick).
THEOREM FiresOnceThm == Spec => FiresOncePerInterval
<1>1. ASSUME IInv, NEW id \in Ids, Fire(id) PROVE quiet[id] = 0
  <2>1. id \in Armed /\ nudges[id] <= 0
    BY <1>1, Zenon DEF Fire, Soonest
  <2>2. nudges[id] \in Int /\ quiet[id] \in 0..Interval
    BY <1>1, <2>1 DEF IInv, TableType
  <2>3. quiet[id] = 0 \/ nudges[id] >= quiet[id]
    BY <1>1, <2>1, Zenon DEF IInv, QuietInv
  <2> QED BY <2>1, <2>2, <2>3, Times
<1>2. IInv => [\A id \in Ids : Fire(id) => quiet[id] = 0]_vars
  BY <1>1, Zenon
<1> QED BY <1>2, Invariance, PTL DEF FiresOncePerInterval

-----------------------------------------------------------------------------
(* The promise.                                                            *)

\* A reminder owes the user what its two tasks hold.
Holding(stage) == IF stage = "none" THEN 0 ELSE 1

Count(table, id) == Holding(table[<<id, "tracked">>]) + Holding(table[<<id, "loose">>])

Owed == [id \in Ids |-> Cardinality({k \in Kinds : task[<<id, k>>] # "none"})]

\* A reminder has a task of each kind at most, and Count counts them.
LEMMA CountIs ==
    ASSUME NEW table, NEW id
    PROVE  Cardinality({k \in Kinds : table[<<id, k>>] # "none"}) = Count(table, id)
<1> DEFINE K == {k \in Kinds : table[<<id, k>>] # "none"}
<1>1. CASE K = {}
  <2>1. Cardinality(K) = 0
    BY <1>1, FS_EmptySet
  <2>2. table[<<id, "tracked">>] = "none" /\ table[<<id, "loose">>] = "none"
    BY <1>1 DEF Kinds
  <2> QED BY <2>1, <2>2 DEF Count, Holding
<1>2. CASE K = {"tracked"}
  <2>1. Cardinality(K) = 1
    BY <1>2, FS_Singleton
  <2>2. table[<<id, "tracked">>] # "none" /\ table[<<id, "loose">>] = "none"
    BY <1>2 DEF Kinds
  <2> QED BY <2>1, <2>2 DEF Count, Holding
<1>3. CASE K = {"loose"}
  <2>1. Cardinality(K) = 1
    BY <1>3, FS_Singleton
  <2>2. table[<<id, "tracked">>] = "none" /\ table[<<id, "loose">>] # "none"
    BY <1>3 DEF Kinds
  <2> QED BY <2>1, <2>2 DEF Count, Holding
<1>4. CASE K = {"tracked", "loose"}
  <2>1. Cardinality({"tracked"}) = 1 /\ IsFiniteSet({"tracked"})
    BY FS_Singleton
  <2>2. Cardinality({"tracked"} \cup {"loose"}) = 2
    BY <2>1, FS_AddElement, "loose" \notin {"tracked"}
  <2>3. K = {"tracked"} \cup {"loose"}
    BY <1>4
  <2>4. table[<<id, "tracked">>] # "none" /\ table[<<id, "loose">>] # "none"
    BY <1>4 DEF Kinds
  <2>5. Cardinality(K) = 2
    BY <2>2, <2>3
  <2>6. Count(table, id) = 2
    BY <2>4 DEF Count, Holding
  <2> QED BY <2>5, <2>6, Zenon
<1>5. K = {} \/ K = {"tracked"} \/ K = {"loose"} \/ K = {"tracked", "loose"}
  BY DEF Kinds
<1> QED BY <1>1, <1>2, <1>3, <1>4, <1>5

\* What is owed is counted from the tasks, before and after a step.
LEMMA OwedIs ==
    /\ Owed = [id \in Ids |-> Count(task, id)]
    /\ Owed' = [id \in Ids |-> Count(task', id)]
BY CountIs DEF Owed

\* A reminder is owed two bubbles at most.
LEMMA OwedType ==
    ASSUME NEW id \in Ids
    PROVE  Owed[id] = Count(task, id) /\ Owed[id] \in 0..2
<1>1. Owed[id] = Count(task, id)
  BY OwedIs
<1>2. Count(task, id) \in 0..2
  BY DEF Count, Holding
<1> QED BY <1>1, <1>2

\* A task taken, held or given back changes what its own reminder owes.
LEMMA OwedSteps ==
    ASSUME NEW id \in Ids, NEW k \in Kinds, TaskType, NEW stage \in Stages,
           task' = [task EXCEPT ![<<id, k>>] = stage]
    PROVE  /\ Owed' = [Owed EXCEPT ![id] = Count(task', id)]
           /\ Count(task', id) = Owed[id] + Holding(stage) - Holding(task[<<id, k>>])
<1>1. /\ \A i \in Ids, j \in Kinds : <<i, j>> \in Slots
      /\ \A i \in Ids, j \in Kinds :
            task'[<<i, j>>] = IF i = id /\ j = k THEN stage ELSE task[<<i, j>>]
  BY DEF TaskType, Slots
<1>2. \A i \in Ids : i # id => Count(task', i) = Count(task, i)
  BY <1>1 DEF Count, Kinds
<1>3. Count(task', id) = Count(task, id) + Holding(stage) - Holding(task[<<id, k>>])
  BY <1>1 DEF Count, Kinds, Holding
<1>4. /\ Owed \in [Ids -> 0..2]
      /\ Owed' = [i \in Ids |-> IF i = id THEN Count(task', id) ELSE Owed[i]]
  BY <1>2, OwedIs, OwedType
<1>5. Owed' = [Owed EXCEPT ![id] = Count(task', id)]
  BY <1>4
<1> QED BY <1>3, <1>5, OwedType

PromiseVars == <<Owed, sinceShown, paused>>

\* Initial states map to initial states of the promise.
LEMMA PromiseInit == Init => Promise!Init
<1> SUFFICES ASSUME Init PROVE Promise!Init
  OBVIOUS
<1>1. Owed = [id \in Ids |-> 0]
  BY OwedIs DEF Init, NoTasks, Slots, Kinds, Count, Holding
<1>2. sinceShown = Gap
  BY DEF Init
<1>3. ~paused
  BY Zenon DEF Init
<1>4. paused = FALSE
  BY Zenon DEF Init
<1> QED BY <1>1, <1>2, <1>4, Zenon DEF Owed, Promise!Init

\* Every step maps to a step of the promise or to a stutter.
LEMMA PromiseStep == IInv /\ [Next]_vars => [Promise!Next]_(Promise!vars)
<1> SUFFICES ASSUME IInv, [Next]_vars PROVE Promise!Next \/ UNCHANGED PromiseVars
  BY Zenon DEF Owed, PromiseVars, Promise!vars
<1>0. TaskType /\ SleeperInv
  BY Zenon DEF IInv
<1>1. ASSUME NEW id \in Ids, Fire(id) PROVE Promise!Next
  <2>1. PICK k \in Kinds, stage \in {"queued", "generating"} :
            task[<<id, k>>] = "none" /\ task' = [task EXCEPT ![<<id, k>>] = stage]
    BY <1>1 DEF Fire, HandOff, InFlight, Kinds
  <2>2. Owed' = [Owed EXCEPT ![id] = @ + 1]
    <3>1. /\ Owed' = [Owed EXCEPT ![id] = Count(task', id)]
          /\ Count(task', id) = Owed[id] + Holding(stage) - Holding(task[<<id, k>>])
      BY <2>1, <1>0, OwedSteps DEF Stages
    <3>2. Count(task', id) = Owed[id] + 1
      BY <2>1, <3>1, OwedType DEF Holding
    <3> QED BY <3>1, <3>2
  <2>3. ~paused /\ UNCHANGED <<sinceShown, paused>>
    BY <1>1, Zenon DEF Fire, TickOpen
  <2>4. Promise!Fire(id)
    BY <2>2, <2>3, Zenon DEF Owed, Promise!Fire
  <2> QED BY <2>4, Zenon DEF Promise!Next
<1>2. ASSUME NEW s \in Slots, Generated(s) \/ StartDelivery(s) PROVE UNCHANGED PromiseVars
  <2>1. PICK id \in Ids, k \in Kinds : s = <<id, k>>
    BY DEF Slots
  <2>2. PICK stage \in {"queued", "sleeping"} :
            task[<<id, k>>] # "none" /\ task' = [task EXCEPT ![<<id, k>>] = stage]
    BY <1>2, <2>1 DEF Generated, StartDelivery
  <2>3. /\ Owed' = [Owed EXCEPT ![id] = Count(task', id)]
        /\ Count(task', id) = Owed[id] + Holding(stage) - Holding(task[<<id, k>>])
    BY <2>2, <1>0, OwedSteps DEF Stages
  <2>4. Owed' = Owed
    <3>1. Count(task', id) = Owed[id]
      BY <2>2, <2>3, OwedType DEF Holding
    <3> QED BY <2>3, <3>1, OwedIs
  <2> QED BY <1>2, <2>4, Zenon DEF Generated, StartDelivery, PromiseVars
<1>3. ASSUME NEW s \in Slots, Deliver(s) PROVE Promise!Next
  <2>1. PICK id \in Ids, k \in Kinds : s = <<id, k>>
    BY DEF Slots
  <2>2. task[<<id, k>>] = "sleeping" /\ task' = [task EXCEPT ![<<id, k>>] = "none"]
    BY <1>3, <2>1 DEF Deliver
  <2>3. Owed[id] > 0 /\ Owed' = [Owed EXCEPT ![id] = @ - 1]
    <3>1. /\ Owed' = [Owed EXCEPT ![id] = Count(task', id)]
          /\ Count(task', id) = Owed[id] + Holding("none") - Holding(task[<<id, k>>])
      BY <2>2, <1>0, OwedSteps DEF Stages
    <3>2. Count(task', id) = Owed[id] - 1
      BY <2>2, <3>1, OwedType DEF Holding
    <3>3. Owed[id] > 0
      <4>1. k = "tracked" \/ k = "loose"
        BY DEF Kinds
      <4>2. Count(task, id) > 0
        BY <2>2, <4>1 DEF Count, Holding
      <4> QED BY <4>2, OwedType
    <3> QED BY <3>1, <3>2, <3>3
  <2>4. CASE paused
    <3>1. UNCHANGED <<sinceShown, paused>>
      BY <1>3, <2>4, Zenon DEF Deliver
    <3>2. Promise!GiveUp(id)
      BY <2>3, <2>4, <3>1, Zenon DEF Owed, Promise!GiveUp
    <3> QED BY <3>2, Zenon DEF Promise!Next
  <2>5. CASE ~paused
    <3>1. sinceShown' = 0 /\ UNCHANGED paused
      BY <1>3, <2>5, Zenon DEF Deliver
    <3>2. sinceShown = Gap
      <4>1. wait[s] = 0 /\ wait[s] >= Gap - sinceShown
        BY <1>3, <1>0, Zenon DEF Deliver, SleeperInv
      <4>2. sinceShown \in 0..Gap
        BY <1>0 DEF TaskType
      <4> QED BY <4>1, <4>2, Times
    <3>3. Promise!Show(id)
      BY <2>3, <2>5, <3>1, <3>2, Zenon DEF Owed, Promise!Show
    <3> QED BY <3>3, Zenon DEF Promise!Next
  <2> QED BY <2>4, <2>5, Zenon
<1>4. ASSUME Elapse PROVE Promise!Next \/ UNCHANGED PromiseVars
  <2>1. Owed' = Owed
    BY <1>4, OwedIs DEF Elapse
  <2>2. sinceShown' = MinOf(sinceShown + 1, Gap) /\ UNCHANGED paused
    BY <1>4, Zenon DEF Elapse
  <2>3. \/ sinceShown < Gap /\ sinceShown' = sinceShown + 1
        \/ sinceShown' = sinceShown
    BY <2>2, <1>0, Times DEF MinOf, TaskType
  <2>4. CASE sinceShown < Gap /\ sinceShown' = sinceShown + 1
    <3>1. Promise!TimePasses
      BY <2>1, <2>2, <2>4, Zenon DEF Owed, Promise!TimePasses
    <3> QED BY <3>1, Zenon DEF Promise!Next
  <2> QED BY <2>1, <2>2, <2>3, <2>4, Zenon DEF PromiseVars
<1>5. ASSUME GateChanges PROVE Promise!Next
  <2>1. Owed' = Owed
    BY <1>5, OwedIs DEF GateChanges
  <2>2. Promise!PauseChanges
    BY <1>5, <2>1, Zenon DEF GateChanges, Owed, Promise!PauseChanges
  <2> QED BY <2>2, Zenon DEF Promise!Next
<1>6. ASSUME Restart PROVE Promise!Next
  <2>1. task' = [s \in Slots |-> "none"]
    BY <1>6 DEF Restart, NoTasks
  <2>2. Owed' = [id \in Ids |-> 0]
    BY <2>1, OwedIs DEF Slots, Kinds, Count, Holding
  <2>3. Promise!Restart
    BY <1>6, <2>2, Zenon DEF Restart, Owed, Promise!Restart
  <2> QED BY <2>3, Zenon DEF Promise!Next
<1>7. ASSUME \/ UserStep \/ \E id \in Ids : DropUnbacked(id)
             \/ Asleep \/ \E d \in 1..backLeft : SetBack(d)
             \/ UNCHANGED vars
      PROVE  UNCHANGED PromiseVars
  <2>1. UNCHANGED <<task, sinceShown, paused>>
    BY <1>7, Zenon DEF UserStep, Arm, ArmRefused, ArmNotStored, Cancel, DropUnbacked,
       Asleep, SetBack
  <2>2. Owed' = Owed
    BY <2>1, OwedIs
  <2> QED BY <2>1, <2>2, Zenon DEF PromiseVars
<1> QED
  BY <1>1, <1>2, <1>3, <1>4, <1>5, <1>6, <1>7, Zenon DEF Next, Tick, TaskStep

\* The reminder subsystem implements its promise: one fire is one bubble,
\* bubbles are a gap apart, none appears while nudges are paused, and a fire is
\* given up only then or with the process (_deliver_nudge's docstring), in
\* whatever order the generations of any number of reminders end.
THEOREM Refines == Spec => KeepsPromise
<1>1. Init => Promise!Init
  BY PromiseInit
<1>2. IInv /\ [Next]_vars => [Promise!Next]_(Promise!vars)
  BY PromiseStep
<1> QED BY <1>1, <1>2, Invariance, PTL DEF Spec, KeepsPromise, Promise!Spec

=============================================================================
