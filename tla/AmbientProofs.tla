---------------------------- MODULE AmbientProofs ----------------------------
(***************************************************************************)
(* What the brain says unasked.  First the idle tools, for every tool,     *)
(* rule, cooldown and cap: the loop's rolls stay within their caps and     *)
(* apart from each other, whatever is forced meanwhile.  Then the comment  *)
(* gate, for every cooldown, window and cap: the lines it lets through     *)
(* never exceed the cap, and a line thrown away leaves the model alone for *)
(* as long as it should.                                                   *)
(***************************************************************************)
EXTENDS CommentGate, IdleTools, FiniteSetTheorems, SequenceTheorems, TLAPS

\* 1..n has n elements.
LEMMA UpTo ==
    ASSUME NEW n \in Nat
    PROVE  IsFiniteSet(1..n) /\ Cardinality(1..n) = n
<1>1. 1 \in Int /\ n \in Int
  OBVIOUS
<1>2. IsFiniteSet(1..n) /\ Cardinality(1..n) = IF 1 > n THEN 0 ELSE n - 1 + 1
  BY <1>1, FS_Interval, Zenon
<1> QED BY <1>2

-----------------------------------------------------------------------------
(* Idle tools: every fire of the loop in the last hour is one the tracker  *)
(* holds, so that a tracker with room in it means a loop with room left.   *)

\* The constants of the rolls one by one, as the steps below use them.
LEMMA Times ==
    /\ GlobalCooldown \in Nat /\ Hour \in Nat /\ CallTime \in Nat /\ Horizon \in Nat
    /\ GlobalCooldown <= Horizon /\ Hour < Horizon /\ CallTime <= Horizon
    /\ MaxPerHour \in Nat \ {0} /\ M3PerHour \in Nat \ {0} /\ PickLimit \in Nat \ {0}
BY TimesAssumption, HorizonAssumption, CapsAssumption

\* What a list of fires holds.
LEMMA FiresAre ==
    ASSUME NEW ages \in Seq(FireAges)
    PROVE  /\ Len(ages) \in Nat /\ DOMAIN ages = 1..Len(ages)
           /\ \A i \in DOMAIN ages : ages[i] \in FireAges /\ ages[i] \in Nat
BY Times DEF FireAges

\* The fires of the last hour are no more than all of them.
LEMMA YoungIs ==
    ASSUME NEW ages \in Seq(FireAges)
    PROVE  /\ IsFiniteSet(Young(ages)) /\ Young(ages) \subseteq 1..Len(ages)
           /\ Cardinality(Young(ages)) \in Nat /\ Cardinality(Young(ages)) <= Len(ages)
<1>1. Len(ages) \in Nat /\ Young(ages) \in SUBSET (1..Len(ages))
  BY FiresAre DEF Young
<1>2. IsFiniteSet(1..Len(ages)) /\ Cardinality(1..Len(ages)) = Len(ages)
  BY <1>1, UpTo
<1> QED BY <1>1, <1>2, FS_Subset, FS_CardinalityType

\* A set of numbers that goes down to one holds all up to its size.
LEMMA DownwardClosed ==
    ASSUME NEW m \in Nat, NEW S \in SUBSET (1..m), \A i \in S : \A j \in 1..i : j \in S
    PROVE  Cardinality(S) \in 0..m /\ S = 1..Cardinality(S)
<1> DEFINE n == Cardinality(S)
<1>1. IsFiniteSet(1..m) /\ Cardinality(1..m) = m
  BY UpTo
<1>2. IsFiniteSet(S) /\ n \in Nat /\ n <= m
  BY <1>1, FS_Subset, FS_CardinalityType
<1>3. ASSUME NEW i \in S PROVE i \in 1..n
  <2>1. i \in Nat /\ i >= 1 /\ 1..i \in SUBSET S
    BY <1>3
  <2>2. Cardinality(1..i) = i
    BY <2>1, UpTo
  <2>3. Cardinality(1..i) <= n
    BY <2>1, <1>2, FS_Subset
  <2> QED BY <2>1, <2>2, <2>3, <1>2
<1>4. IsFiniteSet(1..n) /\ Cardinality(1..n) = n
  <2> HIDE DEF n
  <2> QED BY <1>2, UpTo
<1>5. S = 1..n
  BY <1>3, <1>4, FS_Subset
<1> QED BY <1>2, <1>5

\* Pruning drops fires from the front, none of them of the last hour.
LEMMA LatelyIs ==
    ASSUME NEW ages \in Seq(FireAges)
    PROVE  \E k \in 0..Len(ages) :
             /\ Lately(ages) \in Seq(FireAges)
             /\ Len(Lately(ages)) = Len(ages) - k
             /\ \A i \in 1..k : ~InHour(ages[i])
             /\ \A i \in 1..(Len(ages) - k) : Lately(ages)[i] = ages[i + k]
<1> DEFINE k == Cardinality(Stale(ages))
           m == Len(ages)
<1>1. m \in Nat /\ DOMAIN ages = 1..m /\ \A i \in 1..m : ages[i] \in FireAges
  BY FiresAre
<1>2. Stale(ages) \in SUBSET (1..m) /\ \A i \in Stale(ages) : \A j \in 1..i : j \in Stale(ages)
  <2>1. Stale(ages) \in SUBSET (1..m)
    BY <1>1 DEF Stale
  <2>2. ASSUME NEW i \in Stale(ages), NEW j \in 1..i PROVE j \in Stale(ages)
    <3>1. i \in 1..m /\ j \in DOMAIN ages /\ 1..j \subseteq 1..i
      BY <1>1, <2>1, <2>2
    <3> QED BY <3>1 DEF Stale
  <2> QED BY <2>1, <2>2
<1>3. k \in 0..m /\ Stale(ages) = 1..k
  BY <1>1, <1>2, DownwardClosed
<1>4. \A i \in 1..k : ~InHour(ages[i])
  BY <1>3 DEF Stale
<1>5. Lately(ages) = SubSeq(ages, k + 1, m)
  BY DEF Lately
<1> HIDE DEF k, m
<1>6. \A i \in (k + 1)..m : ages[i] \in FireAges
  BY <1>1, <1>3
<1>7. /\ SubSeq(ages, k + 1, m) \in Seq(FireAges)
      /\ Len(SubSeq(ages, k + 1, m)) = IF k + 1 <= m THEN m - (k + 1) + 1 ELSE 0
      /\ \A i \in 1..(m - (k + 1) + 1) : SubSeq(ages, k + 1, m)[i] = ages[k + 1 + i - 1]
  BY <1>1, <1>3, <1>6, SubSeqProperties
<1>8. Len(Lately(ages)) = m - k
  BY <1>1, <1>3, <1>5, <1>7
<1>9. ASSUME NEW i \in 1..(m - k) PROVE Lately(ages)[i] = ages[i + k]
  BY <1>1, <1>3, <1>5, <1>7
<1> QED BY <1>3, <1>4, <1>5, <1>7, <1>8, <1>9 DEF m

\* A unit of time makes every fire that much older, up to the horizon.
LEMMA AgedFiresAre ==
    ASSUME NEW ages \in Seq(FireAges)
    PROVE  /\ AgedFires(ages) \in Seq(FireAges) /\ Len(AgedFires(ages)) = Len(ages)
           /\ \A i \in 1..Len(ages) : AgedFires(ages)[i] = Older(ages[i])
           /\ Young(AgedFires(ages)) \subseteq Young(ages)
<1>1. /\ Len(ages) \in Nat /\ DOMAIN ages = 1..Len(ages)
      /\ \A i \in 1..Len(ages) : ages[i] \in 0..Horizon /\ ages[i] \in Nat
  BY FiresAre DEF FireAges
<1>2. \A i \in 1..Len(ages) : Older(ages[i]) \in FireAges /\ Older(ages[i]) >= ages[i]
  BY <1>1, Times DEF Older, FireAges
<1>3. AgedFires(ages) = [i \in 1..Len(ages) |-> Older(ages[i])]
  BY <1>1 DEF AgedFires
<1>4. AgedFires(ages) \in Seq(FireAges) /\ Len(AgedFires(ages)) = Len(ages)
      /\ DOMAIN AgedFires(ages) = 1..Len(ages)
  BY <1>1, <1>2, <1>3
<1>5. \A i \in 1..Len(ages) : InHour(Older(ages[i])) => InHour(ages[i])
  BY <1>1, <1>2, Times DEF InHour, FireAges
<1>6. Young(AgedFires(ages)) \subseteq Young(ages)
  BY <1>1, <1>3, <1>4, <1>5 DEF Young
<1> QED BY <1>3, <1>4, <1>6

\* A new stamp goes to the end of the deque and leaves the others in their place.
LEMMA AppendedFire ==
    ASSUME NEW ages \in Seq(FireAges), NEW age \in FireAges
    PROVE  /\ Append(ages, age) \in Seq(FireAges) /\ Len(Append(ages, age)) = Len(ages) + 1
           /\ \A i \in 1..Len(ages) : Append(ages, age)[i] = ages[i]
           /\ Append(ages, age)[Len(ages) + 1] = age
BY AppendProperties

-----------------------------------------------------------------------------
(* Every fire of the loop in the last hour is one of the tracker's.        *)

Matching(f, lines, ages) ==
    /\ f \in [Young(lines) -> Young(ages)]
    /\ \A i, j \in Young(lines) : f[i] = f[j] => i = j
    /\ \A i \in Young(lines) : ages[f[i]] = lines[i]

Matched(lines, ages) == \E f : Matching(f, lines, ages)

\* Where each young fire has a stamp of its own there are no more fires than stamps.
LEMMA MatchedCount ==
    ASSUME NEW lines \in Seq(FireAges), NEW ages \in Seq(FireAges), Matched(lines, ages)
    PROVE  Cardinality(Young(lines)) <= Len(ages)
<1>1. PICK f : Matching(f, lines, ages)
  BY DEF Matched
<1>2. f \in Injection(Young(lines), Young(ages))
  BY <1>1 DEF Matching, Injection, IsInjective
<1>3. IsFiniteSet(Young(ages)) /\ Cardinality(Young(ages)) <= Len(ages)
      /\ Cardinality(Young(ages)) \in Nat /\ Cardinality(Young(lines)) \in Nat
  BY YoungIs
<1>4. Cardinality(Young(lines)) <= Cardinality(Young(ages))
  BY <1>2, <1>3, FS_Injection
<1>5. Len(ages) \in Nat
  OBVIOUS
<1> QED BY <1>3, <1>4, <1>5

\* Pruning the tracker keeps every match.
LEMMA MatchedPruned ==
    ASSUME NEW lines \in Seq(FireAges), NEW ages \in Seq(FireAges), Matched(lines, ages)
    PROVE  Matched(lines, Lately(ages))
<1>1. PICK f : Matching(f, lines, ages)
  BY DEF Matched
<1>2. PICK k \in 0..Len(ages) :
        /\ Lately(ages) \in Seq(FireAges)
        /\ Len(Lately(ages)) = Len(ages) - k
        /\ \A i \in 1..k : ~InHour(ages[i])
        /\ \A i \in 1..(Len(ages) - k) : Lately(ages)[i] = ages[i + k]
  BY LatelyIs
<1> DEFINE g == [i \in Young(lines) |-> f[i] - k]
<1>3. ASSUME NEW i \in Young(lines)
      PROVE  /\ f[i] \in Int /\ f[i] - k \in Young(Lately(ages))
             /\ Lately(ages)[f[i] - k] = lines[i]
  <2>1. f[i] \in 1..Len(ages) /\ InHour(ages[f[i]]) /\ ages[f[i]] = lines[i]
    BY <1>1, FiresAre DEF Matching, Young
  <2>2. k \in Nat /\ Len(ages) \in Nat /\ f[i] > k
    BY <1>2, <2>1
  <2>3. f[i] - k \in 1..(Len(ages) - k) /\ f[i] - k + k = f[i]
    BY <2>1, <2>2
  <2>4. Lately(ages)[f[i] - k] = ages[f[i]] /\ f[i] - k \in DOMAIN Lately(ages)
    BY <1>2, <2>3
  <2> QED BY <2>1, <2>4 DEF Young
<1>4. ASSUME NEW i \in Young(lines), NEW j \in Young(lines), g[i] = g[j] PROVE i = j
  <2>1. f[i] = f[j]
    BY <1>2, <1>3, <1>4
  <2> QED BY <1>1, <2>1 DEF Matching
<1>5. Matching(g, lines, Lately(ages))
  BY <1>3, <1>4 DEF Matching
<1> QED BY <1>5 DEF Matched

\* So does forgetting fires that are over an hour old.
LEMMA MatchedLately ==
    ASSUME NEW lines \in Seq(FireAges), NEW ages \in Seq(FireAges), Matched(lines, ages)
    PROVE  Matched(Lately(lines), ages)
<1>1. PICK f : Matching(f, lines, ages)
  BY DEF Matched
<1>2. PICK k \in 0..Len(lines) :
        /\ Lately(lines) \in Seq(FireAges)
        /\ Len(Lately(lines)) = Len(lines) - k
        /\ \A i \in 1..(Len(lines) - k) : Lately(lines)[i] = lines[i + k]
  BY LatelyIs
<1> DEFINE g == [i \in Young(Lately(lines)) |-> f[i + k]]
<1>3. ASSUME NEW i \in Young(Lately(lines))
      PROVE  i \in Nat /\ i + k \in Young(lines) /\ lines[i + k] = Lately(lines)[i]
  <2>1. k \in Nat /\ Len(lines) \in Nat /\ i \in 1..(Len(lines) - k) /\ InHour(Lately(lines)[i])
    BY <1>2 DEF Young
  <2>2. lines[i + k] = Lately(lines)[i] /\ i + k \in 1..Len(lines)
    BY <1>2, <2>1
  <2> QED BY <2>1, <2>2 DEF Young
<1>4. ASSUME NEW i \in Young(Lately(lines)), NEW j \in Young(Lately(lines)), g[i] = g[j]
      PROVE  i = j
  <2>1. f[i + k] = f[j + k] /\ i + k \in Young(lines) /\ j + k \in Young(lines)
    BY <1>3, <1>4
  <2>2. i + k = j + k
    BY <1>1, <2>1 DEF Matching
  <2> QED BY <1>2, <1>3, <2>2
<1>5. Matching(g, Lately(lines), ages)
  <2>1. \A i \in Young(Lately(lines)) : g[i] \in Young(ages) /\ ages[g[i]] = Lately(lines)[i]
    BY <1>1, <1>3 DEF Matching
  <2> QED BY <1>4, <2>1 DEF Matching
<1> QED BY <1>5 DEF Matched

\* A forced fire takes nothing from the matches.
LEMMA MatchedForced ==
    ASSUME NEW lines \in Seq(FireAges), NEW ages \in Seq(FireAges), NEW age \in FireAges,
           Matched(lines, ages)
    PROVE  Matched(lines, Append(ages, age))
<1>1. PICK f : Matching(f, lines, ages)
  BY DEF Matched
<1>2. ASSUME NEW i \in Young(ages)
      PROVE  i \in Young(Append(ages, age)) /\ Append(ages, age)[i] = ages[i]
  BY AppendedFire, FiresAre DEF Young
<1>3. Matching(f, lines, Append(ages, age))
  BY <1>1, <1>2 DEF Matching
<1> QED BY <1>3 DEF Matched

\* A fire of the loop is matched by its own stamp.
LEMMA MatchedFire ==
    ASSUME NEW lines \in Seq(FireAges), NEW ages \in Seq(FireAges), NEW age \in FireAges,
           Matched(lines, ages)
    PROVE  Matched(Append(lines, age), Append(ages, age))
<1> DEFINE all == Append(lines, age)
           stamped == Append(ages, age)
           n == Len(lines) + 1
           m == Len(ages) + 1
<1>1. PICK f : Matching(f, lines, ages)
  BY DEF Matched
<1>2. /\ all \in Seq(FireAges) /\ Len(all) = n /\ all[n] = age
      /\ \A i \in 1..Len(lines) : all[i] = lines[i]
      /\ stamped \in Seq(FireAges) /\ Len(stamped) = m /\ stamped[m] = age
      /\ \A i \in 1..Len(ages) : stamped[i] = ages[i]
      /\ Len(lines) \in Nat /\ Len(ages) \in Nat
  BY AppendedFire
<1> HIDE DEF all, stamped
<1> DEFINE g == [i \in Young(all) |-> IF i = n THEN m ELSE f[i]]
<1>3. ASSUME NEW i \in Young(all), i # n
      PROVE  i \in Young(lines) /\ all[i] = lines[i]
  BY <1>2, <1>3 DEF Young
<1>4. ASSUME NEW i \in Young(lines)
      PROVE  f[i] \in Young(stamped) /\ stamped[f[i]] = lines[i] /\ f[i] # m
  <2>1. f[i] \in 1..Len(ages) /\ InHour(ages[f[i]]) /\ ages[f[i]] = lines[i]
    BY <1>1, FiresAre DEF Matching, Young
  <2> QED BY <1>2, <2>1 DEF Young
<1>5. ASSUME n \in Young(all) PROVE m \in Young(stamped) /\ stamped[m] = all[n]
  BY <1>2, <1>5 DEF Young
<1>6. \A i \in Young(all) : g[i] \in Young(stamped) /\ stamped[g[i]] = all[i]
  BY <1>3, <1>4, <1>5
<1>7. ASSUME NEW i \in Young(all), NEW j \in Young(all), g[i] = g[j] PROVE i = j
  BY <1>1, <1>3, <1>4, <1>7 DEF Matching
<1>8. Matching(g, all, stamped)
  BY <1>6, <1>7 DEF Matching
<1> QED BY <1>8 DEF Matched, all, stamped

\* Time makes a fire and its stamp older together.
LEMMA MatchedAged ==
    ASSUME NEW lines \in Seq(FireAges), NEW ages \in Seq(FireAges), Matched(lines, ages)
    PROVE  Matched(AgedFires(lines), AgedFires(ages))
<1>1. PICK f : Matching(f, lines, ages)
  BY DEF Matched
<1> DEFINE g == [i \in Young(AgedFires(lines)) |-> f[i]]
<1>2. ASSUME NEW i \in Young(AgedFires(lines))
      PROVE  /\ i \in Young(lines)
             /\ f[i] \in Young(AgedFires(ages)) /\ AgedFires(ages)[f[i]] = AgedFires(lines)[i]
  <2>1. i \in Young(lines) /\ i \in 1..Len(lines) /\ InHour(AgedFires(lines)[i])
    BY AgedFiresAre, YoungIs DEF Young
  <2>2. f[i] \in Young(ages) /\ f[i] \in 1..Len(ages) /\ ages[f[i]] = lines[i]
    BY <1>1, <2>1, YoungIs DEF Matching
  <2>3. AgedFires(ages)[f[i]] = AgedFires(lines)[i]
    BY <2>1, <2>2, AgedFiresAre
  <2>4. f[i] \in DOMAIN AgedFires(ages)
    BY <2>2, AgedFiresAre
  <2> QED BY <2>1, <2>3, <2>4 DEF Young
<1>3. Matching(g, AgedFires(lines), AgedFires(ages))
  BY <1>1, <1>2 DEF Matching
<1> QED BY <1>3 DEF Matched

\* Forgetting and ageing leave no more fires of the last hour; one more fire
\* is one more at most.
LEMMA YoungCount ==
    ASSUME NEW ages \in Seq(FireAges), NEW age \in FireAges
    PROVE  /\ Cardinality(Young(Lately(ages))) <= Cardinality(Young(ages))
           /\ Cardinality(Young(AgedFires(ages))) <= Cardinality(Young(ages))
           /\ Cardinality(Young(Append(ages, age))) <= Cardinality(Young(ages)) + 1
<1>1. IsFiniteSet(Young(ages)) /\ Cardinality(Young(ages)) \in Nat
  BY YoungIs
<1>2. Cardinality(Young(Lately(ages))) <= Cardinality(Young(ages))
  <2>1. PICK k \in 0..Len(ages) :
          /\ Lately(ages) \in Seq(FireAges)
          /\ Len(Lately(ages)) = Len(ages) - k
          /\ \A i \in 1..(Len(ages) - k) : Lately(ages)[i] = ages[i + k]
    BY LatelyIs
  <2> DEFINE g == [i \in Young(Lately(ages)) |-> i + k]
  <2>2. ASSUME NEW i \in Young(Lately(ages)) PROVE i \in Nat /\ i + k \in Young(ages)
    <3>1. k \in Nat /\ Len(ages) \in Nat /\ i \in 1..(Len(ages) - k)
          /\ InHour(Lately(ages)[i])
      BY <2>1 DEF Young
    <3>2. Lately(ages)[i] = ages[i + k] /\ i + k \in 1..Len(ages)
      BY <2>1, <3>1
    <3> QED BY <3>1, <3>2 DEF Young
  <2>3. \A i, j \in Young(Lately(ages)) : i + k = j + k => i = j
    BY <2>1, <2>2
  <2>4. g \in Injection(Young(Lately(ages)), Young(ages))
    BY <2>2, <2>3 DEF Injection, IsInjective
  <2> QED BY <1>1, <2>4, FS_Injection
<1>3. Cardinality(Young(AgedFires(ages))) <= Cardinality(Young(ages))
  <2>1. Young(AgedFires(ages)) \in SUBSET Young(ages)
    BY AgedFiresAre
  <2> QED BY <1>1, <2>1, FS_Subset
<1>4. Cardinality(Young(Append(ages, age))) <= Cardinality(Young(ages)) + 1
  <2> DEFINE more == Young(ages) \cup {Len(ages) + 1}
  <2>1. IsFiniteSet(more) /\ Cardinality(more) <= Cardinality(Young(ages)) + 1
        /\ Cardinality(more) \in Nat
    <3>1. /\ IsFiniteSet(more)
          /\ \/ Cardinality(more) = Cardinality(Young(ages))
             \/ Cardinality(more) = Cardinality(Young(ages)) + 1
      BY <1>1, FS_AddElement, Zenon
    <3> HIDE DEF more
    <3> QED BY <1>1, <3>1
  <2>2. Young(Append(ages, age)) \in SUBSET more
    BY AppendedFire, FiresAre DEF Young
  <2>3. Cardinality(Young(Append(ages, age))) <= Cardinality(more)
    BY <2>1, <2>2, FS_Subset
  <2>4. Cardinality(Young(Append(ages, age))) \in Nat
    BY AppendedFire, YoungIs
  <2> HIDE DEF more
  <2> QED BY <1>1, <2>1, <2>3, <2>4
<1> QED BY <1>2, <1>3, <1>4

-----------------------------------------------------------------------------
(* The invariant.                                                          *)

\* What a roll awaits, and for what.
WhatOK ==
    /\ auto.at = "rule" => auto.what \in Rules
    /\ auto.at = "tool" => auto.what \in Catalog

\* A roll is under way because there was room for it, and a forced fire takes
\* none of that room.
CapOK ==
    /\ Matched(began, fires)
    /\ Cardinality(Young(began)) <= MaxPerHour
    /\ auto.at # "none" => Cardinality(Young(began)) < MaxPerHour
    /\ Len(m3Fires) <= M3PerHour
    /\ auto.at \in {"picking", "tool"} => Len(m3Fires) < M3PerHour

\* The cooldown holds for as long as no rule is to be drawn, and a roll under
\* way cannot shorten it by stamping its beginning.
HoldOK ==
    hold > 0 =>
        /\ lastAny + hold <= GlobalCooldown
        /\ auto.at # "none" => hold + auto.age <= GlobalCooldown

IdleInv == IdleType /\ WhatOK /\ CapOK /\ HoldOK

Rolls == [at : {"none", "picking", "tool", "rule"},
          what : Rules \cup Catalog \cup {"none"}, age : 0..CallTime]

\* The type, one variable at a time.
LEMMA IdleTypeIs ==
    IdleType <=>
        /\ eligible \in BOOLEAN
        /\ auto \in Rolls
        /\ forced \subseteq Rules
        /\ byRule \in [Rules -> FireAges] /\ byTool \in [Tools -> FireAges]
        /\ lastAny \in FireAges /\ m3Last \in FireAges
        /\ fires \in Seq(FireAges) /\ m3Fires \in Seq(FireAges) /\ began \in Seq(FireAges)
        /\ picks \in [Catalog -> 0..PickLimit]
        /\ cached \subseteq Evergreen
        /\ hold \in 0..GlobalCooldown
BY DEF IdleType, Rolls

\* A roll that is not under way is still a roll.
LEMMA RestingIs == Resting \in Rolls /\ Resting.at = "none"
BY Times DEF Resting, Rolls

\* At startup nothing has fired and nothing is rolling.
LEMMA IdleInvInit == IdleInit => IdleInv
<1> SUFFICES ASSUME IdleInit PROVE IdleInv
  OBVIOUS
<1>1. auto = Resting /\ fires = <<>> /\ m3Fires = <<>> /\ began = <<>> /\ hold = 0
  BY DEF IdleInit
<1>2. eligible \in BOOLEAN /\ forced \subseteq Rules /\ cached \subseteq Evergreen
  BY DEF IdleInit
<1>3. /\ byRule \in [Rules -> FireAges] /\ byTool \in [Tools -> FireAges]
      /\ lastAny \in FireAges /\ m3Last \in FireAges
      /\ picks \in [Catalog -> 0..PickLimit] /\ hold \in 0..GlobalCooldown
  BY Times DEF IdleInit, FireAges
<1>4. IdleType
  BY <1>1, <1>2, <1>3, RestingIs, IdleTypeIs
<1>5. Young(<<>>) = {} /\ Cardinality(Young(<<>>)) = 0
  BY FS_EmptySet DEF Young
<1>6. Matched(began, fires)
  <2>1. Matching([i \in {} |-> i], <<>>, <<>>)
    BY <1>5 DEF Matching
  <2> QED BY <1>1, <2>1 DEF Matched
<1>7. WhatOK /\ HoldOK
  BY <1>1, RestingIs DEF WhatOK, HoldOK
<1>8. CapOK
  BY <1>1, <1>5, <1>6, RestingIs, Times DEF CapOK
<1> QED BY <1>4, <1>7, <1>8 DEF IdleInv

-----------------------------------------------------------------------------
(* The steps.                                                              *)

\* What the rolls share is left alone by a step that changes none of it.
LEMMA CapKept ==
    ASSUME CapOK, began' = began, fires' = fires, m3Fires' = m3Fires,
           auto'.at = auto.at \/ auto'.at = "none"
              \/ (auto.at = "picking" /\ auto'.at = "tool")
    PROVE  CapOK'
BY DEF CapOK

\* What is left of the cooldown is kept by a step that stamps nothing.
LEMMA HoldKept ==
    ASSUME HoldOK, hold' = hold, lastAny' = lastAny,
           (auto'.at # "none" => auto.at # "none" /\ auto'.age = auto.age)
    PROVE  HoldOK'
BY DEF HoldOK

\* A pruned tracker with room in it: what the loop looks at before it rolls.
LEMMA RoomIs ==
    ASSUME IdleInv, fires' = PrunedFires(fires), Len(fires') < MaxPerHour
    PROVE  /\ fires' \in Seq(FireAges) /\ Matched(began, fires')
           /\ Cardinality(Young(began)) < MaxPerHour
<1>1. fires \in Seq(FireAges) /\ began \in Seq(FireAges)
  BY IdleTypeIs DEF IdleInv
<1>2. fires' \in Seq(FireAges)
  BY <1>1, LatelyIs DEF PrunedFires
<1>3. Matched(began, fires')
  BY <1>1, MatchedPruned DEF IdleInv, CapOK, PrunedFires
<1>4. Cardinality(Young(began)) <= Len(fires') /\ Cardinality(Young(began)) \in Nat
      /\ Len(fires') \in Nat
  BY <1>1, <1>2, <1>3, MatchedCount, YoungIs
<1> QED BY <1>2, <1>3, <1>4, Times

\* The model is asked to pick only where there is room under both caps.
LEMMA AskModelStep ==
    ASSUME IdleInv, AskModel PROVE IdleInv'
<1>1. IdleType
  BY DEF IdleInv
<1>2. auto' = [at |-> "picking", what |-> "none", age |-> 0]
  BY DEF AskModel
<1>3. auto' \in Rolls
  BY <1>2, Times DEF Rolls
<1>4. /\ fires' \in Seq(FireAges) /\ Matched(began, fires')
      /\ Cardinality(Young(began)) < MaxPerHour
  BY RoomIs DEF AskModel
<1>5. m3Fires' \in Seq(FireAges) /\ Len(m3Fires') \in Nat /\ Len(m3Fires') < M3PerHour
  BY <1>1, LatelyIs, IdleTypeIs DEF AskModel, PrunedFires
<1>6. picks' \in [Catalog -> 0..PickLimit]
  BY <1>1, Times, IdleTypeIs DEF AskModel, Forgiven
<1>7. IdleType'
  BY <1>1, <1>3, <1>4, <1>5, <1>6 DEF AskModel, IdleType, Rolls, history
<1>8. WhatOK'
  BY <1>2 DEF WhatOK
<1>9. CapOK'
  <2>1. began' = began /\ Cardinality(Young(began)) \in Nat
    BY <1>1, YoungIs, IdleTypeIs DEF AskModel, history
  <2> QED BY <1>4, <1>5, <2>1, Times DEF CapOK
<1>10. HoldOK'
  <2>1. hold' = hold /\ lastAny' = lastAny /\ hold \in 0..GlobalCooldown /\ auto'.age = 0
    BY <1>1, <1>2, IdleTypeIs DEF AskModel, history
  <2> QED BY <2>1, Times DEF IdleInv, HoldOK
<1> QED BY <1>7, <1>8, <1>9, <1>10 DEF IdleInv

\* A rule is drawn only where the cooldown is over.
LEMMA DrawStep ==
    ASSUME IdleInv, NEW r \in Rules, Draw(r) PROVE IdleInv' /\ hold = 0
<1>1. IdleType
  BY DEF IdleInv
<1>2. auto' = [at |-> "rule", what |-> r, age |-> 0]
  BY DEF Draw
<1>3. auto' \in Rolls
  BY <1>2, Times DEF Rolls
<1>4. /\ fires' \in Seq(FireAges) /\ Matched(began, fires')
      /\ Cardinality(Young(began)) < MaxPerHour
  BY RoomIs DEF Draw
<1>5. IdleType'
  BY <1>1, <1>3, <1>4 DEF Draw, IdleType, Rolls, history
<1>6. WhatOK'
  BY <1>2 DEF WhatOK
<1>7. CapOK'
  <2>1. began' = began /\ m3Fires' = m3Fires /\ Cardinality(Young(began)) \in Nat
    BY <1>1, YoungIs, IdleTypeIs DEF Draw, history
  <2>2. Len(m3Fires) <= M3PerHour
    BY DEF IdleInv, CapOK
  <2> QED BY <1>2, <1>4, <2>1, <2>2, Times DEF CapOK
<1>8. hold = 0
  <2>1. hold \in Nat /\ lastAny \in Nat /\ lastAny >= GlobalCooldown
    BY <1>1, Times, IdleTypeIs DEF Draw, FireAges
  <2> QED BY <2>1, Times DEF IdleInv, HoldOK
<1>9. HoldOK'
  BY <1>8 DEF HoldOK, Draw, history
<1> QED BY <1>5, <1>6, <1>7, <1>8, <1>9 DEF IdleInv

\* A roll that ends without a fire gives back the room it found.
LEMMA GiveUpStep ==
    ASSUME IdleInv, GiveUp PROVE IdleInv' /\ auto'.at = "none"
<1>1. IdleType'
  BY RestingIs, IdleTypeIs DEF IdleInv, GiveUp, IdleType, Rolls, tracker, history
<1>2. auto'.at = "none" /\ began' = began /\ fires' = fires /\ m3Fires' = m3Fires
      /\ hold' = hold /\ lastAny' = lastAny
  BY RestingIs DEF GiveUp, tracker, history
<1>3. WhatOK' /\ CapOK' /\ HoldOK'
  BY <1>2, CapKept, HoldKept DEF IdleInv, WhatOK
<1> QED BY <1>1, <1>2, <1>3 DEF IdleInv

\* The model's pick keeps the room it was offered under.
LEMMA PickedStep ==
    ASSUME IdleInv, NEW t \in Catalog, Picked(t) PROVE IdleInv'
<1>1. auto \in Rolls /\ auto.at = "picking"
  BY IdleTypeIs DEF IdleInv, Picked
<1>2. auto' \in Rolls /\ auto'.at = "tool" /\ auto'.what = t /\ auto'.age = auto.age
  BY <1>1 DEF Picked, Rolls
<1>3. IdleType'
  BY <1>2, IdleTypeIs DEF IdleInv, Picked, IdleType, Rolls, tracker, history
<1>4. began' = began /\ fires' = fires /\ m3Fires' = m3Fires
      /\ hold' = hold /\ lastAny' = lastAny
  BY DEF Picked, tracker, history
<1>5. CapOK'
  BY <1>1, <1>2, <1>4, CapKept DEF IdleInv
<1>6. WhatOK' /\ HoldOK'
  BY <1>1, <1>2, <1>4, HoldKept DEF IdleInv, WhatOK
<1> QED BY <1>3, <1>5, <1>6 DEF IdleInv

\* What a fire of the loop leaves: its stamp, and no more than one fire more.
LEMMA FireStep ==
    ASSUME IdleInv, auto.at # "none", Note, auto' = Resting,
           lastAny' = auto.age, fires' = Append(fires, auto.age)
    PROVE  /\ auto.age \in FireAges /\ auto' \in Rolls
           /\ fires' \in Seq(FireAges) /\ began' \in Seq(FireAges)
           /\ hold' \in 0..GlobalCooldown
           /\ Matched(began', fires') /\ Cardinality(Young(began')) <= MaxPerHour
           /\ HoldOK'
<1>1. /\ auto \in Rolls /\ fires \in Seq(FireAges) /\ began \in Seq(FireAges)
      /\ hold \in 0..GlobalCooldown
  BY IdleTypeIs DEF IdleInv
<1>2. auto.age \in FireAges /\ auto.age \in Nat
  BY <1>1, Times DEF Rolls, FireAges
<1> DEFINE more == Append(began, auto.age)
<1>3. more \in Seq(FireAges) /\ fires' \in Seq(FireAges)
  BY <1>1, <1>2, AppendedFire
<1>4. Matched(more, fires')
  BY <1>1, <1>2, MatchedFire DEF IdleInv, CapOK
<1>5. Cardinality(Young(more)) <= Cardinality(Young(began)) + 1
      /\ Cardinality(Young(began)) < MaxPerHour
  BY <1>1, <1>2, YoungCount DEF IdleInv, CapOK
<1>6. Cardinality(Young(more)) \in Nat /\ Cardinality(Young(began)) \in Nat
  BY <1>1, <1>3, YoungIs
<1>7. began' = Lately(more)
  BY DEF Note
<1> HIDE DEF more
<1>8. began' \in Seq(FireAges) /\ Matched(began', fires')
  BY <1>3, <1>4, <1>7, LatelyIs, MatchedLately
<1>9. Cardinality(Young(began')) <= MaxPerHour
  <2>1. Cardinality(Young(began')) <= Cardinality(Young(more))
    BY <1>2, <1>3, <1>7, YoungCount
  <2>2. Cardinality(Young(began')) \in Nat
    BY <1>8, YoungIs
  <2> QED BY <1>5, <1>6, <2>1, <2>2, Times
<1>10. hold' = IF hold < GlobalCooldown - auto.age THEN GlobalCooldown - auto.age ELSE hold
  BY DEF Note
<1>11. hold' \in 0..GlobalCooldown
  BY <1>1, <1>2, <1>10, Times
<1>12. auto' \in Rolls /\ auto'.at = "none"
  BY RestingIs
<1>13. hold' > 0 => auto.age + hold' <= GlobalCooldown
  <2>1. CASE hold < GlobalCooldown - auto.age
    BY <2>1, <1>2, <1>10, Times
  <2>2. CASE ~(hold < GlobalCooldown - auto.age)
    <3>1. hold' = hold /\ (hold > 0 => hold + auto.age <= GlobalCooldown)
      BY <2>2, <1>10 DEF IdleInv, HoldOK
    <3> QED BY <3>1, <1>1, <1>2, Times
  <2> QED BY <2>1, <2>2
<1>14. HoldOK'
  BY <1>12, <1>13 DEF HoldOK
<1> QED BY <1>2, <1>3, <1>8, <1>9, <1>11, <1>12, <1>14

\* A pick that fires is stamped into the room it found.
LEMMA PickFiresStep ==
    ASSUME IdleInv, PickFires PROVE IdleInv'
<1>1. auto.at = "tool" /\ auto.what \in Catalog /\ auto.what \in Tools /\ auto' = Resting
  BY ToolsAssumption DEF IdleInv, WhatOK, PickFires
<1>2. /\ auto.age \in FireAges /\ auto' \in Rolls
      /\ fires' \in Seq(FireAges) /\ began' \in Seq(FireAges)
      /\ hold' \in 0..GlobalCooldown
      /\ Matched(began', fires') /\ Cardinality(Young(began')) <= MaxPerHour
      /\ HoldOK'
  BY <1>1, FireStep DEF PickFires, Stamp
<1>3. IdleType
  BY DEF IdleInv
<1>4. byTool' \in [Tools -> FireAges] /\ lastAny' \in FireAges /\ m3Last' \in FireAges
  BY <1>1, <1>2, <1>3, IdleTypeIs DEF PickFires, Stamp
<1>5. picks' \in [Catalog -> 0..PickLimit]
  <2>1. \A t \in Catalog : picks[t] \in 0..PickLimit
    BY <1>3, IdleTypeIs
  <2> QED BY <2>1, Times DEF PickFires, PickStreak
<1>6. m3Fires' \in Seq(FireAges) /\ Len(m3Fires') = Len(m3Fires) + 1
  BY <1>2, <1>3, AppendedFire, IdleTypeIs DEF PickFires
<1>7. Len(m3Fires') <= M3PerHour
  <2>1. Len(m3Fires) < M3PerHour /\ Len(m3Fires) \in Nat
    BY <1>1, <1>3, IdleTypeIs DEF IdleInv, CapOK
  <2> QED BY <1>6, <2>1, Times
<1>8. IdleType'
  BY <1>2, <1>3, <1>4, <1>5, <1>6 DEF PickFires, IdleType, Rolls
<1>9. WhatOK' /\ CapOK'
  BY <1>1, <1>2, <1>7, RestingIs DEF WhatOK, CapOK
<1> QED BY <1>2, <1>8, <1>9 DEF IdleInv

\* A drawn rule that fires is stamped with the beginning of its roll.
LEMMA RuleFiresStep ==
    ASSUME IdleInv, RuleFires PROVE IdleInv'
<1>1. /\ auto.at = "rule" /\ auto.what \in Rules /\ ToolOf[auto.what] \in Tools
      /\ auto' = Resting
  BY ToolsAssumption DEF IdleInv, WhatOK, RuleFires
<1>2. /\ auto.age \in FireAges /\ auto' \in Rolls
      /\ fires' \in Seq(FireAges) /\ began' \in Seq(FireAges)
      /\ hold' \in 0..GlobalCooldown
      /\ Matched(began', fires') /\ Cardinality(Young(began')) <= MaxPerHour
      /\ HoldOK'
  BY <1>1, FireStep DEF RuleFires, Stamp
<1>3. IdleType
  BY DEF IdleInv
<1>4. /\ byTool' \in [Tools -> FireAges] /\ byRule' \in [Rules -> FireAges]
      /\ lastAny' \in FireAges /\ cached' \subseteq Evergreen
  BY <1>1, <1>2, <1>3, IdleTypeIs DEF RuleFires, Stamp
<1>5. IdleType'
  BY <1>2, <1>3, <1>4 DEF RuleFires, IdleType, Rolls
<1>6. WhatOK' /\ CapOK'
  <2>1. m3Fires' = m3Fires /\ Len(m3Fires) <= M3PerHour
    BY DEF RuleFires, IdleInv, CapOK
  <2> QED BY <1>1, <1>2, <2>1, RestingIs DEF WhatOK, CapOK
<1> QED BY <1>2, <1>5, <1>6 DEF IdleInv

\* A forced fire adds a stamp, and none to what the loop began.
LEMMA ForceFiresStep ==
    ASSUME IdleInv, NEW r \in Rules, ForceFires(r) PROVE IdleInv'
<1>1. IdleType /\ ToolOf[r] \in Tools
  BY ToolsAssumption DEF IdleInv
<1>2. /\ fires \in Seq(FireAges) /\ began \in Seq(FireAges) /\ 0 \in FireAges
      /\ hold \in 0..GlobalCooldown /\ auto \in Rolls
  BY <1>1, Times, IdleTypeIs DEF FireAges
<1>3. fires' = Append(fires, 0) /\ began' = began /\ m3Fires' = m3Fires /\ auto' = auto
      /\ lastAny' = 0 /\ hold' = IF auto.at = "none" THEN GlobalCooldown ELSE hold
  BY DEF ForceFires, Stamp
<1>4. fires' \in Seq(FireAges) /\ Matched(began', fires')
  BY <1>2, <1>3, AppendedFire, MatchedForced DEF IdleInv, CapOK
<1>5. /\ byTool' \in [Tools -> FireAges] /\ byRule' \in [Rules -> FireAges]
      /\ cached' \subseteq Evergreen /\ forced' \subseteq Rules
  BY <1>1, <1>2, IdleTypeIs DEF ForceFires, Stamp
<1>6. hold' \in 0..GlobalCooldown
  BY <1>2, <1>3, Times
<1>7. IdleType'
  BY <1>1, <1>2, <1>3, <1>4, <1>5, <1>6 DEF ForceFires, IdleType, Rolls
<1>8. WhatOK' /\ CapOK'
  BY <1>3, <1>4 DEF IdleInv, WhatOK, CapOK
<1>9. HoldOK'
  <2>1. CASE auto.at = "none"
    BY <2>1, <1>3, Times DEF HoldOK
  <2>2. CASE auto.at # "none"
    <3>1. hold' = hold /\ lastAny' = 0 /\ auto' = auto
      BY <2>2, <1>3
    <3>2. hold > 0 => hold + auto.age <= GlobalCooldown
      BY <2>2 DEF IdleInv, HoldOK
    <3>3. 0 + hold <= GlobalCooldown
      BY <1>2, Times
    <3> QED BY <3>1, <3>2, <3>3 DEF HoldOK
  <2> QED BY <2>1, <2>2
<1> QED BY <1>7, <1>8, <1>9 DEF IdleInv

\* The steps that touch neither the roll nor the tracker.
LEMMA BesideStep ==
    ASSUME IdleInv, UNCHANGED <<auto, tracker, history>>,
           eligible' \in BOOLEAN, forced' \subseteq Rules, cached' \subseteq Evergreen
    PROVE  IdleInv'
<1>1. IdleType'
  BY IdleTypeIs DEF IdleInv, IdleType, Rolls, tracker, history
<1>2. began' = began /\ fires' = fires /\ m3Fires' = m3Fires
      /\ hold' = hold /\ lastAny' = lastAny /\ auto' = auto
  BY DEF tracker, history
<1>3. WhatOK' /\ CapOK' /\ HoldOK'
  BY <1>2 DEF IdleInv, WhatOK, CapOK, HoldOK
<1> QED BY <1>1, <1>3 DEF IdleInv

\* A unit of time ages a stamp by one, up to the horizon.
LEMMA OlderIs ==
    ASSUME NEW age \in FireAges
    PROVE  Older(age) \in FireAges /\ Older(age) >= age /\ Older(age) <= age + 1
BY Times DEF Older, FireAges

\* Time passing ages the fires and their stamps alike.
LEMMA IdlePassStep ==
    ASSUME IdleInv, IdlePass PROVE IdleInv'
<1>1. IdleType
  BY DEF IdleInv
<1>2. /\ fires \in Seq(FireAges) /\ m3Fires \in Seq(FireAges) /\ began \in Seq(FireAges)
      /\ auto \in Rolls /\ hold \in 0..GlobalCooldown /\ lastAny \in FireAges
  BY <1>1, IdleTypeIs
<1>3. fires' = AgedFires(fires) /\ m3Fires' = AgedFires(m3Fires)
      /\ began' = Lately(AgedFires(began)) /\ lastAny' = Older(lastAny)
      /\ hold' = IF hold > 0 THEN hold - 1 ELSE 0
  BY DEF IdlePass
<1>4. /\ AgedFires(began) \in Seq(FireAges)
      /\ fires' \in Seq(FireAges) /\ m3Fires' \in Seq(FireAges) /\ Len(m3Fires') = Len(m3Fires)
  BY <1>2, <1>3, AgedFiresAre
<1>5. began' \in Seq(FireAges)
  BY <1>3, <1>4, LatelyIs
<1>6. auto' \in Rolls /\ auto'.at = auto.at /\ auto'.what = auto.what
      /\ (auto.at # "none" => auto'.age = auto.age + 1)
  <2>1. CASE auto.at = "none"
    BY <2>1, <1>2 DEF IdlePass
  <2>2. CASE auto.at # "none"
    <3>1. auto' = [auto EXCEPT !.age = auto.age + 1] /\ auto.age < CallTime
      BY <2>2 DEF IdlePass
    <3>2. auto.age \in 0..CallTime /\ auto.age + 1 \in 0..CallTime
      BY <3>1, <1>2, Times DEF Rolls
    <3> QED BY <3>1, <3>2, <1>2 DEF Rolls
  <2> QED BY <2>1, <2>2
<1>7. /\ byRule' \in [Rules -> FireAges] /\ byTool' \in [Tools -> FireAges]
      /\ lastAny' \in FireAges /\ m3Last' \in FireAges
  BY <1>1, OlderIs, IdleTypeIs DEF IdlePass
<1>8. hold' \in 0..GlobalCooldown
  BY <1>2, <1>3, Times
<1>9. IdleType'
  BY <1>1, <1>4, <1>5, <1>6, <1>7, <1>8 DEF IdlePass, IdleType, Rolls
<1>10. WhatOK'
  BY <1>6 DEF IdleInv, WhatOK
<1>11. CapOK'
  <2>1. Matched(began', fires')
    BY <1>2, <1>3, <1>4, MatchedAged, MatchedLately DEF IdleInv, CapOK
  <2>2. Cardinality(Young(AgedFires(began))) <= Cardinality(Young(began))
        /\ Cardinality(Young(began')) <= Cardinality(Young(AgedFires(began)))
    BY <1>2, <1>3, <1>4, YoungCount
  <2>3. Cardinality(Young(began')) \in Nat /\ Cardinality(Young(began)) \in Nat
        /\ Cardinality(Young(AgedFires(began))) \in Nat
    BY <1>2, <1>4, <1>5, YoungIs
  <2>4. /\ Cardinality(Young(began)) <= MaxPerHour
        /\ auto.at # "none" => Cardinality(Young(began)) < MaxPerHour
        /\ Len(m3Fires) <= M3PerHour
        /\ auto.at \in {"picking", "tool"} => Len(m3Fires) < M3PerHour
    BY DEF IdleInv, CapOK
  <2>5. /\ Cardinality(Young(began')) <= MaxPerHour
        /\ auto.at # "none" => Cardinality(Young(began')) < MaxPerHour
    BY <2>2, <2>3, <2>4, Times
  <2> QED BY <1>4, <1>6, <2>1, <2>4, <2>5 DEF CapOK
<1>12. HoldOK'
  <2>1. CASE hold > 0
    <3>1. lastAny + hold <= GlobalCooldown
          /\ (auto.at # "none" => hold + auto.age <= GlobalCooldown)
      BY <2>1 DEF IdleInv, HoldOK
    <3>2. hold' = hold - 1 /\ lastAny' <= lastAny + 1 /\ lastAny' \in Nat /\ lastAny \in Nat
      BY <2>1, <1>2, <1>3, <1>7, OlderIs, Times DEF FireAges
    <3>3. lastAny' + hold' <= GlobalCooldown
      <4>1. hold \in Nat /\ hold' = hold - 1
        BY <1>2, <3>2, Times
      <4>2. lastAny' + (hold - 1) <= GlobalCooldown
        <5> DEFINE now == lastAny'
        <5>1. now <= lastAny + 1 /\ now \in Nat /\ lastAny \in Nat
          BY <3>2
        <5>2. lastAny + hold <= GlobalCooldown /\ GlobalCooldown \in Nat
          BY <3>1, Times
        <5> HIDE DEF now
        <5>3. now + (hold - 1) <= GlobalCooldown
          BY <5>1, <5>2, <4>1
        <5> QED BY <5>3 DEF now
      <4> QED BY <4>1, <4>2
    <3>4. auto.at # "none" => hold' + auto'.age <= GlobalCooldown
      <4>1. auto.age \in Nat
        BY <1>2, Times DEF Rolls
      <4> QED BY <1>2, <1>6, <3>1, <3>2, <4>1, Times
    <3> QED BY <1>6, <3>3, <3>4 DEF HoldOK
  <2>2. CASE ~(hold > 0)
    BY <2>2, <1>3 DEF HoldOK
  <2> QED BY <2>1, <2>2
<1> QED BY <1>9, <1>10, <1>11, <1>12 DEF IdleInv

\* Every step of the tracker and of its rolls keeps the invariant.
LEMMA IdleInvStep == IdleInv /\ [IdleNext]_idleVars => IdleInv'
<1> SUFFICES ASSUME IdleInv, [IdleNext]_idleVars PROVE IdleInv'
  OBVIOUS
<1>1. CASE Roll
  BY <1>1, AskModelStep, DrawStep DEF Roll, DrawRule
<1>2. CASE RollAnswer
  <2>1. CASE Declined \/ PickFails \/ RuleFails
    BY <2>1, GiveUpStep, DrawStep DEF Declined, PickFails, RuleFails
  <2> QED BY <1>2, <2>1, PickedStep, PickFiresStep, RuleFiresStep DEF RollAnswer
<1>3. ASSUME NEW r \in Rules, ForceRule(r) \/ ForceFires(r) \/ ForceFails(r) PROVE IdleInv'
  <2>1. CASE ForceRule(r) \/ ForceFails(r)
    <3>1. /\ UNCHANGED <<auto, tracker, history>>
          /\ eligible' = eligible /\ cached' = cached /\ forced' \subseteq forced \cup {r}
      BY <2>1 DEF ForceRule, ForceFails
    <3>2. eligible' \in BOOLEAN /\ forced' \subseteq Rules /\ cached' \subseteq Evergreen
      BY <3>1, IdleTypeIs DEF IdleInv
    <3> QED BY <3>1, <3>2, BesideStep
  <2> QED BY <1>3, <2>1, ForceFiresStep
<1>4. CASE EligibleChanges \/ (\E t \in Tools : Warm(t)) \/ UNCHANGED idleVars
  <2>1. /\ UNCHANGED <<auto, tracker, history>>
        /\ forced' = forced /\ cached' \subseteq cached \cup Evergreen
    BY <1>4 DEF EligibleChanges, Warm, idleVars
  <2>2. eligible' \in BOOLEAN
    BY <1>4, IdleTypeIs DEF EligibleChanges, Warm, idleVars, IdleInv
  <2>3. forced' \subseteq Rules /\ cached' \subseteq Evergreen
    BY <2>1, IdleTypeIs DEF IdleInv
  <2> QED BY <2>1, <2>2, <2>3, BesideStep
<1> QED BY <1>1, <1>2, <1>3, <1>4, IdlePassStep DEF IdleNext

\* So the invariant holds for ever.
LEMMA IdleInvariant == IdleSpec => []IdleInv
BY IdleInvInit, IdleInvStep, PTL DEF IdleSpec

\* The loop begins no more fires in an hour than its cap, and the model no more
\* than its own, for every cap and cooldown and any number of forced rolls.
THEOREM CapsOKThm == IdleSpec => []CapsOK
<1>1. ASSUME IdleInv PROVE CapsOK
  <2>1. m3Fires \in Seq(FireAges) /\ Len(m3Fires) \in Nat
    BY <1>1, IdleTypeIs DEF IdleInv
  <2>2. Cardinality(Young(m3Fires)) <= Len(m3Fires) /\ Cardinality(Young(m3Fires)) \in Nat
    BY <2>1, YoungIs
  <2>3. Cardinality(Young(m3Fires)) <= M3PerHour
    BY <1>1, <2>1, <2>2, Times DEF IdleInv, CapOK
  <2> QED BY <1>1, <2>3 DEF IdleInv, CapOK, CapsOK, FiresAreCapped
<1> QED BY <1>1, IdleInvariant, PTL

\* Only a draw sets a rule under way, and the tracker then shows the cooldown
\* over, whichever stamp was written last.
LEMMA DrawIsSpaced ==
    ASSUME IdleInv, [IdleNext]_idleVars, auto.at # "rule", auto'.at = "rule"
    PROVE  hold = 0
<1>1. \E r \in Rules : Draw(r)
  <2>1. CASE Roll
    BY <2>1 DEF Roll, AskModel, DrawRule
  <2>2. CASE RollAnswer
    <3>1. ~GiveUp /\ ~PickFires /\ ~RuleFires
      BY RestingIs DEF GiveUp, PickFires, RuleFires
    <3>2. ASSUME NEW t \in Catalog, Picked(t) PROVE FALSE
      <4>1. auto \in Rolls
        BY IdleTypeIs DEF IdleInv
      <4> QED BY <3>2, <4>1 DEF Picked, Rolls
    <3> QED BY <2>2, <3>1, <3>2 DEF RollAnswer, Declined, PickFails, RuleFails
  <2>3. CASE IdlePass
    <3>1. auto \in Rolls
      BY IdleTypeIs DEF IdleInv
    <3> QED BY <2>3, <3>1 DEF IdlePass, Rolls
  <2>4. ASSUME auto' = auto PROVE FALSE
    BY <2>4
  <2>5. CASE \E r \in Rules : ForceRule(r) \/ ForceFires(r) \/ ForceFails(r)
    BY <2>5, <2>4 DEF ForceRule, ForceFires, ForceFails
  <2>6. CASE EligibleChanges \/ (\E t \in Tools : Warm(t)) \/ UNCHANGED idleVars
    BY <2>6, <2>4 DEF EligibleChanges, Warm, idleVars
  <2> QED BY <2>1, <2>2, <2>3, <2>5, <2>6 DEF IdleNext
<1> QED BY <1>1, DrawStep

\* No rule is drawn within the cooldown of a fire, for every cooldown and length
\* of a roll.
THEOREM DrawsAreSpacedThm == IdleSpec => DrawsAreSpaced
<1>1. IdleInv /\ [IdleNext]_idleVars =>
        [auto.at # "rule" /\ auto'.at = "rule" => hold = 0]_idleVars
  BY DrawIsSpaced
<1> QED BY <1>1, IdleInvariant, PTL DEF IdleSpec, DrawsAreSpaced

-----------------------------------------------------------------------------
(* The comment gate.                                                       *)

\* The constants one by one, as the steps below use them.
LEMMA Positive ==
    /\ Cooldown \in Nat \ {0} /\ MaxCooldown \in Nat \ {0} /\ FreeformGap \in Nat \ {0}
    /\ ForcedSilence \in Nat \ {0} /\ Burst \in Nat \ {0} /\ Streak \in Nat \ {0}
    /\ Window \in Nat \ {0} /\ WindowCap \in Nat \ {0} /\ QuipGap \in Nat \ {0}
    /\ MaxExtras \in Nat
    /\ Cooldown <= MaxCooldown
BY GateAssumption

USE Positive DEF gateVars, modelVars, userVars, historyVars, vars

-----------------------------------------------------------------------------
(* The invariant.                                                          *)

Ascending(ages) == \A i, j \in DOMAIN ages : i <= j => ages[i] <= ages[j]

\* Each line the gate let through is matched by a stamp no older.
Stamped(lines, ages) ==
    \A i \in DOMAIN lines : i \in DOMAIN ages /\ ages[i] <= lines[i]

\* A line is under way because the gate was asked and had room for it.
LetThrough == working \in Gated /\ ~waved

LinesInv ==
    /\ Ascending(stamps) /\ Ascending(gated)
    /\ \A i \in DOMAIN gated : gated[i] < Window
    /\ Stamped(gated, stamps)
    /\ Len(gated) <= WindowCap

RoomInv == LetThrough => Len(gated) < WindowCap

\* The silence that is owed is kept, and a line thrown away counts as the last
\* one until a later one does.
QuietInv ==
    /\ rejected = streak
    /\ hush <= silence
    /\ sinceLast <= sinceThrown

\* The type of what the gate and its history are made of, and of the rest.
GateType ==
    /\ sinceLast \in 0..LongAgo
    /\ consecutive \in 0..Burst
    /\ stamps \in Seq(0..Window) /\ Len(stamps) <= WindowCap
    /\ silence \in 0..ForcedSilence
    /\ streak \in 0..(Streak - 1)
    /\ gated \in Seq(0..Window)
    /\ rejected \in 0..(Streak - 1)
    /\ hush \in 0..ForcedSilence
    /\ sinceThrown \in 0..LongAgo

RestType ==
    /\ failures \in 0..4
    /\ toolsOn \in BOOLEAN
    /\ sinceQuip \in 0..QuipGap
    /\ paused \in BOOLEAN /\ conversing \in BOOLEAN
    /\ pending \subseteq Wedges
    /\ working \in Kinds \cup {"none"}
    /\ waved \in BOOLEAN
    /\ summary \in BOOLEAN
    /\ extras \in 0..MaxExtras
    /\ ToolsComeBack

GateInv == GateType /\ RestType /\ LinesInv /\ RoomInv /\ QuietInv

-----------------------------------------------------------------------------
(* Numbers and sequences of ages.                                          *)

\* The lesser and the greater of two numbers are among them.
LEMMA MinMax ==
    ASSUME NEW a \in Int, NEW b \in Int
    PROVE  /\ MinOf(a, b) \in {a, b} /\ MinOf(a, b) <= a /\ MinOf(a, b) <= b
           /\ MaxOf(a, b) \in {a, b} /\ MaxOf(a, b) >= a /\ MaxOf(a, b) >= b
BY DEF MinOf, MaxOf

\* No cooldown is longer than what is remembered of the last comment's age.
LEMMA LongAgoType == LongAgo \in Nat /\ LongAgo >= MaxCooldown
BY DEF LongAgo, MaxOf

\* What is counted modulo Streak starts again when Streak is reached.
LEMMA Count ==
    ASSUME NEW n \in 0..(Streak - 1)
    PROVE  (n + 1) % Streak = IF n + 1 >= Streak THEN 0 ELSE n + 1
<1>1. CASE n + 1 >= Streak
  <2>1. n + 1 = Streak
    BY <1>1
  <2>2. Streak % Streak = 0
    BY SMT
  <2> QED BY <2>1, <2>2
<1>2. CASE n + 1 < Streak
  BY <1>2, SMT
<1> QED BY <1>1, <1>2

\* An age is a number up to the window.
LEMMA Ages ==
    ASSUME NEW ages \in Seq(0..Window)
    PROVE  /\ Len(ages) \in Nat /\ DOMAIN ages = 1..Len(ages)
           /\ \A i \in DOMAIN ages : ages[i] \in 0..Window /\ ages[i] \in Int
OBVIOUS

\* Lines that are all matched by stamps are no more than the stamps.
LEMMA StampedLen ==
    ASSUME NEW lines \in Seq(0..Window), NEW ages \in Seq(0..Window), Stamped(lines, ages)
    PROVE  Len(lines) <= Len(ages)
<1>1. CASE Len(lines) = 0
  BY <1>1
<1>2. CASE Len(lines) > 0
  <2>1. Len(lines) \in DOMAIN lines
    BY <1>2
  <2> QED BY <2>1 DEF Stamped
<1> QED BY <1>1, <1>2

\* One more in front, as long as there is room.
LEMMA NewestIs ==
    ASSUME NEW ages \in Seq(0..Window), NEW n \in Nat \ {0}
    PROVE  /\ Newest(ages, n) \in Seq(0..Window)
           /\ Len(Newest(ages, n)) = MinOf(n, Len(ages) + 1)
           /\ \A i \in 1..MinOf(n, Len(ages) + 1) :
                Newest(ages, n)[i] = IF i = 1 THEN 0 ELSE ages[i - 1]
<1> DEFINE all == <<0>> \o ages
           m == MinOf(n, Len(ages) + 1)
<1>1. <<0>> \in Seq(0..Window) /\ Len(<<0>>) = 1 /\ <<0>>[1] = 0
  OBVIOUS
<1>2. /\ all \in Seq(0..Window) /\ Len(all) = Len(ages) + 1
      /\ \A i \in 1..(Len(ages) + 1) : all[i] = IF i = 1 THEN 0 ELSE ages[i - 1]
  BY <1>1, ConcatProperties
<1>3. Len(ages) \in Nat /\ m \in Nat /\ m <= Len(ages) + 1 /\ m >= 1
  BY DEF MinOf
<1> HIDE DEF all, m
<1>4. \A i \in 1..m : all[i] \in 0..Window
  BY <1>2, <1>3
<1>5. /\ SubSeq(all, 1, m) \in Seq(0..Window) /\ Len(SubSeq(all, 1, m)) = m
      /\ \A i \in 1..m : SubSeq(all, 1, m)[i] = all[i]
  <2>1. /\ SubSeq(all, 1, m) \in Seq(0..Window)
        /\ Len(SubSeq(all, 1, m)) = IF 1 <= m THEN m - 1 + 1 ELSE 0
        /\ \A i \in 1..(m - 1 + 1) : SubSeq(all, 1, m)[i] = all[1 + i - 1]
    BY <1>3, <1>4, SubSeqProperties
  <2> QED BY <2>1, <1>3
<1>6. Newest(ages, n) = SubSeq(all, 1, m)
  BY DEF Newest, all, m
<1>7. ASSUME NEW i \in 1..m
      PROVE  Newest(ages, n)[i] = IF i = 1 THEN 0 ELSE ages[i - 1]
  <2>1. i \in 1..(Len(ages) + 1)
    BY <1>3
  <2>2. Newest(ages, n)[i] = all[i]
    BY <1>5, <1>6
  <2> QED BY <2>1, <2>2, <1>2
<1>8. Newest(ages, n) \in Seq(0..Window) /\ Len(Newest(ages, n)) = m
  BY <1>5, <1>6
<1> QED BY <1>7, <1>8 DEF m

\* One unit older, all of them.
LEMMA AgedIs ==
    ASSUME NEW ages \in Seq(0..Window)
    PROVE  /\ Aged(ages) \in Seq(0..Window)
           /\ Len(Aged(ages)) = Len(ages)
           /\ \A i \in 1..Len(ages) : Aged(ages)[i] = MinOf(Window, ages[i] + 1)
<1>1. Aged(ages) = [i \in 1..Len(ages) |-> MinOf(Window, ages[i] + 1)]
  BY DEF Aged
<1>2. \A i \in 1..Len(ages) : MinOf(Window, ages[i] + 1) \in 0..Window
  BY DEF MinOf
<1> QED BY <1>1, <1>2

\* In ascending ages, those within the window are the first ones.
LEMMA RecentIs ==
    ASSUME NEW ages \in Seq(0..Window), Ascending(ages)
    PROVE  /\ Cardinality(Recent(ages)) \in 0..Len(ages)
           /\ Recent(ages) = 1..Cardinality(Recent(ages))
<1> DEFINE R == Recent(ages)
           n == Cardinality(R)
<1>0. /\ Len(ages) \in Nat /\ DOMAIN ages = 1..Len(ages)
      /\ \A i \in 1..Len(ages) : ages[i] \in 0..Window
  OBVIOUS
<1>1. R \subseteq 1..Len(ages) /\ \A i \in R : \A j \in 1..i : j \in R
  <2>1. ASSUME NEW i \in R, NEW j \in 1..i PROVE j \in R
    <3>1. i \in 1..Len(ages) /\ ages[i] < Window /\ j \in 1..Len(ages) /\ j <= i
      BY <1>0, <2>1 DEF Recent
    <3>2. ages[j] <= ages[i]
      BY <3>1, <1>0 DEF Ascending
    <3> QED BY <3>1, <3>2, <1>0 DEF Recent
  <2> QED BY <2>1, <1>0 DEF Recent
<1>2. IsFiniteSet(1..Len(ages)) /\ Cardinality(1..Len(ages)) = Len(ages)
  BY <1>0, UpTo, Zenon
<1>3. IsFiniteSet(R) /\ n \in Nat /\ n <= Len(ages)
  BY <1>1, <1>2, FS_Subset, FS_CardinalityType
<1> HIDE DEF R
<1>4. ASSUME NEW i \in R PROVE i \in 1..n
  <2>1. i \in Nat /\ i >= 1 /\ 1..i \in SUBSET R
    BY <1>1, <1>4
  <2>2. Cardinality(1..i) = i
    BY <2>1, UpTo
  <2>3. Cardinality(1..i) <= n
    BY <2>1, <1>3, FS_Subset
  <2> QED BY <2>1, <2>2, <2>3, <1>3
<1>5. IsFiniteSet(1..n) /\ Cardinality(1..n) = n
  <2> HIDE DEF n
  <2> QED BY <1>3, UpTo
<1>6. R = 1..n
  BY <1>4, <1>5, FS_Subset
<1> QED BY <1>3, <1>6 DEF R

\* What pruning keeps: all that is within the window, in its place.
LEMMA InWindowIs ==
    ASSUME NEW ages \in Seq(0..Window), Ascending(ages)
    PROVE  /\ InWindow(ages) \in Seq(0..Window)
           /\ Len(InWindow(ages)) <= Len(ages)
           /\ Ascending(InWindow(ages))
           /\ \A i \in DOMAIN InWindow(ages) :
                i \in DOMAIN ages /\ InWindow(ages)[i] = ages[i] /\ ages[i] < Window
           /\ \A i \in DOMAIN ages : ages[i] < Window => i \in DOMAIN InWindow(ages)
<1> DEFINE n == Cardinality(Recent(ages))
<1>1. n \in 0..Len(ages) /\ Recent(ages) = 1..n
  BY RecentIs
<1> HIDE DEF n
<1>2. \A i \in 1..n : ages[i] \in 0..Window
  BY <1>1
<1>3. /\ SubSeq(ages, 1, n) \in Seq(0..Window)
      /\ Len(SubSeq(ages, 1, n)) = n
      /\ \A i \in 1..n : SubSeq(ages, 1, n)[i] = ages[i]
  <2>1. /\ SubSeq(ages, 1, n) \in Seq(0..Window)
        /\ Len(SubSeq(ages, 1, n)) = IF 1 <= n THEN n - 1 + 1 ELSE 0
        /\ \A i \in 1..(n - 1 + 1) : SubSeq(ages, 1, n)[i] = ages[1 + i - 1]
    BY <1>1, <1>2, SubSeqProperties
  <2> QED BY <2>1, <1>1
<1>4. InWindow(ages) = SubSeq(ages, 1, n)
  BY DEF InWindow, n
<1>5. DOMAIN InWindow(ages) = 1..n /\ Len(InWindow(ages)) = n
  BY <1>3, <1>4
<1>6. \A i \in DOMAIN ages : ages[i] < Window <=> i \in 1..n
  BY <1>1 DEF Recent
<1>7. Ascending(InWindow(ages))
  <2> SUFFICES ASSUME NEW i \in 1..n, NEW j \in 1..n, i <= j
               PROVE  InWindow(ages)[i] <= InWindow(ages)[j]
    BY <1>5 DEF Ascending
  <2>1. i \in DOMAIN ages /\ j \in DOMAIN ages
    BY <1>1
  <2> QED BY <2>1, <1>3, <1>4 DEF Ascending
<1>8. \A i \in 1..n : i \in DOMAIN ages
  BY <1>1
<1>9. InWindow(ages) \in Seq(0..Window) /\ n <= Len(ages)
  BY <1>1, <1>3, <1>4
<1>10. \A i \in 1..n : InWindow(ages)[i] = ages[i]
  BY <1>3, <1>4
<1> QED BY <1>5, <1>6, <1>7, <1>8, <1>9, <1>10

-----------------------------------------------------------------------------
(* What the invariant says, and that it holds at the start.                *)

\* The invariant implies the properties.
LEMMA GateInvImplies == GateInv => GateOK /\ GatedWithinWindow
<1> SUFFICES ASSUME GateInv PROVE GateOK /\ GatedWithinWindow
  OBVIOUS
<1>1. gated \in Seq(0..Window) /\ Ascending(gated) /\ Len(gated) <= WindowCap
  BY DEF GateInv, GateType, LinesInv
<1>2. GateOK
  BY <1>1 DEF GateInv, GateType, RestType, GateOK, TypeOK
<1>3. Len(InWindow(gated)) <= Len(gated) /\ InWindow(gated) \in Seq(0..Window)
  BY <1>1, InWindowIs
<1> QED BY <1>1, <1>2, <1>3 DEF GatedWithinWindow

\* The invariant holds before the first tick.
LEMMA GateInvInit == Init => GateInv
<1> SUFFICES ASSUME Init PROVE GateInv
  OBVIOUS
<1>1. GateType
  BY LongAgoType DEF Init, GateType, MaxOf
<1>2. RestType
  <2>1. failures \in 0..4 /\ sinceQuip \in 0..QuipGap /\ extras \in 0..MaxExtras
    BY DEF Init
  <2>2. /\ toolsOn \in BOOLEAN /\ paused \in BOOLEAN /\ conversing \in BOOLEAN
        /\ waved \in BOOLEAN /\ summary \in BOOLEAN /\ ToolsComeBack
    BY Zenon DEF Init, ToolsComeBack
  <2>3. pending \subseteq Wedges /\ working \in Kinds \cup {"none"}
    BY DEF Init
  <2> QED BY <2>1, <2>2, <2>3 DEF RestType
<1>3. LinesInv /\ RoomInv
  BY DEF Init, LinesInv, RoomInv, Ascending, Stamped
<1>4. QuietInv
  BY LongAgoType DEF Init, QuietInv
<1> QED BY <1>1, <1>2, <1>3, <1>4 DEF GateInv

-----------------------------------------------------------------------------
(* Lines and lines thrown away.                                            *)

\* One more line in front keeps both histories in step.
LEMMA EmitLines ==
    ASSUME GateType, LinesInv, NEW kind, NEW admitted \in BOOLEAN,
           admitted => Len(gated) < WindowCap, Emit(kind, admitted)
    PROVE  GateType' /\ LinesInv' /\ (~admitted => gated' = gated)
<1>1. stamps \in Seq(0..Window) /\ gated \in Seq(0..Window)
  BY DEF GateType
<1>2. /\ stamps' \in Seq(0..Window) /\ Len(stamps') = MinOf(WindowCap, Len(stamps) + 1)
      /\ \A i \in 1..Len(stamps') : stamps'[i] = IF i = 1 THEN 0 ELSE stamps[i - 1]
  <2>1. stamps' = Newest(stamps, WindowCap)
    BY DEF Emit
  <2>2. /\ Newest(stamps, WindowCap) \in Seq(0..Window)
        /\ Len(Newest(stamps, WindowCap)) = MinOf(WindowCap, Len(stamps) + 1)
        /\ \A i \in 1..MinOf(WindowCap, Len(stamps) + 1) :
             Newest(stamps, WindowCap)[i] = IF i = 1 THEN 0 ELSE stamps[i - 1]
    BY <1>1, NewestIs
  <2> QED BY <2>1, <2>2, Zenon
<1>3. /\ Len(stamps') <= WindowCap /\ Len(stamps') <= Len(stamps) + 1
      /\ Len(stamps') = WindowCap \/ Len(stamps') = Len(stamps) + 1
  BY <1>1, <1>2 DEF MinOf
<1>4. GateType'
  <2>1. gated' \in Seq(0..Window)
    <3>1. gated' \in {gated, Newest(gated, WindowCap + 1)}
      BY DEF Emit
    <3>2. Newest(gated, WindowCap + 1) \in Seq(0..Window)
      BY <1>1, NewestIs
    <3> QED BY <3>1, <3>2, <1>1
  <2> QED BY <1>2, <1>3, <2>1, LongAgoType DEF GateType, Emit, MinOf
<1>5. Ascending(stamps')
  <2> SUFFICES ASSUME NEW i \in 1..Len(stamps'), NEW j \in 1..Len(stamps'), i <= j
               PROVE  stamps'[i] <= stamps'[j]
    BY <1>2 DEF Ascending
  <2>1. CASE i = 1
    BY <2>1, <1>2
  <2>2. CASE i > 1
    <3>1. i - 1 \in DOMAIN stamps /\ j - 1 \in DOMAIN stamps /\ i - 1 <= j - 1
      <4>1. /\ Len(stamps) \in Nat /\ Len(stamps') \in Nat
            /\ Len(stamps') <= Len(stamps) + 1
        BY <1>1, <1>2, <1>3
      <4>2. i - 1 \in 1..Len(stamps) /\ j - 1 \in 1..Len(stamps) /\ i - 1 <= j - 1
        BY <2>2, <4>1
      <4> QED BY <4>2, <1>1
    <3>2. stamps[i - 1] <= stamps[j - 1]
      BY <3>1 DEF LinesInv, Ascending
    <3> QED BY <3>2, <2>2, <1>2
  <2> QED BY <2>1, <2>2
<1>6. CASE ~admitted
  <2>1. gated' = gated
    BY <1>6 DEF Emit
  <2>2. ASSUME NEW i \in DOMAIN gated PROVE i \in DOMAIN stamps' /\ stamps'[i] <= gated[i]
    <3>1. i \in DOMAIN stamps /\ stamps[i] <= gated[i] /\ i <= WindowCap
      BY <1>1, <2>2 DEF LinesInv, Stamped
    <3>2. i \in 1..Len(stamps')
      BY <3>1, <1>1, <1>2, <1>3
    <3>3. CASE i = 1
      BY <3>2, <3>3, <1>1, <1>2
    <3>4. CASE i > 1
      <4>1. i - 1 \in DOMAIN stamps /\ i - 1 <= i
        BY <3>1, <3>4, <1>1
      <4>2. stamps[i - 1] <= stamps[i]
        BY <4>1, <3>1 DEF LinesInv, Ascending
      <4>3. stamps[i - 1] \in Int /\ stamps[i] \in Int /\ gated[i] \in Int
        BY <4>1, <3>1, <2>2, <1>1
      <4> QED BY <4>2, <4>3, <3>1, <3>2, <3>4, <1>2
    <3> QED BY <3>2, <3>3, <3>4
  <2>3. Stamped(gated', stamps')
    BY <2>1, <2>2 DEF Stamped
  <2> QED BY <1>4, <1>5, <2>1, <2>3 DEF LinesInv
<1>7. CASE admitted
  <2>1. /\ Len(gated') = Len(gated) + 1 /\ gated' \in Seq(0..Window)
        /\ \A i \in 1..Len(gated') : gated'[i] = IF i = 1 THEN 0 ELSE gated[i - 1]
    <3>1. /\ Len(gated') = MinOf(WindowCap + 1, Len(gated) + 1)
          /\ gated' \in Seq(0..Window)
          /\ \A i \in 1..MinOf(WindowCap + 1, Len(gated) + 1) :
               gated'[i] = IF i = 1 THEN 0 ELSE gated[i - 1]
      <4>1. gated' = Newest(gated, WindowCap + 1)
        BY <1>7 DEF Emit
      <4>2. /\ Newest(gated, WindowCap + 1) \in Seq(0..Window)
            /\ Len(Newest(gated, WindowCap + 1)) = MinOf(WindowCap + 1, Len(gated) + 1)
            /\ \A i \in 1..MinOf(WindowCap + 1, Len(gated) + 1) :
                 Newest(gated, WindowCap + 1)[i] = IF i = 1 THEN 0 ELSE gated[i - 1]
        <5> DEFINE n == WindowCap + 1
        <5>1. n \in Nat \ {0}
          OBVIOUS
        <5> HIDE DEF n
        <5>2. /\ Newest(gated, n) \in Seq(0..Window)
              /\ Len(Newest(gated, n)) = MinOf(n, Len(gated) + 1)
              /\ \A i \in 1..MinOf(n, Len(gated) + 1) :
                   Newest(gated, n)[i] = IF i = 1 THEN 0 ELSE gated[i - 1]
          BY <5>1, <1>1, NewestIs
        <5> QED BY <5>2 DEF n
      <4> QED BY <4>1, <4>2, Zenon
    <3>2. MinOf(WindowCap + 1, Len(gated) + 1) = Len(gated) + 1
      BY <1>1, <1>7 DEF MinOf
    <3> QED BY <3>1, <3>2
  <2>2. Len(gated') <= WindowCap
    BY <1>1, <1>7, <2>1
  <2>3. ASSUME NEW i \in 1..Len(gated'), i > 1
        PROVE  /\ i - 1 \in DOMAIN gated /\ i - 1 \in DOMAIN stamps
               /\ stamps[i - 1] <= gated[i - 1] /\ gated[i - 1] < Window
               /\ gated'[i] = gated[i - 1]
    <3>1. i - 1 \in DOMAIN gated
      BY <1>1, <2>1, <2>3
    <3> QED BY <3>1, <2>1, <2>3 DEF LinesInv, Stamped
  <2>4. Ascending(gated')
    <3> SUFFICES ASSUME NEW i \in 1..Len(gated'), NEW j \in 1..Len(gated'), i <= j
                 PROVE  gated'[i] <= gated'[j]
      BY <2>1 DEF Ascending
    <3>1. CASE i = 1
      BY <3>1, <2>1
    <3>2. CASE i > 1
      <4>1. i - 1 \in DOMAIN gated /\ j - 1 \in DOMAIN gated /\ i - 1 <= j - 1
        BY <3>2, <2>3
      <4>2. gated[i - 1] <= gated[j - 1]
        BY <4>1 DEF LinesInv, Ascending
      <4> QED BY <4>2, <3>2, <2>3
    <3> QED BY <3>1, <3>2
  <2>5. \A i \in DOMAIN gated' : gated'[i] < Window
    <3> SUFFICES ASSUME NEW i \in 1..Len(gated') PROVE gated'[i] < Window
      BY <2>1
    <3> QED BY <2>1, <2>3
  <2>6. Stamped(gated', stamps')
    <3> SUFFICES ASSUME NEW i \in 1..Len(gated')
                 PROVE  i \in DOMAIN stamps' /\ stamps'[i] <= gated'[i]
      BY <2>1 DEF Stamped
    <3>1. CASE i = 1
      BY <3>1, <2>1, <1>1, <1>2, <1>3
    <3>2. CASE i > 1
      <4>1. i \in 1..Len(stamps')
        BY <3>2, <2>2, <2>3, <1>1, <1>2, <1>3
      <4> QED BY <4>1, <3>2, <2>3, <1>2
    <3> QED BY <3>1, <3>2
  <2> QED BY <1>4, <1>5, <1>7, <2>2, <2>4, <2>5, <2>6 DEF LinesInv
<1> QED BY <1>6, <1>7

\* A line shown does not cut short the silence that is owed.
LEMMA EmitQuiet ==
    ASSUME GateType, QuietInv, NEW kind, NEW admitted, Emit(kind, admitted)
    PROVE  QuietInv'
BY LongAgoType DEF GateType, QuietInv, Emit, MaxOf

\* The streak and the lines thrown away are counted alike, and silence is owed
\* when it is started.
LEMMA SuppressStep ==
    ASSUME GateType, LinesInv, QuietInv, Suppress
    PROVE  GateType' /\ LinesInv' /\ QuietInv' /\ gated' = gated
<1>1. rejected' = streak'
  BY Count DEF Suppress, GateType, QuietInv, Stuck
<1>2. streak' \in 0..(Streak - 1)
  BY DEF Suppress, GateType, Stuck
<1>3. GateType'
  BY <1>1, <1>2, LongAgoType DEF Suppress, GateType, OwedHush
<1>4. LinesInv' /\ gated' = gated
  BY DEF Suppress, LinesInv
<1>5. QuietInv'
  BY <1>1 DEF Suppress, GateType, QuietInv, Stuck, OwedHush
<1> QED BY <1>3, <1>4, <1>5

-----------------------------------------------------------------------------
(* Time.                                                                   *)

\* Growing old keeps the order.
LEMMA AgedAscends ==
    ASSUME NEW ages \in Seq(0..Window), Ascending(ages)
    PROVE  Ascending(Aged(ages))
<1>0. DOMAIN Aged(ages) = 1..Len(ages)
  BY DEF Aged
<1> SUFFICES ASSUME NEW i \in 1..Len(ages), NEW j \in 1..Len(ages), i <= j
             PROVE  Aged(ages)[i] <= Aged(ages)[j]
  BY <1>0 DEF Ascending
<1>1. ages[i] <= ages[j] /\ ages[i] \in 0..Window /\ ages[j] \in 0..Window
  BY DEF Ascending
<1>2. Aged(ages)[i] = MinOf(Window, ages[i] + 1) /\ Aged(ages)[j] = MinOf(Window, ages[j] + 1)
  BY AgedIs
<1> QED BY <1>1, <1>2 DEF MinOf

\* All grow old alike.
LEMMA PassLines ==
    ASSUME GateType, LinesInv, Pass
    PROVE  GateType' /\ LinesInv' /\ Len(gated') <= Len(gated)
<1>1. /\ stamps \in Seq(0..Window) /\ gated \in Seq(0..Window)
      /\ Ascending(stamps) /\ Ascending(gated)
  BY DEF GateType, LinesInv
<1>2. /\ stamps' \in Seq(0..Window) /\ Len(stamps') = Len(stamps)
      /\ \A i \in 1..Len(stamps) : stamps'[i] = MinOf(Window, stamps[i] + 1)
      /\ Ascending(stamps')
  <2>1. stamps' = Aged(stamps)
    BY DEF Pass
  <2> QED BY <1>1, <2>1, AgedIs, AgedAscends
<1>3. PICK older \in Seq(0..Window) :
        /\ older = Aged(gated) /\ Len(older) = Len(gated) /\ Ascending(older)
        /\ \A i \in 1..Len(gated) : older[i] = MinOf(Window, gated[i] + 1)
  BY <1>1, AgedIs, AgedAscends
<1>4. /\ gated' \in Seq(0..Window) /\ Len(gated') <= Len(older) /\ Ascending(gated')
      /\ \A i \in DOMAIN gated' :
            i \in DOMAIN older /\ gated'[i] = older[i] /\ older[i] < Window
  <2>1. gated' = InWindow(older)
    BY <1>3 DEF Pass
  <2> QED BY <1>3, <2>1, InWindowIs
<1>5. ASSUME NEW i \in DOMAIN gated'
      PROVE  i \in DOMAIN stamps' /\ stamps'[i] <= gated'[i] /\ gated'[i] < Window
  <2>1. i \in DOMAIN gated /\ gated'[i] = MinOf(Window, gated[i] + 1) /\ gated'[i] < Window
    <3>1. i \in DOMAIN older /\ gated'[i] = older[i] /\ older[i] < Window
      BY <1>4, <1>5
    <3>2. i \in 1..Len(gated) /\ DOMAIN gated = 1..Len(gated)
      BY <3>1, <1>1, <1>3, Ages
    <3> QED BY <3>1, <3>2, <1>3
  <2>2. i \in DOMAIN stamps /\ stamps[i] <= gated[i]
    BY <2>1 DEF LinesInv, Stamped
  <2>3. stamps[i] \in 0..Window /\ gated[i] \in 0..Window
    BY <1>1, <2>1, <2>2
  <2>4. i \in DOMAIN stamps' /\ stamps'[i] = MinOf(Window, stamps[i] + 1)
    BY <1>1, <1>2, <2>2
  <2> QED BY <2>1, <2>2, <2>3, <2>4 DEF MinOf
<1>6. LinesInv'
  <2>1. Len(gated') <= WindowCap
    BY <1>1, <1>3, <1>4 DEF LinesInv
  <2>2. Stamped(gated', stamps')
    BY <1>5 DEF Stamped
  <2> QED BY <1>2, <1>4, <1>5, <2>1, <2>2 DEF LinesInv
<1>7. GateType'
  BY <1>2, <1>4, LongAgoType DEF GateType, Pass, MinOf, MaxOf
<1> QED BY <1>1, <1>3, <1>4, <1>6, <1>7

\* The silence owed and the silence kept run out together.
LEMMA PassQuiet ==
    ASSUME GateType, QuietInv, Pass
    PROVE  QuietInv'
BY LongAgoType DEF GateType, QuietInv, Pass, MinOf, MaxOf

-----------------------------------------------------------------------------
(* A tick.                                                                 *)

\* What is chosen is one of the proposals.
LEMMA FirstIs ==
    ASSUME NEW offered \in SUBSET Ambient, offered # {}
    PROVE  First(offered) \in offered
<1> DEFINE best(k) == \A other \in offered : Priority[k] >= Priority[other]
<1>1. /\ Priority["rage"] = 90 /\ Priority["git_nudge"] = 85 /\ Priority["drift"] = 50
      /\ Priority["freeform"] = 5 /\ Priority["observation"] = 0
  BY DEF Priority
<1>2. offered \subseteq {"rage", "git_nudge", "drift", "freeform", "observation"}
  BY DEF Ambient, Gated, Bypassing
<1>3. \E k \in offered : best(k)
  <2>1. CASE "rage" \in offered
    BY <2>1, <1>1, <1>2
  <2>2. CASE "rage" \notin offered /\ "git_nudge" \in offered
    BY <2>2, <1>1, <1>2
  <2>3. CASE offered \subseteq {"drift", "freeform", "observation"} /\ "drift" \in offered
    BY <2>3, <1>1
  <2>4. CASE offered \subseteq {"freeform", "observation"} /\ "freeform" \in offered
    BY <2>4, <1>1
  <2>5. CASE offered = {"observation"}
    BY <2>5, <1>1
  <2> QED BY <1>2, <2>1, <2>2, <2>3, <2>4, <2>5
<1> QED BY <1>3 DEF First

\* Asking the gate keeps the stamps in step with what it let through.
LEMMA GateStep ==
    ASSUME GateType, LinesInv, QuietInv, NEW c \in Cooldown..MaxCooldown,
           GateHeld(c) \/ GateBreathes(c) \/ GateCounts(c), UNCHANGED historyVars
    PROVE  GateType' /\ LinesInv' /\ QuietInv'
<1>1. CASE GateHeld(c)
  <2>1. UNCHANGED <<gateVars, historyVars>>
    BY <1>1 DEF GateHeld
  <2> QED BY <2>1 DEF GateType, LinesInv, QuietInv
<1>2. CASE GateBreathes(c)
  <2>1. LinesInv'
    BY <1>2 DEF GateBreathes, LinesInv
  <2> QED BY <1>2, <2>1 DEF GateBreathes, GateType, QuietInv
<1>3. CASE GateCounts(c)
  <2>1. /\ stamps' = InWindow(stamps) /\ gated' = gated
        /\ stamps \in Seq(0..Window) /\ Ascending(stamps)
    BY <1>3 DEF GateCounts, Pruned, GateType, LinesInv
  <2>2. /\ stamps' \in Seq(0..Window) /\ Len(stamps') <= Len(stamps) /\ Ascending(stamps')
        /\ \A i \in DOMAIN stamps' : i \in DOMAIN stamps /\ stamps'[i] = stamps[i]
        /\ \A i \in DOMAIN stamps : stamps[i] < Window => i \in DOMAIN stamps'
    BY <2>1, InWindowIs
  <2>3. ASSUME NEW i \in DOMAIN gated PROVE i \in DOMAIN stamps' /\ stamps'[i] <= gated[i]
    <3>1. i \in DOMAIN stamps /\ stamps[i] <= gated[i] /\ gated[i] < Window
      BY <2>3 DEF LinesInv, Stamped
    <3>2. stamps[i] \in Int /\ gated[i] \in Int
      <4>1. gated \in Seq(0..Window)
        BY DEF GateType
      <4> QED BY <4>1, <2>1, <2>3, <3>1, Ages
    <3> QED BY <2>2, <3>1, <3>2
  <2>4. LinesInv'
    BY <2>1, <2>2, <2>3 DEF LinesInv, Stamped
  <2>5. GateType'
    <3>1. consecutive' \in 0..Burst
      BY <1>3 DEF GateCounts, CurrentBurst, GateType
    <3>2. Len(stamps') <= WindowCap
      BY <2>1, <2>2 DEF GateType
    <3> QED BY <1>3, <2>2, <3>1, <3>2 DEF GateCounts, GateType
  <2>6. QuietInv'
    BY <1>3 DEF GateCounts, QuietInv
  <2> QED BY <2>4, <2>5, <2>6
<1> QED BY <1>1, <1>2, <1>3

\* With no silence left and the last line long enough ago, none is owed.
LEMMA TickChecks ==
    ASSUME GateType, QuietInv, NEW kind, silence = 0, sinceLast >= GapBefore(kind)
    PROVE  Rested(kind)
<1>1. GapBefore(kind) \in Nat
  BY DEF GapBefore
<1> QED BY <1>1, LongAgoType DEF GateType, QuietInv, Rested

\* A proposal that is not let past the gate needs the gate open, or is a thought
\* that is allowed.
LEMMA Offered ==
    ASSUME NEW open \in BOOLEAN, NEW muses \in BOOLEAN
    PROVE  /\ Proposals(open, muses) \subseteq Ambient
           /\ \A kind \in Proposals(open, muses) \cap Gated :
                 IF kind = "freeform" THEN MayMuse ELSE open
<1>1. pending \cap Bypassing \subseteq Ambient
  BY DEF Ambient
<1>2. (pending \cap Bypassing) \cap Gated = {}
  BY DEF Bypassing, Gated
<1> QED BY <1>1, <1>2, Zenon DEF Proposals, Ambient, Gated

\* Whatever the gate lets through, it lets through with room in the window,
\* when the model has had its rest.
LEMMA LetThroughIs ==
    ASSUME GateType, LinesInv, QuietInv, working = "none",
           NEW c \in Cooldown..MaxCooldown,
           NEW interesting \in BOOLEAN, NEW muses \in BOOLEAN,
           Asked(c, interesting, muses), UNCHANGED historyVars,
           working' \in Gated
    PROVE  Len(gated) < WindowCap /\ Rested(working')
<1>0. working' # working
  BY DEF Gated
<1>1. ASSUME NEW offered, offered \subseteq Ambient, offered # {}, SetAbout(First(offered), FALSE)
      PROVE  working' \in offered
  <2>1. working' = First(offered)
    BY <1>0, <1>1 DEF SetAbout, Call, Blocked
  <2> QED BY <1>1, <2>1, FirstIs
<1>2. CASE /\ GateHeld(c) \/ GateBreathes(c)
           /\ LET offered == Proposals(FALSE, muses)
              IN  IF offered = {} THEN Idles ELSE SetAbout(First(offered), FALSE)
  <2>1. working' \in Proposals(FALSE, muses)
    BY <1>0, <1>1, <1>2, Offered DEF Idles
  <2>2. working' = "freeform" /\ MayMuse
    BY <2>1, Offered
  <2>3. silence = 0 /\ Len(stamps) < WindowCap
    BY <1>2, <2>2 DEF MayMuse, RoomInWindow, GateHeld, GateBreathes
  <2>4. sinceLast >= GapBefore(working')
    BY <2>2 DEF MayMuse, GapBefore
  <2>5. Len(gated) <= Len(stamps)
    BY StampedLen DEF GateType, LinesInv
  <2>6. Rested(working')
    BY <2>3, <2>4, TickChecks
  <2>7. Len(gated) \in Nat /\ Len(stamps) \in Nat
    BY Ages DEF GateType
  <2> QED BY <2>3, <2>5, <2>6, <2>7
<1>3. CASE /\ GateCounts(c)
           /\ LET offered == Proposals(RoomInWindow /\ interesting, muses)
              IN  IF offered = {} THEN Idles ELSE SetAbout(First(offered), FALSE)
  <2>0. (RoomInWindow /\ interesting) \in BOOLEAN
    BY Zenon
  <2>1. working' \in Proposals(RoomInWindow /\ interesting, muses)
    <3> DEFINE open == RoomInWindow /\ interesting
    <3>1. Proposals(open, muses) \subseteq Ambient
      BY <2>0, Offered
    <3> QED BY <1>0, <1>1, <1>3, <3>1 DEF Idles
  <2>2. IF working' = "freeform" THEN MayMuse ELSE RoomInWindow /\ interesting
    BY <2>0, <2>1, Offered
  <2>3. Len(stamps') < WindowCap
    BY <2>2, Zenon DEF MayMuse, RoomInWindow
  <2>4. silence = 0 /\ sinceLast >= GapBefore(working')
    <3>1. silence = 0 /\ sinceLast >= c
      BY <1>3, LongAgoType DEF GateCounts, Held, GateType
    <3>2. CASE working' = "freeform"
      BY <2>2, <3>1, <3>2 DEF MayMuse, GapBefore
    <3>3. CASE working' # "freeform"
      BY <3>1, <3>3, LongAgoType DEF GapBefore, GateType
    <3> QED BY <3>2, <3>3
  <2>5. Len(gated) <= Len(stamps')
    <3>1. GateType' /\ LinesInv' /\ gated' = gated
      BY <1>3, GateStep
    <3>2. gated \in Seq(0..Window) /\ stamps' \in Seq(0..Window) /\ Stamped(gated, stamps')
      BY <3>1 DEF GateType, LinesInv
    <3> QED BY <3>2, StampedLen
  <2> QED BY <2>3, <2>4, <2>5, TickChecks DEF GateType
<1> QED BY <1>2, <1>3 DEF Asked

\* What a tick sets about is a kind of line, or nothing.
LEMMA SetAboutIs ==
    ASSUME RestType, working = "none", NEW offered, offered \subseteq Ambient,
           offered # {}, NEW urgent \in BOOLEAN, SetAbout(First(offered), urgent)
    PROVE  /\ UNCHANGED historyVars
           /\ pending' \subseteq Wedges
           /\ working' \in Kinds \cup {"none"} /\ waved' \in BOOLEAN
           /\ working' \in Gated => waved' = urgent
<1>1. First(offered) \in Ambient
  BY FirstIs
<1>2. CASE Call(First(offered), urgent)
  BY <1>1, <1>2 DEF Call, RestType, Kinds
<1>3. CASE Blocked(First(offered))
  BY <1>3 DEF Blocked, RestType, Gated
<1> QED BY <1>2, <1>3 DEF SetAbout

\* Every tick is an urgent one or one that asks the gate.
LEMMA TickStep ==
    ASSUME GateInv, Tick
    PROVE  GateInv' /\ (working' \in Gated /\ ~waved' => Rested(working'))
<1>0. GateType /\ RestType /\ LinesInv /\ RoomInv /\ QuietInv /\ working = "none"
  BY DEF GateInv, Tick
<1>1. UNCHANGED <<modelVars, userVars, summary>>
  BY DEF Tick
<1>2. CASE Urgent
  <2>1. Proposals(TRUE, FALSE) \subseteq Ambient /\ Proposals(TRUE, FALSE) # {}
    BY Offered DEF Proposals
  <2>2. /\ UNCHANGED historyVars /\ pending' \subseteq Wedges
        /\ working' \in Kinds \cup {"none"} /\ waved' \in BOOLEAN
        /\ working' \in Gated => waved' = TRUE
    BY <1>0, <1>2, <2>1, SetAboutIs DEF Urgent
  <2>3. UNCHANGED <<gateVars, historyVars>>
    BY <1>2, <2>2 DEF Urgent
  <2>4. GateType' /\ LinesInv' /\ QuietInv'
    BY <1>0, <2>3 DEF GateType, LinesInv, QuietInv
  <2>5. extras' \in 0..MaxExtras
    BY <1>0, <1>2 DEF Urgent, Extra, RestType
  <2>6. RestType'
    BY <1>0, <1>1, <2>2, <2>5 DEF RestType, ToolsComeBack
  <2>7. ~(working' \in Gated /\ ~waved')
    BY <2>2
  <2> QED BY <2>4, <2>6, <2>7 DEF GateInv, RoomInv, LetThrough
<1>3. CASE /\ \E c \in Cooldown..MaxCooldown, interesting, muses \in BOOLEAN :
                Asked(c, interesting, muses)
           /\ UNCHANGED extras
  <2>1. PICK c \in Cooldown..MaxCooldown, interesting \in BOOLEAN, muses \in BOOLEAN :
            Asked(c, interesting, muses)
    BY <1>3
  <2>2. PICK offered :
            /\ offered \subseteq Ambient
            /\ IF offered = {} THEN Idles ELSE SetAbout(First(offered), FALSE)
    <3>1. (RoomInWindow /\ interesting) \in BOOLEAN
      BY Zenon
    <3>2. /\ Proposals(FALSE, muses) \subseteq Ambient
          /\ Proposals(RoomInWindow /\ interesting, muses) \subseteq Ambient
      BY <3>1, Offered
    <3> QED BY <2>1, <3>2, Zenon DEF Asked
  <2>3. /\ UNCHANGED historyVars /\ pending' \subseteq Wedges
        /\ working' \in Kinds \cup {"none"} /\ waved' \in BOOLEAN
    <3>1. CASE offered = {}
      BY <1>0, <2>2, <3>1 DEF Idles, RestType
    <3>2. CASE offered # {}
      BY <1>0, <2>2, <3>2, SetAboutIs
    <3> QED BY <3>1, <3>2
  <2>4. GateHeld(c) \/ GateBreathes(c) \/ GateCounts(c)
    BY <2>1 DEF Asked
  <2>5. GateType' /\ LinesInv' /\ QuietInv'
    BY <1>0, <2>3, <2>4, GateStep
  <2>6. RestType'
    BY <1>0, <1>1, <1>3, <2>3 DEF RestType, ToolsComeBack
  <2>7. working' \in Gated => Len(gated) < WindowCap /\ Rested(working')
    BY <1>0, <2>1, <2>3, LetThroughIs
  <2>8. RoomInv'
    BY <2>3, <2>7 DEF RoomInv, LetThrough
  <2> QED BY <2>5, <2>6, <2>7, <2>8 DEF GateInv
<1> QED BY <1>2, <1>3 DEF Tick

-----------------------------------------------------------------------------
(* Every step.                                                             *)

\* A later moment of the last line only prolongs the rest.
LEMMA StampStep ==
    ASSUME GateType, QuietInv, sinceLast' \in {0, sinceLast},
           UNCHANGED <<consecutive, stamps, silence, streak, historyVars>>
    PROVE  QuietInv'
<1>1. sinceLast \in Nat /\ sinceThrown \in Nat /\ hush \in Nat
  BY LongAgoType DEF GateType
<1>2. /\ hush' = hush /\ silence' = silence /\ sinceThrown' = sinceThrown
      /\ rejected' = rejected /\ streak' = streak
  OBVIOUS
<1>3. CASE sinceLast' = sinceLast
  BY <1>2, <1>3 DEF QuietInv
<1>4. CASE sinceLast' = 0
  BY <1>1, <1>2, <1>4 DEF QuietInv
<1> QED BY <1>3, <1>4

\* Nothing under way needs room.
LEMMA AtRestIs == AtRest => RoomInv' /\ working' \in Kinds \cup {"none"} /\ waved' \in BOOLEAN
BY DEF AtRest, RoomInv, LetThrough, Gated

\* Nothing is started but by a tick, a roll of the dice or a line at rest.
LEMMA AnswerStep ==
    ASSUME GateInv, Answer
    PROVE  GateInv' /\ working' = "none"
<1>0. GateType /\ RestType /\ LinesInv /\ RoomInv /\ QuietInv
  BY DEF GateInv
<1>a. AtRest
  BY DEF Answer, Shown, EasterEgg, Rejected, Silent, WedgeRaises, ObservationRaises
<1>b. /\ RoomInv' /\ working' = "none"
      /\ working' \in Kinds \cup {"none"} /\ waved' \in BOOLEAN
  BY <1>a, AtRestIs DEF AtRest
<1>c. pending' \subseteq Wedges
  BY <1>0 DEF Answer, Shown, EasterEgg, Rejected, Silent, WedgeRaises, ObservationRaises,
              Resolve, RestType
<1>d. /\ paused' \in BOOLEAN /\ conversing' \in BOOLEAN /\ summary' \in BOOLEAN
      /\ extras' \in 0..MaxExtras
  BY <1>0 DEF Answer, Shown, EasterEgg, Rejected, Silent, WedgeRaises, ObservationRaises,
              RestType
<1>e. (UNCHANGED modelVars) => RestType'
  BY <1>0, <1>b, <1>c, <1>d DEF RestType, ToolsComeBack
<1>1. CASE Shown
  <2>1. (working \in Gated /\ ~waved) \in BOOLEAN
    BY Zenon
  <2>2. (working \in Gated /\ ~waved) => Len(gated) < WindowCap
    BY <1>0 DEF RoomInv, LetThrough
  <2>3. GateType' /\ LinesInv' /\ QuietInv'
    BY <1>0, <1>1, <2>1, <2>2, EmitLines, EmitQuiet DEF Shown
  <2>4. failures' \in 0..4 /\ toolsOn' \in BOOLEAN /\ ToolsComeBack' /\ sinceQuip' \in 0..QuipGap
    <3>1. CASE UNCHANGED <<failures, toolsOn>>
      BY <1>0, <1>1, <3>1 DEF Shown, RestType, ToolsComeBack
    <3>2. CASE Recover
      <4>1. toolsOn' = TRUE /\ failures' = 0
        <5>1. ~toolsOn => failures > 0
          BY <1>0 DEF RestType, ToolsComeBack
        <5>2. toolsOn' = (toolsOn \/ failures > 0) /\ failures' = 0 /\ toolsOn \in BOOLEAN
          BY <1>0, <3>2 DEF Recover, RestType
        <5> QED BY <5>1, <5>2, Zenon
      <4> QED BY <1>0, <1>1, <4>1 DEF Shown, RestType, ToolsComeBack
    <3> QED BY <1>1, <3>1, <3>2 DEF Shown
  <2>5. RestType'
    BY <1>b, <1>c, <1>d, <2>4 DEF RestType
  <2> QED BY <1>b, <2>3, <2>5 DEF GateInv
<1>2. CASE EasterEgg
  <2>1. (~waved) \in BOOLEAN /\ (~waved => Len(gated) < WindowCap)
    BY <1>0, <1>2 DEF EasterEgg, RoomInv, LetThrough, Gated
  <2>2. GateType' /\ LinesInv' /\ QuietInv'
    BY <1>0, <1>2, <2>1, EmitLines, EmitQuiet DEF EasterEgg
  <2> QED BY <1>2, <1>b, <1>e, <2>2 DEF EasterEgg, GateInv
<1>3. CASE Rejected
  <2>1. GateType' /\ LinesInv' /\ QuietInv'
    BY <1>0, <1>3, SuppressStep DEF Rejected
  <2> QED BY <1>3, <1>b, <1>e, <2>1 DEF Rejected, GateInv
<1>4. CASE Silent
  <2>1. GateType' /\ LinesInv' /\ QuietInv'
    BY <1>0, <1>4 DEF Silent, GateType, LinesInv, QuietInv
  <2> QED BY <1>4, <1>b, <1>e, <2>1 DEF Silent, GateInv
<1>5. CASE WedgeRaises
  <2>1. GateType' /\ LinesInv' /\ QuietInv'
    BY <1>0, <1>5 DEF WedgeRaises, GateType, LinesInv, QuietInv
  <2> QED BY <1>5, <1>b, <1>e, <2>1 DEF WedgeRaises, GateInv
<1>6. CASE ObservationRaises
  <2>1. sinceLast' \in {0, sinceLast} /\ sinceQuip' \in {0, sinceQuip}
    BY <1>6 DEF ObservationRaises, Quip
  <2>2. UNCHANGED <<consecutive, stamps, silence, streak, historyVars>>
    BY <1>6 DEF ObservationRaises
  <2>3. GateType' /\ LinesInv'
    BY <1>0, <2>1, <2>2, LongAgoType DEF GateType, LinesInv
  <2>4. QuietInv'
    BY <1>0, <2>1, <2>2, StampStep
  <2>5. failures' = MinOf(4, failures + 1) /\ toolsOn' = (toolsOn /\ failures # 2)
    BY <1>6 DEF ObservationRaises
  <2>6. failures' \in 0..4 /\ (failures >= 2 => failures' >= 3)
    BY <1>0, <2>5 DEF MinOf, RestType
  <2>7. toolsOn' \/ failures >= 2
    BY <1>0, <2>5 DEF RestType, ToolsComeBack
  <2>8. toolsOn' \in BOOLEAN
    BY <2>5, Zenon
  <2>9. RestType'
    BY <1>0, <1>b, <1>c, <1>d, <2>1, <2>6, <2>7, <2>8 DEF RestType, ToolsComeBack
  <2> QED BY <1>b, <2>3, <2>4, <2>9 DEF GateInv
<1> QED BY <1>1, <1>2, <1>3, <1>4, <1>5, <1>6 DEF Answer

\* What does not touch the gate's state, nor what is under way.
LEMMA Aside ==
    ASSUME GateInv, UNCHANGED <<gateVars, historyVars, working, waved>>, RestType'
    PROVE  GateInv'
BY DEF GateInv, GateType, LinesInv, RoomInv, LetThrough, QuietInv

\* Each action keeps the invariant, and only a tick starts a line.
LEMMA GateStepInv ==
    ASSUME GateInv, [Next]_vars
    PROVE  GateInv' /\ (working = "none" /\ working' \in Gated /\ ~waved' => Rested(working'))
<1>0. GateType /\ RestType /\ LinesInv /\ RoomInv /\ QuietInv
  BY DEF GateInv
<1>g. "none" \notin Gated /\ "idle" \notin Gated
  BY DEF Gated
<1>h. working = "none" /\ working' \in Gated => working' # working
  BY <1>g
<1>1. CASE Tick
  BY <1>1, TickStep
<1>2. CASE Answer
  BY <1>2, <1>g, AnswerStep
<1>3. ASSUME NEW wedge \in Wedges, Signal(wedge) \/ SignalEnds(wedge)
      PROVE  GateInv' /\ working' = working
  <2>1. /\ UNCHANGED <<gateVars, historyVars, working, waved, modelVars, userVars, summary>>
        /\ pending' \subseteq Wedges
    BY <1>0, <1>3 DEF Signal, SignalEnds, RestType
  <2>2. extras' \in 0..MaxExtras
    BY <1>0, <1>3 DEF Signal, SignalEnds, Extra, RestType
  <2>3. RestType'
    BY <1>0, <2>1, <2>2 DEF RestType, ToolsComeBack
  <2> QED BY <2>1, <2>3, Aside
<1>4. CASE Click
  <2>1. GateType' /\ LinesInv' /\ QuietInv' /\ gated' = gated
    BY <1>0, <1>4, EmitLines, EmitQuiet DEF Click
  <2>2. extras' \in 0..MaxExtras
    BY <1>0, <1>4 DEF Click, Extra, RestType
  <2>3. RestType'
    BY <1>0, <1>4, <2>2 DEF Click, RestType, ToolsComeBack
  <2>4. RoomInv' /\ working' = working
    BY <1>0, <1>4, <2>1 DEF Click, RoomInv, LetThrough
  <2> QED BY <1>h, <2>1, <2>3, <2>4 DEF GateInv
<1>5. CASE RollIdle
  <2>1. UNCHANGED <<gateVars, modelVars, userVars, pending, summary, historyVars>>
    BY <1>5 DEF RollIdle
  <2>2. working' = "idle" /\ waved' = FALSE
    BY <1>5 DEF RollIdle
  <2>3. extras' \in 0..MaxExtras
    BY <1>0, <1>5 DEF RollIdle, Extra, RestType
  <2>4. RestType'
    BY <1>0, <2>1, <2>2, <2>3 DEF RestType, ToolsComeBack, Kinds
  <2>5. GateType' /\ LinesInv' /\ QuietInv'
    BY <1>0, <2>1 DEF GateType, LinesInv, QuietInv
  <2> QED BY <1>g, <2>2, <2>4, <2>5 DEF GateInv, RoomInv, LetThrough
<1>6. CASE StartSummary
  <2>1. UNCHANGED <<gateVars, modelVars, userVars, pending, working, waved, historyVars>>
    BY <1>6 DEF StartSummary
  <2>2. summary' \in BOOLEAN /\ extras' \in 0..MaxExtras
    BY <1>0, <1>6 DEF StartSummary, Extra, RestType
  <2>3. RestType'
    BY <1>0, <2>1, <2>2 DEF RestType, ToolsComeBack
  <2> QED BY <1>h, <2>1, <2>3, Aside
<1>7. CASE EndSummary
  <2>1. UNCHANGED <<modelVars, userVars, pending, working, waved, extras>>
    BY <1>7 DEF EndSummary
  <2>2. RestType'
    <3>1. summary' = FALSE
      BY <1>7 DEF EndSummary
    <3> QED BY <1>0, <2>1, <3>1 DEF RestType, ToolsComeBack
  <2>3. CASE Emit("summary", FALSE)
    <3>1. GateType' /\ LinesInv' /\ QuietInv' /\ gated' = gated
      BY <1>0, <2>3, EmitLines, EmitQuiet
    <3>2. RoomInv'
      BY <1>0, <2>1, <3>1 DEF RoomInv, LetThrough
    <3> QED BY <1>h, <2>1, <2>2, <3>1, <3>2 DEF GateInv
  <2>4. CASE UNCHANGED <<gateVars, historyVars>>
    BY <1>h, <2>1, <2>2, <2>4, Aside
  <2> QED BY <1>7, <2>3, <2>4 DEF EndSummary
<1>8. CASE SetPaused \/ ConversationEnds
  <2>1. UNCHANGED <<gateVars, modelVars, pending, working, waved, summary, extras, historyVars>>
    BY <1>8 DEF SetPaused, ConversationEnds
  <2>2. paused' \in BOOLEAN /\ conversing' \in BOOLEAN
    BY <1>0, <1>8, Zenon DEF SetPaused, ConversationEnds, RestType
  <2>3. RestType'
    BY <1>0, <2>1, <2>2 DEF RestType, ToolsComeBack
  <2> QED BY <1>h, <2>1, <2>3, Aside
<1>9. CASE Converse
  <2>1. /\ UNCHANGED <<consecutive, stamps, silence, streak, modelVars, paused, pending,
                       working, waved, summary, extras, historyVars>>
        /\ conversing' = TRUE /\ sinceLast' = 0
    BY <1>9 DEF Converse
  <2>2. RestType'
    BY <1>0, <2>1 DEF RestType, ToolsComeBack
  <2>3. GateType' /\ LinesInv' /\ RoomInv'
    BY <1>0, <2>1, LongAgoType DEF GateType, LinesInv, RoomInv, LetThrough
  <2>4. QuietInv'
    BY <1>0, <2>1, StampStep
  <2> QED BY <1>h, <2>1, <2>2, <2>3, <2>4 DEF GateInv
<1>10. CASE Pass
  <2>1. GateType' /\ LinesInv' /\ QuietInv' /\ Len(gated') <= Len(gated)
    BY <1>0, <1>10, PassLines, PassQuiet
  <2>2. /\ UNCHANGED <<failures, toolsOn, userVars, pending, working, waved, summary, extras>>
        /\ sinceQuip' = MinOf(QuipGap, sinceQuip + 1)
    BY <1>10 DEF Pass
  <2>3. sinceQuip' \in 0..QuipGap
    BY <1>0, <2>2 DEF RestType, MinOf
  <2>4. RestType'
    BY <1>0, <2>2, <2>3 DEF RestType, ToolsComeBack
  <2>5. RoomInv'
    <3>1. Len(gated) \in Nat /\ Len(gated') \in Nat
      <4>1. gated \in Seq(0..Window) /\ gated' \in Seq(0..Window)
        BY <1>0, <2>1 DEF GateType
      <4> QED BY <4>1, Ages
    <3> QED BY <1>0, <2>1, <2>2, <3>1 DEF RoomInv, LetThrough
  <2> QED BY <1>h, <2>1, <2>2, <2>4, <2>5 DEF GateInv
<1>11. CASE UNCHANGED vars
  <2>1. RestType'
    BY <1>0, <1>11 DEF RestType, ToolsComeBack
  <2> QED BY <1>h, <1>11, <2>1, Aside
<1> QED
  BY <1>h, <1>1, <1>2, <1>3, <1>4, <1>5, <1>6, <1>7, <1>8, <1>9, <1>10, <1>11, Zenon
  DEF Next

-----------------------------------------------------------------------------
\* For every cooldown, window and cap: the types hold, and tools are withheld
\* from the model only while its failures are on record (_generate_comment).
THEOREM GateOKThm == Spec => []GateOK
BY GateInvInit, GateStepInv, GateInvImplies, PTL DEF Spec

\* For every window and cap, whatever goes round the gate: the lines the gate
\* let through never exceed the cap in a window (_should_comment, _emit_comment).
THEOREM GatedWithinWindowThm == Spec => []GatedWithinWindow
BY GateInvInit, GateStepInv, GateInvImplies, PTL DEF Spec

\* For every cooldown and every gap of a freeform thought, whichever is longer:
\* after a line is thrown away the gate calls the model for nothing until the
\* rest it is due has passed (_handle_suppressed_output, _should_comment,
\* _should_freeform).
THEOREM RejectionsAreSpacedThm == Spec => RejectionsAreSpaced
<1>1. GateInv /\ [Next]_vars =>
        [working = "none" /\ working' \in Gated /\ ~waved' => Rested(working')]_vars
  BY GateStepInv
<1> QED BY <1>1, GateInvInit, GateStepInv, PTL DEF Spec, RejectionsAreSpaced
=============================================================================
