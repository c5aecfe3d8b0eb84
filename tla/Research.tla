------------------------------ MODULE Research ------------------------------
(***************************************************************************)
(* /research, /refine and /followup: the runner's stages                   *)
(* (brain/research.py), the answers cached in memory.db, and the one       *)
(* follow-up slot that keeps the exchange of a cloud run                   *)
(* (brain/orchestrator.py, brain/research_followup.py, the two research    *)
(* tools in actions/research/research_action.py).                          *)
(*                                                                         *)
(* The commands run one at a time in the brain loop, and so does the reply *)
(* whose tool calls run a research of their own; but the follow-ups of one *)
(* batch of tool calls run together and share the slot.  A source is a     *)
(* pair <<number, url>>; answers are their citations.  What the chat gets  *)
(* of an answer is in Conversation.                                        *)
(*                                                                         *)
(* An operator named Slip... is a definition with a plausible mistake in   *)
(* it: the run of Research must notice when it takes the other's place.    *)
(***************************************************************************)
EXTENDS Integers, FiniteSets, SequencesExt

CONSTANTS
    Questions,
    Urls,
    WebPools,     \* the source lists a server-side web search reports
    MaxFetches,   \* max_fetches
    MaxNew,       \* refine_max_supplemental
    PoolCap,      \* refine_cache_max_sources
    MaxFollowups, \* followup_max_per_session
    Batch,        \* bound: how many follow-ups one batch of tool calls holds
    SlotTtl,      \* followup_ttl_s, in ticks
    RefineTtl,    \* the hour /refine looks back
    CacheTtl,     \* cache_ttl_s
    NoKey, NoSlot, NoRow

ASSUME CapsAssumption ==
    /\ {MaxFetches, PoolCap, MaxFollowups, Batch} \subseteq Nat \ {0}
    /\ MaxNew \in Nat
ASSUME TtlsAssumption ==
    /\ {SlotTtl, RefineTtl, CacheTtl} \subseteq Nat
    /\ RefineTtl <= CacheTtl
ASSUME WebPoolsAssumption == WebPools \subseteq Seq((Nat \ {0}) \X Urls)

VARIABLES
    stage, \* what the brain loop is awaiting
    run,   \* the run or refine under way
    llm,   \* the local backend's model: the chat's or [research]'s
    rows,  \* research_cache
    newest, \* the key of the row written last
    slot,  \* _active_followup_session
    calls  \* the follow-ups awaited: <<call, the turns it was sent>>

cacheVars == <<rows, newest>>
researchVars == <<stage, run, llm, cacheVars, slot, calls>>

\* The cache key keeps what the local pipeline and the server-side web search
\* found for a question apart.
Modes == {"local", "web"}
Keys == Questions \X Modes

Numbers(pool) == {pool[i][1] : i \in DOMAIN pool}
UrlsOf(pool) == {pool[i][2] : i \in DOMAIN pool}
NoRun == [key |-> NoKey, via |-> "slash", cloud |-> FALSE, pool |-> <<>>, new |-> <<>>]

Idle == stage = "idle"

\* The run's end: the finally block gives the chat's model back.
End ==
    /\ stage' = "idle"
    /\ run' = NoRun
    /\ llm' = "chat"

Fresh(key, ttl) == rows[key] # NoRow /\ rows[key].age <= ttl

-----------------------------------------------------------------------------
(* Starting a research.                                                    *)

\* The mode asked for, for the lookup, and the one the run gets once the cloud
\* backend is there or not.
RunMode(asked, cloud) == IF cloud THEN asked ELSE "local"

BeginRun(q, asked, cloud, via) ==
    LET mode == RunMode(asked, cloud) IN
    /\ Idle
    /\ stage' = IF mode = "web" THEN "web" ELSE "plan"
    /\ run' = [NoRun EXCEPT !.key = <<q, mode>>, !.via = via, !.cloud = cloud]
    /\ UNCHANGED <<cacheVars, slot, calls>>

\* /research. A fresh answer of the mode asked for is shown again from the
\* cache, and nothing else changes.
Ask(q, asked, cloud) ==
    /\ ~Fresh(<<q, asked>>, CacheTtl)
    /\ BeginRun(q, asked, cloud, "slash")
    /\ llm' \in {"chat", "research"}

\* The tool asks no cache and keeps the model.
AskByTool(q, asked, cloud) ==
    /\ BeginRun(q, asked, cloud, "tool")
    /\ UNCHANGED llm

-----------------------------------------------------------------------------
(* The runner's stages.                                                    *)

\* A crash, no queries, a spent budget, no sources, no cloud: the user is told.
Fail ==
    /\ stage \in {"plan", "search", "read", "synth", "web"}
    /\ End
    /\ UNCHANGED <<cacheVars, slot, calls>>

Planned ==
    /\ stage = "plan"
    /\ stage' = "search"
    /\ UNCHANGED <<run, llm, cacheVars, slot, calls>>

\* Searches that fail or time out add nothing; duplicate URLs are dropped.
HitLists(urls, most) ==
    UNION {{s \in [1..n -> urls] : IsInjective(s)} : n \in 1..most}

Found(hits) ==
    /\ stage = "search"
    /\ stage' = "read"
    /\ run' = [run EXCEPT !.pool = [i \in DOMAIN hits |-> <<i, hits[i]>>]]
    /\ UNCHANGED <<llm, cacheVars, slot, calls>>

\* Which pages of a pool were read: some of its places, in order.
Readings(pool) ==
    {picked \in UNION {[1..n -> DOMAIN pool] : n \in 1..Len(pool)} :
        \A i, j \in DOMAIN picked : i < j => picked[i] < picked[j]}

\* The pages read, in hit order, under the numbers of the hits: one that failed
\* leaves a gap.
ReadOf(pool, picked) == [i \in DOMAIN picked |-> pool[picked[i]]]

Read(picked) ==
    /\ stage = "read"
    /\ picked \in Readings(run.pool)
    /\ stage' = "synth"
    /\ run' = [run EXCEPT !.pool = ReadOf(@, picked)]
    /\ UNCHANGED <<llm, cacheVars, slot, calls>>

\* _maybe_stash_followup_session.
NewSlot(key, captured) ==
    IF captured THEN [of |-> key, count |-> 0, turns |-> 1, idle |-> 0] ELSE NoSlot

Store(key, pool) ==
    /\ rows' = [rows EXCEPT ![key] = [pool |-> pool, age |-> 0]]
    /\ newest' = key

\* The answer is shown, then cached, then stashed (by the command only); when
\* the insert raises, the command leaves the slot as it was.
Complete(pool, captured, stored) ==
    /\ End
    /\ IF stored THEN Store(run.key, pool) ELSE UNCHANGED cacheVars
    /\ slot' = IF stored /\ run.via = "slash" THEN NewSlot(run.key, captured) ELSE slot
    /\ UNCHANGED calls

\* The cloud's synthesis is captured; the local model that stands in for a
\* failed cloud call captures nothing.
Synthesized(captured, stored) ==
    /\ stage = "synth"
    /\ captured => run.cloud
    /\ Complete(run.pool, captured, stored)

WebAnswered(pool, stored) ==
    /\ stage = "web"
    /\ pool \in WebPools
    /\ Complete(pool, TRUE, stored)

-----------------------------------------------------------------------------
(* /refine.                                                                *)

\* A web search reports URLs without excerpts.
HasExcerpts(key) == key[2] = "local"

\* The newest row, of whatever question, if it is fresh and can be read again.
Refine ==
    /\ Idle
    /\ newest # NoKey
    /\ Fresh(newest, RefineTtl)
    /\ rows[newest].pool # <<>>
    /\ HasExcerpts(newest)
    /\ stage' = "refine"
    /\ run' = [NoRun EXCEPT !.key = newest, !.cloud = TRUE, !.pool = rows[newest].pool]
    /\ UNCHANGED <<llm, cacheVars, slot, calls>>

SlipNextNumber(pool) == Len(pool) + 1

NextNumber(pool) == 1 + CHOOSE n \in Numbers(pool) : \A m \in Numbers(pool) : m <= n

\* The first pass names a gap and searching it finds pages not in the pool.
Gap(hits) ==
    /\ stage = "refine"
    /\ stage' = "supplement"
    /\ run' = [run EXCEPT !.new =
                  [i \in DOMAIN hits |-> <<NextNumber(run.pool) + i - 1, hits[i]>>]]
    /\ UNCHANGED <<llm, cacheVars, slot, calls>>

Supplement(picked) ==
    /\ stage = "supplement"
    /\ picked \in Readings(run.new)
    /\ stage' = "again"
    /\ run' = [run EXCEPT !.new = ReadOf(@, picked)]
    /\ UNCHANGED <<llm, cacheVars, slot, calls>>

\* No gap, nothing new found, or nothing of it could be read.
RefinedFromCache ==
    /\ stage \in {"refine", "supplement"}
    /\ End
    /\ UNCHANGED <<cacheVars, slot, calls>>

\* The row is found by the question alone: that of the local pipeline.
LocalRow == <<run.key[1], "local">>

FirstOf(pool, n) == [i \in 1..(IF Len(pool) < n THEN Len(pool) ELSE n) |-> pool[i]]

SlipAppended(old, new) == FirstOf(new \o old, PoolCap)

\* append_research_sources: the newest are the ones over the cap.
Appended(old, new) == FirstOf(old \o new, PoolCap)

RefinedAgain ==
    /\ stage = "again"
    /\ End
    /\ rows' = IF rows[LocalRow] = NoRow THEN rows
                 ELSE [rows EXCEPT ![LocalRow].pool = Appended(@, run.new)]
    /\ UNCHANGED <<newest, slot, calls>>

RefineCrashes ==
    /\ stage \in {"refine", "again"}
    /\ End
    /\ UNCHANGED <<cacheVars, slot, calls>>

-----------------------------------------------------------------------------
(* Follow-ups.                                                             *)

SlipMayFollowUp == slot # NoSlot /\ slot.idle <= SlotTtl

MayFollowUp == slot # NoSlot /\ slot.idle <= SlotTtl /\ slot.count < MaxFollowups

\* /followup, or the n calls of one reply: all look at the slot before the
\* first of them awaits.
FollowUp(n) ==
    /\ Idle
    /\ MayFollowUp
    /\ stage' = "followup"
    /\ calls' = {<<i, slot.turns>> : i \in 1..n}
    /\ UNCHANGED <<run, llm, cacheVars, slot>>

Expired ==
    /\ Idle
    /\ slot # NoSlot
    /\ slot.idle > SlotTtl
    /\ slot' = NoSlot
    /\ UNCHANGED <<stage, run, llm, cacheVars, calls>>

Returned(c) ==
    /\ calls' = calls \ {c}
    /\ stage' = IF calls' = {} THEN "idle" ELSE stage

\* The history the cloud sends back replaces the slot's.
FollowedUp(c) ==
    /\ Returned(c)
    /\ slot' = [slot EXCEPT !.turns = c[2] + 1, !.count = @ + 1, !.idle = 0]
    /\ UNCHANGED <<run, llm, cacheVars>>

FollowupFails(c) ==
    /\ Returned(c)
    /\ UNCHANGED <<run, llm, cacheVars, slot>>

-----------------------------------------------------------------------------
Older(age, most) == IF age < most THEN age + 1 ELSE age

Tick ==
    /\ rows' = [k \in Keys |-> IF rows[k] = NoRow THEN NoRow
                                 ELSE [rows[k] EXCEPT !.age = Older(@, CacheTtl + 1)]]
    /\ slot' = IF slot = NoSlot THEN NoSlot
                 ELSE [slot EXCEPT !.idle = Older(@, SlotTtl + 1)]
    /\ UNCHANGED <<stage, run, llm, newest, calls>>

\* The rows survive; the slot and the command under way do not.
Restart ==
    /\ End
    /\ slot' = NoSlot
    /\ calls' = {}
    /\ UNCHANGED cacheVars

ResearchInit ==
    /\ stage = "idle"
    /\ run = NoRun
    /\ llm = "chat"
    /\ rows = [k \in Keys |-> NoRow]
    /\ newest = NoKey
    /\ slot = NoSlot
    /\ calls = {}

Start ==
    \/ \E q \in Questions, asked \in Modes, cloud \in BOOLEAN :
          Ask(q, asked, cloud) \/ AskByTool(q, asked, cloud)
    \/ Refine
    \/ \E n \in 1..Batch : FollowUp(n)

RunStep ==
    \/ Fail \/ Planned
    \/ \E hits \in HitLists(Urls, MaxFetches) : Found(hits)
    \/ \E picked \in Readings(run.pool) : Read(picked)
    \/ \E captured \in BOOLEAN, stored \in BOOLEAN : Synthesized(captured, stored)
    \/ \E pool \in WebPools, stored \in BOOLEAN : WebAnswered(pool, stored)

RefineStep ==
    \/ \E hits \in HitLists(Urls \ UrlsOf(run.pool), MaxNew) : Gap(hits)
    \/ \E picked \in Readings(run.new) : Supplement(picked)
    \/ RefinedFromCache \/ RefinedAgain \/ RefineCrashes

FollowupStep == \E c \in calls : FollowedUp(c) \/ FollowupFails(c)

ResearchNext == Start \/ RunStep \/ RefineStep \/ FollowupStep \/ Expired \/ Tick \/ Restart

ResearchSpec == ResearchInit /\ [][ResearchNext]_researchVars

-----------------------------------------------------------------------------
(* Properties.                                                             *)

Source == (Nat \ {0}) \X Urls

ResearchType ==
    /\ stage \in {"idle", "plan", "search", "read", "synth", "web", "refine",
                  "supplement", "again", "followup"}
    /\ run \in [key : Keys \cup {NoKey}, via : {"slash", "tool"}, cloud : BOOLEAN,
                pool : Seq(Source), new : Seq(Source)]
    /\ llm \in {"chat", "research"}
    /\ rows \in [Keys -> [pool : Seq(Source), age : 0..CacheTtl + 1] \cup {NoRow}]
    /\ newest \in Keys \cup {NoKey}
    /\ slot = NoSlot \/ slot \in [of : Keys, count : Nat, turns : Nat, idle : 0..SlotTtl + 1]
    /\ calls \subseteq (1..Batch) \X Nat

Refining == stage \in {"refine", "supplement", "again"}

\* No two sources of a pool share a number, or a page.
Unambiguous(pool) ==
    /\ Cardinality(Numbers(pool)) = Len(pool)
    /\ Cardinality(UrlsOf(pool)) = Len(pool)

\* A marker names one page at most: in the pool an answer is about to be made
\* from, with what a refine adds to it, and in every pool /refine can read,
\* however many refines widened it, and whichever pages could not be read.
MarkersAreUnambiguous ==
    /\ stage = "synth" => Unambiguous(run.pool)
    /\ Refining => Unambiguous(run.pool \o run.new)
    /\ \A q \in Questions :
          LET row == rows[<<q, "local">>] IN
          row # NoRow =>
              /\ Unambiguous(row.pool)
              /\ Len(row.pool) <= PoolCap \/ Len(row.pool) <= MaxFetches

MarkersOK == ResearchType /\ MarkersAreUnambiguous

Repooled(k) ==
    rows[k] # NoRow /\ rows'[k] # NoRow /\ rows'[k].pool # rows[k].pool

Extended(k) == IsStrictPrefix(rows[k].pool, rows'[k].pool)

\* An original pool over the cap loses its tail to the first append.
CutToCap(k) == PoolCap < Len(rows[k].pool) /\ rows'[k].pool = FirstOf(rows[k].pool, PoolCap)

\* A refine touches the sources of the row it read, and of no other: it only
\* extends them, or cuts what is over the cap, so that what it cites of the
\* pool stays where the earlier answer cited it (_run_supplemental,
\* append_research_sources).
RefineExtendsWhatItRead ==
    [][Refining => \A k \in Keys :
          Repooled(k) => k = run.key /\ (Extended(k) \/ CutToCap(k))]_researchVars

\* What config/schema.py says of the cap, and the plan of /refine, but not what
\* the code does: the oldest sources are evicted first, so that recent
\* supplemental additions stay.
RecentStay ==
    [][RefinedAgain /\ rows[LocalRow] # NoRow =>
          UrlsOf(run.new) \subseteq UrlsOf(rows'[LocalRow].pool)]_researchVars

\* A cloud exchange is paid for at most Batch - 1 times over its cap, although
\* the calls of a batch look at the counter before any of them has moved it;
\* its history never claims more turns than were paid.
FollowupsBounded ==
    slot # NoSlot =>
        /\ slot.count <= MaxFollowups + Batch - 1
        /\ slot.turns <= slot.count + 1
=============================================================================
