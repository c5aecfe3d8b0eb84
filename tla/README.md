# TokenPal in TLA+

TokenPal (`src/tokenpal`) is a desktop buddy: one asyncio "brain" watches the
machine through senses, comments on it, chats, runs an agent with tools, reminds
the user of things, and can listen and talk. This directory holds TLA+
specifications of the parts whose correctness depends on an order of events,
the TLC runs that check them, and TLAPS proofs.

1. [Inventory](#inventory)
2. [The modules and the code](#the-modules-and-the-code)
3. [Runs, bounds and fairness](#runs-bounds-and-fairness)
4. [What is proved](#what-is-proved)
5. [Where code and words disagree](#where-code-and-words-disagree)
6. [Not modelled](#not-modelled)
7. [Plan](#plan)

To check everything: `tlc -config <run>.cfg MC<Module>` for each run of
`PROJECT.json`, and `tlapm <Module>Proofs.tla` for each module of proofs.
`PROJECT.json` maps each definition to the lines it models.

## Inventory

Line numbers and paths are under `src/tokenpal`.

| Component | State it keeps | Operations | Hard behaviour | Correct when |
|---|---|---|---|---|
| Agent loop (`brain/agent.py`) | step counter, tokens, in-run cache, desktop-content flag, reason to stop | model call, truncation retry, tool batch, confirm, forced synthesis | every await hands the next value to the model, a tool or the user; a tool batch mixes reads and writes | desktop content reaches no network tool, durable sink or persisted line; the run ends within its caps; a denial ends it |
| `/agent` handler (`orchestrator._handle_agent_goal`) | the model to give back, mode | refuse, swap, run, restore, deliver | crash, timeout or `/model` during the run | the agent's model never outlives the run |
| Conversation (`orchestrator`, `session_summarizer.py`) | session, history, expiry, summary tasks, stored recaps | take an item, join or open a session, reply, retry, take back, roll over, `/clear`, reset | `/clear`, `/model`, expiry and late summaries between any two awaits | roles alternate; what was cleared stays gone; the loop always comes back |
| Nudges (`brain/proactive.py`, `orchestrator`, `actions/reminder.py`) | armed nudges in memory and on disk, last fire, generation tasks, delivery lock | arm, cancel, tick, generate, deliver, hydrate | two clocks, sleep, crash, a refused arm, a second fire during a generation | a fire is shown at most once, bubbles are spaced, none while paused, no repeat after a crash |
| Voice session (`audio/session.py`, `audio/input.py`) | FSM state, trailing deadline, pause flag | wake, listen, transcribe, submit, speak, trail, close | two threads without a lock; playback raising; a typed turn closing the session at any point | the microphone is closed while the buddy talks, and opened again |
| Main loop and comment gate (`orchestrator`, `wedge.py`, `rage_detector.py`) | cooldowns, comment window, consecutive comments, suppression streak | poll, choose an emitter, riff, suppress, emit | several emitters each bypass a part of the gate | comments keep their distance and the window's cap |
| Research, refine, follow-up (`brain/research*.py`) | answer cache, follow-up slot, cloud session | plan, search, read, synthesise, follow up | each stage times out alone; cached answers skip part of the bookkeeping | a follow-up answers about the question last answered |
| Desktop tasks (`orchestrator._handle_desktop_task`, `desktop/*.py`) | none: one handler call | refuse, capture, ask, deliver or withhold, announce | a sensitive app opened during the model call | the reply never lands next to a sensitive app |
| Context and sensitive check (`brain/context.py`, `personality.py`) | readings with their age | ingest, snapshot, expire | readings are ingested only by the loop that awaits a handler | a sensitive app stops what looks at the screen |
| Memory store (`brain/memory.py`) | tables of observations, chat log, summaries, reminders | insert, trim, prune, migrate | a failing statement, several writers behind one lock | the tables agree with their readers |
| Idle tools (`brain/idle_tools*.py`, `idle_runner.py`) | when each rule and tool last fired, the fires of the hour, the model's streak of picks, evergreen outputs | ask the model, draw a rule, run it, stamp it, force one | an automatic and a forced roll overlap; stamps are written after the await they were taken before | caps and cooldowns hold, and the rolls come back |
| Tool invoker (`actions/invoker.py`) | call times per tool | invoke, rate limit | calls of one `gather` | no more calls than the limit in a window |
| Speech output (`audio/tts.py`, `pipeline.py`, `backends/kokoro.py`, `_kokoro_worker.py`) | the worker in use, child processes and their pipes, the playback lock | route, warm up, ask for audio, play, raise | two warmups at once; a child that dies while one call waits for it and others for the lock; answers without a name on them | no call plays another's audio, two never play together, and a reply the brain waits for ends |
| Training server (`server/worker.py`, `job_store.py`) | jobs in memory and as files | submit, run, cancel, recover | a crash between two writes | one job at a time, none blocks the queue for ever |
| LLM backends (`llm/*.py`), `/server`, `/model` (`app.py`) | URL, reachability, model, token cap, models remembered per server | connect, fall back, probe, remember, switch | a setup or probe answers after the user chose otherwise | the status is that of the server in use, a pinned cap stays, a switch takes |
| Remote training (`tools/remote_train.py`, `finetune_voice.py`) | on the remote machine: lock, session, code, data, checkpoints, model, log; per run: its stage and what it has seen | probe, push, install, prepare, launch, poll, merge, hash, pull, register, clean up | any step fails; sessions die; two voices share one machine | finished epochs are kept, one training at a time, every run ends |
| Configuration (`config/toml_writer.py` and its callers) | `config.toml`, its temporary file | read, change, write beside, rename | two threads without a lock; a crash between any two steps | the file is whole and no change is lost (see [below](#where-code-and-words-disagree)) |
| Senses, UI, commands, wiki training | see `PROJECT.json` | | polling, rendering, parsing, scripts | |

How they interact: the brain loop polls the senses, ticks the nudges, and takes
one user item at a time from its queues
(chat, agent, desktop, research, refine, follow-up); whoever it awaits (model, tool,
confirm dialog, playback) suspends it, and then generation tasks, summary tasks
and callbacks from the UI thread (`/clear`, `/model`, typed lines) run. The
audio thread calls into the loop with `call_soon_threadsafe`, and the loop calls
the FSM that thread owns. Memory and the backend's `model_name` are shared by all.

The hazards, each at its line and with the property that would notice it, are
listed in `PROJECT.json`.

## The modules and the code

**`AgentRun`** is `AgentRunner.run` and the handler around it. `pc` is the await
the coroutine is suspended in; each action runs from one await to the next.
`StepCap`, `SensitiveStop`, `BudgetStop` and `BeginStep` are the head of the
loop; `Answers`, `Truncated`, `CallsTools`, `StepTimesOut` and `RunRaises` are
what can come back from the model; `SkipCall` to `Fails` are the branches of
`_execute_one`, in its order; `Finish` is the `finally` block that restores the
model; `Deliver` is what the handler persists. Text is abstracted to its
provenance, "plain" or "content" (text read from another application may be in
it), and `chatLog` collects the provenance of every persisted line, the trace
lines included. `inContext` records what is true, and `desktopContent` is what
the code believes; the properties are about the former. `is_sensitive` may
change its answer at any suspension, which covers more than the code does: in
the code the reading behind it is not refreshed during a run.

**`VoiceInput`** composes the FSM, the audio thread (`apc`) and the brain loop
(`bpc`) over two shared variables without a lock. An FSM method is one step
unless CPython may switch threads between its test and its assignment with a
visible difference: `on_transcript` (`TranscriptChecked`,
`TranscriptSubmitted`) and `on_speech_started` are two. `Owed` is the accounting
the design rests on: a voice turn in transit, queued or being answered.

**`Speech`** is `speak()` down to the child process that makes the audio. `at` is
where each call is: loading a worker, at the lock, waiting for its audio,
playing. `Warmup` comes before the lock, as in the code, so that two calls may
start a worker each and the later one to load is kept in `worker`; `pipe` is what
was asked of a child and not yet read back, and `Answered` takes whatever comes
first. `Dies` may end a child at any point, after which the call that waits for
it raises and those after it find the dead worker (`AskRaises`). `Raise` tells
the call the brain awaits, whose exception it sees, from those whose exception
asyncio only logs.

**`VoiceTurns`** composes the two. Its steps are those of `VoiceInput`, those of
`Speech`, and both at once where the code calls one from the other: a reply or a
quip begins a `speak()` (`ReplyEmitted`, `QuipEmitted`), `VoiceSpoken` needs that
call to have returned and `VoiceRaised` that it raised. Typed replies and comments
(`SpeakAsync`, `SpeakAmbient`) are calls that nobody waits for and stand in the
same line.

**`Nudges`** keeps time relative, so the state is finite: `nudges[id]` is how
long until the deadline (negative when past), `sinceFire` and `sinceShown` are
how long ago. Wall clock (deadlines, spacing of fires) and monotonic clock
(spacing of bubbles, `asyncio.sleep`) move together in `Elapse`, apart in
`Asleep`, and the former goes back in `SetBack`. A fired nudge is held by one of
two tasks: the reminder's tracked generation or the loose delivery of the
canned label that `_spawn_nudge_generation` starts when the former is in flight.
Schedules are of the interval kind and the memory store is enabled.

**`NudgePromise`** is what the user is promised. `Nudges` implements it under
the mapping "fires owed to a reminder = its tasks that hold one".

**`Conversation`** is the multi-turn chat. A message is abstracted to whether it
repeats something that was in the chat before the last `/clear`; the prompt of a
reply takes the worst of what it is made from. `Join` is
`_new_conversation_session` with its wait for summaries; `Summarizer` is the
tasks of `_rollover_expired_session`; `Clear` is
`_clear_conversation_and_summaries`, whose row delete may fail; `WaitCut` is
the wait waking to a `CancelledError` that is not the brain's own.

**`TrainingJobs`** keeps a job's three copies apart: `disk` is what its file says,
and so what a poll answers and what `get_active` finds; `status` is the object
the pipeline thread updates; `task` is the asyncio task. `Put` may cut a file
short without an exception (`os.write` may write less than it was given), which
leaves a file that neither a poll nor the guard can read, or raise. `Stop` is the
cancellation of the tasks: the holder of the GPU lock writes its job's file from
the `finally` block with whatever status the thread has reached, while the thread
goes on; `Crash` takes the thread too. `Recover` is one file of
`recover_stale_jobs`, and `Start` needs all of them done. The next server starts
once the last one's tasks are cancelled, as under the systemd unit of
`scripts/install-linux.sh`; its threads may still run then, which is more than
systemd allows.

**`TrainingPromise`** is what whoever polls the server is promised. `TrainingJobs`
implements it: `answer` is what the file says with the stages taken together, and a
job is `training` for as long as its task holds the GPU lock.

**`CommentGate`** is what the buddy says unasked. A tick (`Tick`) asks the gate
with a jittered cooldown, chooses among the wedges, the freeform thought and the
plain observation by priority, and starts one model call; `Answer` is what comes
back. `Emit` and `Suppress` are the two ways a line ends, `_emit_comment` and
`_handle_suppressed_output`. Clicks, idle riffs, bypassing wedges and the end of
day summary, which is a task of its own, stamp their lines without asking. Time is
kept as ages; any number of ticks fits into a unit.

**`Research`** is `/research`, `/refine` and `/followup` with the two tools the
chat has for them. A source is its number and its URL, an answer the pool it
cites. `Read` leaves gaps where a page could not be read; `Complete` and
`Synthesized` decide about cache row and follow-up slot; `Supplement` and
`RefinedAgain` number and append a refine's new sources. Follow-ups of one batch
of tool calls (`calls`) run together, on one slot.

**`ServerChoice`** is the backend's connection. The UI thread and the brain's loop
share the backend's attributes without a lock, and so a step reads or writes one
of them: `Switch` to `LookUpEntry` are `set_api_url` and the rest of `/server
switch`, line by line, `SetModel` and `TestFlag` are `set_model`, and `Probed` and
`Derive` the test and the write of `_apply_auto_max_tokens`. What set up to
`MaxTasks` tasks write is whatever they learnt, in any order; a task has the loop
to itself from one await to the next (`LoopFree`), except that of a voice's
fine-tuning, which swaps the model on a thread of its own. The agent's and
research's swaps of the same backend are `Swap`.

**`RemoteTrain`** has one machine, the training process on it (a tmux session on
Linux, the call itself on Windows) and one run per voice. Weights are abstracted
to the voices whose lines they have seen, so a model of the wrong voice is told
apart from the right one. `Fail` is any error or the end of the app at any
stage; where the code does not look at a command's outcome, the action of that
command has the outcomes instead: `Probe` and `Examine` may get no answer, `rm -f`
and `kill-session` may do nothing, `TryLock` goes on when told nothing, `Launch` may
leave `run_train.sh` as it was, or empty (`NothingToRun`), `CleanupFails` is a success.
A flock is on a file and not on its name: `opened` is the file a session has open,
`lockFile` the one that is there. `SessionKilled` and `Begin` are the machine's doing.

**`IdleTools`** is the tracker shared by the model's pick, the drawn rule and
the forced roll. A stamp is the age of a moment: a roll of the loop is stamped
with its beginning, a forced one with its end. `began` and `hold` record what a
user sees, for the properties.

**`Conversation`** also carries the desktop tasks, which are items of the same
loop: `front` is the app really in front, `seen` is what the snapshot says.
`PollSenses` can happen only while the loop is not awaiting a handler;
`Captured` looks at the app itself, `TakeTask` and `TaskReplied` at the snapshot.

`MC...` modules give TLC the instances. An operator called `Slip...` is a
plausible mistake next to the definition it imitates; `PROJECT.json` pairs each
with the property that notices it.

## Runs, bounds and fairness

| Run | Shows | Bounds |
|---|---|---|
| `agent` | desktop content never reaches a network tool, a durable sink or a persisted line; calls and tokens are bounded; a denial ends the loop; every step brings the end of the run nearer, every run ends and gives the agent model back | one tool of each kind the code tells apart, and a name it does not hold; 2 steps; batches of up to 2 calls; responses of up to 2 tokens against a budget of 2; 2 models |
| `voice_session` | calls play their own audio, alone; microphone closed during replies, SPEAKING always owed, trailing window closes, SPEAKING ends unless playback raises or a turn is deflected | at most 2 items on their way (`MaxItems` 1: the room is looked at before the transcript is submitted, and a typed line may take it in between), a voice reply and one aside, a worker each |
| `nudges` | implements `NudgePromise`; no reminder fires twice in an interval | 2 reminders, gap 1, interval 2, lateness told apart up to 1, clock set back by 1 in all |
| `nudges_live` | a due reminder fires, a fire is shown or given up | 1 reminder, gap 2, interval 3, lateness 2, set back by 2 in all |
| `conversation` | alternation, nothing cleared comes back, no reply from cleared text, the loop comes back | 2 turns per session, 2 items waiting, 2 summaries in the making |
| `conversation_desktop` | violated: a reply is withheld from a sensitive app opened during the call | as above |
| `training` | implements `TrainingPromise`; one training and one open job per server, complete means registered, a job does not block the server for ever | 3 jobs |
| `gate` | the window's cap for gated lines, the silence owed after rejections, tool calling is off only while failures stand, the buddy is never locked out | bursts and streaks of 2, a window of 3 with 2 lines, cooldown 1 to 3 and a freeform gap of 2, 2 of the lines that go round the gate, or signals, in all |
| `remote` | checkpoints survive, every run ends | 2 voices, 2 runs in all, both platforms |
| `server` | a reachable server is the one that answered; a pin gives way only to a write that had not seen it | 2 servers, one of them pinned and known, 2 models, 2 tasks |
| `research` | markers name one page, follow-ups are bounded, a refine extends only what it read | 1 question in both modes, 4 pages, 3 fetched and 1 added, a cap of 2, batches of 2 follow-ups, ttls of one tick |
| `idle` | caps per hour, draws are spaced, rolls come back | 2 rules and tools, an hour of 3 units, 2 fires an hour, 1 of the model's |

Every type invariant is checked: it is `TypeOK`, or a conjunct of one of the run's
invariants (`CostBounded`, `VoiceOK`, `JobsOK`, `GateOK`, `HistoryOK`, `StatusOK`, `MarkersOK`, `CapsOK`).

Why these are enough. In `agent` the shortest way to leak takes a read, a second
call of the same batch or a second step, and a response that quotes it: two steps
of two calls, and any number of runs after each other, contain them all; a step
cap of 2 has a first, a middle and a capped step, and the budget can be crossed by
a response, by its retry and by the synthesis. Two voice items are a typed turn
overtaking a spoken one, or two spoken ones; one aside is enough to start a
second worker, to be ahead in the line, and to be ahead when the worker dies.
Two reminders compete for the soonest
fire and for the lock, and each can have two tasks; with a gap of 1 and an interval
of 2 a bubble may be late by a whole period. Two turns per session make the cap
drop a pair; two summaries can land in either order. Of three jobs, one has its
file cut short, one is let in for it, and one comes after both. In `gate` the
window is longer than the forced silence, a cooldown may be shorter or longer than
the freeform gap, as nothing in the code relates the two, a burst and a streak take
two lines each, and two extra events are two emitters going round the gate in one window, or
one after a wedge. Two runs of two voices put one run's merge, failure or cleanup
into any step of the other's. Two tasks let an old setup or probe end after a new
one began. A pool of three fetched pages with a cap of two has a gap,
an addition, and a first pool that is over the cap, which no check of the
configuration excludes. In `idle` a forced roll and a roll of the loop end in either
order, and a deque holds stamps out of order when its head is pruned.

Fairness. `AgentRun`: a started run keeps moving, since model calls and tools are
under `wait_for`; the confirm dialog has no timeout and the user is assumed to
answer. `VoiceTurns`: both threads run, `call_soon_threadsafe` delivers, and an
expired deadline is noticed although frames keep coming (strong fairness of
`Tick`: the loop tests the clock before every few frames, whatever is in them).
Each `speak()` goes on when it can, and a worker loads and answers unless it dies;
a worker that lives and never answers would hold the lock, and the brain, for good,
since the code has no timeout there. No aside is made to be spoken.
`Nudges`: the loop polls, tasks run, `asyncio.Lock` is first in first out
(strong fairness of taking it), time passes. Nothing is assumed of the gate:
`DueFires` has "nudges are not paused for ever after" as its premise.
`Conversation`: the wait for summaries, their model calls and the stages of research
are under `wait_for`; the call of a reply has only httpx's timeout, which is per
read, so that it ends is an assumption on the server; `/clear`, the user and the clock are never forced. `TrainingJobs`: the
pipeline comes to an end, tasks resume, a stopped server is started again, and
the startup does not fail for ever on the same file; nobody need stop it or
submit anything. `Nudges` assumes the lock's fairness for each reminder apart, as
its queue of waiters gives it. `CommentGate`: time passes, calls return, and a
tick that may call the model is one day taken (strong fairness: the score moves
with the machine and the freeform dice are thrown on every tick). `RemoteTrain`:
every ssh command has a timeout, `flock` is blocking and first come (strong fairness
of `Begin`), a training ends; a run is never made to fail while it polls, and the
poll, which the code repeats for ever against a machine that does not answer, is
assumed to be answered in the end. `IdleTools`: calls return, a forced roll is cancelled after thirty
seconds, and a rule that may be drawn again and again is drawn. `ServerChoice` and
`Research` claim no liveness.

## What is proved

`AgentRunProofs` proves, for every registry of tools, batch size, step cap,
budget and set of models (assumptions: `ToolsAssumption`, `LimitsAssumption`,
`ModelsAssumption`, no more than how the constants are typed and that a marked,
sink, confirmed or cacheable tool is held):

- `TypeCorrect`, and the privacy properties `NoWayOut` (the conjunction of
  `ContentStaysLocal` and `OfferedAreLocal`) and `ContentNeverPersisted`. None of
  these is inductive. The invariant `PrivacyInv` adds `Covered` (wherever content
  is: messages, the batch's arguments, the cache, the final text, the flag is up),
  `AdmittedOK` (what was established when the call being awaited passed the gate;
  the gate is judged in an earlier step than the call) and `InLoop`. The step
  lemma has one step per action.
- `CostBounded` (types, calls and tokens) and `DenialEndsTheLoop`, from `BoundsInv`:
  calls against the step counter and the retry that has been spent, tokens by
  phase, and that a denial is handled before the loop comes round.
- `SwapIsUndone`, from `SwapInv`: a backend on the agent's model that the user
  did not choose implies that a model to restore, other than the agent's, is
  remembered, and it is forgotten only after it was restored.
- `EveryStepCountsThm` and `RunIsBoundedThm`: `Ahead` is what a run has in front of
  it at most (three steps for each call of the batch, `3 * MaxBatch + 3` for each
  step of the loop, one for the retry of an empty response, and the tail), it is a
  natural number no greater than `StepsAhead(MaxSteps) + 5`, and each step of a run
  makes it smaller whatever the model, the tools and the user answer. This is the
  safety half of `RunEnds`: a run cannot go on for ever, and what is left to fairness
  is that it does not stop in between.

`TrainingJobsProofs` proves, for every set of jobs and with no assumption,
`JobsOKThm`, `CompleteIsRegisteredThm`, `EndedIsFinalThm` and the refinement
`Refines == Spec => KeepsPromise`. They share one invariant, `IInv`: two tasks never
hold the GPU lock together (`LockInv`; the guard on the file cannot give that, since a
damaged file lets a second job in), a job with a task has a file that is not an ended
one (`OpenInv`, what makes the last write, a stop and a recovery harmless to ended
jobs), and a task whose outcome is success belongs to a registered job (`DoneInv`).
`FileInv` adds what the mapping needs: a task or a thread has a file, the holder of
the lock has not noted its outcome yet, so that a stop writes an open status, and one
file is open while the server is up. Each action maps to one of the promise (a write
goes through `PutSays`), and `Advance`, a job that raises in its thread and a recovery
whose write raises are stutters.

`ConversationProofs` proves, for every `max_turns` and any number of items and
summaries (`BoundsAssumption`), `HistoryThm`, `ClearedThm` and `RepliesThm`.
The invariant has four parts, each kept by a lemma with a step per action:
`LoopType` and `FlagType` (types), `StoreOK` (no summary in the making and no row
holds what was cleared, unless the rows could not be deleted) and `SessionOK`. The
last one is what makes alternation inductive: the history has an even length
whenever the loop is not replying and an odd one while it is, and that parity
survives the cap because the cap drops pairs (`CapLemma`).

`NudgesProofs` proves, for every set of reminders and all times
(`TimesAssumption`), the type invariant, `FiresOnceThm` and the refinement
`Refines == Spec => KeepsPromise`: initial states map to initial states, and each
step to a step of `NudgePromise` or a stutter. What a user sees on time rests on
`SleeperInv` (only one task sleeps, and its sleep covers what is left of the gap
after the last bubble, so the gap is over when it wakes) and `QuietInv` (a reminder
that must not fire yet is not due before it may, neither in memory nor in the row a
restart would read). `OwedSteps` is the accounting of the mapping: a task taken
adds one fire to what its reminder owes, a task given back takes one away.

`VoiceProofs` proves `OwnAudioThm` of `Speech` alone for any number of calls, and, in
the composition, `VoiceOKThm`, `MicClosedThm` and `OwedThm` for any number of items
on their way (assumptions: there is a voice call, and room for an item). Of speech:
the line has no call twice and only such that are at the lock or past it
(`LineInv`), only its head waits for audio or plays (`HeadInv`), and a worker's pipe is
empty or holds the one request of the call that waits for it (`PipeInv`). Of the
session: unless a session was closed over an unanswered transcript, one spoken
turn at a time is between the microphone and the end of its reply, in one place
only, and the session is in SPEAKING for as long (`OneTurn`); `CommitInv` says the
audio thread commits from no state that belongs to the brain. `TurnsMap` shows that a
step of the composition is a step or a stutter of each part: the composition
implements both (`PartsThm`), and both invariants hold in it.

`BackendProofs` is about the two users of one model backend, `ServerChoice` and
`Research`. Of the first it proves the type invariant, `StatusOKThm` and
`PinHoldsThm`, for any number of servers, models and tasks. Neither property is
inductive: `StatusOK` rests on who may have written the URL and the status since the
last switch began, `PinHolds` on where the UI thread is between its writes of cap and
flag and on which tasks hold a test of the flag that is out of date (`exposed` is that
debt; `PinIsKept`, which does not grant it, is what the code violates).

Of `Research` it proves all three properties, `MarkersOKThm`, `FollowupsBoundedThm`
and `RefineExtendsThm`, for any questions and pages, any caps on fetches, pools,
additions, follow-ups and batches (a cap below the first pool included), and any
times to live (`CapsAssumption`,
`TtlsAssumption`, `WebPoolsAssumption`). Only rows of the local pipeline are counted
by `MarkersOK`; that they are unambiguous is not inductive, because a refine appends
to a row what it numbered some steps before. `ResearchInv` adds what holds on the
way: a pool is `Sound` (numbered upwards, gaps or not, each page once) in the rows
(`RowsOK`) and in the run under way (`RunOK`); the sources a refine has found come
after all it answers from and name other pages (`Follows`); and the row being refined
is still the one that was read, as nothing else runs on the loop. `AppendedIs`,
`NextNumberIs`, `ReadOfIs` and `GapIs` say what the operators on pools keep: numbering
from one above the greatest number, and not from the length, is what makes a pool
with gaps stay sound. `SlotOK` counts the follow-ups that are paid together with those
awaited, since each of a batch was let in before any of the others was paid.

`RemoteTrainProofs` proves the type invariant and `CheckpointsSurviveThm` for every
set of voices; `KeepInv` ties the stages in which a run may remove checkpoints to
the model it has registered (assumption: the set of voices is finite).

`AmbientProofs` is about what the buddy does unasked, `CommentGate` and `IdleTools`. Of
the gate it proves, for every cooldown, freeform gap, streak, window and cap that
satisfies `GateAssumption` (all positive, and the shortest cooldown no longer than the
longest), `GateOKThm`, `GatedWithinWindowThm` and `RejectionsAreSpacedThm`.
The stamps the gate counts are forgotten beyond the cap
and pruned when the gate looks at them, so that the cap is kept rests on `Stamped`:
the i-th newest line let through has an i-th newest stamp no older than itself, which
holds because every line that goes round the gate is stamped too; and on `RoomInv`,
since a line is shown some steps after the gate had room for it. `QuietInv` ties the
quiet that is owed to what the gate reads: the history of lines thrown away is the
streak, the hush owed never exceeds the forced silence, and no line is thrown away
without restarting the cooldown. The lemmas on
sequences (`NewestIs`, `AgedIs`, `RecentIs`, `InWindowIs`) say what the stamps become.

Of idle tools it proves `CapsOKThm` and `DrawsAreSpacedThm`, for all rules, tools,
cooldowns, caps and times (`ToolsAssumption`, `TimesAssumption`, `HorizonAssumption`,
`CapsAssumption`; only the last says more than how the constants are typed and that
the horizon lies beyond them). The tracker's deque is not ordered, a stamp may be
older than the one before it, and it loses its head only. That the cap holds all the
same rests on `Matched`: there is an injection from the fires the loop began in the
last hour to stamps of the deque of the same age. Pruning cannot take such a stamp
(`MatchedPruned`), ageing and forgetting keep it (`MatchedAged`, `MatchedLately`), a
forced fire only adds to the deque (`MatchedForced`), and a fire of the loop adds to
both (`MatchedFire`); so the length the code tests bounds the number it means. `CapOK`
carries the room a roll found until it is stamped. `HoldOK` is the same for the
cooldown: what is left of it never reaches beyond the last stamp, nor beyond the
stamp that the roll under way is going to write.

Only model-checked is all liveness (`RunEnds` of both modules, `TrailingCloses`,
`SpeakingEndsUnlessLost`, `DueFires`, `FireIsResolved`, `LoopComesBack`, `Unblocks`,
`NeverLockedOut`, `RollsComeBack`), which is out of the proof system's reach; for the runs of the agent the measure that
falls is proved (`EveryStepCountsThm`), the fairness is not. Every
safety invariant and action property of a passing run, and the refinement, is a
theorem. Pools and stamps are built without recursion, by filters and sub-sequences,
so that no proof needs induction over data.

## Where code and words disagree

One run ends in a violation on purpose; `PROJECT.json` quotes the lines.

- `conversation_desktop`: the reply of `/proofread` or `/explain` is to be
  withheld when a sensitive window is opened while the model writes it
  (`orchestrator.py:2211`). The second check reads a snapshot that only the loop
  refreshes, and the loop is awaiting the handler, so it never sees such a window.
  The unit test patches the check itself. The same holds of the check an agent run
  makes at every step.

Five more claims are formulas that TLC refutes: an invariant or a property put into the
configuration of the passing run, in the place of its properties, ends in a
counterexample.

- `HighSignalGoesFirst` (`gate.cfg`): rage, git and drift "bypass the gate entirely"
  (`commentary-gate.md:7-9`, `31-36`). Rage and git do; drift is `NEEDS_CAP_OPEN`
  (`wedges/drift.py:19`) and waits for the cooldown, the forced silence and the cap, while
  freeform thoughts go out. `RejectionsAreSpaced` states what the code does: a
  drift nudge, like an observation, is held back by the quiet that is owed.
- `TrainsAlone` (`remote.cfg`): "Linux uses `flock` to prevent concurrent training"
  (`remote-training-guide.md:188`). The lock is one for all voices, but the run that
  finds it held looks for a session of its own voice only, and takes the lock file
  away from another's live training (`remote_train.py:1430-1438`).
- `PinIsKept` (`server.cfg`): the cap is updated "when not user-pinned"
  (`http_backend.py:608`). The flag is tested (`618`) and the cap written (`625`) in two
  steps, and a switch to a pinned server may come between. `PinHolds` states what is
  left: only such a write undoes a pin.
- `SwitchTakes` (`server.cfg`): a setup begun before `/server switch` and answered after
  it puts the backend back on the old server (`http_backend.py:92`), though the switch
  was "persisted".
- `RecentStay` (`research.cfg`): "oldest supplemental sources evict first"
  (`config/schema.py:467`, `research-refinement.md:31`); `append_research_sources` cuts the
  newest (`memory.py:1480`), as its own docstring says. `RefineExtendsWhatItRead` states
  what the code does.

Others, met while modelling; the modules have the code's behaviour:

- `/model` while an agent runs answers "remembered" and is undone when the run
  ends (`orchestrator.py:2139`). `/model` says it remembers the model, and writes
  `config.toml` only: the table a later `/server` switch looks at is the one in
  memory (`app.py:2752-2785`). After a fallback the remote server's model is
  remembered under the local URL.
- The voice session's diagram has SPEAKING end with `tts_done`; when playback
  raises in the reply and again in the quip that apologises, `tts_done` never comes
  and the wake word stays deaf (`orchestrator.py:1371`). A worker that has died makes
  both raise: it stays in `_worker` and is never replaced (`kokoro.py:168`).
- "Drain-on-cancel", by which a typed turn "silences instantly" a narration
  (`tts.py:16`), has no caller: nothing cancels a `speak()`. Comments and typed
  replies are spoken with the microphone open. Of two workers started by
  two warmups at once the first to load runs on for as long as the app, and
  `KokoroBackend.aclose` is never called.
- `update_config` "writes atomically" so that a crash "can't truncate user config", and
  "any changes persist" (`toml_writer.py:28-30`). All updates share one temporary file
  and no lock, and a switch alone has two of them, on two threads (`app.py:661`, `680`):
  one may rename what the other has just emptied, or write the other's change away.
- Re-arming a reminder with a label sqlite refuses cancels the id, and with it the
  reminder that was there (`reminder.py:228-231`).
- A turn waiting for the previous chat's summary survives a `/clear`, which the
  plan says drops it (`conversation-continuity-p2.md:61`, `orchestrator.py:1026`).
- A poll of a training job is promised progress; the file it reads says "queued"
  until the outcome (`client-server-comms.md:129`, `worker.py:237`).
- `brain.md:9` sends every generation that is not emitted through the suppression
  funnel; an empty or filtered line goes round it and does not restart the
  cooldown (`orchestrator.py:1766-1769`).
- Rage lines "don't count against the 8/5min observation cap"
  (`rage_detector.py:17-19`), nor do those of git; they are not held back by it, but each
  is stamped (`orchestrator.py:1177-1191`) and so takes the place of a gated one. That
  the cap holds rests on it (`GatedWithinWindow`).
- Remote training: on Linux the checksum is made of whole paths on one side and of
  bare names on the other, so a hash that is there never matches
  (`remote_train.py:486-520` and `1853-1865`), and no property is stated of what it
  would verify; a stale `train.log` that ends in `EXIT_CODE=0` passes for success;
  another voice's checkpoint is resumed, or overwritten when the answer about it is
  lost; `Cleanup` removes the profiles of other runs, and on Windows `run_train.ps1`,
  which a skipped bundle does not bring back (`1527-1542`).
- `/refine`: "citations above the original pool size still resolve"
  (`orchestrator.py:2567`); `_finalize_answer` keeps the markers 1 to n of a pool of
  n although unread pages leave gaps, so a right marker of a pool {1, 3, 4} is cut.
  The follow-ups' "hard cap" (`config/schema.py:308`) is overshot by the size of a
  batch less one, and parallel follow-ups overwrite each other's history
  (`FollowupsBounded` states what does hold).
- Idle tools: "regardless of tool success" (`idle_tools.py:232`) holds of no tool
  that fails, for then nothing is recorded; the "min gap between any two rolls"
  (`config/schema.py:45`) does not bind the model's picks; a forced roll that "doesn't trigger
  another automatic one 30 seconds later" does when a roll under way stamps over it
  (`DrawsAreSpaced` has that exception); an evergreen entry past its day is served
  when it cannot be refreshed.

## Not modelled

The senses, the UI, the parsing and writing of configuration files, command
dispatch and the wiki pipeline of voice training are polling, rendering, parsing
and batch work: sequential code whose results a test sees. Together with prompts,
personality text, vendored data and the wrappers of other services they are most of
the repository's lines, so the map covers a small share of them. The rate limiter
of tool calls is off on the chat path and its other callers are sequential. The
numeric audio code (VAD, wake word, ASR) is an environment choice in `VoiceInput`,
as a model call is everywhere. In the modules above: wording, prompts, the
near-duplicate test, the tool loop inside a chat reply, the observation summaries,
daily schedules, the closing of the audio stream, running bits and chains of idle
tools, the cloud clients' retries, WSL paths and the HTTP path of remote training.

## Plan

Done: everything in the table of runs, and the proofs above.

Left, the most useful first:

1. The tool loop inside a chat reply (`Conversation`), daily schedules (`Nudges`),
   chat-log trimming and migrations of the memory store.
2. `config.toml` with its writers on two threads, and `ServerChoice` over a restart that
   reads it.
