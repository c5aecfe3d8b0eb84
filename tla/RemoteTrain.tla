---------------------------- MODULE RemoteTrain ----------------------------
(***************************************************************************)
(* Fine-tuning a voice on a GPU machine over ssh (tools/remote_train.py).  *)
(*                                                                         *)
(* A run is remote_finetune for one voice: stage is the command it sends   *)
(* next.  Runs for different voices share one remote directory: one data/, *)
(* one output/, one train.log, one virtual environment.  On Linux the      *)
(* training itself is a tmux session, which outlives the run; on Windows   *)
(* it lives as long as the ssh call.  A run may die at any point (the app  *)
(* is closed) and be started again.  Every command may fail or time out:   *)
(* the run then ends with an error, or goes on where the code does not     *)
(* look at the outcome, as if it had been told nothing.                    *)
(*                                                                         *)
(* Weights are told apart by whose lines they were trained on, and code by *)
(* whether it is the controller's own.  The lock is a flock: who trains    *)
(* holds that of the file it has opened, which may have been removed, and  *)
(* another made in its place, since.                                       *)
(***************************************************************************)
EXTENDS Integers, FiniteSets

CONSTANTS
    Voices,     \* the voices being fine-tuned
    Nobody,     \* no voice
    MaxRuns     \* bound: how many runs are started

ASSUME VoicesAssumption == IsFiniteSet(Voices) /\ Nobody \notin Voices
ASSUME MaxRunsAssumption == MaxRuns \in Nat

VARIABLES
    platform,   \* "linux" or "windows", for ever
    runs,       \* how many runs were started
    stage,      \* the command each run sends next
    seen,       \* what each run was last told of the machine
    session,    \* the training process of each voice
    learning,   \* whose lines the weights in its memory have seen
    opened,     \* the lock file its flock has opened
    lockFile,   \* the lock file that is there: how many were removed before it
    script,     \* run_train.sh: "none", or with or without --resume
    installed,  \* the code in the virtual environment
    sourceHash, \* the code .source-hash names
    profiles,   \* the voices whose profile is there
    runner,     \* run_train.ps1 is there
    data,       \* whose lines data/ holds
    checkpoint, \* whose lines the newest checkpoint has seen, {} if none
    adapter,    \* the same of the finished adapter
    log,        \* how train.log ends
    merged,     \* the same of the merged model
    digest,     \* each run's remote_model_hash
    local,      \* the model each run has downloaded
    registered  \* what Ollama serves under each voice's name

runVars == <<runs, stage, seen, digest, local>>
sessionVars == <<session, learning, opened, lockFile, script>>
codeVars == <<installed, sourceHash, runner>>
inputVars == <<profiles, data>>
outputVars == <<checkpoint, adapter, log, merged>>
vars == <<platform, runVars, sessionVars, codeVars, inputVars, outputVars,
          registered>>

Stages == {"idle", "probe", "clear", "push", "prep", "examine", "lock", "launch",
           "poll", "result", "merge", "hash", "pull", "register", "cleanup"}

Weights == SUBSET Voices
NoModel == [of |-> {}, intact |-> TRUE]
Unknown == {Nobody}
State(held, alive, venv, saved) ==
    [held |-> held, alive |-> alive, venv |-> venv, saved |-> saved]
NothingSeen == State(FALSE, FALSE, FALSE, FALSE)

At(v, s) == stage[v] = s

Go(v, s) ==
    /\ stage' = [stage EXCEPT ![v] = s]
    /\ UNCHANGED <<platform, runs, seen, digest, local>>

\* What the run knew is gone with it.
Stop(v) ==
    /\ stage' = [stage EXCEPT ![v] = "idle"]
    /\ seen' = [seen EXCEPT ![v] = NothingSeen]
    /\ digest' = [digest EXCEPT ![v] = Unknown]
    /\ local' = [local EXCEPT ![v] = NoModel]
    /\ UNCHANGED <<platform, runs>>

\* The training process ends, and the lock with it.
Kill(v) ==
    /\ session' = [session EXCEPT ![v] = "none"]
    /\ learning' = [learning EXCEPT ![v] = {}]
    /\ opened' = [opened EXCEPT ![v] = 0]

-----------------------------------------------------------------------------
(* Before the training.                                                    *)

StartRun(v) ==
    /\ At(v, "idle")
    /\ runs < MaxRuns
    /\ runs' = runs + 1
    /\ stage' = [stage EXCEPT ![v] = "probe"]
    /\ UNCHANGED <<platform, seen, digest, local, sessionVars, codeVars, inputVars, outputVars, registered>>

SlipFail(v) ==
    /\ ~At(v, "idle")
    /\ Stop(v)
    /\ IF platform = "windows" THEN Kill(v) ELSE UNCHANGED <<session, learning, opened>>
    /\ checkpoint' = {}
    /\ UNCHANGED <<lockFile, script, codeVars, inputVars, adapter, log, merged, registered>>

\* RemoteTrainError, or the end of the app.  Nothing is undone, except that
\* on Windows the training dies with the call.
Fail(v) ==
    /\ ~At(v, "idle")
    /\ Stop(v)
    /\ IF platform = "windows" THEN Kill(v) ELSE UNCHANGED <<session, learning, opened>>
    /\ UNCHANGED <<lockFile, script, codeVars, inputVars, outputVars, registered>>

Holds(v, file) == session[v] = "training" /\ opened[v] = file

LockHeld == platform = "linux" /\ \E v \in Voices : Holds(v, lockFile)
Alive(v) == platform = "linux" /\ session[v] # "none"

\* The answers come in this order, and the connection may be lost after any.
Answers(v) ==
    {NothingSeen,
     State(LockHeld, FALSE, FALSE, FALSE),
     State(LockHeld, Alive(v), FALSE, FALSE),
     State(LockHeld, Alive(v), installed # "broken", FALSE)}

\* _preflight_remote_state: what is not answered is taken for false.
Probe(v) ==
    /\ At(v, "probe")
    /\ stage' = [stage EXCEPT ![v] = "clear"]
    /\ \E answer \in Answers(v) : seen' = [seen EXCEPT ![v] = answer]
    /\ UNCHANGED <<platform, runs, digest, local, sessionVars, codeVars, inputVars,
                   outputVars, registered>>

\* rm -f of the lock file: whoever has it open, holding it or waiting, keeps
\* what it has.
RemoveLock(v) ==
    /\ At(v, "clear")
    /\ seen[v].held /\ ~seen[v].alive
    /\ lockFile' \in {lockFile, lockFile + 1}
    /\ Go(v, "push")
    /\ UNCHANGED <<session, learning, opened, script, codeVars, inputVars, outputVars,
                   registered>>

\* tmux kill-session.
KillOrphan(v) ==
    /\ At(v, "clear")
    /\ seen[v].alive /\ ~seen[v].held
    /\ Kill(v) \/ UNCHANGED <<session, learning, opened>>
    /\ Go(v, "push")
    /\ UNCHANGED <<lockFile, script, codeVars, inputVars, outputVars, registered>>

\* With both lock and session the run is refused, which is Fail.
NothingToClear(v) ==
    /\ At(v, "clear")
    /\ ~seen[v].held /\ ~seen[v].alive
    /\ Go(v, "push")
    /\ UNCHANGED <<sessionVars, codeVars, inputVars, outputVars, registered>>

UpToDate(v) == sourceHash = "current" /\ seen[v].venv

\* Only the profile is pushed, and under WSL copied to where it is read.
SkipBundle(v) ==
    /\ At(v, "push")
    /\ UpToDate(v)
    /\ profiles' \in {profiles, profiles \cup {v}}
    /\ Go(v, "prep")
    /\ UNCHANGED <<sessionVars, codeVars, data, outputVars, registered>>

\* The bundle holds .source-hash, run_train.ps1 and the profile.  It is pushed
\* too when the hash is not answered.
Extract(v) ==
    /\ At(v, "push")
    /\ sourceHash' = "current"
    /\ runner' = TRUE
    /\ profiles' = profiles \cup {v}

Install(v) ==
    /\ Extract(v)
    /\ installed' = "current"
    /\ Go(v, "prep")
    /\ UNCHANGED <<sessionVars, data, outputVars, registered>>

\* The installer stops half-way, which may break the environment or leave the
\* old code in it.
InstallFails(v) ==
    /\ Extract(v)
    /\ installed' \in {installed, "broken"}
    /\ Stop(v)
    /\ UNCHANGED <<sessionVars, data, outputVars, registered>>

\* The base model is there, and finetune_voice prep rewrites data/.
Prepare(v) ==
    /\ At(v, "prep")
    /\ installed # "broken"
    /\ v \in profiles
    /\ data' = v
    /\ Go(v, "examine")
    /\ UNCHANGED <<sessionVars, codeVars, profiles, outputVars, registered>>

-----------------------------------------------------------------------------
(* The training.                                                           *)

\* A checkpoint is resumed whoever's it is, unless the answer does not come.
Examine(v) ==
    /\ At(v, "examine")
    /\ stage' = [stage EXCEPT ![v] = "lock"]
    /\ \E saved \in {FALSE, checkpoint # {}} :
          seen' = [seen EXCEPT ![v] = State(FALSE, FALSE, FALSE, saved)]
    /\ UNCHANGED <<platform, runs, digest, local, sessionVars, codeVars, inputVars,
                   outputVars, registered>>

\* flock -n ... -c 'echo locked': the lock is tried and let go.  Told that it is
\* busy the run ends, which is Fail; told nothing it goes on.
TryLock(v) ==
    /\ At(v, "lock")
    /\ Go(v, "launch")
    /\ UNCHANGED <<sessionVars, codeVars, inputVars, outputVars, registered>>

\* run_train.sh is written, or left as it was, or empty; an old session of the
\* name is killed, a new one made.
Launch(v) ==
    /\ At(v, "launch")
    /\ platform = "linux"
    /\ script' \in {script, "none", IF seen[v].saved THEN "resume" ELSE "fresh"}
    /\ session' = [session EXCEPT ![v] = "waiting"]
    /\ learning' = [learning EXCEPT ![v] = {}]
    /\ opened' = [opened EXCEPT ![v] = lockFile]
    /\ Go(v, "poll")
    /\ UNCHANGED <<lockFile, codeVars, inputVars, outputVars, registered>>

SlipLearnt(resuming) == {data} \cup (IF resuming THEN checkpoint ELSE {})

\* Nothing is learnt without data/.
Learnt(resuming) ==
    IF data = Nobody THEN {}
    ELSE {data} \cup (IF resuming THEN checkpoint ELSE {})

\* The trainer starts, and tee empties train.log.
Train(v, resuming) ==
    /\ session' = [session EXCEPT ![v] = "training"]
    /\ learning' = [learning EXCEPT ![v] = Learnt(resuming)]
    /\ log' = "running"

\* run_train.ps1, if it is there, without a lock.
LaunchInCall(v) ==
    /\ At(v, "launch")
    /\ platform = "windows"
    /\ runner
    /\ Train(v, seen[v].saved)
    /\ Go(v, "poll")
    /\ UNCHANGED <<opened, lockFile, script, codeVars, inputVars, checkpoint, adapter, merged,
                   registered>>

\* The session gets the flock.
Begin(v) ==
    /\ session[v] = "waiting"
    /\ \A w \in Voices : ~Holds(w, opened[v])
    /\ script # "none"
    /\ Train(v, script = "resume")
    /\ UNCHANGED <<platform, runVars, opened, lockFile, script, codeVars, inputVars,
                   checkpoint, adapter, merged, registered>>

\* With nothing to run under the flock the session is over, and train.log is
\* what it was.
NothingToRun(v) ==
    /\ session[v] = "waiting"
    /\ \A w \in Voices : ~Holds(w, opened[v])
    /\ script = "none"
    /\ Kill(v)
    /\ UNCHANGED <<platform, runVars, lockFile, script, codeVars, inputVars,
                   outputVars, registered>>

Epoch(v) ==
    /\ session[v] = "training"
    /\ learning[v] # {}
    /\ checkpoint' = learning[v]
    /\ UNCHANGED <<platform, runVars, sessionVars, codeVars, inputVars, adapter,
                   log, merged, registered>>

\* On Windows the call returns with the exit code.
CallReturns(v, good) ==
    IF platform = "linux" THEN UNCHANGED <<platform, runVars>>
    ELSE IF good THEN Go(v, "result") ELSE Stop(v)

SessionEnds(v) ==
    /\ session[v] = "training"
    /\ \E good \in BOOLEAN :
          /\ good => learning[v] # {}
          /\ IF good
             THEN adapter' = learning[v] /\ checkpoint' = learning[v]
             ELSE UNCHANGED <<adapter, checkpoint>>
          /\ log' = IF good THEN "ok" ELSE "failed"
          /\ CallReturns(v, good)
    /\ Kill(v)
    /\ UNCHANGED <<lockFile, script, codeVars, inputVars, merged, registered>>

\* The machine is restarted, or the session killed by hand.
SessionKilled(v) ==
    /\ Alive(v)
    /\ Kill(v)
    /\ UNCHANGED <<platform, runVars, lockFile, script, codeVars, inputVars,
                   outputVars, registered>>

SlipPolled(v) ==
    /\ At(v, "poll")
    /\ platform = "linux"
    /\ ~Alive(v)
    /\ log = "ok"
    /\ Go(v, "result")
    /\ UNCHANGED <<sessionVars, codeVars, inputVars, outputVars, registered>>

\* The session is gone.
Polled(v) ==
    /\ At(v, "poll")
    /\ platform = "linux"
    /\ ~Alive(v)
    /\ Go(v, "result")
    /\ UNCHANGED <<sessionVars, codeVars, inputVars, outputVars, registered>>

-----------------------------------------------------------------------------
(* After the training.                                                     *)

\* EXIT_CODE=0 is in the tail of the log; otherwise the run fails.
Result(v) ==
    /\ At(v, "result")
    /\ log = "ok"
    /\ Go(v, "merge")
    /\ UNCHANGED <<sessionVars, codeVars, inputVars, outputVars, registered>>

Merge(v) ==
    /\ At(v, "merge")
    /\ adapter # {}
    /\ merged' = adapter
    /\ Go(v, "hash")
    /\ UNCHANGED <<sessionVars, codeVars, inputVars, checkpoint, adapter, log,
                   registered>>

\* Hashing the shards takes longer than its minute, or does not.
Hash(v) ==
    /\ At(v, "hash")
    /\ stage' = [stage EXCEPT ![v] = "pull"]
    /\ \/ digest' = [digest EXCEPT ![v] = merged]
       \/ digest' = [digest EXCEPT ![v] = Unknown]
    /\ UNCHANGED <<platform, runs, seen, local, sessionVars, codeVars, inputVars,
                   outputVars, registered>>

\* The transfer says it succeeded; the bytes may be bad all the same.
Pull(v) ==
    /\ At(v, "pull")
    /\ merged # {}
    /\ stage' = [stage EXCEPT ![v] = "register"]
    /\ \E intact \in BOOLEAN :
          local' = [local EXCEPT ![v] = [of |-> merged, intact |-> intact]]
    /\ UNCHANGED <<platform, runs, seen, digest, sessionVars, codeVars, inputVars,
                   outputVars, registered>>

\* On Linux find hands sha256sum whole paths, and the local digest is made of
\* bare names: the two never agree.
Matches(v) ==
    \/ digest[v] = Unknown
    \/ /\ platform = "windows"
       /\ local[v].intact
       /\ local[v].of = digest[v]

\* A mismatch is an error, and so is a failing ollama create.
Register(v) ==
    /\ At(v, "register")
    /\ Matches(v)
    /\ registered' = [registered EXCEPT ![v] = local[v]]
    /\ Go(v, "cleanup")
    /\ UNCHANGED <<sessionVars, codeVars, inputVars, outputVars>>

\* The bundle, data/ and output/ go; train.log and .source-hash stay.
Cleanup(v) ==
    /\ At(v, "cleanup")
    /\ profiles' = {}
    /\ data' = Nobody
    /\ checkpoint' = {}
    /\ adapter' = {}
    /\ merged' = {}
    /\ runner' = (runner /\ platform = "linux")
    /\ Stop(v)
    /\ UNCHANGED <<sessionVars, installed, sourceHash, log, registered>>

\* The run is done all the same.
CleanupFails(v) ==
    /\ At(v, "cleanup")
    /\ Stop(v)
    /\ UNCHANGED <<sessionVars, codeVars, inputVars, outputVars, registered>>

-----------------------------------------------------------------------------

\* A fresh machine, or one set up by an older version.
Init ==
    /\ platform \in {"linux", "windows"}
    /\ runs = 0
    /\ stage = [v \in Voices |-> "idle"]
    /\ seen = [v \in Voices |-> NothingSeen]
    /\ digest = [v \in Voices |-> Unknown]
    /\ session = [v \in Voices |-> "none"]
    /\ learning = [v \in Voices |-> {}]
    /\ opened = [v \in Voices |-> 0]
    /\ lockFile = 0
    /\ script = "none"
    /\ \/ installed = "broken" /\ sourceHash = "none"
       \/ installed = "old" /\ sourceHash = "old"
    /\ runner = FALSE
    /\ profiles = {} /\ data = Nobody
    /\ checkpoint = {} /\ adapter = {} /\ merged = {}
    /\ log = "none"
    /\ local = [v \in Voices |-> NoModel]
    /\ registered = [v \in Voices |-> NoModel]

Step(v) ==
    \/ Probe(v) \/ RemoveLock(v) \/ KillOrphan(v) \/ NothingToClear(v)
    \/ SkipBundle(v) \/ Install(v) \/ InstallFails(v) \/ Prepare(v)
    \/ Examine(v) \/ TryLock(v) \/ Launch(v) \/ LaunchInCall(v) \/ Polled(v)
    \/ Result(v) \/ Merge(v) \/ Hash(v) \/ Pull(v) \/ Register(v) \/ Cleanup(v)
    \/ CleanupFails(v)

Session(v) == Begin(v) \/ NothingToRun(v) \/ Epoch(v) \/ SessionEnds(v) \/ SessionKilled(v)

Next == \E v \in Voices : StartRun(v) \/ Step(v) \/ Fail(v) \/ Session(v)

Spec == Init /\ [][Next]_vars

\* Every ssh command has a timeout, so it answers or the run goes on without
\* or ends.  The poll is asked again for ever: it is assumed to be answered in
\* the end.  The flock is blocking.
Fairness ==
    \A v \in Voices :
        /\ WF_vars(Step(v) \/ (Fail(v) /\ ~At(v, "poll")))
        /\ SF_vars(Begin(v) \/ NothingToRun(v))
        /\ WF_vars(SessionEnds(v))

FairSpec == Spec /\ Fairness

-----------------------------------------------------------------------------
(* Properties.                                                             *)

TypeOK ==
    /\ platform \in {"linux", "windows"}
    /\ runs \in 0..MaxRuns
    /\ stage \in [Voices -> Stages]
    /\ seen \in [Voices -> [held : BOOLEAN, alive : BOOLEAN, venv : BOOLEAN,
                            saved : BOOLEAN]]
    /\ digest \in [Voices -> Weights \cup {Unknown}]
    /\ session \in [Voices -> {"none", "waiting", "training"}]
    /\ learning \in [Voices -> Weights]
    /\ opened \in [Voices -> Nat] /\ lockFile \in Nat
    /\ script \in {"none", "fresh", "resume"}
    /\ installed \in {"broken", "old", "current"}
    /\ sourceHash \in {"none", "old", "current"}
    /\ profiles \in Weights
    /\ runner \in BOOLEAN
    /\ data \in Voices \cup {Nobody}
    /\ checkpoint \in Weights /\ adapter \in Weights /\ merged \in Weights
    /\ log \in {"none", "running", "ok", "failed"}
    /\ local \in [Voices -> [of : Weights, intact : BOOLEAN]]
    /\ registered \in [Voices -> [of : Weights, intact : BOOLEAN]]

\* What docs/remote-training-guide.md says, and the code does not keep: on Linux
\* flock prevents concurrent training.
TrainsAlone ==
    platform = "linux" =>
        \A v, w \in Voices :
            session[v] = "training" /\ session[w] = "training" => v = w

\* The checkpoints are removed only when a run has registered its model,
\* whatever fails before and whoever it fails for.  That a training started
\* without --resume overwrites them is not excluded.
CheckpointsSurvive ==
    [][checkpoint # {} /\ checkpoint' = {} =>
          \E v \in Voices : At(v, "cleanup") /\ registered[v].of # {}]_vars

\* Every run ends, registered or with an error, whatever happens to its
\* session, its lock and the other runs.
RunEnds == \A v \in Voices : ~At(v, "idle") ~> At(v, "idle")
=============================================================================
