---------------------------- MODULE TrainingJobs ----------------------------
(***************************************************************************)
(* Voice training on the TokenPal server: submission and the background    *)
(* task (server/worker.py), the job files (server/job_store.py) and their  *)
(* recovery at startup (server/app.py, lifespan).                          *)
(*                                                                         *)
(* A job lives in three places: its file, which answers every poll and     *)
(* guards submissions; its object, which the pipeline thread updates; and  *)
(* the asyncio task that holds the GPU lock and writes the file again at   *)
(* the end.  The server may be stopped or killed at any moment.  A stop    *)
(* cancels the task but not the thread, which goes on while the process is *)
(* on its way out, and may outlive the start of the next server.  The next *)
(* server is taken to start once the tasks of the last are cancelled, as   *)
(* under the systemd unit the installer writes, which waits for longer.    *)
(*                                                                         *)
(* An operator named Slip... is a definition with a plausible mistake in   *)
(* it, next to the one it imitates; no action uses it.                     *)
(***************************************************************************)

CONSTANT Jobs   \* the job ids ever drawn

VARIABLES
    up,          \* a server is answering
    disk,        \* what each job's file says
    status,      \* job.status of each job's object
    task,        \* the background task of each job
    threads,     \* the jobs a pipeline thread is working on
    registered,  \* the jobs whose model reached the inference engine
    putRaised    \* history: a write of a finished job's file raised

vars == <<up, disk, status, task, threads, registered, putRaised>>

Stages == {"fetching", "preparing", "training", "merging", "registering"}
Active == {"queued"} \cup Stages                 \* _ACTIVE_STATUSES
Ended == {"complete", "failed"}
Files == {"absent", "corrupt"} \cup Active \cup Ended

\* The task waits for the lock, awaits the thread, or has its outcome.
Outcomes == {"succeeded", "raised"}
Holding == {"running"} \cup Outcomes
Tasks == {"none", "queued"} \cup Holding

StageAfter == [fetching  |-> "preparing", preparing |-> "training",
               training  |-> "merging",   merging   |-> "registering"]

\* Of put: written, cut short (a corrupt file, and no exception), or raised.
Writes == {"written", "short", "raised"}

Put(j, s, w) ==
    disk' = [disk EXCEPT ![j] = CASE w = "written" -> s
                                  [] w = "short"   -> "corrupt"
                                  [] w = "raised"  -> @]

\* get_active: a file that does not parse is passed over.
Blocked == \E j \in Jobs : disk[j] \in Active

-----------------------------------------------------------------------------
(* The server.                                                             *)

\* submit_training_job: no await between the check and the file.  A write
\* that raises leaves nothing behind, not even a task.
Submit(j, w) ==
    /\ up
    /\ disk[j] = "absent"
    /\ ~Blocked
    /\ w # "raised"
    /\ Put(j, "queued", w)
    /\ status' = [status EXCEPT ![j] = "queued"]
    /\ task' = [task EXCEPT ![j] = "queued"]
    /\ UNCHANGED <<up, threads, registered, putRaised>>

SlipLockFree == TRUE

\* _training_lock.
LockFree == \A j \in Jobs : task[j] \notin Holding

StartPipeline(j) ==
    /\ task[j] = "queued"
    /\ LockFree
    /\ task' = [task EXCEPT ![j] = "running"]
    /\ threads' = threads \cup {j}
    /\ status' = [status EXCEPT ![j] = "fetching"]
    /\ UNCHANGED <<up, disk, registered, putRaised>>

Final(outcome) == IF outcome = "succeeded" THEN "complete" ELSE "failed"

SlipConclude(j, w) ==
    /\ task[j] \in Outcomes
    /\ status' = [status EXCEPT ![j] = "complete"]
    /\ Put(j, status'[j], w)
    /\ task' = [task EXCEPT ![j] = "none"]
    /\ putRaised' = (putRaised \/ w = "raised")
    /\ UNCHANGED <<up, threads, registered>>

\* The rest of _run_training, which ends with the job's file.
Conclude(j, w) ==
    /\ task[j] \in Outcomes
    /\ status' = [status EXCEPT ![j] = Final(task[j])]
    /\ Put(j, status'[j], w)
    /\ task' = [task EXCEPT ![j] = "none"]
    /\ putRaised' = (putRaised \/ w = "raised")
    /\ UNCHANGED <<up, threads, registered>>

-----------------------------------------------------------------------------
(* The pipeline thread.                                                    *)

Advance(j) ==
    /\ j \in threads
    /\ status[j] \in DOMAIN StageAfter
    /\ status' = [status EXCEPT ![j] = StageAfter[@]]
    /\ UNCHANGED <<up, disk, task, threads, registered, putRaised>>

\* The thread's outcome reaches its task, if there still is one.
ThreadEnds(j, outcome) ==
    /\ j \in threads
    /\ threads' = threads \ {j}
    /\ task' = IF task[j] = "running" THEN [task EXCEPT ![j] = outcome] ELSE task
    /\ UNCHANGED <<up, disk, status, putRaised>>

PipelineDone(j) ==
    /\ status[j] = "registering"
    /\ ThreadEnds(j, "succeeded")
    /\ registered' = registered \cup {j}

\* Any stage may raise: too few lines, no GPU, no memory, no registration.
PipelineRaises(j) ==
    /\ ThreadEnds(j, "raised")
    /\ UNCHANGED registered

-----------------------------------------------------------------------------
(* The process.                                                            *)

\* A stop cancels the tasks: the one holding the lock writes its job's file
\* with the status of the moment, the others leave theirs as they are.
Stop(w) ==
    /\ up
    /\ up' = FALSE
    /\ task' = [j \in Jobs |-> "none"]
    /\ \/ /\ LockFree
          /\ UNCHANGED disk
       \/ \E j \in Jobs : task[j] \in Holding /\ Put(j, status[j], w)
    /\ UNCHANGED <<status, threads, registered, putRaised>>

\* A crash takes the server's own thread along, and no file is written.
Crash ==
    /\ up
    /\ up' = FALSE
    /\ task' = [j \in Jobs |-> "none"]
    /\ threads' = {j \in threads : task[j] = "none"}
    /\ UNCHANGED <<disk, status, registered, putRaised>>

SlipStale(j) == disk[j] # "absent"

Stale(j) == disk[j] \in Active

\* recover_stale_jobs, one file at a time; a write that raises ends the
\* startup.
Recover(j, w) ==
    /\ ~up
    /\ Stale(j)
    /\ Put(j, "failed", w)
    /\ UNCHANGED <<up, status, task, threads, registered, putRaised>>

SlipStart ==
    /\ ~up
    /\ up' = TRUE
    /\ UNCHANGED <<disk, status, task, threads, registered, putRaised>>

Start ==
    /\ ~up
    /\ \A j \in Jobs : ~Stale(j)
    /\ up' = TRUE
    /\ UNCHANGED <<disk, status, task, threads, registered, putRaised>>

-----------------------------------------------------------------------------
Init ==
    /\ up = TRUE
    /\ disk = [j \in Jobs |-> "absent"]
    /\ status = [j \in Jobs |-> "queued"]
    /\ task = [j \in Jobs |-> "none"]
    /\ threads = {}
    /\ registered = {}
    /\ putRaised = FALSE

Worker(j) ==
    \/ StartPipeline(j) \/ Advance(j) \/ PipelineDone(j) \/ PipelineRaises(j)
    \/ \E w \in Writes : Conclude(j, w)

Startup == Start \/ \E j \in Jobs, w \in Writes : Recover(j, w)

Recovered(j) == Recover(j, "written")

Next ==
    \/ \E j \in Jobs, w \in Writes : Submit(j, w)
    \/ \E j \in Jobs : Worker(j)
    \/ \E w \in Writes : Stop(w)
    \/ Crash
    \/ Startup

Spec == Init /\ [][Next]_vars

\* Tasks and threads run, a stopped server is started again, and its startup
\* does not fail for ever on the same file.
FairSpec ==
    /\ Spec
    /\ \A j \in Jobs : WF_vars(Worker(j)) /\ WF_vars(Recovered(j))
    /\ WF_vars(Start)

-----------------------------------------------------------------------------
TypeOK ==
    /\ up \in BOOLEAN
    /\ disk \in [Jobs -> Files]
    /\ status \in [Jobs -> Active \cup Ended]
    /\ task \in [Jobs -> Tasks]
    /\ threads \in SUBSET Jobs
    /\ registered \in SUBSET Jobs
    /\ putRaised \in BOOLEAN

\* A server never trains two voices at once, although a job whose file was cut
\* short does not block the next submission (_run_training, the GPU lock).
OneTrainingPerServer ==
    \A j, k \in threads : task[j] = "running" /\ task[k] = "running" => j = k

\* While a server is up, what blocks a submission is one job, although files
\* get lost and a stop may write one anew (submit_training_job, get_active).
OneOpenPerServer ==
    up => \A j, k \in Jobs : disk[j] \in Active /\ disk[k] \in Active => j = k

\* Types, and one job at a time both in the thread and in the files.
JobsOK == TypeOK /\ OneTrainingPerServer /\ OneOpenPerServer

\* What the last poll of a job said is final: neither a recovery, nor a thread
\* that outlives its server, nor a stop rewrites the file of an ended job.
EndedIsFinal ==
    [][\A j \in Jobs : disk[j] \in Ended => disk'[j] = disk[j]]_vars

\* A job reported complete has its model registered, whatever was stopped,
\* killed and recovered in between.
CompleteIsRegistered ==
    \A j \in Jobs : disk[j] = "complete" => j \in registered

\* Whoever polls is kept the promise of TrainingPromise: the stages are not told
\* apart, and a job is being trained for as long as its task holds the lock.
Said(file) == IF file \in Active THEN "open"
              ELSE IF file = "corrupt" THEN "unreadable" ELSE file

Promise == INSTANCE TrainingPromise WITH
    answer <- [j \in Jobs |-> Said(disk[j])],
    training <- {j \in Jobs : task[j] \in Holding}

KeepsPromise == Promise!Spec

\* One job does not block the server for ever: it ends, or a restart recovers
\* it, unless the write of a finished job's file raises.
Unblocks == [](~putRaised) => (Blocked ~> ~Blocked)
=============================================================================
