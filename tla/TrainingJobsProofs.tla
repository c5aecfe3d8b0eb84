-------------------------- MODULE TrainingJobsProofs --------------------------
(***************************************************************************)
(* What the training server promises, for every set of jobs: proofs for    *)
(* TrainingJobs.                                                           *)
(*                                                                         *)
(* The exclusion cannot rest on the files alone (a corrupt one blocks      *)
(* nobody), nor the finality of a file on its status alone: LockInv says   *)
(* that one task holds the lock, and OpenInv that a job with a task has a  *)
(* file that is not final, and that a stopped server has no tasks left.    *)
(* With FileInv (such a job has a file at all, and one file is open) every *)
(* step is one of TrainingPromise or a stutter.                            *)
(***************************************************************************)
EXTENDS TrainingJobs, TLAPS

USE DEF Stages, Active, Ended, Files, Outcomes, Holding, Tasks, Writes

\* One task has the lock at most.
LockInv == \A j, k \in Jobs : task[j] \in Holding /\ task[k] \in Holding => j = k

\* Only a job without a task has a final file, and a server that is down has
\* no tasks.
OpenInv ==
    \A j \in Jobs :
        /\ task[j] # "none" => disk[j] \notin Ended
        /\ ~up => task[j] = "none"

\* Success is noted in the task, the object and the file in that order, and
\* never before the model is registered.
DoneInv ==
    \A j \in Jobs :
        task[j] = "succeeded" \/ status[j] = "complete" \/ disk[j] = "complete"
            => j \in registered

Types ==
    /\ disk \in [Jobs -> Files]
    /\ status \in [Jobs -> Active \cup Ended]
    /\ task \in [Jobs -> Tasks]
    /\ threads \in SUBSET Jobs
    /\ registered \in SUBSET Jobs

IInv == Types /\ LockInv /\ OpenInv /\ DoneInv

-----------------------------------------------------------------------------
\* A write changes one file, to the status, to a corrupt one or not at all.
LEMMA PutWrites ==
  ASSUME Types, NEW j \in Jobs, NEW s \in Active \cup Ended, NEW w \in Writes,
         Put(j, s, w)
  PROVE  /\ disk' \in [Jobs -> Files]
         /\ \A k \in Jobs : k # j => disk'[k] = disk[k]
         /\ disk'[j] \in {s, "corrupt", disk[j]}
  BY DEF Types, Put

\* At startup there is no file, no task and no model.
LEMMA InitInv == Init => IInv
  BY DEF Init, IInv, Types, LockInv, OpenInv, DoneInv

\* A submission is let in beside no task, or beside one whose file was cut short.
LEMMA SubmitInv ==
  ASSUME IInv, NEW j \in Jobs, NEW w \in Writes, Submit(j, w)
  PROVE  IInv'
  <1>1. /\ disk' \in [Jobs -> Files]
        /\ \A k \in Jobs : k # j => disk'[k] = disk[k]
        /\ disk'[j] \in {"queued", "corrupt", disk[j]}
    BY PutWrites DEF Submit, IInv
  <1>2. Types'
    BY <1>1 DEF Submit, IInv, Types
  <1>3. LockInv'
    BY DEF Submit, IInv, Types, LockInv
  <1>4. OpenInv'
    BY <1>1 DEF Submit, IInv, Types, OpenInv
  <1>5. DoneInv'
    BY <1>1 DEF Submit, IInv, Types, DoneInv
  <1> QED
    BY <1>2, <1>3, <1>4, <1>5 DEF IInv

\* A task is over once its outcome is written, and holds the lock no more.
LEMMA ConcludeInv ==
  ASSUME IInv, NEW j \in Jobs, NEW w \in Writes, Conclude(j, w)
  PROVE  IInv'
  <1>0. /\ status'[j] = Final(task[j])
        /\ Final(task[j]) \in Active \cup Ended
        /\ Final(task[j]) = "complete" => task[j] = "succeeded"
    BY DEF Conclude, Final, IInv, Types
  <1>1. /\ disk' \in [Jobs -> Files]
        /\ \A k \in Jobs : k # j => disk'[k] = disk[k]
        /\ disk'[j] \in {Final(task[j]), "corrupt", disk[j]}
    BY <1>0, PutWrites DEF Conclude, IInv
  <1>2. Types'
    BY <1>0, <1>1 DEF Conclude, IInv, Types
  <1>3. LockInv'
    BY DEF Conclude, IInv, Types, LockInv
  <1>4. OpenInv'
    BY <1>1 DEF Conclude, IInv, Types, OpenInv
  <1>5. DoneInv'
    BY <1>0, <1>1 DEF Conclude, IInv, Types, DoneInv
  <1> QED
    BY <1>2, <1>3, <1>4, <1>5 DEF IInv

\* The steps of the task and the thread that write no file.
LEMMA PipelineInv ==
  ASSUME IInv, NEW j \in Jobs,
         \/ StartPipeline(j) \/ Advance(j) \/ PipelineDone(j) \/ PipelineRaises(j)
  PROVE  IInv'
  <1>1. CASE StartPipeline(j)
    BY <1>1 DEF StartPipeline, LockFree, IInv, Types, LockInv, OpenInv, DoneInv
  <1>2. CASE Advance(j)
    <2>1. StageAfter[status[j]] \in Stages
      BY <1>2 DEF Advance, StageAfter
    <2> QED
      BY <1>2, <2>1 DEF Advance, IInv, Types, LockInv, OpenInv, DoneInv
  <1>3. CASE PipelineDone(j)
    BY <1>3 DEF PipelineDone, ThreadEnds, IInv, Types, LockInv, OpenInv, DoneInv
  <1>4. CASE PipelineRaises(j)
    BY <1>4 DEF PipelineRaises, ThreadEnds, IInv, Types, LockInv, OpenInv, DoneInv
  <1> QED
    BY <1>1, <1>2, <1>3, <1>4

\* A stop writes over files of jobs that have not ended only.
LEMMA StopInv ==
  ASSUME IInv, NEW w \in Writes, Stop(w)
  PROVE  IInv'
  <1>1. CASE UNCHANGED disk
    BY <1>1 DEF Stop, IInv, Types, LockInv, OpenInv, DoneInv
  <1>2. ASSUME NEW j \in Jobs, Put(j, status[j], w)
        PROVE  IInv'
    <2>1. /\ disk' \in [Jobs -> Files]
          /\ \A k \in Jobs : k # j => disk'[k] = disk[k]
          /\ disk'[j] \in {status[j], "corrupt", disk[j]}
      BY <1>2, PutWrites DEF IInv, Types
    <2> QED
      BY <2>1 DEF Stop, IInv, Types, LockInv, OpenInv, DoneInv
  <1> QED
    BY <1>1, <1>2 DEF Stop

\* A crash leaves no task, and a recovery writes over open files only.
LEMMA StartupInv ==
  ASSUME IInv, Crash \/ Startup
  PROVE  IInv'
  <1>1. CASE Crash
    BY <1>1 DEF Crash, IInv, Types, LockInv, OpenInv, DoneInv
  <1>2. CASE Start
    BY <1>2 DEF Start, IInv, Types, LockInv, OpenInv, DoneInv
  <1>3. ASSUME NEW j \in Jobs, NEW w \in Writes, Recover(j, w)
        PROVE  IInv'
    <2>1. /\ disk' \in [Jobs -> Files]
          /\ \A k \in Jobs : k # j => disk'[k] = disk[k]
          /\ disk'[j] \in {"failed", "corrupt", disk[j]}
      BY <1>3, PutWrites DEF Recover, IInv
    <2> QED
      BY <1>3, <2>1 DEF Recover, IInv, Types, LockInv, OpenInv, DoneInv
  <1> QED
    BY <1>1, <1>2, <1>3 DEF Startup

\* Every step keeps the invariant.
LEMMA NextInv == IInv /\ [Next]_vars => IInv'
  <1> SUFFICES ASSUME IInv, [Next]_vars PROVE IInv'
    OBVIOUS
  <1>1. CASE UNCHANGED vars
    BY <1>1 DEF vars, IInv, Types, LockInv, OpenInv, DoneInv
  <1> QED
    BY <1>1, SubmitInv, ConcludeInv, PipelineInv, StopInv, StartupInv
       DEF Next, Worker

\* The inductive invariant holds of every behaviour.
THEOREM Invariance == Spec => []IInv
  BY InitInv, NextInv, PTL DEF Spec

-----------------------------------------------------------------------------
\* The two Boolean variables are Boolean, and the rest is in IInv.
THEOREM TypeCorrect == Spec => []TypeOK
  <1> DEFINE Flags == up \in BOOLEAN /\ putRaised \in BOOLEAN
  <1>1. Init => Flags
    BY Zenon DEF Init
  <1>2. Flags /\ [Next]_vars => Flags'
    <2> SUFFICES ASSUME Flags, [Next]_vars PROVE Flags'
      OBVIOUS
    <2>1. CASE UNCHANGED vars
      BY <2>1, Zenon DEF vars
    <2>2. ASSUME NEW j \in Jobs, NEW w \in Writes,
                 Submit(j, w) \/ Conclude(j, w) \/ Recover(j, w)
          PROVE  Flags'
      BY <2>2, Zenon DEF Submit, Conclude, Recover
    <2>3. ASSUME NEW j \in Jobs, Worker(j)
          PROVE  Flags'
      BY <2>2, <2>3, Zenon DEF Worker, StartPipeline, Advance, PipelineDone,
            PipelineRaises, ThreadEnds
    <2>4. ASSUME NEW w \in Writes, Stop(w)
          PROVE  Flags'
      BY <2>4, Zenon DEF Stop
    <2>5. CASE Crash
      BY <2>5, Zenon DEF Crash
    <2>6. CASE Start
      BY <2>6, Zenon DEF Start
    <2> QED
      BY <2>1, <2>2, <2>3, <2>4, <2>5, <2>6, Zenon DEF Next, Startup
  <1>3. IInv /\ Flags => TypeOK
    BY Zenon DEF IInv, Types, TypeOK
  <1> QED
    BY <1>1, <1>2, <1>3, Invariance, PTL DEF Spec

\* A task or a thread has a job with a file, the one with the lock has not said
\* how it ended, and of the files one is open while the server is up.
Begun(j) == task[j] # "none" \/ j \in threads

FileInv ==
    /\ \A j \in Jobs : Begun(j) => disk[j] # "absent"
    /\ \A j \in Jobs : task[j] \in Holding => status[j] \in Active
    /\ OneOpenPerServer

\* No task and no file: there is nothing to relate.
LEMMA FileInvInit == Init => FileInv
  BY DEF Init, FileInv, Begun, OneOpenPerServer

\* Every step keeps a file behind each task and one file open at most.
LEMMA FileInvNext == IInv /\ FileInv /\ [Next]_vars => FileInv'
  <1> SUFFICES ASSUME IInv, FileInv, [Next]_vars PROVE FileInv'
    OBVIOUS
  <1>0. Types
    BY DEF IInv
  <1>1. CASE UNCHANGED vars
    BY <1>1 DEF vars, FileInv, Begun, OneOpenPerServer
  <1>2. ASSUME NEW j \in Jobs, NEW w \in Writes, Submit(j, w)
        PROVE  FileInv'
    <2>1. /\ \A k \in Jobs : k # j => disk'[k] = disk[k] /\ disk[k] \notin Active
          /\ disk'[j] \in {"queued", "corrupt"}
      BY <1>0, <1>2 DEF Submit, Put, Types, Blocked
    <2> QED
      BY <1>0, <1>2, <2>1 DEF Submit, FileInv, Begun, OneOpenPerServer, Types
  <1>3. ASSUME NEW j \in Jobs, NEW w \in Writes, Conclude(j, w)
        PROVE  FileInv'
    <2>1. /\ \A k \in Jobs : k # j => disk'[k] = disk[k]
          /\ disk'[j] \in {"complete", "failed", "corrupt", disk[j]}
      BY <1>0, <1>3 DEF Conclude, Final, Put, Types
    <2> QED
      BY <1>0, <1>3, <2>1 DEF Conclude, FileInv, Begun, OneOpenPerServer, Types
  <1>4. ASSUME NEW j \in Jobs,
               StartPipeline(j) \/ Advance(j) \/ PipelineDone(j) \/ PipelineRaises(j)
        PROVE  FileInv'
    <2>1. disk' = disk /\ up' = up
      BY <1>4 DEF StartPipeline, Advance, PipelineDone, PipelineRaises, ThreadEnds
    <2>2. \A k \in Jobs : Begun(k)' => Begun(k)
      BY <1>0, <1>4 DEF StartPipeline, Advance, PipelineDone, PipelineRaises,
         ThreadEnds, Begun, Types
    <2>3. \A k \in Jobs : task'[k] \in Holding => status'[k] \in Active
      <3>1. \A k \in Jobs : k # j => task'[k] = task[k] /\ status'[k] = status[k]
        BY <1>0, <1>4 DEF StartPipeline, Advance, PipelineDone, PipelineRaises,
           ThreadEnds, Types
      <3>2. task'[j] \in Holding => status'[j] \in Active
        <4>1. CASE StartPipeline(j)
          BY <1>0, <4>1 DEF StartPipeline, Types
        <4>2. CASE Advance(j)
          <5>1. StageAfter[status[j]] \in Stages
            BY <4>2 DEF Advance, StageAfter
          <5> QED BY <1>0, <4>2, <5>1 DEF Advance, Types
        <4>3. CASE PipelineDone(j) \/ PipelineRaises(j)
          BY <1>0, <4>3 DEF PipelineDone, PipelineRaises, ThreadEnds, FileInv, Types
        <4> QED BY <1>4, <4>1, <4>2, <4>3
      <3> QED BY <3>1, <3>2 DEF FileInv
    <2> QED
      BY <2>1, <2>2, <2>3 DEF FileInv, OneOpenPerServer
  <1>5. ASSUME NEW w \in Writes, Stop(w)
        PROVE  FileInv'
    <2>1. \A k \in Jobs : disk[k] # "absent" => disk'[k] # "absent"
      BY <1>0, <1>5 DEF Stop, Put, Types
    <2> QED
      BY <1>0, <1>5, <2>1 DEF Stop, FileInv, Begun, OneOpenPerServer, Types
  <1>6. CASE Crash
    BY <1>0, <1>6 DEF Crash, FileInv, Begun, OneOpenPerServer, Types
  <1>7. CASE Start
    BY <1>7 DEF Start, Stale, FileInv, Begun, OneOpenPerServer
  <1>8. ASSUME NEW j \in Jobs, NEW w \in Writes, Recover(j, w)
        PROVE  FileInv'
    <2>1. \A k \in Jobs : disk[k] # "absent" => disk'[k] # "absent"
      BY <1>0, <1>8 DEF Recover, Put, Types
    <2> QED
      BY <1>0, <1>8, <2>1 DEF Recover, FileInv, Begun, OneOpenPerServer, Types
  <1> QED
    BY <1>1, <1>2, <1>3, <1>4, <1>5, <1>6, <1>7, <1>8 DEF Next, Worker, Startup

\* What the mapping needs of files and tasks holds for ever (worker.py,
\* submit_training_job and _run_training).
THEOREM FileInvariance == Spec => []FileInv
  BY FileInvInit, FileInvNext, Invariance, PTL DEF Spec

\* A server trains one voice at a time, whatever the files say, and has one job
\* open at a time, whatever becomes of the files.
THEOREM JobsOKThm == Spec => []JobsOK
  <1>1. IInv => OneTrainingPerServer
    BY DEF IInv, Types, LockInv, OneTrainingPerServer
  <1>2. FileInv => OneOpenPerServer
    BY DEF FileInv
  <1> QED
    BY <1>1, <1>2, TypeCorrect, Invariance, FileInvariance, PTL DEF JobsOK

\* A job reported complete is registered.
THEOREM CompleteIsRegisteredThm == Spec => []CompleteIsRegistered
  <1>1. IInv => CompleteIsRegistered
    BY DEF IInv, DoneInv, CompleteIsRegistered
  <1> QED
    BY <1>1, Invariance, PTL

\* The step EndedIsFinal allows.
FinalStep == \A j \in Jobs : disk[j] \in Ended => disk'[j] = disk[j]

\* No step writes over the file of an ended job.
LEMMA FinalNext == IInv /\ [Next]_vars => [FinalStep]_vars
  <1> SUFFICES ASSUME IInv, Next, NEW i \in Jobs, disk[i] \in Ended
               PROVE  disk'[i] = disk[i]
    BY DEF FinalStep
  <1>0. task[i] = "none" /\ Types
    BY DEF IInv, Types, OpenInv
  <1>1. ASSUME NEW j \in Jobs, NEW w \in Writes,
               Submit(j, w) \/ Conclude(j, w) \/ Recover(j, w)
        PROVE  disk'[i] = disk[i]
    <2>1. i # j
      BY <1>0, <1>1 DEF Submit, Conclude, Recover, Stale
    <2> QED
      BY <1>0, <1>1, <2>1 DEF Submit, Conclude, Recover, Put, Types
  <1>2. ASSUME NEW w \in Writes, Stop(w)
        PROVE  disk'[i] = disk[i]
    BY <1>0, <1>2 DEF Stop, Put, Types
  <1>3. CASE UNCHANGED disk
    BY <1>3
  <1> QED
    BY <1>1, <1>2, <1>3 DEF Next, Worker, StartPipeline, Advance, PipelineDone,
       PipelineRaises, ThreadEnds, Crash, Startup, Start

\* The file of an ended job is never rewritten.
THEOREM EndedIsFinalThm == Spec => EndedIsFinal
  BY FinalNext, Invariance, PTL DEF Spec, EndedIsFinal, FinalStep

-----------------------------------------------------------------------------
(* The refinement: what a poll says, and the job whose task has the lock.  *)

\* A file that is not an end may be written over, with what is put, with
\* something unreadable or not at all.
LEMMA PutSays ==
  ASSUME Types, NEW j \in Jobs, NEW s \in Active \cup Ended, NEW w \in Writes,
         disk[j] \notin Ended, Put(j, s, w)
  PROVE  /\ Promise!Say(j, Said(disk'[j]))
         /\ Said(disk'[j]) \in {Said(s), "unreadable", Said(disk[j])}
  <1>1. /\ disk' \in [Jobs -> Files]
        /\ \A k \in Jobs : k # j => disk'[k] = disk[k]
        /\ disk'[j] \in {s, "corrupt", disk[j]}
    BY PutWrites
  <1>2. Said(disk[j]) \notin {"complete", "failed"}
    BY DEF Said, Types
  <1> QED
    BY <1>1, <1>2 DEF Promise!Say, Said

\* What is open is what an active file says.
LEMMA OpenIs ==
  ASSUME Types
  PROVE  /\ \A j \in Jobs : Said(disk[j]) = "open" <=> disk[j] \in Active
         /\ \A j \in Jobs : Said(disk[j]) = "absent" <=> disk[j] = "absent"
         /\ Promise!NoneOpen <=> \A j \in Jobs : disk[j] \notin Active
  BY DEF Types, Said, Promise!NoneOpen

\* Initial states map to initial states of the promise.
LEMMA PromiseInit == Init => Promise!Init
  BY DEF Init, Promise!Init, Said

\* A submission let in is a job accepted.
LEMMA SubmitKeeps ==
  ASSUME IInv, FileInv, NEW j \in Jobs, NEW w \in Writes, Submit(j, w)
  PROVE  Promise!Accept(j)
  <1>1. Promise!Say(j, Said(disk'[j])) /\ Said(disk'[j]) \in {"open", "unreadable"}
    <2>1. Types /\ Put(j, "queued", w) /\ disk[j] \notin Ended
      BY DEF IInv, Submit
    <2>2. disk'[j] \in {"queued", "corrupt"}
      BY <2>1 DEF Submit, Put, Types
    <2> QED
      BY <2>1, <2>2, PutSays DEF Said
  <1>2. Promise!NoneOpen /\ Said(disk[j]) = "absent"
    BY OpenIs DEF IInv, Submit, Blocked
  <1>3. {k \in Jobs : task'[k] \in Holding} = {k \in Jobs : task[k] \in Holding}
    BY DEF Submit, IInv, Types, FileInv, Begun
  <1> QED
    BY <1>1, <1>2, <1>3 DEF Promise!Accept, Submit

\* An outcome written is the end of a job.
LEMMA ConcludeKeeps ==
  ASSUME IInv, NEW j \in Jobs, NEW w \in Writes, Conclude(j, w)
  PROVE  Promise!End(j)
  <1>1. {k \in Jobs : task[k] \in Holding} = {j} /\ {k \in Jobs : task'[k] \in Holding} = {}
    BY DEF Conclude, IInv, Types, LockInv
  <1>2. \E a \in {"complete", "failed", "unreadable", Said(disk[j])} :
            (a = "complete" => j \in registered) /\ Promise!Say(j, a)
    <2>1. Types /\ Put(j, Final(task[j]), w) /\ disk[j] \notin Ended
          /\ Final(task[j]) \in {"complete", "failed"}
      BY DEF IInv, Conclude, Final, Types, OpenInv
    <2>2. /\ Promise!Say(j, Said(disk'[j]))
          /\ Said(disk'[j]) \in {Said(Final(task[j])), "unreadable", Said(disk[j])}
      BY <2>1, PutSays
    <2>3. Said(Final(task[j])) = Final(task[j])
      BY <2>1 DEF Said
    <2>4. Said(disk'[j]) = "complete" => j \in registered
      <3>1. Said(disk'[j]) = "complete" => disk'[j] = "complete"
        BY <2>1, PutWrites DEF Said
      <3>2. DoneInv' /\ registered' = registered
        BY ConcludeInv DEF IInv, Conclude
      <3> QED
        BY <3>1, <3>2 DEF DoneInv
    <2> QED
      BY <2>1, <2>2, <2>3, <2>4
  <1> QED
    BY <1>1, <1>2 DEF Promise!End, Conclude

\* A thread that ends without an outcome to show is a stutter.
LEMMA PipelineKeeps ==
  ASSUME IInv, FileInv, NEW j \in Jobs,
         StartPipeline(j) \/ Advance(j) \/ PipelineDone(j) \/ PipelineRaises(j)
  PROVE  Promise!Train(j) \/ Promise!Register(j) \/ UNCHANGED Promise!vars
  <1>0. Types /\ disk' = disk /\ up' = up
    BY DEF IInv, StartPipeline, Advance, PipelineDone, PipelineRaises, ThreadEnds
  <1>1. CASE StartPipeline(j)
    <2>1. up /\ Said(disk[j]) \in {"open", "unreadable"}
      BY <1>0, <1>1 DEF StartPipeline, IInv, Types, OpenInv, FileInv, Begun, Said
    <2>2. {k \in Jobs : task[k] \in Holding} = {}
      BY <1>1 DEF StartPipeline, LockFree
    <2>3. {k \in Jobs : task'[k] \in Holding} = {j}
      BY <1>0, <1>1 DEF StartPipeline, LockFree, Types
    <2> QED
      BY <1>0, <1>1, <2>1, <2>2, <2>3 DEF Promise!Train, StartPipeline
  <1>2. CASE Advance(j)
    BY <1>0, <1>2 DEF Advance, Promise!vars
  <1>3. ASSUME NEW outcome \in Outcomes, ThreadEnds(j, outcome)
        PROVE  {k \in Jobs : task'[k] \in Holding} = {k \in Jobs : task[k] \in Holding}
    BY <1>0, <1>3 DEF ThreadEnds, Types
  <1>4. CASE PipelineDone(j)
    <2>1. Said(disk[j]) # "absent"
      BY <1>0, <1>4, OpenIs DEF PipelineDone, ThreadEnds, FileInv, Begun
    <2> QED
      BY <1>0, <1>3, <1>4, <2>1 DEF PipelineDone, Promise!Register
  <1>5. CASE PipelineRaises(j)
    BY <1>0, <1>3, <1>5 DEF PipelineRaises, Promise!vars
  <1> QED
    BY <1>1, <1>2, <1>4, <1>5

\* A stop and a crash are the same to who polls.
LEMMA DownKeeps ==
  ASSUME IInv, FileInv, Crash \/ \E w \in Writes : Stop(w)
  PROVE  Promise!GoDown
  <1>1. Types /\ {k \in Jobs : task'[k] \in Holding} = {} /\ up /\ ~up'
        /\ registered' = registered
    BY DEF IInv, Crash, Stop
  <1>2. CASE UNCHANGED disk
    BY <1>1, <1>2 DEF Promise!GoDown
  <1>3. ASSUME NEW w \in Writes, NEW j \in Jobs, task[j] \in Holding, Put(j, status[j], w)
        PROVE  Promise!GoDown
    <2>1. status[j] \in Active /\ disk[j] \notin Ended /\ disk[j] # "absent"
      BY <1>3 DEF FileInv, Begun, IInv, OpenInv
    <2>2. Said(disk'[j]) \in {"open", "unreadable"}
      BY <1>1, <1>3, <2>1, PutSays DEF Said, Types
    <2>3. Promise!Say(j, Said(disk'[j]))
      BY <1>1, <1>3, <2>1, PutSays
    <2>4. j \in {k \in Jobs : task[k] \in Holding}
      BY <1>3
    <2> QED
      BY <1>1, <2>2, <2>3, <2>4 DEF Promise!GoDown
  <1> QED
    BY <1>2, <1>3 DEF Crash, Stop

\* A write that raises ends the startup and shows nothing.
LEMMA StartupKeeps ==
  ASSUME IInv, Startup
  PROVE  \/ Promise!ComeUp \/ \E j \in Jobs : Promise!Close(j)
         \/ UNCHANGED Promise!vars
  <1>0. Types
    BY DEF IInv
  <1>1. CASE Start
    <2>1. Promise!NoneOpen
      BY <1>0, <1>1, OpenIs DEF Start, Stale
    <2> QED
      BY <1>1, <2>1 DEF Start, Promise!ComeUp
  <1>2. ASSUME NEW j \in Jobs, NEW w \in Writes, Recover(j, w), disk' # disk
        PROVE  Promise!Close(j)
    <2>1. disk'[j] \in {"failed", "corrupt"}
      BY <1>0, <1>2 DEF Recover, Put, Types
    <2>2. Promise!Say(j, Said(disk'[j])) /\ Said(disk[j]) = "open"
      BY <1>0, <1>2, PutSays, OpenIs DEF Recover, Stale
    <2>3. Said(disk'[j]) \in {"failed", "unreadable"}
      BY <2>1 DEF Said
    <2> QED
      BY <1>2, <2>2, <2>3 DEF Recover, Promise!Close
  <1>3. ASSUME NEW j \in Jobs, NEW w \in Writes, Recover(j, w), disk' = disk
        PROVE  UNCHANGED Promise!vars
    BY <1>3 DEF Recover, Promise!vars
  <1> QED
    BY <1>1, <1>2, <1>3 DEF Startup

\* Every step maps to a step of the promise or to a stutter.
LEMMA PromiseStep == IInv /\ FileInv /\ [Next]_vars => [Promise!Next]_(Promise!vars)
  <1> SUFFICES ASSUME IInv, FileInv, [Next]_vars
               PROVE  Promise!Next \/ UNCHANGED Promise!vars
    OBVIOUS
  <1>1. CASE UNCHANGED vars
    BY <1>1 DEF vars, Promise!vars
  <1>2. ASSUME NEW j \in Jobs, NEW w \in Writes, Submit(j, w)
        PROVE  Promise!Next
    BY <1>2, SubmitKeeps DEF Promise!Next
  <1>3. ASSUME NEW j \in Jobs, Worker(j)
        PROVE  Promise!Next \/ UNCHANGED Promise!vars
    BY <1>3, ConcludeKeeps, PipelineKeeps DEF Worker, Promise!Next
  <1>4. CASE Crash \/ \E w \in Writes : Stop(w)
    BY <1>4, DownKeeps DEF Promise!Next
  <1>5. CASE Startup
    BY <1>5, StartupKeeps DEF Promise!Next
  <1> QED
    BY <1>1, <1>2, <1>3, <1>4, <1>5 DEF Next

\* Whoever polls the server is kept its promise, for any number of jobs: however
\* stops, crashes, threads and damaged files follow each other, every step is one
\* TrainingPromise allows, or shows nothing (routes_training.py).
THEOREM Refines == Spec => KeepsPromise
  <1>1. Init => Promise!Init
    BY PromiseInit
  <1> QED
    BY <1>1, PromiseStep, Invariance, FileInvariance, PTL DEF Spec, KeepsPromise, Promise!Spec
=============================================================================
