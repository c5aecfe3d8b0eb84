-------------------------- MODULE TrainingPromise --------------------------
(***************************************************************************)
(* What the training server promises whoever polls it, whatever becomes of *)
(* its process, its threads and its files: one voice is trained at a time, *)
(* one job is open at a time while the server is up, a job said to be      *)
(* complete can be used, and the end of a job is the last word on it       *)
(* (routes_training.py, POST /train and GET /train/{job_id}).              *)
(***************************************************************************)

CONSTANT Jobs   \* the job ids

VARIABLES
    up,          \* the server answers
    answer,      \* what a poll of each job says, or would say
    training,    \* the job being trained, as a set of one at most
    registered   \* the jobs whose voice can be used

vars == <<up, answer, training, registered>>

Answers == {"absent", "unreadable", "open", "complete", "failed"}

NoneOpen == \A j \in Jobs : answer[j] # "open"

\* An end is never taken back, nor changed into another one.
Say(j, a) ==
    /\ answer[j] \notin {"complete", "failed"}
    /\ answer' = [answer EXCEPT ![j] = a]

\* 202, or 409 while a job is open.
Accept(j) ==
    /\ up
    /\ NoneOpen
    /\ answer[j] = "absent"
    /\ \E a \in {"open", "unreadable"} : Say(j, a)
    /\ UNCHANGED <<up, training, registered>>

Train(j) ==
    /\ up
    /\ training = {}
    /\ answer[j] \in {"open", "unreadable"}
    /\ training' = {j}
    /\ UNCHANGED <<up, answer, registered>>

Register(j) ==
    /\ answer[j] # "absent"
    /\ registered' = registered \cup {j}
    /\ UNCHANGED <<up, answer, training>>

\* The end may go unrecorded, when its file cannot be written or read.
End(j) ==
    /\ training = {j}
    /\ training' = {}
    /\ \E a \in {"complete", "failed", "unreadable", answer[j]} :
        /\ a = "complete" => j \in registered
        /\ Say(j, a)
    /\ UNCHANGED <<up, registered>>

GoDown ==
    /\ up
    /\ up' = FALSE
    /\ training' = {}
    /\ \/ UNCHANGED answer
       \/ \E j \in training, a \in {"open", "unreadable"} : Say(j, a)
    /\ UNCHANGED registered

\* What a server leaves open when it goes down, the next one closes.
Close(j) ==
    /\ ~up
    /\ answer[j] = "open"
    /\ \E a \in {"failed", "unreadable"} : Say(j, a)
    /\ UNCHANGED <<up, training, registered>>

ComeUp ==
    /\ ~up
    /\ NoneOpen
    /\ up' = TRUE
    /\ UNCHANGED <<answer, training, registered>>

Init ==
    /\ up = TRUE
    /\ answer = [j \in Jobs |-> "absent"]
    /\ training = {}
    /\ registered = {}

Next ==
    \/ \E j \in Jobs : Accept(j) \/ Train(j) \/ Register(j) \/ End(j) \/ Close(j)
    \/ GoDown
    \/ ComeUp

Spec == Init /\ [][Next]_vars
=============================================================================
