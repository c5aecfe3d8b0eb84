---------------------------- MODULE NudgePromise ----------------------------
(***************************************************************************)
(* What the reminder subsystem promises the user, whatever the model, the  *)
(* event loop and the clock do: a bubble shows one fire of a reminder and  *)
(* no fire is shown twice, bubbles are at least Gap apart, and none appears *)
(* while nudges are paused (brain/proactive.py's design rules and          *)
(* Brain._deliver_nudge's docstring).                                      *)
(***************************************************************************)
EXTENDS Naturals

CONSTANTS
    Ids,   \* reminder ids
    Gap    \* MIN_NUDGE_GAP_S

VARIABLES
    owed,    \* the fires of each reminder not yet shown or given up
    since,   \* time since the last bubble, Gap when it is at least that
    paused   \* nudges are paused

vars == <<owed, since, paused>>

Fire(id) ==
    /\ ~paused
    /\ owed' = [owed EXCEPT ![id] = @ + 1]
    /\ UNCHANGED <<since, paused>>

Show(id) ==
    /\ ~paused
    /\ since = Gap
    /\ owed[id] > 0
    /\ owed' = [owed EXCEPT ![id] = @ - 1]
    /\ since' = 0
    /\ UNCHANGED paused

\* A fire is given up only because nudges were paused before it was shown.
GiveUp(id) ==
    /\ paused
    /\ owed[id] > 0
    /\ owed' = [owed EXCEPT ![id] = @ - 1]
    /\ UNCHANGED <<since, paused>>

TimePasses ==
    /\ since < Gap
    /\ since' = since + 1
    /\ UNCHANGED <<owed, paused>>

PauseChanges ==
    /\ paused' = ~paused
    /\ UNCHANGED <<owed, since>>

Restart ==
    /\ owed' = [id \in Ids |-> 0]
    /\ since' = Gap
    /\ paused' = FALSE

Init ==
    /\ owed = [id \in Ids |-> 0]
    /\ since = Gap
    /\ paused = FALSE

Next ==
    \/ \E id \in Ids : Fire(id) \/ Show(id) \/ GiveUp(id)
    \/ TimePasses
    \/ PauseChanges
    \/ Restart

Spec == Init /\ [][Next]_vars
=============================================================================
