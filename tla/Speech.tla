------------------------------- MODULE Speech -------------------------------
(***************************************************************************)
(* What the buddy says aloud: speak() of audio/tts.py over the kokoro      *)
(* backend of audio/backends/kokoro.py, whose synthesis runs in a child    *)
(* process (_kokoro_worker.py).                                            *)
(*                                                                         *)
(* Several speak() calls are under way at once: the brain awaits the one   *)
(* of a voice reply, typed replies and comments are fired and forgotten.   *)
(* They share one backend object and one playback lock, first come first   *)
(* served.  The warmup comes before the lock: two calls that find no       *)
(* worker start one each, and the one that loads last is kept.             *)
(*                                                                         *)
(* The pipes of a worker carry no names: an answer belongs to a call only  *)
(* because that call reads it.  A request, its answer and the samples in   *)
(* it are abstracted to the call whose text they are about, and the        *)
(* sentences of a text, which one call sends one after the other, to one.  *)
(*                                                                         *)
(* An operator named Slip... is a definition with a plausible mistake in   *)
(* it, next to the one it imitates; no action uses it.                     *)
(***************************************************************************)
EXTENDS Naturals, Sequences

CONSTANTS
    Speakers,   \* the speak() calls that may be under way at once
    Voice,      \* the one the brain awaits, for a voice reply
    NoWorker

ASSUME SpeakersAssumption == Voice \in Speakers /\ NoWorker \notin Speakers

VARIABLES
    at,         \* where each call is, or how the last one of it ended
    worker,     \* KokoroBackend._worker, named after the call that started it
    process,    \* the child processes
    pipe,       \* what was asked of each and not yet read back
    using,      \* the worker whose answer a call is waiting for
    audio,      \* the samples a call has got; its own name when it has none
    line        \* the calls at _PLAYBACK_LOCK, its holder first

speechVars == <<at, worker, process, pipe, using, audio, line>>

Ended == {"done", "raised"}

Go(t, place) == at' = [at EXCEPT ![t] = place]

\* What a task raises that nobody waits for is only logged.
Raise(t) == Go(t, IF t = Voice THEN "raised" ELSE "done")

Holds(t) == line # <<>> /\ Head(line) = t

-----------------------------------------------------------------------------
(* speak().                                                                *)

\* Routed away, or no audio deps, models or text: it returns at once.
Skip(t) ==
    /\ at[t] \in Ended
    /\ Go(t, "done")
    /\ UNCHANGED <<worker, process, pipe, using, audio, line>>

\* The worker is there: warmup() returns without a pause.
Speak(t) ==
    /\ at[t] \in Ended
    /\ worker # NoWorker
    /\ Go(t, "lock")
    /\ line' = Append(line, t)
    /\ UNCHANGED <<worker, process, pipe, using, audio>>

\* _KokoroWorker is constructed on another thread.
Warmup(t) ==
    /\ at[t] \in Ended
    /\ worker = NoWorker
    /\ Go(t, "load")
    /\ process' = [process EXCEPT ![t] = "loading"]
    /\ UNCHANGED <<worker, pipe, using, audio, line>>

\* The handshake has come.
Loaded(t) ==
    /\ at[t] = "load"
    /\ process[t] = "loading"
    /\ process' = [process EXCEPT ![t] = "ready"]
    /\ worker' = t
    /\ Go(t, "lock")
    /\ line' = Append(line, t)
    /\ UNCHANGED <<pipe, using, audio>>

\* It never came: only missing files are caught.
LoadRaises(t) ==
    /\ at[t] = "load"
    /\ process[t] = "dead"
    /\ Raise(t)
    /\ UNCHANGED <<worker, process, pipe, using, audio, line>>

SlipAsk(t) ==
    /\ at[t] = "lock"
    /\ process[worker] # "dead"
    /\ Go(t, "synth")
    /\ using' = [using EXCEPT ![t] = worker]
    /\ pipe' = [pipe EXCEPT ![worker] = Append(@, t)]
    /\ UNCHANGED <<worker, process, audio, line>>

\* Under the lock, _KokoroWorker.synth writes the request.
Ask(t) ==
    /\ at[t] = "lock"
    /\ Holds(t)
    /\ process[worker] # "dead"
    /\ Go(t, "synth")
    /\ using' = [using EXCEPT ![t] = worker]
    /\ pipe' = [pipe EXCEPT ![worker] = Append(@, t)]
    /\ UNCHANGED <<worker, process, audio, line>>

SlipRelease == UNCHANGED line

\* async with ends, however it is left: the next in line has the lock.
Release == line' = Tail(line)

\* The pipe is broken.  The dead worker stays in _worker.
AskRaises(t) ==
    /\ at[t] = "lock"
    /\ Holds(t)
    /\ process[worker] = "dead"
    /\ Raise(t)
    /\ Release
    /\ UNCHANGED <<worker, process, pipe, using, audio>>

\* The worker's next answer, whoever asked for it: it takes one command at a
\* time, in the order of the pipe.
Answered(t) ==
    /\ at[t] = "synth"
    /\ process[using[t]] = "ready"
    /\ pipe[using[t]] # <<>>
    /\ audio' = [audio EXCEPT ![t] = Head(pipe[using[t]])]
    /\ pipe' = [pipe EXCEPT ![using[t]] = Tail(@)]
    /\ using' = [using EXCEPT ![t] = NoWorker]
    /\ Go(t, "play")
    /\ UNCHANGED <<worker, process, line>>

\* "kokoro worker died"
SynthRaises(t) ==
    /\ at[t] = "synth"
    /\ process[using[t]] = "dead"
    /\ using' = [using EXCEPT ![t] = NoWorker]
    /\ Raise(t)
    /\ Release
    /\ UNCHANGED <<worker, process, pipe, audio>>

\* Played to the end, or nothing to play; or the device raises.
PlayEnds(t) ==
    /\ at[t] = "play"
    /\ Go(t, "done") \/ Raise(t)
    /\ audio' = [audio EXCEPT ![t] = t]
    /\ Release
    /\ UNCHANGED <<worker, process, pipe, using>>

\* A child process ends, with what was in its pipes.
Dies(p) ==
    /\ process[p] \in {"loading", "ready"}
    /\ process' = [process EXCEPT ![p] = "dead"]
    /\ pipe' = [pipe EXCEPT ![p] = <<>>]
    /\ UNCHANGED <<at, worker, using, audio, line>>

-----------------------------------------------------------------------------
Quiet ==
    /\ at = [t \in Speakers |-> "done"]
    /\ worker = NoWorker
    /\ process = [p \in Speakers |-> "none"]
    /\ pipe = [p \in Speakers |-> <<>>]
    /\ using = [t \in Speakers |-> NoWorker]
    /\ audio = [t \in Speakers |-> t]
    /\ line = <<>>

Begin(t) == Skip(t) \/ Speak(t) \/ Warmup(t)

Proceed(t) ==
    \/ Loaded(t) \/ LoadRaises(t) \/ Ask(t) \/ AskRaises(t)
    \/ Answered(t) \/ SynthRaises(t) \/ PlayEnds(t)

SpeechNext == \E t \in Speakers : Begin(t) \/ Proceed(t) \/ Dies(t)

SpeechSpec == Quiet /\ [][SpeechNext]_speechVars

-----------------------------------------------------------------------------
Workers == Speakers \cup {NoWorker}

SpeechType ==
    /\ at \in [Speakers -> {"load", "lock", "synth", "play"} \cup Ended]
    /\ worker \in Workers
    /\ process \in [Speakers -> {"none", "loading", "ready", "dead"}]
    /\ pipe \in [Speakers -> Seq(Speakers)]
    /\ using \in [Speakers -> Workers]
    /\ audio \in [Speakers -> Speakers]
    /\ line \in Seq(Speakers)

\* Two calls never have the device open together ("two simultaneous
\* OutputStreams on the same device", tts.py), and what a call plays is its
\* own text: an answer that nobody read, or that another call read, would put
\* every later one off by one (_KokoroWorker, "one outstanding command at a
\* time, paired write/read"), also after a warmup that started two workers.
OwnAudio == \A t \in Speakers :
    at[t] = "play" => audio[t] = t /\ \A u \in Speakers \ {t} : at[u] # "play"
=============================================================================
