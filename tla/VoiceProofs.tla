----------------------------- MODULE VoiceProofs -----------------------------
(***************************************************************************)
(* The voice session and the calls that speak, for any number of items on  *)
(* their way to the brain and any number of asides: the two threads agree  *)
(* on whose turn it is, and every call plays its own text, alone, whatever *)
(* the number of workers started.                                          *)
(***************************************************************************)
EXTENDS VoiceTurns, SequenceTheorems, TLAPS

USE DEF speechVars, Ended, Workers

-----------------------------------------------------------------------------
(* What is said aloud: every call plays its own text, alone.               *)

Busy == {"lock", "synth", "play"}

\* The line has each call once, and no call that has left it.
LineInv ==
    /\ \A i, j \in DOMAIN line : line[i] = line[j] => i = j
    /\ \A i \in DOMAIN line : at[line[i]] \in Busy

\* Only the head of the line is past the lock.
HeadInv == \A t \in Speakers :
    at[t] \in {"synth", "play"} => line # <<>> /\ line[1] = t

\* A call in the line has seen a worker, and one that has asked knows which.
WorkerInv == \A t \in Speakers :
    /\ at[t] \in Busy => worker # NoWorker
    /\ at[t] = "synth" => using[t] # NoWorker

\* A pipe is empty, or holds the one request of the call that waits for it.
PipeInv == \A p \in Speakers :
    \/ pipe[p] = <<>>
    \/ /\ process[p] # "dead"
       /\ \E t \in Speakers : at[t] = "synth" /\ using[t] = p /\ pipe[p] = <<t>>

OwnInv == \A t \in Speakers : at[t] = "play" => audio[t] = t

SpeechInv ==
    SpeechType /\ LineInv /\ HeadInv /\ WorkerInv /\ PipeInv /\ OwnInv

\* The invariant says that a call plays its own text, alone.
LEMMA SpeechInvImplies == SpeechInv => OwnAudio
BY DEF SpeechInv, OwnAudio, HeadInv, OwnInv

\* At startup there is no call, no line and no worker.
LEMMA SpeechInvInit == Quiet => SpeechInv
<1> SUFFICES ASSUME Quiet PROVE SpeechInv
  OBVIOUS
<1>1. SpeechType
  BY DEF Quiet, SpeechType
<1>2. LineInv
  BY DEF Quiet, LineInv
<1>3. HeadInv /\ WorkerInv /\ PipeInv /\ OwnInv
  BY DEF Quiet, HeadInv, WorkerInv, PipeInv, OwnInv, Busy
<1> QED BY <1>1, <1>2, <1>3 DEF SpeechInv

-----------------------------------------------------------------------------
(* The line.                                                               *)

\* A call goes to the end of the line, behind whoever holds the device.
LEMMA JoinLine ==
    ASSUME SpeechInv, NEW t \in Speakers, at[t] \notin Busy,
           at' = [at EXCEPT ![t] = "lock"], line' = Append(line, t)
    PROVE  LineInv' /\ HeadInv' /\ line' \in Seq(Speakers)
<1> DEFINE n == Len(line)
<1>1. /\ line \in Seq(Speakers) /\ n \in Nat /\ DOMAIN line = 1..n
      /\ at \in [Speakers -> {"load", "lock", "synth", "play"} \cup Ended]
      /\ LineInv /\ HeadInv
  BY LenProperties DEF SpeechInv, SpeechType
<1>2. /\ line' \in Seq(Speakers) /\ DOMAIN line' = 1..(n + 1)
      /\ \A i \in 1..n : line'[i] = line[i]
      /\ line'[n + 1] = t
      /\ line' # <<>>
  BY <1>1, AppendProperties, LenProperties
<1> HIDE DEF n
<1>3. \A i \in 1..n : line[i] # t /\ line[i] \in Speakers
  BY <1>1 DEF LineInv
<1>4. \A i, j \in 1..(n + 1) : line'[i] = line'[j] => i = j
  <2> SUFFICES ASSUME NEW i \in 1..(n + 1), NEW j \in 1..(n + 1), line'[i] = line'[j]
               PROVE  i = j
    OBVIOUS
  <2>1. CASE i \in 1..n /\ j \in 1..n
    BY <2>1, <1>1, <1>2 DEF LineInv
  <2>2. CASE ~ (i \in 1..n /\ j \in 1..n)
    BY <2>2, <1>1, <1>2, <1>3
  <2> QED BY <2>1, <2>2
<1>5. \A i \in 1..(n + 1) : at'[line'[i]] \in Busy
  <2> SUFFICES ASSUME NEW i \in 1..(n + 1) PROVE at'[line'[i]] \in Busy
    OBVIOUS
  <2>1. CASE i \in 1..n
    BY <2>1, <1>1, <1>2, <1>3 DEF LineInv
  <2>2. CASE i = n + 1
    BY <2>2, <1>1, <1>2 DEF Busy
  <2> QED BY <2>1, <2>2, <1>1
<1>6. LineInv'
  BY <1>2, <1>4, <1>5 DEF LineInv
<1>7. HeadInv'
  <2> SUFFICES ASSUME NEW u \in Speakers, at'[u] \in {"synth", "play"}
               PROVE  line' # <<>> /\ line'[1] = u
    BY DEF HeadInv
  <2>1. at[u] \in {"synth", "play"}
    BY <1>1
  <2>2. line # <<>> /\ line[1] = u
    BY <2>1, <1>1 DEF HeadInv
  <2>3. 1 \in 1..n
    BY <2>2, <1>1, EmptySeq DEF n
  <2> QED BY <2>2, <2>3, <1>2
<1> QED BY <1>2, <1>6, <1>7

\* The holder leaves the line: nobody else is past the lock.
LEMMA LeaveLine ==
    ASSUME SpeechInv, NEW t \in Speakers, Holds(t),
           NEW place, place \in Ended, at' = [at EXCEPT ![t] = place], Release
    PROVE  LineInv' /\ HeadInv' /\ line' \in Seq(Speakers)
<1> DEFINE n == Len(line)
<1>1. /\ line \in Seq(Speakers) /\ n \in Nat /\ DOMAIN line = 1..n
      /\ at \in [Speakers -> {"load", "lock", "synth", "play"} \cup Ended]
      /\ LineInv /\ HeadInv /\ line # <<>> /\ line[1] = t
  BY LenProperties DEF SpeechInv, SpeechType, Holds
<1>2. /\ line' \in Seq(Speakers) /\ Len(line') = n - 1
      /\ \A i \in 1..Len(line') : line'[i] = line[i + 1]
  BY <1>1, HeadTailProperties DEF Release
<1>3. DOMAIN line' = 1..(n - 1) /\ n >= 1
  BY <1>1, <1>2, LenProperties, EmptySeq
<1> HIDE DEF n
<1>4. \A i \in 1..(n - 1) : /\ i + 1 \in 1..n /\ i + 1 # 1
                            /\ line'[i] = line[i + 1] /\ line[i + 1] # t
                            /\ line[i + 1] \in Speakers
  BY <1>1, <1>2, <1>3 DEF LineInv
<1>5. LineInv'
  <2>1. \A i, j \in 1..(n - 1) : line'[i] = line'[j] => i = j
    <3> SUFFICES ASSUME NEW i \in 1..(n - 1), NEW j \in 1..(n - 1), line'[i] = line'[j]
                 PROVE  i = j
      OBVIOUS
    <3>1. i + 1 = j + 1
      BY <1>1, <1>4 DEF LineInv
    <3> QED BY <3>1, <1>1
  <2>2. \A i \in 1..(n - 1) : at'[line'[i]] \in Busy
    BY <1>1, <1>4 DEF LineInv
  <2> QED BY <2>1, <2>2, <1>3 DEF LineInv
<1>6. HeadInv'
  <2> SUFFICES ASSUME NEW u \in Speakers, at'[u] \in {"synth", "play"} PROVE FALSE
    BY DEF HeadInv
  <2>1. u # t /\ at[u] \in {"synth", "play"}
    BY <1>1
  <2> QED BY <2>1, <1>1 DEF HeadInv
<1> QED BY <1>2, <1>5, <1>6

\* The line stays.
LEMMA StayInLine ==
    ASSUME SpeechInv, NEW t \in Speakers, NEW place,
           at' = [at EXCEPT ![t] = place], UNCHANGED line,
           at[t] \in Busy => place \in Busy,
           place \in {"synth", "play"} => Holds(t)
    PROVE  LineInv' /\ HeadInv'
<1>1. /\ line \in Seq(Speakers) /\ DOMAIN line = 1..Len(line)
      /\ at \in [Speakers -> {"load", "lock", "synth", "play"} \cup Ended]
      /\ LineInv /\ HeadInv
  BY LenProperties DEF SpeechInv, SpeechType
<1>2. \A i \in DOMAIN line : line[i] \in Speakers
  BY <1>1
<1>3. LineInv'
  BY <1>1, <1>2 DEF LineInv
<1>4. HeadInv'
  BY <1>1 DEF HeadInv, Holds
<1> QED BY <1>3, <1>4

-----------------------------------------------------------------------------
(* The steps.                                                              *)

\* Every step of a call or of its worker keeps the invariant.
LEMMA SpeechInvStep == SpeechInv /\ [SpeechNext]_speechVars => SpeechInv'
<1> SUFFICES ASSUME SpeechInv, [SpeechNext]_speechVars PROVE SpeechInv'
  OBVIOUS
<1>0. /\ SpeechType /\ LineInv /\ HeadInv /\ WorkerInv /\ PipeInv /\ OwnInv
      /\ at \in [Speakers -> {"load", "lock", "synth", "play"} \cup Ended]
      /\ worker \in Workers
      /\ process \in [Speakers -> {"none", "loading", "ready", "dead"}]
      /\ pipe \in [Speakers -> Seq(Speakers)]
      /\ using \in [Speakers -> Workers]
      /\ audio \in [Speakers -> Speakers]
      /\ line \in Seq(Speakers)
  BY DEF SpeechInv, SpeechType
<1>1. ASSUME NEW t \in Speakers, Skip(t) PROVE SpeechInv'
  <2>1. /\ at[t] \in Ended /\ at' = [at EXCEPT ![t] = "done"]
        /\ UNCHANGED <<worker, process, pipe, using, audio, line>>
    BY <1>1 DEF Skip, Go
  <2>2. LineInv' /\ HeadInv'
    BY <2>1, StayInLine DEF Busy
  <2>3. SpeechType' /\ WorkerInv' /\ OwnInv'
    BY <2>1, <1>0 DEF SpeechType, WorkerInv, OwnInv, Busy
  <2>4. PipeInv'
    BY <2>1, <1>0 DEF PipeInv
  <2> QED BY <2>2, <2>3, <2>4 DEF SpeechInv
<1>2. ASSUME NEW t \in Speakers, Speak(t) PROVE SpeechInv'
  <2>1. /\ at[t] \in Ended /\ at' = [at EXCEPT ![t] = "lock"] /\ worker # NoWorker
        /\ line' = Append(line, t)
        /\ UNCHANGED <<worker, process, pipe, using, audio>>
    BY <1>2 DEF Speak, Go
  <2>2. LineInv' /\ HeadInv' /\ line' \in Seq(Speakers)
    BY <2>1, JoinLine DEF Busy
  <2>3. SpeechType' /\ WorkerInv' /\ OwnInv'
    BY <2>1, <2>2, <1>0 DEF SpeechType, WorkerInv, OwnInv, Busy
  <2>4. PipeInv'
    BY <2>1, <1>0 DEF PipeInv
  <2> QED BY <2>2, <2>3, <2>4 DEF SpeechInv
<1>3. ASSUME NEW t \in Speakers, Warmup(t) PROVE SpeechInv'
  <2>1. /\ at[t] \in Ended /\ at' = [at EXCEPT ![t] = "load"]
        /\ process' = [process EXCEPT ![t] = "loading"]
        /\ UNCHANGED <<worker, pipe, using, audio, line>>
    BY <1>3 DEF Warmup, Go
  <2>2. LineInv' /\ HeadInv'
    BY <2>1, StayInLine DEF Busy
  <2>3. SpeechType' /\ WorkerInv' /\ OwnInv'
    BY <2>1, <1>0 DEF SpeechType, WorkerInv, OwnInv, Busy
  <2>4. PipeInv'
    BY <2>1, <1>0 DEF PipeInv
  <2> QED BY <2>2, <2>3, <2>4 DEF SpeechInv
<1>4. ASSUME NEW t \in Speakers, Loaded(t) PROVE SpeechInv'
  <2>1. /\ at[t] = "load" /\ at' = [at EXCEPT ![t] = "lock"] /\ worker' = t
        /\ line' = Append(line, t)
        /\ process' = [process EXCEPT ![t] = "ready"]
        /\ UNCHANGED <<pipe, using, audio>>
    BY <1>4 DEF Loaded, Go
  <2>2. LineInv' /\ HeadInv' /\ line' \in Seq(Speakers)
    BY <2>1, JoinLine DEF Busy
  <2>3. SpeechType' /\ WorkerInv' /\ OwnInv'
    BY <2>1, <2>2, <1>0, SpeakersAssumption DEF SpeechType, WorkerInv, OwnInv, Busy
  <2>4. PipeInv'
    BY <2>1, <1>0 DEF PipeInv
  <2> QED BY <2>2, <2>3, <2>4 DEF SpeechInv
<1>5. ASSUME NEW t \in Speakers, LoadRaises(t) PROVE SpeechInv'
  <2>1. PICK place \in Ended :
            /\ at[t] = "load" /\ at' = [at EXCEPT ![t] = place]
            /\ UNCHANGED <<worker, process, pipe, using, audio, line>>
    BY <1>5 DEF LoadRaises, Raise, Go
  <2>2. LineInv' /\ HeadInv'
    BY <2>1, StayInLine DEF Busy
  <2>3. SpeechType' /\ WorkerInv' /\ OwnInv'
    BY <2>1, <1>0 DEF SpeechType, WorkerInv, OwnInv, Busy
  <2>4. PipeInv'
    BY <2>1, <1>0 DEF PipeInv
  <2> QED BY <2>2, <2>3, <2>4 DEF SpeechInv
<1>6. ASSUME NEW t \in Speakers, Ask(t) PROVE SpeechInv'
  <2>1. /\ at[t] = "lock" /\ Holds(t) /\ at' = [at EXCEPT ![t] = "synth"]
        /\ using' = [using EXCEPT ![t] = worker]
        /\ pipe' = [pipe EXCEPT ![worker] = Append(@, t)]
        /\ UNCHANGED <<worker, process, audio, line>>
    BY <1>6 DEF Ask, Go
  <2>2. LineInv' /\ HeadInv'
    BY <2>1, StayInLine DEF Busy
  <2>3. worker \in Speakers /\ worker # NoWorker
    BY <2>1, <1>0 DEF WorkerInv, Busy
  <2>4. \A u \in Speakers : at[u] # "synth"
    BY <2>1, <1>0 DEF HeadInv, Holds
  <2>5. \A p \in Speakers : pipe[p] = <<>>
    BY <2>4, <1>0 DEF PipeInv
  <2>6. pipe' = [pipe EXCEPT ![worker] = <<t>>]
    <3>1. Append(<<>>, t) = <<t>>
      OBVIOUS
    <3> QED BY <2>1, <2>3, <2>5, <3>1
  <2>7. SpeechType' /\ WorkerInv' /\ OwnInv'
    BY <2>1, <2>3, <2>6, <1>0 DEF SpeechType, WorkerInv, OwnInv, Busy
  <2>8. PipeInv'
    <3>1. process'[worker] # "dead" /\ at'[t] = "synth" /\ using'[t] = worker
      BY <1>6, <2>1, <1>0 DEF Ask
    <3>2. pipe'[worker] = <<t>> /\ \A p \in Speakers : p # worker => pipe'[p] = <<>>
      BY <2>3, <2>5, <2>6, <1>0
    <3> QED BY <3>1, <3>2 DEF PipeInv
  <2> QED BY <2>2, <2>7, <2>8 DEF SpeechInv
<1>7. ASSUME NEW t \in Speakers, AskRaises(t) PROVE SpeechInv'
  <2>1. PICK place \in Ended :
            /\ at[t] = "lock" /\ Holds(t) /\ at' = [at EXCEPT ![t] = place] /\ Release
            /\ UNCHANGED <<worker, process, pipe, using, audio>>
    BY <1>7 DEF AskRaises, Raise, Go
  <2>2. LineInv' /\ HeadInv' /\ line' \in Seq(Speakers)
    BY <2>1, LeaveLine
  <2>3. SpeechType' /\ WorkerInv' /\ OwnInv'
    BY <2>1, <2>2, <1>0 DEF SpeechType, WorkerInv, OwnInv, Busy
  <2>4. PipeInv'
    BY <2>1, <1>0 DEF PipeInv
  <2> QED BY <2>2, <2>3, <2>4 DEF SpeechInv
<1>8. ASSUME NEW t \in Speakers, Answered(t) PROVE SpeechInv'
  <2>1. /\ at[t] = "synth" /\ at' = [at EXCEPT ![t] = "play"]
        /\ pipe[using[t]] # <<>>
        /\ audio' = [audio EXCEPT ![t] = Head(pipe[using[t]])]
        /\ pipe' = [pipe EXCEPT ![using[t]] = Tail(@)]
        /\ using' = [using EXCEPT ![t] = NoWorker]
        /\ UNCHANGED <<worker, process, line>>
    BY <1>8 DEF Answered, Go
  <2>2. using[t] \in Speakers
    BY <2>1, <1>0 DEF WorkerInv
  <2>3. Holds(t) /\ \A u \in Speakers : at[u] = "synth" => u = t
    BY <2>1, <1>0 DEF HeadInv, Holds
  <2>4. LineInv' /\ HeadInv'
    BY <2>1, <2>3, StayInLine DEF Busy
  <2>5. pipe[using[t]] = <<t>> /\ \A p \in Speakers : p # using[t] => pipe[p] = <<>>
    BY <2>1, <2>2, <2>3, <1>0 DEF PipeInv
  <2>6. audio' = [audio EXCEPT ![t] = t] /\ \A p \in Speakers : pipe'[p] = <<>>
    BY <2>1, <2>2, <2>5, <1>0
  <2>7. pipe' \in [Speakers -> Seq(Speakers)]
    BY <2>1, <2>2, <2>5, <1>0
  <2>8. SpeechType' /\ WorkerInv' /\ OwnInv'
    BY <2>1, <2>6, <2>7, <1>0 DEF SpeechType, WorkerInv, OwnInv, Busy
  <2>9. PipeInv'
    BY <2>6 DEF PipeInv
  <2> QED BY <2>4, <2>8, <2>9 DEF SpeechInv
<1>9. ASSUME NEW t \in Speakers, SynthRaises(t) PROVE SpeechInv'
  <2>1. PICK place \in Ended :
            /\ at[t] = "synth" /\ process[using[t]] = "dead"
            /\ at' = [at EXCEPT ![t] = place] /\ Release
            /\ using' = [using EXCEPT ![t] = NoWorker]
            /\ UNCHANGED <<worker, process, pipe, audio>>
    BY <1>9 DEF SynthRaises, Raise, Go
  <2>2. Holds(t)
    BY <2>1, <1>0 DEF HeadInv, Holds
  <2>3. LineInv' /\ HeadInv' /\ line' \in Seq(Speakers)
    BY <2>1, <2>2, LeaveLine
  <2>4. SpeechType' /\ WorkerInv' /\ OwnInv'
    BY <2>1, <2>3, <1>0 DEF SpeechType, WorkerInv, OwnInv, Busy
  <2>5. PipeInv'
    BY <2>1, <1>0 DEF PipeInv
  <2> QED BY <2>3, <2>4, <2>5 DEF SpeechInv
<1>10. ASSUME NEW t \in Speakers, PlayEnds(t) PROVE SpeechInv'
  <2>1. PICK place \in Ended :
            /\ at[t] = "play" /\ at' = [at EXCEPT ![t] = place] /\ Release
            /\ audio' = [audio EXCEPT ![t] = t]
            /\ UNCHANGED <<worker, process, pipe, using>>
    BY <1>10 DEF PlayEnds, Raise, Go
  <2>2. Holds(t)
    BY <2>1, <1>0 DEF HeadInv, Holds
  <2>3. LineInv' /\ HeadInv' /\ line' \in Seq(Speakers)
    BY <2>1, <2>2, LeaveLine
  <2>4. SpeechType' /\ WorkerInv' /\ OwnInv'
    BY <2>1, <2>3, <1>0 DEF SpeechType, WorkerInv, OwnInv, Busy
  <2>5. PipeInv'
    BY <2>1, <1>0 DEF PipeInv
  <2> QED BY <2>3, <2>4, <2>5 DEF SpeechInv
<1>11. ASSUME NEW p \in Speakers, Dies(p) PROVE SpeechInv'
  <2>1. /\ process' = [process EXCEPT ![p] = "dead"]
        /\ pipe' = [pipe EXCEPT ![p] = <<>>]
        /\ UNCHANGED <<at, worker, using, audio, line>>
    BY <1>11 DEF Dies
  <2>2. SpeechType' /\ WorkerInv' /\ OwnInv' /\ LineInv' /\ HeadInv'
    BY <2>1, <1>0 DEF SpeechType, WorkerInv, OwnInv, LineInv, HeadInv
  <2>3. PipeInv'
    BY <2>1, <1>0 DEF PipeInv
  <2> QED BY <2>2, <2>3 DEF SpeechInv
<1>12. ASSUME UNCHANGED speechVars PROVE SpeechInv'
  <2>1. SpeechType' /\ WorkerInv' /\ OwnInv' /\ LineInv' /\ HeadInv' /\ PipeInv'
    BY <1>12, <1>0 DEF SpeechType, WorkerInv, OwnInv, LineInv, HeadInv, PipeInv
  <2> QED BY <2>1 DEF SpeechInv
<1> QED
  BY <1>1, <1>2, <1>3, <1>4, <1>5, <1>6, <1>7, <1>8, <1>9, <1>10, <1>11, <1>12, Zenon
  DEF SpeechNext, Begin, Proceed

-----------------------------------------------------------------------------
\* For any number of calls under way, and whatever workers they start and lose:
\* the device is opened by one call at a time, for its own text (tts.py's lock
\* and _KokoroWorker's paired write and read).
THEOREM OwnAudioThm == SpeechSpec => []OwnAudio
BY SpeechInvInit, SpeechInvStep, SpeechInvImplies, PTL DEF SpeechSpec
USE DEF sessionVars, audioVars, mailVars, replyVars, brainVars, vars

-----------------------------------------------------------------------------
(* The invariant of the session.                                           *)

\* Room for the transcript that the audio thread is about to submit.
ItemType ==
    /\ fsm \in States /\ seen \in States
    /\ apc \in {"loop", "frame", "asr", "submit", "barge"}
    /\ transit \in 0..MaxItems
    /\ queue \in Seq(Sources)
    /\ transit + Len(queue) <= MaxItems + 1
    /\ apc = "submit" => transit < MaxItems /\ transit + Len(queue) <= MaxItems
    /\ bpc \in {"poll", "drain"} \cup Answering
    /\ source \in Sources
    /\ bpc \in {"speak", "quip"} => source = "voice"

FlagType ==
    /\ armed \in BOOLEAN /\ paused \in BOOLEAN /\ sensitive \in BOOLEAN
    /\ cleared \in BOOLEAN /\ lost \in BOOLEAN /\ overtaken \in BOOLEAN

\* The audio thread commits from a state that is not the brain's.
CommitInv == apc \in {"submit", "barge"} => fsm # "SPEAKING"

AnsweringVoice == bpc \in Answering /\ source = "voice"

QueuedVoice == \E i \in DOMAIN queue : queue[i] = "voice"

\* Unless a session was closed over an unanswered transcript, there is one
\* spoken turn at a time between the microphone and the end of its reply, and
\* the session is in SPEAKING for as long.
OneTurn ==
    /\ transit <= 1
    /\ \A i, j \in DOMAIN queue : queue[i] = "voice" /\ queue[j] = "voice" => i = j
    /\ transit > 0 => ~QueuedVoice /\ ~AnsweringVoice
    /\ QueuedVoice => ~AnsweringVoice
    /\ Owed => fsm = "SPEAKING"

TurnInv == overtaken \/ OneTurn

VoiceInv == ItemType /\ FlagType /\ CommitInv /\ TurnInv /\ SpeakingIsOwed

\* A release is owed by a transcript in transit, in the queue or being answered.
LEMMA OwedParts == Owed <=> transit > 0 \/ QueuedVoice \/ AnsweringVoice
BY DEF Owed, QueuedVoice, AnsweringVoice

\* The invariant says what the run checks of the session.
LEMMA VoiceInvImplies == VoiceInv => TypeOK /\ MicClosedDuringReply /\ SpeakingIsOwed
<1> SUFFICES ASSUME VoiceInv PROVE TypeOK /\ MicClosedDuringReply /\ SpeakingIsOwed
  OBVIOUS
<1>1. TypeOK
  <2>1. /\ fsm \in States /\ seen \in States
        /\ apc \in {"loop", "frame", "asr", "submit", "barge"}
        /\ transit \in 0..MaxItems /\ queue \in Seq(Sources)
        /\ transit + Len(queue) <= MaxItems + 1
        /\ bpc \in {"poll", "drain"} \cup Answering
        /\ source \in Sources
    BY DEF VoiceInv, ItemType
  <2> QED BY <2>1, Zenon DEF VoiceInv, FlagType, TypeOK
<1>2. MicClosedDuringReply
  <2> SUFFICES ASSUME bpc \in {"speak", "quip"}, source = "voice", ~overtaken
               PROVE  fsm = "SPEAKING"
    BY DEF MicClosedDuringReply
  <2> QED BY OwedParts DEF VoiceInv, TurnInv, OneTurn, AnsweringVoice, Answering
<1> QED BY <1>1, <1>2, Zenon DEF VoiceInv

\* At startup nobody speaks and nothing is owed.
LEMMA VoiceInvInit == Init => VoiceInv
<1> SUFFICES ASSUME Init PROVE VoiceInv
  OBVIOUS
<1>1. ItemType /\ CommitInv
  BY ItemsAssumption DEF Init, ItemType, CommitInv, States, Sources
<1>2. FlagType
  BY Zenon DEF Init, FlagType
<1>3. TurnInv /\ SpeakingIsOwed
  BY OwedParts DEF Init, TurnInv, OneTurn, QueuedVoice, AnsweringVoice, Answering,
     SpeakingIsOwed
<1> QED BY <1>1, <1>2, <1>3, Zenon DEF VoiceInv

-----------------------------------------------------------------------------
(* The steps.                                                              *)

\* Closing a session leaves nothing owed behind, or says so.
LEMMA CloseLemma ==
    ASSUME VoiceInv, CloseSession, ~overtaken'
    PROVE  OneTurn /\ ~Owed
<1>1. ~overtaken /\ ~ (fsm = "SPEAKING" /\ Owed)
  BY Zenon DEF CloseSession
<1>2. OneTurn
  BY <1>1, Zenon DEF VoiceInv, TurnInv
<1> QED BY <1>1, <1>2, Zenon DEF OneTurn

\* Every step keeps the types of the items on their way, and the audio thread from
\* committing over the brain.
LEMMA ItemStep == VoiceInv /\ [Next]_vars => ItemType' /\ CommitInv'
<1> SUFFICES ASSUME VoiceInv, [Next]_vars PROVE ItemType' /\ CommitInv'
  OBVIOUS
<1>0. ItemType /\ CommitInv /\ MaxItems \in Nat /\ Len(queue) \in Nat
  BY ItemsAssumption, LenProperties DEF VoiceInv, ItemType
<1> USE DEF ItemType, CommitInv, States, Sources, Answering
<1>1. ASSUME AudioStep \/ Tick PROVE ItemType' /\ CommitInv'
  <2>1. CASE TranscriptChecked
    BY <2>1, <1>0 DEF TranscriptChecked
  <2>2. CASE TranscriptSubmitted
    BY <2>2, <1>0 DEF TranscriptSubmitted
  <2>3. CASE \/ Tick \/ TakeFrame \/ DropFrame \/ Wake \/ ListeningEnds \/ SpeechEnded
             \/ TranscriptDropped \/ SpeechStartChecked \/ SpeechStarted
    <3>1. /\ fsm' \in States /\ seen' \in States
          /\ apc' \in {"loop", "frame", "asr", "barge"}
          /\ apc' = "barge" => fsm' # "SPEAKING"
          /\ UNCHANGED <<transit, queue, bpc, source>>
      BY <2>3, <1>0 DEF Tick, TakeFrame, DropFrame, Wake, ListeningEnds, SpeechEnded,
         TranscriptDropped, SpeechStartChecked, SpeechStarted
    <3> QED BY <3>1, <1>0
  <2> QED BY <1>1, <2>1, <2>2, <2>3, Zenon DEF AudioStep, AudioCommit
<1>2. ASSUME NEW s \in BOOLEAN, Poll(s) PROVE ItemType' /\ CommitInv'
  <2>1. /\ bpc' = "drain"
        /\ fsm' = fsm \/ fsm' = "IDLE"
        /\ UNCHANGED <<apc, seen, transit, queue, source>>
    BY <1>2 DEF Poll, CloseSession
  <2> QED BY <2>1, <1>0
<1>3. ASSUME NEW deflect \in BOOLEAN, TakeItem(deflect) PROVE ItemType' /\ CommitInv'
  <2>1. /\ queue # <<>> /\ queue' = Tail(queue) /\ source' = Head(queue)
        /\ bpc' = "drain" \/ bpc' = "gen"
        /\ fsm' = fsm \/ fsm' = "IDLE"
        /\ UNCHANGED <<apc, seen, transit>>
    BY <1>3 DEF TakeItem, CloseSession
  <2>2. /\ queue' \in Seq(Sources) /\ Len(queue') = Len(queue) - 1
        /\ source' \in Sources
    BY <2>1, <1>0, HeadTailProperties
  <2>3. /\ transit' \in 0..MaxItems /\ transit' + Len(queue') <= MaxItems + 1
        /\ apc' = "submit" => transit' < MaxItems /\ transit' + Len(queue') <= MaxItems
    <3>1. UNCHANGED <<apc, transit>> /\ Len(queue') = Len(queue) - 1
      BY <2>1, <2>2
    <3>2. /\ transit \in 0..MaxItems /\ transit + Len(queue) <= MaxItems + 1
          /\ apc = "submit" => transit < MaxItems /\ transit + Len(queue) <= MaxItems
      BY <1>0
    <3> DEFINE n == Len(queue)
               k == Len(queue')
    <3>3. n \in Nat /\ k = n - 1 /\ MaxItems \in Nat
      BY <1>0, <3>1
    <3> HIDE DEF n, k
    <3>4. /\ transit \in 0..MaxItems /\ transit + n <= MaxItems + 1
          /\ apc = "submit" => transit < MaxItems /\ transit + n <= MaxItems
      BY <3>2 DEF n
    <3>5. /\ transit' \in 0..MaxItems /\ transit' + k <= MaxItems + 1
          /\ apc' = "submit" => transit' < MaxItems /\ transit' + k <= MaxItems
      BY <3>1, <3>3, <3>4
    <3> QED BY <3>5 DEF k
  <2>5. /\ fsm' \in States /\ seen' \in States
        /\ apc' \in {"loop", "frame", "asr", "submit", "barge"}
        /\ bpc' \in {"poll", "drain"} \cup Answering
        /\ bpc' \notin {"speak", "quip"}
        /\ CommitInv'
    BY <2>1, <1>0
  <2> QED BY <2>2, <2>3, <2>5, Zenon DEF ItemType
<1>4. ASSUME QueueDrained \/ ReplyReady \/ ReplyFails \/ Spoken \/ SpeakRaises
      PROVE  ItemType' /\ CommitInv'
  <2>1. /\ bpc' \in {"poll", "drain", "speak", "quip"}
        /\ fsm' = fsm \/ fsm' = "TRAILING"
        /\ bpc' \in {"speak", "quip"} => source = "voice" \/ bpc \in {"speak", "quip"}
        /\ UNCHANGED <<apc, seen, transit, queue, source>>
    BY <1>4 DEF QueueDrained, ReplyReady, ReplyFails, Spoken, SpeakRaises, TtsDone
  <2> QED BY <2>1, <1>0
<1>5. ASSUME Deliver \/ UserTypes PROVE ItemType' /\ CommitInv'
  <2>1. PICK kind \in Sources :
            /\ queue' = Append(queue, kind)
            /\ \/ transit > 0 /\ transit' = transit - 1
               \/ transit + Len(queue) < MaxItems /\ transit' = transit
            /\ UNCHANGED <<fsm, apc, seen, bpc, source>>
    BY <1>5 DEF Deliver, UserTypes
  <2>2. queue' \in Seq(Sources) /\ Len(queue') = Len(queue) + 1
    BY <2>1, <1>0, AppendProperties
  <2> QED BY <2>1, <2>2, <1>0
<1>6. ASSUME UserClears \/ UNCHANGED vars PROVE ItemType' /\ CommitInv'
  <2>1. UNCHANGED <<fsm, apc, seen, transit, queue, bpc, source>>
    BY <1>6 DEF UserClears
  <2> QED BY <2>1, <1>0
<1> QED BY <1>1, <1>2, <1>3, <1>4, <1>5, <1>6, Zenon DEF Next, BrainStep

\* Every step keeps the types of the flags.
LEMMA FlagStep == VoiceInv /\ [Next]_vars => FlagType'
<1> SUFFICES ASSUME VoiceInv, [Next]_vars PROVE FlagType'
  OBVIOUS
<1>0. FlagType
  BY Zenon DEF VoiceInv
<1>1. ASSUME AudioStep \/ Tick PROVE FlagType'
  <2>1. /\ armed' = armed \/ armed' = FALSE
        /\ UNCHANGED <<paused, sensitive, cleared, lost, overtaken>>
    BY <1>1 DEF AudioStep, AudioCommit, Tick, TakeFrame, DropFrame, Wake, ListeningEnds,
       SpeechEnded, TranscriptDropped, TranscriptChecked, TranscriptSubmitted,
       SpeechStartChecked, SpeechStarted
  <2> QED BY <2>1, <1>0, Zenon DEF FlagType
<1>2. ASSUME NEW s \in BOOLEAN, Poll(s) PROVE FlagType'
  <2>1. /\ sensitive' = s
        /\ paused' = paused \/ paused' = s
        /\ armed' = armed \/ armed' = (armed /\ fsm = "IDLE")
        /\ overtaken' = overtaken \/ overtaken' = (overtaken \/ (fsm = "SPEAKING" /\ Owed))
        /\ UNCHANGED <<cleared, lost>>
    BY <1>2, Zenon DEF Poll, CloseSession
  <2> QED BY <2>1, <1>0, Zenon DEF FlagType
<1>3. ASSUME NEW deflect \in BOOLEAN, TakeItem(deflect) PROVE FlagType'
  <2>1. /\ cleared' = FALSE
        /\ lost' = (lost \/ (deflect /\ source' = "voice"))
        /\ armed' = armed \/ armed' = (armed /\ fsm = "IDLE")
        /\ overtaken' = overtaken \/ overtaken' = (overtaken \/ (fsm = "SPEAKING" /\ Owed))
        /\ UNCHANGED <<paused, sensitive>>
    BY <1>3, Zenon DEF TakeItem, CloseSession
  <2> QED BY <2>1, <1>0, Zenon DEF FlagType
<1>4. ASSUME QueueDrained PROVE FlagType'
  <2>1. /\ overtaken' = (overtaken /\ Owed)
        /\ UNCHANGED <<armed, paused, sensitive, cleared, lost>>
    BY <1>4, Zenon DEF QueueDrained
  <2> QED BY <2>1, <1>0, Zenon DEF FlagType
<1>5. ASSUME \/ ReplyReady \/ ReplyFails \/ Spoken \/ SpeakRaises
             \/ Deliver \/ UserTypes \/ UserClears \/ UNCHANGED vars
      PROVE  FlagType'
  <2>1. /\ armed' = armed \/ armed' = TRUE
        /\ lost' = lost \/ lost' = TRUE
        /\ cleared' = cleared \/ cleared' = TRUE
        /\ UNCHANGED <<paused, sensitive, overtaken>>
    BY <1>5 DEF ReplyReady, ReplyFails, Spoken, SpeakRaises, TtsDone, Deliver, UserTypes,
       UserClears
  <2> QED BY <2>1, <1>0, Zenon DEF FlagType
<1> QED BY <1>1, <1>2, <1>3, <1>4, <1>5, Zenon DEF Next, BrainStep

\* What the brain's queue looks like after an item has gone in or out.
LEMMA QueueIn ==
    ASSUME queue \in Seq(Sources), NEW kind \in Sources, queue' = Append(queue, kind)
    PROVE  /\ DOMAIN queue = 1..Len(queue) /\ Len(queue) \in Nat
           /\ DOMAIN queue' = 1..(Len(queue) + 1)
           /\ \A i \in 1..Len(queue) : queue'[i] = queue[i]
           /\ Len(queue) + 1 \in DOMAIN queue'
           /\ queue'[Len(queue) + 1] = kind
<1>1. /\ queue' \in Seq(Sources) /\ Len(queue') = Len(queue) + 1
      /\ \A i \in 1..Len(queue) : queue'[i] = queue[i]
      /\ queue'[Len(queue) + 1] = kind
  BY AppendProperties
<1>2. DOMAIN queue' = 1..Len(queue') /\ DOMAIN queue = 1..Len(queue) /\ Len(queue) \in Nat
  BY <1>1, LenProperties
<1> QED BY <1>1, <1>2

\* The item taken is the first, the others move up by one.
LEMMA QueueOut ==
    ASSUME queue \in Seq(Sources), queue # <<>>, queue' = Tail(queue),
           source' = Head(queue)
    PROVE  /\ DOMAIN queue = 1..Len(queue) /\ Len(queue) \in Nat
           /\ 1 \in DOMAIN queue /\ source' = queue[1] /\ source' \in Sources
           /\ DOMAIN queue' = 1..(Len(queue) - 1)
           /\ \A i \in 1..(Len(queue) - 1) : queue'[i] = queue[i + 1]
<1>1. /\ queue' \in Seq(Sources) /\ Len(queue') = Len(queue) - 1
      /\ \A i \in 1..Len(queue') : queue'[i] = queue[i + 1]
      /\ source' \in Sources
  BY HeadTailProperties
<1>2. /\ DOMAIN queue' = 1..Len(queue') /\ DOMAIN queue = 1..Len(queue)
      /\ Len(queue) \in Nat /\ Len(queue') \in Nat
  BY <1>1, LenProperties
<1>3. 1 \in DOMAIN queue
  BY <1>1, <1>2
<1>4. source' = queue[1]
  OBVIOUS
<1> QED BY <1>1, <1>2, <1>3, <1>4

\* One turn at a time survives every step that leaves the mail alone.
LEMMA SameMail ==
    ASSUME OneTurn, UNCHANGED <<transit, queue>>,
           AnsweringVoice' => AnsweringVoice,
           Owed' => fsm' = "SPEAKING"
    PROVE  OneTurn'
BY DEF OneTurn, QueuedVoice

\* No step starts a second spoken turn or loses the one there is, while no session
\* was closed over it.
LEMMA TurnStepLemma == VoiceInv /\ [Next]_vars => TurnInv'
<1> SUFFICES ASSUME VoiceInv, [Next]_vars, ~overtaken' PROVE OneTurn'
  BY Zenon DEF TurnInv
<1>0. /\ TurnInv /\ ItemType /\ CommitInv /\ queue \in Seq(Sources)
      /\ Len(queue) \in Nat /\ DOMAIN queue = 1..Len(queue) /\ transit \in Nat
  BY LenProperties, ItemsAssumption DEF VoiceInv, ItemType
<1>1. ASSUME AudioStep \/ Tick PROVE OneTurn'
  <2>0. OneTurn /\ UNCHANGED <<queue, bpc, source>>
    <3>1. UNCHANGED <<overtaken, queue, bpc, source>>
      BY <1>1 DEF AudioStep, AudioCommit, Tick, TakeFrame, DropFrame, Wake, ListeningEnds,
         SpeechEnded, TranscriptDropped, TranscriptChecked, TranscriptSubmitted,
         SpeechStartChecked, SpeechStarted
    <3> QED BY <3>1, <1>0 DEF TurnInv
  <2>1. CASE TranscriptSubmitted
    <3>1. fsm # "SPEAKING" /\ transit' = transit + 1 /\ fsm' = "SPEAKING"
      BY <2>1, <1>0 DEF TranscriptSubmitted, CommitInv
    <3>2. transit = 0 /\ ~QueuedVoice /\ ~AnsweringVoice
      BY <3>1, <2>0, <1>0, OwedParts DEF OneTurn
    <3>3. ~QueuedVoice' /\ ~AnsweringVoice'
      BY <3>2, <2>0 DEF QueuedVoice, AnsweringVoice
    <3>4. transit' = 1
      BY <3>1, <3>2
    <3> QED BY <3>1, <3>3, <3>4 DEF OneTurn, QueuedVoice
  <2>2. CASE \/ Tick \/ TakeFrame \/ DropFrame \/ Wake \/ ListeningEnds \/ SpeechEnded
             \/ TranscriptDropped \/ TranscriptChecked \/ SpeechStartChecked
             \/ SpeechStarted
    <3>1. transit' = transit /\ (fsm = "SPEAKING" => fsm' = "SPEAKING")
      BY <2>2, <1>0 DEF Tick, TakeFrame, DropFrame, Wake, ListeningEnds, SpeechEnded,
         TranscriptDropped, TranscriptChecked, SpeechStartChecked, SpeechStarted, CommitInv
    <3>2. Owed' <=> Owed
      BY <3>1, <2>0 DEF Owed
    <3>3. AnsweringVoice' <=> AnsweringVoice
      BY <2>0 DEF AnsweringVoice
    <3> QED BY <3>1, <3>2, <3>3, <2>0, SameMail DEF OneTurn
  <2> QED BY <1>1, <2>1, <2>2, Zenon DEF AudioStep, AudioCommit
<1>2. ASSUME NEW s \in BOOLEAN, Poll(s) PROVE OneTurn'
  <2>1. /\ bpc = "poll" /\ bpc' = "drain" /\ UNCHANGED <<transit, queue, source>>
        /\ CloseSession \/ UNCHANGED <<fsm, overtaken>>
    BY <1>2 DEF Poll
  <2>2. (Owed' <=> Owed) /\ ~AnsweringVoice'
    BY <2>1 DEF Owed, AnsweringVoice, Answering
  <2>3. CASE CloseSession
    <3>1. OneTurn /\ ~Owed
      BY <2>3, CloseLemma, Zenon
    <3> QED BY <3>1, <2>1, <2>2, SameMail, Zenon
  <2>4. CASE UNCHANGED <<fsm, overtaken>>
    <3>1. OneTurn
      BY <2>4, <1>0 DEF TurnInv
    <3> QED BY <3>1, <2>1, <2>2, <2>4, SameMail DEF OneTurn
  <2> QED BY <2>1, <2>3, <2>4, Zenon
<1>3. ASSUME NEW deflect \in BOOLEAN, TakeItem(deflect) PROVE OneTurn'
  <2>1. /\ bpc = "drain" /\ queue # <<>> /\ queue' = Tail(queue)
        /\ source' = Head(queue) /\ transit' = transit
        /\ bpc' = "drain" \/ bpc' = "gen"
        /\ IF source' = "typed" THEN CloseSession ELSE UNCHANGED <<fsm, overtaken>>
    BY <1>3 DEF TakeItem
  <2>2. /\ DOMAIN queue = 1..Len(queue) /\ Len(queue) \in Nat
        /\ 1 \in DOMAIN queue /\ source' = queue[1] /\ source' \in Sources
        /\ DOMAIN queue' = 1..(Len(queue) - 1)
        /\ \A i \in 1..(Len(queue) - 1) : queue'[i] = queue[i + 1]
    BY <2>1, <1>0, QueueOut
  <2>3. CASE source' = "typed"
    <3>1. OneTurn /\ ~Owed
      BY <2>1, <2>3, CloseLemma, Zenon
    <3>2. transit = 0 /\ ~QueuedVoice
      BY <3>1, <1>0, OwedParts
    <3>3. ~QueuedVoice' /\ ~AnsweringVoice'
      BY <2>2, <2>3, <3>2, <1>0 DEF QueuedVoice, AnsweringVoice
    <3>4. ~Owed'
      BY <2>1, <3>2, <3>3 DEF Owed, QueuedVoice, AnsweringVoice
    <3> QED BY <2>1, <3>2, <3>3, <3>4 DEF OneTurn, QueuedVoice
  <2>4. CASE source' = "voice"
    <3>1. OneTurn /\ UNCHANGED fsm
      BY <2>1, <2>4, <1>0 DEF TurnInv
    <3>2. QueuedVoice
      BY <2>2, <2>4 DEF QueuedVoice
    <3>3. transit = 0 /\ fsm' = "SPEAKING"
      BY <3>1, <3>2, <1>0, OwedParts DEF OneTurn
    <3>4. ~QueuedVoice'
      <4> SUFFICES ASSUME NEW i \in 1..(Len(queue) - 1), queue[i + 1] = "voice" PROVE FALSE
        BY <2>2 DEF QueuedVoice
      <4>1. i + 1 \in DOMAIN queue /\ 1 \in DOMAIN queue /\ i + 1 # 1
        BY <1>0
      <4> QED BY <4>1, <3>1, <2>2, <2>4 DEF OneTurn
    <3> QED BY <2>1, <3>3, <3>4 DEF OneTurn, QueuedVoice
  <2> QED BY <2>2, <2>3, <2>4 DEF Sources
<1>4. ASSUME QueueDrained PROVE OneTurn'
  <2>1. /\ bpc = "drain" /\ bpc' = "poll" /\ UNCHANGED <<transit, queue, source, fsm>>
    BY <1>4 DEF QueueDrained
  <2>2. (Owed' <=> Owed) /\ ~AnsweringVoice' /\ ~AnsweringVoice
    BY <2>1 DEF Owed, AnsweringVoice, Answering
  <2>3. ~overtaken \/ ~Owed
    BY <1>4, Zenon DEF QueueDrained
  <2>4. CASE ~overtaken
    <3>1. OneTurn
      BY <2>4, <1>0 DEF TurnInv
    <3> QED BY <3>1, <2>1, <2>2, SameMail DEF OneTurn
  <2>5. CASE ~Owed
    <3>1. transit = 0 /\ ~QueuedVoice
      BY <2>5, <1>0, OwedParts
    <3>2. transit' = 0 /\ ~QueuedVoice'
      BY <2>1, <3>1 DEF QueuedVoice
    <3> QED BY <2>2, <2>5, <3>2 DEF OneTurn, QueuedVoice
  <2> QED BY <2>3, <2>4, <2>5, Zenon
<1>5. ASSUME ReplyReady \/ ReplyFails \/ Spoken \/ SpeakRaises PROVE OneTurn'
  <2>0. OneTurn /\ UNCHANGED <<transit, queue, source>> /\ bpc \in Answering
    <3>1. UNCHANGED <<overtaken, transit, queue, source>> /\ bpc \in Answering
      BY <1>5 DEF ReplyReady, ReplyFails, Spoken, SpeakRaises, Answering
    <3> QED BY <3>1, <1>0 DEF TurnInv
  <2>1. CASE source = "voice"
    <3>1. transit = 0 /\ ~QueuedVoice /\ Owed
      BY <2>0, <2>1, <1>0, OwedParts DEF OneTurn, AnsweringVoice
    <3>2. fsm = "SPEAKING"
      BY <3>1, <2>0 DEF OneTurn
    <3>3. transit' = 0 /\ ~QueuedVoice'
      BY <2>0, <3>1 DEF QueuedVoice
    <3>4. fsm' = "SPEAKING" \/ bpc' \notin Answering
      BY <1>5, <2>1, <3>2 DEF ReplyReady, ReplyFails, Spoken, SpeakRaises, TtsDone, Answering
    <3>5. Owed' => bpc' \in Answering
      BY <3>3 DEF Owed, QueuedVoice
    <3> QED BY <3>3, <3>4, <3>5 DEF OneTurn, QueuedVoice
  <2>2. CASE source = "typed"
    <3>1. ~AnsweringVoice' /\ ~AnsweringVoice
      BY <2>0, <2>2 DEF AnsweringVoice
    <3>2. Owed' <=> Owed
      BY <2>0, <2>2 DEF Owed
    <3>3. fsm = "SPEAKING" => fsm' = "SPEAKING"
      BY <1>5, <2>2, <1>0 DEF ReplyReady, ReplyFails, Spoken, SpeakRaises, ItemType
    <3> QED BY <3>1, <3>2, <3>3, <2>0, SameMail DEF OneTurn
  <2> QED BY <2>1, <2>2, <1>0 DEF ItemType, Sources
<1>6. ASSUME Deliver \/ UserTypes PROVE OneTurn'
  <2>0. OneTurn /\ UNCHANGED <<fsm, bpc, source>>
    <3>1. UNCHANGED <<overtaken, fsm, bpc, source>>
      BY <1>6 DEF Deliver, UserTypes
    <3> QED BY <3>1, <1>0 DEF TurnInv
  <2>1. AnsweringVoice' <=> AnsweringVoice
    BY <2>0 DEF AnsweringVoice
  <2>2. CASE Deliver
    <3>1. transit > 0 /\ transit' = transit - 1 /\ queue' = Append(queue, "voice")
      BY <2>2 DEF Deliver
    <3>2. transit = 1
      <4>1. transit <= 1
        BY <2>0, Zenon DEF OneTurn
      <4>2. transit \in Nat
        BY <1>0
      <4> QED BY <4>1, <4>2, <3>1
    <3>3. ~QueuedVoice /\ ~AnsweringVoice /\ fsm = "SPEAKING"
      BY <3>1, <2>0, OwedParts, Zenon DEF OneTurn
    <3>4. fsm' = "SPEAKING" /\ transit' = 0 /\ ~AnsweringVoice'
      BY <3>1, <3>2, <3>3, <2>0, <2>1
    <3>5. \A i \in 1..Len(queue) : queue'[i] # "voice"
      <4>1. /\ DOMAIN queue = 1..Len(queue)
            /\ \A i \in 1..Len(queue) : queue'[i] = queue[i]
        BY <3>1, <1>0, QueueIn DEF Sources
      <4> QED BY <4>1, <3>3 DEF QueuedVoice
    <3>6. DOMAIN queue' = 1..(Len(queue) + 1)
      BY <3>1, <1>0, QueueIn DEF Sources
    <3>7. \A i, j \in DOMAIN queue' : queue'[i] = "voice" /\ queue'[j] = "voice" => i = j
      BY <3>5, <3>6, <1>0
    <3> QED BY <3>4, <3>7 DEF OneTurn
  <2>3. CASE UserTypes
    <3>1. transit' = transit /\ queue' = Append(queue, "typed")
      BY <2>3 DEF UserTypes
    <3>2. \A i \in DOMAIN queue' : queue'[i] = "voice" => i \in DOMAIN queue /\ queue[i] = "voice"
      <4>1. /\ DOMAIN queue = 1..Len(queue) /\ Len(queue) \in Nat
            /\ DOMAIN queue' = 1..(Len(queue) + 1)
            /\ \A i \in 1..Len(queue) : queue'[i] = queue[i]
            /\ queue'[Len(queue) + 1] = "typed"
        BY <3>1, <1>0, QueueIn DEF Sources
      <4> QED BY <4>1
    <3>3. QueuedVoice' => QueuedVoice
      BY <3>2 DEF QueuedVoice
    <3>4. Owed' => Owed
      BY <3>1, <3>3, <2>0 DEF Owed, QueuedVoice
    <3>5. \A i, j \in DOMAIN queue' : queue'[i] = "voice" /\ queue'[j] = "voice" => i = j
      BY <3>2, <2>0 DEF OneTurn
    <3> QED BY <3>1, <3>3, <3>4, <3>5, <2>0, <2>1 DEF OneTurn
  <2> QED BY <1>6, <2>2, <2>3
<1>7. ASSUME UserClears \/ UNCHANGED vars PROVE OneTurn'
  <2>1. UNCHANGED <<fsm, transit, queue, bpc, source, overtaken>>
    BY <1>7 DEF UserClears
  <2>2. OneTurn /\ (Owed' <=> Owed) /\ (AnsweringVoice' <=> AnsweringVoice)
    BY <2>1, <1>0 DEF TurnInv, Owed, AnsweringVoice
  <2> QED BY <2>1, <2>2, SameMail DEF OneTurn
<1> QED BY <1>1, <1>2, <1>3, <1>4, <1>5, <1>6, <1>7, Zenon DEF Next, BrainStep

\* No step leaves SPEAKING without a turn that ends it, unless an end was lost.
LEMMA OwedStep == VoiceInv /\ [Next]_vars => SpeakingIsOwed'
<1> SUFFICES ASSUME VoiceInv, [Next]_vars, fsm' = "SPEAKING", ~lost' PROVE Owed'
  BY Zenon DEF SpeakingIsOwed
<1>0. /\ SpeakingIsOwed /\ ItemType /\ queue \in Seq(Sources)
      /\ Len(queue) \in Nat /\ DOMAIN queue = 1..Len(queue) /\ transit \in Nat
  BY LenProperties, ItemsAssumption DEF VoiceInv, ItemType
<1>1. ASSUME AudioStep \/ Tick PROVE Owed'
  <2>1. CASE TranscriptSubmitted
    <3>1. transit' > 0
      BY <2>1, <1>0 DEF TranscriptSubmitted
    <3> QED BY <3>1 DEF Owed
  <2>2. CASE \/ Tick \/ TakeFrame \/ DropFrame \/ Wake \/ ListeningEnds \/ SpeechEnded
             \/ TranscriptDropped \/ TranscriptChecked \/ SpeechStartChecked
             \/ SpeechStarted
    <3>1. UNCHANGED <<fsm, transit, queue, bpc, source>> /\ (lost' <=> lost)
      BY <2>2, <1>0 DEF Tick, TakeFrame, DropFrame, Wake, ListeningEnds, SpeechEnded,
         TranscriptDropped, TranscriptChecked, SpeechStartChecked, SpeechStarted
    <3> QED BY <3>1, <1>0 DEF Owed, SpeakingIsOwed
  <2> QED BY <1>1, <2>1, <2>2, Zenon DEF AudioStep, AudioCommit
<1>2. ASSUME NEW s \in BOOLEAN, Poll(s) PROVE Owed'
  <2>1. /\ bpc = "poll" /\ bpc' = "drain" /\ (lost' <=> lost)
        /\ UNCHANGED <<fsm, transit, queue, source>>
    BY <1>2 DEF Poll, CloseSession
  <2> QED BY <2>1, <1>0 DEF Owed, SpeakingIsOwed, Answering
<1>3. ASSUME NEW deflect \in BOOLEAN, TakeItem(deflect) PROVE Owed'
  <2>1. source' # "typed" /\ source' \in Sources
    BY <1>3, <1>0, HeadTailProperties DEF TakeItem, CloseSession
  <2>2. source' = "voice"
    BY <2>1 DEF Sources
  <2>3. ~deflect
    BY <1>3, <2>2, Zenon DEF TakeItem
  <2>4. bpc' = "gen"
    BY <1>3, <2>3 DEF TakeItem
  <2> QED BY <2>2, <2>4 DEF Owed, Answering
<1>4. ASSUME QueueDrained PROVE Owed'
  <2>1. /\ bpc = "drain" /\ bpc' = "poll" /\ (lost' <=> lost)
        /\ UNCHANGED <<fsm, transit, queue, source>>
    BY <1>4 DEF QueueDrained
  <2> QED BY <2>1, <1>0 DEF Owed, SpeakingIsOwed, Answering
<1>5. ASSUME ReplyReady \/ ReplyFails \/ Spoken \/ SpeakRaises PROVE Owed'
  <2>1. ~SpeakRaises
    BY Zenon DEF SpeakRaises
  <2>2. ~Spoken
    BY DEF Spoken, TtsDone
  <2>3. /\ bpc = "gen" /\ UNCHANGED <<transit, queue, source>> /\ (lost' <=> lost)
        /\ source = "voice" => bpc' \in {"speak", "quip"}
        /\ source # "voice" => fsm' = fsm
    BY <1>5, <2>1, <2>2 DEF ReplyReady, ReplyFails, TtsDone
  <2>4. CASE source = "voice"
    BY <2>3, <2>4 DEF Owed, Answering
  <2>5. CASE source # "voice"
    BY <2>3, <2>5, <1>0 DEF Owed, SpeakingIsOwed
  <2> QED BY <2>4, <2>5
<1>6. ASSUME Deliver \/ UserTypes PROVE Owed'
  <2>1. CASE Deliver
    <3>1. Len(queue) + 1 \in DOMAIN queue' /\ queue'[Len(queue) + 1] = "voice"
      <4>1. queue' = Append(queue, "voice") /\ "voice" \in Sources
        BY <2>1 DEF Deliver, Sources
      <4> QED BY <4>1, <1>0, QueueIn
    <3> QED BY <3>1 DEF Owed
  <2>2. CASE UserTypes
    <3>1. /\ queue' = Append(queue, "typed") /\ UNCHANGED <<fsm, transit, bpc, source>>
          /\ (lost' <=> lost)
      BY <2>2 DEF UserTypes
    <3>2. \A i \in DOMAIN queue : i \in DOMAIN queue' /\ queue'[i] = queue[i]
      <4>1. /\ DOMAIN queue = 1..Len(queue) /\ Len(queue) \in Nat
            /\ DOMAIN queue' = 1..(Len(queue) + 1)
            /\ \A i \in 1..Len(queue) : queue'[i] = queue[i]
        BY <3>1, <1>0, QueueIn DEF Sources
      <4> QED BY <4>1
    <3>3. Owed
      BY <3>1, <1>0 DEF SpeakingIsOwed
    <3> QED BY <3>1, <3>2, <3>3 DEF Owed
  <2> QED BY <1>6, <2>1, <2>2
<1>7. ASSUME UserClears \/ UNCHANGED vars PROVE Owed'
  <2>1. UNCHANGED <<fsm, transit, queue, bpc, source>> /\ (lost' <=> lost)
    BY <1>7 DEF UserClears
  <2> QED BY <2>1, <1>0 DEF Owed, SpeakingIsOwed
<1> QED BY <1>1, <1>2, <1>3, <1>4, <1>5, <1>6, <1>7, Zenon DEF Next, BrainStep

\* Every step keeps the invariant.
LEMMA VoiceInvStep == VoiceInv /\ [Next]_vars => VoiceInv'
BY ItemStep, FlagStep, TurnStepLemma, OwedStep, Zenon DEF VoiceInv

-----------------------------------------------------------------------------
(* The composition: each of its steps is one of the session, or none, and  *)
(* one of the calls that speak, or none.                                   *)

\* A call that begins is a step of speech.
LEMMA BeginIsNext == ASSUME NEW t \in Speakers, Begin(t) PROVE SpeechNext
BY DEF SpeechNext

\* A step of the composition is a step or a stutter of each part.
LEMMA TurnsMap == [TurnsNext]_turnsVars => [Next]_vars /\ [SpeechNext]_speechVars
<1> SUFFICES ASSUME [TurnsNext]_turnsVars PROVE [Next]_vars /\ [SpeechNext]_speechVars
  OBVIOUS
<1>0. Voice \in Speakers
  BY SpeakersAssumption
<1>1. CASE \/ Session(Tick) \/ Session(AudioStep) \/ Session(Deliver)
           \/ Session(UserTypes) \/ Session(UserClears)
           \/ Session(\E s \in BOOLEAN : Poll(s))
           \/ Session(\E deflect \in BOOLEAN : TakeItem(deflect))
           \/ Session(QueueDrained)
  BY <1>1, Zenon DEF Session, Next, BrainStep
<1>2. CASE ReplyEmitted \/ QuipEmitted
  <2>1. Next
    BY <1>2, Zenon DEF ReplyEmitted, QuipEmitted, Next, BrainStep
  <2>2. [SpeechNext]_speechVars
    BY <1>2, <1>0, BeginIsNext, Zenon DEF ReplyEmitted, QuipEmitted, Emit, SpeakAsync
  <2> QED BY <2>1, <2>2, Zenon
<1>3. CASE VoiceSpoken
  BY <1>3, Zenon DEF VoiceSpoken, Next, BrainStep
<1>4. CASE VoiceRaised
  <2>1. Next
    BY <1>4, Zenon DEF VoiceRaised, Next, BrainStep
  <2>2. Begin(Voice)
    BY <1>4, Zenon DEF VoiceRaised, Begin
  <2> QED BY <2>1, <2>2, <1>0, BeginIsNext, Zenon
<1>5. CASE SpeakAmbient
  BY <1>5, BeginIsNext, Zenon DEF SpeakAmbient
<1>6. CASE Speaking /\ UNCHANGED vars
  BY <1>6, Zenon DEF Speaking, SpeechNext
<1>7. CASE UNCHANGED turnsVars
  BY <1>7, Zenon DEF turnsVars
<1> QED BY <1>1, <1>2, <1>3, <1>4, <1>5, <1>6, <1>7, Zenon DEF TurnsNext, TurnStep

\* Together the two parts do nothing that each does not allow by itself: a voice
\* session whose replies really are synthesised and played among other calls is
\* still one whose replies end when they like (orchestrator.py, _release_voice_mic,
\* and tts.py, speak).
THEOREM PartsThm == TurnsSpec => Spec /\ SpeechSpec
<1>1. TurnsInit => Init /\ Quiet
  BY DEF TurnsInit
<1>2. [TurnsNext]_turnsVars => [Next]_vars /\ [SpeechNext]_speechVars
  BY TurnsMap
<1> QED BY <1>1, <1>2, PTL DEF TurnsSpec, Spec, SpeechSpec

\* So both invariants hold in the composition.
LEMMA TurnsInv == TurnsSpec => [](VoiceInv /\ SpeechInv)
<1>1. TurnsInit => VoiceInv /\ SpeechInv
  BY VoiceInvInit, SpeechInvInit, Zenon DEF TurnsInit
<1>2. VoiceInv /\ SpeechInv /\ [TurnsNext]_turnsVars => (VoiceInv /\ SpeechInv)'
  BY VoiceInvStep, SpeechInvStep, TurnsMap, Zenon
<1> QED BY <1>1, <1>2, PTL DEF TurnsSpec

\* Types, and a call that speaks plays its own text and has the device for
\* itself, whatever the session, the brain and the other calls do meanwhile
\* (tts.py, the playback lock; _KokoroWorker, paired write and read).
THEOREM VoiceOKThm == TurnsSpec => []VoiceOK
<1>1. VoiceInv /\ SpeechInv => VoiceOK
  BY VoiceInvImplies, SpeechInvImplies, Zenon DEF VoiceOK, SpeechInv
<1> QED BY <1>1, TurnsInv, PTL

\* A voice reply is spoken with the microphone closed, unless its session was
\* closed before it was answered (session.py and input.py, SPEAKING).
THEOREM MicClosedThm == TurnsSpec => []MicClosedDuringReply
<1>1. VoiceInv => MicClosedDuringReply
  BY VoiceInvImplies, Zenon
<1> QED BY <1>1, TurnsInv, PTL

\* A session in SPEAKING has a voice turn on its way that will release it,
\* unless the end of a turn was lost (orchestrator.py, _release_voice_mic).
THEOREM OwedThm == TurnsSpec => []SpeakingIsOwed
<1>1. VoiceInv => SpeakingIsOwed
  BY VoiceInvImplies, Zenon
<1> QED BY <1>1, TurnsInv, PTL

=============================================================================
