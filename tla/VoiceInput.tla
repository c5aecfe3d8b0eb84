----------------------------- MODULE VoiceInput -----------------------------
(***************************************************************************)
(* The voice session, shared without a lock by two threads:                *)
(*   - the audio thread (audio/input.py _loop_forever) reads microphone    *)
(*     frames and drives the session FSM of audio/session.py;              *)
(*   - the brain loop (brain/orchestrator.py) answers user input one item  *)
(*     at a time, speaks voice replies and calls the notify_* methods.     *)
(*                                                                         *)
(* An FSM method is one step where no interleaving of the two threads can  *)
(* tell the difference.  Two are not: on_transcript and on_speech_started  *)
(* test the state and set it after a call, where CPython may switch        *)
(* threads, and the brain loop may close the session in between: each has  *)
(* a check step and a commit step.                                         *)
(*                                                                         *)
(* Time is abstract: the trailing deadline may have passed at any tick     *)
(* once it is armed, and a listening window may time out at any frame.     *)
(* An operator named Slip... is a definition with a plausible mistake in   *)
(* it, next to the one it imitates; no action uses it.                     *)
(***************************************************************************)
EXTENDS Naturals, Sequences

CONSTANT MaxItems   \* BOUND: input items on their way to the brain at once

ASSUME ItemsAssumption == MaxItems \in Nat \ {0}

VARIABLES
    fsm,        \* VoiceSession.state
    armed,      \* VoiceSession._trailing_deadline is not None
    apc,        \* where the audio thread is
    seen,       \* the state _handle_frame read for this frame
    paused,     \* InputPipeline._paused
    transit,    \* submitted transcripts not yet in the brain's queue
    queue,      \* Brain._user_input_queue: the source of each item
    bpc,        \* where the brain loop is suspended
    source,     \* source of the item being answered
    sensitive,  \* the snapshot of this iteration shows a sensitive app
    cleared,    \* /clear dropped the session the reply is being made for
    lost,       \* history: some turn ended without on_tts_done
    overtaken   \* history: the session of an unanswered transcript was closed

sessionVars == <<fsm, armed, overtaken>>
audioVars == <<apc, seen>>
mailVars == <<transit, queue>>
replyVars == <<source, cleared>>
brainVars == <<queue, bpc, replyVars, sensitive, lost>>
vars == <<sessionVars, audioVars, paused, transit, brainVars>>

States == {"IDLE", "LISTENING", "SPEAKING", "TRAILING"}
Sources == {"typed", "voice"}
Answering == {"gen", "speak", "quip"}

\* A transcript the brain has still to answer.
Owed ==
    \/ transit > 0
    \/ \E i \in DOMAIN queue : queue[i] = "voice"
    \/ bpc \in Answering /\ source = "voice"

-----------------------------------------------------------------------------
(* audio/session.py: the methods the brain loop calls.                     *)

\* on_sensitive_app and on_typed_input: back to IDLE from any state.
CloseSession ==
    /\ fsm' = "IDLE"
    /\ armed' = (armed /\ fsm = "IDLE")
    /\ overtaken' = (overtaken \/ (fsm = "SPEAKING" /\ Owed))

SlipTtsDone ==
    IF fsm = "SPEAKING"
      THEN fsm' = "TRAILING" /\ UNCHANGED armed
      ELSE UNCHANGED <<fsm, armed>>

\* on_tts_done: only SPEAKING is left, and the trailing deadline is armed.
TtsDone ==
    IF fsm = "SPEAKING"
      THEN fsm' = "TRAILING" /\ armed' = TRUE
      ELSE UNCHANGED <<fsm, armed>>

-----------------------------------------------------------------------------
(* The audio thread.                                                       *)

\* tick() runs before the pause is looked at.
Tick ==
    /\ apc = "loop"
    /\ fsm = "TRAILING"
    /\ armed
    /\ fsm' = "IDLE"
    /\ armed' = FALSE
    /\ UNCHANGED <<paused, transit, brainVars, overtaken, audioVars>>

TakeFrame ==
    /\ apc = "loop"
    /\ ~paused
    /\ apc' = "frame"
    /\ seen' = fsm
    /\ UNCHANGED <<paused, transit, brainVars, sessionVars>>

\* Nothing in the frame, or SPEAKING: the frame is dropped.
DropFrame ==
    /\ apc = "frame"
    /\ apc' = "loop"
    /\ UNCHANGED <<seen, paused, transit, brainVars, sessionVars>>

\* The frames kept from before the wake word are replayed at once: the first
\* step of that is the next frame, taken without looking at the pause.
Wake ==
    /\ apc = "frame"
    /\ seen = "IDLE"
    /\ fsm' = IF fsm = "IDLE" THEN "LISTENING" ELSE fsm
    /\ seen' = fsm'
    /\ UNCHANGED <<apc, armed, paused, transit, brainVars, overtaken>>

\* The listening timeout or the utterance buffer cap.
ListeningEnds ==
    /\ apc = "frame"
    /\ seen = "LISTENING"
    /\ apc' = "loop"
    /\ fsm' = IF fsm = "LISTENING" THEN "IDLE" ELSE fsm
    /\ UNCHANGED <<armed, seen, paused, transit, brainVars, overtaken>>

\* End of speech: the thread blocks on the transcription.
SpeechEnded ==
    /\ apc = "frame"
    /\ seen = "LISTENING"
    /\ apc' = "asr"
    /\ UNCHANGED <<seen, paused, transit, brainVars, sessionVars>>

\* No text, too short a text, or the session was closed meanwhile.
TranscriptDropped ==
    /\ apc = "asr"
    /\ apc' = "loop"
    /\ fsm' = IF fsm = "LISTENING" THEN "IDLE" ELSE fsm
    /\ armed' = IF fsm = "LISTENING" THEN FALSE ELSE armed
    /\ UNCHANGED <<seen, paused, transit, brainVars, overtaken>>

TranscriptChecked ==
    /\ apc = "asr"
    /\ fsm = "LISTENING"
    /\ transit + Len(queue) < MaxItems
    /\ apc' = "submit"
    /\ UNCHANGED <<seen, paused, transit, brainVars, sessionVars>>

TranscriptSubmitted ==
    /\ apc = "submit"
    /\ apc' = "loop"
    /\ fsm' = "SPEAKING"
    /\ transit' = transit + 1
    /\ UNCHANGED <<armed, seen, paused, brainVars, overtaken>>

SpeechStartChecked ==
    /\ apc = "frame"
    /\ seen = "TRAILING"
    /\ fsm = "TRAILING"
    /\ apc' = "barge"
    /\ armed' = FALSE
    /\ UNCHANGED <<fsm, seen, paused, transit, brainVars, overtaken>>

SpeechStarted ==
    /\ apc = "barge"
    /\ apc' = "loop"
    /\ fsm' = "LISTENING"
    /\ UNCHANGED <<armed, seen, paused, transit, brainVars, overtaken>>

-----------------------------------------------------------------------------
(* The brain loop.                                                         *)

\* Poll, snapshot and _sync_audio_sensitive_state, which acts on edges only.
Poll(s) ==
    /\ bpc = "poll"
    /\ bpc' = "drain"
    /\ sensitive' = s
    /\ IF s = sensitive
         THEN UNCHANGED <<paused, sessionVars>>
         ELSE /\ paused' = s
              /\ IF s THEN CloseSession
                      ELSE UNCHANGED sessionVars
    /\ UNCHANGED <<audioVars, lost, replyVars, mailVars>>

\* _handle_user_input up to the first await.  A typed turn closes the voice
\* session; under a sensitive app, unless its reading has expired meanwhile,
\* the turn is deflected without a reply.
TakeItem(deflect) ==
    /\ bpc = "drain"
    /\ queue # <<>>
    /\ deflect => sensitive
    /\ queue' = Tail(queue)
    /\ source' = Head(queue)
    /\ bpc' = IF deflect THEN "drain" ELSE "gen"
    /\ cleared' = FALSE
    /\ lost' = (lost \/ (deflect /\ source' = "voice"))
    /\ IF source' = "typed" THEN CloseSession ELSE UNCHANGED sessionVars
    /\ UNCHANGED <<audioVars, paused, transit, sensitive>>

QueueDrained ==
    /\ bpc = "drain"
    /\ queue = <<>>
    /\ bpc' = "poll"
    /\ overtaken' = (overtaken /\ Owed)
    /\ UNCHANGED <<fsm, armed, audioVars, paused, sensitive, lost, replyVars,
                   mailVars>>

SlipReplyReady ==
    /\ bpc = "gen"
    /\ bpc' = IF source = "voice" /\ ~cleared THEN "speak" ELSE "drain"
    /\ IF source = "voice" THEN TtsDone ELSE UNCHANGED <<fsm, armed>>
    /\ UNCHANGED <<audioVars, paused, sensitive, lost, overtaken, replyVars,
                   mailVars>>

\* The reply, or a quip when it was filtered out.  A reply whose session was
\* cleared meanwhile is dropped, and the microphone is released.
ReplyReady ==
    /\ bpc = "gen"
    /\ bpc' = IF source = "voice" /\ ~cleared THEN "speak" ELSE "drain"
    /\ IF source = "voice" /\ cleared THEN TtsDone ELSE UNCHANGED <<fsm, armed>>
    /\ UNCHANGED <<audioVars, paused, sensitive, lost, overtaken, replyVars,
                   mailVars>>

\* The model call raises: the handler answers with a quip.
ReplyFails ==
    /\ bpc = "gen"
    /\ bpc' = IF source = "voice" THEN "quip" ELSE "drain"
    /\ UNCHANGED <<audioVars, paused, sensitive, lost, sessionVars, replyVars,
                   mailVars>>

SlipSpoken ==
    /\ bpc \in {"speak", "quip"}
    /\ bpc' = "drain"
    /\ IF bpc = "speak" THEN TtsDone ELSE UNCHANGED <<fsm, armed>>
    /\ UNCHANGED <<audioVars, paused, sensitive, lost, overtaken, replyVars,
                   mailVars>>

\* _speak_voice_reply: playback has drained.
Spoken ==
    /\ bpc \in {"speak", "quip"}
    /\ bpc' = "drain"
    /\ TtsDone
    /\ UNCHANGED <<audioVars, paused, sensitive, lost, overtaken, replyVars,
                   mailVars>>

\* speak() raises: the first time the handler's except branch speaks a quip,
\* from there the exception reaches the loop, which starts over.
SpeakRaises ==
    /\ bpc \in {"speak", "quip"}
    /\ bpc' = IF bpc = "speak" THEN "quip" ELSE "poll"
    /\ lost' = TRUE
    /\ UNCHANGED <<audioVars, paused, sensitive, sessionVars, replyVars,
                   mailVars>>

-----------------------------------------------------------------------------
(* Messages and the user.                                                  *)

Deliver ==
    /\ transit > 0
    /\ transit' = transit - 1
    /\ queue' = Append(queue, "voice")
    /\ UNCHANGED <<audioVars, paused, bpc, sensitive, lost, sessionVars,
                   replyVars>>

UserTypes ==
    /\ transit + Len(queue) < MaxItems
    /\ queue' = Append(queue, "typed")
    /\ UNCHANGED <<audioVars, paused, transit, bpc, sensitive, lost,
                   sessionVars, replyVars>>

UserClears ==
    /\ bpc = "gen"
    /\ cleared' = TRUE
    /\ UNCHANGED <<audioVars, paused, bpc, source, sensitive, lost,
                   sessionVars, mailVars>>

-----------------------------------------------------------------------------
Init ==
    /\ fsm = "IDLE"
    /\ armed = FALSE
    /\ apc = "loop"
    /\ seen = "IDLE"
    /\ paused = FALSE
    /\ transit = 0
    /\ queue = <<>>
    /\ bpc = "poll"
    /\ source = "typed"
    /\ sensitive = FALSE
    /\ cleared = FALSE
    /\ lost = FALSE
    /\ overtaken = FALSE

AudioCommit == TranscriptSubmitted \/ SpeechStarted

AudioStep ==
    \/ TakeFrame \/ DropFrame \/ Wake \/ ListeningEnds \/ SpeechEnded
    \/ TranscriptDropped \/ TranscriptChecked \/ SpeechStartChecked
    \/ AudioCommit

BrainStep ==
    \/ \E s \in BOOLEAN : Poll(s)
    \/ \E deflect \in BOOLEAN : TakeItem(deflect)
    \/ QueueDrained \/ ReplyReady \/ ReplyFails
    \/ Spoken \/ SpeakRaises

Next ==
    \/ Tick \/ AudioStep \/ BrainStep \/ Deliver \/ UserTypes \/ UserClears

Spec == Init /\ [][Next]_vars

\* The threads run, messages arrive, model and playback calls return, and a
\* trailing deadline passes: the audio thread reads a frame and ticks for
\* ever, so a deadline is noticed although frames keep coming.
FairSpec ==
    /\ Spec
    /\ SF_vars(Tick)
    /\ WF_vars(AudioStep)
    /\ WF_vars(BrainStep)
    /\ WF_vars(Deliver)

-----------------------------------------------------------------------------
TypeOK ==
    /\ fsm \in States
    /\ armed \in BOOLEAN
    /\ apc \in {"loop", "frame", "asr", "submit", "barge"}
    /\ seen \in States
    /\ paused \in BOOLEAN
    /\ transit \in 0..MaxItems
    /\ queue \in Seq(Sources)
    /\ transit + Len(queue) <= MaxItems + 1
    /\ bpc \in {"poll", "drain"} \cup Answering
    /\ source \in Sources
    /\ sensitive \in BOOLEAN
    /\ cleared \in BOOLEAN
    /\ lost \in BOOLEAN
    /\ overtaken \in BOOLEAN

\* While a voice reply is being spoken the microphone is closed to wake words
\* and speech, so the buddy cannot hear itself (session.py and input.py, the
\* SPEAKING branch): unless a typed turn or a sensitive app closed the session
\* before its reply, or the reply answers a turn whose session is gone.
MicClosedDuringReply ==
    bpc \in {"speak", "quip"} /\ source = "voice" /\ ~overtaken => fsm = "SPEAKING"

\* SPEAKING has no way out but the brain's: whenever the session is in it, a
\* voice turn whose end will release it is still on its way, unless the end of
\* some turn was lost.
SpeakingIsOwed == fsm = "SPEAKING" /\ ~lost => Owed

\* An open trailing window always has a deadline, and it is noticed: noise in
\* the room cannot hold the window open (session.py, tick).
TrailingCloses == fsm = "TRAILING" ~> fsm # "TRAILING"

\* SPEAKING has no deadline of its own (_release_voice_mic), yet every voice
\* turn is released, cleared sessions, filtered replies and failing model calls
\* included, as long as playback never raises and no turn is deflected.
SpeakingEndsUnlessLost == [](~lost) => (fsm = "SPEAKING" ~> fsm # "SPEAKING")
=============================================================================
