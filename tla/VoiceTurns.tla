----------------------------- MODULE VoiceTurns -----------------------------
(***************************************************************************)
(* The voice session (VoiceInput) over the calls that speak (Speech): a    *)
(* voice reply is one speak() that the brain awaits, in line behind typed  *)
(* replies and comments that are spoken in tasks of their own.             *)
(*                                                                         *)
(* Where VoiceInput lets playback return or raise as it likes, here it     *)
(* does what speak() did.                                                  *)
(***************************************************************************)
EXTENDS VoiceInput, Speech

turnsVars == <<vars, speechVars>>

Session(A) == A /\ UNCHANGED speechVars

-----------------------------------------------------------------------------
\* _speak_async: a task that nobody waits for, or none when there is no audio.
SpeakAsync == UNCHANGED speechVars \/ \E t \in Speakers \ {Voice} : Begin(t)

\* _emit_reply: a voice reply is awaited, a typed one is not.
Emit ==
    IF bpc' \in {"speak", "quip"} THEN Begin(Voice)
    ELSE IF source = "typed" THEN SpeakAsync
    ELSE UNCHANGED speechVars

ReplyEmitted == ReplyReady /\ Emit

QuipEmitted == ReplyFails /\ Emit

\* _speak_voice_reply: speak() has returned.
VoiceSpoken ==
    /\ at[Voice] = "done"
    /\ Spoken
    /\ UNCHANGED speechVars

\* The first time it raises, a quip is spoken in its place; if that raises
\* too, the call is over.
VoiceRaised ==
    /\ at[Voice] = "raised"
    /\ SpeakRaises
    /\ IF bpc' = "quip" THEN Begin(Voice) ELSE Skip(Voice)

\* A comment or a reminder, at any time the loop is suspended.
SpeakAmbient ==
    /\ \E t \in Speakers \ {Voice} : Begin(t)
    /\ UNCHANGED vars

Speaking == \E t \in Speakers : Proceed(t) \/ Dies(t)

-----------------------------------------------------------------------------
TurnsInit == Init /\ Quiet

TurnStep ==
    \/ Session(\E s \in BOOLEAN : Poll(s))
    \/ Session(\E deflect \in BOOLEAN : TakeItem(deflect))
    \/ Session(QueueDrained)
    \/ ReplyEmitted \/ QuipEmitted \/ VoiceSpoken \/ VoiceRaised

TurnsNext ==
    \/ Session(Tick) \/ Session(AudioStep) \/ Session(Deliver)
    \/ Session(UserTypes) \/ Session(UserClears)
    \/ TurnStep
    \/ SpeakAmbient
    \/ Speaking /\ UNCHANGED vars

TurnsSpec == TurnsInit /\ [][TurnsNext]_turnsVars

\* As in VoiceInput, but for playback: every call goes on when it can, and a
\* worker loads and answers unless it dies.  Nobody is made to speak.
TurnsFairSpec ==
    /\ TurnsSpec
    /\ SF_turnsVars(Session(Tick))
    /\ WF_turnsVars(Session(AudioStep))
    /\ WF_turnsVars(TurnStep)
    /\ WF_turnsVars(Session(Deliver))
    /\ \A t \in Speakers : WF_turnsVars(Proceed(t) /\ UNCHANGED vars)

-----------------------------------------------------------------------------
\* The types of both, and: two calls never have the device open together, and
\* a call plays its own text and not what another one asked for (Speech,
\* OwnAudio), however replies, quips and asides queue for the one worker.
VoiceOK == TypeOK /\ SpeechType /\ OwnAudio
=============================================================================
