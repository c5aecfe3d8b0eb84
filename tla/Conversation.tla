---------------------------- MODULE Conversation ----------------------------
(***************************************************************************)
(* The multi-turn chat of brain/orchestrator.py: the live session, its     *)
(* expiry, the background summary of a finished chat                       *)
(* (brain/session_summarizer.py), the stored recaps, and /clear.           *)
(*                                                                         *)
(* The brain handles one item at a time, but every await lets three others *)
(* run: a summary still being written, the user's /clear or /model, and    *)
(* the idle timeout, which may pass while a reply is being generated.      *)
(*                                                                         *)
(* /proofread and /explain join the same loop: what a sensitive app has in  *)
(* front of the buddy is known to the handlers only through the snapshot    *)
(* of brain/context.py, which the loop itself refreshes.                    *)
(*                                                                         *)
(* A text is abstracted to whether it repeats something that was in the    *)
(* chat before the last /clear ("cleared") or not ("live").                *)
(*                                                                         *)
(* An operator named Slip... is a definition with a plausible mistake in   *)
(* it, next to the one it imitates; no action uses it.                     *)
(***************************************************************************)
EXTENDS Naturals, Sequences, SequencesExt

CONSTANTS
    MaxTurns,    \* [conversation] max_turns
    MaxAsked,    \* BOUND: items waiting for the brain at once
    MaxPending   \* BOUND: summaries being written at once

ASSUME BoundsAssumption ==
    /\ MaxTurns \in Nat \ {0}
    /\ MaxAsked \in Nat \ {0}
    /\ MaxPending \in Nat \ {0}

VARIABLES
    conv,       \* self._conversation: at most one session, as a sequence
    expired,    \* its is_expired
    summaries,  \* the texts of the chats being summarised
    rows,       \* the texts of conversation_summaries, within the lookback
    queue,      \* the kinds of the items the user submitted
    pc,         \* where the brain loop is suspended
    item,       \* the kind of the item being handled
    prompt,     \* the text the reply in the making may repeat
    unwiped,    \* history: a /clear could not delete the rows
    front,      \* a sensitive app is in the foreground
    seen,       \* so says self._context.snapshot()
    opened      \* history: it came to the front during the task's model call

vars == <<conv, expired, summaries, rows, queue, pc, item, prompt, unwiped,
          front, seen, opened>>

sessionVars == <<conv, expired>>
turnVars == <<item, prompt>>
storeVars == <<summaries, rows, unwiped>>
deskVars == <<front, seen, opened>>
talkVars == <<conv, expired, summaries, rows, unwiped, queue, item, prompt>>

Kinds == {"chat", "research", "desktop"}
Texts == {"live", "cleared"}
Roles == {"user", "assistant"}
Placeholder == "placeholder"   \* _NO_RESPONSE_PLACEHOLDER
Replying == {"reply", "retry"}
Waiting == {"wait", "cut"}
Tasking == {"capture", "call", "done"}

Worst(texts) == IF "cleared" \in texts THEN "cleared" ELSE "live"

Said(role, text) == [role |-> role, text |-> text]

TextsOf(history) == {history[i].text : i \in DOMAIN history}

NoSession == <<>>
History == conv[1].history

-----------------------------------------------------------------------------
(* ConversationSession.                                                    *)

\* _enforce_cap: the oldest pair goes when the history is over budget.
Cap(h) == IF Len(h) > 2 * MaxTurns THEN SubSeq(h, 3, Len(h)) ELSE h

AddTurn(h, role, text) == Cap(Append(h, Said(role, text)))

\* What an item adds to the history when it joins a session: the user's turn,
\* or the synthetic pair of a research answer.
Joined(h) ==
    IF item' = "chat" THEN AddTurn(h, "user", "live")
    ELSE AddTurn(AddTurn(h, "user", "live"), "assistant", "live")

\* The turn of a chat goes to the model next; a research answer is done.
Proceed(h, recap) ==
    /\ conv' = <<[history |-> Joined(h), recap |-> recap]>>
    /\ expired' = FALSE
    /\ prompt' = Worst(TextsOf(h) \cup {recap})
    /\ pc' = IF item' = "chat" THEN "reply" ELSE "loop"

\* A fresh session with the recap of the latest row, if it can be read.
OpenSession == \E recap \in rows \cup {"none"} : Proceed(<<>>, recap)

-----------------------------------------------------------------------------
(* Expiry.                                                                 *)

TimePasses ==
    /\ conv # NoSession
    /\ ~expired
    /\ expired' = TRUE
    /\ UNCHANGED <<deskVars, conv, storeVars, queue, pc, turnVars>>

Answered == \E i \in DOMAIN History :
    History[i].role = "assistant" /\ History[i].text # Placeholder

\* _rollover_expired_session on the summaries: a chat with an answer in it is
\* handed to the summarizer.
Rolled ==
    IF conv # NoSession /\ expired /\ Answered
      THEN Append(summaries, Worst(TextsOf(History)))
      ELSE summaries

\* The brain loop, once per iteration.
RollOver ==
    /\ pc = "loop"
    /\ expired
    /\ Len(Rolled) <= MaxPending
    /\ summaries' = Rolled
    /\ conv' = NoSession
    /\ expired' = FALSE
    /\ UNCHANGED <<deskVars, rows, unwiped, queue, pc, turnVars>>

\* An item joins the session; an expired or missing one is replaced, after a
\* wait for the summaries that are still being written.
Join ==
    IF conv # NoSession /\ ~expired
      THEN /\ Proceed(History, conv[1].recap)
           /\ UNCHANGED storeVars
      ELSE /\ Len(Rolled) <= MaxPending
           /\ summaries' = Rolled
           /\ UNCHANGED <<rows, unwiped>>
           /\ IF summaries' = <<>>
                THEN OpenSession
                ELSE /\ pc' = "wait"
                     /\ conv' = NoSession
                     /\ expired' = FALSE
                     /\ UNCHANGED prompt

-----------------------------------------------------------------------------
(* The items.                                                              *)

Ask(kind) ==
    /\ Len(queue) < MaxAsked
    /\ queue' = Append(queue, kind)
    /\ UNCHANGED <<deskVars, sessionVars, storeVars, pc, turnVars>>

Take(kind) ==
    /\ pc = "loop"
    /\ queue # <<>>
    /\ Head(queue) = kind
    /\ queue' = Tail(queue)
    /\ item' = kind

\* A sensitive app: a chat turn drops the session and no summary is made of
\* it; a research question or a desktop task is refused.
LookAway(kind) ==
    /\ Take(kind)
    /\ seen
    /\ conv' = IF kind = "chat" THEN NoSession ELSE conv
    /\ expired' = (expired /\ kind # "chat")
    /\ UNCHANGED <<deskVars, storeVars, pc, prompt>>

TakeChat ==
    /\ Take("chat")
    /\ ~seen
    /\ Join
    /\ UNCHANGED deskVars

TakeResearch ==
    /\ Take("research")
    /\ ~seen
    /\ pc' = "research"
    /\ UNCHANGED <<deskVars, sessionVars, storeVars, prompt>>

\* A complete answer is shown and injected into the conversation.
ResearchAnswered ==
    /\ pc = "research"
    /\ UNCHANGED item
    /\ Join
    /\ UNCHANGED <<deskVars, queue>>

ResearchFailed ==
    /\ pc = "research"
    /\ pc' = "loop"
    /\ UNCHANGED <<deskVars, sessionVars, storeVars, queue, turnVars>>

\* The pending summaries are done, or the wait for them timed out.
WaitEnds ==
    /\ pc = "wait"
    /\ UNCHANGED item
    /\ OpenSession
    /\ UNCHANGED <<deskVars, storeVars, queue>>

SlipWaitCut ==
    /\ pc = "cut"
    /\ pc' = "dead"
    /\ UNCHANGED <<deskVars, sessionVars, storeVars, queue, turnVars>>

\* /clear cancelled the summaries that were waited for: the wait raises
\* CancelledError, which is not the brain's own cancellation.
WaitCut ==
    /\ pc = "cut"
    /\ UNCHANGED item
    /\ OpenSession
    /\ UNCHANGED <<deskVars, storeVars, queue>>

-----------------------------------------------------------------------------
(* The reply.                                                              *)

SlipReplyShown ==
    /\ pc \in Replying
    /\ pc' = "loop"
    /\ conv' = IF conv = NoSession THEN conv
               ELSE [conv EXCEPT ![1].history = AddTurn(@, "assistant", prompt)]
    /\ UNCHANGED <<deskVars, expired, storeVars, queue, turnVars>>

ReplyShown ==
    /\ pc \in Replying
    /\ conv # NoSession
    /\ pc' = "loop"
    /\ conv' = [conv EXCEPT ![1].history = AddTurn(@, "assistant", prompt)]
    /\ UNCHANGED <<deskVars, expired, storeVars, queue, turnVars>>

\* The session was dropped while the reply was being generated.
ReplyDropped ==
    /\ pc \in Replying
    /\ conv = NoSession
    /\ pc' = "loop"
    /\ UNCHANGED <<deskVars, sessionVars, storeVars, queue, turnVars>>

NearDuplicate ==
    /\ pc = "reply"
    /\ conv # NoSession
    /\ pc' = "retry"
    /\ UNCHANGED <<deskVars, sessionVars, storeVars, queue, turnVars>>

\* Nothing is left after the filter: a quip is shown instead.
ReplyFiltered ==
    /\ pc \in Replying
    /\ conv # NoSession
    /\ pc' = "loop"
    /\ conv' = [conv EXCEPT ![1].history = AddTurn(@, "assistant", Placeholder)]
    /\ UNCHANGED <<deskVars, expired, storeVars, queue, turnVars>>

SlipReplyFails ==
    /\ pc \in Replying
    /\ pc' = "loop"
    /\ UNCHANGED <<deskVars, sessionVars, storeVars, queue, turnVars>>

\* The model call raises: the turn is taken back and a quip is shown.
ReplyFails ==
    /\ pc \in Replying
    /\ pc' = "loop"
    /\ conv' = IF conv # NoSession /\ Last(History).role = "user"
                 THEN [conv EXCEPT ![1].history = Front(@)]
                 ELSE conv
    /\ UNCHANGED <<deskVars, expired, storeVars, queue, turnVars>>

-----------------------------------------------------------------------------
(* /proofread and /explain, and the foreground app.                        *)

\* Text given inline goes to the model; a selection has to be read first.
TakeTask ==
    /\ Take("desktop")
    /\ ~seen
    /\ pc' \in {"capture", "call"}
    /\ UNCHANGED <<deskVars, sessionVars, storeVars, prompt>>

\* capture_selection looks at the app itself, not at the snapshot.
Captured ==
    /\ pc = "capture"
    /\ ~front
    /\ pc' = "call"
    /\ UNCHANGED <<deskVars, talkVars>>

\* No consent, a sensitive source app, or nothing to read.
CaptureFails ==
    /\ pc = "capture"
    /\ pc' = "loop"
    /\ UNCHANGED <<deskVars, talkVars>>

\* The reply goes to the chat pane, unless the snapshot now forbids it.
TaskReplied ==
    /\ pc = "call"
    /\ ~seen
    /\ pc' = "done"
    /\ opened' = FALSE
    /\ UNCHANGED <<front, seen, talkVars>>

\* The call failed or nothing came back.
TaskAborted ==
    /\ pc = "call"
    /\ pc' = "loop"
    /\ opened' = FALSE
    /\ UNCHANGED <<front, seen, talkVars>>

\* The persona's line about it, which has a model call of its own.
DoneLine ==
    /\ pc = "done"
    /\ pc' = "loop"
    /\ UNCHANGED <<deskVars, talkVars>>

\* The sense that watches the foreground is polled by the loop alone.
PollSenses ==
    /\ pc = "loop"
    /\ seen # front
    /\ seen' = front
    /\ UNCHANGED <<front, opened, pc, talkVars>>

\* reading_ttl_s: snapshot() leaves an old reading out.
ReadingExpires ==
    /\ seen
    /\ seen' = FALSE
    /\ UNCHANGED <<front, opened, pc, talkVars>>

SwitchApp ==
    /\ front' = ~front
    /\ opened' = (front' /\ pc = "call")
    /\ UNCHANGED <<seen, pc, talkVars>>

-----------------------------------------------------------------------------
(* The summarizer.                                                         *)

SummaryLands(i) ==
    /\ rows' = rows \cup {summaries[i]}
    /\ summaries' = RemoveAt(summaries, i)
    /\ UNCHANGED <<deskVars, unwiped, sessionVars, queue, pc, turnVars>>

\* The model failed, had nothing to say, or named a sensitive term.
SummaryDropped(i) ==
    /\ summaries' = RemoveAt(summaries, i)
    /\ UNCHANGED <<deskVars, rows, unwiped, sessionVars, queue, pc, turnVars>>

\* The insert raises: so does a wait for it, and the item is lost.
SummaryRaises(i) ==
    /\ summaries' = RemoveAt(summaries, i)
    /\ pc' = IF pc = "wait" THEN "loop" ELSE pc
    /\ UNCHANGED <<deskVars, rows, unwiped, sessionVars, queue, turnVars>>

RowsAge ==
    /\ rows # {}
    /\ rows' = {}
    /\ UNCHANGED <<deskVars, summaries, unwiped, sessionVars, queue, pc, turnVars>>

-----------------------------------------------------------------------------
(* Commands that reach the loop at any await, and the process.             *)

DropSession ==
    /\ conv' = NoSession
    /\ expired' = FALSE

SlipCancelSummaries ==
    /\ summaries' = [i \in DOMAIN summaries |-> "cleared"]
    /\ pc' = pc

\* A cancelled summary never reaches its insert.
CancelSummaries ==
    /\ summaries' = <<>>
    /\ pc' = IF pc = "wait" /\ summaries # <<>> THEN "cut" ELSE pc

\* _clear_conversation_and_summaries: a delete that fails is only logged.
Clear(wiped) ==
    /\ CancelSummaries
    /\ rows' = IF wiped \/ rows = {} THEN {} ELSE {"cleared"}
    /\ unwiped' = (unwiped \/ rows' # {})
    /\ DropSession
    /\ prompt' = IF pc \in Replying THEN "cleared" ELSE prompt
    /\ UNCHANGED <<deskVars, queue, item>>

\* /model and /voice: reset_conversation.
Reset ==
    /\ DropSession
    /\ UNCHANGED <<deskVars, storeVars, queue, pc, turnVars>>

Restart ==
    /\ DropSession
    /\ summaries' = <<>>
    /\ queue' = <<>>
    /\ pc' = "loop"
    /\ seen' = FALSE
    /\ opened' = FALSE
    /\ UNCHANGED <<front, rows, unwiped, turnVars>>

-----------------------------------------------------------------------------
Init ==
    /\ conv = NoSession
    /\ expired = FALSE
    /\ summaries = <<>>
    /\ rows = {}
    /\ queue = <<>>
    /\ pc = "loop"
    /\ item = "chat"
    /\ prompt = "live"
    /\ unwiped = FALSE
    /\ front = FALSE
    /\ seen = FALSE
    /\ opened = FALSE

Summarizer == \E i \in DOMAIN summaries :
    SummaryLands(i) \/ SummaryDropped(i) \/ SummaryRaises(i)

Brain ==
    \/ \E kind \in Kinds : LookAway(kind)
    \/ TakeChat \/ TakeResearch \/ ResearchAnswered \/ ResearchFailed
    \/ TakeTask \/ Captured \/ CaptureFails \/ TaskReplied \/ TaskAborted
    \/ DoneLine
    \/ WaitEnds \/ WaitCut
    \/ ReplyShown \/ ReplyDropped \/ NearDuplicate \/ ReplyFiltered
    \/ ReplyFails
    \/ RollOver

Next ==
    \/ Brain
    \/ Summarizer
    \/ \E kind \in Kinds : Ask(kind)
    \/ \E wiped \in BOOLEAN : Clear(wiped)
    \/ Reset \/ Restart \/ RowsAge \/ TimePasses
    \/ PollSenses \/ ReadingExpires \/ SwitchApp

Spec == Init /\ [][Next]_vars

\* The loop runs on: the wait and a summary's model call are under wait_for, and
\* research is by stages.  A reply's call has httpx's timeout alone, which is per
\* read: that a server does not trickle for ever is assumed.
FairSpec == Spec /\ WF_vars(Brain) /\ WF_vars(Summarizer)

-----------------------------------------------------------------------------
Messages == [role : Roles, text : Texts \cup {Placeholder}]
Sessions == [history : Seq(Messages), recap : Texts \cup {"none"}]

TypeOK ==
    /\ conv \in Seq(Sessions) /\ Len(conv) <= 1
    /\ conv # NoSession => Len(History) <= 2 * MaxTurns
    /\ expired \in BOOLEAN
    /\ summaries \in Seq(Texts) /\ Len(summaries) <= MaxPending
    /\ rows \in SUBSET Texts
    /\ queue \in Seq(Kinds) /\ Len(queue) <= MaxAsked
    /\ pc \in {"loop", "research"} \cup Replying \cup Waiting \cup Tasking
    /\ item \in Kinds
    /\ prompt \in Texts
    /\ unwiped \in BOOLEAN
    /\ front \in BOOLEAN /\ seen \in BOOLEAN
    /\ opened => front /\ pc = "call"

\* Whatever was dropped, capped, taken back or injected, the history the model
\* is given starts with the user and the roles alternate; between items it
\* ends with an answer, so the next turn is never a second question
\* (ConversationSession, and the except branch of _handle_user_input).
HistoryAlternates ==
    conv # NoSession =>
        /\ \A i \in DOMAIN History :
              History[i].role = IF i % 2 = 1 THEN "user" ELSE "assistant"
        /\ pc \notin Replying => Len(History) % 2 = 0

HistoryOK == TypeOK /\ HistoryAlternates

\* After /clear nothing that was in the chat is in its history, its recap, a
\* summary being written or a stored one, unless the rows could not be deleted
\* (clear_conversation_history: "drop the live session, in-flight summaries,
\* and stored recaps").
ClearedStaysGone ==
    ~unwiped =>
        /\ "cleared" \notin rows \cup ToSet(summaries)
        /\ conv # NoSession =>
              "cleared" \notin TextsOf(History) \cup {conv[1].recap}

\* A reply generated from what /clear dropped is never shown, not even when
\* the retry of a near-duplicate was the call in flight.
RepliesAreLive == [][ReplyShown => prompt = "live" \/ unwiped]_vars

\* A /clear that cancels the very summaries a turn is waiting for does not
\* take the brain with it: the loop always gets back to the queue.
LoopComesBack == pc # "loop" ~> pc = "loop"

\* The reply to a desktop task never lands next to a sensitive app that was
\* opened while the model was writing it (_handle_desktop_task: "a sensitive
\* window opened meanwhile must not have the reply landed next to it").
ReplyIsWithheld == [][TaskReplied => ~opened]_vars
=============================================================================
