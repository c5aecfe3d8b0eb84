-------------------------- MODULE ConversationProofs --------------------------
(***************************************************************************)
(* What a chat remembers, for every max_turns and any number of waiting    *)
(* items and summaries: the roles of the history alternate, and nothing    *)
(* that /clear dropped is said again.                                      *)
(***************************************************************************)
EXTENDS Conversation, SequenceTheorems, TLAPS

-----------------------------------------------------------------------------
(* Histories.                                                              *)

Alternates(h) == \A i \in DOMAIN h :
    h[i].role = IF i % 2 = 1 THEN "user" ELSE "assistant"

\* The histories ConversationSession keeps.
Kept(h) == h \in Seq(Messages) /\ Len(h) <= 2 * MaxTurns /\ Alternates(h)

Turn(h) == IF Len(h) % 2 = 0 THEN "user" ELSE "assistant"

\* The cap drops pairs from the front: what is left alternates, has the same parity
\* and nothing new in it.
LEMMA CapLemma ==
    ASSUME NEW h, h \in Seq(Messages), Len(h) <= 2 * MaxTurns + 1, Alternates(h)
    PROVE  /\ Kept(Cap(h))
           /\ Len(Cap(h)) % 2 = Len(h) % 2
           /\ TextsOf(Cap(h)) \subseteq TextsOf(h)
<1>a. Len(h) \in Nat /\ MaxTurns \in Nat /\ MaxTurns >= 1 /\ DOMAIN h = 1..Len(h)
  BY BoundsAssumption, LenProperties
<1>1. CASE Len(h) <= 2 * MaxTurns
  <2>0. ~ (Len(h) > 2 * MaxTurns)
    BY <1>1, <1>a
  <2>1. Cap(h) = h
    BY <2>0, Zenon DEF Cap
  <2>2. Kept(h)
    BY <1>1 DEF Kept
  <2> QED BY <2>1, <2>2, Zenon
<1>2. CASE Len(h) > 2 * MaxTurns
  <2>0. Cap(h) = SubSeq(h, 3, Len(h))
    BY <1>2 DEF Cap
  <2>1. \A i \in 3..Len(h) : h[i] \in Messages
    BY <1>a
  <2>2. /\ Cap(h) \in Seq(Messages)
        /\ Len(Cap(h)) = Len(h) - 2
        /\ \A i \in 1..(Len(h) - 2) : Cap(h)[i] = h[i + 2]
    BY <2>0, <2>1, <1>a, <1>2, SubSeqProperties
  <2>3. DOMAIN Cap(h) = 1..(Len(h) - 2)
    BY <2>2, LenProperties
  <2>4. Alternates(Cap(h))
    <3> SUFFICES ASSUME NEW i \in 1..(Len(h) - 2)
                 PROVE  Cap(h)[i].role = IF i % 2 = 1 THEN "user" ELSE "assistant"
      BY <2>3 DEF Alternates
    <3>1. i + 2 \in DOMAIN h /\ (i + 2) % 2 = i % 2
      BY <1>a
    <3> QED BY <3>1, <2>2 DEF Alternates
  <2>5. (Len(h) - 2) % 2 = Len(h) % 2
    BY <1>a, <1>2
  <2>6. TextsOf(Cap(h)) \subseteq TextsOf(h)
    <3>1. ASSUME NEW i \in DOMAIN Cap(h)
          PROVE  i + 2 \in DOMAIN h /\ Cap(h)[i].text = h[i + 2].text
      <4>1. i + 2 \in 1..Len(h) /\ i \in 1..(Len(h) - 2)
        BY <2>3, <1>a
      <4> QED BY <4>1, <2>2, <1>a, Zenon
    <3> QED BY <3>1, Zenon DEF TextsOf
  <2> QED BY <2>2, <2>4, <2>5, <2>6, <1>a DEF Kept
<1> QED BY <1>1, <1>2, <1>a

\* A turn of the role whose turn it is keeps the history alternating, and adds
\* no text but its own, whatever the cap throws away.
LEMMA AddTurnLemma ==
    ASSUME NEW h, Kept(h), NEW text \in Texts \cup {Placeholder}
    PROVE  /\ Kept(AddTurn(h, Turn(h), text))
           /\ Len(AddTurn(h, Turn(h), text)) % 2 = (Len(h) + 1) % 2
           /\ TextsOf(AddTurn(h, Turn(h), text)) \subseteq TextsOf(h) \cup {text}
<1> DEFINE m == Said(Turn(h), text)
           a == Append(h, m)
<1>a. /\ Len(h) \in Nat /\ MaxTurns \in Nat /\ h \in Seq(Messages)
      /\ DOMAIN h = 1..Len(h) /\ Alternates(h) /\ Len(h) <= 2 * MaxTurns
  BY BoundsAssumption, LenProperties DEF Kept
<1>1. m \in Messages /\ m.role = Turn(h) /\ m.text = text
  BY DEF Said, Messages, Roles, Turn
<1>2. /\ a \in Seq(Messages) /\ Len(a) = Len(h) + 1
      /\ \A i \in 1..Len(h) : a[i] = h[i]
      /\ a[Len(h) + 1] = m
  BY <1>1, <1>a, AppendProperties
<1>3. DOMAIN a = 1..(Len(h) + 1)
  BY <1>2, LenProperties
<1> HIDE DEF m, a
<1>4. Alternates(a)
  <2> SUFFICES ASSUME NEW i \in 1..(Len(h) + 1)
               PROVE  a[i].role = IF i % 2 = 1 THEN "user" ELSE "assistant"
    BY <1>3 DEF Alternates
  <2>1. CASE i \in 1..Len(h)
    BY <2>1, <1>2, <1>a DEF Alternates
  <2>2. CASE i = Len(h) + 1
    <3>1. (Len(h) % 2 = 0) <=> (i % 2 = 1)
      BY <2>2, <1>a
    <3> QED BY <2>2, <3>1, <1>2, <1>1 DEF Turn
  <2> QED BY <2>1, <2>2, <1>a
<1>5. TextsOf(a) \subseteq TextsOf(h) \cup {text}
  <2> SUFFICES ASSUME NEW i \in 1..(Len(h) + 1)
               PROVE  a[i].text \in TextsOf(h) \cup {text}
    BY <1>3 DEF TextsOf
  <2>1. CASE i \in 1..Len(h)
    BY <2>1, <1>2, <1>a DEF TextsOf
  <2>2. CASE i = Len(h) + 1
    BY <2>2, <1>2, <1>1
  <2> QED BY <2>1, <2>2, <1>a
<1>6. AddTurn(h, Turn(h), text) = Cap(a)
  BY DEF AddTurn, a, m
<1>7. /\ Kept(Cap(a)) /\ Len(Cap(a)) % 2 = Len(a) % 2
      /\ TextsOf(Cap(a)) \subseteq TextsOf(a)
  BY <1>2, <1>4, <1>a, CapLemma
<1> QED BY <1>2, <1>5, <1>6, <1>7, Zenon

\* The user's turn on a kept history with an even number of turns, and the
\* answer that follows it.
LEMMA JoinedLemma ==
    ASSUME NEW h, Kept(h), Len(h) % 2 = 0
    PROVE  /\ Kept(Joined(h))
           /\ Len(Joined(h)) % 2 = IF item' = "chat" THEN 1 ELSE 0
           /\ "cleared" \notin TextsOf(h) => "cleared" \notin TextsOf(Joined(h))
<1> DEFINE u == AddTurn(h, "user", "live")
           b == AddTurn(u, "assistant", "live")
<1>1. Turn(h) = "user" /\ Len(h) \in Nat /\ "live" \in Texts \cup {Placeholder}
  BY LenProperties DEF Turn, Kept, Texts
<1>2. /\ Kept(u) /\ Len(u) % 2 = (Len(h) + 1) % 2
      /\ TextsOf(u) \subseteq TextsOf(h) \cup {"live"}
  BY <1>1, AddTurnLemma, Zenon
<1> HIDE DEF u
<1>3. Turn(u) = "assistant" /\ Len(u) \in Nat /\ Len(u) % 2 = 1
  <2>1. Len(h) % 2 = 0 /\ Len(h) \in Nat
    BY <1>1
  <2>2. Len(u) \in Nat
    BY <1>2, LenProperties DEF Kept
  <2>3. Len(u) % 2 = 1
    BY <2>1, <1>2
  <2> QED BY <2>2, <2>3 DEF Turn
<1>4. /\ Kept(b) /\ Len(b) % 2 = (Len(u) + 1) % 2
      /\ TextsOf(b) \subseteq TextsOf(u) \cup {"live"}
  <2>1. b = AddTurn(u, Turn(u), "live")
    BY <1>3
  <2> QED BY <2>1, <1>1, <1>2, AddTurnLemma, Zenon
<1> HIDE DEF b
<1>5. Len(b) % 2 = 0
  BY <1>3, <1>4
<1>6. Joined(h) = IF item' = "chat" THEN u ELSE b
  BY DEF Joined, u, b
<1>7. CASE item' = "chat"
  BY <1>2, <1>3, <1>6, <1>7
<1>8. CASE item' # "chat"
  <2>1. "cleared" \notin TextsOf(h) => "cleared" \notin TextsOf(b)
    BY <1>2, <1>4
  <2> QED BY <1>4, <1>5, <1>6, <1>8, <2>1
<1> QED BY <1>7, <1>8, Zenon

\* Taking the user's turn back.
LEMMA FrontLemma ==
    ASSUME NEW h, Kept(h), Len(h) % 2 = 1
    PROVE  /\ Last(h).role = "user"
           /\ Kept(Front(h)) /\ Len(Front(h)) % 2 = 0
           /\ TextsOf(Front(h)) \subseteq TextsOf(h)
<1>a. /\ Len(h) \in Nat /\ MaxTurns \in Nat /\ h \in Seq(Messages)
      /\ DOMAIN h = 1..Len(h) /\ Alternates(h) /\ Len(h) <= 2 * MaxTurns
  BY BoundsAssumption, LenProperties DEF Kept
<1>b. Len(h) >= 1
  BY <1>a
<1>1. Last(h).role = "user"
  BY <1>a, <1>b DEF Last, Alternates
<1>2. /\ Front(h) \in Seq(Messages) /\ Len(Front(h)) = Len(h) - 1
      /\ \A i \in 1..(Len(h) - 1) : Front(h)[i] = h[i]
  <2>1. \A i \in 1..(Len(h) - 1) : h[i] \in Messages
    BY <1>a
  <2>2. Front(h) = SubSeq(h, 1, Len(h) - 1)
    BY DEF Front
  <2>3. 1 \in Int /\ Len(h) - 1 \in Int
    BY <1>a
  <2>4. /\ SubSeq(h, 1, Len(h) - 1) \in Seq(Messages)
        /\ Len(SubSeq(h, 1, Len(h) - 1))
             = IF 1 <= Len(h) - 1 THEN Len(h) - 1 - 1 + 1 ELSE 0
        /\ \A i \in 1..(Len(h) - 1 - 1 + 1) :
             SubSeq(h, 1, Len(h) - 1)[i] = h[1 + i - 1]
    BY <2>1, <2>3, SubSeqProperties
  <2>5. (IF 1 <= Len(h) - 1 THEN Len(h) - 1 - 1 + 1 ELSE 0) = Len(h) - 1
    BY <1>a, <1>b
  <2>6. \A i \in 1..(Len(h) - 1) : i \in 1..(Len(h) - 1 - 1 + 1) /\ 1 + i - 1 = i
    BY <1>a
  <2>7. \A i \in 1..(Len(h) - 1) : SubSeq(h, 1, Len(h) - 1)[i] = h[i]
    BY <2>4, <2>6
  <2> QED BY <2>2, <2>4, <2>5, <2>7, Zenon
<1>3. DOMAIN Front(h) = 1..(Len(h) - 1)
  BY <1>2, LenProperties
<1>4. Alternates(Front(h))
  BY <1>2, <1>3, <1>a DEF Alternates
<1>5. TextsOf(Front(h)) \subseteq TextsOf(h)
  BY <1>2, <1>3, <1>a DEF TextsOf
<1>6. Len(Front(h)) % 2 = 0 /\ Len(Front(h)) <= 2 * MaxTurns
  <2>1. (Len(h) - 1) % 2 = 0
    BY <1>a
  <2>2. Len(h) - 1 <= 2 * MaxTurns
    BY <1>a
  <2> QED BY <1>2, <2>1, <2>2
<1> QED BY <1>1, <1>2, <1>4, <1>5, <1>6 DEF Kept

-----------------------------------------------------------------------------
(* The invariant.                                                          *)

Session(h, r) == <<[history |-> h, recap |-> r]>>

\* The loop, its queue and what it is at work on.
LoopType ==
    /\ queue \in Seq(Kinds) /\ Len(queue) <= MaxAsked
    /\ pc \in {"loop", "research"} \cup Replying \cup Waiting \cup Tasking
    /\ item \in Kinds
    /\ prompt \in Texts

FlagType ==
    /\ expired \in BOOLEAN /\ unwiped \in BOOLEAN
    /\ front \in BOOLEAN /\ seen \in BOOLEAN
    /\ opened => front /\ pc = "call"

\* Summaries, written or being written.
StoreOK ==
    /\ summaries \in Seq(Texts) /\ Len(summaries) <= MaxPending
    /\ rows \in SUBSET Texts
    /\ ~unwiped => "cleared" \notin rows /\ \A i \in DOMAIN summaries :
                                               summaries[i] # "cleared"

\* The session: while a reply is being made the history ends with the question
\* it answers, and after a /clear the reply is made from live texts only, if
\* there is still a session to put it in.
SessionOK ==
    \/ conv = NoSession
    \/ \E h, r :
          /\ conv = Session(h, r)
          /\ Kept(h) /\ r \in Texts \cup {"none"}
          /\ Len(h) % 2 = IF pc \in Replying THEN 1 ELSE 0
          /\ ~unwiped =>
                /\ "cleared" \notin TextsOf(h) /\ r # "cleared"
                /\ pc \in Replying => prompt = "live"

IInv == LoopType /\ FlagType /\ StoreOK /\ SessionOK

\* The invariant says what the run checks.
LEMMA IInvImplies == IInv => HistoryOK /\ ClearedStaysGone
<1> SUFFICES ASSUME IInv PROVE HistoryOK /\ ClearedStaysGone
  OBVIOUS
<1>0. LoopType /\ FlagType /\ StoreOK /\ SessionOK
  BY DEF IInv
<1>1. /\ conv \in Seq(Sessions) /\ Len(conv) <= 1
      /\ conv # NoSession => Len(History) <= 2 * MaxTurns
      /\ HistoryAlternates
      /\ ~unwiped /\ conv # NoSession =>
             "cleared" \notin TextsOf(History) \cup {conv[1].recap}
  <2>1. CASE conv = NoSession
    BY <2>1 DEF NoSession, HistoryAlternates
  <2>2. CASE conv # NoSession
    <3>1. PICK h, r :
             /\ conv = Session(h, r)
             /\ Kept(h) /\ r \in Texts \cup {"none"}
             /\ Len(h) % 2 = IF pc \in Replying THEN 1 ELSE 0
             /\ ~unwiped => "cleared" \notin TextsOf(h) /\ r # "cleared"
      BY <1>0, <2>2 DEF SessionOK
    <3>2. History = h /\ conv[1].recap = r
      BY <3>1 DEF Session, History
    <3>3. [history |-> h, recap |-> r] \in Sessions
      BY <3>1 DEF Sessions, Kept
    <3>4. conv \in Seq(Sessions) /\ Len(conv) <= 1
      BY <3>1, <3>3 DEF Session
    <3>5. HistoryAlternates
      BY <3>1, <3>2 DEF HistoryAlternates, Kept, Alternates
    <3> QED BY <3>1, <3>2, <3>4, <3>5 DEF Kept
  <2> QED BY <2>1, <2>2
<1>2. TypeOK
  <2>1. /\ queue \in Seq(Kinds) /\ Len(queue) <= MaxAsked
        /\ pc \in {"loop", "research"} \cup Replying \cup Waiting \cup Tasking
        /\ item \in Kinds /\ prompt \in Texts
    BY <1>0 DEF LoopType
  <2>2. summaries \in Seq(Texts) /\ Len(summaries) <= MaxPending /\ rows \in SUBSET Texts
    BY <1>0 DEF StoreOK
  <2> QED BY <1>0, <1>1, <2>1, <2>2, Zenon DEF TypeOK, FlagType
<1>3. ClearedStaysGone
  BY <1>0, <1>1 DEF ClearedStaysGone, StoreOK, ToSet
<1> QED BY <1>1, <1>2, <1>3, Zenon DEF HistoryOK

\* At startup there is no session, no summary and no row.
LEMMA IInvInit == Init => IInv
<1> SUFFICES ASSUME Init PROVE IInv
  OBVIOUS
<1>1. LoopType
  BY BoundsAssumption DEF Init, LoopType, Kinds, Texts
<1>2. FlagType
  BY Zenon DEF Init, FlagType
<1>3. StoreOK
  BY BoundsAssumption DEF Init, StoreOK
<1>4. SessionOK
  BY Zenon DEF Init, SessionOK
<1> QED BY <1>1, <1>2, <1>3, <1>4, Zenon DEF IInv

\* STEPS
-----------------------------------------------------------------------------
(* What one item, summary or switch leaves behind.                         *)

USE DEF vars, sessionVars, turnVars, storeVars, deskVars, talkVars

\* Join and Proceed set the turn's prompt and place.
LEMMA ProceedLemma ==
    ASSUME NEW h, NEW r, Kept(h), Len(h) % 2 = 0, r \in Texts \cup {"none"},
           ~unwiped' => "cleared" \notin TextsOf(h) /\ r # "cleared",
           Proceed(h, r)
    PROVE  /\ SessionOK' /\ expired' = FALSE
           /\ prompt' \in Texts /\ pc' \in {"reply", "loop"}
<1>1. /\ conv' = Session(Joined(h), r)
      /\ prompt' = Worst(TextsOf(h) \cup {r})
      /\ pc' = IF item' = "chat" THEN "reply" ELSE "loop"
      /\ expired' = FALSE
  BY DEF Proceed, Session
<1>2. /\ Kept(Joined(h))
      /\ Len(Joined(h)) % 2 = IF item' = "chat" THEN 1 ELSE 0
      /\ "cleared" \notin TextsOf(h) => "cleared" \notin TextsOf(Joined(h))
  BY JoinedLemma, Zenon
<1>3. pc' \in Replying <=> item' = "chat"
  BY <1>1 DEF Replying
<1>4. ~unwiped' => prompt' = "live"
  BY <1>1 DEF Worst
<1>5. Len(Joined(h)) % 2 = IF pc' \in Replying THEN 1 ELSE 0
  BY <1>2, <1>3
<1>6. ~unwiped' => "cleared" \notin TextsOf(Joined(h))
  BY <1>2, Zenon
<1>7. SessionOK'
  BY <1>1, <1>2, <1>4, <1>5, <1>6, Zenon DEF SessionOK
<1>8. prompt' \in Texts /\ pc' \in {"reply", "loop"}
  BY <1>1 DEF Worst, Texts
<1> QED BY <1>1, <1>7, <1>8, Zenon

\* A session opens with a history of its own and the recap it was given.
LEMMA OpenLemma ==
    ASSUME StoreOK, UNCHANGED unwiped, OpenSession
    PROVE  /\ SessionOK' /\ expired' = FALSE
           /\ prompt' \in Texts /\ pc' \in {"reply", "loop"}
<1>1. PICK r \in rows \cup {"none"} : Proceed(<<>>, r)
  BY Zenon DEF OpenSession
<1>2. r \in Texts \cup {"none"}
  BY <1>1 DEF StoreOK
<1>3. ~unwiped' => r # "cleared"
  BY <1>1 DEF StoreOK
<1>4. Kept(<<>>) /\ Len(<<>>) % 2 = 0 /\ "cleared" \notin TextsOf(<<>>)
  BY BoundsAssumption DEF Kept, Alternates, TextsOf
<1> QED BY <1>1, <1>2, <1>3, <1>4, ProceedLemma, Zenon

\* A chat handed to the summarizer.
LEMMA RolledLemma ==
    ASSUME IInv, Len(Rolled) <= MaxPending, summaries' = Rolled, UNCHANGED <<rows, unwiped>>
    PROVE  StoreOK'
<1>0. StoreOK /\ SessionOK
  BY DEF IInv
<1>1. CASE Rolled = summaries
  BY <1>1, <1>0 DEF StoreOK
<1>2. CASE Rolled # summaries
  <2> DEFINE t == Worst(TextsOf(History))
  <2>1. conv # NoSession /\ summaries' = Append(summaries, t)
    BY <1>2, Zenon DEF Rolled
  <2>2. PICK h, r : /\ conv = Session(h, r)
                    /\ ~unwiped => "cleared" \notin TextsOf(h)
    BY <2>1, <1>0, Zenon DEF SessionOK
  <2>3. History = h
    BY <2>2 DEF History, Session
  <2>4. t \in Texts
    BY DEF Worst, Texts
  <2>5. ~unwiped' => t # "cleared"
    BY <2>2, <2>3 DEF Worst
  <2> HIDE DEF t
  <2>6. /\ summaries' \in Seq(Texts)
        /\ DOMAIN summaries' = 1..(Len(summaries) + 1)
        /\ DOMAIN summaries = 1..Len(summaries)
        /\ \A i \in 1..Len(summaries) : summaries'[i] = summaries[i]
        /\ summaries'[Len(summaries) + 1] = t
        /\ Len(summaries) \in Nat
    BY <2>1, <2>4, <1>0, AppendProperties, LenProperties DEF StoreOK
  <2>7. ~unwiped' => \A i \in DOMAIN summaries' : summaries'[i] # "cleared"
    BY <2>5, <2>6, <1>0 DEF StoreOK
  <2> QED BY <2>6, <2>7, <1>0 DEF StoreOK
<1> QED BY <1>1, <1>2

\* A turn joins the session there is, or opens one, or waits for the last summary.
LEMMA JoinLemma ==
    ASSUME IInv, Join, pc \notin Replying
    PROVE  /\ SessionOK' /\ StoreOK'
           /\ expired' = FALSE /\ unwiped' = unwiped
           /\ prompt' \in Texts /\ pc' \in {"reply", "loop", "wait"}
<1>0. StoreOK /\ SessionOK /\ prompt \in Texts
  BY DEF IInv, LoopType
<1>1. CASE conv # NoSession /\ ~expired
  <2>1. Proceed(History, conv[1].recap) /\ UNCHANGED <<summaries, rows, unwiped>>
    BY <1>1, Zenon DEF Join
  <2>2. PICK h, r : /\ conv = Session(h, r)
                    /\ Kept(h) /\ r \in Texts \cup {"none"}
                    /\ Len(h) % 2 = IF pc \in Replying THEN 1 ELSE 0
                    /\ ~unwiped => "cleared" \notin TextsOf(h) /\ r # "cleared"
    BY <1>1, <1>0, Zenon DEF SessionOK
  <2>3. History = h /\ conv[1].recap = r
    BY <2>2 DEF History, Session
  <2>4. Len(h) % 2 = 0
    BY <2>2
  <2>5. /\ SessionOK' /\ expired' = FALSE
        /\ prompt' \in Texts /\ pc' \in {"reply", "loop"}
    BY <2>1, <2>2, <2>3, <2>4, ProceedLemma, Zenon
  <2>6. StoreOK'
    BY <2>1, <1>0 DEF StoreOK
  <2> QED BY <2>1, <2>5, <2>6
<1>2. CASE ~ (conv # NoSession /\ ~expired)
  <2>1. /\ Len(Rolled) <= MaxPending /\ summaries' = Rolled
        /\ UNCHANGED <<rows, unwiped>>
        /\ \/ OpenSession
           \/ pc' = "wait" /\ conv' = NoSession /\ expired' = FALSE /\ UNCHANGED prompt
    BY <1>2, Zenon DEF Join
  <2>2. StoreOK'
    BY <2>1, RolledLemma, Zenon
  <2>3. CASE OpenSession
    BY <2>1, <2>2, <2>3, <1>0, OpenLemma
  <2>4. CASE pc' = "wait" /\ conv' = NoSession /\ expired' = FALSE /\ UNCHANGED prompt
    <3>1. SessionOK'
      BY <2>4, Zenon DEF SessionOK
    <3> QED BY <2>1, <2>2, <2>4, <3>1, <1>0
  <2> QED BY <2>1, <2>3, <2>4, Zenon
<1> QED BY <1>1, <1>2, Zenon

\* A step that leaves the session and the turn alone.
LEMMA SameSession ==
    ASSUME SessionOK, UNCHANGED <<conv, prompt, unwiped>>,
           pc' \in Replying <=> pc \in Replying
    PROVE  SessionOK'
BY DEF SessionOK

\* A step that leaves summaries and rows alone leaves nothing cleared in them.
LEMMA SameStore ==
    ASSUME StoreOK, UNCHANGED <<summaries, rows, unwiped>>
    PROVE  StoreOK'
BY DEF StoreOK

\* The answer, or the placeholder for it, ends the turn.
LEMMA AnswerLemma ==
    ASSUME IInv, pc \in Replying, conv # NoSession, pc' = "loop", unwiped' = unwiped,
           NEW text \in Texts \cup {Placeholder}, ~unwiped => text # "cleared",
           conv' = [conv EXCEPT ![1].history = AddTurn(@, "assistant", text)]
    PROVE  SessionOK'
<1>1. PICK h, r : /\ conv = Session(h, r)
                  /\ Kept(h) /\ r \in Texts \cup {"none"}
                  /\ Len(h) % 2 = IF pc \in Replying THEN 1 ELSE 0
                  /\ ~unwiped => "cleared" \notin TextsOf(h) /\ r # "cleared"
  BY Zenon DEF SessionOK, IInv
<1> DEFINE a == AddTurn(h, "assistant", text)
<1>2. conv' = Session(a, r)
  BY <1>1 DEF Session
<1>3. Turn(h) = "assistant"
  BY <1>1 DEF Turn
<1>4. /\ Kept(a) /\ Len(a) % 2 = (Len(h) + 1) % 2
      /\ TextsOf(a) \subseteq TextsOf(h) \cup {text}
  BY <1>1, <1>3, AddTurnLemma
<1> HIDE DEF a
<1>5. Len(a) % 2 = 0
  <2>1. Len(h) \in Nat /\ Len(h) % 2 = 1
    BY <1>1, LenProperties DEF Kept
  <2> QED BY <1>4, <2>1
<1>6. pc' \notin Replying
  BY DEF Replying
<1>7. ~unwiped' => "cleared" \notin TextsOf(a) /\ r # "cleared"
  BY <1>1, <1>4
<1>8. Len(a) % 2 = IF pc' \in Replying THEN 1 ELSE 0
  BY <1>5, <1>6
<1> QED BY <1>1, <1>2, <1>4, <1>6, <1>7, <1>8, Zenon DEF SessionOK

\* A reply that fails takes its question back, and the parity with it.
LEMMA TakenBackLemma ==
    ASSUME IInv, ReplyFails
    PROVE  SessionOK'
<1>0. pc \in Replying /\ pc' = "loop" /\ unwiped' = unwiped
  BY DEF ReplyFails
<1>1. CASE conv = NoSession
  <2>1. conv' = NoSession
    BY <1>1 DEF ReplyFails
  <2> QED BY <2>1, Zenon DEF SessionOK
<1>2. CASE conv # NoSession
  <2>1. PICK h, r : /\ conv = Session(h, r)
                    /\ Kept(h) /\ r \in Texts \cup {"none"}
                    /\ Len(h) % 2 = IF pc \in Replying THEN 1 ELSE 0
                    /\ ~unwiped => "cleared" \notin TextsOf(h) /\ r # "cleared"
    BY <1>2, Zenon DEF SessionOK, IInv
  <2>2. /\ Last(h).role = "user" /\ Kept(Front(h)) /\ Len(Front(h)) % 2 = 0
        /\ TextsOf(Front(h)) \subseteq TextsOf(h)
    BY <2>1, <1>0, FrontLemma
  <2>3. History = h
    BY <2>1 DEF History, Session
  <2>4. conv' = [conv EXCEPT ![1].history = Front(@)]
    BY <1>2, <2>2, <2>3 DEF ReplyFails
  <2>5. conv' = Session(Front(h), r)
    BY <2>1, <2>4 DEF Session
  <2>6. pc' \notin Replying
    BY <1>0 DEF Replying
  <2>7. ~unwiped' => "cleared" \notin TextsOf(Front(h)) /\ r # "cleared"
    BY <1>0, <2>1, <2>2
  <2>8. Len(Front(h)) % 2 = IF pc' \in Replying THEN 1 ELSE 0
    BY <2>2, <2>6
  <2> QED BY <2>1, <2>2, <2>5, <2>6, <2>7, <2>8, Zenon DEF SessionOK
<1> QED BY <1>1, <1>2, Zenon

\* STORE
LEMMA RemoveLemma ==
    ASSUME NEW i \in DOMAIN summaries, StoreOK
    PROVE  /\ RemoveAt(summaries, i) \in Seq(Texts)
           /\ Len(RemoveAt(summaries, i)) <= MaxPending
           /\ \A j \in DOMAIN RemoveAt(summaries, i) :
                 \E k \in DOMAIN summaries : RemoveAt(summaries, i)[j] = summaries[k]
<1> DEFINE n == Len(summaries)
           a == SubSeq(summaries, 1, i - 1)
           b == SubSeq(summaries, i + 1, n)
<1>1. /\ summaries \in Seq(Texts) /\ n \in Nat /\ i \in 1..n /\ DOMAIN summaries = 1..n
      /\ n <= MaxPending /\ MaxPending \in Nat
  BY LenProperties, BoundsAssumption DEF StoreOK
<1>2. /\ a \in Seq(Texts) /\ Len(a) = i - 1
      /\ \A j \in 1..(i - 1) : a[j] = summaries[j]
  <2>1. \A j \in 1..(i - 1) : summaries[j] \in Texts
    BY <1>1
  <2>2. 1 \in Int /\ i - 1 \in Int
    BY <1>1
  <2>3. /\ a \in Seq(Texts)
        /\ Len(a) = IF 1 <= i - 1 THEN i - 1 - 1 + 1 ELSE 0
        /\ \A j \in 1..(i - 1 - 1 + 1) : a[j] = summaries[1 + j - 1]
    BY <2>1, <2>2, SubSeqProperties
  <2> HIDE DEF a
  <2>4. Len(a) = i - 1
    BY <1>1, <2>3
  <2>5. \A j \in 1..(i - 1) : j \in 1..(i - 1 - 1 + 1) /\ 1 + j - 1 = j
    BY <1>1
  <2>6. \A j \in 1..(i - 1) : a[j] = summaries[j]
    BY <2>3, <2>5
  <2> QED BY <2>3, <2>4, <2>6, Zenon
<1>3. /\ b \in Seq(Texts) /\ Len(b) = n - i
      /\ \A j \in 1..(n - i) : b[j] = summaries[i + j]
  <2>1. \A j \in (i + 1)..n : summaries[j] \in Texts
    BY <1>1
  <2>2. i + 1 \in Int /\ n \in Int
    BY <1>1
  <2>3. /\ b \in Seq(Texts)
        /\ Len(b) = IF i + 1 <= n THEN n - (i + 1) + 1 ELSE 0
        /\ \A j \in 1..(n - (i + 1) + 1) : b[j] = summaries[i + 1 + j - 1]
    BY <2>1, <2>2, SubSeqProperties
  <2> HIDE DEF b
  <2>4. Len(b) = n - i
    BY <1>1, <2>3
  <2>5. \A j \in 1..(n - i) : j \in 1..(n - (i + 1) + 1) /\ i + 1 + j - 1 = i + j
    BY <1>1
  <2>6. \A j \in 1..(n - i) : b[j] = summaries[i + j]
    BY <2>3, <2>5
  <2> QED BY <2>3, <2>4, <2>6, Zenon
<1>4. RemoveAt(summaries, i) = a \o b
  BY DEF RemoveAt
<1> HIDE DEF a, b, n
<1>5. /\ a \o b \in Seq(Texts) /\ Len(a \o b) = Len(a) + Len(b)
      /\ \A j \in 1..(Len(a) + Len(b)) :
            (a \o b)[j] = IF j <= Len(a) THEN a[j] ELSE b[j - Len(a)]
  BY <1>2, <1>3, ConcatProperties
<1>6. Len(a) + Len(b) = n - 1
  BY <1>1, <1>2, <1>3
<1>7. DOMAIN (a \o b) = 1..(n - 1)
  BY <1>5, <1>6, LenProperties
<1>8. ASSUME NEW j \in 1..(n - 1)
      PROVE  \E k \in DOMAIN summaries : (a \o b)[j] = summaries[k]
  <2>1. CASE j <= i - 1
    <3>1. (a \o b)[j] = a[j] /\ j \in 1..(i - 1) /\ j \in 1..n
      BY <1>1, <1>2, <1>5, <1>6, <2>1
    <3> QED BY <3>1, <1>1, <1>2
  <2>2. CASE ~ (j <= i - 1)
    <3>1. (a \o b)[j] = b[j - (i - 1)] /\ j - (i - 1) \in 1..(n - i)
      BY <1>1, <1>2, <1>5, <1>6, <2>2
    <3>2. i + (j - (i - 1)) \in 1..n
      BY <1>1, <3>1
    <3> QED BY <3>1, <3>2, <1>1, <1>3
  <2> QED BY <2>1, <2>2
<1>9. Len(a \o b) <= MaxPending
  BY <1>1, <1>5, <1>6
<1> QED BY <1>4, <1>5, <1>7, <1>8, <1>9, Zenon

\* A summary that leaves without a row, or with one.
LEMMA SummaryStore ==
    ASSUME StoreOK, NEW i \in DOMAIN summaries, summaries' = RemoveAt(summaries, i),
           unwiped' = unwiped, rows' = rows \/ rows' = rows \cup {summaries[i]}
    PROVE  StoreOK'
<1>1. summaries \in Seq(Texts) /\ summaries[i] \in Texts
  BY LenProperties DEF StoreOK
<1>2. rows' \in SUBSET Texts /\ (~unwiped' => "cleared" \notin rows')
  BY <1>1 DEF StoreOK
<1>3. \A j \in DOMAIN summaries' : \E k \in DOMAIN summaries : summaries'[j] = summaries[k]
  BY RemoveLemma, Zenon
<1>4. ~unwiped' => \A j \in DOMAIN summaries' : summaries'[j] # "cleared"
  BY <1>3 DEF StoreOK
<1>5. summaries' \in Seq(Texts) /\ Len(summaries') <= MaxPending
  BY RemoveLemma, Zenon
<1> QED BY <1>2, <1>4, <1>5, Zenon DEF StoreOK

-----------------------------------------------------------------------------
(* The steps.                                                              *)

\* Every item taken is one of those that were asked for.
LEMMA TakeLemma ==
    ASSUME LoopType, NEW kind \in Kinds, Take(kind)
    PROVE  queue' \in Seq(Kinds) /\ Len(queue') <= MaxAsked /\ item' \in Kinds
<1>1. queue \in Seq(Kinds) /\ queue # <<>> /\ queue' = Tail(queue) /\ item' = kind
  BY DEF Take, LoopType
<1>2. queue' \in Seq(Kinds) /\ Len(queue') = Len(queue) - 1 /\ Len(queue) \in Nat
  BY <1>1, HeadTailProperties, LenProperties
<1> QED BY <1>1, <1>2, BoundsAssumption DEF LoopType

\* Every step keeps the types of what the loop holds.
LEMMA LoopStep == IInv /\ [Next]_vars => LoopType'
<1> SUFFICES ASSUME IInv, [Next]_vars PROVE LoopType'
  OBVIOUS
<1>0. LoopType
  BY DEF IInv
<1> USE DEF Waiting, Replying, Tasking
<1>1. ASSUME NEW kind \in Kinds, LookAway(kind) PROVE LoopType'
  <2>1. Take(kind) /\ UNCHANGED <<pc, prompt>>
    BY <1>1 DEF LookAway
  <2> QED BY <2>1, <1>0, TakeLemma DEF LoopType
<1>2. ASSUME TakeChat PROVE LoopType'
  <2>1. Take("chat") /\ Join /\ pc \notin Replying /\ "chat" \in Kinds
    BY <1>2 DEF TakeChat, Take, Kinds
  <2>2. prompt' \in Texts /\ pc' \in {"reply", "loop", "wait"}
    BY <2>1, JoinLemma, Zenon
  <2>3. queue' \in Seq(Kinds) /\ Len(queue') <= MaxAsked /\ item' \in Kinds
    BY <2>1, <1>0, TakeLemma, Zenon
  <2> QED BY <2>2, <2>3 DEF LoopType
<1>3. ASSUME TakeResearch \/ TakeTask PROVE LoopType'
  <2>1. /\ Take("research") \/ Take("desktop")
        /\ pc' \in {"research", "capture", "call"} /\ prompt' = prompt
    BY <1>3 DEF TakeResearch, TakeTask
  <2>2. queue' \in Seq(Kinds) /\ Len(queue') <= MaxAsked /\ item' \in Kinds
    <3>1. "research" \in Kinds /\ "desktop" \in Kinds
      BY DEF Kinds
    <3> QED BY <2>1, <3>1, <1>0, TakeLemma, Zenon
  <2> QED BY <2>1, <2>2, <1>0 DEF LoopType
<1>4. ASSUME ResearchAnswered PROVE LoopType'
  <2>1. Join /\ pc \notin Replying /\ UNCHANGED <<item, queue>>
    BY <1>4 DEF ResearchAnswered
  <2>2. prompt' \in Texts /\ pc' \in {"reply", "loop", "wait"}
    BY <2>1, JoinLemma, Zenon
  <2> QED BY <2>1, <2>2, <1>0 DEF LoopType
<1>5. ASSUME WaitEnds \/ WaitCut PROVE LoopType'
  <2>1. OpenSession /\ UNCHANGED <<item, queue, unwiped>>
    BY <1>5 DEF WaitEnds, WaitCut
  <2>2. prompt' \in Texts /\ pc' \in {"reply", "loop"}
    BY <2>1, OpenLemma, Zenon DEF IInv
  <2> QED BY <2>1, <2>2, <1>0 DEF LoopType
<1>6. ASSUME \/ ResearchFailed \/ Captured \/ CaptureFails \/ TaskReplied \/ TaskAborted
             \/ DoneLine \/ ReplyShown \/ ReplyDropped \/ NearDuplicate \/ ReplyFiltered
             \/ ReplyFails
      PROVE  LoopType'
  <2>1. pc' \in {"loop", "call", "done", "retry"} /\ UNCHANGED <<queue, item, prompt>>
    BY <1>6 DEF ResearchFailed, Captured, CaptureFails, TaskReplied, TaskAborted,
       DoneLine, ReplyShown, ReplyDropped, NearDuplicate, ReplyFiltered, ReplyFails
  <2> QED BY <2>1, <1>0 DEF LoopType
<1>7. ASSUME \/ RollOver \/ Reset \/ RowsAge \/ TimePasses \/ PollSenses \/ ReadingExpires
             \/ SwitchApp \/ UNCHANGED vars
      PROVE  LoopType'
  <2>1. UNCHANGED <<pc, queue, item, prompt>>
    BY <1>7 DEF RollOver, Reset, RowsAge, TimePasses, PollSenses, ReadingExpires, SwitchApp
  <2> QED BY <2>1, <1>0 DEF LoopType
<1>8. ASSUME Summarizer PROVE LoopType'
  <2>1. (pc' = pc \/ pc' = "loop") /\ UNCHANGED <<queue, item, prompt>>
    BY <1>8 DEF Summarizer, SummaryLands, SummaryDropped, SummaryRaises
  <2> QED BY <2>1, <1>0 DEF LoopType
<1>9. ASSUME NEW kind \in Kinds, Ask(kind) PROVE LoopType'
  <2>1. /\ queue \in Seq(Kinds) /\ Len(queue) < MaxAsked /\ queue' = Append(queue, kind)
        /\ UNCHANGED <<pc, item, prompt>>
    BY <1>9, <1>0 DEF Ask, LoopType
  <2>2. queue' \in Seq(Kinds) /\ Len(queue') = Len(queue) + 1 /\ Len(queue) \in Nat
    BY <2>1, AppendProperties, LenProperties
  <2> QED BY <2>1, <2>2, <1>0, BoundsAssumption DEF LoopType
<1>10. ASSUME NEW wiped \in BOOLEAN, Clear(wiped) PROVE LoopType'
  <2>1. /\ pc' = pc \/ pc' = "cut"
        /\ prompt' = prompt \/ prompt' = "cleared"
        /\ UNCHANGED <<queue, item>>
    BY <1>10 DEF Clear, CancelSummaries
  <2> QED BY <2>1, <1>0 DEF LoopType, Texts
<1>11. ASSUME Restart PROVE LoopType'
  BY <1>11, <1>0, BoundsAssumption DEF Restart, LoopType
<1> QED
  BY <1>1, <1>2, <1>3, <1>4, <1>5, <1>6, <1>7, <1>8, <1>9, <1>10, <1>11, Zenon
  DEF Next, Brain

\* Every step keeps the types of the flags and of the desktop.
LEMMA FlagStep == IInv /\ [Next]_vars => FlagType'
<1> SUFFICES ASSUME IInv, [Next]_vars PROVE FlagType'
  OBVIOUS
<1>0. FlagType
  BY DEF IInv
<1>1. ASSUME NEW kind \in Kinds, LookAway(kind) PROVE FlagType'
  <2>1. /\ expired' = (expired /\ kind # "chat") /\ pc' = pc
        /\ UNCHANGED <<unwiped, front, seen, opened>>
    BY <1>1 DEF LookAway
  <2> QED BY <2>1, <1>0, Zenon DEF FlagType
<1>2. ASSUME TakeChat \/ ResearchAnswered PROVE FlagType'
  <2>1. Join /\ pc \notin Replying /\ pc # "call" /\ UNCHANGED <<front, seen, opened>>
    BY <1>2 DEF TakeChat, Take, ResearchAnswered, Replying
  <2>2. expired' = FALSE /\ unwiped' = unwiped
    BY <2>1, JoinLemma, Zenon
  <2> QED BY <2>1, <2>2, <1>0, Zenon DEF FlagType
<1>3. ASSUME WaitEnds \/ WaitCut PROVE FlagType'
  <2>1. OpenSession /\ pc # "call" /\ UNCHANGED <<front, seen, opened, unwiped>>
    BY <1>3 DEF WaitEnds, WaitCut
  <2>2. expired' = FALSE
    BY <2>1, OpenLemma, Zenon DEF IInv
  <2> QED BY <2>1, <2>2, <1>0, Zenon DEF FlagType
<1>4. ASSUME \/ TakeResearch \/ TakeTask \/ ResearchFailed \/ Captured \/ CaptureFails
             \/ DoneLine \/ ReplyShown \/ ReplyDropped \/ NearDuplicate \/ ReplyFiltered
             \/ ReplyFails
      PROVE  FlagType'
  <2>1. pc # "call" /\ UNCHANGED <<expired, unwiped, front, seen, opened>>
    BY <1>4 DEF TakeResearch, TakeTask, Take, ResearchFailed, Captured, CaptureFails,
       DoneLine, ReplyShown, ReplyDropped, NearDuplicate, ReplyFiltered, ReplyFails, Replying
  <2> QED BY <2>1, <1>0, Zenon DEF FlagType
<1>5. ASSUME TaskReplied \/ TaskAborted PROVE FlagType'
  <2>1. opened' = FALSE /\ UNCHANGED <<expired, unwiped, front, seen>>
    BY <1>5 DEF TaskReplied, TaskAborted
  <2> QED BY <2>1, <1>0, Zenon DEF FlagType
<1>6. ASSUME RollOver \/ Reset PROVE FlagType'
  <2>1. expired' = FALSE /\ UNCHANGED <<pc, unwiped, front, seen, opened>>
    BY <1>6 DEF RollOver, Reset, DropSession
  <2> QED BY <2>1, <1>0, Zenon DEF FlagType
<1>7. ASSUME RowsAge \/ (\E kind \in Kinds : Ask(kind)) \/ UNCHANGED vars PROVE FlagType'
  <2>1. UNCHANGED <<pc, expired, unwiped, front, seen, opened>>
    BY <1>7 DEF RowsAge, Ask
  <2> QED BY <2>1, <1>0, Zenon DEF FlagType
<1>8. ASSUME TimePasses PROVE FlagType'
  <2>1. expired' = TRUE /\ UNCHANGED <<pc, unwiped, front, seen, opened>>
    BY <1>8 DEF TimePasses
  <2> QED BY <2>1, <1>0, Zenon DEF FlagType
<1>9. ASSUME PollSenses \/ ReadingExpires PROVE FlagType'
  <2>1. /\ seen' = front \/ seen' = FALSE
        /\ UNCHANGED <<pc, expired, unwiped, front, opened>>
    BY <1>9 DEF PollSenses, ReadingExpires
  <2> QED BY <2>1, <1>0, Zenon DEF FlagType
<1>10. ASSUME SwitchApp PROVE FlagType'
  <2>1. /\ front' = ~front /\ opened' = (front' /\ pc = "call")
        /\ UNCHANGED <<pc, expired, unwiped, seen>>
    BY <1>10 DEF SwitchApp
  <2> QED BY <2>1, <1>0, Zenon DEF FlagType
<1>11. ASSUME Summarizer PROVE FlagType'
  <2>1. /\ pc' = pc \/ pc # "call"
        /\ UNCHANGED <<expired, unwiped, front, seen, opened>>
    BY <1>11 DEF Summarizer, SummaryLands, SummaryDropped, SummaryRaises
  <2> QED BY <2>1, <1>0, Zenon DEF FlagType
<1>12. ASSUME NEW wiped \in BOOLEAN, Clear(wiped) PROVE FlagType'
  <2>1. /\ pc' = pc \/ pc # "call"
        /\ expired' = FALSE
        /\ unwiped' = (unwiped \/ rows' # {})
        /\ UNCHANGED <<front, seen, opened>>
    BY <1>12 DEF Clear, CancelSummaries, DropSession
  <2> QED BY <2>1, <1>0, Zenon DEF FlagType
<1>13. ASSUME Restart PROVE FlagType'
  <2>1. expired' = FALSE /\ seen' = FALSE /\ opened' = FALSE /\ UNCHANGED <<unwiped, front>>
    BY <1>13 DEF Restart, DropSession
  <2> QED BY <2>1, <1>0, Zenon DEF FlagType
<1> QED
  BY <1>1, <1>2, <1>3, <1>4, <1>5, <1>6, <1>7, <1>8, <1>9, <1>10, <1>11, <1>12, <1>13,
     Zenon
  DEF Next, Brain

\* Nothing cleared gets into a summary or a row, unless rows could not be deleted.
LEMMA StoreStep == IInv /\ [Next]_vars => StoreOK'
<1> SUFFICES ASSUME IInv, [Next]_vars PROVE StoreOK'
  OBVIOUS
<1>0. StoreOK
  BY DEF IInv
<1>1. ASSUME TakeChat \/ ResearchAnswered PROVE StoreOK'
  <2>1. Join /\ pc \notin Replying
    BY <1>1 DEF TakeChat, Take, ResearchAnswered, Replying
  <2> QED BY <2>1, JoinLemma, Zenon
<1>2. ASSUME RollOver PROVE StoreOK'
  BY <1>2, RolledLemma DEF RollOver
<1>3. ASSUME \/ \E kind \in Kinds : LookAway(kind)
             \/ WaitEnds \/ WaitCut
             \/ TakeResearch \/ TakeTask \/ ResearchFailed \/ Captured \/ CaptureFails
             \/ TaskReplied \/ TaskAborted \/ DoneLine \/ ReplyShown \/ ReplyDropped
             \/ NearDuplicate \/ ReplyFiltered \/ ReplyFails
             \/ Reset \/ TimePasses \/ PollSenses \/ ReadingExpires \/ SwitchApp
             \/ (\E kind \in Kinds : Ask(kind)) \/ UNCHANGED vars
      PROVE  StoreOK'
  <2>1. UNCHANGED <<summaries, rows, unwiped>>
    BY <1>3 DEF LookAway, WaitEnds, WaitCut, TakeResearch, TakeTask, ResearchFailed,
       Captured, CaptureFails, TaskReplied, TaskAborted, DoneLine, ReplyShown, ReplyDropped,
       NearDuplicate, ReplyFiltered, ReplyFails, Reset, TimePasses, PollSenses,
       ReadingExpires, SwitchApp, Ask
  <2> QED BY <2>1, <1>0, SameStore
<1>4. ASSUME Summarizer PROVE StoreOK'
  <2>1. PICK i \in DOMAIN summaries : SummaryLands(i) \/ SummaryDropped(i) \/ SummaryRaises(i)
    BY <1>4 DEF Summarizer
  <2>2. /\ summaries' = RemoveAt(summaries, i) /\ unwiped' = unwiped
        /\ rows' = rows \/ rows' = rows \cup {summaries[i]}
    BY <2>1 DEF SummaryLands, SummaryDropped, SummaryRaises
  <2> QED BY <2>2, <1>0, SummaryStore
<1>5. ASSUME RowsAge PROVE StoreOK'
  BY <1>5, <1>0 DEF RowsAge, StoreOK
<1>6. ASSUME NEW wiped \in BOOLEAN, Clear(wiped) PROVE StoreOK'
  <2>1. summaries' = <<>> /\ rows' \in SUBSET Texts
    BY <1>6 DEF Clear, CancelSummaries, Texts
  <2>2. ~unwiped' => rows' = {}
    BY <1>6, Zenon DEF Clear
  <2> QED BY <2>1, <2>2, BoundsAssumption DEF StoreOK
<1>7. ASSUME Restart PROVE StoreOK'
  <2>1. summaries' = <<>> /\ UNCHANGED <<rows, unwiped>>
    BY <1>7 DEF Restart
  <2> QED BY <2>1, <1>0, BoundsAssumption DEF StoreOK
<1> QED
  BY <1>1, <1>2, <1>3, <1>4, <1>5, <1>6, <1>7, Zenon DEF Next, Brain

\* Every step keeps the history even between replies and odd during one.
LEMMA SessionStep == IInv /\ [Next]_vars => SessionOK'
<1> SUFFICES ASSUME IInv, [Next]_vars PROVE SessionOK'
  OBVIOUS
<1>0. SessionOK /\ StoreOK /\ LoopType
  BY DEF IInv
<1>1. ASSUME NEW kind \in Kinds, LookAway(kind) PROVE SessionOK'
  <2>1. /\ conv' = NoSession \/ conv' = conv
        /\ UNCHANGED <<pc, prompt, unwiped>>
    BY <1>1 DEF LookAway
  <2> QED BY <2>1, <1>0, SameSession, Zenon DEF SessionOK
<1>2. ASSUME TakeChat \/ ResearchAnswered PROVE SessionOK'
  <2>1. Join /\ pc \notin Replying
    BY <1>2 DEF TakeChat, Take, ResearchAnswered, Replying
  <2> QED BY <2>1, JoinLemma, Zenon
<1>3. ASSUME WaitEnds \/ WaitCut PROVE SessionOK'
  <2>1. OpenSession /\ UNCHANGED unwiped
    BY <1>3 DEF WaitEnds, WaitCut
  <2> QED BY <2>1, <1>0, OpenLemma, Zenon
<1>4. ASSUME \/ TakeResearch \/ TakeTask \/ ResearchFailed \/ Captured \/ CaptureFails
             \/ TaskReplied \/ TaskAborted \/ DoneLine \/ NearDuplicate
             \/ RowsAge \/ TimePasses \/ PollSenses \/ ReadingExpires \/ SwitchApp
             \/ Summarizer \/ (\E kind \in Kinds : Ask(kind)) \/ UNCHANGED vars
      PROVE  SessionOK'
  <2>1. (pc' \in Replying <=> pc \in Replying) /\ UNCHANGED <<conv, prompt, unwiped>>
    BY <1>4 DEF TakeResearch, TakeTask, Take, ResearchFailed, Captured, CaptureFails,
       TaskReplied, TaskAborted, DoneLine, NearDuplicate, RowsAge, TimePasses, PollSenses,
       ReadingExpires, SwitchApp, Summarizer, SummaryLands, SummaryDropped, SummaryRaises,
       Ask, Replying
  <2> QED BY <2>1, <1>0, SameSession
<1>5. ASSUME ReplyShown PROVE SessionOK'
  <2>1. prompt \in Texts \cup {Placeholder}
    BY <1>0 DEF LoopType
  <2>2. ~unwiped => prompt # "cleared"
    BY <1>5, <1>0 DEF SessionOK, ReplyShown
  <2> QED BY <1>5, <2>1, <2>2, AnswerLemma DEF ReplyShown
<1>6. ASSUME ReplyFiltered PROVE SessionOK'
  <2>1. Placeholder \in Texts \cup {Placeholder} /\ Placeholder # "cleared"
    BY DEF Placeholder
  <2> QED BY <1>6, <2>1, AnswerLemma DEF ReplyFiltered
<1>7. ASSUME ReplyFails PROVE SessionOK'
  BY <1>7, TakenBackLemma
<1>8. ASSUME ReplyDropped \/ RollOver \/ Reset \/ Restart \/ \E wiped \in BOOLEAN : Clear(wiped)
      PROVE  SessionOK'
  <2>1. conv' = NoSession
    BY <1>8 DEF ReplyDropped, RollOver, Reset, Restart, Clear, DropSession
  <2> QED BY <2>1, Zenon DEF SessionOK
<1> QED
  BY <1>1, <1>2, <1>3, <1>4, <1>5, <1>6, <1>7, <1>8, Zenon DEF Next, Brain

\* Every step keeps the invariant.
LEMMA IInvStep == IInv /\ [Next]_vars => IInv'
BY LoopStep, FlagStep, StoreStep, SessionStep, Zenon DEF IInv

-----------------------------------------------------------------------------
\* The roles of every history the model is given alternate, between items it
\* ends with an answer, and all else is typed, however long the chat, whatever
\* max_turns and wherever sessions are dropped (ConversationSession).
THEOREM HistoryThm == Spec => []HistoryOK
<1>1. IInv => HistoryOK
  BY IInvImplies
<1> QED BY IInvInit, IInvStep, <1>1, PTL DEF Spec

\* What /clear dropped is in no history, recap, summary or row
\* (clear_conversation_history), for any number of summaries under way.
THEOREM ClearedThm == Spec => []ClearedStaysGone
<1>1. IInv => ClearedStaysGone
  BY IInvImplies
<1> QED BY IInvInit, IInvStep, <1>1, PTL DEF Spec

\* No reply made from what /clear dropped is shown (_handle_user_input).
THEOREM RepliesThm == Spec => RepliesAreLive
<1>1. IInv /\ [Next]_vars => [ReplyShown => prompt = "live" \/ unwiped]_vars
  <2> SUFFICES ASSUME IInv, ReplyShown, ~unwiped PROVE prompt = "live"
    OBVIOUS
  <2> QED BY DEF IInv, SessionOK, ReplyShown
<1> QED BY IInvInit, IInvStep, <1>1, PTL DEF Spec, RepliesAreLive
=============================================================================
