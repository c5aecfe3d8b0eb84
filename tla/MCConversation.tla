--------------------------- MODULE MCConversation ---------------------------
(***************************************************************************)
(* Conversation for TLC: two turns per session make the cap bite, two      *)
(* pending summaries let an old one land after a newer one.                *)
(***************************************************************************)
EXTENDS Conversation

Two == 2
=============================================================================
