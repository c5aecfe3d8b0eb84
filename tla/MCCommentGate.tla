--------------------------- MODULE MCCommentGate ---------------------------
(***************************************************************************)
(* CommentGate for TLC.                                                    *)
(***************************************************************************)
EXTENDS CommentGate
=============================================================================
