--------------------------- MODULE MCServerChoice ---------------------------
(***************************************************************************)
(* ServerChoice for TLC.                                                   *)
(***************************************************************************)
EXTENDS ServerChoice
=============================================================================
