---------------------------- MODULE MCVoiceTurns ----------------------------
(***************************************************************************)
(* VoiceTurns for TLC: two input items at once are enough for a typed turn *)
(* to overtake a spoken one and for two spoken ones to meet, and one aside *)
(* to start a second worker and to stand in the line before a reply.       *)
(***************************************************************************)
EXTENDS VoiceTurns

OneItem == 1
=============================================================================
