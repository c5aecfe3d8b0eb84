--------------------------- MODULE MCRemoteTrain ---------------------------
(***************************************************************************)
(* RemoteTrain for TLC.                                                    *)
(***************************************************************************)
EXTENDS RemoteTrain
=============================================================================
