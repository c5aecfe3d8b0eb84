--------------------------- MODULE MCTrainingJobs ---------------------------
(***************************************************************************)
(* TrainingJobs for TLC: three jobs are one whose file is cut short, one   *)
(* that is let in for it, and one after both.                              *)
(***************************************************************************)
EXTENDS TrainingJobs
=============================================================================
