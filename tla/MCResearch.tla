----------------------------- MODULE MCResearch -----------------------------
(***************************************************************************)
(* Research for TLC: web searches that report nothing or one page, whose   *)
(* number says that another was dropped before it.  Nothing tells one page *)
(* from another.                                                           *)
(***************************************************************************)
EXTENDS Research

MCWebPools == {<<>>} \cup {<<<<2, page>>>> : page \in Urls}

MCPages == Permutations(Urls)
=============================================================================
