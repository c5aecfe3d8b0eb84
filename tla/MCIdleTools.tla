---------------------------- MODULE MCIdleTools ----------------------------
(***************************************************************************)
(* IdleTools for TLC: an evergreen tool and one that is not, each with a   *)
(* rule, and the model may pick both.                                      *)
(***************************************************************************)
EXTENDS IdleTools

MCToolOf == [word |-> "word_of_the_day", fact |-> "random_fact"]
MCRuleCooldown == [word |-> 3, fact |-> 1]
MCCatalog == {"word_of_the_day", "random_fact"}
MCCoolOff == [word_of_the_day |-> 2, random_fact |-> 1]
=============================================================================
