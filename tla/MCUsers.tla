------------------------------- MODULE MCUsers -------------------------------
(* Values for the model checker. *)
EXTENDS Users, TLC

CONSTANTS a, b, c

\* The chats are alike but for the one that is set up first.
Alike == Permutations(User \ {Onboarding})
=============================================================================
