------------------------------ MODULE MCReflex ------------------------------
(* Instances of Reflex for TLC: kicks of one kind are interchangeable.     *)
EXTENDS Reflex, TLC

Interchangeable ==
  Permutations(Turns) \cup Permutations(Replies) \cup Permutations(Approvals)
=============================================================================
