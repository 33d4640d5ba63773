-------------------------- MODULE MCAccountSettings --------------------------
(* An instance of AccountSettings for TLC. *)
EXTENDS AccountSettings, TLC

Symmetry == Permutations(Users) \cup Permutations(Passwords) \cup Permutations(Pins)
=============================================================================
