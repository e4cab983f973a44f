------------------------------ MODULE MCThreeR ------------------------------
(* Instances of ThreeR for TLC. *)
EXTENDS ThreeR, TLC

Symmetry == Permutations(Client)

=============================================================================
