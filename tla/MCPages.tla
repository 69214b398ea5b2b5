------------------------------ MODULE MCPages ------------------------------
(* A small instance of Pages. *)
EXTENDS TLC, Pages

CONSTANTS berlin, tokyo

TwoClusters == {berlin, tokyo}
Symmetry == Permutations(TwoClusters)
=============================================================================
