--------------------------- MODULE MCAlertOutbox ---------------------------
(* Instances of AlertOutbox for TLC. *)
EXTENDS AlertOutbox, TLC

Symmetry == Permutations(Deliverers) \cup Permutations(Tokens)
=============================================================================
