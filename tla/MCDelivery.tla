----------------------------- MODULE MCDelivery -----------------------------
(* Instances of Delivery for TLC. *)
EXTENDS Delivery, TLC

\* Instances differ by nothing but their names.
Alike == Permutations(Nodes)

=============================================================================
