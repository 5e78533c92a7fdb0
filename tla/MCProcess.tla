------------------------------ MODULE MCProcess ------------------------------
(* Instances of Process for TLC. *)
EXTENDS Process, TLC

CONSTANTS p1, p2, h

\* The payments share a host.
MCHostOf == [p \in Payments |-> h]

Alike == Permutations({p1, p2})

=============================================================================
