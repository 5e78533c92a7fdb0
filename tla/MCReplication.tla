---------------------------- MODULE MCReplication ----------------------------
(* Instances of Replication for TLC. *)
EXTENDS Replication, TLC

CONSTANT MaxNotes   \* bound of the safety runs: notes in flight at once

\* Instances differ by nothing but their names, and a body is only compared.
Alike == Permutations(Nodes) \cup Permutations(Bodies \ Unproven)

FewNotes == Cardinality(net) <= MaxNotes

=============================================================================
