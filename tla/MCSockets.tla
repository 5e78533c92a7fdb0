------------------------------ MODULE MCSockets ------------------------------
(* Instances of Sockets for TLC. *)
EXTENDS Sockets, TLC

CONSTANTS s1, s2, t1, t2

\* Two devices of the agent's; payments and triggers are opened without a ticket.
MCKindOf == [t \in Tickets |-> "agent"]
MCDepthOf == [t \in Tickets |-> 0]

Alike == Permutations({t1, t2})

=============================================================================
