------------------------------ MODULE MCIntake ------------------------------
(* Instances of Intake for TLC: two creates under one key that ask for the    *)
(* same without a webhook, two under it that ask for the same with one, whose *)
(* handlers may outlive the lease; one without a key; two watches of one hash *)
EXTENDS Intake, TLC

CONSTANTS same1, same2, hook1, hook2, bare, w1, w2, k, h, ask1, ask2, watch1, watch2

MCKeyOf == [r \in Creates |-> IF r = bare THEN {} ELSE {k}]
MCAskOf ==
    [r \in Requests |->
        CASE r \in {same1, same2} -> ask1
          [] r \in {hook1, hook2, bare} -> ask2
          [] r = w1 -> watch1
          [] OTHER -> watch2]
MCHashOf == [r \in Watches |-> h]

\* The two creates of each pair that ask for the same differ by nothing but their
\* names.
Alike == Permutations({same1, same2}) \cup Permutations({hook1, hook2})

=============================================================================
