--------------------------------- MODULE Wait ---------------------------------
(***************************************************************************)
(* What waiting for a settlement promises (ThunderBridge.firstSettled and  *)
(* Gateways.settled of the SDK), whatever the gateways do: it is decided   *)
(* once; it says paid only of a payment whose preimage is out; it says     *)
(* that nothing was paid only when nobody is left to say otherwise, or     *)
(* when its caller took it back after somebody had said so; and once it is *)
(* decided nobody is followed any more.                                    *)
(***************************************************************************)

CONSTANTS
    Legs,      \* what is waited on at once
    Undecided, \* the outcome of a wait that goes on
    Stopped,   \* the outcomes that may cut the others short, such as a proof of cheating
    Aborted,   \* the outcome of a wait that was taken back and had nothing to tell
    Spent      \* the outcomes that may not cut the others short

VARIABLES
    released,  \* the legs whose payment's preimage is out
    following, \* the legs that are still followed
    aborted,   \* the caller took the wait back
    outcome    \* Undecided, a leg that was paid, or how the wait ended

vars == <<released, following, aborted, outcome>>

Init ==
    /\ released = {}
    /\ following = Legs
    /\ aborted = FALSE
    /\ outcome = Undecided

Release ==
    /\ \E R \in SUBSET Legs : released' = released \cup R
    /\ UNCHANGED <<following, aborted, outcome>>

Lose(l) ==
    /\ outcome = Undecided
    /\ l \in following
    /\ following' = following \ {l}
    /\ following' # {}
    /\ UNCHANGED <<released, aborted, outcome>>

Win(l) ==
    /\ outcome = Undecided
    /\ l \in following \cap released
    /\ outcome' = l
    /\ following' = {}
    /\ UNCHANGED <<released, aborted>>

\* Only the last of them ends a wait in vain.
Give(how) ==
    /\ outcome = Undecided
    /\ how \in Spent => \E l \in Legs : following = {l}
    /\ outcome' = how
    /\ following' = {}
    /\ UNCHANGED <<released, aborted>>

\* The caller takes the wait back: it hears that, or what a leg that was lost before
\* had said.
TakeBack(how) ==
    /\ outcome = Undecided
    /\ how \in Spent => following # Legs
    /\ aborted' = TRUE
    /\ outcome' = how
    /\ following' = {}
    /\ UNCHANGED released

Next ==
    \/ Release
    \/ \E l \in Legs : Lose(l) \/ Win(l)
    \/ \E how \in Stopped \cup Spent : Give(how)
    \/ \E how \in Spent \cup {Aborted} : TakeBack(how)

Spec == Init /\ [][Next]_vars

=============================================================================
