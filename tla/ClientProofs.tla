----------------------------- MODULE ClientProofs -----------------------------
(***************************************************************************)
(* Client keeps its safety properties and implements Wait, for any finite  *)
(* set of legs and any number of attempts.                                 *)
(***************************************************************************)
EXTENDS Client, TLAPS

-----------------------------------------------------------------------------
(* The inductive invariant *)

\* A wait that is decided has let every leg go; one that is not has let go of those
\* that ended, and of no other.
LetGo ==
    /\ outcome # "waiting" => over = Legs
    /\ outcome = "waiting" => \A l \in Legs : l \in over <=> result[l] # "none"

\* A leg that was paid has decided the wait, and what failed is remembered.
Remembered ==
    /\ outcome = "waiting" => \A l \in Legs : result[l] \notin {"paid", "aborted"}
    /\ outcome = "waiting" =>
          (refused <=> \E l \in Legs : result[l] \in {"failed", "cheat"})

Typed ==
    /\ mode \in {"first", "gateways", "stream"} /\ refused \in BOOLEAN
    /\ phase \in [Legs -> {"ticket", "open", "backoff", "ended"}]
    /\ result \in [Legs -> {"none", "paid", "expired", "failed", "cheat", "aborted"}]
    /\ aborted \in BOOLEAN
    /\ outcome \in Legs \cup Ends \cup {"waiting"}
    /\ over \subseteq Legs /\ released \subseteq Legs

Inv == Typed /\ LetGo /\ Remembered /\ NothingOutlives /\ CheatsAreNotTraded /\ EndsAsHeard

-----------------------------------------------------------------------------
(* One leg ends *)

Results == {"paid", "expired", "failed", "cheat"}

\* What ends a leg keeps the invariant, when the leg was not over before.
LEMMA LegEndsKeeps ==
    ASSUME Inv, NEW l \in Legs, NEW r \in Results, l \notin over,
           LegEnds(l, r), UNCHANGED <<mode, released, aborted>>
    PROVE  Inv'
<1>0. outcome = "waiting" /\ result[l] = "none"
  BY DEF Inv, LetGo
<1>r. result' = [result EXCEPT ![l] = r] /\ refused' = (refused \/ r \in {"failed", "cheat"})
  BY DEF LegEnds
<1>1. CASE r = "paid"
  <2>1. outcome' = l /\ over' = Legs /\ phase' = Halted(phase)
    BY <1>1 DEF LegEnds, Decide
  <2>2. Typed'
    BY <2>1, <1>r DEF Inv, Typed, Results, Halted
  <2>3. LetGo' /\ Remembered' /\ NothingOutlives'
    BY <2>1, <2>2, EndsAssumption DEF LetGo, Remembered, NothingOutlives, Halted, Inv, Typed
  <2>4. CheatsAreNotTraded'
    BY <2>1, <1>0, <1>1, <1>r, EndsAssumption DEF CheatsAreNotTraded, Inv, Typed, Ends
  <2>5. EndsAsHeard'
    BY <2>1, EndsAssumption DEF EndsAsHeard, Ends
  <2> QED BY <2>2, <2>3, <2>4, <2>5 DEF Inv
<1>2. CASE r # "paid" /\ Fatal(r)
  <2>1. outcome' = "cheat" /\ over' = Legs /\ phase' = Halted(phase) /\ r = "cheat" /\ mode = "first"
    BY <1>2 DEF LegEnds, Decide, Fatal
  <2>2. Typed'
    BY <2>1, <1>r DEF Inv, Typed, Results, Halted, Ends
  <2>3. LetGo' /\ Remembered' /\ NothingOutlives'
    BY <2>1 DEF LetGo, Remembered, NothingOutlives, Halted, Inv, Typed
  <2>4. CheatsAreNotTraded' /\ EndsAsHeard'
    BY <2>1, <1>r DEF CheatsAreNotTraded, EndsAsHeard, Inv, Typed
  <2> QED BY <2>2, <2>3, <2>4 DEF Inv
<1>3. CASE r # "paid" /\ ~Fatal(r) /\ LastLeg(l)
  <2>1. outcome' = InVain(r) /\ over' = Legs /\ phase' = Halted(phase)
    BY <1>3 DEF LegEnds, Decide
  <2>2. InVain(r) \in {"unpaid", "refused"}
    BY DEF InVain
  <2>3. Typed'
    BY <2>1, <2>2, <1>r DEF Inv, Typed, Results, Halted, Ends
  <2>4. LetGo' /\ Remembered' /\ NothingOutlives'
    BY <2>1, <2>2 DEF LetGo, Remembered, NothingOutlives, Halted, Inv, Typed
  <2>5. CheatsAreNotTraded'
    BY <2>1, <2>2, <1>0, <1>3, <1>r DEF CheatsAreNotTraded, Fatal, Inv, Typed, Results
  <2>6. \A k \in Legs : k # l => result[k] \notin {"none", "paid", "aborted"}
    BY <1>3, <1>0 DEF LastLeg, Left, Inv, Remembered
  <2>7. EndsAsHeard'
    <3>1. CASE mode = "first" /\ ~refused /\ r = "expired"
      <4>1. \A k \in Legs : result'[k] = "expired"
        BY <3>1, <2>6, <1>r, <1>0 DEF Inv, Typed, Remembered
      <4>2. outcome' = "unpaid"
        BY <3>1, <2>1 DEF InVain
      <4> QED BY <4>1, <4>2 DEF EndsAsHeard
    <3>2. CASE mode = "first" /\ ~(~refused /\ r = "expired")
      <4>1. outcome' = "refused"
        BY <3>2, <2>1 DEF InVain
      <4>2. \E k \in Legs : result'[k] \in {"failed", "cheat"}
        BY <3>2, <1>r, <1>0, <1>3 DEF Inv, Typed, Remembered, Results
      <4> QED BY <4>1, <4>2 DEF EndsAsHeard
    <3>3. CASE mode # "first" /\ (Expired # {} \/ r = "expired")
      <4>1. outcome' = "unpaid" /\ mode' # "first"
        BY <3>3, <2>1 DEF InVain
      <4>2. \E k \in Legs : result'[k] = "expired"
        BY <3>3, <1>r, <1>0 DEF Inv, Typed, Expired
      <4> QED BY <4>1, <4>2 DEF EndsAsHeard
    <3>4. CASE mode # "first" /\ ~(Expired # {} \/ r = "expired")
      <4>1. outcome' = "refused"
        BY <3>4, <2>1 DEF InVain
      <4>2. result'[l] \in {"failed", "cheat"}
        BY <3>4, <1>r, <1>3 DEF Inv, Typed, Results
      <4> QED BY <4>1, <4>2 DEF EndsAsHeard
    <3> QED BY <3>1, <3>2, <3>3, <3>4
  <2> QED BY <2>3, <2>4, <2>5, <2>7 DEF Inv
<1>4. CASE r # "paid" /\ ~Fatal(r) /\ ~LastLeg(l)
  <2>1. /\ outcome' = outcome /\ over' = over \cup {l}
        /\ phase' = [phase EXCEPT ![l] = "ended"]
    BY <1>4 DEF LegEnds, Settle
  <2>2. Typed'
    BY <2>1, <1>r DEF Inv, Typed, Results
  <2>3. LetGo' /\ NothingOutlives'
    BY <2>1, <1>0, <1>r DEF LetGo, NothingOutlives, Inv, Typed, Results
  <2>4. Remembered'
    BY <2>1, <1>0, <1>r, <1>4 DEF Remembered, Inv, Typed, Results
  <2>5. CheatsAreNotTraded' /\ EndsAsHeard'
    BY <2>1, <1>0, <1>r, <1>4 DEF CheatsAreNotTraded, EndsAsHeard, Fatal, Inv, Typed
  <2> QED BY <2>2, <2>3, <2>4, <2>5 DEF Inv
<1> QED BY <1>1, <1>2, <1>3, <1>4

-----------------------------------------------------------------------------
(* The steps *)

\* What is connected or about to connect is not over.
LEMMA OpenIsNotOver ==
    ASSUME Inv, NEW l \in Legs, phase[l] \in {"open", "backoff"}
    PROVE  l \notin over /\ outcome = "waiting" /\ result[l] = "none"
BY DEF Inv, NothingOutlives, LetGo

\* A leg that goes on, or ends without anybody's promise.
LEMMA PhaseKeeps ==
    ASSUME Inv, NEW l \in Legs, NEW p \in {"ticket", "open", "backoff", "ended"},
           l \in over => p \in {"ticket", "ended"},
           phase' = [phase EXCEPT ![l] = p],
           UNCHANGED <<mode, released, over, result, outcome, refused, aborted>>
    PROVE  Inv'
<1>1. Typed'
  BY DEF Inv, Typed
<1>2. NothingOutlives'
  BY DEF Inv, Typed, NothingOutlives
<1>3. LetGo' /\ Remembered' /\ CheatsAreNotTraded' /\ EndsAsHeard'
  BY DEF Inv, LetGo, Remembered, CheatsAreNotTraded, EndsAsHeard
<1> QED BY <1>1, <1>2, <1>3 DEF Inv

\* again keeps the invariant for a leg that is not over.
LEMMA AgainKeeps ==
    ASSUME Inv, NEW l \in Legs, l \notin over, Again(l), UNCHANGED <<mode, released, aborted>>
    PROVE  Inv'
<1>1. CASE GivesUp(l)
  BY <1>1, LegEndsKeeps DEF Again, Results
<1>2. CASE ~GivesUp(l)
  BY <1>2, PhaseKeeps DEF Again, ending
<1> QED BY <1>1, <1>2

\* Every step of Client keeps the invariant.
LEMMA StepKeeps ==
    ASSUME Inv, [Next]_vars
    PROVE  Inv'
<1>1. CASE UNCHANGED vars
  BY <1>1 DEF vars, fixed, ending, histories, Inv, Typed, LetGo, Remembered, NothingOutlives, CheatsAreNotTraded, EndsAsHeard
<1>2. ASSUME NEW l \in Legs, Retry(l) PROVE Inv'
  <2>1. l \notin over
    BY <1>2, OpenIsNotOver DEF Retry
  <2> QED BY <1>2, <2>1, PhaseKeeps DEF Retry, Aim, fixed, ending, histories
<1>3. ASSUME NEW l \in Legs, TicketGiven(l) PROVE Inv'
  BY <1>3, PhaseKeeps DEF TicketGiven, Ticketed, fixed, ending, histories
<1>4. ASSUME NEW l \in Legs, TicketRefused(l) PROVE Inv'
  <2>1. CASE l \in over
    BY <1>4, <2>1, PhaseKeeps DEF TicketRefused, fixed, ending, histories
  <2>2. CASE l \notin over /\ Waits
    BY <1>4, <2>2, LegEndsKeeps DEF TicketRefused, fixed, ending, histories, Results
  <2>3. CASE l \notin over /\ ~Waits
    BY <1>4, <2>3, AgainKeeps DEF TicketRefused, fixed, ending, histories
  <2> QED BY <2>1, <2>2, <2>3
<1>5. ASSUME NEW l \in Legs, TicketFails(l) PROVE Inv'
  <2>1. CASE l \in over
    BY <1>5, <2>1, PhaseKeeps DEF TicketFails, fixed, ending, histories
  <2>2. CASE l \notin over
    BY <1>5, <2>2, AgainKeeps DEF TicketFails, fixed, ending, histories
  <2> QED BY <2>1, <2>2
<1>6. ASSUME NEW l \in Legs, Drop(l) PROVE Inv'
  <2>1. l \notin over
    BY <1>6, OpenIsNotOver DEF Drop
  <2> QED BY <1>6, <2>1, AgainKeeps DEF Drop, fixed, ending, histories
<1>7. ASSUME NEW l \in Legs, NEW f \in Frames, Hear(l, f) PROVE Inv'
  <2>1. l \notin over
    BY <1>7, OpenIsNotOver DEF Hear
  <2>2. CASE f = "pending"
    <3>1. UNCHANGED <<mode, released, phase, over, result, outcome, refused, aborted>>
      BY <1>7, <2>2 DEF Hear, fixed, ending, histories
    <3> QED BY <3>1 DEF Inv, Typed, LetGo, Remembered, NothingOutlives, CheatsAreNotTraded, EndsAsHeard
  <2>3. CASE f # "pending"
    <3>1. Proven(f) \in Results
      BY <1>7, <2>3 DEF Hear, Frames, Proven, Results
    <3> QED BY <1>7, <2>1, <2>3, <3>1, LegEndsKeeps DEF Hear, fixed, ending, histories
  <2> QED BY <2>2, <2>3
<1>8. ASSUME NEW l \in Legs, NEW f \in Frames, Pass(l, f) PROVE Inv'
  <2>1. UNCHANGED <<mode, released, phase, over, result, outcome, refused, aborted>>
    BY <1>8 DEF Pass, fixed, ending, histories
  <2> QED BY <2>1 DEF Inv, Typed, LetGo, Remembered, NothingOutlives, CheatsAreNotTraded, EndsAsHeard
<1>9. ASSUME NEW l \in Legs, Release(l) \/ Expire(l) PROVE Inv'
  <2>1. UNCHANGED <<mode, phase, over, result, outcome, refused, aborted>>
    BY <1>9 DEF Release, Expire, fixed, ending, histories
  <2>2. released' \subseteq Legs
    BY <1>9 DEF Release, Expire, Same, Inv, Typed
  <2> QED BY <2>1, <2>2 DEF Inv, Typed, LetGo, Remembered, NothingOutlives, CheatsAreNotTraded, EndsAsHeard
<1>10. CASE Stop
  <2>1. /\ outcome = "waiting" /\ outcome' = "stopped"
        /\ over' = Legs /\ phase' = Halted(phase)
        /\ UNCHANGED <<mode, released, result, refused, aborted>>
    BY <1>10 DEF Stop, Decide, fixed, ending, histories
  <2>2. Typed'
    BY <2>1 DEF Inv, Typed, Halted, Ends
  <2>3. LetGo' /\ Remembered' /\ NothingOutlives'
    BY <2>1 DEF LetGo, Remembered, NothingOutlives, Halted, Inv, Typed
  <2>4. CheatsAreNotTraded' /\ EndsAsHeard'
    BY <2>1 DEF CheatsAreNotTraded, EndsAsHeard, Inv
  <2> QED BY <2>2, <2>3, <2>4 DEF Inv
<1>11. CASE Abort
  <2>1. /\ outcome = "waiting" /\ outcome' = OnAbort /\ aborted' = TRUE
        /\ result' = [l \in Legs |-> IF l \in Left THEN "aborted" ELSE result[l]]
        /\ over' = Legs /\ phase' = Halted(phase)
        /\ UNCHANGED <<mode, released, refused>>
    BY <1>11 DEF Abort, Decide, fixed
  <2>2. OnAbort \in {"unpaid", "refused", "aborted"}
    BY DEF OnAbort
  <2>3. \A l \in Legs : result'[l] = IF result[l] = "none" THEN "aborted" ELSE result[l]
    BY <2>1 DEF Left
  <2>4. Typed'
    BY <2>1, <2>2 DEF Inv, Typed, Halted, Ends
  <2>5. LetGo' /\ Remembered' /\ NothingOutlives'
    BY <2>1, <2>2 DEF LetGo, Remembered, NothingOutlives, Halted, Inv, Typed
  <2>6. CheatsAreNotTraded'
    BY <2>1, <2>2, <2>3 DEF CheatsAreNotTraded, Inv
  <2>7. (mode = "gateways" /\ Expired # {}) => \E l \in Legs : result'[l] = "expired"
    BY <2>3 DEF Expired
  <2>8. refused <=> \E l \in Legs : result'[l] \in {"failed", "cheat"}
    BY <2>1, <2>3 DEF Inv, Remembered
  <2>9. \A l \in Legs : result'[l] # "paid"
    BY <2>1, <2>3 DEF Inv, Remembered
  <2>10. EndsAsHeard'
    BY <2>1, <2>7, <2>8, <2>9 DEF EndsAsHeard, OnAbort
  <2> QED BY <2>4, <2>5, <2>6, <2>10 DEF Inv
<1> QED BY <1>1, <1>2, <1>3, <1>4, <1>5, <1>6, <1>7, <1>8, <1>9, <1>10, <1>11 DEF Next

\* The first state satisfies the invariant.
LEMMA InitKeeps ==
    ASSUME Init
    PROVE  Inv
BY EndsAssumption, LegsAssumption
   DEF Init, Aim, Inv, Typed, LetGo, Remembered, NothingOutlives, CheatsAreNotTraded, EndsAsHeard, Ends

\* The invariant holds in every state.
THEOREM Invariant == Spec => []Inv
<1>1. Init => Inv
  BY InitKeeps
<1>2. Inv /\ [Next]_vars => Inv'
  BY StepKeeps
<1> QED BY <1>1, <1>2, PTL DEF Spec

\* Nothing of a wait that was decided stays or becomes connected (settle, stop, and
\* the check after the await for a ticket).
THEOREM NothingEverOutlives == Spec => []NothingOutlives
<1>1. Inv => NothingOutlives
  BY DEF Inv
<1> QED BY <1>1, Invariant, PTL

\* Among payments at one gateway a cheat ends the wait, and nothing else is made of
\* it; among gateways it never does (firstSettled, Gateways.settled).
THEOREM CheatsAreNeverTraded == Spec => []CheatsAreNotTraded
<1>1. Inv => CheatsAreNotTraded
  BY DEF Inv
<1> QED BY <1>1, Invariant, PTL

\* How a wait in vain ends says what was heard (firstSettled, Gateways.settled).
THEOREM AlwaysEndsAsHeard == Spec => []EndsAsHeard
<1>1. Inv => EndsAsHeard
  BY DEF Inv
<1> QED BY <1>1, Invariant, PTL

-----------------------------------------------------------------------------
(* The rest of the state *)

\* What no promise depends on.
Rest ==
    /\ tickets \in BOOLEAN
    /\ attempt \in [Legs -> 0..Unanswered + 1]
    /\ expires \in [Legs -> {"none", "ahead", "past"}]
    /\ given = TRUE

\* Every step keeps it; a stream hands on what the preimage is out for.
LEMMA RestKeeps ==
    ASSUME Inv, Rest, [Next]_vars
    PROVE  Rest'
<1> USE UnansweredAssumption
<1>1. CASE UNCHANGED vars
  BY <1>1 DEF vars, fixed, ending, histories, Rest
<1>2. ASSUME NEW l \in Legs, Retry(l) PROVE Rest'
  <2>1. attempt' \in [Legs -> 0..Unanswered + 1]
    BY <1>2 DEF Retry, Rest
  <2> QED BY <1>2, <2>1 DEF Retry, Rest, fixed, ending, histories
<1>3. ASSUME NEW l \in Legs, TicketGiven(l) \/ TicketRefused(l) \/ TicketFails(l) \/ Drop(l) \/ Release(l) \/ Expire(l) PROVE Rest'
  BY <1>3 DEF TicketGiven, TicketRefused, TicketFails, Drop, Release, Expire, Same, Rest, fixed, ending, histories
<1>4. ASSUME NEW l \in Legs, NEW f \in Frames, Hear(l, f) PROVE Rest'
  BY <1>4 DEF Hear, Rest, fixed, ending, histories
<1>5. ASSUME NEW l \in Legs, NEW f \in Frames, Pass(l, f) PROVE Rest'
  <2>1. Proven(f) = "paid" => l \in released
    BY <1>5 DEF Pass, Proven, Frames
  <2>2. given' = TRUE
    BY <1>5, <2>1 DEF Pass, Rest
  <2>3. attempt' \in [Legs -> 0..Unanswered + 1]
    BY <1>5 DEF Pass, Rest
  <2> QED BY <1>5, <2>2, <2>3 DEF Pass, Rest, fixed, ending, histories
<1>6. CASE Stop \/ Abort
  BY <1>6 DEF Stop, Abort, Rest, fixed, ending, histories
<1> QED BY <1>1, <1>2, <1>3, <1>4, <1>5, <1>6 DEF Next

\* The state keeps its type, for any number of attempts (followed, firstSettled).
THEOREM TypeCorrect == Spec => [](TypeOK /\ StreamIsProven)
<1>1. Init => Rest
  BY UnansweredAssumption DEF Init, Rest
<1>2. Inv /\ Rest /\ [Next]_vars => Rest'
  BY RestKeeps
<1>3. Inv /\ Rest => TypeOK /\ StreamIsProven
  BY DEF Inv, Rest, Typed, LetGo, TypeOK, StreamIsProven
<1> QED BY <1>1, <1>2, <1>3, Invariant, PTL DEF Spec

-----------------------------------------------------------------------------
(* The refinement *)

\* The end of one leg is a step of Wait: it wins, the wait is given up, or it is lost
\* and others go on.
LEMMA LegEndsRefines ==
    ASSUME Inv, NEW l \in Legs, NEW r \in Results, l \notin over,
           LegEnds(l, r), r = "paid" => l \in released, UNCHANGED <<released, aborted>>
    PROVE  Promise!Next
<1>0. outcome = "waiting" /\ result[l] = "none" /\ l \in Left
  BY DEF Inv, LetGo, Left
<1>1. CASE r = "paid"
  <2>1. outcome' = l /\ l # "waiting"
    BY <1>1, EndsAssumption DEF LegEnds, Decide
  <2>2. Promise!Win(l)
    BY <1>0, <1>1, <2>1 DEF Promise!Win
  <2> QED BY <2>2 DEF Promise!Next
<1>2. CASE r # "paid" /\ Fatal(r)
  <2>1. outcome' = "cheat"
    BY <1>2 DEF LegEnds, Decide
  <2>2. Promise!Give("cheat")
    BY <1>0, <2>1 DEF Promise!Give
  <2> QED BY <2>2 DEF Promise!Next
<1>3. CASE r # "paid" /\ ~Fatal(r) /\ LastLeg(l)
  <2>1. outcome' = InVain(r) /\ InVain(r) \in {"unpaid", "refused"}
    BY <1>3 DEF LegEnds, Decide, InVain
  <2>2. Left = {l}
    BY <1>3 DEF LastLeg
  <2>3. Promise!Give(InVain(r))
    BY <1>0, <2>1, <2>2 DEF Promise!Give
  <2> QED BY <2>1, <2>3 DEF Promise!Next
<1>4. CASE r # "paid" /\ ~Fatal(r) /\ ~LastLeg(l)
  <2>1. outcome' = outcome /\ result' = [result EXCEPT ![l] = r]
    BY <1>4 DEF LegEnds
  <2>2. Left' = Left \ {l} /\ Left' # {}
    BY <1>0, <1>4, <2>1 DEF Left, LastLeg, Inv, Typed, Results
  <2>3. Promise!Lose(l)
    BY <1>0, <2>1, <2>2 DEF Promise!Lose
  <2> QED BY <2>3 DEF Promise!Next
<1> QED BY <1>1, <1>2, <1>3, <1>4

\* again is a stutter of Wait, or loses the leg.
LEMMA AgainRefines ==
    ASSUME Inv, NEW l \in Legs, l \notin over, Again(l), UNCHANGED <<released, aborted>>
    PROVE  [Promise!Next]_Promise!vars
<1>1. CASE GivesUp(l)
  BY <1>1, LegEndsRefines DEF Again, Results
<1>2. CASE ~GivesUp(l)
  BY <1>2 DEF Again, Promise!vars, Left, ending
<1> QED BY <1>1, <1>2

\* Every step of Client is a step of Wait or a stutter.
LEMMA StepRefines ==
    ASSUME Inv, [Next]_vars
    PROVE  [Promise!Next]_Promise!vars
<1>0. ASSUME UNCHANGED <<released, result, outcome, aborted>> PROVE UNCHANGED Promise!vars
  BY <1>0 DEF Promise!vars, Left
<1>1. CASE UNCHANGED vars
  BY <1>0, <1>1 DEF vars, ending, histories
<1>2. ASSUME NEW l \in Legs, Retry(l) \/ TicketGiven(l) \/ Expire(l) PROVE UNCHANGED Promise!vars
  BY <1>0, <1>2 DEF Retry, TicketGiven, Expire, ending, histories
<1>3. ASSUME NEW l \in Legs, TicketRefused(l) \/ TicketFails(l) PROVE [Promise!Next]_Promise!vars
  <2>1. CASE l \in over
    BY <1>0, <1>3, <2>1 DEF TicketRefused, TicketFails, ending, histories
  <2>2. CASE l \notin over /\ TicketRefused(l) /\ Waits
    BY <2>2, LegEndsRefines DEF TicketRefused, ending, histories, Results
  <2>3. CASE l \notin over /\ ~(TicketRefused(l) /\ Waits)
    BY <1>3, <2>3, AgainRefines DEF TicketRefused, TicketFails, ending, histories
  <2> QED BY <2>1, <2>2, <2>3
<1>4. ASSUME NEW l \in Legs, Drop(l) PROVE [Promise!Next]_Promise!vars
  <2>1. l \notin over
    BY <1>4, OpenIsNotOver DEF Drop
  <2> QED BY <1>4, <2>1, AgainRefines DEF Drop, ending, histories
<1>5. ASSUME NEW l \in Legs, NEW f \in Frames, Hear(l, f) PROVE [Promise!Next]_Promise!vars
  <2>1. l \notin over
    BY <1>5, OpenIsNotOver DEF Hear
  <2>2. CASE f = "pending"
    BY <1>0, <1>5, <2>2 DEF Hear, ending, histories
  <2>3. CASE f # "pending"
    <3>1. Proven(f) \in Results /\ (Proven(f) = "paid" => l \in released)
      BY <1>5, <2>3 DEF Hear, Frames, Proven, Results
    <3> QED BY <1>5, <2>1, <2>3, <3>1, LegEndsRefines DEF Hear, ending, histories
  <2> QED BY <2>2, <2>3
<1>6. ASSUME NEW l \in Legs, NEW f \in Frames, Pass(l, f) PROVE UNCHANGED Promise!vars
  BY <1>0, <1>6 DEF Pass, ending, histories
<1>7. ASSUME NEW l \in Legs, Release(l) PROVE Promise!Next
  <2>1. UNCHANGED <<result, outcome, aborted>> /\ released' = released \cup Same(l) /\ Same(l) \in SUBSET Legs
    BY <1>7 DEF Release, Same, ending, histories
  <2>2. Promise!Release
    BY <2>1 DEF Promise!Release, Left
  <2> QED BY <2>2 DEF Promise!Next
<1>8. CASE Stop
  <2>1. /\ outcome = "waiting" /\ outcome' = "stopped"
        /\ UNCHANGED <<released, aborted>>
    BY <1>8 DEF Stop, Decide, ending, histories
  <2>2. Promise!Give(outcome')
    BY <2>1 DEF Promise!Give
  <2> QED BY <2>1, <2>2 DEF Promise!Next
<1>9. CASE Abort
  <2>1. /\ outcome = "waiting" /\ outcome' = OnAbort /\ aborted' = TRUE
        /\ UNCHANGED released
    BY <1>9 DEF Abort, Decide
  <2>2. OnAbort \in {"unpaid", "refused"} => \E l \in Legs : result[l] # "none"
    BY <2>1 DEF OnAbort, Expired, Inv, Remembered
  <2>3. OnAbort \in {"unpaid", "refused"} => Left # Legs
    BY <2>2 DEF Left
  <2>4. OnAbort \in {"unpaid", "refused", "aborted"}
    BY DEF OnAbort
  <2>5. Promise!TakeBack(OnAbort)
    BY <2>1, <2>3, <2>4 DEF Promise!TakeBack
  <2> QED BY <2>4, <2>5 DEF Promise!Next
<1> QED BY <1>1, <1>2, <1>3, <1>4, <1>5, <1>6, <1>7, <1>8, <1>9 DEF Next

\* Waiting in the SDK implements what a wait promises: it is decided once, says paid
\* only of a payment whose preimage is out, and ends in vain only when the last leg
\* has, or when its caller took it back and a leg had (followed, firstSettled,
\* Gateways.settled).
THEOREM ClientKeepsItsPromise == Spec => PromiseKept
<1>1. Init => Promise!Init
  BY LegsAssumption DEF Init, Promise!Init, Left
<1>2. Inv /\ [Next]_vars => [Promise!Next]_Promise!vars
  BY StepRefines
<1> QED BY <1>1, <1>2, Invariant, PTL DEF Spec, PromiseKept, Promise!Spec

=============================================================================
