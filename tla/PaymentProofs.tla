---------------------------- MODULE PaymentProofs ----------------------------
(***************************************************************************)
(* Proofs about a payment: its turns among all that hold it (module       *)
(* Turns) and its intake at one instance (module Intake).                  *)
(*                                                                         *)
(* Turns, for any instances, ranks, intervals and delays: nobody gives the *)
(* payment up, only the first in line asks while nothing fails, and a paid *)
(* payment is settled in time, at most an interval later for one fault.    *)
(*                                                                         *)
(* The second follows the first in line through a poll: before it,         *)
(* everybody else's turn is later than the longest it may take; when it    *)
(* ends, its answer is on the way to all whose turn has not come yet; and  *)
(* whoever adopts the answer stands behind the first one's next turn       *)
(* again.                                                                  *)
(*                                                                         *)
(* The third: only a poll that began before the payer paid says not yet,   *)
(* so soon after that no note puts a turn off any more.  What is left to   *)
(* move one back are a poll of one's own that fails and a host too busy,   *)
(* and those are faults: each costs one turn, and no turn is further away  *)
(* than the order can put it.                                              *)
(*                                                                         *)
(* The fourth: one fault either puts off a turn, and then the first in     *)
(* line is alive and has the payment; or it kills an instance or parts     *)
(* two, and then the next in line has lost nothing but the place.          *)
(*                                                                         *)
(* Intake: the quota of a caller and the meaning of an idempotency key,    *)
(* for any requests, keys and durations.                                   *)
(***************************************************************************)
EXTENDS Intake, Turns, FiniteSetTheorems, WellFoundedInduction, TLAPS

-----------------------------------------------------------------------------
(* Turns: what the operators return *)

USE StandingAssumption, GapsAssumption

LEMMA LeastOfTwo ==
    ASSUME NEW x \in Nat, NEW y \in Nat
    PROVE  Min({x, y}) = IF x <= y THEN x ELSE y
BY DEF Min

LEMMA GreatestOfTwo ==
    ASSUME NEW x \in Nat, NEW y \in Nat
    PROVE  Max({x, y}) = IF x <= y THEN y ELSE x
BY DEF Max

\* A wait outlasts a poll if the interval and the lease do.
LEMMA WaitOutlasts ==
    ASSUME NEW gap \in Nat
    PROVE  /\ Wait(gap) \in Nat
           /\ PollTime < gap /\ PollTime < Lease => Wait(gap) > PollTime
<1> DEFINE longer == Max({gap, 1})
<1>1. longer \in Nat /\ longer >= gap
  BY GreatestOfTwo
<1>2. Lease \in Nat /\ PollTime \in Nat
  OBVIOUS
<1> HIDE DEF longer
<1>3. Min({longer, Lease}) = IF longer <= Lease THEN longer ELSE Lease
  BY <1>1, <1>2, LeastOfTwo
<1> QED BY <1>1, <1>2, <1>3 DEF Wait, longer

LEMMA Manifold ==
    ASSUME NEW k \in Nat, NEW w \in Nat
    PROVE  /\ k * w \in Nat
           /\ k >= 1 => k * w >= w
<1>1. k * w \in Nat
  OBVIOUS
<1>2. ASSUME k >= 1 PROVE k * w >= w
  <2>1. PICK j \in Nat : k = 1 + j
    <3>1. k - 1 \in Nat /\ k = 1 + (k - 1)
      BY <1>2
    <3> QED BY <3>1
  <2>2. (1 + j) * w = w + j * w /\ j * w \in Nat
    OBVIOUS
  <2> QED BY <2>1, <2>2
<1> QED BY <1>1, <1>2

\* The one that no hash ranks ahead of.
First(f) == \A q \in Nodes : Standing[q] <= Standing[f]

LEMMA RankIs ==
    ASSUME NEW n \in Nodes, NEW among \in SUBSET Nodes
    PROVE  /\ Rank(n, among) \in Nat
           /\ First(n) => Rank(n, among) = 0
           /\ ~First(n) /\ among = Nodes \ {n} => Rank(n, among) >= 1
<1> DEFINE ahead == {q \in among : Standing[q] > Standing[n]}
<1>1. IsFiniteSet(ahead) /\ Cardinality(ahead) \in Nat
  <2>1. ahead \in SUBSET Nodes
    OBVIOUS
  <2>2. IsFiniteSet(ahead)
    BY <2>1, FS_Subset, StandingAssumption
  <2> QED BY <2>2, FS_CardinalityType
<1>2. Standing \in [Nodes -> Nat]
  BY StandingAssumption
<1>3. ASSUME First(n) PROVE Rank(n, among) = 0
  <2>1. ahead = {}
    BY <1>2, <1>3 DEF First
  <2> QED BY <2>1, FS_EmptySet DEF Rank
<1>4. ASSUME ~First(n), among = Nodes \ {n} PROVE Rank(n, among) >= 1
  <2>1. PICK q \in Nodes : ~(Standing[q] <= Standing[n])
    BY <1>4 DEF First
  <2>2. q \in ahead
    BY <1>2, <1>4, <2>1
  <2>3. Cardinality(ahead) # 0
    BY <1>1, <2>2, FS_EmptySet
  <2> QED BY <1>1, <2>3 DEF Rank
<1> QED BY <1>1, <1>3, <1>4 DEF Rank

LEMMA FirstIsOne ==
    ASSUME NEW f \in Nodes, NEW g \in Nodes, First(f), First(g)
    PROVE  f = g
<1>1. Standing[f] \in Nat /\ Standing[g] \in Nat
  BY StandingAssumption
<1>2. Standing[f] = Standing[g]
  BY <1>1 DEF First
<1> QED BY <1>2, StandingAssumption

\* Somebody leads any of the instances.
LEMMA SomebodyLeads ==
    ASSUME NEW S \in SUBSET Nodes, NEW n \in S
    PROVE  \E f \in S : \A q \in S : Standing[q] <= Standing[f]
<1> DEFINE ahead(q) == {r \in S : Standing[r] > Standing[q]}
           Counts == {Rank(q, S) : q \in S}
           R == OpToRel(<, Nat)
<1>1. Counts \in SUBSET Nat /\ Counts # {}
  BY RankIs
<1>2. IsWellFoundedOn(R, Nat)
  BY NatLessThanWellFounded
<1>3. PICK c \in Counts : \A d \in Counts : ~(<<d, c>> \in R)
  <2> HIDE DEF R, Counts
  <2> QED BY <1>1, <1>2, WFMin
<1>4. \A d \in Counts : ~(d < c)
  <2>1. \A d \in Counts : <<d, c>> \in R <=> d < c
    BY <1>1 DEF OpToRel
  <2> HIDE DEF R, Counts
  <2> QED BY <1>3, <2>1
<1>5. PICK f \in S : c = Rank(f, S)
  OBVIOUS
<1>6. \A q \in S : Standing[q] <= Standing[f]
  <2> SUFFICES ASSUME NEW q \in S, ~(Standing[q] <= Standing[f]) PROVE FALSE
    OBVIOUS
  <2>1. Standing \in [Nodes -> Nat]
    BY StandingAssumption
  <2>2. ahead(q) \subseteq ahead(f) /\ q \in ahead(f) /\ q \notin ahead(q)
    BY <2>1
  <2>3. ahead(f) \in SUBSET Nodes
    OBVIOUS
  <2>4. IsFiniteSet(ahead(f))
    BY <2>3, FS_Subset, StandingAssumption
  <2>5. Cardinality(ahead(q)) < Cardinality(ahead(f))
    <3>1. /\ Cardinality(ahead(q)) <= Cardinality(ahead(f))
          /\ Cardinality(ahead(q)) = Cardinality(ahead(f)) => ahead(q) = ahead(f)
          /\ IsFiniteSet(ahead(q))
      BY <2>2, <2>4, FS_Subset
    <3>2. Cardinality(ahead(q)) \in Nat /\ Cardinality(ahead(f)) \in Nat
      BY <2>4, <3>1, FS_CardinalityType
    <3>3. ahead(q) # ahead(f)
      BY <2>2
    <3> QED BY <3>1, <3>2, <3>3
  <2>6. Rank(q, S) < c /\ Rank(q, S) \in Counts
    BY <1>5, <2>5 DEF Rank
  <2> QED BY <1>4, <2>6
<1> QED BY <1>6

\* Somebody is first.
LEMMA SomebodyIsFirst ==
    ASSUME NEW n \in Nodes
    PROVE  \E f \in Nodes : First(f)
BY SomebodyLeads, Nodes \in SUBSET Nodes DEF First

\* A turn is a time, the first in line's own at once and another's a wait later.
LEMMA TurnIs ==
    ASSUME NEW n \in Nodes, NEW next \in Nat, NEW gap \in Nat, NEW among \in SUBSET Nodes
    PROVE  /\ Turn(n, next, gap, among) \in Nat
           /\ First(n) => Turn(n, next, gap, among) = next
           /\ ~First(n) /\ among = Nodes \ {n} /\ ~byAgent =>
                 Turn(n, next, gap, among) >= next + Wait(gap)
<1> DEFINE w == Wait(gap)
           k == Rank(n, among)
<1>1. w \in Nat /\ k \in Nat
  BY WaitOutlasts, RankIs
<1>2. k * w \in Nat /\ (k >= 1 => k * w >= w) /\ (k = 0 => k * w = 0)
  <2> HIDE DEF w, k
  <2> QED BY <1>1, Manifold
<1>3. Turn(n, next, gap, among) = next + (IF byAgent /\ n \in socket THEN 0 ELSE k * w)
  BY DEF Turn
<1>4. (First(n) => k = 0) /\ (~First(n) /\ among = Nodes \ {n} => k >= 1)
  BY RankIs
<1> HIDE DEF w, k
<1> QED BY <1>1, <1>2, <1>3, <1>4 DEF w

NextTurn(t) == t > clock /\ (t = ExpiresAt \/ \E gap \in Gaps : t = clock + gap)

\* Until the expiry there is one next turn, later than now.
LEMMA NextDueIs ==
    ASSUME NEW gap \in Gaps, clock \in Nat
    PROVE  /\ NextDue(gap) \in SUBSET Nat
           /\ clock < ExpiresAt => \E t \in Nat : NextDue(gap) = {t} /\ NextTurn(t)
<1> DEFINE t == Min({clock + gap, ExpiresAt})
<1>1. gap \in Nat /\ gap > 0 /\ clock + gap \in Nat /\ ExpiresAt \in Nat
  <2>1. gap \in 1..MaxGap /\ MaxGap \in Nat
    BY GapsAssumption
  <2>2. ExpiresAt \in Nat
    BY GapsAssumption
  <2> QED BY <2>1, <2>2
<1>2. t = IF clock + gap <= ExpiresAt THEN clock + gap ELSE ExpiresAt
  BY <1>1, LeastOfTwo
<1>3. NextDue(gap) = IF clock >= ExpiresAt THEN {} ELSE {t}
  BY DEF NextDue
<1> HIDE DEF t
<1>4. t \in Nat /\ (clock < ExpiresAt => NextTurn(t))
  BY <1>1, <1>2 DEF NextTurn
<1>5. NextDue(gap) \in SUBSET Nat
  BY <1>3, <1>4
<1>6. clock < ExpiresAt => NextDue(gap) = {t}
  BY <1>1, <1>3
<1> QED BY <1>4, <1>5, <1>6

-----------------------------------------------------------------------------
(* Turns: the schedule *)

Note == [kind : {"polled", "missed"}, from : Nodes, to : Nodes, next : SUBSET Nat, sent : Nat]

TurnsTyped ==
    /\ byAgent \in BOOLEAN /\ delay \in Nat /\ clock \in Nat /\ faults \in Nat
    /\ accepted \in [Nodes -> SUBSET Nat]
    /\ row \in [Nodes -> BOOLEAN] /\ settled \in [Nodes -> BOOLEAN]
    /\ due \in [Nodes -> SUBSET Nat]
    /\ polling \in [Nodes -> SUBSET [at : Nat, paid : BOOLEAN]]
    /\ peers \in [Nodes -> SUBSET Nodes]
    /\ net \subseteq Note

\* The schedule holds what was accepted and is not settled, with a turn to come
\* until the expiry; so does every note that tells the next turn.
Scheduled ==
    /\ \A n \in Nodes : /\ row[n] => accepted[n] # {}
                        /\ ~row[n] => due[n] = {}
                        /\ settled[n] => ~row[n]
                        /\ accepted[n] # {} /\ ~settled[n] => row[n]
                        /\ \A t \in accepted[n] : t <= clock
    /\ clock < ExpiresAt => /\ \A n \in Nodes : row[n] => due[n] # {}
                            /\ \A m \in net : m.kind = "polled" => m.next # {}

LineInv == TurnsTyped /\ Scheduled

LEMMA PostponedIs ==
    ASSUME TurnsTyped, NEW n \in Nodes, NEW next \in SUBSET Nat
    PROVE  /\ Postponed(n, next) \in [Nodes -> SUBSET Nat]
           /\ \A q \in Nodes : q # n => Postponed(n, next)[q] = due[q]
           /\ ~row[n] => Postponed(n, next)[n] = due[n]
           /\ row[n] => Postponed(n, next)[n] = {Turn(n, t, Less(t, clock), peers[n]) : t \in next}
<1> DEFINE turns == {Turn(n, t, Less(t, clock), peers[n]) : t \in next}
<1>1. ASSUME NEW t \in next PROVE Turn(n, t, Less(t, clock), peers[n]) \in Nat
  <2>1. t \in Nat /\ clock \in Nat /\ peers[n] \in SUBSET Nodes
    BY DEF TurnsTyped
  <2>2. Less(t, clock) \in Nat
    BY <2>1 DEF Less
  <2> QED BY <2>1, <2>2, TurnIs
<1>2. turns \in SUBSET Nat
  BY <1>1
<1>3. due \in [Nodes -> SUBSET Nat]
  BY DEF TurnsTyped
<1>4. Postponed(n, next) = [due EXCEPT ![n] = IF row[n] THEN turns ELSE due[n]]
  BY DEF Postponed
<1> HIDE DEF turns
<1>5. /\ Postponed(n, next) \in [Nodes -> SUBSET Nat]
      /\ \A q \in Nodes : q # n => Postponed(n, next)[q] = due[q]
      /\ Postponed(n, next)[n] = IF row[n] THEN turns ELSE due[n]
  BY <1>2, <1>3, <1>4
<1> QED BY <1>5 DEF turns

\* Whose turn is put off keeps a turn if there is one to come.
LEMMA PutOffKeeps ==
    ASSUME LineInv, NEW n \in Nodes, NEW next \in SUBSET Nat, due' = Postponed(n, next),
           clock < ExpiresAt => next # {},
           UNCHANGED <<row, accepted, settled, clock>>,
           clock < ExpiresAt => \A m \in net' : m.kind = "polled" => m.next # {}
    PROVE  due' \in [Nodes -> SUBSET Nat] /\ Scheduled'
<1>1. /\ due' \in [Nodes -> SUBSET Nat]
      /\ \A q \in Nodes : q # n => due'[q] = due[q]
      /\ ~row[n] => due'[n] = due[n]
      /\ row[n] => due'[n] = {Turn(n, t, Less(t, clock), peers[n]) : t \in next}
  BY PostponedIs DEF LineInv
<1>2. ASSUME row[n], next # {} PROVE due'[n] # {}
  <2>1. PICK t \in next : TRUE
    BY <1>2
  <2>2. Turn(n, t, Less(t, clock), peers[n]) \in due'[n]
    BY <1>1, <1>2
  <2> QED BY <2>2
<1>3. ASSUME NEW q \in Nodes PROVE ~row[q] => due'[q] = {}
  BY <1>1 DEF LineInv, Scheduled
<1>4. ASSUME clock < ExpiresAt, NEW q \in Nodes PROVE row[q] => due'[q] # {}
  BY <1>1, <1>2, <1>4 DEF LineInv, Scheduled
<1> QED BY <1>1, <1>3, <1>4 DEF LineInv, Scheduled

LEMMA ScheduleIs ==
    ASSUME TurnsTyped, NEW n \in Nodes, NEW x \in Nat, Schedule(n, x)
    PROVE  /\ row' \in [Nodes -> BOOLEAN] /\ due' \in [Nodes -> SUBSET Nat]
           /\ row'[n]
           /\ \A q \in Nodes : q # n => row'[q] = row[q] /\ due'[q] = due[q]
           /\ due'[n] = IF row[n] THEN due[n] ELSE {x}
<1>1. CASE row[n]
  BY <1>1 DEF TurnsTyped, Schedule, schedule
<1>2. CASE ~row[n]
  <2>1. row' = [row EXCEPT ![n] = TRUE] /\ due' = [due EXCEPT ![n] = {x}]
    BY <1>2 DEF Schedule
  <2> QED BY <1>2, <2>1 DEF TurnsTyped
<1> QED BY <1>1, <1>2

\* Taking the payment on puts it in the schedule.
LEMMA TakenOn ==
    ASSUME LineInv, NEW n \in Nodes, NEW t \in Nat, NEW x \in Nat, t <= clock,
           accepted' = [accepted EXCEPT ![n] = {t}],
           IF settled[n] THEN UNCHANGED schedule ELSE Schedule(n, x),
           UNCHANGED <<world, polling, settled, net>>
    PROVE  LineInv'
<1>1. TurnsTyped /\ Scheduled
  BY DEF LineInv
<1>2. /\ accepted' \in [Nodes -> SUBSET Nat] /\ accepted'[n] = {t}
      /\ \A q \in Nodes : q # n => accepted'[q] = accepted[q]
  BY <1>1 DEF TurnsTyped
<1>3. CASE settled[n]
  BY <1>1, <1>2, <1>3 DEF LineInv, TurnsTyped, Scheduled, world, schedule
<1>4. CASE ~settled[n]
  <2>1. /\ row' \in [Nodes -> BOOLEAN] /\ due' \in [Nodes -> SUBSET Nat]
        /\ row'[n]
        /\ \A q \in Nodes : q # n => row'[q] = row[q] /\ due'[q] = due[q]
        /\ due'[n] = IF row[n] THEN due[n] ELSE {x}
    BY <1>1, <1>4, ScheduleIs
  <2>2. TurnsTyped'
    BY <1>1, <1>2, <2>1 DEF TurnsTyped, world
  <2>3. ASSUME NEW q \in Nodes
        PROVE  /\ row'[q] => accepted'[q] # {}
               /\ ~row'[q] => due'[q] = {}
               /\ settled[q] => ~row'[q]
               /\ accepted'[q] # {} /\ ~settled[q] => row'[q]
               /\ \A y \in accepted'[q] : y <= clock
               /\ clock < ExpiresAt /\ row'[q] => due'[q] # {}
    <3>1. CASE q = n
      BY <1>1, <1>2, <1>4, <2>1, <3>1 DEF Scheduled
    <3>2. CASE q # n
      BY <1>1, <1>2, <2>1, <3>2 DEF Scheduled
    <3> QED BY <3>1, <3>2
  <2>4. Scheduled'
    BY <1>1, <2>3 DEF Scheduled, world
  <2> QED BY <2>2, <2>4 DEF LineInv
<1> QED BY <1>3, <1>4

\* Who settles forgets the schedule's row.
LEMMA SettledForgets ==
    ASSUME LineInv, NEW n \in Nodes, NEW left, polling' = left,
           left \in [Nodes -> SUBSET [at : Nat, paid : BOOLEAN]],
           settled' = [settled EXCEPT ![n] = TRUE],
           row' = [row EXCEPT ![n] = FALSE],
           due' = [due EXCEPT ![n] = {}],
           UNCHANGED <<world, accepted, net>>
    PROVE  LineInv'
<1>1. TurnsTyped /\ Scheduled
  BY DEF LineInv
<1>2. TurnsTyped'
  BY <1>1 DEF TurnsTyped, world
<1>3. \A q \in Nodes : /\ settled'[q] = IF q = n THEN TRUE ELSE settled[q]
                       /\ row'[q] = IF q = n THEN FALSE ELSE row[q]
                       /\ due'[q] = IF q = n THEN {} ELSE due[q]
  BY <1>1 DEF TurnsTyped
<1>4. Scheduled'
  <2>1. ASSUME NEW q \in Nodes
        PROVE  /\ row'[q] => accepted[q] # {}
               /\ ~row'[q] => due'[q] = {}
               /\ settled'[q] => ~row'[q]
               /\ accepted[q] # {} /\ ~settled'[q] => row'[q]
               /\ \A y \in accepted[q] : y <= clock
               /\ clock < ExpiresAt /\ row'[q] => due'[q] # {}
    BY <1>1, <1>3 DEF Scheduled
  <2> QED BY <1>1, <2>1 DEF Scheduled, world
<1> QED BY <1>2, <1>4 DEF LineInv

\* Every step keeps the payment in the schedule of whoever holds it.
LEMMA StaysInLine == LineInv /\ [TurnsNext]_turnVars => LineInv'
<1> SUFFICES ASSUME LineInv, [TurnsNext]_turnVars PROVE LineInv'
  OBVIOUS
<1>1. TurnsTyped /\ Scheduled
  BY DEF LineInv
<1>2. ASSUME NEW n \in Nodes PROVE peers[n] \in SUBSET Nodes
  BY <1>1 DEF TurnsTyped
<1>3. ASSUME NEW n \in Nodes, Accept(n) PROVE LineInv'
  <2>1. Turn(n, clock, Eager, peers[n]) \in Nat /\ clock \in Nat /\ clock <= clock
    BY <1>1, <1>2, TurnIs DEF TurnsTyped
  <2> QED BY <1>3, <2>1, TakenOn DEF Accept
<1>4. ASSUME NEW n \in Nodes, NEW q \in Nodes, NEW gap \in Gaps, Copy(n, q, gap) PROVE LineInv'
  <2>1. PICK t \in accepted[q] :
          /\ accepted' = [accepted EXCEPT ![n] = {t}]
          /\ IF settled[n] THEN UNCHANGED schedule ELSE Schedule(n, Standby(n, t, gap))
    BY <1>4 DEF Copy
  <2>2. t \in Nat /\ t <= clock /\ gap \in Nat /\ clock \in Nat
    BY <1>1 DEF TurnsTyped, Scheduled
  <2>3. Standby(n, t, gap) \in Nat
    <3>1. (IF clock - t < gap THEN t ELSE clock + gap) \in Nat
      BY <2>2
    <3> QED BY <1>2, <2>2, <3>1, TurnIs DEF Standby
  <2> QED BY <1>4, <2>1, <2>2, <2>3, TakenOn DEF Copy
<1>5. ASSUME NEW n \in Nodes, NEW q \in Nodes, Hear(n, q) PROVE LineInv'
  <2>1. polling' = polling /\ polling \in [Nodes -> SUBSET [at : Nat, paid : BOOLEAN]]
    BY <1>1, <1>5 DEF Hear, TurnsTyped
  <2> QED BY <1>5, <2>1, SettledForgets DEF Hear
<1>6. ASSUME NEW n \in Nodes, Poll(n) PROVE LineInv'
  <2>1. due[n] # {} /\ clock \in Nat /\ clock + Lease \in Nat
    BY <1>1, <1>6 DEF Poll, IsDue, TurnsTyped
  <2>2. TurnsTyped'
    BY <1>1, <1>6, <2>1 DEF Poll, TurnsTyped, world
  <2>3. \A q \in Nodes : due'[q] = IF q = n THEN {clock + Lease} ELSE due[q]
    BY <1>1, <1>6 DEF Poll, TurnsTyped
  <2>4. row[n]
    BY <1>1, <2>1 DEF Scheduled
  <2>5. Scheduled'
    BY <1>1, <1>6, <2>3, <2>4 DEF Poll, Scheduled, world
  <2> QED BY <2>2, <2>5 DEF LineInv
<1>7. ASSUME NEW n \in Nodes, StandAside(n) PROVE LineInv'
  <2>0. PICK gap \in Gaps : due' = Postponed(n, NextDue(gap))
    BY <1>7 DEF StandAside
  <2>1. NextDue(gap) \in SUBSET Nat /\ (clock < ExpiresAt => NextDue(gap) # {})
    BY <1>1, NextDueIs DEF TurnsTyped
  <2>2. due' \in [Nodes -> SUBSET Nat] /\ Scheduled'
    BY <1>1, <1>7, <2>0, <2>1, PutOffKeeps DEF StandAside, world, Scheduled
  <2> QED BY <1>1, <1>7, <2>2 DEF LineInv, StandAside, TurnsTyped, world
<1>8. ASSUME NEW n \in Nodes, NEW gap \in Busy, PutOff(n, gap) PROVE LineInv'
  <2>1. {clock + gap} \in SUBSET Nat
    BY <1>1 DEF TurnsTyped
  <2>2. due' \in [Nodes -> SUBSET Nat] /\ Scheduled'
    BY <1>1, <1>8, <2>1, PutOffKeeps DEF PutOff, elsewhere, Scheduled
  <2>3. faults' \in Nat
    BY <1>1, <1>8 DEF PutOff, Faulty, TurnsTyped
  <2> QED BY <1>1, <1>8, <2>2, <2>3 DEF LineInv, PutOff, TurnsTyped, elsewhere
<1>9. ASSUME NEW n \in Nodes, NEW gap \in Gaps, Answer(n, gap) PROVE LineInv'
  <2>1. NextDue(gap) \in SUBSET Nat /\ (clock < ExpiresAt => NextDue(gap) # {}) /\ clock \in Nat
    BY <1>1, NextDueIs DEF TurnsTyped
  <2>2. net' = net \cup {Polled(n, q, NextDue(gap)) : q \in peers[n] \ dead}
    BY <1>9 DEF Answer
  <2>3. net' \subseteq Note
    BY <1>1, <1>2, <2>1, <2>2 DEF Polled, Note, TurnsTyped
  <2>4. clock < ExpiresAt => \A m \in net' : m.kind = "polled" => m.next # {}
    BY <1>1, <2>1, <2>2 DEF Polled, Scheduled
  <2>5. due' \in [Nodes -> SUBSET Nat] /\ Scheduled'
    BY <1>9, <2>1, <2>4, PutOffKeeps DEF Answer, world
  <2> QED BY <1>1, <1>9, <2>3, <2>5 DEF LineInv, Answer, TurnsTyped, world
<1>10. ASSUME NEW n \in Nodes, NEW gap \in Gaps, Miss(n, gap) PROVE LineInv'
  <2>1. NextDue(gap) \in SUBSET Nat /\ (clock < ExpiresAt => NextDue(gap) # {}) /\ clock \in Nat
    BY <1>1, NextDueIs DEF TurnsTyped
  <2>2. net' = net \cup {Missed(n, q) : q \in peers[n] \ dead}
    BY <1>10 DEF Miss
  <2>3. net' \subseteq Note
    BY <1>1, <1>2, <2>1, <2>2 DEF Missed, Note, TurnsTyped
  <2>4. clock < ExpiresAt => \A m \in net' : m.kind = "polled" => m.next # {}
    BY <1>1, <2>2 DEF Missed, Scheduled
  <2>5. due' \in [Nodes -> SUBSET Nat] /\ Scheduled'
    BY <1>10, <2>1, <2>4, PutOffKeeps DEF Miss, elsewhere
  <2>6. faults' \in Nat /\ polling' \in [Nodes -> SUBSET [at : Nat, paid : BOOLEAN]]
    BY <1>1, <1>10 DEF Miss, Faulty, TurnsTyped
  <2> QED BY <1>1, <1>10, <2>3, <2>5, <2>6 DEF LineInv, Miss, TurnsTyped, elsewhere
<1>11. ASSUME NEW n \in Nodes, Find(n) PROVE LineInv'
  <2>1. polling' \in [Nodes -> SUBSET [at : Nat, paid : BOOLEAN]]
    BY <1>1, <1>11 DEF Find, TurnsTyped
  <2> QED BY <1>11, <2>1, SettledForgets DEF Find
<1>12. ASSUME NEW m \in net, Adopt(m) PROVE LineInv'
  <2>1. /\ m.to \in Nodes /\ m.next \in SUBSET Nat /\ m.kind = "polled"
        /\ net' = net \ {m}
        /\ UNCHANGED <<byAgent, delay, clock, faults, peers, row, accepted, polling, settled>>
        /\ due' = IF accepted[m.to] # {} THEN Postponed(m.to, m.next) ELSE due
    BY <1>1, <1>12 DEF Adopt, TurnsTyped, Note, world
  <2>2. /\ clock < ExpiresAt => m.next # {}
        /\ clock < ExpiresAt => \A k \in net' : k.kind = "polled" => k.next # {}
    BY <1>1, <2>1 DEF Scheduled
  <2>3. due' \in [Nodes -> SUBSET Nat] /\ Scheduled'
    <3>1. CASE accepted[m.to] # {}
      <4>1. due' = Postponed(m.to, m.next)
        BY <2>1, <3>1
      <4> QED BY <2>1, <2>2, <4>1, PutOffKeeps
    <3>2. CASE accepted[m.to] = {}
      <4>1. due' = due
        BY <2>1, <3>2
      <4> QED BY <1>1, <2>1, <4>1 DEF Scheduled, TurnsTyped
    <3> QED BY <3>1, <3>2
  <2> QED BY <1>1, <2>1, <2>3 DEF LineInv, TurnsTyped
<1>13. ASSUME NEW m \in net, ComeForward(m) PROVE LineInv'
  <2> DEFINE n == m.to
             sooner == Turn(n, clock, Eager, peers[n] \ {m.from})
             forward == {Min({t, sooner}) : t \in due[n]}
  <2>1. /\ n \in Nodes /\ net' = net \ {m} /\ UNCHANGED <<world, row, accepted, since, polling, settled>>
        /\ due' = [due EXCEPT ![n] = forward]
    BY <1>1, <1>13 DEF ComeForward, TurnsTyped, Note
  <2>2. sooner \in Nat
    <3>1. peers[n] \ {m.from} \in SUBSET Nodes /\ clock \in Nat
      BY <1>1, <1>2, <2>1 DEF TurnsTyped
    <3> QED BY <2>1, <3>1, TurnIs
  <2> HIDE DEF sooner
  <2>3. due[n] \in SUBSET Nat
    BY <1>1, <2>1 DEF TurnsTyped
  <2>4. forward \in SUBSET Nat /\ (forward = {} <=> due[n] = {})
    <3>1. ASSUME NEW t \in due[n] PROVE Min({t, sooner}) \in Nat
      BY <2>2, <2>3, LeastOfTwo
    <3>2. forward \in SUBSET Nat
      BY <3>1
    <3>3. ASSUME due[n] # {} PROVE forward # {}
      <4>1. PICK t \in due[n] : TRUE
        BY <3>3
      <4>2. Min({t, sooner}) \in forward
        OBVIOUS
      <4> QED BY <4>2
    <3> QED BY <3>2, <3>3
  <2> HIDE DEF forward
  <2>5. due' \in [Nodes -> SUBSET Nat]
    BY <1>1, <2>1, <2>4 DEF TurnsTyped
  <2>6. \A q \in Nodes : due'[q] = {} <=> due[q] = {}
    BY <1>1, <2>1, <2>4 DEF TurnsTyped
  <2>7. Scheduled'
    BY <1>1, <2>1, <2>6 DEF Scheduled, world
  <2> QED BY <1>1, <2>1, <2>5, <2>7 DEF LineInv, TurnsTyped, world
<1>14. ASSUME NEW n \in Nodes, NEW q \in Nodes, Unlink(n, q) PROVE LineInv'
  BY <1>1, <1>14 DEF LineInv, Unlink, Faulty, TurnsTyped, Scheduled, schedule
<1>15. ASSUME NEW n \in Nodes, Die(n) PROVE LineInv'
  BY <1>1, <1>15 DEF LineInv, Die, Faulty, TurnsTyped, Scheduled, schedule
<1>16. ASSUME NEW n \in Nodes, Attend(n) \/ Leave(n) PROVE LineInv'
  BY <1>1, <1>16 DEF LineInv, Attend, Leave, Faulty, TurnsTyped, Scheduled, schedule
<1>17. ASSUME NEW n \in Nodes, NEW q \in Nodes, Link(n, q) PROVE LineInv'
  BY <1>1, <1>17 DEF LineInv, Link, TurnsTyped, Scheduled, schedule
<1>18. CASE Pay
  BY <1>1, <1>18 DEF LineInv, Pay, TurnsTyped, Scheduled, schedule
<1>19. CASE Elapse
  <2>1. clock' = clock + 1 /\ clock \in Nat
    BY <1>1, <1>19 DEF Elapse, TurnsTyped
  <2>2. \A n \in Nodes : \A t \in accepted[n] : t \in Nat
    BY <1>1 DEF TurnsTyped
  <2> QED BY <1>1, <1>19, <2>1, <2>2 DEF LineInv, Elapse, TurnsTyped, Scheduled, schedule
<1>20. CASE UNCHANGED turnVars
  BY <1>1, <1>20 DEF LineInv, TurnsTyped, Scheduled, turnVars, world, schedule
<1> QED
  BY <1>3, <1>4, <1>5, <1>6, <1>7, <1>8, <1>9, <1>10, <1>11, <1>12, <1>13, <1>14, <1>15, <1>16,
     <1>17, <1>18, <1>19, <1>20 DEF TurnsNext

LEMMA LineInit == TurnsInit => LineInv
<1> SUFFICES ASSUME TurnsInit PROVE LineInv
  OBVIOUS
<1>1. delay \in Nat
  BY DEF TurnsInit
<1> QED BY <1>1 DEF TurnsInit, LineInv, TurnsTyped, Scheduled

LEMMA AlwaysInLine == TurnsSpec => []LineInv
BY LineInit, StaysInLine, PTL DEF TurnsSpec

\* Nobody gives a payment up before it expires: whoever holds it unsettled has a
\* turn of its own to come, whatever notes it adopted, polls missed, hosts busy and
\* peers lost, for any number of instances, intervals and delays (Ledger.schedule,
\* nextDue, Store.postponed).
THEOREM NobodyGivesUp == TurnsSpec => []InLine
<1>1. LineInv => InLine
  BY DEF LineInv, Scheduled, InLine
<1> QED BY <1>1, AlwaysInLine, PTL

-----------------------------------------------------------------------------
(* Turns: only the first in line asks *)

\* What the order takes: a poll takes some time, and less than any interval or the
\* lease.  A slower poll is overtaken by the second in line, and rightly so.
Brisk == PollAtLeast > 0 /\ PollTime < Lease /\ \A gap \in Gaps : PollTime < gap

\* Nothing failed, notes arrive at once, no agent has the payment, and it has not
\* expired.
Quiet == faults = 0 /\ delay = 0 /\ ~byAgent /\ clock < ExpiresAt

Alone == dead = {} /\ \A n \in Nodes : peers[n] = Nodes \ {n}

Everyone == \A n \in Nodes : accepted[n] # {}

\* All take the payment on in the same unit, and nobody settles it before.
Together(f) ==
    /\ Everyone \/ \A n \in Nodes : \A t \in accepted[n] : t = clock
    /\ settled[f] => Everyone

OnlyAsks(f) == \A n \in Nodes \ {f} : polling[n] = {} /\ (settled[n] => settled[f])

\* The first in line begins a poll when it is due, the first one at once.
Asking(f) ==
    /\ \A p \in polling[f] :
          /\ p.at <= clock /\ clock <= p.at + PollTime
          /\ accepted[f] # {} /\ ~settled[f]
          /\ \A t \in accepted[f] : t <= p.at
    /\ polling[f] = {} => \A t \in due[f] :
          clock <= t /\ ((\A x \in accepted[f] : x = clock) => t = clock)

\* What is in flight tells the first one's next turn.
Telling(f) ==
    \A m \in net :
        /\ m.kind = "polled" /\ m.from = f /\ m.to # f /\ m.sent = clock
        /\ polling[f] = {} /\ ~settled[f] /\ Everyone
        /\ \E t \in Nat : m.next = {t} /\ due[f] = {t} /\ NextTurn(t)

\* The others' turns come after the first one's poll, or are about to be put off.
Behind(f, n) ==
    \A x \in due[n] :
        \/ x >= ExpiresAt
        \/ x > clock /\ (settled[f] \/ \E m \in net : m.to = n)
        \/ accepted[f] = {} /\ x > clock + PollTime
        \/ polling[f] # {} /\ \A p \in polling[f] : x > p.at + PollTime
        \/ /\ polling[f] = {} /\ accepted[f] # {} /\ ~settled[f]
           /\ \A t \in due[f] : x > t + PollTime

Calm(f) ==
    /\ Alone /\ Together(f) /\ OnlyAsks(f) /\ Asking(f) /\ Telling(f)
    /\ \A n \in Nodes \ {f} : Behind(f, n)

CalmInv == Quiet => \A f \in Nodes : First(f) => Calm(f)

\* While the first one's turn is to come or it polls, no other is due.
LEMMA OthersWait ==
    ASSUME LineInv, Quiet, NEW f \in Nodes, Calm(f), NEW n \in Nodes \ {f}, NEW x \in due[n]
    PROVE  x > clock
<1>1. clock \in Nat /\ x \in Nat /\ PollTime \in Nat /\ ExpiresAt \in Nat /\ clock < ExpiresAt
  BY DEF LineInv, TurnsTyped, Quiet
<1>2. Behind(f, n) /\ Asking(f)
  BY DEF Calm
<1>3. CASE x >= ExpiresAt
  BY <1>1, <1>3
<1>4. CASE accepted[f] = {} /\ x > clock + PollTime
  BY <1>1, <1>4
<1>5. CASE polling[f] # {} /\ \A p \in polling[f] : x > p.at + PollTime
  <2>1. PICK p \in polling[f] : x > p.at + PollTime
    BY <1>5
  <2>2. p.at \in Nat /\ clock <= p.at + PollTime
    BY <1>2 DEF LineInv, TurnsTyped, Asking
  <2> QED BY <1>1, <2>1, <2>2
<1>6. CASE /\ polling[f] = {} /\ accepted[f] # {} /\ ~settled[f]
           /\ \A t \in due[f] : x > t + PollTime
  <2>1. due[f] # {}
    BY <1>1, <1>6 DEF LineInv, Scheduled
  <2>2. PICK t \in due[f] : x > t + PollTime
    BY <1>6, <2>1
  <2>3. t \in Nat /\ clock <= t
    BY <1>2, <1>6 DEF LineInv, TurnsTyped, Asking
  <2> QED BY <1>1, <2>2, <2>3
<1> QED BY <1>2, <1>3, <1>4, <1>5, <1>6 DEF Behind

\* A poll of the first one: nobody else polls, nothing is in flight.
LEMMA FirstPoll ==
    ASSUME LineInv, Quiet, NEW f \in Nodes, Calm(f), NEW n \in Nodes, Poll(n)
    PROVE  Calm(f)'
<1>1. LineInv /\ TurnsTyped /\ Scheduled
  BY DEF LineInv
<1>2. clock \in Nat /\ PollTime \in Nat
  BY <1>1 DEF TurnsTyped
<1>3. PICK t \in due[n] : t <= clock /\ polling[n] = {}
  BY DEF Poll, IsDue
<1>4. n = f /\ t \in Nat
  <2>1. t \in Nat
    BY <1>1 DEF TurnsTyped
  <2>2. n # f => t > clock
    BY OthersWait
  <2> QED BY <1>2, <1>3, <2>1, <2>2
<1>5. t = clock
  <2>1. clock <= t
    BY <1>3, <1>4 DEF Calm, Asking
  <2> QED BY <1>2, <1>3, <1>4, <2>1
<1>6. net = {}
  <2> SUFFICES ASSUME NEW m \in net PROVE FALSE
    OBVIOUS
  <2>1. PICK u \in Nat : due[f] = {u} /\ NextTurn(u)
    BY DEF Calm, Telling
  <2>2. u = t /\ u > clock
    BY <1>3, <1>4, <2>1 DEF NextTurn
  <2> QED BY <1>2, <1>5, <2>2
<1>7. /\ polling' = [polling EXCEPT ![f] = {[at |-> clock, paid |-> paid # {}]}]
      /\ due' = [due EXCEPT ![f] = {clock + Lease}]
      /\ UNCHANGED <<world, row, accepted, since, settled, net>>
  BY <1>4 DEF Poll
<1>8. polling'[f] = {[at |-> clock, paid |-> paid # {}]}
  BY <1>1, <1>7 DEF TurnsTyped
<1>9. \A q \in Nodes \ {f} : polling'[q] = polling[q] /\ due'[q] = due[q]
  BY <1>1, <1>7 DEF TurnsTyped
<1>10. accepted[f] # {} /\ ~settled[f]
  BY <1>1, <1>3, <1>4 DEF Scheduled
<1>11. Asking(f)'
  <2>1. \A p \in polling'[f] : p.at = clock
    BY <1>8
  <2>2. clock <= clock /\ clock <= clock + PollTime
    BY <1>2
  <2>3. \A y \in accepted[f] : y <= clock
    BY <1>1 DEF Scheduled
  <2>4. polling'[f] # {}
    BY <1>8
  <2> QED BY <1>7, <1>10, <2>1, <2>2, <2>3, <2>4 DEF Asking, world
<1>12. ASSUME NEW q \in Nodes \ {f} PROVE Behind(f, q)'
  <2> SUFFICES ASSUME NEW x \in due[q]
               PROVE  x >= ExpiresAt \/ x > clock + PollTime
    <3>1. \A p \in polling'[f] : p.at = clock
      BY <1>8
    <3> QED BY <1>8, <1>9, <3>1 DEF Behind
  <2>1. Behind(f, q)
    BY DEF Calm
  <2>2. polling[f] = {}
    BY <1>3, <1>4
  <2> QED BY <1>3, <1>4, <1>5, <1>6, <1>10, <2>1, <2>2 DEF Behind
<1>13. Alone' /\ Together(f)'
  BY <1>7 DEF Calm, Alone, Together, Everyone, world
<1>14. OnlyAsks(f)'
  BY <1>7, <1>9 DEF Calm, OnlyAsks, world
<1>15. Telling(f)'
  BY <1>6, <1>7 DEF Telling
<1> QED BY <1>11, <1>12, <1>13, <1>14, <1>15 DEF Calm

\* When the first one's poll ends, everybody has taken the payment on, and no other
\* turn has come.
LEMMA FirstEnds ==
    ASSUME LineInv, Quiet, Brisk, NEW f \in Nodes, Calm(f), NEW n \in Nodes, Ends(n)
    PROVE  /\ n = f /\ net = {} /\ Everyone /\ ~settled[f] /\ polling[f] # {}
           /\ ~(\A t \in accepted[f] : t = clock)
           /\ \A q \in Nodes \ {f} : \A x \in due[q] : x > clock
<1>1. PICK p \in polling[n] : clock >= p.at + PollAtLeast
  BY DEF Ends, Began
<1>2. n = f
  BY <1>1 DEF Calm, OnlyAsks
<1>3. p.at \in Nat /\ clock \in Nat /\ PollAtLeast \in Nat /\ PollAtLeast > 0
  BY <1>1 DEF LineInv, TurnsTyped, Brisk
<1>4. accepted[f] # {} /\ ~settled[f] /\ \A t \in accepted[f] : t <= p.at
  BY <1>1, <1>2 DEF Calm, Asking
<1>5. ~(\A t \in accepted[f] : t = clock)
  BY <1>1, <1>3, <1>4
<1>6. Everyone
  BY <1>5 DEF Calm, Together
<1>7. net = {}
  BY <1>1, <1>2 DEF Calm, Telling
<1>8. \A q \in Nodes \ {f} : \A x \in due[q] : x > clock
  BY OthersWait
<1> QED BY <1>1, <1>2, <1>4, <1>5, <1>6, <1>7, <1>8

\* The first one was told not yet: the others are told its next turn.
LEMMA FirstAnswers ==
    ASSUME LineInv, Quiet, Brisk, NEW f \in Nodes, First(f), Calm(f),
           NEW n \in Nodes, NEW gap \in Gaps, Answer(n, gap)
    PROVE  Calm(f)'
<1>1. LineInv /\ TurnsTyped /\ Scheduled /\ clock \in Nat /\ clock < ExpiresAt
  BY DEF LineInv, TurnsTyped, Quiet
<1>2. /\ n = f /\ net = {} /\ Everyone /\ ~settled[f] /\ polling[f] # {}
      /\ ~(\A t \in accepted[f] : t = clock)
      /\ \A q \in Nodes \ {f} : \A x \in due[q] : x > clock
  BY FirstEnds DEF Answer
<1>3. PICK t \in Nat : NextDue(gap) = {t} /\ NextTurn(t)
  BY <1>1, NextDueIs
<1>4. /\ polling' = [polling EXCEPT ![f] = {}]
      /\ due' = Postponed(f, {t})
      /\ net' = net \cup {Polled(f, q, {t}) : q \in peers[f] \ dead}
      /\ UNCHANGED <<world, row, accepted, since, settled>>
  BY <1>2, <1>3 DEF Answer
<1>5. row[f]
  BY <1>1, <1>2 DEF Scheduled, Everyone
<1>6. due'[f] = {t} /\ \A q \in Nodes \ {f} : due'[q] = due[q]
  <2>1. /\ \A q \in Nodes : q # f => due'[q] = due[q]
        /\ due'[f] = {Turn(f, u, Less(u, clock), peers[f]) : u \in {t}}
    BY <1>1, <1>4, <1>5, PostponedIs
  <2>2. Turn(f, t, Less(t, clock), peers[f]) = t
    <3>1. Less(t, clock) \in Nat /\ peers[f] \in SUBSET Nodes
      BY <1>1 DEF Less, TurnsTyped
    <3> QED BY <3>1, TurnIs
  <2> QED BY <2>1, <2>2
<1>7. polling'[f] = {} /\ \A q \in Nodes \ {f} : polling'[q] = polling[q]
  BY <1>1, <1>4 DEF TurnsTyped
<1>8. peers[f] \ dead = Nodes \ {f}
  BY DEF Calm, Alone
<1>9. net' = {Polled(f, q, {t}) : q \in Nodes \ {f}}
  BY <1>2, <1>4, <1>8
<1>10. UNCHANGED <<clock, peers, dead>>
  BY <1>4 DEF world
<1>11. Telling(f)'
  <2> SUFFICES ASSUME NEW m \in net'
               PROVE  /\ m.kind = "polled" /\ m.from = f /\ m.to # f /\ m.sent = clock
                      /\ m.next = {t}
    BY <1>2, <1>3, <1>4, <1>6, <1>7, <1>10 DEF Telling, Everyone, NextTurn
  <2> QED BY <1>9 DEF Polled
<1>12. Asking(f)'
  <2>1. clock <= t
    BY <1>1, <1>3 DEF NextTurn
  <2> QED BY <1>2, <1>4, <1>6, <1>7, <1>10, <2>1 DEF Asking
<1>13. ASSUME NEW q \in Nodes \ {f} PROVE Behind(f, q)'
  <2>1. Polled(f, q, {t}) \in net' /\ Polled(f, q, {t}).to = q
    BY <1>9 DEF Polled
  <2>2. \A x \in due'[q] : x > clock'
    BY <1>2, <1>6, <1>10
  <2> QED BY <2>1, <2>2 DEF Behind
<1>14. Alone' /\ Together(f)'
  BY <1>2, <1>4, <1>10 DEF Calm, Alone, Together, Everyone
<1>15. OnlyAsks(f)'
  BY <1>4, <1>7 DEF Calm, OnlyAsks
<1> QED BY <1>11, <1>12, <1>13, <1>14, <1>15 DEF Calm

\* The first one found the payment paid: the others hear of it before they are due.
LEMMA FirstFinds ==
    ASSUME LineInv, Quiet, Brisk, NEW f \in Nodes, Calm(f), NEW n \in Nodes, Find(n)
    PROVE  Calm(f)'
<1>1. TurnsTyped
  BY DEF LineInv
<1>2. /\ n = f /\ net = {} /\ Everyone
      /\ \A q \in Nodes \ {f} : \A x \in due[q] : x > clock
  BY FirstEnds DEF Find
<1>3. /\ polling' = [polling EXCEPT ![f] = {}]
      /\ settled' = [settled EXCEPT ![f] = TRUE]
      /\ due' = [due EXCEPT ![f] = {}]
      /\ UNCHANGED <<world, accepted, since, net>>
  BY <1>2 DEF Find
<1>4. /\ polling'[f] = {} /\ due'[f] = {} /\ settled'[f]
      /\ \A q \in Nodes \ {f} : polling'[q] = polling[q] /\ due'[q] = due[q] /\ (settled'[q] <=> settled[q])
  BY <1>1, <1>3 DEF TurnsTyped
<1>5. UNCHANGED <<clock, peers, dead>>
  BY <1>3 DEF world
<1>6. \A q \in Nodes \ {f} : Behind(f, q)'
  BY <1>2, <1>4, <1>5 DEF Behind
<1>7. Alone' /\ Together(f)'
  BY <1>2, <1>3, <1>5 DEF Calm, Alone, Together, Everyone
<1>8. OnlyAsks(f)'
  BY <1>4 DEF Calm, OnlyAsks
<1>9. Asking(f)' /\ Telling(f)'
  BY <1>2, <1>3, <1>4 DEF Asking, Telling
<1> QED BY <1>6, <1>7, <1>8, <1>9 DEF Calm

\* Another hears that the payment is settled.
LEMMA OtherHears ==
    ASSUME LineInv, NEW f \in Nodes, Calm(f), NEW n \in Nodes, NEW q \in Nodes, Hear(n, q)
    PROVE  Calm(f)'
<1>1. TurnsTyped
  BY DEF LineInv
<1>2. n # f /\ settled[f]
  BY DEF Hear, Calm, OnlyAsks
<1>3. /\ settled' = [settled EXCEPT ![n] = TRUE]
      /\ due' = [due EXCEPT ![n] = {}]
      /\ UNCHANGED <<world, accepted, since, polling, net>>
  BY DEF Hear
<1>4. /\ due'[n] = {} /\ settled'[n] /\ due'[f] = due[f] /\ settled'[f]
      /\ \A r \in Nodes \ {n} : due'[r] = due[r] /\ (settled'[r] <=> settled[r])
  BY <1>1, <1>2, <1>3 DEF TurnsTyped
<1>5. UNCHANGED <<clock, peers, dead>>
  BY <1>3 DEF world
<1>6. ASSUME NEW r \in Nodes \ {f} PROVE Behind(f, r)'
  <2>1. CASE r = n
    BY <1>4, <2>1 DEF Behind
  <2>2. CASE r # n
    <3>1. Behind(f, r) /\ due'[r] = due[r]
      BY <1>4, <2>2 DEF Calm
    <3> QED BY <1>2, <1>3, <1>4, <1>5, <3>1 DEF Behind
  <2> QED BY <2>1, <2>2
<1>7. Alone' /\ Together(f)' /\ OnlyAsks(f)'
  BY <1>2, <1>3, <1>4, <1>5 DEF Calm, Alone, Together, Everyone, OnlyAsks
<1>8. Telling(f)' /\ Asking(f)'
  <2>1. net = {} /\ polling[f] = {}
    BY <1>2 DEF Calm, Telling, Asking
  <2> QED BY <1>3, <1>4, <1>5, <2>1 DEF Calm, Telling, Asking
<1> QED BY <1>6, <1>7, <1>8 DEF Calm

\* One of them takes the payment on, the first one at once and another a wait later.
LEMMA OneTakesItOn ==
    ASSUME LineInv, NEW f \in Nodes, Calm(f), NEW n \in Nodes, NEW x \in Nat,
           accepted[n] = {}, accepted' = [accepted EXCEPT ![n] = {clock}],
           due' = [due EXCEPT ![n] = {x}],
           UNCHANGED <<world, polling, settled, net>>,
           n = f => x = clock, n # f => x > clock + PollTime
    PROVE  Calm(f)'
<1>1. TurnsTyped /\ Scheduled /\ clock \in Nat /\ PollTime \in Nat
  BY DEF LineInv, TurnsTyped
<1>2. ~Everyone /\ ~settled[f] /\ net = {} /\ \A q \in Nodes : \A t \in accepted[q] : t = clock
  BY DEF Calm, Together, Telling, Everyone
<1>3. /\ accepted'[n] = {clock} /\ due'[n] = {x}
      /\ \A q \in Nodes \ {n} : accepted'[q] = accepted[q] /\ due'[q] = due[q]
  BY <1>1 DEF TurnsTyped
<1>4. UNCHANGED <<clock, peers, dead>>
  BY DEF world
<1>5. polling[f] # {} => accepted[f] # {}
  BY DEF Calm, Asking
<1>6. Together(f)'
  BY <1>2, <1>3, <1>4 DEF Together
<1>7. Asking(f)'
  <2>1. CASE n = f
    <3>1. polling[f] = {} /\ due'[f] = {clock}
      BY <1>3, <1>5, <2>1
    <3>2. clock <= clock
      BY <1>1
    <3> QED BY <1>4, <3>1, <3>2 DEF Asking
  <2>2. CASE n # f
    <3>1. accepted'[f] = accepted[f] /\ due'[f] = due[f]
      BY <1>3, <2>2
    <3> QED BY <1>4, <3>1 DEF Calm, Asking
  <2> QED BY <2>1, <2>2
<1>8. ASSUME NEW q \in Nodes \ {f} PROVE Behind(f, q)'
  <2>1. CASE q = n
    <3>1. n # f /\ x > clock + PollTime /\ accepted'[f] = accepted[f] /\ due'[f] = due[f]
      BY <1>3, <2>1
    <3>2. polling[f] # {} => \A p \in polling[f] : x > p.at + PollTime
      <4> SUFFICES ASSUME NEW p \in polling[f] PROVE x > p.at + PollTime
        OBVIOUS
      <4>1. p.at \in Nat /\ p.at <= clock
        BY <1>1 DEF TurnsTyped, Calm, Asking
      <4> QED BY <1>1, <3>1, <4>1
    <3>3. polling[f] = {} => \A t \in due[f] : x > t + PollTime
      BY <1>2, <3>1 DEF Calm, Asking
    <3> QED BY <1>2, <1>3, <1>4, <2>1, <3>1, <3>2, <3>3 DEF Behind
  <2>2. CASE q # n
    <3>1. due'[q] = due[q] /\ Behind(f, q)
      BY <1>3, <2>2 DEF Calm
    <3>2. CASE n = f
      <4>1. polling[f] = {} /\ accepted[f] = {} /\ due'[f] = {clock} /\ accepted'[f] # {}
        BY <1>3, <1>5, <3>2
      <4> QED BY <1>2, <1>4, <3>1, <4>1 DEF Behind
    <3>3. CASE n # f
      <4>1. due'[f] = due[f] /\ accepted'[f] = accepted[f]
        BY <1>3, <3>3
      <4> QED BY <1>4, <3>1, <4>1 DEF Behind
    <3> QED BY <3>2, <3>3
  <2> QED BY <2>1, <2>2
<1>9. Alone' /\ OnlyAsks(f)' /\ Telling(f)'
  BY <1>2, <1>4 DEF Calm, Alone, OnlyAsks, Telling
<1> QED BY <1>6, <1>7, <1>8, <1>9 DEF Calm

\* Where a turn behind the first one is put.
LEMMA TurnBehind ==
    ASSUME LineInv, Quiet, Brisk, NEW f \in Nodes, First(f), Calm(f), NEW n \in Nodes,
           NEW gap \in Gaps
    PROVE  /\ Turn(n, clock, gap, peers[n]) \in Nat
           /\ n = f => Turn(n, clock, gap, peers[n]) = clock
           /\ n # f => Turn(n, clock, gap, peers[n]) > clock + PollTime
<1>1. clock \in Nat /\ gap \in Nat /\ PollTime \in Nat
  BY DEF LineInv, TurnsTyped
<1>2. peers[n] = Nodes \ {n} /\ peers[n] \in SUBSET Nodes
  BY DEF Calm, Alone
<1>3. ~byAgent /\ Wait(gap) \in Nat /\ Wait(gap) > PollTime
  BY <1>1, WaitOutlasts DEF Quiet, Brisk
<1>4. n # f => ~First(n)
  BY FirstIsOne
<1>5. /\ Turn(n, clock, gap, peers[n]) \in Nat
      /\ First(n) => Turn(n, clock, gap, peers[n]) = clock
      /\ ~First(n) => Turn(n, clock, gap, peers[n]) >= clock + Wait(gap)
  BY <1>1, <1>2, <1>3, TurnIs
<1> QED BY <1>1, <1>3, <1>4, <1>5

LEMMA AcceptIsCalm ==
    ASSUME LineInv, Quiet, Brisk, NEW f \in Nodes, First(f), Calm(f), NEW n \in Nodes, Accept(n)
    PROVE  Calm(f)'
<1>1. ~row[n]
  BY DEF Accept, LineInv, Scheduled
<1>2. due' = [due EXCEPT ![n] = {Turn(n, clock, Eager, peers[n])}]
  BY <1>1 DEF Accept, Schedule
<1>3. Eager \in Gaps
  OBVIOUS
<1> QED BY <1>2, <1>3, TurnBehind, OneTakesItOn DEF Accept

LEMMA CopyIsCalm ==
    ASSUME LineInv, Quiet, Brisk, NEW f \in Nodes, First(f), Calm(f),
           NEW n \in Nodes, NEW q \in Nodes, NEW gap \in Gaps, Copy(n, q, gap)
    PROVE  Calm(f)'
<1>1. accepted[n] = {} /\ UNCHANGED <<world, polling, settled, net>>
  BY DEF Copy
<1>2. \A r \in Nodes : \A t \in accepted[r] : t = clock
  BY <1>1 DEF Calm, Together, Everyone
<1>3. ~settled[n]
  BY <1>1 DEF Calm, Together, Everyone, OnlyAsks
<1>4. ~row[n]
  BY <1>1 DEF LineInv, Scheduled
<1>5. PICK t \in accepted[q] :
        /\ accepted' = [accepted EXCEPT ![n] = {t}]
        /\ IF settled[n] THEN UNCHANGED schedule ELSE Schedule(n, Standby(n, t, gap))
  BY DEF Copy
<1>6. t = clock
  BY <1>2, <1>5
<1>7. clock \in Nat /\ gap \in Nat /\ gap > 0
  BY DEF LineInv, TurnsTyped
<1>8. Standby(n, clock, gap) = Turn(n, clock, gap, peers[n])
  <2>1. clock - clock < gap
    BY <1>7
  <2> QED BY <2>1 DEF Standby
<1>9. due' = [due EXCEPT ![n] = {Turn(n, clock, gap, peers[n])}]
  BY <1>3, <1>4, <1>5, <1>6, <1>8 DEF Schedule
<1> QED BY <1>1, <1>5, <1>6, <1>9, TurnBehind, OneTakesItOn

\* Whoever adopts the first one's next turn stands behind it again.
LEMMA AdoptIsCalm ==
    ASSUME LineInv, Quiet, Brisk, NEW f \in Nodes, First(f), Calm(f), NEW m \in net, Adopt(m)
    PROVE  Calm(f)'
<1> DEFINE n == m.to
<1>1. TurnsTyped /\ Scheduled /\ clock \in Nat /\ PollTime \in Nat /\ ExpiresAt \in Nat
  BY DEF LineInv, TurnsTyped
<1>2. PICK t \in Nat : m.next = {t} /\ due[f] = {t} /\ NextTurn(t)
  BY DEF Calm, Telling
<1>3. n \in Nodes /\ n # f /\ polling[f] = {} /\ ~settled[f] /\ Everyone
  BY <1>1 DEF Calm, Telling, TurnsTyped, Note
<1>4. /\ due' = Postponed(n, {t}) /\ net' = net \ {m}
      /\ UNCHANGED <<world, row, accepted, since, polling, settled>>
  BY <1>2, <1>3 DEF Adopt, Everyone
<1>5. UNCHANGED <<clock, peers, dead>>
  BY <1>4 DEF world
<1>6. /\ \A q \in Nodes : q # n => due'[q] = due[q]
      /\ ~row[n] => due'[n] = due[n]
      /\ row[n] => due'[n] = {Turn(n, u, Less(u, clock), peers[n]) : u \in {t}}
  BY <1>1, <1>3, <1>4, PostponedIs
<1>7. due'[f] = {t}
  BY <1>2, <1>3, <1>6
<1>8. ASSUME NEW x \in due'[n] PROVE x >= ExpiresAt \/ x > t + PollTime
  <2>1. x = Turn(n, t, Less(t, clock), peers[n])
    BY <1>1, <1>3, <1>6, <1>8 DEF Scheduled
  <2> DEFINE gap == Less(t, clock)
  <2>2. gap \in Nat /\ peers[n] = Nodes \ {n} /\ peers[n] \in SUBSET Nodes /\ ~byAgent
    BY <1>1, <1>2, <1>3 DEF Less, Calm, Alone, Quiet
  <2>3. ~First(n)
    BY <1>3, FirstIsOne
  <2> HIDE DEF gap
  <2>4. Wait(gap) \in Nat /\ (PollTime < gap /\ PollTime < Lease => Wait(gap) > PollTime)
    BY <2>2, WaitOutlasts
  <2>5. x \in Nat /\ x >= t + Wait(gap)
    BY <1>3, <2>1, <2>2, <2>3, TurnIs DEF gap
  <2>6. CASE t = ExpiresAt
    BY <1>1, <2>4, <2>5, <2>6
  <2>7. CASE \E g \in Gaps : t = clock + g
    <3>1. PICK g \in Gaps : t = clock + g
      BY <2>7
    <3>2. g \in Nat /\ gap = g
      BY <1>1, <3>1 DEF gap, Less
    <3>3. Wait(gap) > PollTime
      BY <2>4, <3>2 DEF Brisk
    <3> QED BY <1>1, <2>4, <2>5, <3>3
  <2> QED BY <1>2, <2>6, <2>7 DEF NextTurn
<1>9. ASSUME NEW q \in Nodes \ {f} PROVE Behind(f, q)'
  <2>1. CASE q = n
    <3>1. accepted[f] # {}
      BY <1>3 DEF Everyone
    <3> QED BY <1>3, <1>4, <1>7, <1>8, <2>1, <3>1 DEF Behind
  <2>2. CASE q # n
    <3>1. due'[q] = due[q] /\ Behind(f, q) /\ due'[f] = due[f]
      BY <1>2, <1>6, <1>7, <2>2 DEF Calm
    <3>2. (\E k \in net : k.to = q) => \E k \in net' : k.to = q
      BY <1>4, <2>2
    <3> QED BY <1>4, <1>5, <3>1, <3>2 DEF Behind
  <2> QED BY <2>1, <2>2
<1>10. Asking(f)'
  BY <1>2, <1>4, <1>5, <1>7 DEF Calm, Asking
<1>11. Telling(f)'
  <2>1. NextTurn(t)'
    BY <1>2, <1>5 DEF NextTurn
  <2>2. Everyone'
    BY <1>3, <1>4 DEF Everyone
  <2> QED BY <1>2, <1>4, <1>5, <1>7, <2>1, <2>2 DEF Calm, Telling, NextTurn
<1>12. Alone' /\ Together(f)' /\ OnlyAsks(f)'
  BY <1>4, <1>5 DEF Calm, Alone, Together, Everyone, OnlyAsks
<1> QED BY <1>9, <1>10, <1>11, <1>12 DEF Calm

\* A unit passes only when nobody is due, all know the same and all was adopted.
LEMMA ElapseIsCalm ==
    ASSUME LineInv, Quiet, NEW f \in Nodes, Calm(f), Elapse
    PROVE  Calm(f)'
<1>1. TurnsTyped /\ Scheduled /\ clock \in Nat /\ PollTime \in Nat
  BY DEF LineInv, TurnsTyped
<1>2. clock' = clock + 1 /\ UNCHANGED <<peers, dead, accepted, row, due, polling, settled, net>>
  BY DEF Elapse, schedule
<1>3. net = {}
  <2> SUFFICES ASSUME NEW m \in net PROVE FALSE
    OBVIOUS
  <2>1. m.sent = clock /\ clock < m.sent + delay /\ delay = 0
    BY DEF Calm, Telling, Elapse, Quiet
  <2> QED BY <1>1, <2>1
<1>4. \A n, q \in Nodes : n # q => Agree(n, q)
  BY DEF Elapse, Calm, Alone
<1>5. \A n, q \in Nodes : accepted[q] # {} => accepted[n] # {}
  BY <1>4 DEF Agree
<1>6. \A n \in Nodes : settled[f] => settled[n]
  BY <1>4 DEF Agree
<1>7. Together(f)'
  <2>1. CASE Everyone
    BY <1>2, <2>1 DEF Together, Everyone
  <2>2. CASE ~Everyone
    <3>1. \A n \in Nodes : accepted[n] = {}
      BY <1>5, <2>2 DEF Everyone
    <3> QED BY <1>2, <2>2, <3>1 DEF Calm, Together, Everyone
  <2> QED BY <2>1, <2>2
<1>8. Asking(f)'
  <2>1. ASSUME NEW p \in polling[f]
        PROVE  /\ p.at <= clock + 1 /\ clock + 1 <= p.at + PollTime
               /\ accepted[f] # {} /\ ~settled[f]
               /\ \A t \in accepted[f] : t <= p.at
    <3>1. /\ p.at <= clock /\ accepted[f] # {} /\ ~settled[f]
          /\ \A t \in accepted[f] : t <= p.at
      BY DEF Calm, Asking
    <3>2. p.at \in Nat /\ clock < p.at + PollTime
      BY <1>1 DEF TurnsTyped, Elapse
    <3> QED BY <1>1, <3>1, <3>2
  <2>2. ASSUME polling[f] = {}, NEW t \in due[f]
        PROVE  clock + 1 <= t /\ ~(\A x \in accepted[f] : x = clock + 1)
    <3>1. t \in Nat /\ ~(t <= clock)
      BY <1>1, <2>2 DEF TurnsTyped, Elapse, IsDue, Awake, Calm, Alone
    <3>2. PICK x \in accepted[f] : x <= clock
      BY <1>1 DEF Scheduled
    <3>3. x \in Nat
      BY <1>1 DEF TurnsTyped
    <3> QED BY <1>1, <3>1, <3>2, <3>3
  <2> QED BY <1>2, <2>1, <2>2 DEF Asking
<1>9. ASSUME NEW q \in Nodes \ {f} PROVE Behind(f, q)'
  <2> SUFFICES ASSUME NEW x \in due[q]
               PROVE  \/ x >= ExpiresAt
                      \/ polling[f] # {} /\ \A p \in polling[f] : x > p.at + PollTime
                      \/ /\ polling[f] = {} /\ accepted[f] # {} /\ ~settled[f]
                         /\ \A t \in due[f] : x > t + PollTime
    BY <1>2 DEF Behind
  <2>1. Behind(f, q)
    BY DEF Calm
  <2>2. accepted[q] # {} /\ ~settled[q]
    BY <1>1 DEF Scheduled
  <2>3. accepted[f] # {} /\ ~settled[f]
    BY <1>5, <1>6, <2>2
  <2> QED BY <1>3, <2>1, <2>3 DEF Behind
<1>10. Alone' /\ OnlyAsks(f)' /\ Telling(f)'
  BY <1>2, <1>3 DEF Calm, Alone, OnlyAsks, Telling
<1> QED BY <1>7, <1>8, <1>9, <1>10 DEF Calm

\* Nothing that undoes the calm of the past gives it back.
LEMMA QuietBefore ==
    ASSUME TurnsTyped, [TurnsNext]_turnVars, Quiet'
    PROVE  Quiet /\ faults' = faults
<1>1. /\ UNCHANGED <<byAgent, delay>>
      /\ clock' \in {clock, clock + 1}
      /\ faults' \in {faults, faults + 1}
  BY DEF TurnsNext, Accept, Poll, StandAside, Find, Die, Attend, Leave, PutOff, Answer, Miss,
         Hear, Link, Unlink, Copy, Adopt, ComeForward, Pay, Elapse, Faulty, elsewhere, world, turnVars
<1>2. clock \in Nat /\ faults \in Nat /\ ExpiresAt \in Nat
  BY DEF TurnsTyped
<1> QED BY <1>1, <1>2 DEF Quiet

LEMMA StaysCalm ==
    ASSUME Brisk, LineInv, CalmInv, [TurnsNext]_turnVars
    PROVE  CalmInv'
<1> SUFFICES ASSUME Quiet', NEW f \in Nodes, First(f) PROVE Calm(f)'
  BY DEF CalmInv, First
<1>1. Quiet /\ faults' = faults /\ faults \in Nat
  BY QuietBefore DEF LineInv, TurnsTyped
<1>2. Calm(f)
  BY <1>1 DEF CalmInv
<1>3. ~Faulty /\ ~byAgent
  BY <1>1 DEF Faulty, Quiet
<1>4. ASSUME UNCHANGED <<clock, peers, dead, accepted, due, polling, settled, net>> PROVE Calm(f)'
  BY <1>2, <1>4 DEF Calm, Alone, Together, Everyone, OnlyAsks, Asking, Telling, NextTurn, Behind
<1>5. ASSUME NEW n \in Nodes, Accept(n) \/ Poll(n) \/ StandAside(n) \/ Find(n) \/ Die(n) \/ Attend(n) \/ Leave(n)
      PROVE  Calm(f)'
  <2>1. CASE Accept(n)
    BY <1>1, <1>2, <2>1, AcceptIsCalm
  <2>2. CASE Poll(n)
    BY <1>1, <1>2, <2>2, FirstPoll
  <2>3. CASE Find(n)
    BY <1>1, <1>2, <2>3, FirstFinds
  <2> QED BY <1>3, <1>5, <2>1, <2>2, <2>3 DEF StandAside, Die, Attend, Leave
<1>6. ASSUME NEW n \in Nodes, NEW gap \in Gaps, Answer(n, gap) \/ Miss(n, gap)
      PROVE  Calm(f)'
  BY <1>1, <1>2, <1>3, <1>6, FirstAnswers DEF Miss
<1>7. ASSUME NEW n \in Nodes, NEW q \in Nodes, Hear(n, q) \/ Link(n, q) \/ Unlink(n, q)
      PROVE  Calm(f)'
  <2>1. ~Link(n, q)
    BY <1>2 DEF Link, Calm, Alone
  <2> QED BY <1>2, <1>3, <1>7, <2>1, OtherHears DEF Unlink
<1>8. ASSUME NEW n \in Nodes, NEW q \in Nodes, NEW gap \in Gaps, Copy(n, q, gap) PROVE Calm(f)'
  BY <1>1, <1>2, <1>8, CopyIsCalm
<1>9. ASSUME NEW m \in net, Adopt(m) \/ ComeForward(m) PROVE Calm(f)'
  <2>1. ~ComeForward(m)
    BY <1>2 DEF ComeForward, Calm, Telling
  <2> QED BY <1>1, <1>2, <1>9, <2>1, AdoptIsCalm
<1>10. CASE Pay
  BY <1>4, <1>10 DEF Pay, schedule
<1>11. CASE Elapse
  BY <1>1, <1>2, <1>11, ElapseIsCalm
<1>12. CASE UNCHANGED turnVars
  BY <1>4, <1>12 DEF turnVars, world, schedule
<1>13. ASSUME NEW n \in Nodes, NEW busy \in Busy PROVE ~PutOff(n, busy)
  BY <1>3 DEF PutOff
<1> QED BY <1>5, <1>6, <1>7, <1>8, <1>9, <1>10, <1>11, <1>12, <1>13 DEF TurnsNext

LEMMA CalmInit == TurnsInit => CalmInv
<1> SUFFICES ASSUME TurnsInit, NEW f \in Nodes PROVE Calm(f)
  BY DEF CalmInv
<1>1. Alone
  BY DEF TurnsInit, Alone
<1>2. Together(f) /\ OnlyAsks(f) /\ Asking(f) /\ Telling(f)
  BY DEF TurnsInit, Together, OnlyAsks, Asking, Telling
<1>3. \A n \in Nodes \ {f} : Behind(f, n)
  BY DEF TurnsInit, Behind
<1> QED BY <1>1, <1>2, <1>3 DEF Calm

\* While nothing fails only the first in line asks the wallet, for any number of
\* instances, ranks and intervals, if a poll is quicker than every interval: the
\* second's turn is put off by each answer before it comes (Store.turn, polled,
\* standby, onPolled).
THEOREM OnlyTheFirstPolls == ASSUME Brisk PROVE TurnsSpec => []FirstPolls
<1>1. LineInv /\ CalmInv => FirstPolls
  <2> SUFFICES ASSUME LineInv, CalmInv, Quiet, NEW n \in Nodes, polling[n] # {}
               PROVE  Rank(n, peers[n]) = 0
    BY DEF FirstPolls, Quiet
  <2>1. PICK f \in Nodes : First(f)
    BY SomebodyIsFirst
  <2>2. n = f
    BY <2>1 DEF CalmInv, Calm, OnlyAsks
  <2>3. peers[n] \in SUBSET Nodes
    BY DEF LineInv, TurnsTyped
  <2> QED BY <2>1, <2>2, <2>3, RankIs
<1>2. LineInv /\ CalmInv /\ [TurnsNext]_turnVars => CalmInv'
  BY StaysCalm
<1>3. TurnsSpec => []CalmInv
  BY <1>2, CalmInit, AlwaysInLine, PTL DEF TurnsSpec
<1> QED BY <1>1, <1>3, AlwaysInLine, PTL

-----------------------------------------------------------------------------
(* Turns: a paid payment is noticed *)

\* The longest that a turn can be away.
Reach(n) == MaxGap + Behindhand(n)

Dated ==
    /\ paid \in SUBSET Nat /\ attended \in SUBSET Nat /\ since \in [Nodes -> SUBSET Nat]
    /\ \A t \in paid \cup attended : t <= clock
    /\ \A n \in Nodes : /\ \A t \in since[n] : t <= clock
                        /\ since[n] # {} => accepted[n] # {}
    /\ socket \subseteq Nodes /\ dead \subseteq Nodes
    /\ socket # {} => byAgent /\ attended # {}

\* No poll runs out of time, and one that looked in vain looked before the payer paid.
PollsTimed ==
    \A n \in Nodes : \A p \in polling[n] :
        /\ n \notin dead
        /\ p.at <= clock /\ clock <= p.at + PollTime
        /\ ~p.paid => \A t \in paid : p.at <= t

\* So does the note that such a poll sends when it ends.
NotesTimed ==
    \A m \in net : m.kind = "polled" =>
        /\ m.sent <= clock
        /\ \A t \in paid : m.sent <= t + PollTime
        /\ \A x \in m.next : x <= m.sent + MaxGap

\* No turn is further away than the order puts it; the one the agent came to has the
\* turn it stood in line for, or one of its own.
DueSoon ==
    \A n \in Nodes \ dead : polling[n] = {} => \A x \in due[n] :
        /\ x <= clock + Reach(n)
        /\ n \in socket => \A y \in attended : x <= y + Reach(n) \/ x <= clock + MaxGap

LimitInv == Dated /\ PollsTimed /\ NotesTimed /\ DueSoon

\* By T the payment is paid, n has taken it on and the agent has come to it.
Noted(n, T) ==
    /\ paid # {} /\ since[n] # {}
    /\ \A t \in paid \cup since[n] : t <= T
    /\ \A y \in attended : y + Behindhand(n) <= T

\* Some live instance does not count another one as a peer.
Apart == \E n, q \in Nodes \ dead : n # q /\ q \notin peers[n]

\* What one took on, all had by then.
Shared == \A n, q \in Nodes \ dead : \A t \in since[n] : t < clock => \E u \in since[q] : u <= t

\* What the faults cost whoever is next: a first one that killed an instance or parted
\* two has put nobody's turn off.
Cost == IF faults = 1 /\ (dead # {} \/ Apart \/ ~Shared) THEN 0 ELSE faults

Costs == byAgent' = byAgent /\ Cost \in Nat /\ Cost' \in Nat /\ Cost' >= Cost

\* Any two live instances count each other, or a third one counts both.
Meshed ==
    \A n, q \in Nodes \ dead :
        n = q \/ q \in peers[n] \/ \E r \in Nodes \ dead : q \in peers[r] /\ r \in peers[n]

Crowd == \A a, b \in Nodes : \E r \in Nodes : r \notin {a, b}

\* What one fault leaves: one dead instance, or one link that is down at the most.
FewFaults ==
    /\ \A n \in Nodes : accepted[n] # {} => since[n] # {}
    /\ faults = 0 => dead = {} /\ ~Apart
    /\ faults = 1 /\ dead # {} => ~Apart /\ \E k \in Nodes : dead = {k}
    /\ faults = 1 /\ dead = {} =>
          \E a, b \in Nodes : \A n, q \in Nodes : q \in peers[n] \/ n = q \/ {n, q} = {a, b}
    /\ faults = 0 \/ (faults = 1 /\ (dead # {} \/ Crowd)) => Shared

\* A turn after T and one for every fault with a cost: when n begins a poll at the latest.
LateBy(n, T) == T + (1 + Cost) * (TurnWithin(n) + PollTime)

Timely(n, T) ==
    /\ polling[n] = {} => clock <= LateBy(n, T) /\ \A x \in due[n] : x <= LateBy(n, T)
    /\ \A p \in polling[n] : p.at <= LateBy(n, T)

Noticing ==
    clock <= ExpiresAt =>
        \A n \in Able : ~settled[n] => \A T \in Nat : Noted(n, T) => Timely(n, T)

LEMMA ProductUp ==
    ASSUME NEW k \in Nat, NEW w \in Nat, NEW more \in Nat, NEW longer \in Nat, k <= more, w <= longer
    PROVE  k * w \in Nat /\ more * longer \in Nat /\ k * w <= more * longer
<1>1. PICK i \in Nat : more = k + i
  <2>1. more - k \in Nat /\ more = k + (more - k)
    OBVIOUS
  <2> QED BY <2>1
<1>2. PICK j \in Nat : longer = w + j
  <2>1. longer - w \in Nat /\ longer = w + (longer - w)
    OBVIOUS
  <2> QED BY <2>1
<1>3. /\ k * w \in Nat /\ k * j \in Nat /\ i * (w + j) \in Nat
      /\ (k + i) * (w + j) = k * w + k * j + i * (w + j)
  OBVIOUS
<1> QED BY <1>1, <1>2, <1>3

LEMMA WaitUp ==
    ASSUME NEW gap \in Nat, gap <= MaxGap
    PROVE  Wait(gap) \in Nat /\ Wait(MaxGap) \in Nat /\ Wait(gap) <= Wait(MaxGap)
<1> DEFINE own == Max({gap, 1})
           most == Max({MaxGap, 1})
<1>1. MaxGap \in Nat /\ Lease \in Nat
  OBVIOUS
<1>2. own \in Nat /\ most \in Nat /\ own <= most
  BY <1>1, GreatestOfTwo
<1> HIDE DEF own, most
<1>3. /\ Min({own, Lease}) = IF own <= Lease THEN own ELSE Lease
      /\ Min({most, Lease}) = IF most <= Lease THEN most ELSE Lease
  BY <1>1, <1>2, LeastOfTwo
<1> QED BY <1>1, <1>2, <1>3 DEF Wait, own, most

LEMMA RankWithin ==
    ASSUME NEW n \in Nodes, NEW among \in SUBSET Nodes
    PROVE  Rank(n, among) \in Nat /\ Rank(n, Nodes) \in Nat /\ Rank(n, among) <= Rank(n, Nodes)
<1> DEFINE ahead == {q \in among : Standing[q] > Standing[n]}
           all == {q \in Nodes : Standing[q] > Standing[n]}
<1>1. ahead \subseteq all /\ IsFiniteSet(all)
  <2>1. all \in SUBSET Nodes
    OBVIOUS
  <2> QED BY <2>1, FS_Subset, StandingAssumption
<1>2. IsFiniteSet(ahead) /\ Cardinality(ahead) <= Cardinality(all)
  BY <1>1, FS_Subset
<1> QED BY <1>1, <1>2, FS_CardinalityType DEF Rank

\* A turn is at most a wait for every instance ranked ahead away, and on time at the
\* instance that holds the agent's socket.
LEMMA TurnUpTo ==
    ASSUME NEW n \in Nodes, NEW next \in Nat, NEW gap \in Nat, gap <= MaxGap, NEW among \in SUBSET Nodes
    PROVE  /\ Behindhand(n) \in Nat
           /\ Turn(n, next, gap, among) \in Nat
           /\ Turn(n, next, gap, among) <= next + Behindhand(n)
           /\ byAgent /\ n \in socket => Turn(n, next, gap, among) = next
<1> DEFINE k == Rank(n, among)
           w == Wait(gap)
<1>1. k \in Nat /\ w \in Nat /\ Rank(n, Nodes) \in Nat /\ Wait(MaxGap) \in Nat
      /\ k <= Rank(n, Nodes) /\ w <= Wait(MaxGap)
  BY RankWithin, WaitUp
<1>2. Turn(n, next, gap, among) = next + (IF byAgent /\ n \in socket THEN 0 ELSE k * w)
  BY DEF Turn
<1> HIDE DEF k, w
<1>3. k * w \in Nat /\ Behindhand(n) \in Nat /\ k * w <= Behindhand(n)
  BY <1>1, ProductUp DEF Behindhand
<1> QED BY <1>2, <1>3

\* A new turn, at most the longest interval away before the order adds its waits.
Fresh(n, x) ==
    /\ x \in Nat /\ x <= clock + Reach(n)
    /\ byAgent /\ n \in socket => x <= clock + MaxGap

LEMMA FreshTurn ==
    ASSUME clock \in Nat, NEW n \in Nodes, NEW next \in Nat, next <= clock + MaxGap,
           NEW gap \in Nat, gap <= MaxGap, NEW among \in SUBSET Nodes
    PROVE  Fresh(n, Turn(n, next, gap, among))
<1>1. MaxGap \in Nat
  OBVIOUS
<1> QED BY <1>1, TurnUpTo DEF Fresh, Reach

LEMMA FreshPostponed ==
    ASSUME LineInv, NEW n \in Nodes, NEW next \in SUBSET Nat, \A t \in next : t <= clock + MaxGap
    PROVE  \A x \in Postponed(n, next)[n] : Fresh(n, x)
<1>1. /\ ~row[n] => Postponed(n, next)[n] = due[n]
      /\ row[n] => Postponed(n, next)[n] = {Turn(n, t, Less(t, clock), peers[n]) : t \in next}
  BY PostponedIs DEF LineInv
<1>2. ~row[n] => Postponed(n, next)[n] = {}
  BY <1>1 DEF LineInv, Scheduled
<1>3. ASSUME NEW t \in next PROVE Fresh(n, Turn(n, t, Less(t, clock), peers[n]))
  <2>1. t \in Nat /\ clock \in Nat /\ peers[n] \in SUBSET Nodes /\ MaxGap \in Nat
    BY DEF LineInv, TurnsTyped
  <2>2. Less(t, clock) \in Nat /\ Less(t, clock) <= MaxGap
    BY <2>1 DEF Less
  <2> QED BY <2>1, <2>2, FreshTurn
<1> QED BY <1>1, <1>2, <1>3

\* nextDue is at most the longest interval away.
LEMMA NextDueUpTo ==
    ASSUME NEW gap \in Gaps, clock \in Nat
    PROVE  NextDue(gap) \in SUBSET Nat /\ \A t \in NextDue(gap) : t <= clock + MaxGap
<1>1. gap \in 1..MaxGap /\ MaxGap \in Nat
  BY GapsAssumption
<1>2. ExpiresAt \in Nat
  BY GapsAssumption
<1> DEFINE t == Min({clock + gap, ExpiresAt})
<1>3. clock + gap \in Nat
  BY <1>1
<1>4. t = IF clock + gap <= ExpiresAt THEN clock + gap ELSE ExpiresAt
  BY <1>2, <1>3, LeastOfTwo
<1>5. NextDue(gap) = IF clock >= ExpiresAt THEN {} ELSE {t}
  BY DEF NextDue
<1> HIDE DEF t
<1>6. t \in Nat /\ (~(clock >= ExpiresAt) => t <= clock + MaxGap)
  BY <1>1, <1>2, <1>4
<1> QED BY <1>5, <1>6

\* A step at one instance that gives it fresh turns.
LEMMA StaysDueSoon ==
    ASSUME DueSoon, NEW n \in Nodes, \A q \in Nodes : q # n => due'[q] = due[q] /\ polling'[q] = polling[q],
           \A x \in due'[n] : Fresh(n, x), Dated, UNCHANGED <<clock, socket, attended, dead>>
    PROVE  DueSoon'
<1> SUFFICES ASSUME NEW q \in Nodes \ dead, polling'[q] = {}, NEW x \in due'[q]
             PROVE  /\ x <= clock + Reach(q)
                    /\ q \in socket => \A y \in attended : x <= y + Reach(q) \/ x <= clock + MaxGap
  BY DEF DueSoon, Reach, Behindhand
<1>1. CASE q = n
  BY <1>1 DEF Fresh, Dated
<1>2. CASE q # n
  BY <1>2 DEF DueSoon
<1> QED BY <1>1, <1>2

\* What taking the payment on does to the schedule.
LEMMA AcceptIs ==
    ASSUME LineInv, NEW n \in Nodes, Accept(n)
    PROVE  /\ \A q \in Nodes : q # n => due'[q] = due[q]
           /\ \A x \in due'[n] : Fresh(n, x)
<1>1. TurnsTyped /\ ~row[n] /\ clock \in Nat /\ peers[n] \in SUBSET Nodes
  BY DEF Accept, LineInv, Scheduled, TurnsTyped
<1>2. Eager \in 1..MaxGap /\ MaxGap \in Nat
  BY GapsAssumption
<1>3. Fresh(n, Turn(n, clock, Eager, peers[n])) /\ Turn(n, clock, Eager, peers[n]) \in Nat
  <2>1. clock <= clock + MaxGap /\ Eager \in Nat /\ Eager <= MaxGap
    BY <1>1, <1>2
  <2> QED BY <1>1, <2>1, FreshTurn, TurnUpTo
<1>4. /\ \A q \in Nodes : q # n => due'[q] = due[q]
      /\ due'[n] = {Turn(n, clock, Eager, peers[n])}
  <2>1. Schedule(n, Turn(n, clock, Eager, peers[n]))
    BY DEF Accept
  <2> QED BY <1>1, <1>3, <2>1, ScheduleIs
<1> QED BY <1>3, <1>4

LEMMA CopyIs ==
    ASSUME LineInv, NEW n \in Nodes, NEW q \in Nodes, NEW gap \in Gaps, Copy(n, q, gap)
    PROVE  /\ \A r \in Nodes : r # n => due'[r] = due[r]
           /\ \A x \in due'[n] : Fresh(n, x)
<1>1. TurnsTyped /\ Scheduled /\ accepted[n] = {} /\ clock \in Nat /\ peers[n] \in SUBSET Nodes
  BY DEF Copy, LineInv, TurnsTyped
<1>2. PICK t \in accepted[q] : IF settled[n] THEN UNCHANGED schedule ELSE Schedule(n, Standby(n, t, gap))
  BY DEF Copy
<1>3. t \in Nat /\ t <= clock
  BY <1>1 DEF TurnsTyped, Scheduled
<1>4. gap \in 1..MaxGap /\ MaxGap \in Nat
  BY GapsAssumption
<1>5. Fresh(n, Standby(n, t, gap)) /\ Standby(n, t, gap) \in Nat
  <2> DEFINE next == IF clock - t < gap THEN t ELSE clock + gap
  <2>1. next \in Nat /\ next <= clock + MaxGap /\ gap \in Nat /\ gap <= MaxGap
    BY <1>1, <1>3, <1>4
  <2> HIDE DEF next
  <2>2. Standby(n, t, gap) = Turn(n, next, gap, peers[n])
    BY DEF Standby, next
  <2> QED BY <1>1, <2>1, <2>2, FreshTurn, TurnUpTo
<1>6. ~row[n] /\ due[n] = {}
  BY <1>1 DEF Scheduled
<1>7. CASE settled[n]
  BY <1>2, <1>6, <1>7 DEF schedule
<1>8. CASE ~settled[n]
  <2>1. /\ \A r \in Nodes : r # n => due'[r] = due[r]
        /\ due'[n] = {Standby(n, t, gap)}
    <3>1. Schedule(n, Standby(n, t, gap))
      BY <1>2, <1>8
    <3> QED BY <1>1, <1>5, <1>6, <3>1, ScheduleIs
  <2> QED BY <1>5, <2>1
<1> QED BY <1>7, <1>8

LEMMA TakesItOn ==
    ASSUME LineInv, LimitInv, NEW n \in Nodes, NEW t, accepted' = [accepted EXCEPT ![n] = {t}],
           since' = [since EXCEPT ![n] = {clock}],
           \A q \in Nodes : q # n => due'[q] = due[q], \A x \in due'[n] : Fresh(n, x),
           UNCHANGED <<world, polling, settled, net>>
    PROVE  LimitInv'
<1>1. TurnsTyped /\ Dated /\ clock \in Nat
  BY DEF LineInv, LimitInv, TurnsTyped
<1>2. since' \in [Nodes -> SUBSET Nat]
  BY <1>1 DEF Dated
<1>3. /\ since'[n] = {clock} /\ accepted'[n] = {t}
      /\ \A q \in Nodes : q # n => since'[q] = since[q] /\ accepted'[q] = accepted[q]
  BY <1>1 DEF Dated, TurnsTyped
<1>4. UNCHANGED <<clock, paid, attended, socket, dead, byAgent>>
  BY DEF world
<1>5. clock <= clock
  BY <1>1
<1>6. Dated'
  BY <1>1, <1>2, <1>3, <1>4, <1>5 DEF Dated
<1>7. DueSoon'
  BY <1>1, <1>4, StaysDueSoon DEF LimitInv
<1>8. PollsTimed' /\ NotesTimed'
  BY <1>4 DEF LimitInv, PollsTimed, NotesTimed
<1> QED BY <1>6, <1>7, <1>8 DEF LimitInv

\* A poll that ends, or a turn put off, gives fresh turns; what it sends is told in time.
LEMMA StaysLimitedAt ==
    ASSUME LineInv, LimitInv, NEW n \in Nodes,
           \A q \in Nodes : q # n => due'[q] = due[q] /\ polling'[q] = polling[q],
           \A x \in due'[n] : Fresh(n, x), polling'[n] \subseteq polling[n],
           NotesTimed', UNCHANGED <<byAgent, clock, paid, attended, socket, dead, accepted, since>>
    PROVE  LimitInv'
<1>1. Dated' /\ DueSoon'
  BY StaysDueSoon DEF LimitInv, Dated
<1>2. PollsTimed'
  <2> SUFFICES ASSUME NEW q \in Nodes, NEW p \in polling'[q]
               PROVE  /\ q \notin dead
                      /\ p.at <= clock /\ clock <= p.at + PollTime
                      /\ ~p.paid => \A t \in paid : p.at <= t
    BY DEF PollsTimed
  <2>1. p \in polling[q]
    OBVIOUS
  <2> QED BY <2>1 DEF LimitInv, PollsTimed
<1> QED BY <1>1, <1>2 DEF LimitInv

\* A poll that ends looked no longer ago than a poll takes.
LEMMA PollEnds ==
    ASSUME LineInv, LimitInv, NEW n \in Nodes, Ends(n)
    PROVE  \E p \in polling[n] : /\ polling[n] # {} /\ p.at \in Nat
                                 /\ p.at <= clock /\ clock <= p.at + PollTime
<1>1. PICK p \in polling[n] : TRUE
  BY DEF Ends, Began
<1> QED BY <1>1 DEF LineInv, TurnsTyped, LimitInv, PollsTimed

LEMMA AnswerInTime ==
    ASSUME LineInv, LimitInv, NEW n \in Nodes, NEW gap \in Gaps, Answer(n, gap)
    PROVE  clock \in Nat /\ \A t \in paid : clock <= t + PollTime
<1>1. PICK p \in polling[n] : ~p.paid
  BY DEF Answer
<1>2. p.at \in Nat /\ clock \in Nat /\ PollTime \in Nat /\ clock <= p.at + PollTime /\ \A t \in paid : t \in Nat /\ p.at <= t
  BY <1>1 DEF LineInv, TurnsTyped, LimitInv, PollsTimed, Dated
<1> QED BY <1>2

\* Every step keeps turns, polls and notes within their time.
LEMMA StaysLimited == LineInv /\ LimitInv /\ [TurnsNext]_turnVars => LimitInv'
<1> SUFFICES ASSUME LineInv, LimitInv, [TurnsNext]_turnVars PROVE LimitInv'
  OBVIOUS
<1>1. TurnsTyped /\ Scheduled /\ Dated /\ PollsTimed /\ NotesTimed /\ DueSoon
  BY DEF LineInv, LimitInv
<1>2. clock \in Nat /\ PollTime \in Nat /\ MaxGap \in Nat
  BY <1>1 DEF TurnsTyped
<1>3. ASSUME NEW n \in Nodes, Accept(n) PROVE LimitInv'
  BY <1>3, AcceptIs, TakesItOn DEF Accept
<1>4. ASSUME NEW n \in Nodes, NEW q \in Nodes, NEW gap \in Gaps, Copy(n, q, gap) PROVE LimitInv'
  BY <1>4, CopyIs, TakesItOn DEF Copy
<1>5. ASSUME NEW n \in Nodes, NEW q \in Nodes, Hear(n, q) PROVE LimitInv'
  <2>1. due'[n] = {} /\ \A r \in Nodes : r # n => due'[r] = due[r]
    BY <1>1, <1>5 DEF Hear, TurnsTyped
  <2>2. NotesTimed'
    BY <1>1, <1>5 DEF Hear, NotesTimed, world
  <2> QED BY <1>5, <2>1, <2>2, StaysLimitedAt DEF Hear, world
<1>6. ASSUME NEW n \in Nodes, Poll(n) PROVE LimitInv'
  <2> DEFINE p == [at |-> clock, paid |-> paid # {}]
  <2>1. /\ polling'[n] = {p} /\ n \notin dead
        /\ \A q \in Nodes : q # n => polling'[q] = polling[q] /\ due'[q] = due[q]
    BY <1>1, <1>6 DEF Poll, IsDue, Awake, TurnsTyped
  <2>2. UNCHANGED <<byAgent, clock, paid, attended, socket, dead, accepted, since, net>>
    BY <1>6 DEF Poll, world
  <2>3. p.at = clock /\ (~p.paid => paid = {})
    OBVIOUS
  <2> HIDE DEF p
  <2>4. PollsTimed'
    <3> SUFFICES ASSUME NEW q \in Nodes, NEW r \in polling'[q]
                 PROVE  /\ q \notin dead
                        /\ r.at <= clock /\ clock <= r.at + PollTime
                        /\ ~r.paid => \A t \in paid : r.at <= t
      BY <2>2 DEF PollsTimed
    <3>1. CASE q = n
      BY <1>2, <2>1, <2>3, <3>1
    <3>2. CASE q # n
      BY <1>1, <2>1, <3>2 DEF PollsTimed
    <3> QED BY <3>1, <3>2
  <2>5. DueSoon'
    BY <1>1, <2>1, <2>2 DEF DueSoon, Reach, Behindhand
  <2>6. Dated' /\ NotesTimed'
    BY <1>1, <2>2 DEF Dated, NotesTimed
  <2> QED BY <2>4, <2>5, <2>6 DEF LimitInv
<1>7. ASSUME NEW n \in Nodes, StandAside(n) PROVE LimitInv'
  <2>0. PICK gap \in Gaps : due' = Postponed(n, NextDue(gap))
    BY <1>7 DEF StandAside
  <2>1. NextDue(gap) \in SUBSET Nat /\ \A t \in NextDue(gap) : t <= clock + MaxGap
    BY <1>2, NextDueUpTo, GapsAssumption
  <2>2. /\ \A x \in due'[n] : Fresh(n, x)
        /\ \A q \in Nodes : q # n => due'[q] = due[q]
    BY <1>1, <2>0, <2>1, FreshPostponed, PostponedIs
  <2>3. NotesTimed'
    BY <1>1, <1>7 DEF StandAside, NotesTimed, world
  <2> QED BY <1>7, <2>2, <2>3, StaysLimitedAt DEF StandAside, world
<1>8. ASSUME NEW n \in Nodes, NEW busy \in Busy, PutOff(n, busy) PROVE LimitInv'
  <2>1. {clock + busy} \in SUBSET Nat /\ \A t \in {clock + busy} : t <= clock + MaxGap
    <3>1. busy \in 1..MaxGap
      BY GapsAssumption
    <3> QED BY <1>2, <3>1
  <2>2. /\ \A x \in due'[n] : Fresh(n, x)
        /\ \A q \in Nodes : q # n => due'[q] = due[q]
    BY <1>1, <1>8, <2>1, FreshPostponed, PostponedIs DEF PutOff
  <2>3. NotesTimed'
    BY <1>1, <1>8 DEF PutOff, NotesTimed, elsewhere
  <2> QED BY <1>8, <2>2, <2>3, StaysLimitedAt DEF PutOff, elsewhere
<1>9. ASSUME NEW n \in Nodes, NEW gap \in Gaps, Answer(n, gap) PROVE LimitInv'
  <2>1. NextDue(gap) \in SUBSET Nat /\ \A t \in NextDue(gap) : t <= clock + MaxGap
    BY <1>2, NextDueUpTo
  <2>2. /\ \A x \in due'[n] : Fresh(n, x)
        /\ \A q \in Nodes : q # n => due'[q] = due[q]
    BY <1>1, <1>9, <2>1, FreshPostponed, PostponedIs DEF Answer
  <2>3. polling'[n] = {} /\ \A q \in Nodes : q # n => polling'[q] = polling[q]
    BY <1>1, <1>9 DEF Answer, TurnsTyped
  <2>4. NotesTimed'
    <3> SUFFICES ASSUME NEW m \in net', m.kind = "polled"
                 PROVE  /\ m.sent <= clock
                        /\ \A t \in paid : m.sent <= t + PollTime
                        /\ \A x \in m.next : x <= m.sent + MaxGap
      BY <1>9 DEF Answer, NotesTimed, world
    <3>1. CASE m \in net
      BY <1>1, <3>1 DEF NotesTimed
    <3>2. CASE m \notin net
      <4>1. m.sent = clock /\ m.next = NextDue(gap)
        BY <1>9, <3>2 DEF Answer, Polled
      <4>2. \A t \in paid : clock <= t + PollTime
        BY <1>9, AnswerInTime
      <4> QED BY <1>2, <2>1, <4>1, <4>2
    <3> QED BY <3>1, <3>2
  <2> QED BY <1>9, <2>2, <2>3, <2>4, StaysLimitedAt DEF Answer, world
<1>10. ASSUME NEW n \in Nodes, NEW gap \in Gaps, Miss(n, gap) PROVE LimitInv'
  <2>1. NextDue(gap) \in SUBSET Nat /\ \A t \in NextDue(gap) : t <= clock + MaxGap
    BY <1>2, NextDueUpTo
  <2>2. /\ \A x \in due'[n] : Fresh(n, x)
        /\ \A q \in Nodes : q # n => due'[q] = due[q]
    BY <1>1, <1>10, <2>1, FreshPostponed, PostponedIs DEF Miss
  <2>3. polling'[n] = {} /\ \A q \in Nodes : q # n => polling'[q] = polling[q]
    BY <1>1, <1>10 DEF Miss, TurnsTyped
  <2>4. NotesTimed'
    BY <1>1, <1>10 DEF Miss, Missed, NotesTimed, elsewhere
  <2> QED BY <1>10, <2>2, <2>3, <2>4, StaysLimitedAt DEF Miss, elsewhere
<1>11. ASSUME NEW n \in Nodes, Find(n) PROVE LimitInv'
  <2>1. /\ polling'[n] = {} /\ due'[n] = {}
        /\ \A q \in Nodes : q # n => polling'[q] = polling[q] /\ due'[q] = due[q]
    BY <1>1, <1>11 DEF Find, TurnsTyped
  <2>2. NotesTimed'
    BY <1>1, <1>11 DEF Find, NotesTimed, world
  <2> QED BY <1>11, <2>1, <2>2, StaysLimitedAt DEF Find, world
<1>12. ASSUME NEW m \in net, Adopt(m) PROVE LimitInv'
  <2> DEFINE n == m.to
  <2>1. /\ n \in Nodes /\ m.next \in SUBSET Nat /\ m.sent \in Nat /\ m.kind = "polled"
        /\ due' = IF accepted[n] # {} THEN Postponed(n, m.next) ELSE due
        /\ net' = net \ {m} /\ UNCHANGED <<world, accepted, since, polling>>
    BY <1>1, <1>12 DEF Adopt, TurnsTyped, Note
  <2>2. \A t \in m.next : t <= clock + MaxGap
    BY <1>1, <1>2, <2>1 DEF NotesTimed
  <2>3. accepted[n] = {} => due[n] = {}
    BY <1>1, <2>1 DEF Scheduled
  <2>4. /\ \A x \in due'[n] : Fresh(n, x)
        /\ \A q \in Nodes : q # n => due'[q] = due[q]
    <3>1. CASE accepted[n] # {}
      <4>1. due' = Postponed(n, m.next)
        BY <2>1, <3>1
      <4> QED BY <1>1, <2>1, <2>2, <4>1, FreshPostponed, PostponedIs
    <3>2. CASE accepted[n] = {}
      <4>1. due' = due
        BY <2>1, <3>2
      <4> QED BY <2>3, <3>2, <4>1
    <3> QED BY <3>1, <3>2
  <2>5. NotesTimed'
    BY <1>1, <2>1 DEF NotesTimed, world
  <2> QED BY <2>1, <2>4, <2>5, StaysLimitedAt DEF world
<1>13. ASSUME NEW m \in net, ComeForward(m) PROVE LimitInv'
  <2> DEFINE n == m.to
             sooner == Turn(n, clock, Eager, peers[n] \ {m.from})
             forward == {Min({t, sooner}) : t \in due[n]}
  <2>1. /\ n \in Nodes /\ net' = net \ {m} /\ UNCHANGED <<world, accepted, since, polling>>
        /\ due' = [due EXCEPT ![n] = forward]
    BY <1>1, <1>13 DEF ComeForward, TurnsTyped, Note
  <2>2. sooner \in Nat
    <3>1. peers[n] \ {m.from} \in SUBSET Nodes
      BY <1>1, <2>1 DEF TurnsTyped
    <3> QED BY <1>2, <2>1, <3>1, TurnIs
  <2> HIDE DEF sooner
  <2>3. due[n] \in SUBSET Nat
    BY <1>1, <2>1 DEF TurnsTyped
  <2>4. \A x \in forward : \E t \in due[n] : t \in Nat /\ x \in Nat /\ x <= t
    <3>1. ASSUME NEW t \in due[n] PROVE Min({t, sooner}) \in Nat /\ Min({t, sooner}) <= t /\ t \in Nat
      BY <2>2, <2>3, LeastOfTwo
    <3> QED BY <3>1
  <2> HIDE DEF forward
  <2>5. due'[n] = forward /\ \A q \in Nodes : q # n => due'[q] = due[q]
    BY <1>1, <2>1 DEF TurnsTyped
  <2>6. DueSoon'
    <3> SUFFICES ASSUME NEW q \in Nodes \ dead, polling[q] = {}, NEW x \in due'[q]
                 PROVE  /\ x <= clock + Reach(q)
                        /\ q \in socket => \A y \in attended : x <= y + Reach(q) \/ x <= clock + MaxGap
      BY <2>1 DEF DueSoon, world, Reach, Behindhand
    <3>1. CASE q # n
      BY <1>1, <2>5, <3>1 DEF DueSoon
    <3>2. CASE q = n
      <4>1. PICK t \in due[n] : t \in Nat /\ x \in Nat /\ x <= t
        BY <2>4, <2>5, <3>2
      <4>2. /\ t <= clock + Reach(n)
            /\ n \in socket => \A y \in attended : t <= y + Reach(n) \/ t <= clock + MaxGap
        BY <1>1, <3>2, <4>1 DEF DueSoon
      <4>3. Behindhand(n) \in Nat /\ Reach(n) \in Nat
        <5>1. Behindhand(n) \in Nat
          BY <1>2, <2>1, TurnUpTo, MaxGap <= MaxGap, Nodes \in SUBSET Nodes
        <5> QED BY <1>2, <5>1 DEF Reach
      <4>4. \A y \in attended : y \in Nat
        BY <1>1 DEF Dated
      <4> QED BY <1>2, <3>2, <4>1, <4>2, <4>3, <4>4
    <3> QED BY <3>1, <3>2
  <2>7. Dated' /\ PollsTimed' /\ NotesTimed'
    BY <1>1, <2>1 DEF Dated, PollsTimed, NotesTimed, world
  <2> QED BY <2>6, <2>7 DEF LimitInv
<1>14. ASSUME NEW n \in Nodes, NEW q \in Nodes, Link(n, q) \/ Unlink(n, q) PROVE LimitInv'
  <2>1. /\ UNCHANGED <<byAgent, clock, paid, attended, socket, dead, accepted, since, due, polling>>
        /\ net' \subseteq net
    BY <1>14 DEF Link, Unlink, schedule
  <2> QED BY <1>1, <2>1 DEF LimitInv, Dated, PollsTimed, NotesTimed, DueSoon, Reach, Behindhand
<1>15. ASSUME NEW n \in Nodes, Die(n) PROVE LimitInv'
  <2>1. /\ UNCHANGED <<byAgent, clock, paid, attended, socket, accepted, since, due>>
        /\ dead' = dead \cup {n} /\ net' \subseteq net
        /\ polling'[n] = {} /\ \A q \in Nodes : q # n => polling'[q] = polling[q]
    BY <1>1, <1>15 DEF Die, schedule, TurnsTyped
  <2>2. Dated' /\ NotesTimed'
    BY <1>1, <2>1 DEF Dated, NotesTimed
  <2>3. PollsTimed'
    BY <1>1, <2>1 DEF PollsTimed
  <2>4. DueSoon'
    BY <1>1, <2>1 DEF DueSoon, Reach, Behindhand
  <2> QED BY <2>2, <2>3, <2>4 DEF LimitInv
<1>16. ASSUME NEW n \in Nodes, Attend(n) PROVE LimitInv'
  <2>1. /\ UNCHANGED <<byAgent, clock, paid, dead, accepted, since, due, polling, net>>
        /\ socket' = {n} /\ attended' = {clock} /\ byAgent
    BY <1>16 DEF Attend, schedule
  <2>2. Dated'
    BY <1>1, <1>2, <2>1 DEF Dated
  <2>3. DueSoon'
    BY <1>1, <2>1 DEF DueSoon, Reach, Behindhand
  <2>4. PollsTimed' /\ NotesTimed'
    BY <1>1, <2>1 DEF PollsTimed, NotesTimed
  <2> QED BY <2>2, <2>3, <2>4 DEF LimitInv
<1>17. ASSUME NEW n \in Nodes, Leave(n) PROVE LimitInv'
  <2>1. /\ UNCHANGED <<byAgent, clock, paid, dead, attended, accepted, since, due, polling, net>>
        /\ socket' \subseteq socket
    BY <1>17 DEF Leave, schedule
  <2> QED BY <1>1, <2>1 DEF LimitInv, Dated, PollsTimed, NotesTimed, DueSoon, Reach, Behindhand
<1>18. CASE Pay
  <2>1. /\ UNCHANGED <<byAgent, clock, socket, dead, attended, accepted, since, due, polling, net>>
        /\ paid' = {clock}
    BY <1>18 DEF Pay, schedule
  <2>2. Dated'
    BY <1>1, <1>2, <2>1 DEF Dated
  <2>3. PollsTimed'
    BY <1>1, <2>1 DEF PollsTimed
  <2>4. NotesTimed'
    <3> SUFFICES ASSUME NEW m \in net, m.kind = "polled" PROVE m.sent <= clock + PollTime
      BY <1>1, <2>1 DEF NotesTimed
    <3>1. m.sent \in Nat /\ m.sent <= clock
      BY <1>1 DEF TurnsTyped, Note, NotesTimed
    <3> QED BY <1>2, <3>1
  <2>5. DueSoon'
    BY <1>1, <2>1 DEF DueSoon, Reach, Behindhand
  <2> QED BY <2>2, <2>3, <2>4, <2>5 DEF LimitInv
<1>19. CASE Elapse
  <2>1. /\ UNCHANGED <<byAgent, paid, socket, dead, attended, accepted, since, due, polling, net>>
        /\ clock' = clock + 1
    BY <1>19 DEF Elapse, schedule
  <2>2. \A t \in Nat : t <= clock => t <= clock + 1
    BY <1>2
  <2>3. Dated'
    <3>1. \A t \in paid \cup attended : t \in Nat
      BY <1>1 DEF Dated
    <3>2. \A n \in Nodes : \A t \in since[n] : t \in Nat
      BY <1>1 DEF Dated
    <3> QED BY <1>1, <2>1, <2>2, <3>1, <3>2 DEF Dated
  <2>4. PollsTimed'
    <3> SUFFICES ASSUME NEW n \in Nodes, NEW p \in polling[n]
                 PROVE  p.at <= clock + 1 /\ clock + 1 <= p.at + PollTime
      BY <1>1, <2>1 DEF PollsTimed
    <3>1. p.at \in Nat /\ p.at <= clock /\ clock < p.at + PollTime
      BY <1>1, <1>19 DEF TurnsTyped, PollsTimed, Elapse
    <3> QED BY <1>2, <3>1
  <2>5. NotesTimed'
    <3> SUFFICES ASSUME NEW m \in net, m.kind = "polled" PROVE m.sent <= clock + 1
      BY <1>1, <2>1 DEF NotesTimed
    <3>1. m.sent \in Nat /\ m.sent <= clock
      BY <1>1 DEF TurnsTyped, Note, NotesTimed
    <3> QED BY <1>2, <3>1
  <2>6. DueSoon'
    <3> SUFFICES ASSUME NEW q \in Nodes \ dead, polling[q] = {}, NEW x \in due[q]
                 PROVE  /\ x <= clock + 1 + Reach(q)
                        /\ q \in socket => \A y \in attended : x <= y + Reach(q) \/ x <= clock + 1 + MaxGap
      BY <2>1 DEF DueSoon, Reach, Behindhand
    <3>1. x \in Nat
      BY <1>1 DEF TurnsTyped
    <3>2. Reach(q) \in Nat
      <4>1. Behindhand(q) \in Nat
        BY <1>2, TurnUpTo, MaxGap <= MaxGap, Nodes \in SUBSET Nodes
      <4> QED BY <1>2, <4>1 DEF Reach
    <3>3. /\ x <= clock + Reach(q)
          /\ q \in socket => \A y \in attended : x <= y + Reach(q) \/ x <= clock + MaxGap
      BY <1>1 DEF DueSoon
    <3> QED BY <1>2, <3>1, <3>2, <3>3
  <2> QED BY <2>3, <2>4, <2>5, <2>6 DEF LimitInv
<1>20. CASE UNCHANGED turnVars
  BY <1>1, <1>20 DEF turnVars, world, schedule, LimitInv, Dated, PollsTimed, NotesTimed, DueSoon, Reach, Behindhand
<1> QED
  BY <1>3, <1>4, <1>5, <1>6, <1>7, <1>8, <1>9, <1>10, <1>11, <1>12, <1>13, <1>14, <1>15, <1>16,
     <1>17, <1>18, <1>19, <1>20 DEF TurnsNext

LEMMA LimitInit == TurnsInit => LimitInv
BY DEF TurnsInit, LimitInv, Dated, PollsTimed, NotesTimed, DueSoon

LEMMA AlwaysLimited == TurnsSpec => []LimitInv
BY LimitInit, StaysLimited, AlwaysInLine, PTL DEF TurnsSpec

LEMMA MoreFaults ==
    ASSUME NEW f \in Nat, NEW u \in Nat
    PROVE  (1 + f) * u \in Nat /\ (1 + f) * u >= u /\ (1 + (f + 1)) * u = (1 + f) * u + u
<1>1. f * u \in Nat /\ (1 + f) * u = u + f * u /\ (1 + (f + 1)) * u = u + (u + f * u)
  OBVIOUS
<1> QED BY <1>1

\* What a step can do to the links, the instances and the faults.
Moves ==
    /\ byAgent' = byAgent
    /\ \/ UNCHANGED <<dead, faults>> /\ \A n, q \in Nodes : q \in peers[n] => q \in peers'[n]
       \/ UNCHANGED <<dead, peers>> /\ faults' = faults + 1 /\ \E k \in Nodes : TRUE
       \/ /\ dead' = dead /\ faults' = faults + 1
          /\ \E a, b \in Nodes : \A n, q \in Nodes :
                q \in peers[n] => (q \in peers'[n] \/ {n, q} = {a, b})
       \/ peers' = peers /\ faults' = faults + 1 /\ \E k \in Nodes : dead' = dead \cup {k}

LEMMA StepMoves ==
    ASSUME TurnsTyped, Dated, [TurnsNext]_turnVars
    PROVE  Moves
<1>1. ASSUME NEW n \in Nodes, NEW q \in Nodes, Link(n, q) PROVE Moves
  BY <1>1 DEF Link, Moves, TurnsTyped
<1>2. ASSUME NEW n \in Nodes, NEW q \in Nodes, Unlink(n, q) PROVE Moves
  <2>1. /\ dead' = dead /\ faults' = faults + 1 /\ byAgent' = byAgent
        /\ peers' = [peers EXCEPT ![n] = @ \ {q}, ![q] = @ \ {n}]
    BY <1>2 DEF Unlink, Faulty
  <2>2. \A m, r \in Nodes : r \in peers[m] => r \in peers'[m] \/ {m, r} = {n, q}
    BY <2>1 DEF TurnsTyped
  <2> QED BY <2>1, <2>2 DEF Moves
<1>3. ASSUME NEW n \in Nodes, Die(n) PROVE Moves
  BY <1>3 DEF Die, Faulty, Moves
<1>4. ASSUME NEW n \in Nodes, Leave(n) PROVE Moves
  BY <1>4 DEF Leave, Faulty, Moves
<1>5. ASSUME NEW n \in Nodes, NEW busy \in Busy, PutOff(n, busy) PROVE Moves
  BY <1>5 DEF PutOff, Faulty, elsewhere, Moves
<1>6. ASSUME NEW n \in Nodes, NEW gap \in Gaps, Miss(n, gap) PROVE Moves
  BY <1>6 DEF Miss, Faulty, elsewhere, Moves
<1>7. ASSUME NEW n \in Nodes, Accept(n) \/ Poll(n) \/ StandAside(n) \/ Find(n) \/ Attend(n) PROVE Moves
  BY <1>7 DEF Accept, Poll, StandAside, Find, Attend, world, Moves
<1>8. ASSUME NEW n \in Nodes, NEW gap \in Gaps, Answer(n, gap) PROVE Moves
  BY <1>8 DEF Answer, world, Moves
<1>9. ASSUME NEW n \in Nodes, NEW q \in Nodes, Hear(n, q) PROVE Moves
  BY <1>9 DEF Hear, world, Moves
<1>10. ASSUME NEW n \in Nodes, NEW q \in Nodes, NEW gap \in Gaps, Copy(n, q, gap) PROVE Moves
  BY <1>10 DEF Copy, world, Moves
<1>11. ASSUME NEW m \in net, Adopt(m) \/ ComeForward(m) PROVE Moves
  BY <1>11 DEF Adopt, ComeForward, world, Moves
<1>12. CASE Pay \/ Elapse
  BY <1>12 DEF Pay, Elapse, Moves
<1>13. CASE UNCHANGED turnVars
  BY <1>13 DEF turnVars, world, Moves
<1> QED BY <1>1, <1>2, <1>3, <1>4, <1>5, <1>6, <1>7, <1>8, <1>9, <1>10, <1>11, <1>12, <1>13 DEF TurnsNext

\* What a step can do to who took the payment on, and when.
TakesOn ==
    \/ UNCHANGED <<clock, accepted, since>>
    \/ /\ clock' = clock
       /\ \E n \in Nodes, t \in Nat : /\ accepted[n] = {}
                                      /\ accepted' = [accepted EXCEPT ![n] = {t}]
                                      /\ since' = [since EXCEPT ![n] = {clock}]
    \/ Elapse

LEMMA StepTakesOn ==
    ASSUME TurnsTyped, Dated, [TurnsNext]_turnVars
    PROVE  TakesOn
<1>1. ASSUME NEW n \in Nodes, Accept(n) PROVE TakesOn
  BY <1>1 DEF Accept, world, TakesOn, TurnsTyped
<1>2. ASSUME NEW n \in Nodes, NEW q \in Nodes, NEW gap \in Gaps, Copy(n, q, gap) PROVE TakesOn
  BY <1>2 DEF Copy, world, TakesOn, TurnsTyped
<1>3. ASSUME NEW n \in Nodes,
             Poll(n) \/ StandAside(n) \/ Find(n) \/ Die(n) \/ Attend(n) \/ Leave(n)
      PROVE  UNCHANGED <<clock, accepted, since>>
  BY <1>3 DEF Poll, StandAside, Find, Die, Attend, Leave, world
<1>4. ASSUME NEW n \in Nodes, NEW q \in Nodes, Hear(n, q) \/ Link(n, q) \/ Unlink(n, q)
      PROVE  UNCHANGED <<clock, accepted, since>>
  BY <1>4 DEF Hear, Link, Unlink, world
<1>5. ASSUME NEW n \in Nodes, NEW busy \in Busy, PutOff(n, busy) PROVE UNCHANGED <<clock, accepted, since>>
  BY <1>5 DEF PutOff, elsewhere
<1>6. ASSUME NEW n \in Nodes, NEW gap \in Gaps, Answer(n, gap) \/ Miss(n, gap)
      PROVE  UNCHANGED <<clock, accepted, since>>
  BY <1>6 DEF Answer, Miss, world, elsewhere
<1>7. ASSUME NEW m \in net, Adopt(m) \/ ComeForward(m) PROVE UNCHANGED <<clock, accepted, since>>
  BY <1>7 DEF Adopt, ComeForward, world
<1>8. CASE Pay
  BY <1>8 DEF Pay, TakesOn
<1>9. CASE UNCHANGED turnVars
  BY <1>9 DEF turnVars, world, TakesOn
<1> QED
  BY <1>1, <1>2, <1>3, <1>4, <1>5, <1>6, <1>7, <1>8, <1>9 DEF TurnsNext, TakesOn

\* What is shared stays shared while the live instances reach each other.
LEMMA StaysShared ==
    ASSUME TurnsTyped, Dated, \A n \in Nodes : accepted[n] # {} => since[n] # {},
           Meshed, Shared, TakesOn, dead \subseteq dead'
    PROVE  Shared'
<1> SUFFICES ASSUME NEW n \in Nodes \ dead', NEW q \in Nodes \ dead', NEW t \in since'[n], t < clock'
             PROVE  \E u \in since'[q] : u <= t
  BY DEF Shared
<1>1. n \in Nodes \ dead /\ q \in Nodes \ dead /\ clock \in Nat
  BY DEF TurnsTyped
<1>2. CASE UNCHANGED <<clock, accepted, since>>
  BY <1>1, <1>2 DEF Shared
<1>3. ASSUME clock' = clock, NEW k \in Nodes, accepted[k] = {}, since' = [since EXCEPT ![k] = {clock}]
      PROVE  \E u \in since'[q] : u <= t
  <2>1. since[k] = {} /\ since'[k] = {clock} /\ \A r \in Nodes : r # k => since'[r] = since[r]
    BY <1>3 DEF Dated
  <2>2. n # k
    BY <1>1, <1>3, <2>1
  <2>3. PICK u \in since[q] : u <= t
    BY <1>1, <1>3, <2>1, <2>2 DEF Shared
  <2> QED BY <1>1, <2>1, <2>3
<1>4. CASE Elapse
  <2>1. clock' = clock + 1 /\ since' = since
    BY <1>4 DEF Elapse
  <2>2. t \in since[n] /\ t \in Nat /\ t <= clock
    BY <1>1, <2>1 DEF Dated
  <2>3. CASE t < clock
    BY <1>1, <2>1, <2>2, <2>3 DEF Shared
  <2>4. CASE t = clock
    <3>1. accepted[n] # {}
      BY <1>1, <2>2 DEF Dated
    <3>2. \A a, b \in Nodes \ dead : b \in peers[a] /\ accepted[b] # {} => accepted[a] # {}
      BY <1>4 DEF Elapse, Agree
    <3>3. accepted[q] # {}
      BY <1>1, <3>1, <3>2 DEF Meshed
    <3>4. PICK u \in since[q] : u \in Nat /\ u <= clock
      BY <1>1, <3>3 DEF Dated
    <3> QED BY <2>1, <2>4, <3>4
  <2> QED BY <1>1, <2>2, <2>3, <2>4
<1> QED BY <1>2, <1>3, <1>4 DEF TakesOn

\* One fault leaves the live instances in reach of each other, except where there are
\* only two.
LEMMA InReach ==
    ASSUME FewFaults, faults = 0 \/ (faults = 1 /\ (dead # {} \/ Crowd))
    PROVE  Meshed /\ Shared
<1>1. CASE ~Apart
  BY <1>1 DEF FewFaults, Apart, Meshed
<1>2. CASE Apart
  <2>1. faults = 1 /\ dead = {} /\ Crowd
    BY <1>2 DEF FewFaults
  <2>2. PICK a \in Nodes, b \in Nodes : \A n, q \in Nodes : q \in peers[n] \/ n = q \/ {n, q} = {a, b}
    BY <2>1 DEF FewFaults
  <2>3. ASSUME NEW n \in Nodes, NEW q \in Nodes, n # q, q \notin peers[n]
        PROVE  \E r \in Nodes : q \in peers[r] /\ r \in peers[n]
    <3>1. {n, q} = {a, b}
      BY <2>2, <2>3
    <3>2. PICK r \in Nodes : r \notin {a, b}
      BY <2>1 DEF Crowd
    <3>3. q \in peers[r] /\ r \in peers[n]
      BY <2>2, <3>1, <3>2
    <3> QED BY <3>3
  <2> QED BY <2>1, <2>3 DEF FewFaults, Meshed
<1> QED BY <1>1, <1>2

LEMMA StaysFew ==
    ASSUME LineInv, LimitInv, FewFaults, [TurnsNext]_turnVars
    PROVE  FewFaults'
<1>1. TurnsTyped /\ Dated /\ faults \in Nat
  BY DEF LineInv, LimitInv, TurnsTyped
<1>2. Moves /\ TakesOn
  BY <1>1, StepMoves, StepTakesOn
<1>3. dead \subseteq dead' /\ faults' \in {faults, faults + 1}
  BY <1>2 DEF Moves
<1>4. \A n \in Nodes : accepted'[n] # {} => since'[n] # {}
  <2>1. CASE UNCHANGED <<clock, accepted, since>>
    BY <2>1 DEF FewFaults
  <2>2. ASSUME NEW k \in Nodes, NEW t \in Nat, accepted' = [accepted EXCEPT ![k] = {t}],
               since' = [since EXCEPT ![k] = {clock}]
        PROVE  \A n \in Nodes : accepted'[n] # {} => since'[n] # {}
    <3>1. /\ since'[k] = {clock}
          /\ \A n \in Nodes : n # k => since'[n] = since[n] /\ accepted'[n] = accepted[n]
      BY <1>1, <2>2 DEF TurnsTyped, Dated
    <3> QED BY <3>1 DEF FewFaults
  <2>3. CASE Elapse
    BY <2>3 DEF FewFaults, Elapse
  <2> QED BY <1>2, <2>1, <2>2, <2>3 DEF TakesOn
<1>5. faults' = 0 => dead' = {} /\ ~Apart'
  <2> SUFFICES ASSUME faults' = 0 PROVE dead' = {} /\ ~Apart'
    OBVIOUS
  <2>1. faults = 0 /\ faults' = faults
    BY <1>1, <1>3
  <2>2. dead' = dead /\ \A n, q \in Nodes : q \in peers[n] => q \in peers'[n]
    BY <1>1, <1>2, <2>1 DEF Moves
  <2> QED BY <2>1, <2>2 DEF FewFaults, Apart
<1>6. faults' = 1 => \/ faults = 0 /\ dead = {} /\ ~Apart
                     \/ faults = 1 /\ dead' = dead /\ \A n, q \in Nodes : q \in peers[n] => q \in peers'[n]
  BY <1>1, <1>2 DEF Moves, FewFaults
<1>7. faults' = 1 /\ dead' # {} => ~Apart' /\ \E k \in Nodes : dead' = {k}
  <2> SUFFICES ASSUME faults' = 1, dead' # {} PROVE ~Apart' /\ \E k \in Nodes : dead' = {k}
    OBVIOUS
  <2>1. CASE faults = 1
    BY <1>1, <1>6, <2>1 DEF FewFaults, Apart
  <2>2. CASE faults = 0
    <3>1. dead = {} /\ ~Apart
      BY <1>6, <2>2
    <3>2. peers' = peers /\ \E k \in Nodes : dead' = {k}
      BY <1>2, <2>2, <3>1 DEF Moves
    <3> QED BY <3>1, <3>2 DEF Apart
  <2> QED BY <1>1, <1>6, <2>1, <2>2
<1>8. faults' = 1 /\ dead' = {} =>
         \E a, b \in Nodes : \A n, q \in Nodes : q \in peers'[n] \/ n = q \/ {n, q} = {a, b}
  <2> SUFFICES ASSUME faults' = 1, dead' = {}
               PROVE  \E a, b \in Nodes : \A n, q \in Nodes : q \in peers'[n] \/ n = q \/ {n, q} = {a, b}
    OBVIOUS
  <2>1. CASE faults = 1
    <3>1. dead = {} /\ \A n, q \in Nodes : q \in peers[n] => q \in peers'[n]
      BY <1>1, <1>6, <2>1
    <3>2. PICK a \in Nodes, b \in Nodes : \A n, q \in Nodes : q \in peers[n] \/ n = q \/ {n, q} = {a, b}
      BY <2>1, <3>1 DEF FewFaults
    <3> QED BY <3>1, <3>2
  <2>2. CASE faults = 0
    <3>1. dead = {} /\ \A n, q \in Nodes : q \in peers[n] \/ n = q
      BY <1>6, <2>2 DEF Apart
    <3>2. \E a, b \in Nodes : \A n, q \in Nodes : q \in peers[n] => (q \in peers'[n] \/ {n, q} = {a, b})
      <4>1. ASSUME peers' = peers, NEW k \in Nodes
            PROVE  \E a, b \in Nodes : \A n, q \in Nodes : q \in peers[n] => (q \in peers'[n] \/ {n, q} = {a, b})
        BY <4>1
      <4>2. faults' # faults
        BY <2>2
      <4> QED BY <1>2, <4>1, <4>2 DEF Moves
    <3>3. PICK a \in Nodes, b \in Nodes : \A n, q \in Nodes : q \in peers[n] => (q \in peers'[n] \/ {n, q} = {a, b})
      BY <3>2
    <3> QED BY <3>1, <3>3
  <2> QED BY <1>1, <1>6, <2>1, <2>2
<1>9. faults' = 0 \/ (faults' = 1 /\ (dead' # {} \/ Crowd)) => Shared'
  <2> SUFFICES ASSUME faults' = 0 \/ (faults' = 1 /\ (dead' # {} \/ Crowd)) PROVE Shared'
    OBVIOUS
  <2>1. faults = 0 \/ (faults = 1 /\ (dead # {} \/ Crowd))
    BY <1>1, <1>3, <1>6
  <2> QED BY <1>1, <1>2, <1>3, <2>1, InReach, StaysShared DEF FewFaults
<1> QED BY <1>4, <1>5, <1>7, <1>8, <1>9 DEF FewFaults, Crowd

LEMMA AlwaysFew == TurnsSpec => []FewFaults
<1>1. TurnsInit => FewFaults
  BY DEF TurnsInit, FewFaults, Apart, Shared
<1> QED BY <1>1, StaysFew, AlwaysInLine, AlwaysLimited, PTL DEF TurnsSpec

LEMMA CostIs == TurnsTyped => Cost \in Nat /\ faults \in Nat /\ faults >= Cost
BY DEF TurnsTyped, Cost

\* No step makes the faults so far cheaper.
LEMMA CostOnlyGrows ==
    ASSUME LineInv, LimitInv, FewFaults, [TurnsNext]_turnVars
    PROVE  Costs
<1>1. TurnsTyped /\ Dated /\ faults \in Nat /\ Cost \in Nat
  BY CostIs DEF LineInv, LimitInv, TurnsTyped
<1>2. Moves /\ TakesOn
  BY <1>1, StepMoves, StepTakesOn
<1>3. byAgent' = byAgent /\ dead \subseteq dead' /\ faults' \in {faults, faults + 1}
  BY <1>2 DEF Moves
<1>4. Cost' \in Nat /\ Cost' \in {0, faults'} /\ (faults' # 1 => Cost' = faults')
  BY <1>1, <1>3 DEF Cost
<1>5. Cost \in {0, faults} /\ (faults # 1 => Cost = faults)
  BY DEF Cost
<1>6. CASE faults = 1 /\ faults' = 1 /\ Cost = 1
  <2>1. dead = {} /\ ~Apart /\ Shared
    BY <1>6 DEF Cost
  <2>2. dead' = dead /\ \A n, q \in Nodes : q \in peers[n] => q \in peers'[n]
    BY <1>2, <1>6 DEF Moves
  <2>3. ~Apart' /\ Meshed
    BY <2>1, <2>2 DEF Apart, Meshed
  <2>4. Shared'
    BY <1>1, <1>2, <2>1, <2>2, <2>3, StaysShared DEF FewFaults
  <2>5. Cost' = faults'
    BY <2>1, <2>2, <2>3, <2>4 DEF Cost
  <2> QED BY <1>1, <1>3, <1>4, <1>6, <2>5 DEF Costs
<1>7. CASE ~(faults = 1 /\ faults' = 1 /\ Cost = 1)
  BY <1>1, <1>3, <1>4, <1>5, <1>7 DEF Costs
<1> QED BY <1>6, <1>7

\* A poll that is put off or missed has its cost.
LEMMA CostOfAPoll ==
    ASSUME LineInv, FewFaults, faults' = faults + 1, UNCHANGED <<clock, peers, dead, since>>
    PROVE  Cost' >= Cost + 1
<1>1. faults \in Nat /\ Cost \in {0, faults} /\ (faults # 1 => Cost = faults)
  BY DEF LineInv, TurnsTyped, Cost
<1>2. CASE faults = 0
  <2>1. dead' = {} /\ ~Apart' /\ Shared'
    BY <1>2 DEF FewFaults, Apart, Shared
  <2> QED BY <1>1, <1>2, <2>1 DEF Cost
<1>3. CASE faults # 0
  <2>1. Cost' = faults'
    BY <1>1, <1>3 DEF Cost
  <2> QED BY <1>1, <1>3, <2>1
<1> QED BY <1>2, <1>3

LEMMA DearerLater ==
    ASSUME NEW f \in Nat, NEW c \in Nat, c >= f, NEW u \in Nat
    PROVE  (1 + c) * u \in Nat /\ (1 + c) * u >= (1 + f) * u
<1>1. 1 + f \in Nat /\ 1 + c \in Nat /\ 1 + f <= 1 + c /\ u <= u
  OBVIOUS
<1>2. (1 + f) * u <= (1 + c) * u /\ (1 + f) * u \in Nat /\ (1 + c) * u \in Nat
  BY <1>1, ProductUp
<1> QED BY <1>2

LEMMA LateIs ==
    ASSUME TurnsTyped, NEW n \in Nodes, NEW T \in Nat
    PROVE  /\ Behindhand(n) \in Nat /\ TurnWithin(n) \in Nat /\ LateBy(n, T) \in Nat
           /\ TurnWithin(n) = IF byAgent THEN MaxGap ELSE MaxGap + Behindhand(n)
           /\ LateBy(n, T) >= T + TurnWithin(n) + PollTime
           /\ Costs => LateBy(n, T)' \in Nat /\ LateBy(n, T)' >= LateBy(n, T)
           /\ Costs /\ Cost' >= Cost + 1 =>
                 LateBy(n, T)' >= LateBy(n, T) + TurnWithin(n) + PollTime
<1> DEFINE u == TurnWithin(n) + PollTime
<1>1. MaxGap \in Nat /\ PollTime \in Nat /\ Cost \in Nat /\ byAgent \in BOOLEAN
  BY CostIs DEF TurnsTyped
<1>2. Behindhand(n) \in Nat
  BY <1>1, TurnUpTo, MaxGap <= MaxGap, Nodes \in SUBSET Nodes, 0 \in Nat
<1>3. TurnWithin(n) \in Nat /\ TurnWithin(n) = IF byAgent THEN MaxGap ELSE MaxGap + Behindhand(n)
  BY <1>1, <1>2 DEF TurnWithin
<1>4. u \in Nat
  BY <1>1, <1>3
<1>5. LateBy(n, T) = T + (1 + Cost) * u
  BY DEF LateBy
<1>6. byAgent' = byAgent => LateBy(n, T)' = T + (1 + Cost') * u
  BY DEF LateBy, TurnWithin, Behindhand
<1> HIDE DEF u
<1>7. /\ (1 + Cost) * u \in Nat /\ (1 + Cost) * u >= u
      /\ (1 + (Cost + 1)) * u = (1 + Cost) * u + u
  BY <1>1, <1>4, MoreFaults
<1>8. LateBy(n, T) \in Nat /\ LateBy(n, T) >= T + u
  BY <1>4, <1>5, <1>7
<1>9. Costs => LateBy(n, T)' \in Nat /\ LateBy(n, T)' >= LateBy(n, T)
  <2> SUFFICES ASSUME Costs PROVE LateBy(n, T)' \in Nat /\ LateBy(n, T)' >= LateBy(n, T)
    OBVIOUS
  <2>1. PICK c \in Nat : c = Cost' /\ c >= Cost
    BY DEF Costs
  <2>2. (1 + c) * u \in Nat /\ (1 + c) * u >= (1 + Cost) * u
    BY <1>1, <1>4, <2>1, DearerLater
  <2>3. LateBy(n, T)' = T + (1 + c) * u
    BY <1>6, <2>1 DEF Costs
  <2> QED BY <1>5, <1>7, <2>2, <2>3
<1>10. Costs /\ Cost' >= Cost + 1 => LateBy(n, T)' >= LateBy(n, T) + u
  <2> SUFFICES ASSUME Costs, Cost' >= Cost + 1 PROVE LateBy(n, T)' >= LateBy(n, T) + u
    OBVIOUS
  <2>1. PICK c \in Nat : c = Cost' /\ c >= Cost + 1
    BY DEF Costs
  <2>2. (1 + c) * u \in Nat /\ (1 + c) * u >= (1 + (Cost + 1)) * u
    <3>1. Cost + 1 \in Nat
      BY <1>1
    <3> QED BY <1>4, <2>1, <3>1, DearerLater
  <2>3. LateBy(n, T)' = T + (1 + c) * u
    BY <1>6, <2>1 DEF Costs
  <2> QED BY <1>4, <1>5, <1>7, <2>2, <2>3
<1>11. u = TurnWithin(n) + PollTime
  BY DEF u
<1>12. /\ LateBy(n, T) >= T + TurnWithin(n) + PollTime
       /\ LateBy(n, T) + u = LateBy(n, T) + TurnWithin(n) + PollTime
  BY <1>1, <1>3, <1>8, <1>11
<1> QED BY <1>2, <1>3, <1>8, <1>9, <1>10, <1>12

\* A fresh turn of one that can ask.
LEMMA FreshWithin ==
    ASSUME TurnsTyped, NEW n \in Nodes, byAgent => n \in socket, NEW x, Fresh(n, x)
    PROVE  x \in Nat /\ x <= clock + TurnWithin(n)
<1>1. /\ Behindhand(n) \in Nat /\ clock \in Nat /\ MaxGap \in Nat
      /\ TurnWithin(n) = IF byAgent THEN MaxGap ELSE MaxGap + Behindhand(n)
  BY LateIs, 0 \in Nat DEF TurnsTyped
<1> QED BY <1>1 DEF Fresh, Reach

\* What is in time stays in time.
LEMMA TimelyMore ==
    ASSUME LineInv, LineInv', NEW n \in Nodes, NEW T \in Nat, Costs,
           polling'[n] = {} => clock' <= LateBy(n, T) /\ \A x \in due'[n] : x <= LateBy(n, T),
           \A p \in polling'[n] : p.at <= LateBy(n, T)
    PROVE  Timely(n, T)'
<1>1. /\ LateBy(n, T) \in Nat /\ LateBy(n, T)' \in Nat /\ LateBy(n, T)' >= LateBy(n, T)
      /\ clock' \in Nat /\ due'[n] \in SUBSET Nat /\ \A p \in polling'[n] : p.at \in Nat
  BY LateIs DEF LineInv, TurnsTyped
<1>2. polling'[n] = {} => clock' <= LateBy(n, T)' /\ \A x \in due'[n] : x <= LateBy(n, T)'
  BY <1>1
<1>3. \A p \in polling'[n] : p.at <= LateBy(n, T)'
  BY <1>1
<1> QED BY <1>2, <1>3 DEF Timely

LEMMA TimelyStays ==
    ASSUME LineInv, NEW n \in Nodes, NEW T \in Nat, Timely(n, T), Costs, clock' = clock,
           due'[n] = due[n], polling'[n] = polling[n]
    PROVE  Timely(n, T)'
<1>1. /\ clock \in Nat /\ PollTime \in Nat /\ TurnWithin(n) \in Nat /\ LateBy(n, T) \in Nat
      /\ due[n] \in SUBSET Nat /\ \A p \in polling[n] : p.at \in Nat
  BY LateIs DEF LineInv, TurnsTyped
<1>2. LateBy(n, T)' \in Nat /\ LateBy(n, T)' >= LateBy(n, T)
  BY <1>1, LateIs DEF LineInv
<1> QED BY <1>1, <1>2 DEF Timely

\* Whoever has just become able to, or is answered in time, has a turn in time.
LEMMA TimelyNow ==
    ASSUME LineInv, LimitInv, NEW n \in Nodes, NEW T \in Nat, Costs, clock' = clock,
           clock <= T + PollTime, polling'[n] \subseteq polling[n],
           polling'[n] = {} => \A x \in due'[n] : x \in Nat /\ x <= T + PollTime + TurnWithin(n)
    PROVE  Timely(n, T)'
<1>1. /\ clock \in Nat /\ PollTime \in Nat /\ TurnWithin(n) \in Nat /\ LateBy(n, T) \in Nat
      /\ LateBy(n, T)' \in Nat /\ LateBy(n, T)' >= T + TurnWithin(n) + PollTime
  BY LateIs DEF LineInv, TurnsTyped
<1>2. clock <= LateBy(n, T)'
  BY <1>1
<1>3. \A p \in polling[n] : p.at \in Nat /\ p.at <= clock
  BY DEF LineInv, TurnsTyped, LimitInv, PollsTimed
<1>4. \A p \in polling'[n] : p.at <= LateBy(n, T)'
  BY <1>1, <1>2, <1>3
<1>5. polling'[n] = {} => \A x \in due'[n] : x <= LateBy(n, T)'
  BY <1>1
<1> QED BY <1>1, <1>2, <1>4, <1>5 DEF Timely

LEMMA StaysNoticing ==
    ASSUME LineInv, LimitInv, FewFaults, Noticing, [TurnsNext]_turnVars
    PROVE  Noticing'
<1> SUFFICES ASSUME clock' <= ExpiresAt, NEW n \in Able', ~settled'[n], NEW T \in Nat, Noted(n, T)'
             PROVE  Timely(n, T)'
  BY DEF Noticing
<1>1. TurnsTyped /\ Scheduled /\ Dated /\ PollsTimed /\ NotesTimed /\ DueSoon
  BY DEF LineInv, LimitInv
<1>2. clock \in Nat /\ PollTime \in Nat /\ MaxGap \in Nat /\ ExpiresAt \in Nat
  BY <1>1 DEF TurnsTyped
<1>3. socket' \subseteq Nodes
  BY <1>1 DEF TurnsNext, Dated, Accept, Poll, StandAside, Find, Die, Attend, Leave, PutOff, Answer, Miss,
         Hear, Link, Unlink, Copy, Adopt, ComeForward, Pay, Elapse, elsewhere, world, turnVars
<1>4. n \in Nodes /\ n \notin dead' /\ (byAgent' => n \in socket')
  BY <1>3 DEF Able
<1>0. Costs /\ LineInv'
  BY CostOnlyGrows, StaysInLine
<1>5. ASSUME clock <= ExpiresAt, n \in Able, ~settled[n], Noted(n, T) PROVE Timely(n, T)
  BY <1>5 DEF Noticing
<1>6. ASSUME UNCHANGED <<byAgent, clock, paid, attended, dead, since, due, polling>>, socket' \subseteq socket,
             settled' = settled
      PROVE  Timely(n, T)'
  <2>1. Timely(n, T)
    BY <1>5, <1>6 DEF Able, Noted, Behindhand
  <2> QED BY <1>0, <1>4, <1>6, <2>1, TimelyStays
<1>7. ASSUME NEW k \in Nodes, k # n, UNCHANGED <<byAgent, clock, paid, attended, dead, socket>>,
             since'[n] = since[n], due'[n] = due[n], polling'[n] = polling[n], settled'[n] = settled[n]
      PROVE  Timely(n, T)'
  <2>1. Timely(n, T)
    BY <1>5, <1>7 DEF Able, Noted, Behindhand
  <2> QED BY <1>0, <1>4, <1>7, <2>1, TimelyStays
<1>8. ASSUME UNCHANGED <<byAgent, clock>>, n \notin dead, byAgent => n \in socket, clock <= T + PollTime,
             polling'[n] \subseteq polling[n], \A x \in due'[n] : Fresh(n, x)
      PROVE  Timely(n, T)'
  <2> SUFFICES ASSUME NEW x \in due'[n] PROVE x \in Nat /\ x <= T + PollTime + TurnWithin(n)
    BY <1>0, <1>4, <1>8, TimelyNow
  <2>1. x \in Nat /\ x <= clock + TurnWithin(n)
    BY <1>1, <1>4, <1>8, FreshWithin
  <2>2. TurnWithin(n) \in Nat
    BY <1>1, <1>4, LateIs
  <2> QED BY <1>2, <1>8, <2>1, <2>2
<1>9. ASSUME NEW k \in Nodes, Accept(k) PROVE Timely(n, T)'
  <2>1. UNCHANGED <<byAgent, clock, paid, attended, dead, socket, faults, polling, settled>>
    BY <1>9 DEF Accept, world
  <2>2. CASE k # n
    BY <1>1, <1>4, <1>7, <1>9, <2>1, <2>2, AcceptIs DEF Accept, Dated
  <2>3. CASE k = n
    <3>1. clock \in since'[n]
      BY <1>1, <1>4, <1>9, <2>3 DEF Accept, Dated
    <3>2. clock <= T + PollTime
      BY <1>2, <3>1 DEF Noted
    <3> QED BY <1>4, <1>8, <1>9, <2>1, <2>3, <3>2, AcceptIs
  <2> QED BY <2>2, <2>3
<1>10. ASSUME NEW k \in Nodes, NEW q \in Nodes, NEW gap \in Gaps, Copy(k, q, gap) PROVE Timely(n, T)'
  <2>1. UNCHANGED <<byAgent, clock, paid, attended, dead, socket, faults, polling, settled>>
    BY <1>10 DEF Copy, world
  <2>2. CASE k # n
    BY <1>1, <1>4, <1>7, <1>10, <2>1, <2>2, CopyIs DEF Copy, Dated
  <2>3. CASE k = n
    <3>1. clock \in since'[n]
      BY <1>1, <1>4, <1>10, <2>3 DEF Copy, Dated
    <3>2. clock <= T + PollTime
      BY <1>2, <3>1 DEF Noted
    <3> QED BY <1>4, <1>8, <1>10, <2>1, <2>3, <3>2, CopyIs
  <2> QED BY <2>2, <2>3
<1>11. ASSUME NEW k \in Nodes, NEW q \in Nodes, Hear(k, q) PROVE Timely(n, T)'
  <2>1. k # n
    BY <1>1, <1>4, <1>11 DEF Hear, TurnsTyped
  <2>2. settled'[n] = settled[n] /\ due'[n] = due[n]
    BY <1>1, <1>4, <1>11, <2>1 DEF Hear, TurnsTyped
  <2> QED BY <1>7, <1>11, <2>1, <2>2 DEF Hear, world
<1>12. ASSUME NEW k \in Nodes, Poll(k) PROVE Timely(n, T)'
  <2>1. /\ UNCHANGED <<byAgent, clock, paid, attended, dead, socket, faults, settled, since>>
        /\ polling[k] = {}
    BY <1>12 DEF Poll, IsDue, world
  <2>2. CASE k # n
    BY <1>1, <1>4, <1>7, <1>12, <2>1, <2>2 DEF Poll, TurnsTyped
  <2>3. CASE k = n
    <3>1. polling'[n] = {[at |-> clock, paid |-> paid # {}]}
      BY <1>1, <1>4, <1>12, <2>3 DEF Poll, TurnsTyped
    <3>2. Timely(n, T)
      BY <1>5, <2>1 DEF Able, Noted, Behindhand
    <3>3. clock <= LateBy(n, T)'
      <4>1. /\ clock <= LateBy(n, T) /\ LateBy(n, T) \in Nat
            /\ LateBy(n, T)' \in Nat /\ LateBy(n, T)' >= LateBy(n, T)
        BY <1>0, <1>1, <1>4, <2>1, <2>3, <3>2, LateIs DEF Timely
      <4> QED BY <1>2, <4>1
    <3>4. polling'[n] # {} /\ \A p \in polling'[n] : p.at = clock
      BY <3>1
    <3> QED BY <3>3, <3>4 DEF Timely
  <2> QED BY <2>2, <2>3
<1>13. ASSUME NEW k \in Nodes, StandAside(k) PROVE Timely(n, T)'
  <2>1. UNCHANGED <<byAgent, clock, paid, attended, dead, socket, faults, settled, since, polling>> /\ k # n
    BY <1>4, <1>13 DEF StandAside, world
  <2>2. due'[n] = due[n]
    <3>0. PICK gap \in Gaps : due' = Postponed(k, NextDue(gap))
      BY <1>13 DEF StandAside
    <3>1. NextDue(gap) \in SUBSET Nat
      BY <1>2, NextDueUpTo, GapsAssumption
    <3> QED BY <1>1, <1>4, <2>1, <3>0, <3>1, PostponedIs
  <2> QED BY <1>7, <2>1, <2>2
<1>14. ASSUME NEW k \in Nodes, NEW busy \in Busy, PutOff(k, busy) PROVE Timely(n, T)'
  <2>1. /\ UNCHANGED <<byAgent, clock, paid, attended, dead, peers, socket, settled, since, polling>>
        /\ faults' = faults + 1 /\ polling[k] = {}
    BY <1>14 DEF PutOff, Faulty, IsDue, elsewhere
  <2>2. {clock + busy} \in SUBSET Nat /\ \A t \in {clock + busy} : t <= clock + MaxGap
    <3>1. busy \in 1..MaxGap
      BY GapsAssumption
    <3> QED BY <1>2, <3>1
  <2>3. due' = Postponed(k, {clock + busy})
    BY <1>14 DEF PutOff
  <2>4. CASE k # n
    <3>1. due'[n] = due[n]
      BY <1>1, <1>4, <2>2, <2>3, <2>4, PostponedIs
    <3> QED BY <1>7, <2>1, <2>4, <3>1
  <2>5. CASE k = n
    <3>1. \A x \in due'[n] : Fresh(n, x)
      BY <1>4, <2>2, <2>3, <2>5, FreshPostponed
    <3>2. Timely(n, T)
      BY <1>5, <2>1 DEF Able, Noted, Behindhand
    <3>3. /\ clock <= LateBy(n, T) /\ LateBy(n, T)' >= LateBy(n, T) + TurnWithin(n) + PollTime
          /\ LateBy(n, T) \in Nat /\ LateBy(n, T)' \in Nat /\ TurnWithin(n) \in Nat
      BY <1>0, <1>1, <1>4, <2>1, <2>5, <3>2, CostOfAPoll, LateIs DEF Timely, LineInv
    <3>4. \A x \in due'[n] : x \in Nat /\ x <= clock + TurnWithin(n)
      BY <1>1, <1>4, <2>1, <3>1, FreshWithin
    <3>5. \A x \in due'[n] : x <= LateBy(n, T)'
      BY <1>2, <3>3, <3>4
    <3>6. clock <= LateBy(n, T)'
      BY <1>2, <3>3
    <3> QED BY <2>1, <2>5, <3>5, <3>6 DEF Timely
  <2> QED BY <2>4, <2>5
<1>15. ASSUME NEW k \in Nodes, NEW gap \in Gaps, Answer(k, gap) PROVE Timely(n, T)'
  <2>1. /\ UNCHANGED <<byAgent, clock, paid, attended, dead, socket, settled, since, faults>>
        /\ due' = Postponed(k, NextDue(gap)) /\ polling' = [polling EXCEPT ![k] = {}]
    BY <1>15 DEF Answer, world
  <2>2. NextDue(gap) \in SUBSET Nat /\ \A t \in NextDue(gap) : t <= clock + MaxGap
    BY <1>2, NextDueUpTo
  <2>3. CASE k # n
    <3>1. due'[n] = due[n] /\ polling'[n] = polling[n]
      BY <1>1, <1>4, <2>1, <2>2, <2>3, PostponedIs DEF TurnsTyped
    <3> QED BY <1>7, <2>1, <2>3, <3>1
  <2>4. CASE k = n
    <3>1. \A x \in due'[n] : Fresh(n, x)
      BY <1>4, <2>1, <2>2, <2>4, FreshPostponed
    <3>2. polling'[n] = {}
      BY <1>1, <1>4, <2>1, <2>4 DEF TurnsTyped
    <3>3. clock <= T + PollTime
      <4>1. PICK t \in paid : t \in Nat /\ t <= T /\ clock <= t + PollTime
        BY <1>1, <1>15, <2>1, AnswerInTime DEF Noted, Dated
      <4> QED BY <1>2, <4>1
    <3> QED BY <1>4, <1>8, <2>1, <3>1, <3>2, <3>3
  <2> QED BY <2>3, <2>4
<1>16. ASSUME NEW k \in Nodes, NEW gap \in Gaps, Miss(k, gap) PROVE Timely(n, T)'
  <2>1. /\ UNCHANGED <<byAgent, clock, paid, attended, dead, peers, socket, settled, since>>
        /\ faults' = faults + 1
        /\ due' = Postponed(k, NextDue(gap)) /\ polling' = [polling EXCEPT ![k] = {}]
    BY <1>16 DEF Miss, Faulty, elsewhere
  <2>2. NextDue(gap) \in SUBSET Nat /\ \A t \in NextDue(gap) : t <= clock + MaxGap
    BY <1>2, NextDueUpTo
  <2>3. CASE k # n
    <3>1. due'[n] = due[n] /\ polling'[n] = polling[n]
      BY <1>1, <1>4, <2>1, <2>2, <2>3, PostponedIs DEF TurnsTyped
    <3> QED BY <1>7, <2>1, <2>3, <3>1
  <2>4. CASE k = n
    <3>1. \A x \in due'[n] : Fresh(n, x)
      BY <1>4, <2>1, <2>2, <2>4, FreshPostponed
    <3>2. Timely(n, T)
      BY <1>5, <2>1 DEF Able, Noted, Behindhand
    <3>3. PICK p \in polling[n] : p.at \in Nat /\ clock <= p.at + PollTime
      BY <1>4, <1>16, <2>4, PollEnds DEF Miss
    <3>4. /\ p.at <= LateBy(n, T) /\ LateBy(n, T)' >= LateBy(n, T) + TurnWithin(n) + PollTime
          /\ LateBy(n, T) \in Nat /\ LateBy(n, T)' \in Nat /\ TurnWithin(n) \in Nat
      BY <1>0, <1>1, <1>4, <2>1, <3>2, CostOfAPoll, LateIs DEF Timely, LineInv
    <3>5. \A x \in due'[n] : x \in Nat /\ x <= clock + TurnWithin(n)
      BY <1>1, <1>4, <2>1, <3>1, FreshWithin
    <3>6. \A x \in due'[n] : x <= LateBy(n, T)'
      BY <1>2, <3>3, <3>4, <3>5
    <3>7. clock <= LateBy(n, T)'
      BY <1>2, <3>3, <3>4
    <3>8. polling'[n] = {}
      BY <1>1, <1>4, <2>1, <2>4 DEF TurnsTyped
    <3> QED BY <2>1, <3>6, <3>7, <3>8 DEF Timely
  <2> QED BY <2>3, <2>4
<1>17. ASSUME NEW k \in Nodes, Find(k) PROVE Timely(n, T)'
  <2>1. k # n
    BY <1>1, <1>4, <1>17 DEF Find, TurnsTyped
  <2>2. settled'[n] = settled[n] /\ due'[n] = due[n] /\ polling'[n] = polling[n]
    BY <1>1, <1>4, <1>17, <2>1 DEF Find, TurnsTyped
  <2> QED BY <1>7, <1>17, <2>1, <2>2 DEF Find, world
<1>18. ASSUME NEW m \in net, Adopt(m) PROVE Timely(n, T)'
  <2> DEFINE k == m.to
  <2>1. /\ k \in Nodes /\ m.next \in SUBSET Nat /\ m.sent \in Nat /\ m.kind = "polled"
        /\ due' = IF accepted[k] # {} THEN Postponed(k, m.next) ELSE due
        /\ UNCHANGED <<byAgent, clock, paid, attended, dead, socket, settled, since, faults, polling>>
    BY <1>1, <1>18 DEF Adopt, TurnsTyped, Note, world
  <2>2. CASE k # n
    <3>1. due'[n] = due[n]
      <4>1. Postponed(k, m.next)[n] = due[n]
        BY <1>1, <1>4, <2>1, <2>2, PostponedIs
      <4> QED BY <2>1, <4>1
    <3> QED BY <1>7, <2>1, <2>2, <3>1
  <2>3. CASE k = n
    <3>1. Timely(n, T)
      BY <1>5, <2>1 DEF Able, Noted, Behindhand
    <3>2. /\ LateBy(n, T) \in Nat /\ TurnWithin(n) \in Nat
          /\ LateBy(n, T) >= T + TurnWithin(n) + PollTime
      BY <1>1, <1>4, LateIs
    <3>3. ASSUME polling[n] = {}, NEW x \in due'[n] PROVE x <= LateBy(n, T)
      <4>1. CASE accepted[n] = {}
        <5>1. due' = due
          BY <2>1, <2>3, <4>1
        <5> QED BY <3>1, <3>3, <5>1 DEF Timely
      <4>2. CASE accepted[n] # {}
        <5>1. due' = Postponed(n, m.next)
          BY <2>1, <2>3, <4>2
        <5>2. CASE ~row[n]
          <6>1. due'[n] = due[n]
            BY <1>1, <1>4, <2>1, <5>1, <5>2, PostponedIs
          <6> QED BY <3>1, <3>3, <6>1 DEF Timely
        <5>3. CASE row[n]
          <6>1. due'[n] = {Turn(n, t, Less(t, clock), peers[n]) : t \in m.next}
            BY <1>1, <1>4, <2>1, <5>1, <5>3, PostponedIs
          <6>2. PICK t \in m.next : x = Turn(n, t, Less(t, clock), peers[n])
            BY <6>1
          <6>3. t \in Nat /\ t <= m.sent + MaxGap /\ m.sent <= clock
            BY <1>1, <2>1 DEF NotesTimed
          <6>4. Less(t, clock) \in Nat /\ Less(t, clock) <= MaxGap
            BY <1>2, <2>1, <6>3 DEF Less
          <6>5. peers[n] \in SUBSET Nodes
            BY <1>1, <1>4 DEF TurnsTyped
          <6>6. /\ Behindhand(n) \in Nat /\ x \in Nat /\ x <= t + Behindhand(n)
                /\ byAgent => x = t
            BY <1>4, <2>1, <6>2, <6>3, <6>4, <6>5, TurnUpTo
          <6>7. x <= t + (TurnWithin(n) - MaxGap)
            BY <1>1, <1>2, <1>4, <6>3, <6>6, LateIs
          <6>8. PICK y \in paid : y \in Nat /\ y <= T /\ m.sent <= y + PollTime
            BY <1>1, <2>1 DEF Noted, Dated, NotesTimed
          <6> QED BY <1>2, <2>1, <3>2, <6>3, <6>6, <6>7, <6>8
        <5> QED BY <5>2, <5>3
      <4> QED BY <4>1, <4>2
    <3> QED BY <1>0, <1>4, <2>1, <3>1, <3>3, TimelyMore DEF Timely
  <2> QED BY <2>2, <2>3
<1>19. ASSUME NEW m \in net, ComeForward(m) PROVE Timely(n, T)'
  <2> DEFINE k == m.to
             sooner == Turn(k, clock, Eager, peers[k] \ {m.from})
             forward == {Min({t, sooner}) : t \in due[k]}
  <2>1. /\ k \in Nodes /\ due' = [due EXCEPT ![k] = forward]
        /\ UNCHANGED <<byAgent, clock, paid, attended, dead, socket, settled, since, faults, polling>>
    BY <1>1, <1>19 DEF ComeForward, TurnsTyped, Note, world
  <2>2. sooner \in Nat
    <3>1. peers[k] \ {m.from} \in SUBSET Nodes /\ Eager \in 1..MaxGap
      BY <1>1, <2>1, GapsAssumption DEF TurnsTyped
    <3>2. Eager \in Nat
      BY <1>2, <3>1
    <3> QED BY <1>2, <2>1, <3>1, <3>2, TurnIs
  <2> HIDE DEF sooner
  <2>3. due[k] \in SUBSET Nat
    BY <1>1, <2>1 DEF TurnsTyped
  <2>4. \A x \in forward : \E t \in due[k] : t \in Nat /\ x \in Nat /\ x <= t
    <3>1. ASSUME NEW t \in due[k] PROVE Min({t, sooner}) \in Nat /\ Min({t, sooner}) <= t /\ t \in Nat
      BY <2>2, <2>3, LeastOfTwo
    <3> QED BY <3>1
  <2> HIDE DEF forward
  <2>5. due'[k] = forward /\ \A q \in Nodes : q # k => due'[q] = due[q]
    BY <1>1, <2>1 DEF TurnsTyped
  <2>6. CASE k # n
    BY <1>4, <1>7, <2>1, <2>5, <2>6
  <2>7. CASE k = n
    <3>1. Timely(n, T)
      BY <1>5, <2>1 DEF Able, Noted, Behindhand
    <3>2. LateBy(n, T) \in Nat
      BY <1>1, <1>4, LateIs
    <3>3. ASSUME polling[n] = {}, NEW x \in due'[n] PROVE x <= LateBy(n, T)
      <4>1. PICK t \in due[n] : t \in Nat /\ x \in Nat /\ x <= t
        BY <2>4, <2>5, <2>7
      <4>2. t <= LateBy(n, T)
        BY <3>1, <3>3 DEF Timely
      <4> QED BY <3>2, <4>1, <4>2
    <3> QED BY <1>0, <1>4, <2>1, <3>1, <3>3, TimelyMore DEF Timely
  <2> QED BY <2>6, <2>7
<1>20. ASSUME NEW k \in Nodes, NEW q \in Nodes, Link(k, q) PROVE Timely(n, T)'
  BY <1>6, <1>20 DEF Link, schedule
<1>21. ASSUME NEW k \in Nodes, NEW q \in Nodes, Unlink(k, q) PROVE Timely(n, T)'
  BY <1>6, <1>21 DEF Unlink, Faulty, schedule
<1>22. ASSUME NEW k \in Nodes, Die(k) PROVE Timely(n, T)'
  <2>1. /\ UNCHANGED <<byAgent, clock, paid, attended, socket, settled, since, due>>
        /\ dead' = dead \cup {k} /\ faults' = faults + 1 /\ polling' = [polling EXCEPT ![k] = {}]
    BY <1>22 DEF Die, Faulty, schedule
  <2>2. k # n /\ n \notin dead
    BY <1>4, <2>1
  <2>3. polling'[n] = polling[n]
    BY <1>1, <1>4, <2>1, <2>2 DEF TurnsTyped
  <2>4. Timely(n, T)
    BY <1>4, <1>5, <2>1, <2>2 DEF Able, Noted, Behindhand
  <2> QED BY <1>0, <1>4, <2>1, <2>3, <2>4, TimelyStays
<1>23. ASSUME NEW k \in Nodes, Attend(k) PROVE Timely(n, T)'
  <2>1. /\ UNCHANGED <<byAgent, clock, paid, dead, faults, due, polling>>
        /\ socket' = {k} /\ attended' = {clock} /\ byAgent
    BY <1>23 DEF Attend, schedule
  <2>2. k = n
    BY <1>4, <2>1
  <2>3. clock + Behindhand(n) <= T
    BY <2>1 DEF Noted, Behindhand
  <2>4. Behindhand(n) \in Nat /\ TurnWithin(n) = MaxGap
    BY <1>1, <1>4, <2>1, LateIs
  <2>5. ASSUME polling[n] = {}, NEW x \in due[n] PROVE x \in Nat /\ x <= T + PollTime + TurnWithin(n)
    <3>1. x \in Nat /\ x <= clock + Reach(n)
      BY <1>1, <1>4, <2>1, <2>5 DEF TurnsTyped, DueSoon
    <3> QED BY <1>2, <2>3, <2>4, <3>1 DEF Reach
  <2>6. clock <= T + PollTime
    BY <1>2, <2>3, <2>4
  <2> QED BY <1>0, <1>4, <2>1, <2>5, <2>6, TimelyNow
<1>24. ASSUME NEW k \in Nodes, Leave(k) PROVE Timely(n, T)'
  BY <1>6, <1>24 DEF Leave, Faulty, schedule
<1>25. CASE Pay
  <2>1. /\ UNCHANGED <<byAgent, clock, socket, dead, attended, faults, due, polling>>
        /\ paid' = {clock}
    BY <1>25 DEF Pay, schedule
  <2>2. clock <= T
    BY <2>1 DEF Noted
  <2>3. /\ Behindhand(n) \in Nat
        /\ TurnWithin(n) = IF byAgent THEN MaxGap ELSE MaxGap + Behindhand(n)
    BY <1>1, <1>4, LateIs
  <2>4. ASSUME polling[n] = {}, NEW x \in due[n] PROVE x \in Nat /\ x <= T + PollTime + TurnWithin(n)
    <3>1. /\ x \in Nat /\ x <= clock + Reach(n)
          /\ n \in socket => \A y \in attended : x <= y + Reach(n) \/ x <= clock + MaxGap
      BY <1>1, <1>4, <2>1, <2>4 DEF TurnsTyped, DueSoon
    <3>2. CASE ~byAgent
      BY <1>2, <2>2, <2>3, <3>1, <3>2 DEF Reach
    <3>3. CASE byAgent
      <4>1. n \in socket
        BY <1>4, <2>1, <3>3
      <4>2. PICK y \in attended : y \in Nat /\ y + Behindhand(n) <= T
        BY <1>1, <2>1, <4>1 DEF Dated, Noted, Behindhand
      <4>3. x <= y + Reach(n) \/ x <= clock + MaxGap
        BY <3>1, <4>1
      <4> QED BY <1>2, <2>2, <2>3, <3>1, <3>3, <4>2, <4>3 DEF Reach
    <3> QED BY <3>2, <3>3
  <2>5. clock <= T + PollTime
    BY <1>2, <2>2
  <2> QED BY <1>0, <1>4, <2>1, <2>4, <2>5, TimelyNow
<1>26. CASE Elapse
  <2>1. /\ UNCHANGED <<byAgent, paid, socket, dead, attended, accepted, since, due, polling, settled, faults>>
        /\ clock' = clock + 1
    BY <1>26 DEF Elapse, schedule
  <2>2. Timely(n, T)
    BY <1>2, <1>5, <2>1 DEF Able, Noted, Behindhand
  <2>3. LateBy(n, T) \in Nat
    BY <1>1, <1>4, LateIs
  <2>4. ASSUME polling[n] = {} PROVE clock + 1 <= LateBy(n, T)
    <3>1. accepted[n] # {} /\ row[n] /\ clock < ExpiresAt
      BY <1>1, <1>2, <1>4, <2>1 DEF Noted, Dated, Scheduled
    <3>2. PICK x \in due[n] : x \in Nat
      BY <1>1, <1>4, <3>1 DEF Scheduled, TurnsTyped
    <3>3. ~(x <= clock)
      BY <1>4, <1>26, <2>1, <2>4 DEF Elapse, IsDue, Awake
    <3>4. x <= LateBy(n, T)
      BY <2>2, <2>4 DEF Timely
    <3> QED BY <1>2, <2>3, <3>2, <3>3, <3>4
  <2> QED BY <1>0, <1>4, <2>1, <2>2, <2>4, TimelyMore DEF Timely
<1>27. CASE UNCHANGED turnVars
  BY <1>6, <1>27 DEF turnVars, world, schedule
<1> QED
  BY <1>9, <1>10, <1>11, <1>12, <1>13, <1>14, <1>15, <1>16, <1>17, <1>18, <1>19, <1>20, <1>21,
     <1>22, <1>23, <1>24, <1>25, <1>26, <1>27 DEF TurnsNext

\* The payer pays, an instance takes the payment on and the agent's socket lands once,
\* or is remembered for the last time.
AtOnce ==
    /\ \A x, y \in paid : x = y
    /\ \A x, y \in attended : x = y
    /\ \A n \in Nodes : \A x, y \in since[n] : x = y

LEMMA AlwaysAtOnce == TurnsSpec => []AtOnce
<1>1. TurnsInit => AtOnce
  BY DEF TurnsInit, AtOnce
<1>2. ASSUME LimitInv, AtOnce, [TurnsNext]_turnVars PROVE AtOnce'
  <2>1. since \in [Nodes -> SUBSET Nat]
    BY <1>2 DEF LimitInv, Dated
  <2>2. paid' = paid \/ paid' = {clock}
    BY <1>2 DEF TurnsNext, Accept, Poll, StandAside, Find, Die, Attend, Leave, PutOff, Answer, Miss,
           Hear, Link, Unlink, Copy, Adopt, ComeForward, Pay, Elapse, elsewhere, world, turnVars
  <2>3. attended' = attended \/ attended' = {clock}
    BY <1>2 DEF TurnsNext, Accept, Poll, StandAside, Find, Die, Attend, Leave, PutOff, Answer, Miss,
           Hear, Link, Unlink, Copy, Adopt, ComeForward, Pay, Elapse, elsewhere, world, turnVars
  <2>4. since' = since \/ \E n \in Nodes : since' = [since EXCEPT ![n] = {clock}]
    BY <1>2 DEF TurnsNext, Accept, Poll, StandAside, Find, Die, Attend, Leave, PutOff, Answer, Miss,
           Hear, Link, Unlink, Copy, Adopt, ComeForward, Pay, Elapse, elsewhere, world, turnVars
  <2>5. \A n \in Nodes : since'[n] = since[n] \/ since'[n] = {clock}
    BY <2>1, <2>4
  <2>6. \A n \in Nodes : \A x, y \in since'[n] : x = y
    BY <1>2, <2>5 DEF AtOnce
  <2> QED BY <1>2, <2>2, <2>3, <2>6 DEF AtOnce
<1> QED BY <1>1, <1>2, AlwaysLimited, PTL DEF TurnsSpec

LEMMA LastOfThree ==
    ASSUME NEW x \in Nat, NEW y \in Nat, NEW Z \in SUBSET Nat, \A v, w \in Z : v = w
    PROVE  Max({x, y} \cup Z) \in Nat /\ \A v \in {x, y} \cup Z : v <= Max({x, y} \cup Z)
<1> DEFINE S == {x, y} \cup Z
<1>1. S \in SUBSET Nat
  OBVIOUS
<1>2. \E m \in S : \A v \in S : m >= v
  <2>1. PICK m \in {x, y} : m >= x /\ m >= y
    OBVIOUS
  <2>2. CASE \A v \in Z : m >= v
    BY <2>1, <2>2
  <2>3. CASE \E v \in Z : ~(m >= v)
    <3>1. PICK v \in Z : ~(m >= v)
      BY <2>3
    <3>2. v \in Nat /\ m \in Nat /\ \A w \in Z : w = v
      BY <2>1
    <3>3. v >= x /\ v >= y /\ v >= v
      BY <2>1, <3>1, <3>2
    <3> QED BY <3>1, <3>2, <3>3
  <2> QED BY <2>2, <2>3
<1>3. Max(S) = CHOOSE m \in S : \A v \in S : m >= v
  BY DEF Max
<1> HIDE DEF S
<1>4. Max(S) \in S /\ \A v \in S : Max(S) >= v
  BY <1>2, <1>3
<1>5. Max(S) \in Nat /\ \A v \in S : v <= Max(S)
  BY <1>1, <1>4
<1> QED BY <1>5 DEF S

LEMMA AlwaysNoticing == TurnsSpec => []Noticing
<1>1. TurnsInit => Noticing
  BY DEF TurnsInit, Noticing, Noted
<1> QED BY <1>1, StaysNoticing, AlwaysInLine, AlwaysLimited, AlwaysFew, PTL DEF TurnsSpec

\* Whoever can ask has settled it a poll after it had to begin one.
LEMMA OnTime ==
    ASSUME LineInv, LimitInv, Noticing, clock <= ExpiresAt, NEW n \in Able, NEW T \in Nat, Noted(n, T),
           clock > LateBy(n, T) + PollTime
    PROVE  n \in Nodes \ dead /\ settled[n]
<1>1. TurnsTyped /\ Dated /\ PollsTimed /\ n \in Nodes \ dead
  BY DEF LineInv, LimitInv, Able, Dated
<1>2. LateBy(n, T) \in Nat /\ PollTime \in Nat /\ clock \in Nat
  BY <1>1, LateIs DEF TurnsTyped
<1>3. SUFFICES ASSUME ~settled[n] PROVE FALSE
  BY <1>1
<1>4. Timely(n, T)
  BY <1>3 DEF Noticing
<1>5. polling[n] # {}
  BY <1>2, <1>4 DEF Timely
<1>6. PICK p \in polling[n] : p.at \in Nat /\ clock <= p.at + PollTime /\ p.at <= LateBy(n, T)
  BY <1>1, <1>4, <1>5 DEF TurnsTyped, PollsTimed, Timely
<1> QED BY <1>2, <1>6

\* A paid payment is settled before it expires, a turn of any live instance that can
\* ask later and one more for every fault, for any instances, ranks, intervals and
\* faults: nobody has to agree on who is alive (Store.turn, postponed, onPolled,
\* onMissed, nextDue).
THEOREM PaidIsSettledInTime == TurnsSpec => []PaidIsNoticed
<1>1. LineInv /\ LimitInv /\ AtOnce /\ Noticing => PaidIsNoticed
  <2> SUFFICES ASSUME LineInv, LimitInv, AtOnce, Noticing, clock <= ExpiresAt,
                      NEW t \in paid, NEW n \in Able, NEW took \in since[n],
                      clock > Max({t, took} \cup ServedFrom(n)) + NoticeWithin(n)
               PROVE  n \in Nodes \ dead /\ settled[n]
    BY DEF PaidIsNoticed
  <2> DEFINE S == {t, took} \cup ServedFrom(n)
             T == Max(S)
  <2>1. TurnsTyped /\ Dated /\ PollsTimed /\ n \in Nodes
    BY DEF LineInv, LimitInv, Able, Dated
  <2>2. t \in Nat /\ took \in Nat /\ clock \in Nat /\ Behindhand(n) \in Nat
    BY <2>1, LateIs, 0 \in Nat DEF Dated, TurnsTyped
  <2>3. ServedFrom(n) \in SUBSET Nat /\ \A x, y \in ServedFrom(n) : x = y
    <3>1. \A x \in attended : x \in Nat /\ x + Behindhand(n) \in Nat
      BY <2>1, <2>2 DEF Dated
    <3> QED BY <3>1 DEF ServedFrom, AtOnce
  <2>4. T \in Nat /\ \A x \in S : x <= T
    BY <2>2, <2>3, LastOfThree
  <2>5. Noted(n, T)
    <3>1. \A y \in attended : y + Behindhand(n) \in S
      BY DEF ServedFrom
    <3>2. t \in S /\ took \in S
      OBVIOUS
    <3>3. \A x \in paid : x = t
      BY DEF AtOnce
    <3>4. \A x \in since[n] : x = took
      BY <2>1 DEF AtOnce
    <3> HIDE DEF S, T
    <3> QED BY <2>4, <3>1, <3>2, <3>3, <3>4 DEF Noted
  <2>6. LateBy(n, T) + PollTime <= T + NoticeWithin(n) /\ NoticeWithin(n) \in Nat /\ LateBy(n, T) \in Nat
    <3> HIDE DEF T
    <3>1. /\ LateBy(n, T) \in Nat /\ PollTime \in Nat /\ TurnWithin(n) \in Nat
          /\ Cost \in Nat /\ faults \in Nat /\ faults >= Cost
      BY <2>1, <2>4, CostIs, LateIs DEF TurnsTyped
    <3> DEFINE u == TurnWithin(n) + PollTime
    <3>2. u \in Nat
      BY <3>1
    <3>3. LateBy(n, T) = T + (1 + Cost) * u /\ NoticeWithin(n) = (1 + faults) * u + PollTime
      BY DEF LateBy, NoticeWithin
    <3> HIDE DEF u
    <3>4. (1 + faults) * u \in Nat /\ (1 + Cost) * u \in Nat /\ (1 + faults) * u >= (1 + Cost) * u
      BY <3>1, <3>2, MoreFaults, DearerLater
    <3> QED BY <2>4, <3>1, <3>3, <3>4
  <2>7. clock > LateBy(n, T) + PollTime
    <3>1. clock > T + NoticeWithin(n)
      OBVIOUS
    <3> HIDE DEF T
    <3> QED BY <2>2, <2>4, <2>6, <3>1
  <2> HIDE DEF T, S
  <2> QED BY <2>4, <2>5, <2>7, OnTime
<1> QED BY <1>1, AlwaysNoticing, AlwaysInLine, AlwaysLimited, AlwaysAtOnce, PTL

\* A wait is at most the longest interval.
LEMMA LongestWaitIs == MaxGap \in Nat /\ Wait(MaxGap) \in Nat /\ Wait(MaxGap) <= MaxGap
<1>1. MaxGap \in Nat /\ MaxGap >= 1 /\ Lease \in Nat
  <2>1. Eager \in 1..MaxGap /\ MaxGap \in Nat
    OBVIOUS
  <2> QED BY <2>1
<1>2. Max({MaxGap, 1}) = MaxGap
  BY <1>1, GreatestOfTwo
<1>3. Min({MaxGap, Lease}) = IF MaxGap <= Lease THEN MaxGap ELSE Lease
  BY <1>1, LeastOfTwo
<1> QED BY <1>1, <1>2, <1>3 DEF Wait

\* Nobody stands behind more than all the others.
LEMMA AllOthersAhead ==
    ASSUME NEW n \in Nodes
    PROVE  /\ Behindhand(n) \in Nat /\ (Cardinality(Nodes) - 1) * MaxGap \in Nat
           /\ Behindhand(n) <= (Cardinality(Nodes) - 1) * MaxGap
<1> DEFINE ahead == {q \in Nodes : Standing[q] > Standing[n]}
           others == Nodes \ {n}
<1>1. IsFiniteSet(Nodes) /\ Standing[n] \in Nat
  BY StandingAssumption
<1>2. IsFiniteSet(others) /\ Cardinality(others) = Cardinality(Nodes) - 1
  BY <1>1, FS_RemoveElement
<1>3. ahead \subseteq others
  BY <1>1
<1>4. Cardinality(ahead) <= Cardinality(others) /\ IsFiniteSet(ahead)
  BY <1>2, <1>3, FS_Subset
<1>5. Cardinality(ahead) \in Nat /\ Cardinality(others) \in Nat
  BY <1>2, <1>4, FS_CardinalityType
<1>6. Rank(n, Nodes) = Cardinality(ahead)
  BY DEF Rank
<1> HIDE DEF ahead, others
<1> QED BY <1>2, <1>4, <1>5, <1>6, LongestWaitIs, ProductUp DEF Behindhand

\* One ahead is one wait.
LEMMA OneAhead ==
    ASSUME NEW n \in Nodes, NEW g, \A q \in Nodes : Standing[q] > Standing[n] => q = g
    PROVE  Behindhand(n) \in Nat /\ Behindhand(n) <= MaxGap
<1> DEFINE ahead == {q \in Nodes : Standing[q] > Standing[n]}
<1>1. ahead \subseteq {g}
  OBVIOUS
<1>2. IsFiniteSet({g}) /\ Cardinality({g}) = 1
  BY FS_Singleton
<1>3. IsFiniteSet(ahead) /\ Cardinality(ahead) <= 1
  BY <1>1, <1>2, FS_Subset
<1>4. Cardinality(ahead) \in Nat
  BY <1>3, FS_CardinalityType
<1>5. Rank(n, Nodes) = Cardinality(ahead)
  BY DEF Rank
<1> HIDE DEF ahead
<1>6. PICK k \in Nat : k = Rank(n, Nodes) /\ k <= 1
  BY <1>3, <1>4, <1>5
<1>7. PICK w \in Nat : w = Wait(MaxGap) /\ w <= MaxGap
  BY LongestWaitIs
<1>8. Behindhand(n) = k * w
  BY <1>6, <1>7 DEF Behindhand
<1>9. 1 * MaxGap = MaxGap /\ MaxGap \in Nat /\ 1 \in Nat
  BY LongestWaitIs
<1> QED BY <1>6, <1>7, <1>8, <1>9, ProductUp

\* Whoever was first in line, one fault leaves somebody who took the payment on as early
\* and stands behind nobody, or behind one other and has lost nothing by the fault.
LEMMA SomebodyIsNext ==
    ASSUME TurnsTyped, Dated, FewFaults, faults <= 1,
           NEW n \in Nodes \ dead, NEW took \in since[n], took < clock
    PROVE  \E s \in Nodes \ dead :
              /\ \E u \in since[s] : u <= took
              /\ \/ First(s)
                 \/ /\ Cost = 0 /\ faults = 1
                    /\ \E g \in Nodes : \A q \in Nodes : Standing[q] > Standing[s] => q = g
<1>1. PICK g \in Nodes : First(g)
  BY SomebodyIsFirst
<1>2. Standing \in [Nodes -> Nat] /\ faults \in Nat /\ took \in Nat
  BY StandingAssumption DEF TurnsTyped, Dated
<1>3. CASE g \notin dead /\ \E u \in since[g] : u <= took
  BY <1>1, <1>3
<1>4. CASE g \in dead
  <2>1. faults = 1 /\ dead = {g} /\ Shared
    BY <1>2, <1>4 DEF FewFaults
  <2>2. Cost = 0
    BY <1>4, <2>1 DEF Cost
  <2>3. PICK s \in Nodes \ {g} : \A q \in Nodes \ {g} : Standing[q] <= Standing[s]
    BY <2>1, SomebodyLeads, Nodes \ {g} \in SUBSET Nodes
  <2>4. \E u \in since[s] : u <= took
    BY <2>1, <2>3 DEF Shared
  <2>5. \A q \in Nodes : Standing[q] > Standing[s] => q = g
    BY <1>2, <2>3
  <2> QED BY <1>1, <2>1, <2>2, <2>3, <2>4, <2>5
<1>5. CASE g \notin dead /\ ~\E u \in since[g] : u <= took
  <2>1. ~Shared
    BY <1>1, <1>5 DEF Shared
  <2>2. faults = 1 /\ dead = {} /\ ~Crowd
    BY <1>2, <2>1 DEF FewFaults
  <2>3. Cost = 0
    BY <2>1, <2>2 DEF Cost
  <2>4. PICK a \in Nodes, b \in Nodes : \A r \in Nodes : r \in {a, b}
    BY <2>2 DEF Crowd
  <2>5. n # g
    BY <1>2, <1>5
  <2>6. \A q \in Nodes : q = n \/ q = g
    BY <1>1, <2>4, <2>5
  <2>7. \A q \in Nodes : Standing[q] > Standing[n] => q = g
    BY <1>2, <2>6
  <2>8. \E u \in since[n] : u <= took
    BY <1>2
  <2> QED BY <1>1, <2>2, <2>3, <2>7, <2>8
<1> QED BY <1>3, <1>4, <1>5

\* One fault costs at most one interval, whichever of the instances it hits and whatever it
\* is: a paid payment is settled an interval after it was paid and one more, for any
\* instances, ranks, intervals and delays (docs/design.md:217; Store.turn, postponed,
\* onPolled, onMissed).
THEOREM OneFaultIsCheap == TurnsSpec => []OneFaultCostsAnInterval
<1>1. LineInv /\ LimitInv /\ AtOnce /\ FewFaults /\ Noticing => OneFaultCostsAnInterval
  <2> SUFFICES ASSUME LineInv, LimitInv, AtOnce, FewFaults, Noticing, faults <= 1, clock <= ExpiresAt,
                      NEW t \in paid, NEW n \in Able, NEW took \in since[n],
                      clock > Max({t, took} \cup {Served(x) : x \in attended})
                                  + (1 + faults) * (MaxGap + PollTime) + PollTime + delay
               PROVE  \E q \in Nodes \ dead : settled[q]
    BY DEF OneFaultCostsAnInterval, EachCostsAnInterval
  <2> DEFINE S == {t, took} \cup {Served(x) : x \in attended}
             M == Max(S)
  <2>1. TurnsTyped /\ Dated /\ n \in Nodes \ dead
    BY DEF LineInv, LimitInv, Able, Dated
  <2>2. t \in Nat /\ took \in Nat /\ clock \in Nat /\ delay \in Nat /\ byAgent \in BOOLEAN
    BY <2>1 DEF Dated, TurnsTyped
  <2>3. M \in Nat /\ \A x \in S : x <= M
    <3>1. {Served(x) : x \in attended} \in SUBSET Nat
      <4>1. \A x \in attended : x \in Nat /\ (Cardinality(Nodes) - 1) * MaxGap \in Nat
        BY <2>1, AllOthersAhead DEF Dated
      <4> QED BY <4>1 DEF Served
    <3>2. \A v, w \in {Served(x) : x \in attended} : v = w
      BY DEF AtOnce
    <3> QED BY <2>2, <3>1, <3>2, LastOfThree
  <2>4. t <= M /\ took <= M /\ \A y \in attended : Served(y) <= M
    BY <2>3
  <2>5. clock > M + (1 + faults) * (MaxGap + PollTime) + PollTime + delay
    OBVIOUS
  <2> HIDE DEF M, S
  <2>6. faults \in Nat /\ Cost \in Nat /\ faults >= Cost /\ MaxGap \in Nat /\ PollTime \in Nat
    BY <2>1, CostIs
  <2> DEFINE span == MaxGap + PollTime
             K == (1 + faults) * span
  <2>7. K \in Nat /\ span \in Nat
    <3>1. span \in Nat
      BY <2>6
    <3> HIDE DEF span
    <3> QED BY <2>6, <3>1, MoreFaults
  <2>8. clock > M + K + PollTime /\ took < clock
    <3>1. clock > M + K + PollTime + delay
      BY <2>5
    <3> HIDE DEF K
    <3> QED BY <2>2, <2>3, <2>4, <2>6, <2>7, <3>1
  <2>9. ASSUME NEW s \in Able, NEW u \in since[s], u <= took
        PROVE  s \in Nodes \ dead /\ Noted(s, M)
    <3>1. s \in Nodes \ dead /\ u \in Nat
      BY <2>1, <2>9 DEF Able, Dated
    <3>2. \A x \in paid : x <= M
      BY <2>4 DEF AtOnce
    <3>3. \A x \in since[s] : x <= M
      <4>1. u <= M
        BY <2>2, <2>3, <2>4, <2>9, <3>1
      <4> QED BY <3>1, <4>1 DEF AtOnce
    <3>4. ASSUME NEW y \in attended PROVE y + Behindhand(s) <= M
      <4>1. y \in Nat /\ Served(y) <= M
        BY <2>1, <2>4 DEF Dated
      <4>2. PICK o \in Nat : o = (Cardinality(Nodes) - 1) * MaxGap /\ Behindhand(s) <= o /\ Behindhand(s) \in Nat
        BY <3>1, AllOthersAhead
      <4>3. Served(y) = y + o
        BY <4>2 DEF Served
      <4> QED BY <2>3, <4>1, <4>2, <4>3
    <3> QED BY <2>9, <3>1, <3>2, <3>3, <3>4 DEF Noted
  <2>10. ASSUME NEW s \in Able, NEW u \in since[s], u <= took, LateBy(s, M) <= M + K
         PROVE  \E q \in Nodes \ dead : settled[q]
    <3>1. s \in Nodes \ dead /\ Noted(s, M) /\ LateBy(s, M) \in Nat
      BY <2>1, <2>3, <2>9, <2>10, LateIs
    <3> HIDE DEF K
    <3>2. clock > LateBy(s, M) + PollTime
      BY <2>2, <2>3, <2>6, <2>7, <2>8, <2>10, <3>1
    <3> QED BY <2>3, <3>1, <3>2, OnTime
  <2>11. (1 + Cost) * span \in Nat /\ (1 + Cost) * span <= K
    <3> HIDE DEF span
    <3> QED BY <2>6, <2>7, MoreFaults, DearerLater
  <2>12. ASSUME NEW s, TurnWithin(s) = MaxGap PROVE LateBy(s, M) <= M + K
    <3>1. LateBy(s, M) = M + (1 + Cost) * span
      BY <2>12 DEF LateBy
    <3> HIDE DEF K, span
    <3> QED BY <2>3, <2>7, <2>11, <3>1
  <2>13. CASE byAgent
    <3>1. TurnWithin(n) = MaxGap
      BY <2>13 DEF TurnWithin
    <3> QED BY <2>2, <2>10, <2>12, <3>1
  <2>14. CASE ~byAgent
    <3>1. PICK s \in Nodes \ dead :
              /\ \E u \in since[s] : u <= took
              /\ \/ First(s)
                 \/ /\ Cost = 0 /\ faults = 1
                    /\ \E g \in Nodes : \A q \in Nodes : Standing[q] > Standing[s] => q = g
      BY <2>1, <2>8, SomebodyIsNext
    <3>2. s \in Able /\ \E u \in since[s] : u <= took
      BY <2>14, <3>1 DEF Able
    <3>3. TurnWithin(s) = MaxGap + Behindhand(s)
      BY <2>14 DEF TurnWithin
    <3>4. CASE First(s)
      <4>1. Rank(s, Nodes) = 0
        BY <3>4, RankIs, Nodes \in SUBSET Nodes
      <4>2. Behindhand(s) = 0
        BY <4>1, LongestWaitIs DEF Behindhand
      <4>3. TurnWithin(s) = MaxGap
        BY <2>6, <3>3, <4>2
      <4> QED BY <2>10, <2>12, <3>2, <4>3
    <3>5. CASE ~First(s)
      <4>1. PICK g \in Nodes : Cost = 0 /\ faults = 1 /\ \A q \in Nodes : Standing[q] > Standing[s] => q = g
        BY <3>1, <3>5
      <4>2. Behindhand(s) \in Nat /\ Behindhand(s) <= MaxGap
        BY <4>1, OneAhead
      <4>3. LateBy(s, M) = M + (MaxGap + Behindhand(s) + PollTime)
        <5>1. LateBy(s, M) = M + (1 + 0) * (TurnWithin(s) + PollTime)
          BY <4>1 DEF LateBy
        <5> QED BY <2>6, <3>3, <4>2, <5>1
      <4>4. K = (MaxGap + PollTime) + (MaxGap + PollTime)
        BY <2>6, <4>1
      <4>5. LateBy(s, M) <= M + K
        <5> HIDE DEF K
        <5> QED BY <2>3, <2>6, <4>2, <4>3, <4>4
      <4> QED BY <2>10, <3>2, <4>5
    <3> QED BY <3>4, <3>5
  <2> QED BY <2>2, <2>13, <2>14
<1> QED BY <1>1, AlwaysNoticing, AlwaysInLine, AlwaysLimited, AlwaysAtOnce, AlwaysFew, PTL

-----------------------------------------------------------------------------
(* Intake *)

USE RequestsAssumption, DurationsAssumption

-----------------------------------------------------------------------------
(* Types *)

Places == {"new", "pacing", "probing", "confirming", "minting", "answered", "lost"}
Replies == {Answered(p) : p \in Payments} \cup {Refused(w) : w \in Reasons}

\* What finishes a handler is a reply, and what it awaits a place to be at.
LEMMA FinishTyped ==
    ASSUME TypeOK, NEW r \in Requests, NEW a \in Replies, Finish(r, a)
    PROVE  at' \in [Requests -> Places] /\ until' \in [Requests -> Nat] /\ answer' \in [Requests -> Replies]
BY DEF TypeOK, Finish, Places, Replies

LEMMA AwaitTyped ==
    ASSUME TypeOK, NEW r \in Requests, NEW w \in Places, NEW d \in Nat, Await(r, w, d)
    PROVE  at' \in [Requests -> Places] /\ until' \in [Requests -> Nat] /\ answer' \in [Requests -> Replies]
BY DEF TypeOK, Await, Places, Replies

ClaimsTyped(rows) == DOMAIN rows \subseteq Keys /\ \A k \in DOMAIN rows : rows[k] \in Claims

\* claimKey, fulfillKey and releaseKey leave a table of claims.
LEMMA ClaimedTyped ==
    ASSUME TypeOK, NEW r \in Creates
    PROVE  ClaimsTyped(Claimed(r))
BY DEF TypeOK, ClaimsTyped, Claimed, Claims, Asks, Requests

LEMMA FulfilledTyped ==
    ASSUME NEW rows, ClaimsTyped(rows), NEW r \in Creates, NEW p \in Payments
    PROVE  ClaimsTyped(Fulfilled(rows, r, p))
BY DEF ClaimsTyped, Fulfilled, Claims

LEMMA FulfilledRow ==
    ASSUME NEW rows, NEW r, NEW p, NEW k \in KeyOf[r], k \in DOMAIN rows, rows[k] \in Claims
    PROVE  Fulfilled(rows, r, p)[k].payment = {p} /\ Fulfilled(rows, r, p)[k].ask = rows[k].ask
BY DEF Fulfilled, Claims

LEMMA ReleasedTyped ==
    ASSUME NEW rows, ClaimsTyped(rows), NEW r \in Creates
    PROVE  ClaimsTyped(Released(rows, r))
BY DEF ClaimsTyped, Released, Drop

LEMMA GiveUpTyped ==
    ASSUME TypeOK, NEW r \in Requests, NEW why \in Reasons, GiveUp(r, why)
    PROVE  TypeOK'
<1>1. Refused(why) \in Replies
  BY DEF Replies
<1>2. at' \in [Requests -> Places] /\ until' \in [Requests -> Nat] /\ answer' \in [Requests -> Replies]
  BY <1>1, FinishTyped DEF GiveUp
<1>3. ClaimsTyped(claims')
  BY ReleasedTyped DEF GiveUp, TypeOK, ClaimsTyped
<1> QED BY <1>2, <1>3 DEF TypeOK, GiveUp, Places, Replies, ClaimsTyped

\* Storing a payment and putting it on the worklist.
StoredTyped(s, w) ==
    /\ DOMAIN s \subseteq Payments /\ \A p \in DOMAIN s : s[p] \in Asks
    /\ w \subseteq DOMAIN s

LEMMA PutTyped ==
    ASSUME TypeOK, NEW p \in Payments, NEW a \in Asks
    PROVE  StoredTyped(Put(stored, p, a), pending \cup {p})
BY DEF TypeOK, StoredTyped, Put

LEMMA RequestsApart ==
    /\ \A r \in Creates : r \in Requests /\ r \in Payments /\ AskOf[r] \in Asks
    /\ \A r \in Watches : r \in Requests /\ HashOf[r] \in Payments /\ AskOf[r] \in Asks
BY DEF Requests, Payments, Asks

LEMMA ReplayedTyped ==
    ASSUME TypeOK, NEW r \in Creates
    PROVE  Replayed(r) \in Replies
BY DEF TypeOK, Replayed, Replies, Reasons

LEMMA StepTyped ==
    ASSUME TypeOK, [Next]_vars
    PROVE  TypeOK'
<1>c. ClaimsTyped(claims) /\ StoredTyped(stored, pending)
  BY DEF TypeOK, ClaimsTyped, StoredTyped
<1>t. ASSUME now' \in 0..MaxTime, at' \in [Requests -> Places], until' \in [Requests -> Nat],
             answer' \in [Requests -> Replies], ClaimsTyped(claims'), StoredTyped(stored', pending'),
             crashes' \in 0..MaxCrashes
      PROVE  TypeOK'
  <2>1. overran' \subseteq Creates
    <3>1. overran' = overran \/ Tick
      BY DEF Next, vars, Create, Mint, Watch, Probed, Insert, Paced, Confirmed, Refuse, TurnAway, GiveUp,
             End, Forget, Crash
    <3> QED BY <3>1 DEF TypeOK, Tick
  <2> QED BY <1>t, <2>1 DEF TypeOK, Places, Replies, ClaimsTyped, StoredTyped
<1>1. ASSUME NEW r \in Requests, Create(r)
      PROVE  TypeOK'
  <2>0. r \in Creates /\ UNCHANGED <<now, stored, pending, crashes>>
    BY <1>1 DEF Create
  <2>1. ClaimsTyped(claims')
    <3>1. claims' \in {claims, Claimed(r), Released(Claimed(r), r)}
      BY <1>1 DEF Create
    <3> QED BY <3>1, <2>0, <1>c, ClaimedTyped, ReleasedTyped
  <2>2. at' \in [Requests -> Places] /\ until' \in [Requests -> Nat] /\ answer' \in [Requests -> Replies]
    <3>1. CASE \E a \in Replies : Finish(r, a)
      BY <3>1, FinishTyped
    <3>2. CASE \E w \in Places, d \in Nat : Await(r, w, d)
      BY <3>2, AwaitTyped
    <3>3. \A w \in Reasons : Refused(w) \in Replies
      BY DEF Replies
    <3> QED BY <1>1, <2>0, <3>1, <3>2, <3>3, ReplayedTyped DEF Create, Reasons, Places
  <2> QED BY <2>0, <2>1, <2>2, <1>c, <1>t DEF TypeOK
<1>2. ASSUME NEW r \in Requests, Mint(r)
      PROVE  TypeOK'
  <2>0. r \in Creates /\ UNCHANGED <<now, crashes>> /\ r \in Payments /\ AskOf[r] \in Asks
    BY <1>2, RequestsApart DEF Mint
  <2>1. ClaimsTyped(claims')
    BY <1>2, <1>c, <2>0, FulfilledTyped, ReleasedTyped DEF Mint
  <2>2. Answered(r) \in Replies /\ Finish(r, Answered(r))
    BY <1>2, <2>0 DEF Replies, Mint
  <2>3. at' \in [Requests -> Places] /\ until' \in [Requests -> Nat] /\ answer' \in [Requests -> Replies]
    BY <2>2, FinishTyped
  <2>4. StoredTyped(stored', pending')
    BY <1>2, <2>0, PutTyped DEF Mint
  <2> QED BY <2>0, <2>1, <2>3, <2>4, <1>t DEF TypeOK
<1>3. ASSUME NEW r \in Requests, Watch(r)
      PROVE  TypeOK'
  <2>0. UNCHANGED <<now, claims, stored, pending, crashes>>
    BY <1>3 DEF Watch
  <2>1. Refused("full") \in Replies /\ Refused("watched") \in Replies
    BY DEF Replies, Reasons
  <2>2. at' \in [Requests -> Places] /\ until' \in [Requests -> Nat] /\ answer' \in [Requests -> Replies]
    BY <1>3, <2>1, FinishTyped, AwaitTyped DEF Watch, Places
  <2> QED BY <2>0, <2>2, <1>c, <1>t DEF TypeOK
<1>4. ASSUME NEW r \in Requests, Insert(r)
      PROVE  TypeOK'
  <2>0. r \in Watches /\ UNCHANGED <<now, claims, crashes>> /\ HashOf[r] \in Payments /\ AskOf[r] \in Asks
    BY <1>4, RequestsApart DEF Insert
  <2>1. Answered(HashOf[r]) \in Replies /\ Finish(r, Answered(HashOf[r]))
    BY <1>4, <2>0 DEF Replies, Insert
  <2>2. at' \in [Requests -> Places] /\ until' \in [Requests -> Nat] /\ answer' \in [Requests -> Replies]
    BY <2>1, FinishTyped
  <2>3. StoredTyped(stored', pending')
    BY <1>4, <2>0, <1>c, PutTyped DEF Insert
  <2> QED BY <2>0, <2>2, <2>3, <1>c, <1>t DEF TypeOK
<1>5. ASSUME NEW r \in Requests, Probed(r) \/ Paced(r) \/ Confirmed(r)
      PROVE  TypeOK'
  <2>0. UNCHANGED <<now, claims, stored, pending, crashes>>
    BY <1>5 DEF Probed, Paced, Confirmed
  <2>1. at' \in [Requests -> Places] /\ until' \in [Requests -> Nat] /\ answer' \in [Requests -> Replies]
    BY <1>5, AwaitTyped DEF Probed, Paced, Confirmed, Places
  <2> QED BY <2>0, <2>1, <1>c, <1>t DEF TypeOK
<1>6. ASSUME NEW r \in Requests, Refuse(r) \/ TurnAway(r)
      PROVE  TypeOK'
  BY <1>6, GiveUpTyped DEF Refuse, TurnAway, Reasons
<1>7. ASSUME NEW p \in Payments, End(p) \/ Forget(p)
      PROVE  TypeOK'
  BY <1>7 DEF End, Forget, Drop, TypeOK
<1>8. ASSUME Crash
      PROVE  TypeOK'
  <2>1. StoredTyped(stored', pending')
    BY <1>8, <1>c, PutTyped, RequestsApart DEF Crash
  <2> QED BY <1>8, <2>1 DEF Crash, TypeOK, StoredTyped, InHand
<1>9. CASE Tick
  BY <1>9 DEF Tick, TypeOK
<1>10. CASE UNCHANGED vars
  BY <1>10 DEF vars, TypeOK
<1> QED BY <1>1, <1>2, <1>3, <1>4, <1>5, <1>6, <1>7, <1>8, <1>9, <1>10 DEF Next

LEMMA InitTyped == Init => TypeOK
BY DEF Init, TypeOK, Waiting, Reasons

\* The type invariant of Intake, for any requests: what is on the worklist is in
\* the ledger, and the table of keys names requests and payments there are.
THEOREM Typed == Spec => []TypeOK
<1>1. TypeOK /\ [Next]_vars => TypeOK'
  BY StepTyped
<1> QED BY InitTyped, <1>1, PTL DEF Spec

-----------------------------------------------------------------------------
(* The quota *)

Counted == IsFiniteSet(pending) /\ QuotaHolds

\* One more is within the quota where the last count found room.
LEMMA RoomForOne ==
    ASSUME Counted, ~Full, NEW p
    PROVE  IsFiniteSet(pending \cup {p}) /\ Cardinality(pending \cup {p}) <= MaxPending
<1>1. Cardinality(pending) \in Nat
  BY FS_CardinalityType DEF Counted
<1>2. /\ IsFiniteSet(pending \cup {p})
      /\ Cardinality(pending \cup {p}) = IF p \in pending THEN Cardinality(pending) ELSE Cardinality(pending) + 1
  BY FS_AddElement DEF Counted
<1> QED BY <1>1, <1>2 DEF Counted, Full, QuotaHolds

LEMMA StepCounted ==
    ASSUME Counted, [Next]_vars
    PROVE  Counted'
<1>0. ASSUME UNCHANGED pending
      PROVE  Counted'
  BY <1>0 DEF Counted, QuotaHolds
<1>1. ASSUME NEW p, ~Full, pending' = pending \cup {p}
      PROVE  Counted'
  BY <1>1, RoomForOne DEF Counted, QuotaHolds
<1>2. ASSUME NEW r \in Requests, Mint(r)
      PROVE  Counted'
  BY <1>2, <1>1 DEF Mint
<1>3. ASSUME NEW r \in Requests, Insert(r)
      PROVE  Counted'
  BY <1>3, <1>0, <1>1 DEF Insert
<1>4. ASSUME NEW r \in Requests,
             Create(r) \/ Watch(r) \/ Probed(r) \/ Paced(r) \/ Confirmed(r) \/ Refuse(r) \/ TurnAway(r)
      PROVE  Counted'
  <2>1. UNCHANGED pending
    BY <1>4 DEF Create, Watch, Probed, Paced, Confirmed, Refuse, TurnAway, GiveUp
  <2> QED BY <2>1, <1>0
<1>5. ASSUME NEW p \in Payments, End(p)
      PROVE  Counted'
  <2>1. Cardinality(pending) \in Nat
    BY FS_CardinalityType DEF Counted
  <2>2. pending' \in SUBSET pending
    BY <1>5 DEF End
  <2>3. IsFiniteSet(pending') /\ Cardinality(pending') <= Cardinality(pending)
    BY <2>2, FS_Subset DEF Counted
  <2>4. Cardinality(pending') \in Nat
    BY <2>3, FS_CardinalityType
  <2> QED BY <2>1, <2>3, <2>4 DEF Counted, QuotaHolds
<1>6. ASSUME NEW p \in Payments, Forget(p)
      PROVE  Counted'
  BY <1>6, <1>0 DEF Forget
<1>7. CASE Crash
  BY <1>7, <1>0, <1>1 DEF Crash
<1>8. CASE Tick
  BY <1>8, <1>0 DEF Tick
<1>9. CASE UNCHANGED vars
  BY <1>9, <1>0 DEF vars
<1> QED BY <1>2, <1>3, <1>4, <1>5, <1>6, <1>7, <1>8, <1>9 DEF Next

\* The quota holds for any number of handlers side by side (index.ts mint,
\* watchOnly; store.ts full): both count again after their last await, and a crash
\* after the insert has counted too.
THEOREM QuotaAlwaysHolds == Spec => []QuotaHolds
<1>1. Init => Counted
  BY FS_EmptySet DEF Init, Counted, QuotaHolds
<1>2. Counted /\ [Next]_vars => Counted'
  BY StepCounted
<1>3. Counted => QuotaHolds
  BY DEF Counted
<1> QED BY <1>1, <1>2, <1>3, PTL DEF Spec

-----------------------------------------------------------------------------
(* The keys *)

\* The lease of a key outlasts a handler that asks no webhook: it waits for its
\* wallet and for nothing else.
LeaseCovers == Resolve < ClaimLease

\* A handler in hand holds its key, as long as no handler with a webhook outlived the
\* lease of it: the row is there, with its fingerprint, not fulfilled, and leased -
\* for longer than the handler can still take, when it has no webhook.
Holds(r) ==
    \A k \in KeyOf[r] \ Outlived :
        /\ k \in DOMAIN claims
        /\ claims[k].ask = AskOf[r] /\ claims[k].payment = {}
        /\ now < claims[k].leaseUntil
        /\ r \notin Hooked => until[r] < claims[k].leaseUntil
Place(r) ==
    /\ at[r] \in {"pacing", "confirming", "minting"} /\ now <= until[r]
    /\ r \notin Hooked => at[r] = "minting"
KeysHeld == \A r \in Creates : InHand(r) => Place(r) /\ Holds(r)

\* A key that is fulfilled names the payment of a request that asked for the same.
KeysTrue ==
    \A k \in DOMAIN claims \ Outlived : claims[k].payment # {} =>
        \E p \in Creates : claims[k].payment = {p} /\ AskOf[p] = claims[k].ask

\* A payment that was given out under a key stays under it.
Keeps(r) ==
    /\ answer[r].payment \in Creates /\ AskOf[answer[r].payment] = AskOf[r]
    /\ \A k \in KeyOf[r] : k \in DOMAIN claims /\ claims[k].payment = {answer[r].payment}
KeysKept == \A r \in Creates : Given(r) => at[r] = "answered" /\ (Leased(r) => Keeps(r))

KeyInv == TypeOK /\ OneHandlerPerKey /\ KeysHeld /\ KeysTrue /\ KeysKept

\* A request offers at most one key, so two that share one offer the same.
LEMMA SharedKeys ==
    ASSUME NEW r \in Creates, NEW s \in Creates, KeyOf[r] \cap KeyOf[s] # {}
    PROVE  KeyOf[r] = KeyOf[s] /\ KeyOf[r] # {}
OBVIOUS

\* The keys of r may be rewritten: nothing was given out under them, and no other
\* handler holds them.
Free(r) ==
    /\ \A k \in (KeyOf[r] \ Outlived) \cap DOMAIN claims : claims[k].payment = {}
    /\ \A s \in Creates \ {r} : InHand(s) => KeyOf[s] \cap KeyOf[r] \subseteq Outlived

\* A key that is r's to take is free: whoever else holds it has a lease that lasts.
LEMMA MineIsFree ==
    ASSUME KeyInv, NEW r \in Creates, ClaimState(r) = "mine"
    PROVE  Free(r)
<1>1. \A k \in KeyOf[r] \cap DOMAIN claims : claims[k].payment = {} /\ ~(claims[k].leaseUntil > now)
  BY DEF ClaimState
<1>2. ASSUME NEW s \in Creates, InHand(s), NEW k \in (KeyOf[s] \cap KeyOf[r]) \ Outlived
      PROVE  FALSE
  <2>1. k \in DOMAIN claims /\ now < claims[k].leaseUntil
    BY <1>2 DEF KeyInv, KeysHeld, Holds
  <2>2. now \in Nat /\ claims[k].leaseUntil \in Nat
    BY <1>2, <2>1 DEF KeyInv, TypeOK, Claims
  <2> QED BY <2>1, <2>2, <1>1, <1>2
<1> QED BY <1>1, <1>2 DEF Free

\* So are the keys of a handler in hand.
LEMMA HeldIsFree ==
    ASSUME KeyInv, NEW r \in Creates, InHand(r)
    PROVE  Free(r)
<1>1. \A k \in KeyOf[r] \ Outlived : claims[k].payment = {}
  BY DEF KeyInv, KeysHeld, Holds
<1>2. ASSUME NEW s \in Creates \ {r}, InHand(s), NEW k \in (KeyOf[s] \cap KeyOf[r]) \ Outlived
      PROVE  FALSE
  <2>1. KeyOf[r] = KeyOf[s] /\ KeyOf[r] # {} /\ KeyOf[r] = {k}
    BY <1>2, SharedKeys
  <2>2. Leased(r)
    BY <1>2, <2>1 DEF Leased
  <2> QED BY <1>2, <2>1, <2>2 DEF KeyInv, OneHandlerPerKey
<1> QED BY <1>1, <1>2 DEF Free

\* A step of r that rewrites only r's free keys leaves the others what they have.
OthersOf(r) ==
    /\ now' = now /\ overran' = overran
    /\ \A s \in Creates \ {r} : at'[s] = at[s] /\ until'[s] = until[s] /\ answer'[s] = answer[s]
    /\ \A k \in Keys \ KeyOf[r] :
          (k \in DOMAIN claims' <=> k \in DOMAIN claims) /\ (k \in DOMAIN claims => claims'[k] = claims[k])

HeldBy(r) == InHand(r) => Place(r) /\ Holds(r)
TrueAt(k) ==
    k \in DOMAIN claims \ Outlived /\ claims[k].payment # {} =>
        \E p \in Creates : claims[k].payment = {p} /\ AskOf[p] = claims[k].ask
KeptBy(r) == Given(r) => at[r] = "answered" /\ (Leased(r) => Keeps(r))

LEMMA OthersKeep ==
    ASSUME KeyInv, NEW r \in Creates, Free(r), OthersOf(r), TypeOK',
           HeldBy(r)', KeptBy(r)', \A k \in KeyOf[r] : TrueAt(k)'
    PROVE  KeyInv'
<1>k. KeyOf[r] \subseteq Keys /\ DOMAIN claims \subseteq Keys /\ DOMAIN claims' \subseteq Keys
  BY DEF KeyInv, TypeOK
<1>o. Outlived' = Outlived /\ \A s \in Creates : Leased(s)' <=> Leased(s)
  BY DEF OthersOf, Outlived, Leased
<1>1. ASSUME NEW s \in Creates \ {r}
      PROVE  HeldBy(s)' /\ KeptBy(s)'
  <2>k. KeyOf[s] \subseteq Keys
    OBVIOUS
  <2>0. at'[s] = at[s] /\ until'[s] = until[s] /\ answer'[s] = answer[s] /\ now' = now
    BY DEF OthersOf
  <2>1. HeldBy(s)'
    <3> SUFFICES ASSUME InHand(s)
                 PROVE  HeldBy(s)'
      BY <2>0 DEF HeldBy, InHand
    <3>1. KeyOf[s] \cap KeyOf[r] \subseteq Outlived /\ Place(s) /\ Holds(s)
      BY DEF Free, KeyInv, KeysHeld
    <3>2. \A k \in KeyOf[s] \ Outlived : (k \in DOMAIN claims' <=> k \in DOMAIN claims) /\ claims'[k] = claims[k]
      BY <3>1, <2>k DEF OthersOf, Holds
    <3>3. Place(s)'
      BY <3>1, <2>0 DEF Place
    <3>4. Holds(s)'
      BY <3>1, <3>2, <2>0, <1>o DEF Holds
    <3> QED BY <3>3, <3>4 DEF HeldBy
  <2>2. KeptBy(s)'
    <3> SUFFICES ASSUME Given(s)
                 PROVE  KeptBy(s)'
      BY <2>0 DEF KeptBy, Given
    <3>1. KeptBy(s)
      BY DEF KeyInv, KeysKept, KeptBy
    <3>2. ASSUME Leased(s)
          PROVE  Keeps(s)'
      <4>1. Keeps(s)
        BY <3>1, <3>2 DEF KeptBy
      <4>2. KeyOf[s] \cap KeyOf[r] = {}
        BY <4>1, <3>2 DEF Keeps, Free, Leased
      <4> QED BY <4>1, <4>2, <2>0, <2>k DEF Keeps, OthersOf
    <3> QED BY <3>1, <3>2, <2>0, <1>o DEF KeptBy
  <2> QED BY <2>1, <2>2
<1>2. OneHandlerPerKey'
  <2>1. \A s \in Creates \ {r} : InHand(s)' <=> InHand(s)
    BY DEF OthersOf, InHand
  <2>2. \A s \in Creates \ {r} : InHand(s) => KeyOf[s] \cap KeyOf[r] \subseteq Outlived
    BY DEF Free
  <2>3. \A s \in Creates \ {r} : InHand(s) /\ KeyOf[s] = KeyOf[r] /\ KeyOf[r] # {} => ~Leased(r) /\ ~Leased(s)
    BY <2>2 DEF Leased
  <2> QED BY <1>o, <2>1, <2>3 DEF KeyInv, OneHandlerPerKey
<1>3. KeysTrue'
  <2> SUFFICES ASSUME NEW k \in Keys
               PROVE  TrueAt(k)'
    BY <1>k DEF KeysTrue, TrueAt
  <2>1. CASE k \notin KeyOf[r]
    <3>1. TrueAt(k)
      BY DEF KeyInv, KeysTrue, TrueAt
    <3> QED BY <2>1, <3>1, <1>o DEF OthersOf, TrueAt
  <2> QED BY <2>1
<1>4. KeysHeld' /\ KeysKept'
  BY <1>1 DEF KeysHeld, KeysKept, HeldBy, KeptBy
<1> QED BY <1>2, <1>3, <1>4 DEF KeyInv

\* Nothing about keys changes.
LEMMA SameKeeps ==
    ASSUME KeyInv, TypeOK', claims' = claims, now' = now, overran' = overran,
           \A s \in Creates : at'[s] = at[s] /\ until'[s] = until[s] /\ answer'[s] = answer[s]
    PROVE  KeyInv'
<1>1. Outlived' = Outlived
  BY DEF Outlived
<1>2. \A s \in Creates : /\ (InHand(s)' <=> InHand(s)) /\ (Given(s)' <=> Given(s)) /\ (Leased(s)' <=> Leased(s))
                         /\ (Holds(s)' <=> Holds(s)) /\ (Place(s)' <=> Place(s)) /\ (Keeps(s)' <=> Keeps(s))
  BY <1>1 DEF InHand, Given, Leased, Holds, Place, Keeps
<1>3. OneHandlerPerKey' /\ KeysHeld' /\ KeysTrue' /\ KeysKept'
  BY <1>1, <1>2 DEF KeyInv, OneHandlerPerKey, KeysHeld, KeysTrue, KeysKept
<1> QED BY <1>3 DEF KeyInv

\* The claim: refused, replayed or taken.
LEMMA CreateKeeps ==
    ASSUME LeaseCovers, KeyInv, TypeOK', NEW r \in Creates, Create(r)
    PROVE  KeyInv'
<1>0. at[r] = "new" /\ now' = now /\ r \in Requests
  BY DEF Create, Requests
<1>t. /\ at \in [Requests -> Places] /\ until \in [Requests -> Nat] /\ answer \in [Requests -> Replies]
      /\ now \in Nat
  BY DEF KeyInv, TypeOK, Places, Replies
<1>1. ASSUME NEW a, Finish(r, a)
      PROVE  /\ at'[r] = "answered" /\ answer'[r] = a
             /\ \A s \in Creates \ {r} : at'[s] = at[s] /\ until'[s] = until[s] /\ answer'[s] = answer[s]
  BY <1>1, <1>0, <1>t DEF Finish, Requests
<1>o. overran' = overran /\ Outlived' = Outlived /\ \A s \in Creates : Leased(s)' <=> Leased(s)
  BY DEF Create, Outlived, Leased
<1>a. ASSUME NEW a, Finish(r, a), claims' = claims, KeptBy(r)'
      PROVE  KeyInv'
  <2>1. \A s \in Creates : InHand(s)' => InHand(s) /\ s # r
    BY <1>a, <1>1 DEF InHand
  <2>2. \A s \in Creates \ {r} : KeptBy(s)' /\ HeldBy(s)'
    <3> TAKE s \in Creates \ {r}
    <3>1. at'[s] = at[s] /\ until'[s] = until[s] /\ answer'[s] = answer[s]
      BY <1>a, <1>1
    <3>2. KeptBy(s) /\ HeldBy(s)
      BY DEF KeyInv, KeysHeld, KeysKept, KeptBy, HeldBy
    <3> QED BY <3>1, <3>2, <1>a, <1>0, <1>o DEF KeptBy, HeldBy, Given, InHand, Holds, Place, Keeps
  <2>3. HeldBy(r)'
    BY <2>1 DEF HeldBy
  <2>4. KeysHeld' /\ KeysKept'
    BY <1>a, <2>2, <2>3 DEF KeysHeld, KeysKept, HeldBy, KeptBy
  <2>5. OneHandlerPerKey'
    BY <2>1, <1>o DEF KeyInv, OneHandlerPerKey
  <2>6. KeysTrue'
    BY <1>a, <1>o DEF KeyInv, KeysTrue
  <2> QED BY <2>4, <2>5, <2>6 DEF KeyInv
<1>2. CASE ClaimState(r) = "done"
  <2>0. Finish(r, Replayed(r)) /\ claims' = claims
    BY <1>2 DEF Create
  <2>1. PICK k \in KeyOf[r] \cap DOMAIN claims : claims[k].payment # {}
    BY <1>2 DEF ClaimState
  <2>2. KeyOf[r] = {k}
    BY <2>1
  <2>3. claims[k].ask = AskOf[r]
    BY <1>2, <2>1 DEF ClaimState
  <2>4. ASSUME Leased(r), Given(r)'
        PROVE  Keeps(r)'
    <3>1. k \notin Outlived
      BY <2>2, <2>4 DEF Leased
    <3>2. PICK p \in Creates : claims[k].payment = {p} /\ AskOf[p] = AskOf[r]
      BY <2>1, <2>3, <3>1 DEF KeyInv, KeysTrue
    <3>3. p \in Payments /\ \A q \in Payments : (\E j \in KeyOf[r] : claims[j].payment = {q}) => q = p
      BY <2>2, <3>2 DEF Payments
    <3>4. Replayed(r) \in {Answered(p), Refused("gone")}
      BY <2>2, <3>2, <3>3 DEF Replayed
    <3>5. answer'[r] = Answered(p)
      BY <2>0, <2>4, <3>4, <1>1 DEF Given, Refused
    <3> QED BY <2>0, <2>1, <2>2, <3>2, <3>5 DEF Keeps, Answered
  <2>5. at'[r] = "answered"
    BY <2>0, <1>1
  <2>6. KeptBy(r)'
    BY <2>4, <2>5, <1>o DEF KeptBy
  <2> QED BY <2>0, <2>6, <1>a
<1>3. CASE ClaimState(r) \in {"inflight", "mismatch"}
  <2>0. PICK why \in {"conflict", "mismatch"} : Finish(r, Refused(why)) /\ claims' = claims
    BY <1>3 DEF Create
  <2>1. KeptBy(r)'
    BY <2>0, <1>1 DEF KeptBy, Given, Refused
  <2> QED BY <2>0, <2>1, <1>a
<1>4. CASE ClaimState(r) = "mine" /\ Full
  <2>0. Finish(r, Refused("full")) /\ claims' = Released(Claimed(r), r)
    BY <1>4 DEF Create
  <2>1. \A k \in KeyOf[r] : k \notin DOMAIN claims'
    BY <2>0 DEF Released, Claimed, Drop
  <2>2. OthersOf(r)
    BY <2>0, <1>0, <1>o, <1>1 DEF OthersOf, Released, Claimed, Drop
  <2>3. HeldBy(r)' /\ KeptBy(r)' /\ \A k \in KeyOf[r] : TrueAt(k)'
    BY <2>0, <2>1, <1>1 DEF HeldBy, KeptBy, TrueAt, InHand, Given, Refused
  <2> QED BY <1>4, <2>2, <2>3, MineIsFree, OthersKeep
<1>5. CASE ClaimState(r) = "mine" /\ ~Full
  <2>0. /\ claims' = Claimed(r)
        /\ IF r \in Hooked THEN Await(r, "pacing", Pace) ELSE Await(r, "minting", Resolve)
    BY <1>5 DEF Create
  <2>1. OthersOf(r) /\ answer' = answer
    BY <2>0, <1>0, <1>o, <1>t DEF OthersOf, Claimed, Await, Requests
  <2>2. \A k \in KeyOf[r] : /\ k \in DOMAIN claims' /\ claims'[k].ask = AskOf[r] /\ claims'[k].payment = {}
                            /\ claims'[k].leaseUntil = now + ClaimLease
    BY <2>0 DEF Claimed
  <2>3. HeldBy(r)'
    <3>1. ClaimLease \in Nat /\ Pace \in Nat /\ Resolve \in Nat /\ Resolve < ClaimLease
      BY DurationsAssumption DEF LeaseCovers
    <3>2. CASE r \in Hooked
      <4>1. at'[r] = "pacing" /\ until'[r] = now + Pace
        BY <3>2, <2>0, <1>0, <1>t DEF Await
      <4> QED BY <3>1, <3>2, <4>1, <2>2, <1>0, <1>t DEF HeldBy, Holds, Place
    <3>3. CASE r \notin Hooked
      <4>1. at'[r] = "minting" /\ until'[r] = now + Resolve
        BY <3>3, <2>0, <1>0, <1>t DEF Await
      <4> QED BY <3>1, <4>1, <2>2, <1>0, <1>t DEF HeldBy, Holds, Place
    <3> QED BY <3>2, <3>3
  <2>4. ~Given(r) /\ KeptBy(r)' /\ \A k \in KeyOf[r] : TrueAt(k)'
    BY <1>0, <2>1, <2>2 DEF KeyInv, KeysKept, KeptBy, TrueAt, Given
  <2> QED BY <1>5, <2>1, <2>3, <2>4, MineIsFree, OthersKeep
<1> QED BY <1>2, <1>3, <1>4, <1>5 DEF ClaimState

\* The invoice is there: the key is fulfilled with it.
LEMMA MintKeeps ==
    ASSUME KeyInv, TypeOK', NEW r \in Creates, Mint(r)
    PROVE  KeyInv'
<1>t. /\ at \in [Requests -> Places] /\ until \in [Requests -> Nat] /\ answer \in [Requests -> Replies]
      /\ r \in Requests
  BY DEF KeyInv, TypeOK, Places, Replies, Requests
<1>0. /\ InHand(r) /\ Finish(r, Answered(r)) /\ now' = now /\ overran' = overran
      /\ claims' = Released(Fulfilled(claims, r, r), r)
  BY DEF Mint, InHand
<1>1. /\ at'[r] = "answered" /\ answer'[r] = Answered(r)
      /\ \A s \in Creates \ {r} : at'[s] = at[s] /\ until'[s] = until[s] /\ answer'[s] = answer[s]
  BY <1>0, <1>t DEF Finish, Requests
<1>2. \A k \in KeyOf[r] \ Outlived : k \in DOMAIN claims /\ claims[k].ask = AskOf[r]
  BY <1>0 DEF KeyInv, KeysHeld, Holds
<1>3. /\ DOMAIN Fulfilled(claims, r, r) = DOMAIN claims
      /\ \A k \in DOMAIN claims : k \notin KeyOf[r] => Fulfilled(claims, r, r)[k] = claims[k]
  BY DEF Fulfilled
<1>4. \A k \in KeyOf[r] \cap DOMAIN claims : /\ Fulfilled(claims, r, r)[k].payment = {r}
                                             /\ Fulfilled(claims, r, r)[k].ask = claims[k].ask
  <2>1. \A k \in KeyOf[r] \cap DOMAIN claims : claims[k] \in Claims
    BY DEF KeyInv, TypeOK
  <2> QED BY <2>1, FulfilledRow
<1>5. claims' = Fulfilled(claims, r, r)
  <2>1. {k \in KeyOf[r] \cap DOMAIN Fulfilled(claims, r, r) : Fulfilled(claims, r, r)[k].payment = {}} = {}
    BY <1>3, <1>4
  <2>2. claims' = Drop(Fulfilled(claims, r, r), {})
    BY <1>0, <2>1 DEF Released
  <2>3. DOMAIN Fulfilled(claims, r, r) = DOMAIN claims
    BY DEF Fulfilled
  <2>4. claims' = [k \in DOMAIN claims |-> Fulfilled(claims, r, r)[k]]
    BY <2>2, <2>3 DEF Drop
  <2> QED BY <2>4 DEF Fulfilled
<1>6. OthersOf(r)
  BY <1>0, <1>1, <1>3, <1>5 DEF OthersOf
<1>o. Outlived' = Outlived
  BY <1>0 DEF Outlived
<1>7. HeldBy(r)'
  BY <1>1 DEF HeldBy, InHand
<1>8. KeptBy(r)'
  BY <1>1, <1>2, <1>3, <1>4, <1>5, <1>o DEF KeptBy, Keeps, Leased, Answered
<1>9. \A k \in KeyOf[r] : TrueAt(k)'
  BY <1>2, <1>3, <1>4, <1>5, <1>o DEF TrueAt
<1> QED BY <1>0, <1>6, <1>7, <1>8, <1>9, HeldIsFree, OthersKeep

\* Nothing was minted: the key is released.
LEMMA GiveUpKeeps ==
    ASSUME KeyInv, TypeOK', NEW r \in Creates, InHand(r), NEW why \in Reasons, GiveUp(r, why)
    PROVE  KeyInv'
<1>t. /\ at \in [Requests -> Places] /\ until \in [Requests -> Nat] /\ answer \in [Requests -> Replies]
      /\ r \in Requests
  BY DEF KeyInv, TypeOK, Places, Replies, Requests
<1>0. Finish(r, Refused(why)) /\ now' = now /\ overran' = overran /\ claims' = Released(claims, r)
  BY DEF GiveUp
<1>1. /\ at'[r] = "answered" /\ answer'[r] = Refused(why)
      /\ \A s \in Creates \ {r} : at'[s] = at[s] /\ until'[s] = until[s] /\ answer'[s] = answer[s]
  BY <1>0, <1>t DEF Finish, Requests
<1>o. Outlived' = Outlived
  BY <1>0 DEF Outlived
<1>2. \A k \in KeyOf[r] \ Outlived : k \notin DOMAIN claims'
  BY <1>0 DEF KeyInv, KeysHeld, Holds, Released, Drop
<1>3. OthersOf(r)
  BY <1>0, <1>1 DEF OthersOf, Released, Drop
<1>4. why # "created"
  BY DEF Reasons
<1>5. HeldBy(r)' /\ KeptBy(r)' /\ \A k \in KeyOf[r] : TrueAt(k)'
  BY <1>1, <1>2, <1>4, <1>o DEF HeldBy, KeptBy, TrueAt, InHand, Given, Refused
<1> QED BY <1>3, <1>5, HeldIsFree, OthersKeep

\* From one wait to the next: the lease was taken for all of them.
LEMMA AwaitKeeps ==
    ASSUME KeyInv, TypeOK', NEW r \in Creates, Paced(r) \/ Confirmed(r)
    PROVE  KeyInv'
<1>t. /\ at \in [Requests -> Places] /\ until \in [Requests -> Nat] /\ answer \in [Requests -> Replies]
      /\ r \in Requests /\ now \in Nat /\ Challenge \in Nat /\ Resolve \in Nat
  BY DurationsAssumption DEF KeyInv, TypeOK, Places, Replies, Requests
<1>0. InHand(r) /\ claims' = claims /\ now' = now /\ answer' = answer /\ overran' = overran
  BY DEF Paced, Confirmed, InHand, Await
<1>1. \A s \in Creates \ {r} : at'[s] = at[s] /\ until'[s] = until[s]
  BY <1>t DEF Paced, Confirmed, Await, Requests
<1>2. Place(r) /\ Holds(r) /\ r \in Hooked
  <2>1. Place(r) /\ Holds(r)
    BY <1>0 DEF KeyInv, KeysHeld
  <2> QED BY <2>1 DEF Place, Paced, Confirmed
<1>o. Outlived' = Outlived
  BY <1>0 DEF Outlived
<1>3. Place(r)'
  <2>1. at'[r] \in {"confirming", "minting"} /\ until'[r] \in {now + Challenge, now + Resolve}
    BY <1>t DEF Paced, Confirmed, Await
  <2> QED BY <2>1, <1>0, <1>2, <1>t DEF Place
<1>4. Holds(r)'
  BY <1>0, <1>2, <1>o DEF Holds
<1>5. OthersOf(r)
  BY <1>0, <1>1 DEF OthersOf
<1>6. ~Given(r)
  BY <1>0 DEF KeyInv, KeysKept, InHand
<1>7. HeldBy(r)' /\ KeptBy(r)' /\ \A k \in KeyOf[r] : TrueAt(k)'
  BY <1>0, <1>3, <1>4, <1>6, <1>o DEF KeyInv, KeysTrue, TrueAt, KeptBy, HeldBy, Given
<1> QED BY <1>0, <1>5, <1>7, HeldIsFree, OthersKeep

LEMMA StepKeys ==
    ASSUME LeaseCovers, KeyInv, [Next]_vars
    PROVE  KeyInv'
<1>t. TypeOK /\ TypeOK'
  BY StepTyped DEF KeyInv
<1>1. ASSUME NEW r \in Requests, Create(r)
      PROVE  KeyInv'
  BY <1>1, <1>t, CreateKeeps DEF Create
<1>2. ASSUME NEW r \in Requests, Mint(r)
      PROVE  KeyInv'
  BY <1>2, <1>t, MintKeeps DEF Mint
<1>3. ASSUME NEW r \in Requests, r \in Creates, Paced(r) \/ Confirmed(r) \/ Refuse(r) \/ TurnAway(r)
      PROVE  KeyInv'
  <2>1. CASE Refuse(r)
    BY <1>3, <2>1, <1>t, GiveUpKeeps DEF Refuse, Reasons
  <2>2. CASE TurnAway(r)
    <3>1. at[r] = "minting"
      BY <1>3, <2>2 DEF TurnAway, LastWait
    <3> QED BY <1>3, <2>2, <3>1, <1>t, GiveUpKeeps DEF TurnAway, InHand, Reasons
  <2> QED BY <1>3, <2>1, <2>2, <1>t, AwaitKeeps
<1>4. ASSUME NEW r \in Watches, Watch(r) \/ Probed(r) \/ Insert(r) \/ Paced(r) \/ Refuse(r) \/ TurnAway(r)
      PROVE  KeyInv'
  <2>1. r \in Requests /\ r \notin Creates
    BY DEF Requests
  <2>2. claims' = claims /\ now' = now /\ overran' = overran
    BY <1>4, <2>1 DEF Watch, Probed, Insert, Paced, Refuse, TurnAway, GiveUp
  <2>3. (\E a : Finish(r, a)) \/ (\E w, d : Await(r, w, d))
    BY <1>4 DEF Watch, Probed, Insert, Paced, Refuse, TurnAway, GiveUp
  <2>4. \A s \in Creates : at'[s] = at[s] /\ until'[s] = until[s] /\ answer'[s] = answer[s]
    BY <2>1, <2>3, <1>t DEF Finish, Await, TypeOK, Requests
  <2> QED BY <2>2, <2>4, <1>t, SameKeeps
<1>5. ASSUME NEW p \in Payments, End(p) \/ Forget(p)
      PROVE  KeyInv'
  BY <1>5, <1>t, SameKeeps DEF End, Forget
<1>6. CASE Crash
  <2>1. /\ claims' = claims /\ now' = now /\ answer' = answer /\ overran' = overran
        /\ \A s \in Creates : ~InHand(s)' /\ (at[s] = "answered" => at'[s] = "answered")
    BY <1>6 DEF Crash, InHand, Requests
  <2>2. Outlived' = Outlived
    BY <2>1 DEF Outlived
  <2>3. OneHandlerPerKey' /\ KeysHeld'
    BY <2>1 DEF OneHandlerPerKey, KeysHeld
  <2>4. KeysTrue'
    BY <2>1, <2>2 DEF KeyInv, KeysTrue
  <2>5. KeysKept'
    BY <2>1, <2>2 DEF KeyInv, KeysKept, Given, Leased, Keeps
  <2> QED BY <2>3, <2>4, <2>5, <1>t DEF KeyInv
<1>7. CASE Tick
  <2>1. UNCHANGED <<at, until, answer, claims>> /\ now' = now + 1 /\ now \in Nat
    BY <1>7, <1>t DEF Tick, TypeOK
  <2>2. \A s \in Creates : InHand(s) => now < until[s] /\ until[s] \in Nat
    BY <1>7, <1>t DEF Tick, Requests, TypeOK
  <2>3. Outlived \subseteq Outlived' /\ \A s \in Creates : Leased(s)' => Leased(s)
    BY <1>7 DEF Tick, Outlived, Leased
  <2>4. ASSUME NEW s \in Creates, InHand(s)'
        PROVE  Place(s)' /\ Holds(s)'
    <3>1. InHand(s) /\ Place(s) /\ Holds(s)
      BY <2>1, <2>4 DEF InHand, KeyInv, KeysHeld
    <3>2. Place(s)'
      BY <2>1, <2>2, <3>1 DEF Place
    <3>3. ASSUME NEW k \in KeyOf[s] \ Outlived'
          PROVE  now' < claims[k].leaseUntil
      <4>1. k \in DOMAIN claims /\ k \in KeyOf[s] \ Outlived
        BY <2>3, <3>1, <3>3 DEF Holds
      <4>2. claims[k].leaseUntil \in Nat
        BY <4>1, <1>t DEF TypeOK, Claims
      <4>3. CASE s \in Hooked
        <5>1. s \notin overran'
          BY <3>3, <4>3 DEF Outlived
        <5>2. ~(claims[k].leaseUntil <= now')
          BY <1>7, <3>1, <4>1, <5>1 DEF Tick
        <5> QED BY <2>1, <4>2, <5>2
      <4>4. CASE s \notin Hooked
        <5>1. until[s] < claims[k].leaseUntil
          BY <3>1, <4>1, <4>4 DEF Holds
        <5> QED BY <2>1, <2>2, <3>1, <4>2, <5>1
      <4> QED BY <4>3, <4>4
    <3>4. Holds(s)'
      BY <2>1, <2>3, <3>1, <3>3 DEF Holds
    <3> QED BY <3>2, <3>4
  <2>5. KeysHeld'
    BY <2>4 DEF KeysHeld
  <2>6. OneHandlerPerKey'
    BY <2>1, <2>3 DEF KeyInv, OneHandlerPerKey, InHand
  <2>7. KeysTrue'
    BY <2>1, <2>3 DEF KeyInv, KeysTrue
  <2>8. KeysKept'
    BY <2>1, <2>3 DEF KeyInv, KeysKept, Given, Keeps
  <2> QED BY <2>5, <2>6, <2>7, <2>8, <1>t DEF KeyInv
<1>8. CASE UNCHANGED vars
  BY <1>8, <1>t, SameKeeps DEF vars
<1>9. ASSUME NEW r \in Requests, Watch(r) \/ Probed(r) \/ Insert(r) \/ Paced(r) \/ Confirmed(r) \/ Refuse(r) \/ TurnAway(r)
      PROVE  KeyInv'
  <2>1. CASE r \in Watches
    <3>1. ~Confirmed(r)
      BY <2>1 DEF Confirmed
    <3> QED BY <1>9, <2>1, <3>1, <1>4
  <2>2. CASE r \in Creates
    <3>1. ~Watch(r) /\ ~Insert(r)
      BY <2>2 DEF Watch, Insert
    <3>2. ~Probed(r)
      BY <2>2 DEF Probed, KeyInv, KeysHeld, Place, InHand
    <3> QED BY <1>9, <2>2, <3>1, <3>2, <1>3
  <2> QED BY <2>1, <2>2 DEF Requests
<1> QED BY <1>1, <1>2, <1>5, <1>6, <1>7, <1>8, <1>9 DEF Next

\* What a key stands for, until a handler with a webhook outlives the lease of it:
\* rows of handlers in hand, of what was given out, and of nothing else.
THEOREM KeysInvariant == ASSUME LeaseCovers PROVE Spec => []KeyInv
<1>1. Init => KeyInv
  <2>1. Init => OneHandlerPerKey /\ KeysHeld /\ KeysTrue /\ KeysKept
    BY DEF Init, Requests, OneHandlerPerKey, KeysHeld, KeysTrue, KeysKept, InHand, Given, Waiting, Refused
  <2> QED BY <2>1, InitTyped DEF KeyInv
<1>2. KeyInv /\ [Next]_vars => KeyInv'
  BY StepKeys
<1> QED BY <1>1, <1>2, PTL DEF Spec

\* Two handlers run under one key only once one with a webhook outlived the lease of
\* it (index.ts create, CLAIM_LEASE_SECS): any other repeat meets a lease that lasts,
\* whatever was refused, lost in a crash or swept before.  Of the lease it is assumed
\* only that it is longer than a wallet may take, which it is by ten seconds.
THEOREM OneHandlerAtATime == ASSUME LeaseCovers PROVE Spec => []OneHandlerPerKey
<1>1. KeyInv => OneHandlerPerKey
  BY DEF KeyInv
<1> QED BY <1>1, KeysInvariant, PTL

\* A key gives out one payment, to however many repeats and across crashes between
\* the insert and the fulfilment (ledger.ts claimKey, fulfillKey, releaseKey), with
\* or without a webhook, unless a handler with one outlived the lease.
THEOREM KeysGiveOnePayment == ASSUME LeaseCovers PROVE Spec => []OnePaymentPerKey
<1>1. KeyInv => OnePaymentPerKey
  <2> SUFFICES ASSUME KeyInv, NEW r \in Creates, NEW s \in Creates,
                      KeyOf[r] = KeyOf[s], KeyOf[r] # {}, Leased(r), Given(r), Given(s)
               PROVE  answer[r] = answer[s]
    BY DEF OnePaymentPerKey
  <2>1. PICK k : k \in KeyOf[r]
    OBVIOUS
  <2>2. claims[k].payment = {answer[r].payment} /\ claims[k].payment = {answer[s].payment}
    BY <2>1 DEF KeyInv, KeysKept, Keeps, Leased
  <2>3. answer[r] \in Replies /\ answer[s] \in Replies
    BY DEF KeyInv, TypeOK, Replies, Requests
  <2>4. \A a \in Replies : a.kind = "created" => a = Answered(a.payment)
    BY DEF Replies, Answered, Refused, Reasons
  <2> QED BY <2>2, <2>3, <2>4 DEF Given
<1> QED BY <1>1, KeysInvariant, PTL

\* A key never hands out the payment of a different request: the fingerprint that is
\* compared is that of the request the payment was made for (ledger.ts claimKey), with
\* the same exception: a release after the lease frees the key for another request.
THEOREM AlwaysAnsweredAsAsked == ASSUME LeaseCovers PROVE Spec => []AnsweredAsAsked
<1>1. KeyInv => AnsweredAsAsked
  BY DEF KeyInv, KeysKept, Keeps, AnsweredAsAsked
<1> QED BY <1>1, KeysInvariant, PTL

=============================================================================
