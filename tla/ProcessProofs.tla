---------------------------- MODULE ProcessProofs ----------------------------
(***************************************************************************)
(* Proofs about Process, for any payments, hosts, budgets and numbers of   *)
(* instances: a draining instance takes nothing on, no slot of a host      *)
(* begins before the one before it has run out, no payment that is due is  *)
(* slept over, and none is starved whose host has room for it.             *)
(*                                                                         *)
(* The second rests on a count.  spend moves a host's next slot on once    *)
(* for every poll it lets pass, so the slots of a tick end where the next  *)
(* one begins only if the polls that passed are exactly the first ones to  *)
(* ask: a poll is let pass only after all that asked before it were.       *)
(*                                                                         *)
(* The third takes the poll and what may still go ahead of it, a load that *)
(* every tick that begins without it lowers by a whole batch: a tick ends  *)
(* in time, and the timer is always armed so that the next one begins when *)
(* there is something to take.                                             *)
(*                                                                         *)
(* The fourth adds that a poll of a host with room is never put off, since *)
(* the slots of a tick have passed when the next one begins: what makes it *)
(* due is its last asking or a lease.                                      *)
(***************************************************************************)
EXTENDS Process, FiniteSetTheorems, WellFoundedInduction, TLAPS

LEMMA MaxOf ==
    ASSUME NEW S, NEW m \in S, S \subseteq Int, \A x \in S : x <= m
    PROVE  Max(S) = m
<1>1. m \in S /\ \A y \in S : m >= y
  OBVIOUS
<1>2. Max(S) \in S /\ \A y \in S : Max(S) >= y
  BY <1>1 DEF Max
<1>3. PICK z : z = Max(S)
  OBVIOUS
<1>4. z \in Int /\ m \in Int /\ z >= m /\ z <= m
  BY <1>2, <1>3
<1> QED BY <1>3, <1>4

LEMMA MaxOfTwo ==
    ASSUME NEW a \in Int, NEW b \in Int
    PROVE  Max({a, b}) \in {a, b} /\ Max({a, b}) >= a /\ Max({a, b}) >= b
<1>1. CASE a <= b
  BY <1>1, MaxOf, b \in {a, b}, {a, b} \subseteq Int, \A x \in {a, b} : x <= b
<1>2. CASE ~(a <= b)
  BY <1>2, MaxOf, a \in {a, b}, {a, b} \subseteq Int, \A x \in {a, b} : x <= a
<1> QED BY <1>1, <1>2

-----------------------------------------------------------------------------
(* Counting *)

\* Different numbers below the size of a set are all the numbers below it.
LEMMA RanksAreAll ==
    ASSUME NEW S, IsFiniteSet(S), NEW f \in [S -> Nat],
           \A x \in S : f[x] < Cardinality(S),
           \A x, y \in S : x # y => f[x] # f[y],
           NEW k \in Nat, k < Cardinality(S)
    PROVE  \E x \in S : f[x] = k
<1>1. Cardinality(S) \in Nat
  BY FS_CardinalityType
<1>2. PICK n \in Nat : n = Cardinality(S)
  BY <1>1
<1>3. PICK T : T = 0..(n - 1)
  OBVIOUS
<1>4. n > 0
  BY <1>2
<1>5. IsFiniteSet(T) /\ Cardinality(T) = n
  BY <1>2, <1>3, <1>4, FS_Interval, 0 \in Int, n - 1 \in Int
<1>6. f \in [S -> T]
  BY <1>2, <1>3
<1>7. f \in Injection(S, T)
  BY <1>6 DEF Injection, IsInjective
<1>8. f \in Surjection(S, T)
  BY <1>2, <1>5, <1>7, FS_Injection
<1>9. k \in T
  BY <1>2, <1>3
<1> QED BY <1>8, <1>9 DEF Surjection

\* A set in which every number up to m has a place has more than m members.
LEMMA CountUp ==
    ASSUME NEW T, IsFiniteSet(T), NEW f, NEW m \in Nat,
           \A k \in 0..m : \E x \in T : f[x] = k
    PROVE  Cardinality(T) \in Nat /\ m + 1 <= Cardinality(T)
<1>1. PICK g : g = [k \in 0..m |-> CHOOSE x \in T : f[x] = k]
  OBVIOUS
<1>2. \A k \in 0..m : g[k] \in T /\ f[g[k]] = k
  BY <1>1
<1>3. g \in [0..m -> T]
  BY <1>1, <1>2
<1>4. \A j, k \in 0..m : g[j] = g[k] => j = k
  BY <1>2
<1>5. PICK I : I = 0..m
  OBVIOUS
<1>6. g \in Injection(I, T)
  BY <1>3, <1>4, <1>5 DEF Injection, IsInjective
<1>7. Cardinality(I) <= Cardinality(T)
  BY <1>6, FS_Injection
<1>8. Cardinality(I) = m + 1
  BY <1>5, FS_Interval, 0 \in Int, m \in Int
<1>9. Cardinality(T) \in Nat
  BY FS_CardinalityType
<1> QED BY <1>7, <1>8, <1>9

\* Slots are a gap apart.
LEMMA Apart ==
    ASSUME NEW j \in Nat, NEW k \in Nat, NEW g \in Nat
    PROVE  /\ j * g \in Nat
           /\ j <= k => j * g <= k * g
           /\ (j + 1) * g = j * g + g
<1>1. j * g \in Nat /\ k * g \in Nat
  OBVIOUS
<1>2. (j + 1) * g = j * g + g
  OBVIOUS
<1>3. ASSUME j <= k PROVE j * g <= k * g
  <2>1. PICK d \in Nat : d = k - j
    BY <1>3
  <2>2. k = j + d /\ d * g \in Nat
    BY <2>1
  <2>3. k * g = j * g + d * g
    BY <2>2
  <2> QED BY <1>1, <2>2, <2>3
<1> QED BY <1>1, <1>2, <1>3

-----------------------------------------------------------------------------
(* The invariant *)

\* The timer is off while the instance drains.
Quiet == draining => ticker = {}

Budget ==
    /\ now \in Nat
    /\ instances \in Nat \ {0}
    /\ nextAt \in [Hosts -> Nat]
    /\ \A s \in slots : s.p \in Payments /\ s.at \in Nat /\ s.gap \in Nat \ {0}

\* Every slot has run out when the next one of its host begins.
Spent == \A s \in slots : s.at + s.gap <= nextAt[HostOf[s.p]]

PaceInv == Budget /\ Spent /\ HostIsPaced

\* What a tick buys, seen from the budget alone.
Bought(P, rank) ==
    LET buys == {p \in P : Affordable(HostOf[p], rank[p])}
        of(h, S) == {p \in S : HostOf[p] = h}
    IN  /\ P \subseteq Payments /\ rank \in [P -> Nat]
        /\ \A p \in P : rank[p] < Cardinality(of(HostOf[p], P))
        /\ \A p, q \in P : p # q /\ HostOf[p] = HostOf[q] => rank[p] # rank[q]
        /\ nextAt' = [h \in Hosts |-> NextSlot(h, Cardinality(of(h, buys)))]
        /\ slots' = {s \in slots : s.at + s.gap > now}
              \cup {[p |-> p, at |-> Slot(HostOf[p], rank[p]), gap |-> Interval * instances] : p \in buys}

LEMMA TickBuys ==
    ASSUME Budget, RunTick
    PROVE  \E P, rank : Bought(P, rank)
<1>1. PICK P \in Earliest(DuePolls, At(due)) : \E rank \in [P -> 0..Cardinality(P)] :
          LET mine(p) == {q \in P : HostOf[q] = HostOf[p]}
              buys == {p \in P : Affordable(HostOf[p], rank[p])}
              of(h, S) == Cardinality({p \in S : HostOf[p] = h})
          IN  /\ \A p \in P : rank[p] < Cardinality(mine(p))
              /\ \A p, q \in P : p # q /\ HostOf[p] = HostOf[q] => rank[p] # rank[q]
              /\ nextAt' = [h \in Hosts |-> NextSlot(h, of(h, buys))]
              /\ slots' = {s \in slots : s.at + s.gap > now}
                    \cup {[p |-> p, at |-> Slot(HostOf[p], rank[p]), gap |-> Interval * instances] : p \in buys}
  BY Zenon DEF RunTick
<1>2. PICK rank \in [P -> 0..Cardinality(P)] :
          LET mine(p) == {q \in P : HostOf[q] = HostOf[p]}
              buys == {p \in P : Affordable(HostOf[p], rank[p])}
              of(h, S) == Cardinality({p \in S : HostOf[p] = h})
          IN  /\ \A p \in P : rank[p] < Cardinality(mine(p))
              /\ \A p, q \in P : p # q /\ HostOf[p] = HostOf[q] => rank[p] # rank[q]
              /\ nextAt' = [h \in Hosts |-> NextSlot(h, of(h, buys))]
              /\ slots' = {s \in slots : s.at + s.gap > now}
                    \cup {[p |-> p, at |-> Slot(HostOf[p], rank[p]), gap |-> Interval * instances] : p \in buys}
  BY <1>1
<1>3. P \subseteq Payments
  BY <1>1 DEF Earliest, DuePolls
<1>4. rank \in [P -> Nat]
  BY <1>2
<1> WITNESS P, rank
<1> QED BY <1>2, <1>3, <1>4, Zenon DEF Bought

\* The slots of a host, in the order they are asked for.
LEMMA SlotIs ==
    ASSUME Budget, NEW h \in Hosts
    PROVE  \E b, g : /\ b \in Nat /\ nextAt[h] <= b /\ b \in {now, nextAt[h]}
                     /\ g = Interval * instances /\ g \in Nat \ {0}
                     /\ \A k \in Nat : Slot(h, k) = b + k * g
<1>1. now \in Nat /\ nextAt[h] \in Nat
  BY DEF Budget
<1>2. PICK b : b = Max({now, nextAt[h]})
  OBVIOUS
<1>3. b \in Nat /\ nextAt[h] <= b /\ b \in {now, nextAt[h]}
  BY <1>1, <1>2, MaxOfTwo, now \in Int, nextAt[h] \in Int
<1>4. PICK i \in Nat \ {0}, c \in Nat \ {0} : i = Interval /\ c = instances
  BY TimesAssumption DEF Budget
<1>5. PICK g : g = i * c
  OBVIOUS
<1>6. g \in Nat \ {0}
  BY <1>5
<1>7. ASSUME NEW k \in Nat PROVE Slot(h, k) = b + k * g
  <2>1. Slot(h, k) = b + k * i * c
    BY <1>2, <1>4 DEF Slot
  <2>2. k * i * c = k * (i * c)
    OBVIOUS
  <2> QED BY <1>5, <2>1, <2>2
<1> WITNESS b, g
<1> QED BY <1>3, <1>4, <1>5, <1>6, <1>7

\* A poll that is let pass finds all that asked before it let pass: the polls of
\* its host that buy are more than its rank.
LEMMA FirstComeFirstServed ==
    ASSUME Budget, NEW P, NEW rank, Bought(P, rank),
           NEW p \in P, Affordable(HostOf[p], rank[p])
    PROVE  LET bought == {q \in {x \in P : Affordable(HostOf[x], rank[x])} : HostOf[q] = HostOf[p]}
           IN  Cardinality(bought) \in Nat /\ rank[p] + 1 <= Cardinality(bought)
<1>1. PICK S : S = {q \in P : HostOf[q] = HostOf[p]}
  OBVIOUS
<1>2. PICK h \in Hosts : h = HostOf[p]
  BY DEF Bought, Hosts
<1>3. PICK b, g : b \in Nat /\ g \in Nat /\ \A k \in Nat : Slot(h, k) = b + k * g
  BY SlotIs
<1>4. PICK T : T = {q \in {x \in P : Affordable(HostOf[x], rank[x])} : HostOf[q] = HostOf[p]}
  OBVIOUS
<1>5. IsFiniteSet(S) /\ IsFiniteSet(T)
  <2>1. S \in SUBSET Payments /\ T \in SUBSET Payments
    BY <1>1, <1>4 DEF Bought
  <2> QED BY <2>1, WorkAssumption, FS_Subset
<1>6. PICK f : f = [q \in S |-> rank[q]]
  OBVIOUS
<1>7. /\ f \in [S -> Nat]
      /\ \A x \in S : f[x] < Cardinality(S)
      /\ \A x, y \in S : x # y => f[x] # f[y]
  <2>1. \A x \in S : {q \in P : HostOf[q] = HostOf[x]} = S
    BY <1>1
  <2>2. \A x \in S : x \in P /\ f[x] = rank[x] /\ rank[x] \in Nat
    BY <1>1, <1>6 DEF Bought
  <2>3. \A x \in S : rank[x] < Cardinality(S)
    BY <2>1, <2>2 DEF Bought
  <2>4. \A x, y \in S : x # y => rank[x] # rank[y]
    BY <1>1, <2>2 DEF Bought
  <2> QED BY <1>6, <2>2, <2>3, <2>4
<1>8. p \in S /\ f[p] = rank[p] /\ rank[p] \in Nat
  BY <1>1, <1>6 DEF Bought
<1>9. ASSUME NEW k \in 0..rank[p] PROVE \E x \in T : rank[x] = k
  <2>1. Cardinality(S) \in Nat
    BY <1>5, FS_CardinalityType
  <2>2. k \in Nat /\ k <= rank[p] /\ k < Cardinality(S)
    BY <1>7, <1>8, <1>9, <2>1
  <2>3. PICK x \in S : f[x] = k
    BY <1>5, <1>7, <2>2, RanksAreAll
  <2>4. x \in P /\ HostOf[x] = h /\ rank[x] = k
    BY <1>1, <1>2, <1>6, <2>3
  <2>5. Slot(h, rank[p]) = b + rank[p] * g /\ Slot(h, k) = b + k * g
    BY <1>3, <1>8, <2>2
  <2>6. Slot(h, rank[p]) - now <= LongestWait
    BY <1>2 DEF Affordable
  <2>7. k * g <= rank[p] * g /\ k * g \in Nat /\ rank[p] * g \in Nat
    BY <1>3, <1>8, <2>2, Apart
  <2>8. Slot(h, k) - now <= LongestWait
    <3>1. PICK u, v : u = k * g /\ v = rank[p] * g
      OBVIOUS
    <3> QED BY <1>3, <2>5, <2>6, <2>7, <3>1, TimesAssumption DEF Budget
  <2>9. Affordable(HostOf[x], rank[x])
    BY <2>4, <2>8 DEF Affordable
  <2> QED BY <1>2, <1>4, <2>4, <2>9
<1>10. Cardinality(T) \in Nat /\ rank[p] + 1 <= Cardinality(T)
  BY <1>5, <1>8, <1>9, CountUp
<1> QED BY <1>4, <1>10

LEMMA TickPaces ==
    ASSUME PaceInv, RunTick
    PROVE  PaceInv'
<1>1. PICK P, rank : Bought(P, rank)
  BY TickBuys DEF PaceInv
<1>2. Budget /\ Spent /\ HostIsPaced /\ now' = now /\ instances' = instances
  BY DEF PaceInv, RunTick
<1>3. PICK buys : buys = {p \in P : Affordable(HostOf[p], rank[p])}
  OBVIOUS
<1>4. PICK g \in Nat \ {0} : g = Interval * instances
  <2>1. PICK i \in Nat \ {0}, c \in Nat \ {0} : i = Interval /\ c = instances
    BY <1>2, TimesAssumption DEF Budget
  <2>2. i * c \in Nat \ {0}
    OBVIOUS
  <2> QED BY <2>1, <2>2
<1>5. PICK new : new = {[p |-> p, at |-> Slot(HostOf[p], rank[p]), gap |-> g] : p \in buys}
  OBVIOUS
<1>6. slots' \subseteq slots \cup new
  BY <1>1, <1>3, <1>4, <1>5 DEF Bought
<1>7. ASSUME NEW h \in Hosts
      PROVE  \E b : /\ b \in Nat /\ nextAt[h] <= b
                    /\ \A k \in Nat : Slot(h, k) = b + k * g
                    /\ nextAt'[h] \in Nat /\ nextAt[h] <= nextAt'[h]
                    /\ \A p \in buys : HostOf[p] = h => b + rank[p] * g + g <= nextAt'[h]
  <2>1. PICK b : b \in Nat /\ nextAt[h] <= b /\ \A k \in Nat : Slot(h, k) = b + k * g
    BY <1>2, <1>4, SlotIs
  <2>2. PICK c : c = Cardinality({p \in buys : HostOf[p] = h})
    OBVIOUS
  <2>3. c \in Nat
    <3>1. {p \in buys : HostOf[p] = h} \in SUBSET Payments
      BY <1>1, <1>3 DEF Bought
    <3> QED BY <2>2, <3>1, WorkAssumption, FS_Subset, FS_CardinalityType
  <2>4. nextAt'[h] = IF c = 0 THEN nextAt[h] ELSE Slot(h, c)
    BY <1>1, <1>3, <2>2 DEF Bought, NextSlot
  <2>5. c * g \in Nat /\ nextAt[h] \in Nat
    BY <1>2, <2>3, Apart DEF Budget
  <2>6. Slot(h, c) = b + c * g
    BY <2>1, <2>3
  <2>7. nextAt'[h] \in Nat /\ nextAt[h] <= nextAt'[h]
    <3>1. PICK v : v = c * g
      OBVIOUS
    <3> QED BY <2>1, <2>4, <2>5, <2>6, <3>1
  <2>8. ASSUME NEW p \in buys, HostOf[p] = h
        PROVE  b + rank[p] * g + g <= nextAt'[h]
    <3>1. p \in P /\ Affordable(HostOf[p], rank[p]) /\ rank[p] \in Nat
      BY <1>1, <1>3 DEF Bought
    <3>2. rank[p] + 1 <= c
      BY <1>1, <1>2, <1>3, <2>2, <2>8, <3>1, FirstComeFirstServed
    <3>3. /\ rank[p] * g \in Nat
          /\ (rank[p] + 1) * g = rank[p] * g + g
          /\ (rank[p] + 1) * g <= c * g
      BY <2>3, <3>1, <3>2, Apart, rank[p] + 1 \in Nat
    <3>4. PICK u, v : u = rank[p] * g /\ v = c * g
      OBVIOUS
    <3>5. nextAt'[h] = b + v
      BY <2>3, <2>4, <2>6, <3>1, <3>2, <3>4
    <3> QED BY <2>1, <2>5, <3>3, <3>4, <3>5
  <2> WITNESS b
  <2> QED BY <2>1, <2>7, <2>8
<1>8. nextAt' \in [Hosts -> Nat]
  <2>1. nextAt' = [h \in Hosts |-> nextAt'[h]]
    BY <1>1 DEF Bought
  <2> QED BY <1>7, <2>1
\* A new slot begins where the old ones of its host have run out, and has run out
\* when the next one begins.
<1>9. ASSUME NEW s \in new
      PROVE  /\ s.p \in buys /\ s.p \in Payments /\ HostOf[s.p] \in Hosts
             /\ s.at = Slot(HostOf[s.p], rank[s.p]) /\ rank[s.p] \in Nat /\ s.gap = g
             /\ s.at \in Nat /\ nextAt[HostOf[s.p]] <= s.at
             /\ s.at + g <= nextAt'[HostOf[s.p]]
  <2>1. PICK p \in buys : s = [p |-> p, at |-> Slot(HostOf[p], rank[p]), gap |-> g]
    BY <1>5, <1>9
  <2>2. p \in Payments /\ rank[p] \in Nat
    BY <1>1, <1>3 DEF Bought
  <2>3. PICK h \in Hosts : h = HostOf[p]
    BY <2>2 DEF Hosts
  <2>4. PICK b : /\ b \in Nat /\ nextAt[h] <= b
                 /\ Slot(h, rank[p]) = b + rank[p] * g
                 /\ b + rank[p] * g + g <= nextAt'[h]
    BY <1>7, <2>2, <2>3
  <2>5. rank[p] * g \in Nat /\ nextAt[h] \in Nat
    BY <1>2, <2>2, Apart DEF Budget
  <2>6. PICK u : u = rank[p] * g
    OBVIOUS
  <2>7. Slot(h, rank[p]) \in Nat /\ nextAt[h] <= Slot(h, rank[p]) /\ Slot(h, rank[p]) + g <= nextAt'[h]
    BY <2>4, <2>5, <2>6
  <2> QED BY <2>1, <2>2, <2>3, <2>7
<1>10. ASSUME NEW s \in slots
       PROVE  /\ s.p \in Payments /\ HostOf[s.p] \in Hosts /\ s.at \in Nat /\ s.gap \in Nat \ {0}
              /\ s.at + s.gap <= nextAt[HostOf[s.p]]
              /\ nextAt[HostOf[s.p]] <= nextAt'[HostOf[s.p]]
              /\ nextAt[HostOf[s.p]] \in Nat /\ nextAt'[HostOf[s.p]] \in Nat
  <2>1. s.p \in Payments /\ s.at \in Nat /\ s.gap \in Nat \ {0} /\ s.at + s.gap <= nextAt[HostOf[s.p]]
    BY <1>2, <1>10 DEF Budget, Spent
  <2>2. HostOf[s.p] \in Hosts
    BY <2>1 DEF Hosts
  <2> QED BY <1>2, <1>7, <2>1, <2>2 DEF Budget
<1>11. Budget'
  BY <1>2, <1>6, <1>8, <1>9, <1>10 DEF Budget
<1>12. Spent'
  <2>1. ASSUME NEW s \in slots' PROVE s.at + s.gap <= nextAt'[HostOf[s.p]]
    <3>1. CASE s \in new
      BY <1>9, <3>1
    <3>2. CASE s \in slots
      <4>1. PICK d : d = nextAt[HostOf[s.p]]
        OBVIOUS
      <4> QED BY <1>10, <3>2, <4>1
    <3> QED BY <1>6, <2>1, <3>1, <3>2
  <2> QED BY <2>1 DEF Spent
<1>13. HostIsPaced'
  <2>1. ASSUME NEW s \in slots', NEW r \in slots',
               s # r, HostOf[s.p] = HostOf[r.p], s.at <= r.at
        PROVE  r.at >= s.at + s.gap
    <3>1. s \in slots \cup new /\ r \in slots \cup new
      BY <1>6, <2>1
    <3>2. CASE s \in slots /\ r \in slots
      BY <1>2, <2>1, <3>2 DEF HostIsPaced
    <3>3. CASE s \in slots /\ r \in new
      BY <1>9, <1>10, <2>1, <3>3
    <3>4. CASE s \in new /\ r \in slots
      BY <1>9, <1>10, <2>1, <3>4
    <3>5. CASE s \in new /\ r \in new
      <4>1. PICK h \in Hosts : h = HostOf[s.p] /\ h = HostOf[r.p]
        BY <1>9, <2>1, <3>5
      <4>2. s.p # r.p
        <5>1. s = [p |-> s.p, at |-> Slot(HostOf[s.p], rank[s.p]), gap |-> g]
          BY <1>5, <3>5
        <5>2. r = [p |-> r.p, at |-> Slot(HostOf[r.p], rank[r.p]), gap |-> g]
          BY <1>5, <3>5
        <5> QED BY <2>1, <5>1, <5>2
      <4>3. PICK j \in Nat, k \in Nat : j = rank[s.p] /\ k = rank[r.p]
        BY <1>9, <3>5
      <4>4. j # k
        BY <1>1, <1>3, <1>9, <3>5, <4>1, <4>2, <4>3 DEF Bought
      <4>5. PICK b \in Nat : s.at = b + j * g /\ r.at = b + k * g
        <5>1. PICK b : b \in Nat /\ \A i \in Nat : Slot(h, i) = b + i * g
          BY <1>7
        <5>2. s.at = Slot(h, j) /\ r.at = Slot(h, k)
          BY <1>9, <3>5, <4>1, <4>3
        <5>3. Slot(h, j) = b + j * g /\ Slot(h, k) = b + k * g
          BY <5>1
        <5> QED BY <5>1, <5>2, <5>3
      <4>6. /\ j * g \in Nat /\ k * g \in Nat
            /\ k + 1 <= j => (k + 1) * g <= j * g
            /\ j + 1 <= k => (j + 1) * g <= k * g
            /\ (j + 1) * g = j * g + g
            /\ (k + 1) * g = k * g + g
        BY Apart, j + 1 \in Nat, k + 1 \in Nat
      <4>7. PICK u, v : u = j * g /\ v = k * g
        OBVIOUS
      <4>8. u \in Nat /\ v \in Nat /\ (k + 1 <= j => v + g <= u) /\ (j + 1 <= k => u + g <= v)
        BY <4>6, <4>7
      <4>9. b + u <= b + v /\ s.gap = g /\ s.at = b + u /\ r.at = b + v
        BY <1>9, <2>1, <3>5, <4>5, <4>7
      <4>10. j + 1 <= k
        BY <4>4, <4>8, <4>9
      <4> QED BY <4>8, <4>9, <4>10
    <3> QED BY <3>1, <3>2, <3>3, <3>4, <3>5
  <2> QED BY <2>1 DEF HostIsPaced
<1> QED BY <1>11, <1>12, <1>13 DEF PaceInv

-----------------------------------------------------------------------------
(* The theorems *)

LEMMA PaceInit == Init => PaceInv /\ Quiet
BY DEF Init, PaceInv, Budget, Spent, HostIsPaced, Quiet

LEMMA Paces ==
    ASSUME PaceInv, [Next]_vars
    PROVE  PaceInv'
<1>1. ASSUME UNCHANGED <<instances, nextAt, slots>>, now' = now \/ now' = now + 1
      PROVE  PaceInv'
  BY <1>1 DEF PaceInv, Budget, Spent, HostIsPaced
<1>2. ASSUME Stopped PROVE PaceInv'
  BY <1>2 DEF Stopped, PaceInv, Budget, Spent, HostIsPaced
<1>3. ASSUME NEW p \in Payments,
             \/ Insert(p) \/ HearPaid(p) \/ HearTold(p) \/ HearPolled(p) \/ HearMissed(p)
      PROVE  PaceInv'
  BY <1>1, <1>3 DEF Insert, HearPaid, HearTold, HearPolled, HearMissed, Scheduled
<1>4. ASSUME NEW p \in Payments, NEW next, PollEnds(p, next) \/ HookRefused(p, next)
      PROVE  PaceInv'
  BY <1>1, <1>4 DEF PollEnds, HookRefused
<1>5. ASSUME NEW p \in Payments, PollFinds(p) \/ HookTaken(p)
      PROVE  PaceInv'
  BY <1>1, <1>5 DEF PollFinds, HookTaken
<1>6. CASE Sweep \/ EndTick \/ Start \/ Tick \/ UNCHANGED vars
  BY <1>1, <1>6 DEF Sweep, Scheduled, EndTick, Start, Tick, vars, loop
<1>7. CASE Signal \/ Exit \/ Crash
  BY <1>1, <1>2, <1>7 DEF Signal, Exit, Crash
<1>8. CASE Meet
  BY <1>8 DEF Meet, loop, PaceInv, Budget, Spent, HostIsPaced
<1>9. CASE RunTick
  BY <1>9, TickPaces
<1> QED BY <1>3, <1>4, <1>5, <1>6, <1>7, <1>8, <1>9 DEF Next

\* The timer is off while the instance drains: it is armed by nothing that happens
\* then, and with it off no tick begins.
LEMMA StaysQuiet ==
    ASSUME Quiet, [Next]_vars
    PROVE  Quiet' /\ (draining => flight' \subseteq flight)
<1>1. ASSUME NEW busy, NEW d, NEW o, ArmTicker(busy, d, o), draining' = draining
      PROVE  Quiet'
  BY <1>1 DEF ArmTicker, Quiet
<1>2. ASSUME Stopped PROVE Quiet' /\ flight' \subseteq flight
  BY <1>2 DEF Stopped, Quiet
<1>3. ASSUME Scheduled, draining' = draining PROVE Quiet' /\ flight' \subseteq flight
  BY <1>1, <1>3 DEF Scheduled
<1>4. ASSUME NEW p \in Payments,
             \/ Insert(p) \/ HearPaid(p) \/ HearTold(p) \/ HearPolled(p) \/ HearMissed(p)
      PROVE  Quiet' /\ flight' \subseteq flight
  BY <1>3, <1>4 DEF Insert, HearPaid, HearTold, HearPolled, HearMissed, life
<1>5. ASSUME NEW p \in Payments, NEW next, PollEnds(p, next) \/ HookRefused(p, next)
      PROVE  Quiet' /\ flight' \subseteq flight
  BY <1>5 DEF PollEnds, HookRefused, life, Quiet
<1>6. ASSUME NEW p \in Payments, PollFinds(p) \/ HookTaken(p)
      PROVE  Quiet' /\ flight' \subseteq flight
  <2>1. draining' = draining /\ flight' \subseteq flight
    BY <1>6 DEF PollFinds, HookTaken, life
  <2>2. ticker' = ticker
    BY <1>6 DEF PollFinds, HookTaken, ArmTicker
  <2> QED BY <2>1, <2>2 DEF Quiet
<1>7. CASE Sweep
  BY <1>3, <1>7 DEF Sweep, life
<1>8. CASE EndTick \/ Start
  BY <1>1, <1>8 DEF EndTick, Start, life
<1>9. CASE Signal \/ Exit \/ Crash
  BY <1>2, <1>9 DEF Signal, Exit, Crash, Quiet
<1>10. CASE Meet \/ Tick \/ UNCHANGED vars
  <2>1. draining' = draining /\ flight' = flight /\ ticker' = ticker
    BY <1>10 DEF Meet, Tick, vars, loop, life
  <2> QED BY <2>1 DEF Quiet
<1>11. CASE RunTick
  BY <1>11 DEF RunTick, Quiet
<1> QED BY <1>4, <1>5, <1>6, <1>7, <1>8, <1>9, <1>10, <1>11 DEF Next

\* However many ticks a process runs and however the number of instances that share
\* the budget changes, no poll of a host gets a slot before the one before it has
\* run out (spend).
THEOREM HostsAreAlwaysPaced == Spec => []HostIsPaced
<1>1. PaceInv => HostIsPaced
  BY DEF PaceInv
<1> QED BY <1>1, PaceInit, Paces, PTL DEF Spec

\* From the signal on nothing is taken up: what is in flight only shrinks, whatever
\* is scheduled meanwhile and however the tick ends (armTicker, leave).
THEOREM DrainingOnlyShrinks == Spec => DrainOnlyShrinks
<1>1. Quiet /\ [Next]_vars => [draining => flight' \subseteq flight]_vars
  BY StaysQuiet
<1>2. Quiet /\ [Next]_vars => Quiet'
  BY StaysQuiet
<1> QED BY <1>1, <1>2, PaceInit, PTL DEF Spec, DrainOnlyShrinks

-----------------------------------------------------------------------------
(* Nothing is slept over                                                   *)
(*                                                                         *)
(* Take a poll that is due at t and has waited since b, when it was due    *)
(* and the process ran.  What may still go ahead of it is a load: at most  *)
(* every other payment, and less by PerTick for each tick that began       *)
(* without it.  A tick is at most TickRuns long, and the timer sees to it  *)
(* that the next one begins where it ends.  A delivery carries a second    *)
(* load: the payments that may yet be owed anew, at 0, and so go before it *)
(* once more.                                                              *)

Row == [due : SUBSET Nat, owedAt : Nat, told : BOOLEAN]

\* A payment is due at most once, and has at most one row, only when it is paid.
Recorded ==
    /\ now \in Nat /\ startedAt \in Nat /\ startedAt <= now
    /\ due \in [Payments -> SUBSET Nat]
    /\ outbox \in [Payments -> SUBSET Row]
    /\ open \cap paid = {}
    /\ \A p \in Payments :
          /\ \A t, u \in due[p] : t = u
          /\ \A r, s \in outbox[p] : r = s
          /\ \A r \in outbox[p] : r.owedAt <= now /\ \A t, u \in r.due : t = u
          /\ outbox[p] # {} => p \in paid

\* A tick ends in time: what it waits for has a slot within LongestWait.
TicksEnd ==
    /\ tickStartedAt \in Nat
    /\ flight # {} => ticking
    /\ ticking => /\ up /\ ticker = {}
                  /\ tickStartedAt <= now /\ now <= tickStartedAt + TickRuns
                  /\ \A f \in flight : f.at \in Nat /\ f.at <= tickStartedAt + LongestWait

\* Outside a tick the timer fires no later than the first row falls due.
Armed ==
    up /\ ~draining /\ ~ticking =>
        \E x \in Nat : ticker = {x} /\ \A t \in NextDueAt(due, outbox) : x <= t \/ x <= now

\* Of a load of k at b at most load is left when the tick that began at s did ...
InTick(s, b, load, k) ==
    \E j \in Nat : j * PerTick + load <= k /\ s <= b + j * TickRuns

\* ... and when the ticks up to n have ended.
AtRest(n, b, load, k) ==
    \E j \in Nat : j * PerTick + load <= k /\ n <= b + (j + 1) * TickRuns

Within(b, load, k) ==
    \/ now <= b
    \/ /\ ticking => InTick(tickStartedAt, b, load, k)
       /\ ~ticking => AtRest(now, b, load, k)

Others == Cardinality(Payments) - 1

PollsAhead(p, t) == {q \in Payments \ {p} : \E u \in due[q] : u <= t}

HooksAhead(p, t) ==
    {q \in Payments \ {p} : \E r \in outbox[q] : ~r.told /\ \E u \in r.due : u <= t}

\* Those that have no row owed since b: one of theirs may yet go ahead.
Anew(p, b) == {q \in Payments \ {p} : \A r \in outbox[q] : r.owedAt <= b}

PollsInTime ==
    up /\ ~draining => \A p \in Payments : \A t \in due[p] : \A b \in Nat :
        t <= b /\ startedAt <= b => Within(b, Cardinality(PollsAhead(p, t)), Others)

HooksInTime ==
    up /\ ~draining => \A p \in Payments : \A r \in outbox[p] : ~r.told =>
        \A t \in r.due : \A b \in Nat :
            t <= b /\ r.owedAt <= b /\ startedAt <= b =>
                Within(b, Cardinality(HooksAhead(p, t)) + Cardinality(Anew(p, b)), 2 * Others)

Forgiving == Backlog(2 * Others) <= Grace

PromptInv ==
    Budget /\ Recorded /\ TicksEnd /\ Armed /\ PollsInTime /\ (Forgiving => HooksInTime)

\* No load is left over that a number of ticks has not taken.
LEMMA Batches ==
    ASSUME NEW c \in Nat \ {0}, NEW k \in Nat, NEW j \in Nat, j * c <= k
    PROVE  k \div c \in Nat /\ j <= k \div c
<1>1. k \div c \in Nat /\ k % c \in Nat /\ k % c < c /\ k = c * (k \div c) + (k % c)
  OBVIOUS
<1>2. PICK d \in Nat : d = k \div c
  BY <1>1
<1>3. k < (d + 1) * c
  BY <1>1, <1>2
<1>4. j * c < (d + 1) * c
  BY <1>3
<1>5. CASE j > d
  <2>1. PICK e \in Nat : j = d + 1 + e
    BY <1>5, j - d - 1 \in Nat, j = d + 1 + (j - d - 1)
  <2>2. j * c = (d + 1) * c + e * c /\ e * c \in Nat
    BY <2>1
  <2> QED BY <1>4, <2>2
<1> QED BY <1>1, <1>2, <1>5

LEMMA RunsIsNat == TickRuns \in Nat
BY TimesAssumption DEF TickRuns

\* What is within its time waits no longer than its backlog.
LEMMA WaitsNoLonger ==
    ASSUME Recorded, TicksEnd, NEW b \in Nat, NEW l \in Nat, NEW k \in Nat, Within(b, l, k)
    PROVE  now <= b + Backlog(k)
<1>1. PICK c \in Nat \ {0}, g \in Nat : c = PerTick /\ g = TickRuns
  BY WorkAssumption, RunsIsNat
<1>2. PICK d : d = k \div c
  OBVIOUS
<1>3. d \in Nat
  BY <1>1, <1>2, Batches, 0 \in Nat, 0 * c <= k
<1>4. Backlog(k) = (1 + d) * g
  BY <1>1, <1>2 DEF Backlog
<1>5. (d + 1) * g = d * g + g /\ d * g \in Nat
  BY <1>1, <1>3, Apart
<1>6. CASE now <= b
  <2>1. (1 + d) * g \in Nat
    BY <1>1, <1>3
  <2>2. PICK v \in Nat : v = (1 + d) * g
    BY <2>1
  <2> QED BY <1>4, <1>6, <2>2 DEF Recorded
<1>7. CASE ~(now <= b)
  <2>1. \E j \in Nat : j * PerTick + l <= k /\ now <= b + (j + 1) * TickRuns
    <3>1. CASE ticking
      <4>1. PICK j \in Nat : j * c + l <= k /\ tickStartedAt <= b + j * g
        BY <1>1, <1>7, <3>1 DEF Within, InTick
      <4>2. (j + 1) * g = j * g + g /\ j * g \in Nat
        BY <1>1, Apart
      <4>3. PICK u : u = j * g
        OBVIOUS
      <4>4. tickStartedAt \in Nat /\ now <= tickStartedAt + g
        BY <1>1, <3>1 DEF TicksEnd
      <4>5. now <= b + (j + 1) * g
        BY <4>1, <4>2, <4>3, <4>4 DEF Recorded
      <4> QED BY <1>1, <4>1, <4>5
    <3>2. CASE ~ticking
      BY <1>7, <3>2 DEF Within, AtRest
    <3> QED BY <3>1, <3>2
  <2>2. PICK j \in Nat : j * c + l <= k /\ now <= b + (j + 1) * g
    BY <1>1, <2>1
  <2>3. j * c <= k
    <3>1. PICK v \in Nat : v = j * c
      BY <1>1
    <3> QED BY <2>2, <3>1
  <2>4. j <= d
    BY <1>1, <1>2, <2>3, Batches
  <2>5. (j + 1) * g <= (d + 1) * g /\ (j + 1) * g \in Nat
    BY <1>1, <1>3, <2>4, Apart, j + 1 \in Nat, d + 1 \in Nat, j + 1 <= d + 1
  <2>6. PICK u \in Nat, v \in Nat : u = (j + 1) * g /\ v = (1 + d) * g
    BY <1>1, <1>3
  <2>7. (1 + d) * g = (d + 1) * g
    BY <1>3, 1 + d = d + 1
  <2> QED BY <1>4, <2>2, <2>5, <2>6, <2>7 DEF Recorded
<1> QED BY <1>6, <1>7

\* Nothing goes ahead that did not before.
LEMMA Undisturbed ==
    ASSUME NEW b \in Nat, NEW l \in Nat, NEW m \in Nat, NEW k \in Nat,
           Within(b, l, k), m <= l,
           UNCHANGED <<now, ticking, tickStartedAt>>
    PROVE  Within(b, m, k)'
<1>1. ASSUME NEW j \in Nat, j * PerTick + l <= k PROVE j * PerTick + m <= k
  <2>1. PICK v \in Nat : v = j * PerTick
    BY WorkAssumption
  <2> QED BY <1>1, <2>1
<1>2. InTick(tickStartedAt, b, l, k) => InTick(tickStartedAt, b, m, k)
  BY <1>1 DEF InTick
<1>3. AtRest(now, b, l, k) => AtRest(now, b, m, k)
  BY <1>1 DEF AtRest
<1> QED BY <1>2, <1>3 DEF Within, InTick, AtRest

\* A tick begins, and takes PerTick of what was ahead.
LEMMA TickTakes ==
    ASSUME Recorded, NEW b \in Nat, NEW l \in Nat, NEW m \in Nat, NEW k \in Nat,
           Within(b, l, k), m + PerTick <= l,
           ~ticking, ticking' = TRUE, tickStartedAt' = now, now' = now
    PROVE  Within(b, m, k)'
<1>1. CASE now <= b
  BY <1>1 DEF Within
<1>2. CASE ~(now <= b)
  <2>1. PICK j \in Nat : j * PerTick + l <= k /\ now <= b + (j + 1) * TickRuns
    BY <1>2 DEF Within, AtRest
  <2>2. PICK c \in Nat \ {0}, u \in Nat : c = PerTick /\ u = j * PerTick
    BY WorkAssumption
  <2>3. (j + 1) * c = u + c
    BY <2>2, Apart
  <2>4. (j + 1) * PerTick + m <= k
    BY <2>1, <2>2, <2>3
  <2>5. InTick(now, b, m, k)
    BY <2>1, <2>4, j + 1 \in Nat DEF InTick
  <2> QED BY <2>5 DEF Within, InTick
<1> QED BY <1>1, <1>2

\* A tick ends.
LEMMA TickIsOver ==
    ASSUME Recorded, TicksEnd, NEW b \in Nat, NEW l \in Nat, NEW k \in Nat,
           Within(b, l, k), ticking, ticking' = FALSE, now' = now
    PROVE  Within(b, l, k)'
<1>1. CASE now <= b
  BY <1>1 DEF Within
<1>2. CASE ~(now <= b)
  <2>1. PICK g \in Nat : g = TickRuns
    BY RunsIsNat
  <2>2. PICK j \in Nat : j * PerTick + l <= k /\ tickStartedAt <= b + j * g
    BY <1>2, <2>1 DEF Within, InTick
  <2>3. PICK u \in Nat : u = j * g
    BY <2>1
  <2>4. (j + 1) * g = u + g
    BY <2>1, <2>3, Apart
  <2>5. now <= b + (j + 1) * g
    <3>1. tickStartedAt \in Nat /\ now <= tickStartedAt + g
      BY <2>1 DEF TicksEnd
    <3> QED BY <2>2, <2>3, <2>4, <3>1 DEF Recorded
  <2>6. AtRest(now, b, l, k)
    BY <2>1, <2>2, <2>5 DEF AtRest
  <2> QED BY <2>6 DEF Within, AtRest
<1> QED BY <1>1, <1>2

\* Time passes: within a tick, or before b.
LEMMA TimePasses ==
    ASSUME Recorded, TicksEnd, NEW b \in Nat, NEW l \in Nat, NEW k \in Nat,
           Within(b, l, k), l <= k, ticking \/ now < b,
           now' = now + 1, UNCHANGED <<ticking, tickStartedAt>>
    PROVE  Within(b, l, k)'
<1>1. CASE now < b
  BY <1>1 DEF Within, Recorded
<1>2. CASE ~(now < b)
  <2>1. CASE now <= b
    <3>1. 0 * PerTick + l <= k /\ 0 * TickRuns = 0
      BY WorkAssumption, RunsIsNat
    <3>2. tickStartedAt <= b + 0 * TickRuns
      BY <1>2, <2>1, <3>1 DEF TicksEnd, Recorded
    <3>3. InTick(tickStartedAt, b, l, k)
      BY <3>1, <3>2, 0 \in Nat DEF InTick
    <3> QED BY <1>2, <3>3 DEF Within, InTick
  <2>2. CASE ~(now <= b)
    <3>1. InTick(tickStartedAt, b, l, k)
      BY <1>2, <2>2 DEF Within
    <3> QED BY <1>2, <3>1 DEF Within, InTick
  <2> QED BY <2>1, <2>2
<1> QED BY <1>1, <1>2

-----------------------------------------------------------------------------
(* What is first, and how many *)

LEMMA LeastOf ==
    ASSUME NEW S, S \subseteq Nat, S # {}
    PROVE  Min(S) \in S /\ \A x \in S : Min(S) <= x
<1>1. PICK below : below = {pair \in Nat \X Nat : pair[1] < pair[2]}
  OBVIOUS
<1>2. IsWellFoundedOn(below, Nat)
  BY <1>1, NatLessThanWellFounded DEF OpToRel
<1>3. \E x \in S : \A y \in S : ~(<<y, x>> \in below)
  BY <1>2, WFMin, Zenon
<1>4. \A x, y \in Nat : y < x => <<y, x>> \in below
  <2>1. SUFFICES ASSUME NEW x \in Nat, NEW y \in Nat, y < x PROVE <<y, x>> \in below
    OBVIOUS
  <2>2. <<y, x>> \in Nat \X Nat /\ <<y, x>>[1] = y /\ <<y, x>>[2] = x
    OBVIOUS
  <2> QED BY <1>1, <2>1, <2>2
<1>5. PICK x \in S : \A y \in S : ~(<<y, x>> \in below)
  BY <1>3
<1>6. ASSUME NEW y \in S PROVE x <= y
  <2>1. ~(<<y, x>> \in below) /\ x \in Nat /\ y \in Nat
    BY <1>5, <1>6
  <2>2. ~(y < x)
    BY <1>4, <2>1
  <2> QED BY <2>1, <2>2
<1> QED BY <1>6 DEF Min

LEMMA LeastOfTwo ==
    ASSUME NEW a \in Nat, NEW b \in Nat
    PROVE  Min({a, b}) \in {a, b} /\ Min({a, b}) <= a /\ Min({a, b}) <= b
BY LeastOf, {a, b} \subseteq Nat, {a, b} # {}

\* Who is left behind when the first are taken, was behind PerTick others.
LEMMA LeftBehind ==
    ASSUME NEW S, IsFiniteSet(S), NEW at, NEW D \in Earliest(S, at), NEW p \in S \ D
    PROVE  Cardinality(D) = PerTick /\ D \subseteq S /\ \A q \in D : at[q] <= at[p]
<1>1. D \subseteq S /\ Cardinality(D) = Min({PerTick, Cardinality(S)})
  BY DEF Earliest
<1>2. \A q \in D : at[q] <= at[p]
  BY DEF Earliest
<1>3. Cardinality(S) \in Nat
  BY FS_CardinalityType
<1>4. Cardinality(D) # Cardinality(S)
  BY <1>1, FS_Subset, D \in SUBSET S
<1>5. Min({PerTick, Cardinality(S)}) \in {PerTick, Cardinality(S)}
  BY <1>3, WorkAssumption, LeastOfTwo
<1> QED BY <1>1, <1>2, <1>4, <1>5

\* Whoever comes to be ahead gives up being able to come anew.
LEMMA LoadsMove ==
    ASSUME NEW S, IsFiniteSet(S),
           NEW A \in SUBSET S, NEW J \in SUBSET S, NEW A2 \in SUBSET S, NEW J2 \in SUBSET S,
           A2 \ A \subseteq J \ J2, J2 \subseteq J
    PROVE  /\ Cardinality(A) + Cardinality(J) \in Nat
           /\ Cardinality(A2) + Cardinality(J2) \in Nat
           /\ Cardinality(A2) + Cardinality(J2) <= Cardinality(A) + Cardinality(J)
<1>1. /\ IsFiniteSet(A) /\ IsFiniteSet(J) /\ IsFiniteSet(A2) /\ IsFiniteSet(J2)
      /\ IsFiniteSet(A \cup J) /\ IsFiniteSet(A \cap J)
  BY FS_Subset, A \cup J \in SUBSET S, A \cap J \in SUBSET S
<1>2. /\ Cardinality(A2 \cup J2) <= Cardinality(A \cup J)
      /\ IsFiniteSet(A2 \cup J2)
  <2>1. A2 \cup J2 \in SUBSET (A \cup J)
    OBVIOUS
  <2> QED BY <1>1, <2>1, FS_Subset
<1>3. /\ Cardinality(A2 \cap J2) <= Cardinality(A \cap J)
      /\ IsFiniteSet(A2 \cap J2)
  <2>1. A2 \cap J2 \in SUBSET (A \cap J)
    OBVIOUS
  <2> QED BY <1>1, <2>1, FS_Subset
<1>4. /\ Cardinality(A \cup J) = Cardinality(A) + Cardinality(J) - Cardinality(A \cap J)
      /\ Cardinality(A2 \cup J2) = Cardinality(A2) + Cardinality(J2) - Cardinality(A2 \cap J2)
  BY <1>1, FS_Union
<1>5. /\ Cardinality(A) \in Nat /\ Cardinality(J) \in Nat
      /\ Cardinality(A2) \in Nat /\ Cardinality(J2) \in Nat
      /\ Cardinality(A \cap J) \in Nat /\ Cardinality(A2 \cap J2) \in Nat
      /\ Cardinality(A \cup J) \in Nat /\ Cardinality(A2 \cup J2) \in Nat
  BY <1>1, <1>2, <1>3, FS_CardinalityType
<1> QED BY <1>2, <1>3, <1>4, <1>5

\* What is taken is no longer ahead.
LEMMA LoadFalls ==
    ASSUME NEW A, IsFiniteSet(A), NEW D \in SUBSET A, NEW A2 \in SUBSET (A \ D)
    PROVE  /\ Cardinality(A) \in Nat /\ Cardinality(A2) \in Nat
           /\ Cardinality(A2) + Cardinality(D) <= Cardinality(A)
<1>1. IsFiniteSet(A \ D) /\ Cardinality(A \ D) = Cardinality(A) - Cardinality(A \cap D)
  BY FS_Difference
<1>2. Cardinality(A \cap D) = Cardinality(D)
  BY A \cap D = D
<1>3. IsFiniteSet(D) /\ IsFiniteSet(A2) /\ Cardinality(A2) <= Cardinality(A \ D)
  BY <1>1, FS_Subset
<1>4. /\ Cardinality(A) \in Nat /\ Cardinality(A2) \in Nat /\ Cardinality(D) \in Nat
      /\ Cardinality(A \ D) \in Nat
  BY <1>1, <1>3, FS_CardinalityType
<1> QED BY <1>1, <1>2, <1>3, <1>4

\* Everyone else is at most all but one.
LEMMA OthersAreFew ==
    ASSUME NEW p \in Payments, NEW A \in SUBSET (Payments \ {p})
    PROVE  /\ Others \in Nat /\ IsFiniteSet(A)
           /\ Cardinality(A) \in Nat /\ Cardinality(A) <= Others
<1>1. IsFiniteSet(Payments \ {p}) /\ Cardinality(Payments \ {p}) = Others
  BY WorkAssumption, FS_RemoveElement DEF Others
<1>2. IsFiniteSet(A) /\ Cardinality(A) <= Others
  BY <1>1, FS_Subset
<1> QED BY <1>1, <1>2, FS_CardinalityType

-----------------------------------------------------------------------------
(* What a step does to the rows *)

\* Nothing falls due in the past that was not due already ...
DueMoves == \A q \in Payments : \A u \in due'[q] : u \in due[q] \/ (u \in Nat /\ now <= u)

\* ... but a delivery that is owed anew; and a row goes only with age.
RowsMove ==
    \A q \in Payments :
        /\ \A s \in outbox'[q] : ~s.told => \A u \in s.due :
              \/ \E r \in outbox[q] : ~r.told /\ u \in r.due /\ r.owedAt = s.owedAt
              \/ u \in Nat /\ now <= u
              \/ s.owedAt = now /\ outbox[q] = {}
        /\ \A r \in outbox[q] :
              (\E s \in outbox'[q] : s.owedAt = r.owedAt) \/ r.owedAt + Grace <= now

\* What a tick takes it leases, or puts off until the host is free, which is later.
Leases(P, H) ==
    /\ P \in Earliest(DuePolls, At(due))
    /\ H \in Earliest(DueDeliveries, At([p \in Payments |-> UNION {r.due : r \in outbox[p]}]))
    /\ due' = [q \in Payments |-> due'[q]]
    /\ \A q \in Payments :
          /\ q \notin P => due'[q] = due[q]
          /\ q \in P => \E u \in Nat : due'[q] = {u} /\ now <= u
    /\ outbox' = [p \in Payments |->
          IF p \in H THEN {[r EXCEPT !.due = {now + Lease}] : r \in outbox[p]} ELSE outbox[p]]
    /\ \A f \in flight' : f.at \in Nat /\ f.at <= now + LongestWait

LEMMA TickLeases ==
    ASSUME Budget, RunTick
    PROVE  \E P, H : Leases(P, H)
<1>1. PICK P \in Earliest(DuePolls, At(due)),
           H \in Earliest(DueDeliveries, At([p \in Payments |-> UNION {r.due : r \in outbox[p]}])) :
       \E rank \in [P -> 0..Cardinality(P)] :
          LET mine(p) == {q \in P : HostOf[q] = HostOf[p]}
              buys == {p \in P : Affordable(HostOf[p], rank[p])}
              of(h, S) == Cardinality({p \in S : HostOf[p] = h})
          IN  /\ \A p \in P : rank[p] < Cardinality(mine(p))
              /\ \A p, q \in P : p # q /\ HostOf[p] = HostOf[q] => rank[p] # rank[q]
              /\ nextAt' = [h \in Hosts |-> NextSlot(h, of(h, buys))]
              /\ due' = [p \in Payments |-> IF p \notin P THEN due[p]
                                            ELSE IF p \in buys THEN {now + Lease}
                                            ELSE {nextAt'[HostOf[p]]}]
              /\ outbox' = [p \in Payments |->
                    IF p \in H THEN {[r EXCEPT !.due = {now + Lease}] : r \in outbox[p]} ELSE outbox[p]]
              /\ flight' = {[kind |-> "poll", p |-> p, at |-> Slot(HostOf[p], rank[p])] : p \in buys}
                    \cup {[kind |-> "hook", p |-> p, at |-> now] : p \in H}
  BY Zenon DEF RunTick
<1>2. PICK rank \in [P -> 0..Cardinality(P)] :
          LET mine(p) == {q \in P : HostOf[q] = HostOf[p]}
              buys == {p \in P : Affordable(HostOf[p], rank[p])}
              of(h, S) == Cardinality({p \in S : HostOf[p] = h})
          IN  /\ \A p \in P : rank[p] < Cardinality(mine(p))
              /\ \A p, q \in P : p # q /\ HostOf[p] = HostOf[q] => rank[p] # rank[q]
              /\ nextAt' = [h \in Hosts |-> NextSlot(h, of(h, buys))]
              /\ due' = [p \in Payments |-> IF p \notin P THEN due[p]
                                            ELSE IF p \in buys THEN {now + Lease}
                                            ELSE {nextAt'[HostOf[p]]}]
              /\ outbox' = [p \in Payments |->
                    IF p \in H THEN {[r EXCEPT !.due = {now + Lease}] : r \in outbox[p]} ELSE outbox[p]]
              /\ flight' = {[kind |-> "poll", p |-> p, at |-> Slot(HostOf[p], rank[p])] : p \in buys}
                    \cup {[kind |-> "hook", p |-> p, at |-> now] : p \in H}
  BY <1>1
<1>3. PICK buys : buys = {p \in P : Affordable(HostOf[p], rank[p])}
  OBVIOUS
<1>4. P \subseteq Payments /\ H \subseteq Payments /\ IsFiniteSet(P)
  <2>1. P \subseteq Payments
    BY <1>1 DEF Earliest, DuePolls
  <2>2. H \subseteq Payments
    BY <1>1 DEF Earliest, DueDeliveries
  <2> QED BY <2>1, <2>2, WorkAssumption, FS_Subset, P \in SUBSET Payments
<1>5. now \in Nat /\ Lease \in Nat /\ LongestWait \in Nat
  BY TimesAssumption DEF Budget
<1>6. rank \in [P -> Nat]
  BY <1>2
\* The host of a poll that is put off is free later than now.
<1>7. ASSUME NEW p \in P \ buys
      PROVE  nextAt'[HostOf[p]] \in Nat /\ now <= nextAt'[HostOf[p]]
  <2>1. PICK h \in Hosts : h = HostOf[p]
    BY <1>4 DEF Hosts
  <2>2. PICK S : S = {q \in P : HostOf[q] = h}
    OBVIOUS
  <2>3. PICK B : B = {q \in buys : HostOf[q] = h}
    OBVIOUS
  <2>4. nextAt'[h] = IF Cardinality(B) = 0 THEN nextAt[h] ELSE Slot(h, Cardinality(B))
    BY <1>2, <1>3, <2>3 DEF NextSlot
  <2>5. IsFiniteSet(S) /\ IsFiniteSet(B) /\ Cardinality(S) \in Nat /\ Cardinality(B) \in Nat
    <3>1. S \in SUBSET P /\ B \in SUBSET P
      BY <1>3, <2>2, <2>3
    <3> QED BY <1>4, <3>1, FS_Subset, FS_CardinalityType
  <2>6. nextAt[h] \in Nat
    BY DEF Budget
  <2>7. PICK b, g : b \in Nat /\ b >= now /\ g \in Nat /\ b \in {now, nextAt[h]}
                    /\ \A k \in Nat : Slot(h, k) = b + k * g
    <3>1. PICK b : b = Max({now, nextAt[h]})
      OBVIOUS
    <3>2. b \in {now, nextAt[h]} /\ b >= now
      BY <1>5, <2>6, <3>1, MaxOfTwo, now \in Int, nextAt[h] \in Int
    <3>3. PICK i \in Nat, c \in Nat : i = Interval /\ c = instances
      BY TimesAssumption DEF Budget
    <3>4. PICK g \in Nat : g = i * c
      BY <3>3
    <3>5. ASSUME NEW k \in Nat PROVE Slot(h, k) = b + k * g
      <4>1. Slot(h, k) = b + k * i * c
        BY <3>1, <3>3 DEF Slot
      <4>2. k * i * c = k * (i * c)
        OBVIOUS
      <4> QED BY <3>4, <4>1, <4>2
    <3>6. b \in Nat
      BY <1>5, <2>6, <3>2
    <3> WITNESS b, g
    <3> QED BY <3>2, <3>4, <3>5, <3>6
  <2>8. CASE Cardinality(B) # 0
    <3>1. PICK k \in Nat : k = Cardinality(B)
      BY <2>5
    <3>2. PICK u \in Nat : u = k * g
      BY <2>7
    <3>3. nextAt'[h] = b + u
      BY <2>4, <2>7, <2>8, <3>1, <3>2
    <3> QED BY <1>5, <2>1, <2>7, <3>3
  <2>9. CASE Cardinality(B) = 0
    <3>1. B = {}
      BY <2>5, <2>9, FS_EmptySet
    <3>2. p \in S /\ rank[p] \in Nat /\ rank[p] < Cardinality(S)
      BY <1>2, <1>6, <2>1, <2>2
    <3>3. 0 < Cardinality(S)
      BY <2>5, <3>2
    <3>4. PICK f : f = [q \in S |-> rank[q]]
      OBVIOUS
    <3>5. /\ f \in [S -> Nat]
          /\ \A x \in S : f[x] < Cardinality(S)
          /\ \A x, y \in S : x # y => f[x] # f[y]
      <4>1. \A x \in S : {q \in P : HostOf[q] = HostOf[x]} = S
        BY <2>2
      <4>2. \A x \in S : x \in P /\ f[x] = rank[x] /\ rank[x] \in Nat
        BY <1>6, <2>2, <3>4
      <4>3. \A x \in S : rank[x] < Cardinality(S)
        BY <1>2, <4>1, <4>2
      <4>4. \A x, y \in S : x # y => rank[x] # rank[y]
        BY <1>2, <2>2, <4>2
      <4> QED BY <3>4, <4>2, <4>3, <4>4
    <3>6. PICK x \in S : f[x] = 0
      BY <2>5, <3>3, <3>5, RanksAreAll, 0 \in Nat
    <3>7. x \in P /\ HostOf[x] = h /\ rank[x] = 0 /\ x \notin buys
      BY <2>2, <2>3, <3>1, <3>4, <3>6
    <3>8. ~(Slot(h, 0) - now <= LongestWait)
      BY <1>3, <3>7 DEF Affordable
    <3>9. Slot(h, 0) = b
      BY <2>7, 0 \in Nat, 0 * g = 0
    <3>10. b # now
      BY <1>5, <3>8, <3>9
    <3>11. b = nextAt[h]
      BY <2>7, <3>10
    <3> QED BY <2>1, <2>4, <2>6, <2>7, <2>9, <3>11
  <2> QED BY <2>8, <2>9
<1>8. ASSUME NEW q \in Payments
      PROVE  /\ q \notin P => due'[q] = due[q]
             /\ q \in P => \E u \in Nat : due'[q] = {u} /\ now <= u
  <2>1. CASE q \notin P
    BY <1>2, <2>1
  <2>2. CASE q \in buys
    <3>1. due'[q] = {now + Lease}
      BY <1>2, <1>3, <2>2
    <3> QED BY <1>3, <1>5, <2>2, <3>1, now + Lease \in Nat
  <2>3. CASE q \in P \ buys
    <3>1. due'[q] = {nextAt'[HostOf[q]]}
      BY <1>2, <1>3, <2>3
    <3> QED BY <1>7, <2>3, <3>1
  <2> QED BY <2>1, <2>2, <2>3
<1>9. ASSUME NEW f \in flight' PROVE f.at \in Nat /\ f.at <= now + LongestWait
  <2>1. CASE \E p \in buys : f = [kind |-> "poll", p |-> p, at |-> Slot(HostOf[p], rank[p])]
    <3>1. PICK p \in buys : f.at = Slot(HostOf[p], rank[p])
      BY <2>1
    <3>2. p \in P /\ rank[p] \in Nat /\ Affordable(HostOf[p], rank[p])
      BY <1>3, <1>6
    <3>3. PICK h \in Hosts : h = HostOf[p]
      BY <1>4, <3>2 DEF Hosts
    <3>4. PICK b \in Nat, g \in Nat : \A k \in Nat : Slot(h, k) = b + k * g
      <4>1. PICK b, g : b \in Nat /\ g \in Nat /\ \A k \in Nat : Slot(h, k) = b + k * g
        BY SlotIs
      <4> QED BY <4>1
    <3>5. PICK u \in Nat : u = rank[p] * g
      BY <3>2, <3>4
    <3>6. f.at = b + u /\ f.at - now <= LongestWait
      BY <3>1, <3>2, <3>3, <3>4, <3>5 DEF Affordable
    <3> QED BY <1>5, <3>4, <3>6
  <2>2. CASE \E p \in H : f = [kind |-> "hook", p |-> p, at |-> now]
    BY <1>5, <2>2
  <2> QED BY <1>2, <1>3, <2>1, <2>2
<1>10. due' = [q \in Payments |-> due'[q]]
  BY <1>2
<1> WITNESS P, H
<1> QED BY <1>1, <1>2, <1>8, <1>9, <1>10, Zenon DEF Leases

LEMMA NewRow == now \in Nat => Owed \in Row /\ Owed.owedAt = now /\ Owed.due = {0}
BY DEF Owed, Row

\* A row that is told, or gets another time, is the same row.
LEMMA RowEdits ==
    ASSUME NEW r \in Row, NEW d \in SUBSET Nat
    PROVE  /\ [r EXCEPT !.told = TRUE] \in Row
           /\ [r EXCEPT !.told = TRUE].told = TRUE
           /\ [r EXCEPT !.told = TRUE].owedAt = r.owedAt
           /\ [r EXCEPT !.told = TRUE].due = r.due
           /\ [r EXCEPT !.due = d] \in Row
           /\ [r EXCEPT !.due = d].owedAt = r.owedAt
           /\ [r EXCEPT !.due = d].due = d
           /\ [r EXCEPT !.due = d].told = r.told
BY DEF Row

\* One payment is due at another time, which has not passed.
Retimed(p, d) ==
    /\ d \subseteq Nat /\ due' = [due EXCEPT ![p] = d]
    /\ \A t, u \in d : t = u
    /\ \A u \in d : u \in due[p] \/ now <= u

\* The schedule after a step, payment by payment.
LEMMA DueSteps ==
    ASSUME Budget, Recorded, Next
    PROVE  /\ due' \in [Payments -> SUBSET Nat]
           /\ \A q \in Payments : \A t, u \in due'[q] : t = u
           /\ DueMoves
<1>1. now \in Nat /\ due \in [Payments -> SUBSET Nat]
  BY DEF Recorded
<1>2. \A q \in Payments : \A t, u \in due[q] : t = u
  BY DEF Recorded
<1>3. Eager \in Nat /\ Lease \in Nat
  BY TimesAssumption
<1>4. ASSUME due' = due
      PROVE  /\ due' \in [Payments -> SUBSET Nat]
             /\ \A q \in Payments : \A t, u \in due'[q] : t = u
             /\ DueMoves
  BY <1>1, <1>2, <1>4 DEF DueMoves
<1>5. ASSUME NEW p \in Payments, NEW d, Retimed(p, d)
      PROVE  /\ due' \in [Payments -> SUBSET Nat]
             /\ \A q \in Payments : \A t, u \in due'[q] : t = u
             /\ DueMoves
  <2>1. \A q \in Payments : due'[q] = IF q = p THEN d ELSE due[q]
    BY <1>1, <1>5 DEF Retimed
  <2>2. due' \in [Payments -> SUBSET Nat]
    BY <1>1, <1>5 DEF Retimed
  <2> QED BY <1>1, <1>2, <1>5, <2>1, <2>2 DEF DueMoves, Retimed
<1>6. ASSUME NEW p \in Payments, Insert(p) \/ HearPaid(p) \/ HearPolled(p) \/ PollFinds(p)
      PROVE  \E d : Retimed(p, d)
  <2>1. due' = [due EXCEPT ![p] = {now}] \/ due' = [due EXCEPT ![p] = {}]
          \/ due' = [due EXCEPT ![p] = {now + Eager}]
    BY <1>6 DEF Insert, HearPaid, HearPolled, PollFinds
  <2>2. CASE due' = [due EXCEPT ![p] = {now}]
    <3> WITNESS {now}
    <3> QED BY <1>1, <2>2 DEF Retimed
  <2>3. CASE due' = [due EXCEPT ![p] = {}]
    <3> WITNESS {}
    <3> QED BY <2>3 DEF Retimed
  <2>4. CASE due' = [due EXCEPT ![p] = {now + Eager}]
    <3> WITNESS {now + Eager}
    <3> QED BY <1>1, <1>3, <2>4 DEF Retimed
  <2> QED BY <2>1, <2>2, <2>3, <2>4
<1>7. ASSUME NEW p \in Payments, HearMissed(p)
      PROVE  \E d : Retimed(p, d)
  <2>1. PICK d : d = {Min({t, now}) : t \in due[p]}
    OBVIOUS
  <2>2. due' = [due EXCEPT ![p] = d]
    BY <1>7, <2>1 DEF HearMissed
  <2>3. \A t \in due[p] : t \in Nat /\ Min({t, now}) \in {t, now}
    BY <1>1, LeastOfTwo
  <2>4. ASSUME NEW u \in d PROVE u \in Nat /\ (u \in due[p] \/ now <= u)
    <3>1. PICK t \in due[p] : u = Min({t, now})
      BY <2>1
    <3> QED BY <1>1, <2>3, <3>1
  <2>5. \A t, u \in d : t = u
    BY <1>2, <2>1
  <2> WITNESS d
  <2> QED BY <2>2, <2>4, <2>5 DEF Retimed
<1>8. ASSUME NEW p \in Payments, NEW next \in SUBSET Nat, PollEnds(p, next),
             \A t, u \in next : t = u, \A u \in next : now <= u
      PROVE  /\ due' \in [Payments -> SUBSET Nat]
             /\ \A q \in Payments : \A t, u \in due'[q] : t = u
             /\ DueMoves
  <2>1. due' = due \/ due' = [due EXCEPT ![p] = next]
    BY <1>8 DEF PollEnds, Turned
  <2> QED BY <1>4, <1>5, <1>8, <2>1 DEF Retimed
<1>9. {now + Eager} \in SUBSET Nat /\ \A u \in {now + Eager} : now <= u
  BY <1>1, <1>3
<1>10. ASSUME NEW p \in Payments, PollEnds(p, {now + Eager}) \/ PollEnds(p, {})
       PROVE  /\ due' \in [Payments -> SUBSET Nat]
              /\ \A q \in Payments : \A t, u \in due'[q] : t = u
              /\ DueMoves
  <2>1. CASE PollEnds(p, {now + Eager})
    BY <1>8, <1>9, <2>1
  <2>2. CASE PollEnds(p, {})
    BY <1>8, <2>2, {} \in SUBSET Nat
  <2> QED BY <1>10, <2>1, <2>2
<1>11. CASE RunTick
  <2>1. PICK P, H : Leases(P, H)
    BY <1>11, TickLeases
  <2>2. ASSUME NEW q \in Payments
        PROVE  /\ due'[q] \subseteq Nat
               /\ \A t, u \in due'[q] : t = u
               /\ \A u \in due'[q] : u \in due[q] \/ (u \in Nat /\ now <= u)
    BY <1>1, <1>2, <2>1 DEF Leases
  <2>3. due' = [q \in Payments |-> due'[q]]
    BY <2>1 DEF Leases
  <2> QED BY <2>2, <2>3 DEF DueMoves
<1>12. ASSUME NEW p \in Payments,
              \/ HearTold(p) \/ HookTaken(p)
              \/ HookRefused(p, {now + Backoff}) \/ HookRefused(p, {})
       PROVE  due' = due
  BY <1>12 DEF HearTold, HookTaken, HookRefused
<1>13. ASSUME Sweep \/ EndTick \/ Signal \/ Exit \/ Crash \/ Start \/ Meet \/ Tick
       PROVE  due' = due
  BY <1>13 DEF Sweep, EndTick, Signal, Exit, Crash, Start, Meet, Tick, Stopped, ledger
<1> QED BY <1>4, <1>5, <1>6, <1>7, <1>10, <1>11, <1>12, <1>13 DEF Next

\* Some row of p, or none, takes the place of its row: the same one at another
\* time that has not passed, told or gone, or a new one where there was none.
Rewritten(p, rows) ==
    /\ rows \subseteq Row
    /\ \A r, s \in rows : r = s
    /\ \A s \in rows : s.owedAt <= now /\ \A t, u \in s.due : t = u
    /\ \A s \in rows : ~s.told => \A u \in s.due :
          \/ \E r \in outbox[p] : ~r.told /\ u \in r.due /\ r.owedAt = s.owedAt
          \/ now <= u
          \/ s.owedAt = now /\ outbox[p] = {}
    /\ \A r \in outbox[p] : (\E s \in rows : s.owedAt = r.owedAt) \/ r.owedAt + Grace <= now

LEMMA SameRows ==
    ASSUME Recorded, NEW p \in Payments
    PROVE  Rewritten(p, outbox[p])
BY DEF Recorded, Rewritten

LEMMA NewRows ==
    ASSUME Recorded, NEW p \in Payments, outbox[p] = {}
    PROVE  Rewritten(p, {Owed})
BY NewRow DEF Recorded, Rewritten

\* The row is told.
LEMMA ToldRows ==
    ASSUME Recorded, NEW p \in Payments
    PROVE  Rewritten(p, {[r EXCEPT !.told = TRUE] : r \in outbox[p]})
<1>1. PICK rows : rows = {[r EXCEPT !.told = TRUE] : r \in outbox[p]}
  OBVIOUS
<1>2. ASSUME NEW r \in outbox[p]
      PROVE  /\ r \in Row /\ r.owedAt <= now /\ \A t, u \in r.due : t = u
             /\ [r EXCEPT !.told = TRUE] \in rows
             /\ [r EXCEPT !.told = TRUE].owedAt = r.owedAt
  <2>1. r \in Row /\ r.owedAt <= now /\ \A t, u \in r.due : t = u
    BY DEF Recorded
  <2> QED BY <1>1, <2>1, RowEdits, {} \in SUBSET Nat
<1>3. ASSUME NEW s \in rows
      PROVE  s \in Row /\ s.told /\ s.owedAt <= now /\ \A t, u \in s.due : t = u
  <2>1. PICK r \in outbox[p] : s = [r EXCEPT !.told = TRUE]
    BY <1>1
  <2>2. r \in Row /\ r.owedAt <= now /\ \A t, u \in r.due : t = u
    BY <1>2
  <2>3. s \in Row /\ s.told = TRUE /\ s.owedAt = r.owedAt /\ s.due = r.due
    BY <2>1, <2>2 DEF Row
  <2> QED BY <2>2, <2>3
<1>4. ASSUME NEW r \in rows, NEW s \in rows PROVE r = s
  <2>1. PICK a \in outbox[p], b \in outbox[p] :
            r = [a EXCEPT !.told = TRUE] /\ s = [b EXCEPT !.told = TRUE]
    BY <1>1
  <2>2. a = b
    BY DEF Recorded
  <2> QED BY <2>1, <2>2
<1> QED BY <1>1, <1>2, <1>3, <1>4 DEF Rewritten

\* The row is due at another time.
LEMMA LaterRows ==
    ASSUME Recorded, NEW p \in Payments, NEW d \in SUBSET Nat,
           \A t, u \in d : t = u, \A u \in d : now <= u
    PROVE  Rewritten(p, {[r EXCEPT !.due = d] : r \in outbox[p]})
<1>1. PICK rows : rows = {[r EXCEPT !.due = d] : r \in outbox[p]}
  OBVIOUS
<1>2. ASSUME NEW r \in outbox[p]
      PROVE  /\ r \in Row /\ r.owedAt <= now
             /\ [r EXCEPT !.due = d] \in rows
             /\ [r EXCEPT !.due = d].owedAt = r.owedAt
  <2>1. r \in Row /\ r.owedAt <= now
    BY DEF Recorded
  <2> QED BY <1>1, <2>1, RowEdits
<1>3. ASSUME NEW s \in rows
      PROVE  s \in Row /\ s.due = d /\ s.owedAt <= now
  <2>1. PICK r \in outbox[p] : s = [r EXCEPT !.due = d]
    BY <1>1
  <2> QED BY <1>2, <2>1, RowEdits
<1>4. \A r, s \in rows : r = s
  BY <1>1 DEF Recorded
<1> QED BY <1>1, <1>2, <1>3, <1>4 DEF Rewritten

\* What is told or parked goes with age.
LEMMA SweptRows ==
    ASSUME Recorded, NEW p \in Payments
    PROVE  Rewritten(p, {r \in outbox[p] : ~(r.owedAt + Grace <= now /\ (r.told \/ r.due = {}))})
BY DEF Recorded, Rewritten

\* The outbox after a step, payment by payment.
LEMMA OutboxSteps ==
    ASSUME Budget, Recorded, Next, NEW q \in Payments
    PROVE  Rewritten(q, outbox'[q])
<1>1. outbox \in [Payments -> SUBSET Row]
  BY DEF Recorded
<1>2. ASSUME NEW p \in Payments, NEW rows, outbox' = [outbox EXCEPT ![p] = rows], Rewritten(p, rows)
      PROVE  Rewritten(q, outbox'[q])
  BY <1>1, <1>2, SameRows
<1>3. now \in Nat /\ Backoff \in Nat /\ Lease \in Nat
  BY TimesAssumption DEF Recorded
<1>4. {now + Backoff} \in SUBSET Nat /\ {now + Lease} \in SUBSET Nat
  BY <1>3
<1>5. ASSUME NEW p \in Payments, HearTold(p) \/ HookTaken(p)
      PROVE  Rewritten(q, outbox'[q])
  <2>1. outbox' = [outbox EXCEPT ![p] = {[r EXCEPT !.told = TRUE] : r \in outbox[p]}]
    BY <1>5 DEF HearTold, HookTaken
  <2> QED BY <1>2, <2>1, ToldRows
<1>6. ASSUME NEW p \in Payments, NEW d \in SUBSET Nat, HookRefused(p, d),
             \A t, u \in d : t = u, \A u \in d : now <= u
      PROVE  Rewritten(q, outbox'[q])
  <2>1. outbox' = [outbox EXCEPT ![p] = {[r EXCEPT !.due = d] : r \in outbox[p]}]
    BY <1>6 DEF HookRefused
  <2> QED BY <1>2, <1>6, <2>1, LaterRows
<1>7. ASSUME NEW p \in Payments, HookRefused(p, {now + Backoff}) \/ HookRefused(p, {})
      PROVE  Rewritten(q, outbox'[q])
  <2>1. CASE HookRefused(p, {now + Backoff})
    BY <1>3, <1>4, <1>6, <2>1
  <2>2. CASE HookRefused(p, {})
    BY <1>6, <2>2, {} \in SUBSET Nat
  <2> QED BY <1>7, <2>1, <2>2
<1>8. ASSUME NEW p \in Payments, PollFinds(p)
      PROVE  Rewritten(q, outbox'[q])
  <2>1. CASE p \in open
    <3>1. outbox' = [outbox EXCEPT ![p] = {Owed}]
      BY <1>8, <2>1 DEF PollFinds
    <3>2. outbox[p] = {}
      BY <2>1 DEF Recorded
    <3> QED BY <1>2, <3>1, <3>2, NewRows
  <2>2. CASE p \notin open
    BY <1>8, <2>2, SameRows DEF PollFinds
  <2> QED BY <2>1, <2>2
<1>9. CASE Sweep
  <2>1. outbox'[q] = IF q \in paid /\ outbox[q] = {} THEN {Owed}
          ELSE {r \in outbox[q] : ~(r.owedAt + Grace <= now /\ (r.told \/ r.due = {}))}
    BY <1>9 DEF Sweep
  <2> QED BY <2>1, NewRows, SweptRows
<1>10. CASE RunTick
  <2>1. PICK P, H : Leases(P, H)
    BY <1>10, TickLeases
  <2>2. outbox'[q] = IF q \in H THEN {[r EXCEPT !.due = {now + Lease}] : r \in outbox[q]} ELSE outbox[q]
    BY <2>1 DEF Leases
  <2>3. Rewritten(q, {[r EXCEPT !.due = {now + Lease}] : r \in outbox[q]})
    <3>1. PICK d : d = {now + Lease}
      OBVIOUS
    <3>2. d \in SUBSET Nat /\ (\A t, u \in d : t = u) /\ \A u \in d : now <= u
      BY <1>3, <3>1
    <3>3. Rewritten(q, {[r EXCEPT !.due = d] : r \in outbox[q]})
      BY <3>2, LaterRows
    <3> QED BY <3>1, <3>3
  <2> QED BY <2>2, <2>3, SameRows
<1>11. ASSUME NEW p \in Payments,
              \/ Insert(p) \/ HearPaid(p) \/ HearPolled(p) \/ HearMissed(p)
              \/ PollEnds(p, {now + Eager}) \/ PollEnds(p, {})
       PROVE  outbox' = outbox
  BY <1>11 DEF Insert, HearPaid, HearPolled, HearMissed, PollEnds
<1>12. ASSUME EndTick \/ Signal \/ Exit \/ Crash \/ Start \/ Meet \/ Tick
       PROVE  outbox' = outbox
  BY <1>12 DEF EndTick, Signal, Exit, Crash, Start, Meet, Tick, Stopped, ledger
<1> QED BY <1>5, <1>7, <1>8, <1>9, <1>10, <1>11, <1>12, SameRows DEF Next

LEMMA RecordedStays ==
    ASSUME Budget, Recorded, [Next]_vars
    PROVE  Recorded'
<1>1. CASE Next
  <2>1. now' \in Nat /\ now <= now' /\ startedAt' \in Nat /\ startedAt' <= now'
    <3>1. ASSUME NEW p \in Payments,
                 \/ Insert(p) \/ HearPaid(p) \/ HearTold(p) \/ HearPolled(p) \/ HearMissed(p)
                 \/ PollEnds(p, {now + Eager}) \/ PollEnds(p, {}) \/ PollFinds(p)
                 \/ HookTaken(p) \/ HookRefused(p, {now + Backoff}) \/ HookRefused(p, {})
          PROVE  now' = now /\ startedAt' = startedAt
      BY <3>1 DEF Insert, HearPaid, HearTold, HearPolled, HearMissed, PollEnds, PollFinds,
                  HookTaken, HookRefused, life
    <3>2. ASSUME Sweep \/ RunTick \/ EndTick \/ Meet
          PROVE  now' = now /\ startedAt' = startedAt
      BY <3>2 DEF Sweep, RunTick, EndTick, Meet, life
    <3>3. ASSUME Signal \/ Exit \/ Crash \/ Start
          PROVE  now' = now /\ (startedAt' = startedAt \/ startedAt' = 0 \/ startedAt' = now)
      BY <3>3 DEF Signal, Exit, Crash, Start, Stopped
    <3>4. ASSUME Tick
          PROVE  now' = now + 1 /\ startedAt' = startedAt
      BY <3>4 DEF Tick, life
    <3> QED BY <1>1, <3>1, <3>2, <3>3, <3>4 DEF Next, Recorded
  <2>2. /\ outbox' = [p \in Payments |-> outbox'[p]]
        /\ open' \cap paid' = {}
        /\ \A p \in Payments : outbox'[p] # {} => p \in paid'
    <3>1. ASSUME NEW p \in Payments, NEW rows, outbox' = [outbox EXCEPT ![p] = rows],
                 rows # {} => p \in paid', paid \subseteq paid', open' \cap paid' = {}
          PROVE  /\ outbox' = [q \in Payments |-> outbox'[q]]
                 /\ open' \cap paid' = {}
                 /\ \A q \in Payments : outbox'[q] # {} => q \in paid'
      BY <3>1 DEF Recorded
    <3>2. ASSUME outbox' = outbox, paid \subseteq paid', open' \cap paid' = {}
          PROVE  /\ outbox' = [q \in Payments |-> outbox'[q]]
                 /\ open' \cap paid' = {}
                 /\ \A q \in Payments : outbox'[q] # {} => q \in paid'
      BY <3>2 DEF Recorded
    <3>3. ASSUME NEW p \in Payments, Insert(p) \/ HearPaid(p)
          PROVE  outbox' = outbox /\ paid \subseteq paid' /\ open' \cap paid' = {}
      BY <3>3 DEF Insert, HearPaid, Recorded
    <3>4. ASSUME NEW p \in Payments,
                 \/ HearPolled(p) \/ HearMissed(p)
                 \/ PollEnds(p, {now + Eager}) \/ PollEnds(p, {})
          PROVE  outbox' = outbox /\ paid \subseteq paid' /\ open' \cap paid' = {}
      BY <3>4 DEF HearPolled, HearMissed, PollEnds, Recorded
    <3>5. ASSUME NEW p \in Payments, PollFinds(p)
          PROVE  /\ outbox' = outbox \/ outbox' = [outbox EXCEPT ![p] = {Owed}]
                 /\ p \in paid' /\ paid \subseteq paid' /\ open' \cap paid' = {}
      BY <3>5 DEF PollFinds, Recorded
    <3>6. ASSUME NEW p \in Payments,
                 \/ HearTold(p) \/ HookTaken(p)
                 \/ HookRefused(p, {now + Backoff}) \/ HookRefused(p, {})
          PROVE  \E rows : /\ outbox' = [outbox EXCEPT ![p] = rows]
                           /\ rows # {} => p \in paid'
                           /\ paid \subseteq paid' /\ open' \cap paid' = {}
      <4>1. paid' = paid /\ open' = open
        BY <3>6 DEF HearTold, HookTaken, HookRefused
      <4>2. \E rows : outbox' = [outbox EXCEPT ![p] = rows] /\ (rows # {} => outbox[p] # {})
        <5>1. CASE HearTold(p) \/ HookTaken(p)
          <6> WITNESS {[r EXCEPT !.told = TRUE] : r \in outbox[p]}
          <6> QED BY <5>1 DEF HearTold, HookTaken
        <5>2. CASE HookRefused(p, {now + Backoff})
          <6> WITNESS {[r EXCEPT !.due = {now + Backoff}] : r \in outbox[p]}
          <6> QED BY <5>2 DEF HookRefused
        <5>3. CASE HookRefused(p, {})
          <6> WITNESS {[r EXCEPT !.due = {}] : r \in outbox[p]}
          <6> QED BY <5>3 DEF HookRefused
        <5> QED BY <3>6, <5>1, <5>2, <5>3
      <4> QED BY <4>1, <4>2 DEF Recorded
    <3>7. CASE Sweep
      BY <3>7 DEF Sweep, Recorded
    <3>8. CASE RunTick
      <4>1. PICK P, H : Leases(P, H)
        BY <3>8, TickLeases
      <4>2. open' = open /\ paid' = paid
        BY <3>8 DEF RunTick
      <4>3. outbox' = [q \in Payments |-> outbox'[q]]
        BY <4>1 DEF Leases
      <4>4. ASSUME NEW q \in Payments, outbox'[q] # {} PROVE outbox[q] # {}
        BY <4>1, <4>4 DEF Leases
      <4> QED BY <4>2, <4>3, <4>4 DEF Recorded
    <3>9. ASSUME EndTick \/ Signal \/ Exit \/ Crash \/ Start \/ Meet \/ Tick
          PROVE  outbox' = outbox /\ paid \subseteq paid' /\ open' \cap paid' = {}
      BY <3>9 DEF EndTick, Signal, Exit, Crash, Start, Meet, Tick, Stopped, ledger, Recorded
    <3> QED BY <1>1, <3>1, <3>2, <3>3, <3>4, <3>5, <3>6, <3>7, <3>8, <3>9 DEF Next
  <2>3. ASSUME NEW p \in Payments
        PROVE  /\ outbox'[p] \subseteq Row
               /\ \A r, s \in outbox'[p] : r = s
               /\ \A r \in outbox'[p] : r.owedAt <= now' /\ \A t, u \in r.due : t = u
    <3>1. Rewritten(p, outbox'[p])
      BY <1>1, OutboxSteps
    <3>2. \A r \in outbox'[p] : r.owedAt \in Nat
      BY <3>1 DEF Rewritten, Row
    <3> QED BY <2>1, <3>1, <3>2 DEF Rewritten, Recorded
  <2>4. outbox' \in [Payments -> SUBSET Row]
    BY <2>2, <2>3
  <2>5. due' \in [Payments -> SUBSET Nat] /\ \A q \in Payments : \A t, u \in due'[q] : t = u
    BY <1>1, DueSteps
  <2> QED BY <2>1, <2>2, <2>3, <2>4, <2>5 DEF Recorded
<1>2. CASE UNCHANGED vars
  BY <1>2 DEF vars, ledger, life, Recorded
<1> QED BY <1>1, <1>2

-----------------------------------------------------------------------------
(* The tick and the timer *)

LEMMA TicksStillEnd ==
    ASSUME Budget, Recorded, TicksEnd, [Next]_vars
    PROVE  TicksEnd'
<1>1. ASSUME UNCHANGED <<now, up, ticking, tickStartedAt>>, flight' \subseteq flight,
             ticking => ticker' = ticker
      PROVE  TicksEnd'
  BY <1>1 DEF TicksEnd
<1>2. ASSUME Stopped PROVE TicksEnd'
  BY <1>2 DEF Stopped, TicksEnd
<1>3. ASSUME NEW p \in Payments,
             \/ Insert(p) \/ HearPaid(p) \/ HearTold(p) \/ HearPolled(p) \/ HearMissed(p)
      PROVE  TicksEnd'
  <2>1. /\ UNCHANGED <<now, up, ticking, tickStartedAt>> /\ flight' = flight
        /\ ticking => ticker' = ticker
    BY <1>3 DEF Insert, HearPaid, HearTold, HearPolled, HearMissed, Scheduled, ArmTicker, life
  <2> QED BY <1>1, <2>1
<1>4. ASSUME NEW p \in Payments, NEW next, PollEnds(p, next) \/ HookRefused(p, next)
      PROVE  TicksEnd'
  BY <1>1, <1>4 DEF PollEnds, HookRefused, life
<1>5. ASSUME NEW p \in Payments, PollFinds(p) \/ HookTaken(p)
      PROVE  TicksEnd'
  BY <1>1, <1>5 DEF PollFinds, HookTaken, ArmTicker, life
<1>6. CASE Sweep \/ Meet \/ UNCHANGED vars
  <2>1. /\ UNCHANGED <<now, up, ticking, tickStartedAt>> /\ flight' = flight
        /\ ticking => ticker' = ticker
    BY <1>6 DEF Sweep, Scheduled, ArmTicker, Meet, loop, life, vars
  <2> QED BY <1>1, <2>1
<1>7. CASE EndTick
  BY <1>7 DEF EndTick, TicksEnd
<1>8. CASE Signal \/ Exit \/ Crash
  <2>1. CASE Stopped
    BY <1>2, <2>1
  <2>2. CASE ~Stopped
    BY <1>8, <2>2 DEF Signal, Exit, Crash, TicksEnd
  <2> QED BY <2>1, <2>2
<1>9. CASE Start
  BY <1>9 DEF Start, TicksEnd, Recorded
<1>10. CASE Tick
  <2>1. /\ now' = now + 1
        /\ UNCHANGED <<up, ticking, ticker, tickStartedAt, flight>>
    BY <1>10 DEF Tick, loop, life
  <2>2. ASSUME ticking PROVE now + 1 <= tickStartedAt + TickRuns
    <3>1. up /\ flight # {}
      BY <1>10, <2>2 DEF Tick, TicksEnd
    <3>2. PICK f \in flight : now < f.at + AskTime
      BY <1>10, <3>1 DEF Tick
    <3>3. f.at \in Nat /\ f.at <= tickStartedAt + LongestWait
      BY <2>2 DEF TicksEnd
    <3> QED BY <3>2, <3>3, TimesAssumption DEF TickRuns, TicksEnd, Recorded
  <2> QED BY <2>1, <2>2 DEF TicksEnd, Recorded
<1>11. CASE RunTick
  <2>1. PICK P, H : Leases(P, H)
    BY <1>11, TickLeases
  <2>2. /\ up' = up /\ up /\ now' = now
        /\ ticking' = TRUE /\ tickStartedAt' = now /\ ticker' = {}
    BY <1>11 DEF RunTick, life
  <2>3. now \in Nat /\ now <= now + TickRuns
    BY RunsIsNat DEF Recorded
  <2> QED BY <2>1, <2>2, <2>3 DEF TicksEnd, Leases
<1> QED BY <1>3, <1>4, <1>5, <1>6, <1>7, <1>8, <1>9, <1>10, <1>11 DEF Next

\* Whatever the timer is armed for, it is not later than anything that is due.
LEMMA ArmsInTime ==
    ASSUME now \in Nat,
           NEW d \in [Payments -> SUBSET Nat], NEW o \in [Payments -> SUBSET Row],
           ArmTicker(FALSE, d, o), ~draining
    PROVE  \E x \in Nat : ticker' = {x} /\ \A t \in NextDueAt(d, o) : x <= t \/ x <= now
<1>1. PICK S : S = NextDueAt(d, o) \cup {now + LongestSleep}
  OBVIOUS
<1>2. now + LongestSleep \in Nat
  BY TimesAssumption
<1>3. NextDueAt(d, o) \subseteq Nat
  <2>1. SUFFICES ASSUME NEW t \in NextDueAt(d, o) PROVE t \in Nat
    OBVIOUS
  <2>2. CASE \E p \in Payments : t \in d[p]
    BY <2>2
  <2>3. CASE \E r \in Rows(o) : t \in r.due
    <3>1. PICK p \in Payments : \E r \in o[p] : t \in r.due
      BY <2>3 DEF Rows
    <3>2. PICK r \in o[p] : t \in r.due
      BY <3>1
    <3>3. r \in Row
      OBVIOUS
    <3> QED BY <3>2, <3>3 DEF Row
  <2>4. (\E p \in Payments : t \in d[p]) \/ (\E r \in Rows(o) : t \in r.due)
    BY DEF NextDueAt
  <2> QED BY <2>2, <2>3, <2>4
<1>4. PICK m \in Nat : m = Min(S) /\ \A t \in S : m <= t
  <2>1. S \subseteq Nat /\ S # {}
    BY <1>1, <1>2, <1>3
  <2>2. Min(S) \in S /\ \A t \in S : Min(S) <= t
    BY <2>1, LeastOf
  <2> QED BY <2>1, <2>2
<1>5. ticker' = {Max({m, now})}
  BY <1>1, <1>4 DEF ArmTicker
<1>6. PICK x \in Nat : x = Max({m, now}) /\ x \in {m, now}
  <2>1. Max({m, now}) \in {m, now}
    BY <1>4, MaxOfTwo, m \in Int, now \in Int
  <2> QED BY <1>4, <2>1
<1>7. ticker' = {x}
  BY <1>5, <1>6
<1>8. ASSUME NEW t \in NextDueAt(d, o) PROVE x <= t \/ x <= now
  <2>1. m <= t
    BY <1>1, <1>4
  <2>2. x = m \/ x = now
    BY <1>6
  <2> QED BY <2>1, <2>2
<1> QED BY <1>7, <1>8

LEMMA StaysArmed ==
    ASSUME Budget, Recorded, TicksEnd, Armed, [Next]_vars
    PROVE  Armed'
<1>1. Recorded' /\ TicksEnd'
  BY RecordedStays, TicksStillEnd
<1>2. ASSUME ArmTicker(FALSE, due', outbox'), ~draining, now' = now PROVE Armed'
  <2>1. PICK d, o : d = due' /\ o = outbox'
    OBVIOUS
  <2>2. d \in [Payments -> SUBSET Nat] /\ o \in [Payments -> SUBSET Row]
    BY <1>1, <2>1 DEF Recorded
  <2>3. ArmTicker(FALSE, d, o)
    BY <1>2, <2>1
  <2>4. \E x \in Nat : ticker' = {x} /\ \A t \in NextDueAt(d, o) : x <= t \/ x <= now
    BY <1>2, <2>2, <2>3, ArmsInTime DEF Recorded
  <2>5. NextDueAt(due, outbox)' = NextDueAt(d, o)
    BY <2>1 DEF NextDueAt, Rows
  <2> QED BY <1>2, <2>4, <2>5 DEF Armed
<1>3. ASSUME ~(up' /\ ~draining' /\ ~ticking') PROVE Armed'
  BY <1>3 DEF Armed
<1>4. ASSUME Scheduled, UNCHANGED <<now, up, draining>> PROVE Armed'
  <2>1. CASE ticking \/ draining
    BY <1>3, <1>4, <2>1 DEF Scheduled
  <2>2. CASE ~ticking /\ ~draining
    <3>1. ArmTicker(FALSE, due', outbox')
      BY <1>4, <2>2 DEF Scheduled, ArmTicker
    <3> QED BY <1>2, <1>4, <2>2, <3>1
  <2> QED BY <2>1, <2>2
<1>5. ASSUME NEW p \in Payments,
             \/ Insert(p) \/ HearPaid(p) \/ HearTold(p) \/ HearPolled(p) \/ HearMissed(p)
      PROVE  Armed'
  BY <1>4, <1>5 DEF Insert, HearPaid, HearTold, HearPolled, HearMissed, life
<1>6. ASSUME NEW p \in Payments, NEW next,
             \/ PollEnds(p, next) \/ HookRefused(p, next) \/ PollFinds(p) \/ HookTaken(p)
      PROVE  Armed'
  <2>1. flight # {} /\ ticking' = ticking
    BY <1>6 DEF PollEnds, HookRefused, PollFinds, HookTaken, InFlight
  <2> QED BY <1>3, <2>1 DEF TicksEnd
<1>7. CASE Sweep
  BY <1>4, <1>7 DEF Sweep, life
<1>8. CASE EndTick
  <2>1. ArmTicker(FALSE, due', outbox') /\ UNCHANGED <<now, up, draining>>
    BY <1>8 DEF EndTick, ledger, life
  <2> QED BY <1>2, <1>3, <2>1
<1>9. CASE Start
  <2>1. ArmTicker(FALSE, due', outbox') /\ UNCHANGED <<now, draining>>
    BY <1>9 DEF Start, ledger
  <2> QED BY <1>2, <1>3, <2>1
<1>10. CASE Signal \/ Exit \/ Crash
  BY <1>3, <1>10 DEF Signal, Exit, Crash, Stopped
<1>11. CASE RunTick
  BY <1>3, <1>11 DEF RunTick
<1>12. CASE Meet \/ Tick \/ UNCHANGED vars
  <2>1. UNCHANGED <<due, outbox, up, draining, ticking, ticker>>
    BY <1>12 DEF Meet, Tick, vars, ledger, loop, life
  <2>2. now' = now \/ now' = now + 1
    BY <1>12 DEF Meet, Tick, vars
  <2>3. NextDueAt(due, outbox)' = NextDueAt(due, outbox)
    BY <2>1 DEF NextDueAt, Rows
  <2>4. now \in Nat
    BY DEF Recorded
  <2> QED BY <2>1, <2>2, <2>3, <2>4 DEF Armed
<1> QED BY <1>5, <1>6, <1>7, <1>8, <1>9, <1>10, <1>11, <1>12 DEF Next

\* Time does not pass over what is due.
LEMMA NotSleptOver ==
    ASSUME Budget, Recorded, TicksEnd, Armed, Tick, up, ~draining, ~ticking
    PROVE  /\ \A p \in Payments : \A t \in due[p] : now < t
           /\ \A p \in Payments : \A r \in outbox[p] : ~r.told => \A t \in r.due : now < t
<1>1. PICK x \in Nat : ticker = {x} /\ \A t \in NextDueAt(due, outbox) : x <= t \/ x <= now
  BY DEF Armed
<1>2. now < x \/ DuePolls \cup DueDeliveries = {}
  BY <1>1 DEF Tick, Recorded
<1>3. now \in Nat
  BY DEF Recorded
<1>4. ASSUME NEW p \in Payments, NEW t \in due[p] PROVE now < t
  <2>1. t \in Nat
    BY DEF Recorded
  <2>2. t \in NextDueAt(due, outbox)
    BY DEF NextDueAt
  <2>3. CASE t <= now
    <3>1. p \in DuePolls
      BY <2>3 DEF DuePolls
    <3> QED BY <1>1, <1>2, <1>3, <2>1, <2>2, <2>3, <3>1
  <2> QED BY <1>3, <2>1, <2>3
<1>5. ASSUME NEW p \in Payments, NEW r \in outbox[p], ~r.told, NEW t \in r.due PROVE now < t
  <2>1. r \in Row
    BY DEF Recorded
  <2>2. t \in Nat
    BY <2>1 DEF Row
  <2>3. t \in NextDueAt(due, outbox)
    BY DEF NextDueAt, Rows
  <2>4. CASE t <= now
    <3>1. p \in DueDeliveries
      BY <1>5, <2>4 DEF DueDeliveries
    <3> QED BY <1>1, <1>2, <1>3, <2>2, <2>3, <2>4, <3>1
  <2> QED BY <1>3, <2>2, <2>4
<1> QED BY <1>4, <1>5

-----------------------------------------------------------------------------
(* What is due is taken in time *)

LEMMA StepKinds ==
    ASSUME [Next]_vars, up', ~draining'
    PROVE  \/ Start
           \/ /\ up /\ ~draining /\ startedAt' = startedAt
              /\ Tick \/ RunTick \/ EndTick \/ UNCHANGED <<now, ticking, tickStartedAt>>
<1>1. ASSUME NEW p \in Payments,
             \/ Insert(p) \/ HearPaid(p) \/ HearTold(p) \/ HearPolled(p) \/ HearMissed(p)
             \/ PollEnds(p, {now + Eager}) \/ PollEnds(p, {}) \/ PollFinds(p)
             \/ HookTaken(p) \/ HookRefused(p, {now + Backoff}) \/ HookRefused(p, {})
      PROVE  UNCHANGED <<up, draining, startedAt, now, ticking, tickStartedAt>>
  BY <1>1 DEF Insert, HearPaid, HearTold, HearPolled, HearMissed, PollEnds, PollFinds,
              HookTaken, HookRefused, Scheduled, life
<1>2. ASSUME Sweep \/ Meet \/ UNCHANGED vars
      PROVE  UNCHANGED <<up, draining, startedAt, now, ticking, tickStartedAt>>
  BY <1>2 DEF Sweep, Meet, Scheduled, life, loop, vars
<1>3. ASSUME RunTick \/ EndTick \/ Tick
      PROVE  UNCHANGED <<up, draining, startedAt>>
  BY <1>3 DEF RunTick, EndTick, Tick, life
<1>4. ~Signal /\ ~Exit /\ ~Crash
  BY DEF Signal, Exit, Crash, Stopped
<1> QED BY <1>1, <1>2, <1>3, <1>4 DEF Next

LEMMA AtIs ==
    ASSUME NEW rows, NEW p \in Payments, rows[p] \subseteq Nat, rows[p] # {}
    PROVE  At(rows)[p] \in rows[p]
<1>1. At(rows)[p] = Min(rows[p])
  BY DEF At
<1> QED BY <1>1, LeastOf

LEMMA PollsStayInTime ==
    ASSUME Budget, Recorded, TicksEnd, Armed, PollsInTime, [Next]_vars
    PROVE  PollsInTime'
<1>1. SUFFICES ASSUME up', ~draining', NEW p \in Payments, NEW t \in due'[p],
                      NEW b \in Nat, t <= b, startedAt' <= b
               PROVE  Within(b, Cardinality(PollsAhead(p, t)), Others)'
  BY DEF PollsInTime
<1>2. PICK A, B : A = PollsAhead(p, t) /\ B = PollsAhead(p, t)'
  OBVIOUS
<1>3. PICK k \in Nat, l \in Nat, m \in Nat :
          /\ k = Others /\ l = Cardinality(A) /\ m = Cardinality(B)
          /\ l <= k /\ m <= k /\ IsFiniteSet(A)
  <2>1. A \in SUBSET (Payments \ {p}) /\ B \in SUBSET (Payments \ {p})
    BY <1>2 DEF PollsAhead
  <2> QED BY <2>1, OthersAreFew
<1>4. SUFFICES Within(b, m, k)'
  BY <1>2, <1>3 DEF Others
<1>5. ASSUME t \in due[p], up, ~draining, startedAt' = startedAt PROVE Within(b, l, k)
  BY <1>1, <1>2, <1>3, <1>5 DEF PollsInTime
<1>6. now \in Nat /\ due \in [Payments -> SUBSET Nat]
  BY DEF Recorded
<1>7. \A q \in Payments : \A u \in due'[q] : u \in due[q] \/ (u \in Nat /\ now <= u)
  <2>1. CASE Next
    BY <2>1, DueSteps DEF DueMoves
  <2>2. CASE UNCHANGED vars
    BY <2>2 DEF vars, ledger
  <2> QED BY <2>1, <2>2
<1>8. t \in Nat
  BY <1>6, <1>7
<1>9. CASE now' = now /\ now <= b
  BY <1>9 DEF Within
<1>10. CASE Start
  BY <1>1, <1>9, <1>10 DEF Start
<1>11. ASSUME up, ~draining, startedAt' = startedAt, Tick PROVE Within(b, m, k)'
  <2>1. due' = due /\ now' = now + 1 /\ UNCHANGED <<ticking, tickStartedAt>>
    BY <1>11 DEF Tick, ledger, loop
  <2>2. B = A
    BY <1>2, <2>1 DEF PollsAhead
  <2>3. Within(b, m, k)
    BY <1>3, <1>5, <1>11, <2>1, <2>2
  <2>4. ticking \/ now < b
    BY <1>1, <1>6, <1>8, <1>11, <2>1, NotSleptOver
  <2> QED BY <1>3, <2>1, <2>3, <2>4, TimePasses
<1>12. ASSUME now' = now, ~(now <= b), up, ~draining, startedAt' = startedAt
       PROVE  t \in due[p] /\ B \subseteq A /\ m <= l /\ Within(b, l, k)
  <2>1. t < now
    BY <1>1, <1>6, <1>8, <1>12
  <2>2. t \in due[p]
    BY <1>6, <1>7, <1>8, <2>1
  <2>3. B \subseteq A
    <3>1. SUFFICES ASSUME NEW q \in B PROVE q \in A
      OBVIOUS
    <3>2. q \in Payments \ {p} /\ \E u \in due'[q] : u <= t
      BY <1>2 DEF PollsAhead
    <3>3. PICK u \in due'[q] : u <= t
      BY <3>2
    <3>4. u \in due[q]
      BY <1>6, <1>7, <1>8, <2>1, <3>2, <3>3
    <3> QED BY <1>2, <3>2, <3>3, <3>4 DEF PollsAhead
  <2>4. m <= l
    BY <1>3, <2>3, FS_Subset, B \in SUBSET A
  <2> QED BY <1>5, <1>12, <2>2, <2>3, <2>4
<1>13. ASSUME up, ~draining, startedAt' = startedAt, UNCHANGED <<now, ticking, tickStartedAt>>
       PROVE  Within(b, m, k)'
  BY <1>9, <1>12, <1>13, Undisturbed
<1>14. ASSUME up, ~draining, startedAt' = startedAt, EndTick
       PROVE  Within(b, m, k)'
  <2>1. now' = now /\ ticking /\ ticking' = FALSE
    BY <1>14 DEF EndTick
  <2>2. CASE ~(now <= b)
    <3>1. due' = due
      BY <1>14 DEF EndTick, ledger
    <3>2. B = A
      BY <1>2, <3>1 DEF PollsAhead
    <3> QED BY <1>3, <1>12, <1>14, <2>1, <2>2, <3>2, TickIsOver
  <2> QED BY <1>9, <2>1, <2>2
<1>15. ASSUME up, ~draining, startedAt' = startedAt, RunTick
       PROVE  Within(b, m, k)'
  <2>1. now' = now /\ ticking' = TRUE /\ tickStartedAt' = now /\ ticker # {}
    BY <1>15 DEF RunTick
  <2>2. ~ticking
    BY <2>1 DEF TicksEnd
  <2>3. CASE ~(now <= b)
    <3>1. t \in due[p] /\ Within(b, l, k) /\ t < now
      BY <1>1, <1>6, <1>8, <1>12, <1>15, <2>1, <2>3
    <3>2. PICK P, H : Leases(P, H)
      BY <1>15, TickLeases
    <3>3. ASSUME NEW q \in Payments, NEW u \in due'[q], u < now PROVE q \notin P /\ u \in due[q]
      <4>1. CASE q \in P
        <5>1. PICK v \in Nat : due'[q] = {v} /\ now <= v
          BY <3>2, <4>1 DEF Leases
        <5> QED BY <1>6, <3>3, <5>1
      <4>2. CASE q \notin P
        BY <3>2, <3>3, <4>2 DEF Leases
      <4> QED BY <4>1, <4>2
    <3>4. p \notin P
      BY <3>1, <3>3
    <3>5. PICK S : S = DuePolls
      OBVIOUS
    <3>6. p \in S \ P /\ IsFiniteSet(S)
      <4>1. p \in S
        BY <1>6, <1>8, <3>1, <3>5 DEF DuePolls
      <4>2. S \in SUBSET Payments
        BY <3>5 DEF DuePolls
      <4> QED BY <3>4, <4>1, <4>2, WorkAssumption, FS_Subset
    <3>7. /\ Cardinality(P) = PerTick /\ P \subseteq S
          /\ \A q \in P : At(due)[q] <= At(due)[p]
      <4>1. P \in Earliest(S, At(due))
        BY <3>2, <3>5 DEF Leases
      <4> QED BY <3>6, <4>1, LeftBehind
    <3>8. At(due)[p] = t
      <4>1. At(due)[p] \in due[p]
        BY <1>6, <3>1, AtIs
      <4> QED BY <3>1, <4>1 DEF Recorded
    <3>9. P \subseteq A
      <4>1. SUFFICES ASSUME NEW q \in P PROVE q \in A
        OBVIOUS
      <4>2. q \in Payments /\ due[q] # {}
        BY <3>5, <3>7 DEF DuePolls
      <4>3. At(due)[q] \in due[q]
        BY <1>6, <4>2, AtIs
      <4>4. At(due)[q] <= t
        BY <3>7, <3>8
      <4> QED BY <1>2, <3>4, <4>2, <4>3, <4>4 DEF PollsAhead
    <3>10. B \subseteq A \ P
      <4>1. SUFFICES ASSUME NEW q \in B PROVE q \in A \ P
        OBVIOUS
      <4>2. q \in Payments \ {p} /\ \E u \in due'[q] : u <= t
        BY <1>2 DEF PollsAhead
      <4>3. PICK u \in due'[q] : u <= t
        BY <4>2
      <4>4. u \in Nat
        BY <1>6, <1>7, <4>2
      <4>5. q \notin P /\ u \in due[q]
        BY <1>6, <1>8, <3>1, <3>3, <4>2, <4>3, <4>4
      <4> QED BY <1>2, <4>2, <4>3, <4>5 DEF PollsAhead
    <3>11. m + PerTick <= l
      BY <1>3, <3>7, <3>9, <3>10, LoadFalls, P \in SUBSET A, B \in SUBSET (A \ P)
    <3> QED BY <1>3, <2>1, <2>2, <3>1, <3>11, TickTakes
  <2> QED BY <1>9, <2>1, <2>3
<1> QED BY <1>1, <1>10, <1>11, <1>13, <1>14, <1>15, StepKinds

LEMMA HooksStayInTime ==
    ASSUME Budget, Recorded, TicksEnd, Armed, Forgiving, HooksInTime, [Next]_vars
    PROVE  HooksInTime'
<1>1. SUFFICES ASSUME up', ~draining', NEW p \in Payments, NEW s \in outbox'[p], ~s.told,
                      NEW t \in s.due, NEW b \in Nat, t <= b, s.owedAt <= b, startedAt' <= b
               PROVE  Within(b, Cardinality(HooksAhead(p, t)) + Cardinality(Anew(p, b)), 2 * Others)'
  BY DEF HooksInTime
<1>2. PICK A, B : A = HooksAhead(p, t) /\ B = HooksAhead(p, t)'
  OBVIOUS
<1>3. PICK I, J : I = Anew(p, b) /\ J = Anew(p, b)'
  OBVIOUS
<1>4. PICK E : E = Payments \ {p}
  OBVIOUS
<1>5. /\ A \in SUBSET E /\ B \in SUBSET E /\ I \in SUBSET E /\ J \in SUBSET E
      /\ IsFiniteSet(E) /\ IsFiniteSet(A)
  <2>1. A \in SUBSET E /\ B \in SUBSET E /\ I \in SUBSET E /\ J \in SUBSET E
    BY <1>2, <1>3, <1>4 DEF HooksAhead, Anew
  <2> QED BY <1>4, <2>1, OthersAreFew, E \in SUBSET E
<1>6. PICK k \in Nat, l \in Nat, m \in Nat :
          /\ k = 2 * Others
          /\ l = Cardinality(A) + Cardinality(I) /\ m = Cardinality(B) + Cardinality(J)
          /\ l <= k /\ m <= k
  <2>1. /\ Others \in Nat
        /\ Cardinality(A) \in Nat /\ Cardinality(A) <= Others
        /\ Cardinality(B) \in Nat /\ Cardinality(B) <= Others
        /\ Cardinality(I) \in Nat /\ Cardinality(I) <= Others
        /\ Cardinality(J) \in Nat /\ Cardinality(J) <= Others
    BY <1>4, <1>5, OthersAreFew
  <2> QED BY <2>1
<1>7. SUFFICES Within(b, m, k)'
  BY <1>2, <1>3, <1>6 DEF Others
<1>8. ASSUME NEW r \in outbox[p], ~r.told, t \in r.due, r.owedAt = s.owedAt,
             up, ~draining, startedAt' = startedAt
      PROVE  Within(b, l, k)
  BY <1>1, <1>2, <1>3, <1>6, <1>8 DEF HooksInTime
<1>9. now \in Nat /\ outbox \in [Payments -> SUBSET Row] /\ outbox' \in [Payments -> SUBSET Row]
  BY RecordedStays DEF Recorded
<1>10. ASSUME NEW q \in Payments PROVE Rewritten(q, outbox'[q])
  <2>1. CASE Next
    BY <2>1, OutboxSteps
  <2>2. CASE UNCHANGED vars
    BY <2>2, SameRows DEF vars, ledger
  <2> QED BY <2>1, <2>2
<1>11. s \in Row /\ t \in Nat /\ s.owedAt \in Nat
  BY <1>9 DEF Row
<1>12. CASE now' = now /\ now <= b
  BY <1>12 DEF Within
<1>13. CASE Start
  BY <1>1, <1>12, <1>13 DEF Start
<1>14. ASSUME up, ~draining, startedAt' = startedAt, Tick PROVE Within(b, m, k)'
  <2>1. outbox' = outbox /\ now' = now + 1 /\ UNCHANGED <<ticking, tickStartedAt>>
    BY <1>14 DEF Tick, ledger, loop
  <2>2. B = A /\ J = I
    BY <1>2, <1>3, <2>1 DEF HooksAhead, Anew
  <2>3. Within(b, m, k)
    <3>1. s \in outbox[p]
      BY <2>1
    <3>2. Within(b, l, k)
      BY <1>1, <1>8, <1>14, <3>1
    <3> QED BY <1>6, <2>2, <3>2
  <2>4. ticking \/ now < b
    <3>1. ticking \/ now < t
      BY <1>1, <1>14, <2>1, NotSleptOver
    <3> QED BY <1>1, <1>9, <1>11, <3>1
  <2> QED BY <1>6, <2>1, <2>3, <2>4, TimePasses
\* Past b nothing comes ahead but what is owed anew, and for each payment once: its
\* row is not swept before it has been its turn.
<1>15. ASSUME now' = now, ~(now <= b), up, ~draining, startedAt' = startedAt
       PROVE  /\ t < now /\ \E r \in outbox[p] : ~r.told /\ t \in r.due /\ r.owedAt = s.owedAt
              /\ B \ A \subseteq I \ J /\ J \subseteq I /\ m <= l /\ Within(b, l, k)
  <2>1. t < now
    BY <1>1, <1>9, <1>11, <1>15
  <2>2. PICK r \in outbox[p] : ~r.told /\ t \in r.due /\ r.owedAt = s.owedAt
    <3>1. s.owedAt # now
      BY <1>1, <1>9, <1>11, <1>15
    <3>2. ~(now <= t)
      BY <1>9, <1>11, <2>1
    <3>3. \/ \E r \in outbox[p] : ~r.told /\ t \in r.due /\ r.owedAt = s.owedAt
          \/ now <= t
          \/ s.owedAt = now /\ outbox[p] = {}
      BY <1>1, <1>10 DEF Rewritten
    <3> QED BY <3>1, <3>2, <3>3
  <2>3. Within(b, l, k)
    BY <1>8, <1>15, <2>2
  <2>4. now <= b + Grace
    <3>1. now <= b + Backlog(k)
      BY <1>6, <2>3, WaitsNoLonger
    <3>2. Backlog(k) <= Grace
      BY <1>6 DEF Forgiving
    <3>3. PICK c \in Nat \ {0}, g \in Nat : c = PerTick /\ g = TickRuns
      BY WorkAssumption, RunsIsNat
    <3>4. k \div c \in Nat
      BY <3>3, Batches, 0 \in Nat, 0 * c <= k
    <3>5. PICK d \in Nat : d = k \div c
      BY <3>4
    <3>6. Backlog(k) = (1 + d) * g /\ (1 + d) * g \in Nat
      BY <3>3, <3>5 DEF Backlog
    <3>7. PICK v \in Nat : v = Backlog(k)
      BY <3>6
    <3> QED BY <1>9, <3>1, <3>2, <3>7, TimesAssumption
  <2>5. ASSUME NEW q \in B, q \notin A PROVE q \in I \ J
    <3>1. q \in E /\ q \in Payments
      BY <1>4, <1>5
    <3>2. PICK r1 \in outbox'[q] : ~r1.told /\ \E u \in r1.due : u <= t
      BY <1>2 DEF HooksAhead
    <3>3. PICK u \in r1.due : u <= t
      BY <3>2
    <3>4. r1 \in Row /\ u \in Nat
      <4>1. r1 \in Row
        BY <1>9, <3>1
      <4> QED BY <4>1 DEF Row
    <3>5. ~(now <= u)
      BY <1>9, <1>11, <2>1, <3>3, <3>4
    <3>6. ~(\E r0 \in outbox[q] : ~r0.told /\ u \in r0.due)
      BY <1>2, <1>4, <2>5, <3>1, <3>3 DEF HooksAhead
    <3>7. \/ \E r0 \in outbox[q] : ~r0.told /\ u \in r0.due /\ r0.owedAt = r1.owedAt
          \/ now <= u
          \/ r1.owedAt = now /\ outbox[q] = {}
      BY <1>10, <3>1, <3>2 DEF Rewritten
    <3>8. r1.owedAt = now /\ outbox[q] = {}
      BY <3>5, <3>6, <3>7
    <3>9. q \in I
      BY <1>3, <1>4, <3>1, <3>8 DEF Anew
    <3>10. q \notin J
      BY <1>3, <1>15, <3>8 DEF Anew
    <3> QED BY <3>9, <3>10
  <2>6. ASSUME NEW q \in J PROVE q \in I
    <3>1. q \in Payments \ {p} /\ \A r1 \in outbox'[q] : r1.owedAt <= b
      BY <1>3 DEF Anew
    <3>2. ASSUME NEW r0 \in outbox[q] PROVE r0.owedAt <= b
      <4>1. (\E r1 \in outbox'[q] : r1.owedAt = r0.owedAt) \/ r0.owedAt + Grace <= now
        BY <1>10, <3>1 DEF Rewritten
      <4>2. r0.owedAt \in Nat
        <5>1. r0 \in Row
          BY <1>9, <3>1
        <5> QED BY <5>1 DEF Row
      <4> QED BY <1>9, <2>4, <3>1, <4>1, <4>2, TimesAssumption
    <3> QED BY <1>3, <3>1, <3>2 DEF Anew
  <2>7. B \ A \subseteq I \ J /\ J \subseteq I
    BY <2>5, <2>6
  <2>8. m <= l
    BY <1>5, <1>6, <2>7, LoadsMove
  <2> QED BY <2>1, <2>2, <2>3, <2>7, <2>8
<1>16. ASSUME up, ~draining, startedAt' = startedAt, UNCHANGED <<now, ticking, tickStartedAt>>
       PROVE  Within(b, m, k)'
  BY <1>12, <1>15, <1>16, Undisturbed
<1>17. ASSUME up, ~draining, startedAt' = startedAt, EndTick
       PROVE  Within(b, m, k)'
  <2>1. now' = now /\ ticking /\ ticking' = FALSE
    BY <1>17 DEF EndTick
  <2>2. CASE ~(now <= b)
    <3>1. outbox' = outbox
      BY <1>17 DEF EndTick, ledger
    <3>2. B = A /\ J = I
      BY <1>2, <1>3, <3>1 DEF HooksAhead, Anew
    <3>3. Within(b, l, k) /\ l = m
      BY <1>6, <1>15, <1>17, <2>1, <2>2, <3>2
    <3> QED BY <2>1, <3>3, TickIsOver
  <2> QED BY <1>12, <2>1, <2>2
<1>18. ASSUME up, ~draining, startedAt' = startedAt, RunTick
       PROVE  Within(b, m, k)'
  <2>1. now' = now /\ ticking' = TRUE /\ tickStartedAt' = now /\ ticker # {}
    BY <1>18 DEF RunTick
  <2>2. ~ticking
    BY <2>1 DEF TicksEnd
  <2>3. CASE ~(now <= b)
    <3>1. /\ t < now /\ \E r \in outbox[p] : ~r.told /\ t \in r.due /\ r.owedAt = s.owedAt
          /\ J \subseteq I /\ Within(b, l, k)
      BY <1>15, <1>18, <2>1, <2>3
    <3>2. PICK P, H : Leases(P, H)
      BY <1>18, TickLeases
    <3>3. PICK at : at = [q \in Payments |-> UNION {r.due : r \in outbox[q]}]
      OBVIOUS
    \* What is not leased keeps its row, and what is leased is due later.
    <3>4. ASSUME NEW q \in Payments, NEW r \in outbox'[q], NEW u \in r.due, u < now
          PROVE  q \notin H /\ r \in outbox[q]
      <4>1. CASE q \in H
        <5>1. PICK r0 \in outbox[q] : r = [r0 EXCEPT !.due = {now + Lease}]
          BY <3>2, <4>1 DEF Leases
        <5>2. r0 \in Row
          BY <1>9
        <5>3. r.due = {now + Lease}
          BY <5>1, <5>2 DEF Row
        <5> QED BY <1>9, <3>4, <5>3, TimesAssumption
      <4>2. CASE q \notin H
        BY <3>2, <3>4, <4>2 DEF Leases
      <4> QED BY <4>1, <4>2
    <3>5. p \notin H
      BY <3>1, <3>4
    <3>6. PICK S : S = DueDeliveries
      OBVIOUS
    <3>7. p \in S \ H /\ IsFiniteSet(S)
      <4>1. p \in S
        BY <1>9, <1>11, <3>1, <3>6 DEF DueDeliveries
      <4>2. S \in SUBSET Payments
        BY <3>6 DEF DueDeliveries
      <4> QED BY <3>5, <4>1, <4>2, WorkAssumption, FS_Subset
    <3>8. /\ Cardinality(H) = PerTick /\ H \subseteq S
          /\ \A q \in H : At(at)[q] <= At(at)[p]
      <4>1. H \in Earliest(S, At(at))
        BY <3>2, <3>3, <3>6 DEF Leases
      <4> QED BY <3>7, <4>1, LeftBehind
    \* A payment's only row is the one its delivery is taken by.
    <3>9. ASSUME NEW q \in S
          PROVE  q \in Payments /\ \E r \in outbox[q] : ~r.told /\ At(at)[q] \in r.due
      <4>1. q \in Payments /\ \E r \in outbox[q] : ~r.told /\ r.due # {}
        BY <3>6 DEF DueDeliveries
      <4>2. PICK r \in outbox[q] : ~r.told /\ r.due # {}
        BY <4>1
      <4>3. r \in Row
        BY <1>9, <4>1
      <4>4. at[q] = r.due
        <5>1. \A r0 \in outbox[q] : r0 = r
          BY <4>1 DEF Recorded
        <5>2. {r0.due : r0 \in outbox[q]} = {r.due}
          BY <5>1
        <5>3. at[q] = UNION {r.due}
          BY <3>3, <4>1, <5>2
        <5> QED BY <5>3
      <4>5. At(at)[q] \in at[q]
        BY <4>1, <4>2, <4>3, <4>4, AtIs DEF Row
      <4> QED BY <4>1, <4>2, <4>4, <4>5
    <3>10. At(at)[p] = t
      <4>1. PICK r \in outbox[p] : t \in r.due
        BY <3>1
      <4>2. PICK r0 \in outbox[p] : At(at)[p] \in r0.due
        BY <3>7, <3>9
      <4>3. r0 = r /\ \A u, v \in r.due : u = v
        BY DEF Recorded
      <4> QED BY <4>1, <4>2, <4>3
    <3>11. H \subseteq A
      <4>1. SUFFICES ASSUME NEW q \in H PROVE q \in A
        OBVIOUS
      <4>2. q \in Payments /\ \E r \in outbox[q] : ~r.told /\ At(at)[q] \in r.due
        BY <3>8, <3>9
      <4>3. At(at)[q] <= t
        BY <3>8, <3>10
      <4> QED BY <1>2, <3>5, <4>2, <4>3 DEF HooksAhead
    <3>12. B \subseteq A \ H
      <4>1. SUFFICES ASSUME NEW q \in B PROVE q \in A \ H
        OBVIOUS
      <4>2. q \in Payments \ {p} /\ \E r \in outbox'[q] : ~r.told /\ \E u \in r.due : u <= t
        BY <1>2 DEF HooksAhead
      <4>3. PICK r \in outbox'[q] : ~r.told /\ \E u \in r.due : u <= t
        BY <4>2
      <4>4. PICK u \in r.due : u <= t
        BY <4>3
      <4>5. u \in Nat
        <5>1. r \in Row
          BY <1>9, <4>2
        <5> QED BY <5>1 DEF Row
      <4>6. q \notin H /\ r \in outbox[q]
        BY <1>9, <1>11, <3>1, <3>4, <4>2, <4>4, <4>5
      <4> QED BY <1>2, <4>2, <4>3, <4>4, <4>6 DEF HooksAhead
    <3>13. m + PerTick <= l
      <4>1. /\ Cardinality(A) \in Nat /\ Cardinality(B) \in Nat
            /\ Cardinality(B) + PerTick <= Cardinality(A)
        BY <1>5, <3>8, <3>11, <3>12, LoadFalls, H \in SUBSET A, B \in SUBSET (A \ H)
      <4>2. /\ Cardinality(I) \in Nat /\ Cardinality(J) \in Nat
            /\ Cardinality(J) <= Cardinality(I)
        <5>1. IsFiniteSet(I) /\ IsFiniteSet(J)
          BY <1>5, FS_Subset
        <5> QED BY <3>1, <5>1, FS_Subset, FS_CardinalityType, J \in SUBSET I
      <4> QED BY <1>6, <4>1, <4>2, WorkAssumption
    <3> QED BY <1>6, <2>1, <2>2, <3>1, <3>13, TickTakes
  <2> QED BY <1>12, <2>1, <2>3
<1> QED BY <1>1, <1>13, <1>14, <1>16, <1>17, <1>18, StepKinds

-----------------------------------------------------------------------------

LEMMA PromptInit == Init => PromptInv
<1>1. ASSUME Init PROVE PromptInv
  <2>1. Budget
    BY <1>1, PaceInit DEF PaceInv
  <2>2. Recorded
    BY <1>1 DEF Init, Recorded
  <2>3. TicksEnd
    BY <1>1, RunsIsNat DEF Init, TicksEnd
  <2>4. Armed
    <3>1. ticker = {LongestSleep} /\ LongestSleep \in Nat
      BY <1>1, TimesAssumption DEF Init
    <3>2. NextDueAt(due, outbox) = {}
      BY <1>1 DEF Init, NextDueAt, Rows
    <3> QED BY <3>1, <3>2 DEF Armed
  <2>5. PollsInTime /\ HooksInTime
    BY <1>1 DEF Init, PollsInTime, HooksInTime
  <2> QED BY <2>1, <2>2, <2>3, <2>4, <2>5 DEF PromptInv
<1> QED BY <1>1

LEMMA StaysPrompt ==
    ASSUME PaceInv, PromptInv, [Next]_vars
    PROVE  PromptInv'
<1>1. Budget'
  BY Paces DEF PaceInv
<1>2. Forgiving' = Forgiving
  BY DEF Forgiving, Others, Backlog, TickRuns
<1> QED BY <1>1, <1>2, RecordedStays, TicksStillEnd, StaysArmed, PollsStayInTime, HooksStayInTime
        DEF PromptInv

LEMMA LaterOfTwo ==
    ASSUME NEW a \in Nat, NEW b \in Nat
    PROVE  \E c \in Nat : c = Max({a, b}) /\ a <= c /\ b <= c
<1>1. PICK c : c = Max({a, b})
  OBVIOUS
<1>2. c \in {a, b} /\ c >= a /\ c >= b
  BY <1>1, MaxOfTwo, a \in Int, b \in Int
<1>3. c \in Nat /\ a <= c /\ b <= c
  BY <1>2
<1> QED BY <1>1, <1>3

LEMMA PromptIsInTime == PromptInv => NothingOverdue
<1>1. SUFFICES ASSUME PromptInv, up, ~draining
               PROVE  /\ \A p \in Payments : \A t \in due[p] :
                            ~(now > Max({t, startedAt}) + Backlog(Others))
                      /\ Forgiving => \A p \in Payments : \A r \in outbox[p] : ~r.told =>
                            \A t \in r.due :
                              ~(now > Max({Max({t, r.owedAt}), startedAt}) + Backlog(2 * Others))
  BY DEF NothingOverdue, Others, Forgiving
<1>2. Recorded /\ TicksEnd /\ startedAt \in Nat /\ now \in Nat
  BY <1>1 DEF PromptInv, Recorded
<1>3. ASSUME NEW b \in Nat, NEW k \in Nat, now <= b + Backlog(k) PROVE ~(now > b + Backlog(k))
  <2>1. Backlog(k) \in Int
    <3>1. PICK c \in Nat \ {0}, g \in Nat : c = PerTick /\ g = TickRuns
      BY WorkAssumption, RunsIsNat
    <3>2. k \div c \in Nat
      BY <3>1, Batches, 0 \in Nat, 0 * c <= k
    <3>3. PICK d \in Nat : d = k \div c
      BY <3>2
    <3> QED BY <3>1, <3>3 DEF Backlog
  <2>2. PICK v \in Int : v = Backlog(k)
    BY <2>1
  <2> QED BY <1>2, <1>3, <2>2
<1>4. ASSUME NEW p \in Payments, NEW t \in due[p]
      PROVE  ~(now > Max({t, startedAt}) + Backlog(Others))
  <2>1. t \in Nat
    BY <1>2 DEF Recorded
  <2>2. PICK b \in Nat : b = Max({t, startedAt}) /\ t <= b /\ startedAt <= b
    BY <1>2, <2>1, LaterOfTwo
  <2>3. PollsAhead(p, t) \in SUBSET (Payments \ {p})
    BY DEF PollsAhead
  <2>4. PICK l \in Nat : l = Cardinality(PollsAhead(p, t)) /\ Others \in Nat
    BY <2>3, OthersAreFew
  <2>5. Within(b, l, Others)
    BY <1>1, <2>2, <2>4 DEF PromptInv, PollsInTime
  <2>6. now <= b + Backlog(Others)
    BY <1>2, <2>4, <2>5, WaitsNoLonger
  <2> QED BY <1>3, <2>2, <2>4, <2>6
<1>5. ASSUME Forgiving, NEW p \in Payments, NEW r \in outbox[p], ~r.told, NEW t \in r.due
      PROVE  ~(now > Max({Max({t, r.owedAt}), startedAt}) + Backlog(2 * Others))
  <2>1. t \in Nat /\ r.owedAt \in Nat
    <3>1. r \in Row
      BY <1>2 DEF Recorded
    <3> QED BY <3>1 DEF Row
  <2>2. PICK a \in Nat : a = Max({t, r.owedAt}) /\ t <= a /\ r.owedAt <= a
    BY <2>1, LaterOfTwo
  <2>3. PICK b \in Nat : b = Max({a, startedAt}) /\ a <= b /\ startedAt <= b
    BY <1>2, <2>2, LaterOfTwo
  <2>4. t <= b /\ r.owedAt <= b
    BY <2>1, <2>2, <2>3
  <2>5. HooksAhead(p, t) \in SUBSET (Payments \ {p}) /\ Anew(p, b) \in SUBSET (Payments \ {p})
    BY DEF HooksAhead, Anew
  <2>6. /\ Cardinality(HooksAhead(p, t)) \in Nat /\ Cardinality(Anew(p, b)) \in Nat
        /\ Others \in Nat
    BY <2>5, OthersAreFew
  <2>7. PICK l \in Nat, k \in Nat : /\ l = Cardinality(HooksAhead(p, t)) + Cardinality(Anew(p, b))
                                    /\ k = 2 * Others
    BY <2>6
  <2>8. Within(b, l, k)
    BY <1>1, <1>5, <2>3, <2>4, <2>7 DEF PromptInv, HooksInTime
  <2>9. now <= b + Backlog(k)
    BY <1>2, <2>7, <2>8, WaitsNoLonger
  <2> QED BY <1>3, <2>2, <2>3, <2>7, <2>9
<1> QED BY <1>4, <1>5

\* Nothing that is due is slept over, whoever scheduled it and whenever: whatever
\* the number of payments and the size of a batch, a poll is taken within a tick for
\* every batch that can be ahead of it, and so is a delivery while the backlog is
\* worked off before a sweep forgets what was told (armTicker, onScheduled,
\* duePolls, dueDeliveries, runTick).
THEOREM NothingIsSleptOver == Spec => []NothingOverdue
<1>1. PaceInv /\ PromptInv /\ [Next]_vars => PaceInv' /\ PromptInv'
  BY Paces, StaysPrompt
<1> QED BY <1>1, PaceInit, PromptInit, PromptIsInTime, PTL DEF Spec

-----------------------------------------------------------------------------
(* Nobody starves                                                          *)
(*                                                                         *)
(* When a tick begins, a host's next slot is at most one share away, so    *)
(* if there is room for all its payments, each of them buys the slot of    *)
(* its rank and none is put off.  What is due is thus due by the last     *)
(* asking or by a lease, and a lease ends with the answer to its poll      *)
(* unless the process ends first: then the next one finds it due no later  *)
(* than a lease after its own start.  What is due is taken in time.        *)

\* The gap between two slots of a host when there are as many instances as can be.
Share == Interval * MaxInstances

\* The last slot a host sold is at most one share before the next, and once nothing
\* waits for it any more it has passed.
SlotsFollow ==
    /\ instances \in 1..MaxInstances
    /\ \A h \in Hosts :
          \/ nextAt[h] <= now + Share
          \/ \E f \in flight : /\ f.kind = "poll" /\ f.p \in Payments /\ HostOf[f.p] = h
                               /\ f.at \in Nat /\ nextAt[h] <= f.at + Share

Asking(p) == \E f \in flight : f.kind = "poll" /\ f.p = p

\* p is asked about by d, counting from its last asking or from the process's start.
By(p, d) == d <= lastAsk[p] + Eager \/ d <= startedAt + Lease

\* What is due is due by then, and what is asked about was taken in time for it.
Fed(p) ==
    /\ \A t \in due[p] : t <= lastAsk[p] + Eager \/ t <= now + Lease
    /\ up /\ ~Asking(p) => \A t \in due[p] : By(p, t)
    /\ up /\ ~draining /\ Asking(p) =>
          \E d \in Nat : By(p, d) /\ tickStartedAt <= d + Backlog(Others)

StarveInv ==
    /\ open \subseteq Payments /\ lastAsk \in [Payments -> Nat]
    /\ SlotsFollow
    /\ \A p \in open : Roomy(HostOf[p]) => Fed(p)

\* A host with room sells each of its payments the slot of its rank.
LEMMA RoomForAll ==
    ASSUME Budget, instances \in 1..MaxInstances, NEW h \in Hosts, Roomy(h),
           nextAt[h] <= now + Share, NEW k \in Nat,
           Cardinality(Rivals(h)) \in Nat, k + 1 <= Cardinality(Rivals(h))
    PROVE  Affordable(h, k)
<1>1. PICK i \in Nat \ {0}, c \in Nat \ {0}, m \in Nat \ {0}, n \in Nat :
          i = Interval /\ c = instances /\ m = MaxInstances /\ n = Cardinality(Rivals(h))
  BY TimesAssumption DEF Budget
<1>2. PICK g \in Nat, s \in Nat : g = i * c /\ s = i * m
  BY <1>1
<1>3. g <= s
  <2>1. c <= m
    BY <1>1
  <2>2. c * i <= m * i
    BY <1>1, <2>1, Apart
  <2>3. c * i = i * c /\ m * i = i * m
    BY <1>1
  <2> QED BY <1>2, <2>2, <2>3
<1>4. PICK b : b \in Nat /\ b \in {now, nextAt[h]} /\ Slot(h, k) = b + k * g
  <2>1. PICK b, e : /\ b \in Nat /\ b \in {now, nextAt[h]} /\ e = Interval * instances
                    /\ \A j \in Nat : Slot(h, j) = b + j * e
    BY SlotIs
  <2>2. e = g
    BY <1>1, <1>2, <2>1
  <2> QED BY <2>1, <2>2
<1>5. PICK u \in Nat, v \in Nat, w \in Nat : u = k * g /\ v = k * s /\ w = n * s
  <2>1. k * g \in Nat /\ k * s \in Nat /\ n * s \in Nat
    BY <1>1, <1>2
  <2> QED BY <2>1
<1>6. u <= v
  <2>1. g * k <= s * k
    BY <1>2, <1>3, Apart
  <2>2. g * k = k * g /\ s * k = k * s
    BY <1>2
  <2> QED BY <1>5, <2>1, <2>2
<1>7. v + s <= w
  <2>1. (k + 1) * s = k * s + s /\ (k + 1) * s <= n * s
    BY <1>1, <1>2, Apart, k + 1 \in Nat
  <2> QED BY <1>5, <2>1
<1>8. w <= LongestWait
  <2>1. n * i * m <= LongestWait
    BY <1>1 DEF Roomy
  <2>2. n * i * m = n * (i * m)
    BY <1>1
  <2> QED BY <1>2, <1>5, <2>1, <2>2
<1>9. b <= now + s /\ now \in Nat
  <2>1. now \in Nat /\ nextAt[h] <= now + s
    BY <1>1, <1>2 DEF Share, Budget
  <2> QED BY <1>2, <1>4, <2>1
<1>10. Slot(h, k) = b + u
  BY <1>4, <1>5
<1>11. LongestWait \in Nat
  BY TimesAssumption
<1>12. PICK x : x = Slot(h, k)
  OBVIOUS
<1>13. x = b + u
  BY <1>10, <1>12
<1>14. x - now <= LongestWait
  BY <1>2, <1>4, <1>5, <1>6, <1>7, <1>8, <1>9, <1>11, <1>13
<1> QED BY <1>12, <1>14 DEF Affordable

\* What a tick that finds the slots of a host passed makes of them: each poll it
\* takes of a host with room is in flight, and so is the last poll to buy a slot.
Asks(P) ==
    /\ P \subseteq DuePolls /\ P \subseteq Payments
    /\ \A p \in Payments : p \notin P => due'[p] = due[p] /\ ~Asking(p)'
    /\ \A p \in P : Roomy(HostOf[p]) => due'[p] = {now + Lease} /\ Asking(p)'
    /\ SlotsFollow'

LEMMA TickAsks ==
    ASSUME Budget, TicksEnd, SlotsFollow, RunTick
    PROVE  \E P : Asks(P)
<1>1. PICK P \in Earliest(DuePolls, At(due)),
           H \in Earliest(DueDeliveries, At([p \in Payments |-> UNION {r.due : r \in outbox[p]}])) :
       \E rank \in [P -> 0..Cardinality(P)] :
          LET mine(p) == {q \in P : HostOf[q] = HostOf[p]}
              buys == {p \in P : Affordable(HostOf[p], rank[p])}
              of(h, S) == Cardinality({p \in S : HostOf[p] = h})
          IN  /\ \A p \in P : rank[p] < Cardinality(mine(p))
              /\ \A p, q \in P : p # q /\ HostOf[p] = HostOf[q] => rank[p] # rank[q]
              /\ nextAt' = [h \in Hosts |-> NextSlot(h, of(h, buys))]
              /\ due' = [p \in Payments |-> IF p \notin P THEN due[p]
                                            ELSE IF p \in buys THEN {now + Lease}
                                            ELSE {nextAt'[HostOf[p]]}]
              /\ outbox' = [p \in Payments |->
                    IF p \in H THEN {[r EXCEPT !.due = {now + Lease}] : r \in outbox[p]} ELSE outbox[p]]
              /\ flight' = {[kind |-> "poll", p |-> p, at |-> Slot(HostOf[p], rank[p])] : p \in buys}
                    \cup {[kind |-> "hook", p |-> p, at |-> now] : p \in H}
              /\ slots' = {s \in slots : s.at + s.gap > now}
                    \cup {[p |-> p, at |-> Slot(HostOf[p], rank[p]), gap |-> Interval * instances] : p \in buys}
  BY Zenon DEF RunTick
<1>2. PICK rank \in [P -> 0..Cardinality(P)] :
          LET mine(p) == {q \in P : HostOf[q] = HostOf[p]}
              buys == {p \in P : Affordable(HostOf[p], rank[p])}
              of(h, S) == Cardinality({p \in S : HostOf[p] = h})
          IN  /\ \A p \in P : rank[p] < Cardinality(mine(p))
              /\ \A p, q \in P : p # q /\ HostOf[p] = HostOf[q] => rank[p] # rank[q]
              /\ nextAt' = [h \in Hosts |-> NextSlot(h, of(h, buys))]
              /\ due' = [p \in Payments |-> IF p \notin P THEN due[p]
                                            ELSE IF p \in buys THEN {now + Lease}
                                            ELSE {nextAt'[HostOf[p]]}]
              /\ outbox' = [p \in Payments |->
                    IF p \in H THEN {[r EXCEPT !.due = {now + Lease}] : r \in outbox[p]} ELSE outbox[p]]
              /\ flight' = {[kind |-> "poll", p |-> p, at |-> Slot(HostOf[p], rank[p])] : p \in buys}
                    \cup {[kind |-> "hook", p |-> p, at |-> now] : p \in H}
              /\ slots' = {s \in slots : s.at + s.gap > now}
                    \cup {[p |-> p, at |-> Slot(HostOf[p], rank[p]), gap |-> Interval * instances] : p \in buys}
  BY <1>1
<1>3. PICK buys : buys = {p \in P : Affordable(HostOf[p], rank[p])}
  OBVIOUS
<1>4. P \subseteq DuePolls /\ P \subseteq Payments
  BY <1>1 DEF Earliest, DuePolls
<1>5. Bought(P, rank)
  <2>1. rank \in [P -> Nat]
    BY <1>2
  <2> QED BY <1>2, <1>4, <2>1, Zenon DEF Bought
<1>6. /\ now' = now /\ instances' = instances
      /\ \A h \in Hosts : nextAt[h] <= now + Share
  <2>1. ticker # {} /\ now' = now /\ instances' = instances
    BY DEF RunTick
  <2>2. flight = {}
    BY <2>1 DEF TicksEnd
  <2> QED BY <2>1, <2>2 DEF SlotsFollow
<1>7. \A p \in buys : /\ p \in P
                      /\ [kind |-> "poll", p |-> p, at |-> Slot(HostOf[p], rank[p])] \in flight'
  BY <1>2, <1>3
<1>8. ASSUME NEW p \in P, Roomy(HostOf[p])
      PROVE  p \in buys
  <2>1. PICK h \in Hosts : h = HostOf[p]
    BY <1>4 DEF Hosts
  <2>2. PICK S, R : S = {q \in P : HostOf[q] = h} /\ R = Rivals(h)
    OBVIOUS
  <2>3. S \in SUBSET R /\ IsFiniteSet(R)
    <3>1. R \in SUBSET Payments
      BY <2>2 DEF Rivals
    <3> QED BY <1>4, <2>2, <3>1, WorkAssumption, FS_Subset DEF Rivals
  <2>4. Cardinality(S) \in Nat /\ Cardinality(R) \in Nat /\ Cardinality(S) <= Cardinality(R)
    BY <2>3, FS_Subset, FS_CardinalityType
  <2>5. rank[p] \in Nat /\ rank[p] < Cardinality(S)
    BY <1>5, <2>1, <2>2 DEF Bought
  <2>6. rank[p] + 1 <= Cardinality(R)
    BY <2>4, <2>5
  <2>7. Affordable(h, rank[p])
    BY <1>6, <1>8, <2>1, <2>2, <2>4, <2>5, <2>6, RoomForAll DEF SlotsFollow
  <2> QED BY <1>3, <2>1, <2>7
<1>9. ASSUME NEW h \in Hosts
      PROVE  \/ nextAt'[h] <= now' + Share
             \/ \E f \in flight' : /\ f.kind = "poll" /\ f.p \in Payments /\ HostOf[f.p] = h
                                   /\ f.at \in Nat /\ nextAt'[h] <= f.at + Share
  <2>1. PICK T : T = {q \in buys : HostOf[q] = h}
    OBVIOUS
  <2>2. IsFiniteSet(T) /\ Cardinality(T) \in Nat
    <3>1. T \in SUBSET Payments
      BY <1>3, <1>4, <2>1
    <3> QED BY <3>1, WorkAssumption, FS_Subset, FS_CardinalityType
  <2>3. nextAt'[h] = IF Cardinality(T) = 0 THEN nextAt[h] ELSE Slot(h, Cardinality(T))
    BY <1>2, <1>3, <2>1 DEF NextSlot
  <2>4. CASE Cardinality(T) = 0
    BY <1>6, <2>3, <2>4
  <2>5. CASE Cardinality(T) # 0
    <3>1. PICK k \in Nat : Cardinality(T) = k + 1
      <4>1. PICK n \in Nat : n = Cardinality(T)
        BY <2>2
      <4> QED BY <2>5, <4>1, n - 1 \in Nat, n = (n - 1) + 1
    \* The polls that bought have the ranks up to k.
    <3>2. PICK f : f = [q \in T |-> rank[q]]
      OBVIOUS
    <3>3. ASSUME NEW x \in T
          PROVE  x \in P /\ HostOf[x] = h /\ f[x] = rank[x] /\ rank[x] \in Nat /\ rank[x] < k + 1
      <4>1. x \in P /\ HostOf[x] = h /\ Affordable(HostOf[x], rank[x])
        BY <1>3, <2>1
      <4>2. f[x] = rank[x] /\ rank[x] \in Nat
        BY <1>5, <3>2, <4>1 DEF Bought
      <4>3. rank[x] + 1 <= Cardinality(T)
        BY <1>3, <1>5, <2>1, <4>1, FirstComeFirstServed
      <4> QED BY <3>1, <4>1, <4>2, <4>3
    <3>4. /\ f \in [T -> Nat]
          /\ \A x \in T : f[x] < Cardinality(T)
          /\ \A x, y \in T : x # y => f[x] # f[y]
      BY <1>5, <3>1, <3>2, <3>3 DEF Bought
    <3>5. PICK x \in T : f[x] = k
      BY <2>2, <3>1, <3>4, RanksAreAll, k < k + 1
    <3>6. PICK e : e = [kind |-> "poll", p |-> x, at |-> Slot(h, k)]
      OBVIOUS
    <3>7. e \in flight' /\ e.kind = "poll" /\ e.p = x /\ e.at = Slot(h, k)
      BY <1>7, <2>1, <3>3, <3>5, <3>6
    <3>8. PICK b \in Nat, g \in Nat : g = Interval * instances /\ \A j \in Nat : Slot(h, j) = b + j * g
      <4>1. PICK b, g : /\ b \in Nat /\ g \in Nat /\ g = Interval * instances
                        /\ \A j \in Nat : Slot(h, j) = b + j * g
        BY SlotIs
      <4> QED BY <4>1
    <3>9. PICK u \in Nat : u = k * g
      BY <3>1, <3>8
    <3>10. Slot(h, k) = b + u /\ Slot(h, k + 1) = b + u + g
      BY <3>1, <3>8, <3>9, Apart, k + 1 \in Nat
    <3>11. g <= Share /\ Share \in Nat
      <4>1. PICK i \in Nat, c \in Nat, m \in Nat : /\ i = Interval /\ c = instances
                                                   /\ m = MaxInstances /\ c <= m
        BY TimesAssumption DEF SlotsFollow
      <4>2. c * i <= m * i /\ c * i = i * c /\ m * i = i * m /\ i * m \in Nat
        BY <4>1, Apart
      <4> QED BY <3>8, <4>1, <4>2 DEF Share
    <3>12. e.at \in Nat /\ nextAt'[h] <= e.at + Share
      BY <2>3, <2>5, <3>1, <3>7, <3>10, <3>11
    <3>13. x \in Payments /\ HostOf[x] = h
      BY <1>4, <3>3
    <3> QED BY <3>7, <3>12, <3>13
  <2> QED BY <2>4, <2>5
<1>10. SlotsFollow'
  BY <1>6, <1>9 DEF SlotsFollow, Share
<1>11. ASSUME NEW p \in P, Roomy(HostOf[p])
       PROVE  due'[p] = {now + Lease} /\ Asking(p)'
  <2>1. p \in buys /\ p \in Payments
    BY <1>4, <1>8, <1>11
  <2>2. due'[p] = {now + Lease}
    BY <1>2, <1>3, <2>1
  <2>3. PICK e : e = [kind |-> "poll", p |-> p, at |-> Slot(HostOf[p], rank[p])]
    OBVIOUS
  <2>4. e \in flight' /\ e.kind = "poll" /\ e.p = p
    BY <1>7, <2>1, <2>3
  <2> QED BY <2>2, <2>4 DEF Asking
<1>12. ASSUME NEW p \in Payments, p \notin P
       PROVE  due'[p] = due[p] /\ ~Asking(p)'
  <2>1. due'[p] = due[p]
    BY <1>2, <1>12
  <2>2. ASSUME NEW f \in flight', f.kind = "poll", f.p = p PROVE FALSE
    <3>1. CASE \E q \in buys : f = [kind |-> "poll", p |-> q, at |-> Slot(HostOf[q], rank[q])]
      BY <1>3, <1>12, <2>2, <3>1
    <3>2. CASE \E q \in H : f = [kind |-> "hook", p |-> q, at |-> now]
      BY <2>2, <3>2
    <3> QED BY <1>2, <1>3, <3>1, <3>2
  <2> QED BY <2>1, <2>2 DEF Asking
<1> WITNESS P
<1> QED BY <1>4, <1>10, <1>11, <1>12 DEF Asks

LEMMA BacklogIsNat ==
    ASSUME NEW k \in Nat
    PROVE  Backlog(k) \in Nat
<1>1. PICK c \in Nat \ {0}, g \in Nat : c = PerTick /\ g = TickRuns
  BY WorkAssumption, RunsIsNat
<1>2. k \div c \in Nat
  BY <1>1, Batches, 0 \in Nat, 0 * c <= k
<1>3. PICK d \in Nat : d = k \div c
  BY <1>2
<1> QED BY <1>1, <1>3 DEF Backlog

LEMMA SlotsStillFollow ==
    ASSUME Budget, TicksEnd, SlotsFollow, [Next]_vars
    PROVE  SlotsFollow'
<1>1. now \in Nat /\ Share \in Nat /\ 1 \in 1..MaxInstances /\ \A h \in Hosts : nextAt[h] \in Nat
  <2>1. PICK i \in Nat, m \in Nat : i = Interval /\ m = MaxInstances /\ m >= 1
    BY TimesAssumption
  <2>2. i * m \in Nat
    OBVIOUS
  <2> QED BY <2>1, <2>2 DEF Share, Budget
\* A slot that is waited for no longer has passed.
<1>2. ASSUME nextAt' = nextAt, now' = now, instances' \in 1..MaxInstances,
             \A f \in flight \ flight' : f.kind = "poll" => f.at <= now
      PROVE  SlotsFollow'
  <2>1. ASSUME NEW h \in Hosts
        PROVE  \/ nextAt'[h] <= now' + Share
               \/ \E f \in flight' : /\ f.kind = "poll" /\ f.p \in Payments /\ HostOf[f.p] = h
                                     /\ f.at \in Nat /\ nextAt'[h] <= f.at + Share
    <3>1. CASE nextAt[h] <= now + Share
      BY <1>2, <3>1
    <3>2. CASE ~(nextAt[h] <= now + Share)
      <4>1. PICK f \in flight : /\ f.kind = "poll" /\ f.p \in Payments /\ HostOf[f.p] = h
                                /\ f.at \in Nat /\ nextAt[h] <= f.at + Share
        BY <3>2 DEF SlotsFollow
      <4>2. ~(f.at <= now)
        BY <1>1, <3>2, <4>1
      <4> QED BY <1>2, <4>1, <4>2
    <3> QED BY <3>1, <3>2
  <2> QED BY <1>2, <2>1 DEF SlotsFollow, Share
<1>3. instances \in 1..MaxInstances
  BY DEF SlotsFollow
<1>4. ASSUME Stopped PROVE SlotsFollow'
  <2>1. /\ instances' = 1 /\ now' = now
        /\ \A h \in Hosts : nextAt'[h] = 0
    BY <1>4 DEF Stopped
  <2>2. 0 <= now + Share
    BY <1>1
  <2> QED BY <1>1, <2>1, <2>2 DEF SlotsFollow, Share
<1>5. ASSUME NEW p \in Payments,
             \/ Insert(p) \/ HearPaid(p) \/ HearTold(p) \/ HearPolled(p) \/ HearMissed(p)
      PROVE  SlotsFollow'
  <2>1. UNCHANGED <<nextAt, now, instances, flight>>
    BY <1>5 DEF Insert, HearPaid, HearTold, HearPolled, HearMissed, Scheduled
  <2> QED BY <1>2, <1>3, <2>1
<1>6. ASSUME NEW p \in Payments, NEW next, PollEnds(p, next) \/ PollFinds(p)
      PROVE  SlotsFollow'
  <2>1. UNCHANGED <<nextAt, now, instances>> /\ flight' = flight \ InFlight("poll", p)
    BY <1>6 DEF PollEnds, PollFinds
  <2>2. \A f \in flight \ flight' : f.at <= now
    BY <2>1 DEF InFlight
  <2> QED BY <1>2, <1>3, <2>1, <2>2
<1>7. ASSUME NEW p \in Payments, NEW next, HookRefused(p, next) \/ HookTaken(p)
      PROVE  SlotsFollow'
  <2>1. UNCHANGED <<nextAt, now, instances>> /\ flight' = flight \ InFlight("hook", p)
    BY <1>7 DEF HookTaken, HookRefused
  <2>2. \A f \in flight \ flight' : f.kind = "hook"
    BY <2>1 DEF InFlight
  <2> QED BY <1>2, <1>3, <2>1, <2>2
<1>8. CASE Sweep \/ EndTick \/ Start \/ UNCHANGED vars
  <2>1. UNCHANGED <<nextAt, now, instances, flight>>
    BY <1>8 DEF Sweep, Scheduled, EndTick, Start, vars, loop
  <2> QED BY <1>2, <1>3, <2>1
<1>9. CASE Tick
  <2>1. UNCHANGED <<nextAt, instances, flight>> /\ now' = now + 1
    BY <1>9 DEF Tick, loop
  <2>2. ASSUME NEW h \in Hosts, nextAt[h] <= now + Share PROVE nextAt[h] <= now + 1 + Share
    BY <1>1, <2>2
  <2> QED BY <2>1, <2>2 DEF SlotsFollow, Share
<1>10. CASE Meet
  <2>1. UNCHANGED <<nextAt, now, flight>> /\ instances' \in 1..MaxInstances
    BY <1>10 DEF Meet, loop
  <2> QED BY <1>2, <2>1
<1>11. CASE Signal \/ Exit \/ Crash
  <2>1. CASE Stopped
    BY <1>4, <2>1
  <2>2. CASE ~Stopped
    <3>1. UNCHANGED <<nextAt, now, instances, flight>>
      BY <1>11, <2>2 DEF Signal, Exit, Crash
    <3> QED BY <1>2, <1>3, <3>1
  <2> QED BY <2>1, <2>2
<1>12. CASE RunTick
  BY <1>12, TickAsks DEF Asks
<1> QED BY <1>5, <1>6, <1>7, <1>8, <1>9, <1>10, <1>11, <1>12 DEF Next

LEMMA Sooner ==
    ASSUME NEW u \in Nat, NEW t \in Nat, NEW a \in Nat, NEW e \in Nat,
           NEW b \in Nat, NEW c \in Nat, NEW s \in Nat,
           u <= t, t <= a + e \/ t <= b + s, b <= c
    PROVE  u <= a + e \/ u <= c + s
OBVIOUS

\* Whatever happens, a payment of a host with room is due by its last asking, or by
\* a lease.
LEMMA StaysFed ==
    ASSUME Budget, Recorded, TicksEnd, NothingOverdue, StarveInv, Next,
           NEW q \in open', Roomy(HostOf[q])
    PROVE  q \in Payments /\ lastAsk' \in [Payments -> Nat] /\ Fed(q)'
<1>1. /\ now \in Nat /\ startedAt \in Nat /\ tickStartedAt \in Nat
      /\ due \in [Payments -> SUBSET Nat] /\ lastAsk \in [Payments -> Nat] /\ open \subseteq Payments
      /\ Eager \in Nat /\ Lease \in Nat
  BY TimesAssumption DEF Recorded, TicksEnd, StarveInv
<1>2. q \in open => Fed(q)
  BY DEF StarveInv
\* q stays as it was, or is brought forward.
<1>3. ASSUME q \in open, UNCHANGED <<lastAsk, up, draining, startedAt, tickStartedAt>>,
             \A u \in due'[q] : u \in Nat /\ \E t \in due[q] : u <= t,
             now' \in Nat, now <= now', Asking(q)' <=> Asking(q)
      PROVE  q \in Payments /\ lastAsk' \in [Payments -> Nat] /\ Fed(q)'
  <2>1. q \in Payments /\ Fed(q)
    BY <1>1, <1>2, <1>3
  <2>2. \A t \in due[q] : t \in Nat
    BY <1>1, <2>1
  <2>3. lastAsk[q] \in Nat /\ lastAsk'[q] = lastAsk[q]
    BY <1>1, <1>3, <2>1
  <2>4. ASSUME NEW u \in due'[q]
        PROVE  u <= lastAsk'[q] + Eager \/ u <= now' + Lease
    <3>1. PICK t \in due[q] : u <= t
      BY <1>3
    <3>2. PICK a \in Nat : a = lastAsk[q] /\ a = lastAsk'[q]
      BY <2>3
    <3>3. u \in Nat /\ t \in Nat /\ (t <= a + Eager \/ t <= now + Lease)
      BY <1>3, <2>1, <2>2, <3>2 DEF Fed
    <3>4. now \in Nat /\ Eager \in Nat /\ Lease \in Nat
      BY <1>1
    <3>5. now' \in Nat /\ now <= now'
      BY <1>3
    <3>6. u <= a + Eager \/ u <= now' + Lease
      BY <3>1, <3>3, <3>4, <3>5, Sooner
    <3> QED BY <3>2, <3>6
  <2>5. ASSUME up', ~Asking(q)', NEW u \in due'[q]
        PROVE  By(q, u)'
    <3>1. PICK t \in due[q] : u <= t
      BY <1>3
    <3>2. u \in Nat /\ t \in Nat /\ By(q, t)
      BY <1>3, <2>1, <2>2, <2>5 DEF Fed
    <3> QED BY <1>1, <1>3, <2>3, <3>1, <3>2 DEF By
  <2>6. ASSUME up', ~draining', Asking(q)'
        PROVE  \E d \in Nat : By(q, d)' /\ tickStartedAt' <= d + Backlog(Others)
    <3>1. PICK d \in Nat : By(q, d) /\ tickStartedAt <= d + Backlog(Others)
      BY <1>3, <2>1, <2>6 DEF Fed
    <3>2. By(q, d)'
      BY <1>3, <2>3, <3>1 DEF By
    <3> QED BY <1>3, <3>1, <3>2
  <2>7. Fed(q)'
    BY <2>4, <2>5, <2>6 DEF Fed, Backlog, TickRuns, Others
  <2> QED BY <1>1, <1>3, <2>1, <2>7
\* q was asked about just now.
<1>4. ASSUME q \in Payments, now' = now, lastAsk' = [lastAsk EXCEPT ![q] = now],
             \A u \in due'[q] : u \in Nat /\ u <= now + Eager,
             tickStartedAt' = tickStartedAt, flight' \subseteq flight
      PROVE  q \in Payments /\ lastAsk' \in [Payments -> Nat] /\ Fed(q)'
  <2>1. lastAsk'[q] = now /\ lastAsk' \in [Payments -> Nat]
    BY <1>1, <1>4
  <2>2. \A u \in due'[q] : u <= lastAsk'[q] + Eager /\ By(q, u)'
    BY <1>4, <2>1 DEF By
  <2>3. ASSUME Asking(q)'
        PROVE  \E d \in Nat : By(q, d)' /\ tickStartedAt' <= d + Backlog(Others)
    <3>1. tickStartedAt <= now
      BY <1>4, <2>3 DEF Asking, TicksEnd
    <3>2. Others \in Nat
      BY <1>4, OthersAreFew, {} \in SUBSET (Payments \ {q})
    <3>3. Backlog(Others) \in Nat
      BY <3>2, BacklogIsNat
    <3>4. PICK d : d = tickStartedAt
      OBVIOUS
    <3>5. By(q, d)'
      BY <1>1, <1>4, <2>1, <3>1, <3>4 DEF By
    <3>6. tickStartedAt' <= d + Backlog(Others)
      BY <1>1, <1>4, <3>3, <3>4
    <3> QED BY <1>1, <3>4, <3>5, <3>6
  <2>4. Fed(q)'
    BY <2>2, <2>3 DEF Fed, Backlog, TickRuns, Others
  <2> QED BY <1>4, <2>1, <2>4
<1>5. ASSUME NEW S, flight' = flight \ S, \A f \in S : f.kind # "poll" \/ f.p # q
      PROVE  Asking(q)' <=> Asking(q)
  BY <1>5 DEF Asking
<1>6. ASSUME NEW p \in Payments, HearTold(p) \/ HearMissed(p) \/ HearPaid(p)
      PROVE  q \in Payments /\ lastAsk' \in [Payments -> Nat] /\ Fed(q)'
  <2>1. /\ UNCHANGED <<lastAsk, up, draining, startedAt, now, flight, tickStartedAt>>
        /\ q \in open
    BY <1>6 DEF HearTold, HearMissed, HearPaid, Scheduled, life
  <2>2. q \in Payments
    BY <1>1, <2>1
  <2>3. \A u \in due'[q] : u \in Nat /\ \E t \in due[q] : u <= t
    <3>1. CASE HearTold(p)
      BY <1>1, <2>2, <3>1 DEF HearTold
    <3>2. CASE HearMissed(p)
      <4>1. \A t \in due[q] : t \in Nat /\ Min({t, now}) \in {t, now} /\ Min({t, now}) <= t
        BY <1>1, <2>2, LeastOfTwo
      <4>2. PICK d : d = {Min({t, now}) : t \in due[p]}
        OBVIOUS
      <4>3. due' = [due EXCEPT ![p] = d]
        BY <3>2, <4>2 DEF HearMissed
      <4>4. CASE p = q
        <5>1. due'[q] = d
          BY <1>1, <2>2, <4>3, <4>4
        <5>2. ASSUME NEW u \in d PROVE u \in Nat /\ \E t \in due[q] : u <= t
          <6>1. PICK t \in due[q] : u = Min({t, now})
            BY <4>2, <4>4
          <6> QED BY <1>1, <4>1, <6>1
        <5> QED BY <5>1, <5>2
      <4>5. CASE p # q
        <5>1. due'[q] = due[q]
          BY <1>1, <2>2, <4>3, <4>5
        <5> QED BY <1>1, <2>2, <5>1
      <4> QED BY <4>4, <4>5
    <3>3. CASE HearPaid(p)
      BY <1>1, <2>2, <3>3 DEF HearPaid
    <3> QED BY <1>6, <3>1, <3>2, <3>3
  <2>4. Asking(q)' <=> Asking(q)
    BY <2>1 DEF Asking
  <2> QED BY <1>1, <1>3, <2>1, <2>3, <2>4
<1>7. ASSUME NEW p \in Payments, Insert(p) \/ HearPolled(p)
      PROVE  q \in Payments /\ lastAsk' \in [Payments -> Nat] /\ Fed(q)'
  <2>1. /\ UNCHANGED <<up, draining, startedAt, now, flight, tickStartedAt>>
        /\ lastAsk' = [lastAsk EXCEPT ![p] = now]
        /\ q = p \/ q \in open
        /\ due' = [due EXCEPT ![p] = {now}] \/ due' = [due EXCEPT ![p] = {now + Eager}]
    BY <1>7 DEF Insert, HearPolled, Scheduled, life
  <2>2. CASE q = p
    <3>1. due'[q] = {now} \/ due'[q] = {now + Eager}
      BY <1>1, <2>1, <2>2
    <3>2. \A u \in due'[q] : u \in Nat /\ u <= now + Eager
      BY <1>1, <3>1
    <3> QED BY <1>4, <2>1, <2>2, <3>2
  <2>3. CASE q # p
    <3>1. q \in Payments /\ due'[q] = due[q] /\ lastAsk'[q] = lastAsk[q]
      BY <1>1, <2>1, <2>3
    <3>2. lastAsk' \in [Payments -> Nat]
      BY <1>1, <2>1
    <3>3. Asking(q)' <=> Asking(q)
      BY <2>1 DEF Asking
    <3>4. Fed(q)
      BY <1>2, <2>1, <2>3
    <3>5. Fed(q)'
      BY <2>1, <3>1, <3>3, <3>4 DEF Fed, By, Backlog, TickRuns, Others
    <3> QED BY <3>1, <3>2, <3>5
  <2> QED BY <2>2, <2>3
<1>8. ASSUME NEW p \in Payments, NEW next \in SUBSET Nat, \A u \in next : u <= now + Eager,
             PollEnds(p, next)
      PROVE  q \in Payments /\ lastAsk' \in [Payments -> Nat] /\ Fed(q)'
  <2>1. /\ UNCHANGED <<up, draining, startedAt, now, tickStartedAt>>
        /\ flight' = flight \ InFlight("poll", p)
        /\ lastAsk' = [lastAsk EXCEPT ![p] = now]
        /\ q \in open
        /\ due' = IF p \in open THEN [due EXCEPT ![p] = next] ELSE due
    BY <1>8 DEF PollEnds, Turned, life
  <2>2. CASE q = p
    <3>1. due'[q] = next
      BY <1>1, <2>1, <2>2
    <3>2. \A u \in due'[q] : u \in Nat /\ u <= now + Eager
      BY <1>8, <3>1
    <3> QED BY <1>1, <1>4, <2>1, <2>2, <3>2
  <2>3. CASE q # p
    <3>1. q \in Payments /\ due'[q] = due[q] /\ lastAsk'[q] = lastAsk[q]
      BY <1>1, <2>1, <2>3
    <3>2. lastAsk' \in [Payments -> Nat]
      BY <1>1, <2>1
    <3>3. \A f \in InFlight("poll", p) : f.kind # "poll" \/ f.p # q
      BY <2>3 DEF InFlight
    <3>4. Asking(q)' <=> Asking(q)
      BY <1>5, <2>1, <3>3
    <3>5. Fed(q)
      BY <1>2, <2>1
    <3>6. Fed(q)'
      BY <2>1, <3>1, <3>4, <3>5 DEF Fed, By, Backlog, TickRuns, Others
    <3> QED BY <3>1, <3>2, <3>6
  <2> QED BY <2>2, <2>3
<1>9. ASSUME NEW p \in Payments, PollFinds(p)
      PROVE  q \in Payments /\ lastAsk' \in [Payments -> Nat] /\ Fed(q)'
  <2>1. /\ UNCHANGED <<lastAsk, up, draining, startedAt, now, tickStartedAt>>
        /\ flight' = flight \ InFlight("poll", p)
        /\ q \in open /\ q # p
        /\ due' = [due EXCEPT ![p] = {}]
    BY <1>9 DEF PollFinds, life
  <2>2. q \in Payments /\ due'[q] = due[q]
    BY <1>1, <2>1
  <2>3. \A u \in due'[q] : u \in Nat /\ \E t \in due[q] : u <= t
    BY <1>1, <2>2
  <2>4. \A f \in InFlight("poll", p) : f.kind # "poll" \/ f.p # q
    BY <2>1 DEF InFlight
  <2>5. Asking(q)' <=> Asking(q)
    BY <1>5, <2>1, <2>4
  <2> QED BY <1>1, <1>3, <2>1, <2>3, <2>5
<1>10. ASSUME NEW p \in Payments, NEW next, HookTaken(p) \/ HookRefused(p, next)
       PROVE  q \in Payments /\ lastAsk' \in [Payments -> Nat] /\ Fed(q)'
  <2>1. /\ UNCHANGED <<lastAsk, up, draining, startedAt, now, tickStartedAt, due>>
        /\ flight' = flight \ InFlight("hook", p)
        /\ q \in open
    BY <1>10 DEF HookTaken, HookRefused, life
  <2>2. \A u \in due'[q] : u \in Nat /\ \E t \in due[q] : u <= t
    BY <1>1, <2>1
  <2>3. \A f \in InFlight("hook", p) : f.kind # "poll" \/ f.p # q
    BY DEF InFlight
  <2>4. Asking(q)' <=> Asking(q)
    BY <1>5, <2>1, <2>3
  <2> QED BY <1>1, <1>3, <2>1, <2>2, <2>4
<1>11. CASE Sweep \/ EndTick \/ Meet \/ Tick
  <2>1. /\ UNCHANGED <<lastAsk, up, draining, startedAt, flight, tickStartedAt, due>>
        /\ now' = now \/ now' = now + 1
        /\ q \in open
    BY <1>11 DEF Sweep, Scheduled, EndTick, Meet, Tick, life, loop, ledger
  <2>2. \A u \in due'[q] : u \in Nat /\ \E t \in due[q] : u <= t
    BY <1>1, <2>1
  <2>3. Asking(q)' <=> Asking(q)
    BY <2>1 DEF Asking
  <2>4. now' \in Nat /\ now <= now'
    BY <1>1, <2>1
  <2> QED BY <1>3, <2>1, <2>2, <2>3, <2>4
<1>12. CASE Signal \/ Exit \/ Crash \/ Start
  <2>1. UNCHANGED <<lastAsk, now, due>> /\ q \in open /\ q \in Payments
    BY <1>1, <1>12 DEF Signal, Exit, Crash, Stopped, Start, ledger
  <2>2. Fed(q)
    BY <1>2, <2>1
  <2>3. \A t \in due'[q] : t <= lastAsk'[q] + Eager \/ t <= now' + Lease
    BY <2>1, <2>2 DEF Fed
  <2>4. CASE ~up'
    BY <1>1, <2>1, <2>3, <2>4 DEF Fed
  <2>5. CASE Signal /\ up'
    <3>1. UNCHANGED <<up, startedAt, flight>> /\ draining'
      BY <2>5 DEF Signal, Stopped
    <3>2. Asking(q)' <=> Asking(q)
      BY <3>1 DEF Asking
    <3>3. up' /\ ~Asking(q)' => \A t \in due'[q] : By(q, t)'
      BY <2>1, <2>2, <3>1, <3>2 DEF Fed, By
    <3>4. Fed(q)'
      BY <2>3, <3>1, <3>3 DEF Fed
    <3> QED BY <1>1, <2>1, <3>4
  <2>6. CASE Start
    <3>1. flight' = {} /\ startedAt' = now
      BY <2>6 DEF Start, TicksEnd
    <3>2. \A t \in due'[q] : By(q, t)'
      BY <2>1, <2>3, <3>1 DEF By
    <3>3. ~Asking(q)'
      BY <3>1 DEF Asking
    <3>4. Fed(q)'
      BY <2>3, <3>2, <3>3 DEF Fed
    <3> QED BY <1>1, <2>1, <3>4
  <2>7. Exit \/ Crash => ~up'
    BY DEF Exit, Crash, Stopped
  <2> QED BY <1>12, <2>4, <2>5, <2>6, <2>7
<1>13. CASE RunTick
  <2>1. PICK P : Asks(P)
    BY <1>13, TickAsks DEF StarveInv
  <2>2. /\ UNCHANGED <<lastAsk, up, draining, startedAt, now>>
        /\ up /\ tickStartedAt' = now /\ ticker # {}
        /\ q \in open /\ q \in Payments
    BY <1>1, <1>13 DEF RunTick, life
  <2>3. ~Asking(q)
    BY <2>2 DEF TicksEnd, Asking
  <2>4. Fed(q) /\ \A t \in due[q] : By(q, t)
    BY <1>2, <2>2, <2>3 DEF Fed
  <2>5. CASE q \notin P
    <3>1. due'[q] = due[q] /\ ~Asking(q)'
      BY <2>1, <2>2, <2>5 DEF Asks
    <3>2. Fed(q)'
      BY <2>2, <2>4, <3>1 DEF Fed, By
    <3> QED BY <1>1, <2>2, <3>2
  <2>6. CASE q \in P
    <3>1. due'[q] = {now + Lease} /\ Asking(q)'
      BY <2>1, <2>6 DEF Asks
    <3>2. \A t \in due'[q] : t <= now' + Lease
      BY <1>1, <2>2, <3>1
    <3>3. PICK t \in due[q] : t \in Nat /\ By(q, t)
      <4>1. due[q] # {}
        BY <2>1, <2>6 DEF Asks, DuePolls
      <4> QED BY <1>1, <2>2, <2>4, <4>1
    <3>4. Others \in Nat
      BY <2>2, OthersAreFew, {} \in SUBSET (Payments \ {q})
    <3>5. PICK k \in Nat : k = Backlog(Others)
      BY <3>4, BacklogIsNat
    <3>6. ASSUME ~draining PROVE \E d \in Nat : By(q, d)' /\ tickStartedAt' <= d + Backlog(Others)
      <4>1. PICK d : d = Max({t, startedAt})
        OBVIOUS
      <4>2. d \in {t, startedAt}
        BY <1>1, <3>3, <4>1, MaxOfTwo, t \in Int, startedAt \in Int
      <4>3. ~(now > d + k)
        BY <2>2, <3>5, <3>6, <4>1 DEF NothingOverdue, Others
      <4>4. By(q, startedAt)
        BY <1>1 DEF By
      <4>5. d \in Nat /\ By(q, d)
        BY <1>1, <3>3, <4>2, <4>4
      <4>6. By(q, d)'
        BY <2>2, <4>5 DEF By
      <4>7. tickStartedAt' <= d + k
        BY <1>1, <2>2, <4>3, <4>5
      <4> QED BY <3>5, <4>5, <4>6, <4>7
    <3>7. Fed(q)'
      BY <2>2, <3>1, <3>2, <3>6 DEF Fed, Backlog, TickRuns, Others
    <3> QED BY <1>1, <2>2, <3>7
  <2> QED BY <2>5, <2>6
<1>14. {now + Eager} \in SUBSET Nat /\ \A u \in {now + Eager} : u <= now + Eager
  BY <1>1
<1>15. {} \in SUBSET Nat
  OBVIOUS
<1> QED BY <1>6, <1>7, <1>8, <1>9, <1>10, <1>11, <1>12, <1>13, <1>14, <1>15, Zenon DEF Next

LEMMA StarveInit == Init => StarveInv
<1>1. SUFFICES ASSUME Init PROVE StarveInv
  OBVIOUS
<1>2. instances \in 1..MaxInstances
  BY <1>1, TimesAssumption DEF Init
<1>3. \A h \in Hosts : nextAt[h] <= now + Share
  <2>1. PICK i \in Nat, m \in Nat : i = Interval /\ m = MaxInstances
    BY TimesAssumption
  <2>2. i * m \in Nat
    OBVIOUS
  <2>3. Share \in Nat
    BY <2>1, <2>2 DEF Share
  <2> QED BY <1>1, <2>3 DEF Init
<1> QED BY <1>1, <1>2, <1>3 DEF Init, StarveInv, SlotsFollow

LEMMA NobodyIsYetStarved ==
    ASSUME PaceInv, PromptInv, StarveInv, [Next]_vars
    PROVE  StarveInv'
<1>1. Budget /\ Recorded /\ TicksEnd /\ NothingOverdue
  BY PromptIsInTime DEF PromptInv
<1>2. SlotsFollow'
  BY <1>1, SlotsStillFollow DEF StarveInv
<1>3. CASE Next
  <2>1. ASSUME NEW q \in open', Roomy(HostOf[q])
        PROVE  q \in Payments /\ lastAsk' \in [Payments -> Nat] /\ Fed(q)'
    BY <1>1, <1>3, <2>1, StaysFed
  <2>2. open' \subseteq Payments /\ lastAsk' \in [Payments -> Nat]
    <3>1. now \in Nat /\ open \subseteq Payments /\ lastAsk \in [Payments -> Nat]
      BY <1>1 DEF Recorded, StarveInv
    <3>2. ASSUME NEW p \in Payments,
                 \/ Insert(p) \/ HearPaid(p) \/ HearTold(p) \/ HearPolled(p) \/ HearMissed(p)
                 \/ PollEnds(p, {now + Eager}) \/ PollEnds(p, {}) \/ PollFinds(p)
                 \/ HookTaken(p) \/ HookRefused(p, {now + Backoff}) \/ HookRefused(p, {})
          PROVE  /\ open' \subseteq open \cup {p}
                 /\ lastAsk' = lastAsk \/ lastAsk' = [lastAsk EXCEPT ![p] = now]
      BY <3>2 DEF Insert, HearPaid, HearTold, HearPolled, HearMissed, PollEnds, PollFinds,
                  HookTaken, HookRefused
    <3>3. ASSUME \/ Sweep \/ RunTick \/ EndTick
                 \/ Signal \/ Exit \/ Crash \/ Start \/ Meet \/ Tick
          PROVE  open' = open /\ lastAsk' = lastAsk
      BY <3>3 DEF Sweep, RunTick, EndTick, Signal, Exit, Crash, Start, Meet, Tick, Stopped, ledger
    <3> QED BY <1>3, <3>1, <3>2, <3>3 DEF Next
  <2>3. \A q \in open' : Roomy(HostOf[q]) => Fed(q)'
    BY <2>1
  <2> QED BY <1>2, <2>2, <2>3 DEF StarveInv, Roomy, Rivals
<1>4. CASE UNCHANGED vars
  <2>1. UNCHANGED <<now, due, open, up, draining, startedAt, tickStartedAt, flight, lastAsk>>
    BY <1>4 DEF vars, ledger, loop, life
  <2>2. ASSUME NEW q \in open, Fed(q) PROVE Fed(q)'
    BY <2>1, <2>2 DEF Fed, By, Asking, Backlog, TickRuns, Others
  <2> QED BY <1>2, <2>1, <2>2 DEF StarveInv, Roomy, Rivals
<1> QED BY <1>3, <1>4

LEMMA FedIsInTime == PromptInv /\ StarveInv => NobodyStarves
<1>1. SUFFICES ASSUME PromptInv, StarveInv, up, ~draining,
                      NEW p \in open, due[p] # {}, Roomy(HostOf[p])
               PROVE  now <= Max({lastAsk[p] + Eager, startedAt + Lease})
                               + Backlog(Others) + TickRuns
  BY DEF NobodyStarves, Others
<1>2. Recorded /\ TicksEnd /\ NothingOverdue /\ Fed(p) /\ p \in Payments
  BY <1>1, PromptIsInTime DEF PromptInv, StarveInv
<1>3. /\ now \in Nat /\ startedAt \in Nat /\ tickStartedAt \in Nat /\ lastAsk[p] \in Nat
      /\ Eager \in Nat /\ Lease \in Nat /\ due[p] \subseteq Nat
  BY <1>1, <1>2, TimesAssumption DEF Recorded, TicksEnd, StarveInv
<1>4. PICK a \in Nat, l \in Nat : a = lastAsk[p] + Eager /\ l = startedAt + Lease
  BY <1>3
<1>5. PICK m \in Nat : m = Max({a, l}) /\ a <= m /\ l <= m
  BY LaterOfTwo
<1>6. PICK k \in Nat, g \in Nat : k = Backlog(Others) /\ g = TickRuns
  <2>1. Others \in Nat
    BY <1>2, OthersAreFew, {} \in SUBSET (Payments \ {p})
  <2> QED BY <2>1, BacklogIsNat, RunsIsNat
<1>7. ASSUME NEW d \in Nat, By(p, d) PROVE d <= m
  <2>1. d <= a \/ d <= l
    BY <1>4, <1>7 DEF By
  <2> QED BY <1>5, <2>1
<1>8. now <= m + k + g
  <2>1. CASE Asking(p)
    <3>1. PICK d \in Nat : By(p, d) /\ tickStartedAt <= d + k
      BY <1>1, <1>2, <1>6, <2>1 DEF Fed
    <3>2. now <= tickStartedAt + g
      BY <1>2, <1>6, <2>1 DEF Asking, TicksEnd
    <3>3. d <= m
      BY <1>7, <3>1
    <3> QED BY <1>3, <3>1, <3>2, <3>3
  <2>2. CASE ~Asking(p)
    <3>1. PICK t \in due[p] : t \in Nat /\ By(p, t)
      BY <1>1, <1>2, <1>3, <2>2 DEF Fed
    <3>2. PICK d : d = Max({t, startedAt})
      OBVIOUS
    <3>3. d \in {t, startedAt}
      BY <1>3, <3>1, <3>2, MaxOfTwo, t \in Int, startedAt \in Int
    <3>4. ~(now > d + k)
      BY <1>1, <1>2, <1>6, <3>2 DEF NothingOverdue, Others
    <3>5. t <= m /\ startedAt <= m
      <4>1. t <= m
        BY <1>7, <3>1
      <4>2. startedAt <= m
        BY <1>3, <1>4, <1>5
      <4> QED BY <4>1, <4>2
    <3>6. d \in Nat /\ d <= m
      BY <1>3, <3>1, <3>3, <3>5
    <3> QED BY <1>3, <3>4, <3>6
  <2> QED BY <2>1, <2>2
<1>9. Max({lastAsk[p] + Eager, startedAt + Lease}) = m
  BY <1>4, <1>5
<1> QED BY <1>6, <1>8, <1>9

\* Nobody starves: if a tick has room for all the payments of a host, however many
\* instances share its budget, each of them is asked about again within the time of
\* the batches ahead of it, whatever peers bring forward and in whatever order the
\* polls of a tick buy their slots (spend, turnOf, duePolls).
THEOREM NobodyIsStarved == Spec => []NobodyStarves
<1>1. PaceInv /\ PromptInv /\ StarveInv /\ [Next]_vars => PaceInv' /\ PromptInv' /\ StarveInv'
  BY Paces, StaysPrompt, NobodyIsYetStarved
<1> QED BY <1>1, PaceInit, PromptInit, StarveInit, FedIsInTime, PTL DEF Spec

=============================================================================
