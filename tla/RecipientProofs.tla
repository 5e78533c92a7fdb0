--------------------------- MODULE RecipientProofs ---------------------------
(***************************************************************************)
(* Proofs about Recipient: the bank's tokens are not asked too soon, one   *)
(* credit pays for one order, and the shop acts on a delivery once, for    *)
(* any orders, credits, tokens, messages and clocks that the assumptions   *)
(* of Recipient allow.                                                     *)
(***************************************************************************)
EXTENDS Recipient, FunctionTheorems, FiniteSetTheorems, SequenceTheorems, WellFoundedInduction, TLAPS

LEMMA SameCardinality ==
    ASSUME NEW S
    PROVE  B!Cardinality(S) = Cardinality(S)
BY DEF B!Cardinality, Cardinality, B!IsFiniteSet, IsFiniteSet

LEMMA SeqOf ==
    ASSUME NEW S, NEW n \in Nat, NEW f, f = [i \in 1..n |-> f[i]], \A i \in 1..n : f[i] \in S
    PROVE  f \in Seq(S) /\ DOMAIN f = 1..n
OBVIOUS

\* A set of numbers has a smallest one.
LEMMA SmallestOf ==
    ASSUME NEW P \in SUBSET Nat, NEW k \in P
    PROVE  \E i \in P : \A j \in P : i <= j
<1>1. PICK R0 : R0 = OpToRel(<, Nat)
  BY Zenon
<1>2. IsWellFoundedOn(R0, Nat)
  BY <1>1, NatLessThanWellFounded, Zenon
<1>3. PICK i \in P : \A j \in P : ~(<<j, i>> \in R0)
  BY <1>2, WFMin
<1>4. ASSUME NEW j \in P, j < i
      PROVE  FALSE
  <2>1. <<j, i>> \in R0
    BY <1>1, <1>4, Zenon DEF OpToRel
  <2> QED BY <1>3, <2>1
<1> QED BY <1>4

-----------------------------------------------------------------------------
(* The statement *)

\* What the rail keeps of a token's rest is what the bank's window has left.
WindowsKept == window = rests /\ ~tooSoon

\* Whatever an order was answered from had landed: the kept answer, an answer on
\* its way and the settlements themselves rest on credits of the account.
Grounded ==
    /\ account \subseteq Credits
    /\ IsFiniteSet(B!CreditsOf(account))
    /\ credits \subseteq B!CreditsOf(account)
    /\ reads \in [Orders -> SUBSET [served : BOOLEAN, saw : SUBSET Credits]]
    /\ \A o \in Orders : \A r \in reads[o] : r.saw \subseteq account
    /\ settled \subseteq Orders
    /\ \A o \in settled : \E c \in B!CreditsOf(account) : B!PaidBy(c, o)

BankInv == WindowsKept /\ Grounded

LEMMA BankInit == Init => BankInv
<1> SUFFICES ASSUME Init PROVE BankInv
  OBVIOUS
<1> USE DEF Init, B!Init
<1>1. WindowsKept
  BY DEF WindowsKept
<1>2. \A c \in Credits : c.amount \in Int
  BY ShapeAssumption
<1>3. B!CreditsOf(account) = {}
  BY <1>2 DEF B!CreditsOf
<1>4. Grounded
  BY <1>3, FS_EmptySet DEF Grounded
<1> QED BY <1>1, <1>4 DEF BankInv

LEMMA BankSame ==
    ASSUME BankInv, UNCHANGED <<bank, window>>
    PROVE  BankInv'
BY DEF BankInv, WindowsKept, Grounded, bank, B!CreditsOf, B!PaidBy, B!NamesOnly, B!Alike

\* The orders an answer settles.
LEMMA BankAnswered ==
    ASSUME Grounded, NEW o \in Orders, NEW landed \in SUBSET B!CreditsOf(account), B!Answered(o, landed)
    PROVE  /\ settled' \subseteq Orders
           /\ \A q \in settled' : \E c \in B!CreditsOf(account) : B!PaidBy(c, q)
BY DEF Grounded, B!Answered

LEMMA BankNext ==
    ASSUME BankInv, [Next]_vars
    PROVE  BankInv'
<1> USE DEF BankInv
<1>1. ASSUME NEW c \in Credits, Land(c)
      PROVE  BankInv'
  <2>1. account' = account \cup {c} /\ UNCHANGED <<credits, reads, settled, rests, window, tooSoon>>
    BY <1>1 DEF Land, B!Land, B!paced
  <2>2. \/ B!CreditsOf(account)' = B!CreditsOf(account)
        \/ B!CreditsOf(account)' = B!CreditsOf(account) \cup {c}
    BY <2>1 DEF B!CreditsOf
  <2>3. IsFiniteSet(B!CreditsOf(account)')
    BY <2>2, FS_AddElement DEF Grounded
  <2>4. Grounded'
    <3>1. account' \subseteq Credits /\ account \subseteq account'
          /\ B!CreditsOf(account) \subseteq B!CreditsOf(account)'
      BY <2>1, <2>2 DEF Grounded
    <3>2. \A o \in settled : \E k \in B!CreditsOf(account)' : B!PaidBy(k, o)
      BY <3>1 DEF Grounded
    <3> QED BY <2>1, <2>3, <3>1, <3>2 DEF Grounded
  <2> QED BY <2>1, <2>4 DEF WindowsKept
<1>2. ASSUME NEW o \in Orders, Transfer(o)
      PROVE  BankInv'
  <2>1. UNCHANGED <<account, credits, reads, settled, rests, window, tooSoon>>
    BY <1>2 DEF Transfer, B!Transfer, B!paced
  <2> QED BY <2>1 DEF WindowsKept, Grounded, B!CreditsOf
<1>3. ASSUME NEW o \in Orders, PollKept(o)
      PROVE  BankInv'
  <2>1. B!Answered(o, credits) /\ UNCHANGED <<account, credits, reads, rests, window, tooSoon>>
    BY <1>3 DEF PollKept, B!PollKept, B!paced
  <2>2. /\ settled' \subseteq Orders
        /\ \A q \in settled' : \E c \in B!CreditsOf(account) : B!PaidBy(c, q)
    BY <2>1, BankAnswered DEF Grounded
  <2> QED BY <2>1, <2>2 DEF WindowsKept, Grounded, B!CreditsOf
<1>4. ASSUME NEW o \in Orders, PollReads(o)
      PROVE  BankInv'
  <2>1. PICK k : k = Head(turn)
    OBVIOUS
  <2>2. /\ rests[k] = 0 /\ tooSoon' = (tooSoon \/ window[k] > 0)
        /\ rests' = [rests EXCEPT ![k] = Window] /\ window' = [window EXCEPT ![k] = Window]
        /\ reads' = [reads EXCEPT ![o] = {[served |-> FALSE, saw |-> {}]}]
        /\ UNCHANGED <<account, credits, settled>>
    BY <1>4, <2>1 DEF PollReads, B!PollReads, B!Spent
  <2>3. WindowsKept'
    <3>1. ~(window[k] > 0)
      BY <2>2 DEF WindowsKept
    <3>2. ~tooSoon'
      BY <2>2, <3>1, Zenon DEF WindowsKept
    <3> QED BY <2>2, <3>2 DEF WindowsKept
  <2>4. PICK r : r = [served |-> FALSE, saw |-> {}]
    OBVIOUS
  <2>5. r \in [served : BOOLEAN, saw : SUBSET Credits] /\ r.saw = {}
    BY <2>4
  <2>6. /\ reads' \in [Orders -> SUBSET [served : BOOLEAN, saw : SUBSET Credits]]
        /\ \A q \in Orders : \A x \in reads'[q] : x.saw \subseteq account
    BY <2>2, <2>4, <2>5 DEF Grounded
  <2> QED BY <2>2, <2>3, <2>6 DEF Grounded, B!CreditsOf
<1>5. ASSUME NEW o \in Orders, Serve(o)
      PROVE  BankInv'
  <2>1. PICK r : r = [served |-> TRUE, saw |-> account]
    OBVIOUS
  <2>2. /\ reads' = [reads EXCEPT ![o] = {r}]
        /\ UNCHANGED <<account, credits, settled, rests, window, tooSoon>>
    BY <1>5, <2>1 DEF Serve, B!Serve, B!paced
  <2>3. r \in [served : BOOLEAN, saw : SUBSET Credits] /\ r.saw = account
    BY <2>1 DEF Grounded
  <2>4. /\ reads' \in [Orders -> SUBSET [served : BOOLEAN, saw : SUBSET Credits]]
        /\ \A q \in Orders : \A x \in reads'[q] : x.saw \subseteq account
    BY <2>2, <2>3 DEF Grounded
  <2> QED BY <2>2, <2>4 DEF WindowsKept, Grounded, B!CreditsOf
<1>6. ASSUME NEW o \in Orders, ReadEnds(o)
      PROVE  BankInv'
  <2>1. PICK r \in reads[o] : credits' = B!CreditsOf(r.saw) /\ B!Answered(o, B!CreditsOf(r.saw))
    BY <1>6 DEF ReadEnds, B!ReadEnds
  <2>2. reads' = [reads EXCEPT ![o] = {}] /\ UNCHANGED <<account, rests, window, tooSoon>>
    BY <1>6 DEF ReadEnds, B!ReadEnds, B!paced
  <2>3. B!CreditsOf(r.saw) \subseteq B!CreditsOf(account)
    BY DEF Grounded, B!CreditsOf
  <2>4. /\ settled' \subseteq Orders
        /\ \A q \in settled' : \E c \in B!CreditsOf(account) : B!PaidBy(c, q)
    BY <2>1, <2>3, BankAnswered
  <2>5. /\ reads' \in [Orders -> SUBSET [served : BOOLEAN, saw : SUBSET Credits]]
        /\ \A q \in Orders : \A x \in reads'[q] : x.saw \subseteq account
    BY <2>2 DEF Grounded
  <2>6. credits' \subseteq B!CreditsOf(account)
    BY <2>1, <2>3
  <2> QED BY <2>2, <2>4, <2>5, <2>6 DEF WindowsKept, Grounded, B!CreditsOf
<1>7. ASSUME NEW o \in Orders, ReadFails(o)
      PROVE  BankInv'
  <2>1. reads' = [reads EXCEPT ![o] = {}] /\ UNCHANGED <<account, credits, settled, rests, window, tooSoon>>
    BY <1>7 DEF ReadFails, B!ReadFails, B!paced
  <2>2. /\ reads' \in [Orders -> SUBSET [served : BOOLEAN, saw : SUBSET Credits]]
        /\ \A q \in Orders : \A x \in reads'[q] : x.saw \subseteq account
    BY <2>1 DEF Grounded
  <2> QED BY <2>1, <2>2 DEF WindowsKept, Grounded, B!CreditsOf
<1>8. CASE Tick
  <2>1. /\ rests' = [k \in B!Names |-> B!Less(rests[k])] /\ window' = [k \in B!Names |-> B!Less(window[k])]
        /\ UNCHANGED <<account, credits, reads, settled, tooSoon>>
    BY <1>8 DEF Tick, B!Elapse
  <2> QED BY <2>1 DEF WindowsKept, Grounded, B!CreditsOf
<1>9. ASSUME NEW m \in Messages, NEW o \in Orders, Sign(m, o)
      PROVE  BankInv'
  BY <1>9, BankSame DEF Sign
<1>10. ASSUME NEW m \in Messages, Acts(m) \/ Joins(m) \/ Repeats(m)
       PROVE  BankInv'
  BY <1>10, BankSame DEF Acts, Joins, Repeats
<1>11. ASSUME NEW a \in acts, ActEnds(a) \/ AnswerLost(a) \/ ActFails(a)
       PROVE  BankInv'
  BY <1>11, BankSame DEF ActEnds, AnswerLost, ActFails
<1>12. CASE UNCHANGED vars
  BY <1>12, BankSame DEF vars
<1> QED BY <1>1, <1>2, <1>3, <1>4, <1>5, <1>6, <1>7, <1>8, <1>9, <1>10, <1>11, <1>12 DEF Next

\* A credit names one numbered order.
LEMMA OneOrderPerCredit ==
    ASSUME NEW o \in Orders, NEW q \in Orders, o.word.numbered, q.word.numbered,
           NEW c, B!PaidBy(c, o), B!PaidBy(c, q)
    PROVE  o = q
<1>1. o.amount = q.amount
  BY DEF B!PaidBy
<1>2. o.word.numbered = q.word.numbered
  BY ShapeAssumption, Zenon DEF Words
<1>3. B!Alike(c, o) = {o.word} /\ B!Alike(c, q) = {q.word}
  BY DEF B!PaidBy, B!NamesOnly
<1>4. B!Alike(c, o) = B!Alike(c, q)
  BY <1>2 DEF B!Alike
<1>5. o.word = q.word
  BY <1>3, <1>4
<1> QED BY <1>1, <1>5, ShapeAssumption

LEMMA CreditsAreEnough == BankInv => OneCreditOneOrder
<1> SUFFICES ASSUME BankInv PROVE OneCreditOneOrder
  OBVIOUS
<1>1. PICK S : S = {o \in settled : o.word.numbered}
  OBVIOUS
<1>2. PICK T : T = B!CreditsOf(account)
  OBVIOUS
<1>3. IsFiniteSet(T) /\ \A o \in S : o \in Orders /\ o.word.numbered /\ \E c \in T : B!PaidBy(c, o)
  BY <1>1, <1>2 DEF BankInv, Grounded
<1>4. PICK f : f = [o \in S |-> CHOOSE c \in T : B!PaidBy(c, o)]
  OBVIOUS
<1>5. f \in [S -> T] /\ \A o \in S : B!PaidBy(f[o], o)
  BY <1>3, <1>4
<1>6. \A o, q \in S : f[o] = f[q] => o = q
  BY <1>3, <1>5, OneOrderPerCredit
<1>7. f \in Injection(S, T)
  BY <1>5, <1>6, Fun_IsInj
<1>8. Cardinality(S) <= Cardinality(T)
  BY <1>3, <1>7, FS_Injection
<1> QED BY <1>1, <1>2, <1>8, SameCardinality DEF OneCreditOneOrder, B!OneCreditOneOrder

-----------------------------------------------------------------------------
(* The route *)

Deliveries == [key : Orders, left : Int, hit : BOOLEAN]
Kepts == [key : Orders, left : Int, done : BOOLEAN]
Calls == [key : Orders, by : Messages]

RouteOK ==
    /\ mail \in [Messages -> SUBSET Deliveries]
    /\ acting \in Seq(Kepts)
    /\ acts \subseteq Calls
    /\ \A m \in Messages : \A d, e \in mail[m] : d = e

\* The Map has one entry for a key.
OneEntry(s) == \A i, j \in DOMAIN s : s[i].key = s[j].key => i = j

\* Nobody believes a delivery for longer than an entry is kept.
Fresh == \A m \in Messages : \A d \in mail[m] : d.left < 2 * Tolerance

\* Entries s answer for what is believed of a running call and of a delivery acted on.
KeepsCall(s, a) ==
    \E i \in DOMAIN s :
        /\ s[i].key = a.key /\ ~s[i].done /\ s[i].left > 0
        /\ \A d \in mail[a.by] : d.key = a.key /\ d.left < s[i].left
KeepsHit(s, d) == \E i \in DOMAIN s : s[i].key = d.key /\ s[i].done /\ d.left < s[i].left

\* A call that runs has an entry that is not over, and the delivery that began it
\* goes stale first.
CallsAreKept == \A a \in acts : mail[a.by] # {} /\ KeepsCall(acting, a)

\* No two calls act on one key.
OneCall == \A a, b \in acts : a.key = b.key => a = b

\* What was acted on stays known for as long as it is believed.
HitsAreKept ==
    \A m \in Messages : \A d \in mail[m] : d.hit /\ d.left >= 0 => KeepsHit(acting, d)

RouteInv == RouteOK /\ OneEntry(acting) /\ Fresh /\ CallsAreKept /\ OneCall /\ HitsAreKept /\ ~twice

LEMMA RouteInit == Init => RouteInv
BY DEF Init, R!Init, RouteInv, RouteOK, OneEntry, Fresh, CallsAreKept, OneCall, HitsAreKept

LEMMA RouteSame ==
    ASSUME RouteInv, UNCHANGED route
    PROVE  RouteInv'
BY DEF RouteInv, RouteOK, OneEntry, Fresh, CallsAreKept, OneCall, HitsAreKept, KeepsCall, KeepsHit, route

\* Entries t hold all of s that is not over.
Keeps(s, t) == \A i \in DOMAIN s : s[i].left > 0 => \E j \in DOMAIN t : t[j] = s[i]

\* The loop over the Map drops only what is over.
LEMMA EvictedKeeps ==
    ASSUME NEW s \in Seq(Kepts), OneEntry(s)
    PROVE  /\ R!Evicted(s) \in Seq(Kepts)
           /\ OneEntry(R!Evicted(s))
           /\ Keeps(s, R!Evicted(s))
<1>0. \A i \in DOMAIN s : s[i].left \in Int
  <2>1. \A i \in DOMAIN s : s[i] \in Kepts
    OBVIOUS
  <2> QED BY <2>1 DEF Kepts
<1>1. CASE \A i \in DOMAIN s : s[i].left <= 0
  <2>1. R!Evicted(s) = <<>>
    BY <1>1 DEF R!Evicted
  <2> QED BY <1>0, <1>1, <2>1 DEF OneEntry, Keeps
<1>2. CASE ~\A i \in DOMAIN s : s[i].left <= 0
  <2>1. \E i \in DOMAIN s : s[i].left > 0 /\ \A j \in 1..(i - 1) : s[j].left <= 0
    <3>1. PICK k \in DOMAIN s : s[k].left > 0
      BY <1>0, <1>2
    <3>2. PICK P : P = {i \in Nat : i \in DOMAIN s /\ s[i].left > 0}
      OBVIOUS
    <3>3. P \subseteq Nat /\ k \in P
      BY <3>1, <3>2
    <3>4. PICK i \in P : \A j \in P : i <= j
      BY <3>3, SmallestOf
    <3>5. \A j \in 1..(i - 1) : j \in DOMAIN s /\ j \notin P
      BY <3>2, <3>4
    <3> QED BY <1>0, <3>2, <3>4, <3>5
  <2>2. PICK first \in DOMAIN s :
            /\ s[first].left > 0 /\ \A j \in 1..(first - 1) : s[j].left <= 0
            /\ R!Evicted(s) = SubSeq(s, first, Len(s))
    BY <1>2, <2>1 DEF R!Evicted
  <2>3. PICK e : e = SubSeq(s, first, Len(s))
    OBVIOUS
  <2>4. /\ e \in Seq(Kepts) /\ Len(e) = Len(s) - first + 1
        /\ \A j \in 1..Len(e) : e[j] = s[j + first - 1]
    BY <2>3
  <2>5. ASSUME NEW i \in DOMAIN e, NEW j \in DOMAIN e, e[i].key = e[j].key
        PROVE  i = j
    <3>1. i \in 1..Len(e) /\ j \in 1..Len(e)
      BY <2>4
    <3>2. i + first - 1 \in DOMAIN s /\ j + first - 1 \in DOMAIN s
      BY <2>4, <3>1
    <3>3. e[i] = s[i + first - 1] /\ e[j] = s[j + first - 1]
      BY <2>4, <3>1
    <3>4. i + first - 1 = j + first - 1
      BY <2>5, <3>2, <3>3 DEF OneEntry
    <3> QED BY <3>1, <3>4
  <2>6. ASSUME NEW i \in DOMAIN s, s[i].left > 0
        PROVE  \E j \in DOMAIN e : e[j] = s[i]
    <3>1. i >= first
      BY <1>0, <2>2, <2>6
    <3>2. i - first + 1 \in 1..Len(e)
      BY <2>4, <3>1
    <3>3. e[i - first + 1] = s[i]
      BY <2>4, <3>2
    <3> QED BY <2>4, <3>2, <3>3
  <2> QED BY <2>2, <2>3, <2>4, <2>5, <2>6 DEF OneEntry, Keeps
<1> QED BY <1>1, <1>2

LEMMA Shapes ==
    /\ \A e \in Kepts : e.key \in Orders /\ e.left \in Int /\ e.done \in BOOLEAN
    /\ \A d \in Deliveries : d.key \in Orders /\ d.left \in Int /\ d.hit \in BOOLEAN
    /\ \A a \in Calls : a.key \in Orders /\ a.by \in Messages
BY DEF Kepts, Deliveries, Calls

\* What holds by the entries acting holds by entries that keep them.
LEMMA KeptOn ==
    ASSUME RouteInv, NEW t, Keeps(acting, t)
    PROVE  /\ \A a \in acts : KeepsCall(t, a)
           /\ \A m \in Messages : \A d \in mail[m] : d.hit /\ d.left >= 0 => KeepsHit(t, d)
<1>1. ASSUME NEW a \in acts
      PROVE  KeepsCall(t, a)
  <2>1. PICK i \in DOMAIN acting :
            /\ acting[i].key = a.key /\ ~acting[i].done /\ acting[i].left > 0
            /\ \A d \in mail[a.by] : d.key = a.key /\ d.left < acting[i].left
    BY DEF RouteInv, CallsAreKept, KeepsCall
  <2>2. PICK j \in DOMAIN t : t[j] = acting[i]
    BY <2>1 DEF Keeps
  <2> QED BY <2>1, <2>2 DEF KeepsCall
<1>2. ASSUME NEW m \in Messages, NEW d \in mail[m], d.hit, d.left >= 0
      PROVE  KeepsHit(t, d)
  <2>1. PICK i \in DOMAIN acting : acting[i].key = d.key /\ acting[i].done /\ d.left < acting[i].left
    BY <1>2 DEF RouteInv, HitsAreKept, KeepsHit
  <2>2. acting[i] \in Kepts /\ d \in Deliveries
    BY DEF RouteInv, RouteOK
  <2>3. acting[i].left > 0
    BY <1>2, <2>1, <2>2, Shapes
  <2>4. PICK j \in DOMAIN t : t[j] = acting[i]
    BY <2>3 DEF Keeps
  <2> QED BY <2>1, <2>4 DEF KeepsHit
<1> QED BY <1>1, <1>2

LEMMA RouteSign ==
    ASSUME RouteInv, NEW m \in Messages, NEW o \in Orders, NEW skew \in Skews, R!Sign(m, o, skew)
    PROVE  RouteInv'
<1> USE DEF RouteInv
<1>1. PICK left : left = Tolerance + skew
  OBVIOUS
<1>2. left \in Int /\ left < 2 * Tolerance
  BY <1>1, SkewAssumption, ActAssumption
<1>3. PICK d : d = [key |-> o, left |-> left, hit |-> FALSE]
  OBVIOUS
<1>4. d \in Deliveries /\ d.left = left /\ ~d.hit
  BY <1>2, <1>3 DEF Deliveries
<1>5. mail[m] = {} /\ mail' = [mail EXCEPT ![m] = {d}] /\ UNCHANGED <<acting, acts, twice>>
  BY <1>1, <1>3 DEF R!Sign
<1>6. /\ mail' \in [Messages -> SUBSET Deliveries] /\ mail'[m] = {d}
      /\ \A k \in Messages \ {m} : mail'[k] = mail[k]
  BY <1>4, <1>5 DEF RouteOK
<1>7. RouteOK'
  BY <1>5, <1>6 DEF RouteOK
<1>8. Fresh'
  BY <1>2, <1>4, <1>6 DEF Fresh
<1>9. \A a \in acts : a.by \in Messages /\ a.by # m
  BY <1>5, Shapes DEF CallsAreKept, RouteOK
<1>10. CallsAreKept'
  BY <1>5, <1>6, <1>9 DEF CallsAreKept, KeepsCall
<1>11. HitsAreKept'
  BY <1>4, <1>5, <1>6 DEF HitsAreKept, KeepsHit
<1> QED BY <1>5, <1>7, <1>8, <1>10, <1>11 DEF OneEntry, OneCall

\* A request that finds its key leaves the Map without what is over.
LEMMA RouteEvicts ==
    ASSUME RouteInv, acting' = R!Evicted(acting), UNCHANGED <<mail, acts, twice>>
    PROVE  RouteInv'
<1> USE DEF RouteInv
<1>1. PICK t : t = R!Evicted(acting)
  OBVIOUS
<1>2. t \in Seq(Kepts) /\ OneEntry(t) /\ Keeps(acting, t)
  BY <1>1, EvictedKeeps DEF RouteOK
<1>3. RouteOK' /\ OneEntry(acting)' /\ Fresh' /\ OneCall' /\ ~twice'
  BY <1>1, <1>2 DEF RouteOK, OneEntry, Fresh, OneCall
<1>4. CallsAreKept'
  BY <1>1, <1>2, KeptOn DEF CallsAreKept, KeepsCall
<1>5. HitsAreKept'
  BY <1>1, <1>2, KeptOn DEF HitsAreKept, KeepsHit
<1> QED BY <1>3, <1>4, <1>5

\* A request that does not find its key is a delivery nobody acted on, of a key that
\* nobody acts on.
LEMMA RouteActs ==
    ASSUME RouteInv, NEW m \in Messages, R!Acts(m)
    PROVE  RouteInv'
<1> USE DEF RouteInv
<1>1. PICK t : t = R!Evicted(acting)
  OBVIOUS
<1>2. PICK d \in mail[m] :
          /\ R!Believed(d) /\ R!Entries(t, d.key) = {}
          /\ acts' = acts \cup {[key |-> d.key, by |-> m]}
          /\ acting' = Append(t, [key |-> d.key, left |-> R!Kept, done |-> FALSE])
          /\ twice' = (twice \/ d.hit)
          /\ UNCHANGED mail
  BY <1>1 DEF R!Acts
<1>3. t \in Seq(Kepts) /\ OneEntry(t) /\ Keeps(acting, t)
  BY <1>1, EvictedKeeps DEF RouteOK
<1>4. d \in Deliveries /\ d.key \in Orders /\ d.left \in Int
  BY Shapes DEF RouteOK
<1>5. \A i \in DOMAIN t : t[i].key # d.key
  BY <1>2 DEF R!Entries
<1>6. PICK e : e = [key |-> d.key, left |-> R!Kept, done |-> FALSE]
  OBVIOUS
<1>7. e \in Kepts /\ e.key = d.key /\ e.left = 2 * Tolerance /\ ~e.done
  BY <1>4, <1>6, ActAssumption DEF Kepts, R!Kept
<1>8. PICK s : s = Append(t, e)
  OBVIOUS
<1>9. /\ s \in Seq(Kepts) /\ Len(s) = Len(t) + 1 /\ s[Len(s)] = e
      /\ \A i \in DOMAIN t : i \in DOMAIN s /\ s[i] = t[i]
      /\ \A i \in DOMAIN s : i = Len(s) \/ i \in DOMAIN t
  BY <1>3, <1>7, <1>8
<1>10. OneEntry(s)
  BY <1>3, <1>5, <1>7, <1>9 DEF OneEntry
<1>11. Keeps(acting, s)
  BY <1>3, <1>9 DEF Keeps
<1>12. PICK a : a = [key |-> d.key, by |-> m]
  OBVIOUS
<1>13. a \in Calls /\ a.key = d.key /\ a.by = m
  BY <1>4, <1>12 DEF Calls
<1>14. acting' = s /\ acts' = acts \cup {a}
  BY <1>2, <1>6, <1>8, <1>12
<1>15. RouteOK' /\ OneEntry(acting)' /\ Fresh'
  BY <1>2, <1>9, <1>10, <1>13, <1>14 DEF RouteOK, OneEntry, Fresh
<1>16. KeepsCall(s, a)
  <2>1. Len(s) \in DOMAIN s /\ e.left > 0
    BY <1>7, <1>9, <1>3, ActAssumption
  <2>2. \A x \in mail[m] : x = d
    BY DEF RouteOK
  <2>3. d.left < e.left
    BY <1>7 DEF Fresh
  <2> QED BY <1>7, <1>9, <1>13, <2>1, <2>2, <2>3 DEF KeepsCall
<1>17. CallsAreKept'
  <2>1. \A b \in acts : mail[b.by] # {} /\ KeepsCall(s, b)
    BY <1>11, KeptOn DEF CallsAreKept
  <2>2. \A b \in acts' : mail[b.by] # {} /\ KeepsCall(s, b)
    BY <1>13, <1>14, <1>16, <2>1
  <2> QED BY <1>2, <1>14, <2>2 DEF CallsAreKept, KeepsCall
<1>18. OneCall'
  <2>1. ASSUME NEW b \in acts PROVE b.key # d.key
    <3>1. KeepsCall(t, b)
      BY <1>3, KeptOn
    <3> QED BY <1>5, <3>1 DEF KeepsCall
  <2> QED BY <1>13, <1>14, <2>1 DEF OneCall
<1>19. HitsAreKept'
  BY <1>2, <1>11, <1>14, KeptOn DEF HitsAreKept, KeepsHit
<1>20. ~d.hit
  <2>1. d.left >= 0
    BY <1>2, <1>4, ActAssumption DEF R!Believed
  <2>2. ~KeepsHit(t, d)
    BY <1>5 DEF KeepsHit
  <2> QED BY <1>3, <2>1, <2>2, KeptOn
<1>21. ~twice'
  BY <1>2, <1>20, Zenon
<1> QED BY <1>15, <1>17, <1>18, <1>19, <1>21

\* A call that ends is remembered by its entry, and its delivery as acted on.
LEMMA RouteActEnds ==
    ASSUME RouteInv, NEW a \in acts, NEW heard, R!ActEnds(a, heard)
    PROVE  RouteInv'
<1> USE DEF RouteInv
<1>1. /\ acts' = acts \ {a} /\ UNCHANGED twice
      /\ acting' = [i \in DOMAIN acting |->
            IF acting[i].key = a.key THEN [acting[i] EXCEPT !.done = TRUE] ELSE acting[i]]
      /\ mail' = [mail EXCEPT ![a.by] = {[d EXCEPT !.hit = TRUE] : d \in @}]
  BY DEF R!ActEnds, R!Hit
<1>2. a \in Calls /\ a.by \in Messages
  BY Shapes DEF RouteOK
<1>3. \A i \in DOMAIN acting : acting[i] \in Kepts
  BY DEF RouteOK
<1>4. ASSUME NEW i \in DOMAIN acting
      PROVE  /\ acting'[i] \in Kepts
             /\ acting'[i].key = acting[i].key /\ acting'[i].left = acting[i].left
             /\ acting[i].key = a.key => acting'[i].done
             /\ acting[i].key # a.key => acting'[i] = acting[i]
  BY <1>1, <1>3 DEF Kepts
<1>5. DOMAIN acting' = DOMAIN acting /\ acting' \in Seq(Kepts)
  <2>1. DOMAIN acting = 1..Len(acting) /\ Len(acting) \in Nat
    BY DEF RouteOK
  <2>2. acting' = [i \in 1..Len(acting) |-> acting'[i]]
    BY <1>1, <2>1
  <2>3. \A i \in 1..Len(acting) : acting'[i] \in Kepts
    BY <1>4, <2>1
  <2> QED BY <2>1, <2>2, <2>3, SeqOf
<1>6. OneEntry(acting)'
  BY <1>4, <1>5 DEF OneEntry
<1>7. \A m \in Messages : mail[m] \in SUBSET Deliveries
  BY DEF RouteOK
<1>8. ASSUME NEW m \in Messages, NEW x \in mail'[m]
      PROVE  /\ x \in Deliveries
             /\ \E d \in mail[m] : /\ x.key = d.key /\ x.left = d.left
                                   /\ x.hit => d.hit \/ m = a.by
                                   /\ x = IF m = a.by THEN [d EXCEPT !.hit = TRUE] ELSE d
  <2>1. CASE m = a.by
    <3>1. PICK d \in mail[m] : x = [d EXCEPT !.hit = TRUE]
      BY <1>1, <1>8, <2>1 DEF RouteOK
    <3>2. d \in Deliveries
      BY <1>7
    <3> QED BY <2>1, <3>1, <3>2 DEF Deliveries
  <2>2. CASE m # a.by
    <3>1. x \in mail[m]
      BY <1>1, <1>8, <2>2 DEF RouteOK
    <3> QED BY <1>7, <2>2, <3>1
  <2> QED BY <2>1, <2>2
<1>9. ASSUME NEW m \in Messages, mail[m] # {}
      PROVE  mail'[m] # {}
  <2>1. PICK d \in mail[m] : TRUE
    BY <1>9
  <2>2. PICK x : x = IF m = a.by THEN [d EXCEPT !.hit = TRUE] ELSE d
    OBVIOUS
  <2>3. x \in mail'[m]
    BY <1>1, <1>2, <2>2 DEF RouteOK
  <2> QED BY <2>3
<1>10. RouteOK'
  <2>1. mail' \in [Messages -> SUBSET Deliveries]
    BY <1>1, <1>2, <1>8 DEF RouteOK
  <2>2. ASSUME NEW m \in Messages, NEW x \in mail'[m], NEW y \in mail'[m]
        PROVE  x = y
    <3>1. PICK d \in mail[m] : x = IF m = a.by THEN [d EXCEPT !.hit = TRUE] ELSE d
      BY <1>8
    <3>2. PICK e \in mail[m] : y = IF m = a.by THEN [e EXCEPT !.hit = TRUE] ELSE e
      BY <1>8
    <3>3. d = e
      BY DEF RouteOK
    <3> QED BY <3>1, <3>2, <3>3
  <2> QED BY <1>1, <1>5, <2>1, <2>2 DEF RouteOK
<1>11. Fresh'
  BY <1>8 DEF Fresh
<1>12. ASSUME NEW b \in acts'
       PROVE  mail'[b.by] # {} /\ KeepsCall(acting, b)'
  <2>1. b \in acts /\ b.key # a.key /\ b.by \in Messages
    BY <1>1, Shapes DEF OneCall, RouteOK
  <2>2. PICK i \in DOMAIN acting :
            /\ acting[i].key = b.key /\ ~acting[i].done /\ acting[i].left > 0
            /\ \A d \in mail[b.by] : d.key = b.key /\ d.left < acting[i].left
    BY <2>1 DEF CallsAreKept, KeepsCall
  <2>3. acting'[i] = acting[i] /\ i \in DOMAIN acting'
    BY <1>4, <1>5, <2>1, <2>2
  <2>4. \A x \in mail'[b.by] : x.key = b.key /\ x.left < acting[i].left
    BY <1>8, <2>1, <2>2
  <2>5. mail'[b.by] # {}
    BY <1>9, <2>1 DEF CallsAreKept
  <2> QED BY <2>2, <2>3, <2>4, <2>5 DEF KeepsCall
<1>13. OneCall'
  BY <1>1 DEF OneCall
<1>14. ASSUME NEW m \in Messages, NEW x \in mail'[m], x.hit, x.left >= 0
       PROVE  KeepsHit(acting, x)'
  <2>1. PICK d \in mail[m] : x.key = d.key /\ x.left = d.left /\ (x.hit => d.hit \/ m = a.by)
    BY <1>8
  <2>2. CASE d.hit
    <3>1. PICK i \in DOMAIN acting : acting[i].key = d.key /\ acting[i].done /\ d.left < acting[i].left
      BY <1>14, <2>1, <2>2 DEF HitsAreKept, KeepsHit
    <3> QED BY <1>4, <1>5, <2>1, <3>1 DEF KeepsHit
  <2>3. CASE m = a.by
    <3>1. PICK i \in DOMAIN acting : acting[i].key = a.key /\ d.key = a.key /\ d.left < acting[i].left
      BY <2>3 DEF CallsAreKept, KeepsCall
    <3> QED BY <1>4, <1>5, <2>1, <3>1 DEF KeepsHit
  <2> QED BY <1>14, <2>1, <2>2, <2>3
<1> QED BY <1>1, <1>6, <1>10, <1>11, <1>12, <1>13, <1>14 DEF CallsAreKept, HitsAreKept

\* delete takes out the one entry of the key.
LEMMA ForgottenKeeps ==
    ASSUME RouteInv, NEW key, NEW t, t = R!Forgotten(key)
    PROVE  /\ t \in Seq(Kepts) /\ OneEntry(t)
           /\ \A k \in DOMAIN acting : acting[k].key # key => \E j \in DOMAIN t : t[j] = acting[k]
<1> USE DEF RouteInv
<1>0. acting \in Seq(Kepts) /\ OneEntry(acting)
  BY DEF RouteOK
<1>1. CASE R!Entries(acting, key) = {}
  <2>1. t = acting
    BY <1>1 DEF R!Forgotten
  <2> QED BY <1>0, <2>1
<1>2. CASE R!Entries(acting, key) # {}
  <2>1. PICK i \in R!Entries(acting, key) :
            t = SubSeq(acting, 1, i - 1) \o SubSeq(acting, i + 1, Len(acting))
    BY <1>2 DEF R!Forgotten
  <2>2. i \in 1..Len(acting) /\ acting[i].key = key /\ Len(acting) \in Nat
    BY <1>0 DEF R!Entries
  <2>3. PICK p : p = SubSeq(acting, 1, i - 1)
    OBVIOUS
  <2>4. PICK q : q = SubSeq(acting, i + 1, Len(acting))
    OBVIOUS
  <2>5. p \in Seq(Kepts) /\ Len(p) = i - 1 /\ \A j \in 1..(i - 1) : p[j] = acting[j]
    BY <1>0, <2>2, <2>3
  <2>6. q \in Seq(Kepts) /\ Len(q) = Len(acting) - i /\ \A j \in 1..(Len(acting) - i) : q[j] = acting[j + i]
    BY <1>0, <2>2, <2>4
  <2>7. t = p \o q
    BY <2>1, <2>3, <2>4
  <2>8. t \in Seq(Kepts) /\ Len(t) = Len(acting) - 1
    <3>1. p \in Seq(Kepts) /\ q \in Seq(Kepts)
      BY <2>5, <2>6
    <3>2. t \in Seq(Kepts) /\ Len(t) = Len(p) + Len(q)
      BY <2>7, <3>1, ConcatProperties
    <3> QED BY <2>2, <2>5, <2>6, <3>1, <3>2
  <2>9. \A j \in 1..Len(t) : t[j] = IF j < i THEN acting[j] ELSE acting[j + 1]
    <3>1. ASSUME NEW j \in 1..Len(t), j < i
          PROVE  t[j] = acting[j]
      <4>1. j \in 1..Len(p)
        BY <2>2, <2>5, <3>1
      <4>2. t[j] = p[j]
        BY <2>5, <2>6, <2>7, <4>1
      <4> QED BY <2>5, <4>1, <4>2
    <3>2. ASSUME NEW j \in 1..Len(t), ~(j < i)
          PROVE  t[j] = acting[j + 1]
      <4>1. PICK k : k = j - (i - 1)
        OBVIOUS
      <4>2. k \in 1..(Len(acting) - i) /\ k + i = j + 1 /\ j = Len(p) + k
        BY <2>2, <2>5, <2>8, <3>2, <4>1
      <4>3. t[j] = q[k]
        BY <2>5, <2>6, <2>7, <2>8, <4>2
      <4> QED BY <2>6, <4>2, <4>3
    <3> QED BY <3>1, <3>2
  <2>10. ASSUME NEW j \in DOMAIN t, NEW k \in DOMAIN t, t[j].key = t[k].key
         PROVE  j = k
    <3>1. PICK x : x = IF j < i THEN j ELSE j + 1
      OBVIOUS
    <3>2. PICK y : y = IF k < i THEN k ELSE k + 1
      OBVIOUS
    <3>3. j \in 1..Len(t) /\ k \in 1..Len(t)
      BY <2>8
    <3>4. x \in DOMAIN acting /\ y \in DOMAIN acting
      BY <1>0, <2>2, <2>8, <3>1, <3>2, <3>3
    <3>5. t[j] = acting[x] /\ t[k] = acting[y]
      BY <2>9, <3>1, <3>2, <3>3
    <3>6. x = y
      BY <1>0, <2>10, <3>4, <3>5 DEF OneEntry
    <3> QED BY <2>2, <3>1, <3>2, <3>3, <3>6
  <2>11. ASSUME NEW k \in DOMAIN acting, acting[k].key # key
         PROVE  \E j \in DOMAIN t : t[j] = acting[k]
    <3>1. k # i /\ k \in 1..Len(acting)
      BY <1>0, <2>2, <2>11
    <3>2. PICK j : j = IF k < i THEN k ELSE k - 1
      OBVIOUS
    <3>3. j \in 1..Len(t)
      BY <2>2, <2>8, <3>1, <3>2
    <3>4. t[j] = acting[k]
      BY <2>2, <2>9, <3>1, <3>2, <3>3
    <3> QED BY <2>8, <3>3, <3>4
  <2> QED BY <2>8, <2>10, <2>11 DEF OneEntry
<1> QED BY <1>1, <1>2

\* A call that fails is forgotten; what was acted on before is another key's.
LEMMA RouteActFails ==
    ASSUME RouteInv, NEW a \in acts, R!ActFails(a)
    PROVE  RouteInv'
<1> USE DEF RouteInv
<1>1. PICK t : t = R!Forgotten(a.key)
  OBVIOUS
<1>2. acting' = t /\ acts' = acts \ {a} /\ UNCHANGED <<mail, twice>>
  BY <1>1 DEF R!ActFails
<1>3. /\ t \in Seq(Kepts) /\ OneEntry(t)
      /\ \A k \in DOMAIN acting : acting[k].key # a.key => \E j \in DOMAIN t : t[j] = acting[k]
  BY <1>1, ForgottenKeeps
<1>4. RouteOK' /\ OneEntry(acting)' /\ Fresh' /\ OneCall' /\ ~twice'
  BY <1>2, <1>3 DEF RouteOK, OneEntry, Fresh, OneCall
<1>5. ASSUME NEW b \in acts'
      PROVE  mail[b.by] # {} /\ KeepsCall(t, b)
  <2>1. b \in acts /\ b.key # a.key
    BY <1>2 DEF OneCall
  <2>2. PICK i \in DOMAIN acting :
            /\ acting[i].key = b.key /\ ~acting[i].done /\ acting[i].left > 0
            /\ \A d \in mail[b.by] : d.key = b.key /\ d.left < acting[i].left
    BY <2>1 DEF CallsAreKept, KeepsCall
  <2>3. PICK j \in DOMAIN t : t[j] = acting[i]
    BY <1>3, <2>1, <2>2
  <2> QED BY <2>1, <2>2, <2>3 DEF CallsAreKept, KeepsCall
<1>6. ASSUME NEW m \in Messages, NEW d \in mail[m], d.hit, d.left >= 0
      PROVE  KeepsHit(t, d)
  <2>1. PICK i \in DOMAIN acting : acting[i].key = d.key /\ acting[i].done /\ d.left < acting[i].left
    BY <1>6 DEF HitsAreKept, KeepsHit
  <2>2. PICK k \in DOMAIN acting : acting[k].key = a.key /\ ~acting[k].done
    BY DEF CallsAreKept, KeepsCall
  <2>3. acting[i].key # a.key
    BY <2>1, <2>2 DEF OneEntry
  <2>4. PICK j \in DOMAIN t : t[j] = acting[i]
    BY <1>3, <2>3
  <2> QED BY <2>1, <2>4 DEF KeepsHit
<1>7. CallsAreKept'
  BY <1>2, <1>5 DEF CallsAreKept, KeepsCall
<1>8. HitsAreKept'
  BY <1>2, <1>6 DEF HitsAreKept, KeepsHit
<1> QED BY <1>4, <1>7, <1>8

\* As time passes an entry lasts longer than the delivery it answers for.
LEMMA RouteElapse ==
    ASSUME RouteInv, R!Elapse
    PROVE  RouteInv'
<1> USE DEF RouteInv
<1>1. /\ \A i \in DOMAIN acting : acting[i].done \/ acting[i].left > 2 * Tolerance - LongestAct
      /\ mail' = [m \in Messages |-> {[d EXCEPT !.left = @ - 1] : d \in {d \in mail[m] : R!Stays(m, d)}}]
      /\ acting' = [i \in DOMAIN acting |-> [acting[i] EXCEPT !.left = IF @ > 0 THEN @ - 1 ELSE 0]]
      /\ UNCHANGED <<acts, twice>>
  BY DEF R!Elapse, R!MayElapse, R!Kept
<1>2. \A i \in DOMAIN acting : acting[i] \in Kepts /\ acting[i].left \in Int
  BY Shapes DEF RouteOK
<1>3. ASSUME NEW i \in DOMAIN acting
      PROVE  /\ acting'[i] \in Kepts /\ acting'[i].key = acting[i].key /\ acting'[i].done = acting[i].done
             /\ acting[i].left > 0 => acting'[i].left = acting[i].left - 1
  <2>1. PICK e \in Kepts : e = acting[i]
    BY <1>2
  <2>2. PICK l \in Int : l = IF e.left > 0 THEN e.left - 1 ELSE 0
    BY <2>1, Shapes
  <2>3. acting'[i] = [e EXCEPT !.left = l]
    BY <1>1, <2>1, <2>2
  <2> QED BY <2>1, <2>2, <2>3 DEF Kepts
<1>4. DOMAIN acting' = DOMAIN acting /\ acting' \in Seq(Kepts)
  <2>1. DOMAIN acting = 1..Len(acting) /\ Len(acting) \in Nat
    BY DEF RouteOK
  <2>2. acting' = [i \in 1..Len(acting) |-> acting'[i]]
    BY <1>1, <2>1
  <2>3. \A i \in 1..Len(acting) : acting'[i] \in Kepts
    BY <1>3, <2>1
  <2> QED BY <2>1, <2>2, <2>3, SeqOf
<1>5. OneEntry(acting)'
  BY <1>3, <1>4 DEF OneEntry
<1>6. ASSUME NEW m \in Messages, NEW x \in mail'[m]
      PROVE  /\ x \in Deliveries
             /\ \E d \in mail[m] : /\ d \in Deliveries /\ x = [d EXCEPT !.left = d.left - 1]
                                   /\ x.key = d.key /\ x.left = d.left - 1 /\ x.hit = d.hit
  <2>1. PICK d \in mail[m] : x = [d EXCEPT !.left = d.left - 1]
    BY <1>1, <1>6
  <2>2. d \in Deliveries
    BY DEF RouteOK
  <2>3. d.left - 1 \in Int
    BY <2>2, Shapes
  <2> QED BY <2>1, <2>2, <2>3 DEF Deliveries
<1>7. ASSUME NEW m \in Messages, NEW d \in mail[m], R!Stays(m, d)
      PROVE  mail'[m] # {}
  BY <1>1, <1>7
<1>8. RouteOK'
  <2>1. mail' \in [Messages -> SUBSET Deliveries]
    BY <1>1, <1>6
  <2>2. ASSUME NEW m \in Messages, NEW x \in mail'[m], NEW y \in mail'[m]
        PROVE  x = y
    <3>1. PICK d \in mail[m] : x = [d EXCEPT !.left = d.left - 1]
      BY <1>6
    <3>2. PICK e \in mail[m] : y = [e EXCEPT !.left = e.left - 1]
      BY <1>6
    <3>3. d = e
      BY DEF RouteOK
    <3> QED BY <3>1, <3>2, <3>3
  <2> QED BY <1>1, <1>4, <2>1, <2>2 DEF RouteOK
<1>9. ASSUME NEW m \in Messages, NEW x \in mail'[m]
      PROVE  x.left < 2 * Tolerance
  <2>1. PICK d \in mail[m] : d \in Deliveries /\ x.left = d.left - 1
    BY <1>6, <1>9
  <2>2. d.left < 2 * Tolerance /\ d.left \in Int
    BY <2>1, Shapes DEF Fresh
  <2> QED BY <2>1, <2>2, ActAssumption
<1>10. ASSUME NEW a \in acts'
       PROVE  mail'[a.by] # {} /\ KeepsCall(acting, a)'
  <2>1. a \in acts /\ a.by \in Messages
    BY <1>1, Shapes DEF RouteOK
  <2>2. PICK i \in DOMAIN acting :
            /\ acting[i].key = a.key /\ ~acting[i].done /\ acting[i].left > 0
            /\ \A d \in mail[a.by] : d.key = a.key /\ d.left < acting[i].left
    BY <2>1 DEF CallsAreKept, KeepsCall
  <2>3. acting[i].left > 2 * Tolerance - LongestAct
    BY <1>1, <2>2
  <2>4. acting[i].left - 1 > 0
    BY <1>2, <2>3, ActAssumption
  <2>5. acting'[i].key = a.key /\ ~acting'[i].done /\ acting'[i].left = acting[i].left - 1
    BY <1>3, <2>2
  <2>6. \A x \in mail'[a.by] : x.key = a.key /\ x.left < acting[i].left - 1
    <3>1. ASSUME NEW x \in mail'[a.by]
          PROVE  x.key = a.key /\ x.left < acting[i].left - 1
      <4>1. PICK d \in mail[a.by] : d \in Deliveries /\ x.key = d.key /\ x.left = d.left - 1
        BY <1>6, <2>1
      <4>2. d.left \in Int /\ acting[i].left \in Int
        BY <1>2, <4>1, Shapes
      <4> QED BY <2>2, <4>1, <4>2
    <3> QED BY <3>1
  <2>7. mail'[a.by] # {}
    <3>1. PICK d \in mail[a.by] : TRUE
      BY <2>1 DEF CallsAreKept
    <3>2. R!Stays(a.by, d)
      BY <2>1 DEF R!Stays
    <3> QED BY <1>7, <2>1, <3>2
  <2> QED BY <1>4, <2>4, <2>5, <2>6, <2>7 DEF KeepsCall
<1>11. ASSUME NEW m \in Messages, NEW x \in mail'[m], x.hit, x.left >= 0
       PROVE  KeepsHit(acting, x)'
  <2>1. PICK d \in mail[m] : d \in Deliveries /\ x.key = d.key /\ x.left = d.left - 1 /\ x.hit = d.hit
    BY <1>6
  <2>2. d.left \in Int /\ d.left >= 1 /\ d.hit
    BY <1>11, <2>1, Shapes
  <2>3. PICK i \in DOMAIN acting : acting[i].key = d.key /\ acting[i].done /\ d.left < acting[i].left
    BY <2>2 DEF HitsAreKept, KeepsHit
  <2>4. acting[i].left > 0
    BY <1>2, <2>2, <2>3
  <2>5. acting'[i].key = x.key /\ acting'[i].done /\ acting'[i].left = acting[i].left - 1
    BY <1>3, <2>1, <2>3, <2>4
  <2>6. x.left < acting[i].left - 1
    BY <1>2, <2>1, <2>2, <2>3
  <2> QED BY <1>4, <2>5, <2>6 DEF KeepsHit
<1>12. OneCall' /\ ~twice'
  BY <1>1 DEF OneCall
<1> QED BY <1>5, <1>8, <1>9, <1>10, <1>11, <1>12 DEF Fresh, CallsAreKept, HitsAreKept

LEMMA RouteNext ==
    ASSUME RouteInv, [Next]_vars
    PROVE  RouteInv'
<1>1. ASSUME NEW m \in Messages, NEW o \in Orders, Sign(m, o)
      PROVE  RouteInv'
  BY <1>1, RouteSign DEF Sign
<1>2. ASSUME NEW m \in Messages, Acts(m)
      PROVE  RouteInv'
  BY <1>2, RouteActs DEF Acts
<1>3. ASSUME NEW m \in Messages, Joins(m) \/ Repeats(m)
      PROVE  RouteInv'
  BY <1>3, RouteEvicts DEF Joins, Repeats, R!Joins, R!Repeats
<1>4. ASSUME NEW a \in acts, ActEnds(a) \/ AnswerLost(a)
      PROVE  RouteInv'
  BY <1>4, RouteActEnds DEF ActEnds, AnswerLost
<1>5. ASSUME NEW a \in acts, ActFails(a)
      PROVE  RouteInv'
  BY <1>5, RouteActFails DEF ActFails
<1>6. CASE Tick
  BY <1>6, RouteElapse DEF Tick
<1>7. ASSUME NEW c \in Credits, Land(c)
      PROVE  RouteInv'
  BY <1>7, RouteSame DEF Land
<1>8. ASSUME NEW o \in Orders, \/ Transfer(o) \/ PollKept(o) \/ PollReads(o)
                               \/ Serve(o) \/ ReadEnds(o) \/ ReadFails(o)
      PROVE  RouteInv'
  BY <1>8, RouteSame DEF Transfer, PollKept, PollReads, Serve, ReadEnds, ReadFails
<1>9. CASE UNCHANGED vars
  BY <1>9, RouteSame DEF vars
<1> QED BY <1>1, <1>2, <1>3, <1>4, <1>5, <1>6, <1>7, <1>8, <1>9 DEF Next

-----------------------------------------------------------------------------
(* The theorems *)

\* No token of the account is used inside the bank's window, whichever orders are
\* polled, however reads overlap, fail or come late (fioStatement).
THEOREM NoTokenIsEverTooSoon == Spec => []NoTokenTooSoon
<1>1. BankInv => NoTokenTooSoon
  BY DEF BankInv, WindowsKept, NoTokenTooSoon, B!NoTokenTooSoon
<1> QED BY <1>1, BankInit, BankNext, PTL DEF Spec

\* No transfer pays for two orders with numbered references, whatever answers were
\* kept, came late or overtook each other: the orders answered for map one to one
\* into the credits that landed (pays, namesOnly, creditedPreimage).
THEOREM OneCreditPaysOneOrder == Spec => []OneCreditOneOrder
<1> QED BY CreditsAreEnough, BankInit, BankNext, PTL DEF Spec

\* The shop's handler acts on a delivery once for as long as it can be believed, and
\* on a settlement one call at a time, if a call ends within LongestAct and the
\* clocks are less than the tolerance apart (onceWhileReplayable).
THEOREM TheShopActsOnce == Spec => []ActedOnce
<1>1. RouteInv => ActedOnce
  BY DEF RouteInv, OneCall, ActedOnce, R!ActedOnce
<1> QED BY <1>1, RouteInit, RouteNext, PTL DEF Spec

=============================================================================
