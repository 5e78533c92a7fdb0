---------------------------- MODULE DeliveryProofs ----------------------------
(***************************************************************************)
(* Proofs about Delivery: the type invariant for every value of the        *)
(* constants, and, where facts travel faster than the code waits for them, *)
(* that the sweep invents no debt and that no webhook is forgotten.        *)
(***************************************************************************)
EXTENDS Delivery, FiniteSetTheorems, TLAPS

LEMMA MaxIn ==
    ASSUME NEW S, NEW m \in S, S \subseteq Int, \A x \in S : x <= m
    PROVE  Max(S) = m
<1>1. m \in S /\ \A y \in S : m >= y
  OBVIOUS
<1>2. Max(S) \in S /\ \A y \in S : Max(S) >= y
  BY <1>1 DEF Max
<1>3. PICK z : z = Max(S)
  OBVIOUS
<1>4. z \in Int /\ m \in Int /\ z >= m /\ z <= m
  BY <1>2, <1>3
<1> QED BY <1>3, <1>4

LEMMA MaxOfTwo ==
    ASSUME NEW a \in Int, NEW b \in Int
    PROVE  Max({a, b}) \in {a, b} /\ Max({a, b}) >= a /\ Max({a, b}) >= b
<1>1. CASE a <= b
  BY <1>1, MaxIn, b \in {a, b}, {a, b} \subseteq Int, \A x \in {a, b} : x <= b
<1>2. CASE ~(a <= b)
  BY <1>2, MaxIn, a \in {a, b}, {a, b} \subseteq Int, \A x \in {a, b} : x <= a
<1> QED BY <1>1, <1>2

-----------------------------------------------------------------------------
(* Rows and columns *)

\* Retries outlast the grace and every wait before the first of them, and a fact
\* travels faster than the grace.
RetryCovers ==
    /\ MaxAway < Grace /\ MaxAway <= RetryFloor /\ Grace <= RetryFloor + 1
    /\ \A rank \in Ranks : TakeoverAfter + Max({1, (TakeoverAfter + 4) \div 8}) * rank <= RetryFloor

\* The last instant at which a debt is tried, crashes aside.
Limit(f) == Max({f.at + RetryFloor, ExpiresAt})

\* The columns of a debt just written or heard.
Fresh(c, f) ==
    /\ c \in Column /\ c.parkedAt = {} /\ c.until <= Limit(f)
    /\ RetryCovers => c.dueAt <= Limit(f)

LEMMA Shapes ==
    /\ \A f \in Fact : f.table \in Tables /\ f.origin \in Nodes /\ f.urls \subseteq Urls /\ f.at \in Nat /\ f.at \in 0..MaxTime
    /\ \A c \in Column : c.dueAt \in Nat /\ c.attempts \in Nat /\ c.until \in Nat /\ c.parkedAt \subseteq 0..MaxTime
BY TimesAssumption DEF Fact, Column

LEMMA RowOK ==
    ASSUME now \in 0..MaxTime, NEW table \in Tables, NEW n \in Nodes, NEW urls \in SUBSET Urls
    PROVE  /\ Row(table, n, urls) \in Fact
           /\ Row(table, n, urls).table = table
           /\ Row(table, n, urls).at = now
           /\ Row(table, n, urls).urls = urls
           /\ Row(table, n, urls).origin = n
BY DEF Row, Fact

LEMMA DebtRow ==
    ASSUME now \in 0..MaxTime, NEW n \in Nodes, NEW u \in Urls, NEW settledAt \in 0..MaxTime
    PROVE  /\ Debt(n, u, settledAt) \in Fact
           /\ Debt(n, u, settledAt).table = "outbox"
           /\ Debt(n, u, settledAt).at = now
           /\ Debt(n, u, settledAt).urls = {u}
           /\ Debt(n, u, settledAt).origin = n
<1>1. "outbox" \in Tables /\ {u} \in SUBSET Urls
  BY DEF Tables
<1>2. PICK row \in Fact : row = Row("outbox", n, {u}) /\ row.table = "outbox" /\ row.at = now
                         /\ row.urls = {u} /\ row.origin = n
  BY <1>1, RowOK
<1>3. Debt(n, u, settledAt) = [row EXCEPT !.tells = settledAt]
  BY <1>2 DEF Debt
<1> QED BY <1>2, <1>3 DEF Fact

LEMMA LimitOK ==
    ASSUME NEW f \in Fact
    PROVE  /\ Limit(f) \in Nat /\ f.at + RetryFloor <= Limit(f) /\ ExpiresAt <= Limit(f)
           /\ f.at \in Nat /\ RetryFloor \in Nat /\ ExpiresAt \in Nat
<1>1. PICK a \in Int : a = f.at + RetryFloor
  BY Shapes, TimesAssumption
<1>2. ExpiresAt \in Nat /\ f.at \in Nat /\ RetryFloor \in Nat
  BY Shapes, TimesAssumption
<1>3. PICK e \in Int : e = ExpiresAt
  BY <1>2
<1>4. Max({a, e}) \in {a, e} /\ Max({a, e}) >= a /\ Max({a, e}) >= e
  BY MaxOfTwo
<1>5. PICK m : m = Max({a, e})
  OBVIOUS
<1>6. Limit(f) = m
  BY <1>1, <1>3, <1>5 DEF Limit
<1> QED BY <1>1, <1>2, <1>3, <1>4, <1>5, <1>6

LEMMA RetryUntilOK ==
    ASSUME NEW rows, NEW f \in Fact
    PROVE  RetryUntil(rows, f) \in Nat /\ RetryUntil(rows, f) <= Limit(f)
<1>1. PICK a \in Nat : a = f.at + RetryFloor
  BY Shapes, TimesAssumption
<1>2. Limit(f) \in Nat /\ a <= Limit(f)
  BY <1>1, LimitOK
<1>3. CASE In(rows, "accepted") # {}
  <2>1. RetryUntil(rows, f) = Limit(f)
    <3>1. {a} \cup {ExpiresAt} = {a, ExpiresAt}
      OBVIOUS
    <3> QED BY <1>1, <1>3, <3>1 DEF RetryUntil, Limit
  <2> QED BY <1>2, <2>1
<1>4. CASE In(rows, "accepted") = {}
  <2>1. RetryUntil(rows, f) = Max({a})
    <3>1. {a} \cup {} = {a}
      OBVIOUS
    <3> QED BY <1>1, <1>4, <3>1 DEF RetryUntil
  <2>2. Max({a}) = a
    BY MaxIn, a \in {a}, {a} \subseteq Int, \A x \in {a} : x <= a
  <2> QED BY <1>2, <2>1, <2>2
<1> QED BY <1>3, <1>4

LEMMA ScheduledOK ==
    ASSUME NEW rows, NEW f \in Fact, NEW dueAt \in Nat, RetryCovers => dueAt <= Limit(f)
    PROVE  Fresh(Scheduled(rows, f, dueAt), f)
<1>1. PICK u \in Nat : u = RetryUntil(rows, f) /\ u <= Limit(f)
  BY RetryUntilOK
<1>2. PICK c : c = Scheduled(rows, f, dueAt)
  OBVIOUS
<1>3. c \in Column /\ c.parkedAt = {} /\ c.dueAt = dueAt /\ c.until = u
  BY <1>1, <1>2 DEF Scheduled, Column
<1> QED BY <1>1, <1>2, <1>3 DEF Fresh

LEMMA TakeoverOK ==
    ASSUME NEW f \in Fact, NEW rank \in Ranks
    PROVE  TakeoverAt(f, rank) \in Nat /\ (RetryCovers => TakeoverAt(f, rank) <= Limit(f))
<1>1. PICK d \in Int : d = (TakeoverAfter + 4) \div 8
  BY TimesAssumption
<1>2. PICK m \in Nat : m = Max({1, d})
  <2>1. PICK one \in Int : one = 1
    OBVIOUS
  <2>2. Max({one, d}) \in {one, d} /\ Max({one, d}) >= one
    BY MaxOfTwo
  <2> QED BY <2>1, <2>2
<1>3. rank \in Nat /\ f.at \in Nat /\ TakeoverAfter \in Nat
  BY Shapes, TimesAssumption
<1>4. PICK k \in Nat : k = m * rank
  BY <1>3
<1>5. TakeoverAt(f, rank) = f.at + TakeoverAfter + k
  BY <1>1, <1>2, <1>4 DEF TakeoverAt
<1>6. RetryCovers => TakeoverAfter + k <= RetryFloor
  BY <1>1, <1>2, <1>4 DEF RetryCovers
<1> QED BY <1>3, <1>5, <1>6, LimitOK

-----------------------------------------------------------------------------
(* What a step does to the rows *)

\* The ledger of an instance is whole: the local columns are those of its rows.
Whole(rows, heard, columns) ==
    /\ rows \subseteq Fact
    /\ DOMAIN heard = In(rows, "paid")
    /\ DOMAIN columns = In(rows, "outbox")
    /\ \A f \in DOMAIN heard : heard[f] \in f.at..now
    /\ \A f \in DOMAIN columns : columns[f] \in Column

\* A row that owes a webhook, or says that it was owed.
Names(f, u) == f.table \in {"outbox", "delivered"} /\ u \in f.urls

\* Instance n writes or hears facts it may not have, all of them on time.
Gains(n, new) ==
    /\ new \subseteq Fact
    /\ \A f \in new : f.at <= now /\ (f \in Unheard(n) \/ (f.at = now /\ f.origin = n))
    /\ held' = [held EXCEPT ![n] = @ \cup new]
    /\ seen' = [seen EXCEPT ![n] = @ \cup new]
    /\ \E h : /\ heardAt' = [heardAt EXCEPT ![n] = h]
              /\ DOMAIN h = DOMAIN heardAt[n] \cup In(new, "paid")
              /\ \A f \in DOMAIN h : h[f] = IF f \in DOMAIN heardAt[n] THEN heardAt[n][f] ELSE now
    /\ \E c : /\ retry' = [retry EXCEPT ![n] = c]
              /\ DOMAIN c = DOMAIN retry[n] \cup In(new, "outbox")
              /\ \A f \in DOMAIN c : IF f \in DOMAIN retry[n] THEN c[f] = retry[n][f]
                                     ELSE Fresh(c[f], f)
    /\ UNCHANGED <<now, swept>>

Shaped ==
    /\ heardAt = [n \in Nodes |-> heardAt[n]]
    /\ retry = [n \in Nodes |-> retry[n]]
Past == \A n \in Nodes : \A f \in held[n] : f.at <= now
HeldIsSeen == \A n \in Nodes : held[n] \subseteq seen[n]

Sound == TypeOK /\ Shaped /\ Past /\ HeldIsSeen

LEMMA WholeNodes ==
    TypeOK => \A n \in Nodes : Whole(held[n], heardAt[n], retry[n]) /\ seen[n] \subseteq Fact /\ posting[n] \subseteq Fact
BY DEF TypeOK, Whole

LEMMA UnheardOK ==
    ASSUME Sound, NEW n \in Nodes
    PROVE  \A f \in Unheard(n) : f \in Fact /\ f.at <= now /\ \E q \in Nodes : f \in held[q] /\ f \in seen[q]
BY DEF Unheard, Sound, TypeOK, Past, HeldIsSeen

\* A fact without local columns.
LEMMA GainsOne ==
    ASSUME NEW n \in Nodes, NEW fact \in Fact, fact.at = now, fact.origin = n, now \in Nat,
           held' = [held EXCEPT ![n] = @ \cup {fact}], seen' = [seen EXCEPT ![n] = @ \cup {fact}],
           heardAt' = [heardAt EXCEPT ![n] = heardAt[n]], retry' = [retry EXCEPT ![n] = retry[n]],
           In({fact}, "paid") = {}, In({fact}, "outbox") = {}, UNCHANGED <<now, swept>>
    PROVE  Gains(n, {fact})
<1>1. \E h : /\ heardAt' = [heardAt EXCEPT ![n] = h]
             /\ DOMAIN h = DOMAIN heardAt[n] \cup In({fact}, "paid")
             /\ \A f \in DOMAIN h : h[f] = IF f \in DOMAIN heardAt[n] THEN heardAt[n][f] ELSE now
  <2> WITNESS heardAt[n]
  <2> QED OBVIOUS
<1>2. \E c : /\ retry' = [retry EXCEPT ![n] = c]
             /\ DOMAIN c = DOMAIN retry[n] \cup In({fact}, "outbox")
             /\ \A f \in DOMAIN c : IF f \in DOMAIN retry[n] THEN c[f] = retry[n][f]
                                    ELSE Fresh(c[f], f)
  <2> WITNESS retry[n]
  <2> QED OBVIOUS
<1>3. \A f \in {fact} : f.at <= now /\ (f \in Unheard(n) \/ (f.at = now /\ f.origin = n))
  OBVIOUS
<1> QED BY <1>1, <1>2, <1>3 DEF Gains

LEMMA AcceptGains ==
    ASSUME Sound, NEW n \in Nodes, NEW hooks \in SUBSET Urls, Accept(n, hooks)
    PROVE  \E fact \in Fact :
              /\ fact.table = "accepted" /\ fact.at = now /\ fact.origin = n /\ hooks \subseteq fact.urls
              /\ Gains(n, {fact}) /\ now < ExpiresAt
              /\ asked' = IF Settled(seen[n]) THEN asked ELSE asked \cup hooks
              /\ UNCHANGED <<posting, restarts, got, abandoned>>
<1>1. now \in 0..MaxTime /\ Whole(held[n], heardAt[n], retry[n])
  BY WholeNodes DEF Sound, TypeOK
<1>2. PICK all : all = Webhooks(held[n]) \cup hooks
  OBVIOUS
<1>3. all \subseteq Urls
  <2>1. \A f \in In(held[n], "accepted") : f.urls \subseteq Urls
    BY <1>1, Shapes DEF In, Whole
  <2> QED BY <1>2, <2>1 DEF Webhooks
<1>4. PICK fact : fact = Row("accepted", n, all)
  OBVIOUS
<1>5. fact \in Fact /\ fact.table = "accepted" /\ fact.at = now /\ fact.urls = all /\ fact.origin = n
  BY <1>1, <1>3, <1>4, RowOK DEF Tables
<1>6. /\ now < ExpiresAt /\ asked' = IF Settled(seen[n]) THEN asked ELSE asked \cup hooks
      /\ held' = [held EXCEPT ![n] = @ \cup {fact}] /\ seen' = [seen EXCEPT ![n] = @ \cup {fact}]
      /\ UNCHANGED <<now, heardAt, retry, swept, posting, restarts, got, abandoned>>
  BY <1>2, <1>4 DEF Accept
<1>7. heardAt' = [heardAt EXCEPT ![n] = heardAt[n]] /\ retry' = [retry EXCEPT ![n] = retry[n]]
  BY <1>6 DEF Sound, Shaped
<1>8. In({fact}, "paid") = {} /\ In({fact}, "outbox") = {}
  BY <1>5 DEF In
<1>9. now \in Nat
  BY <1>1, TimesAssumption
<1>10. Gains(n, {fact})
  BY <1>5, <1>6, <1>7, <1>8, <1>9, GainsOne
<1> QED BY <1>2, <1>5, <1>6, <1>10

LEMMA DeliveredGains ==
    ASSUME Sound, NEW n \in Nodes, NEW f \in posting[n], Delivered(n, f)
    PROVE  \E fact \in Fact :
              /\ fact.table = "delivered" /\ fact.at = now /\ fact.origin = n /\ fact.urls = f.urls
              /\ Gains(n, {fact})
              /\ got' = got \cup f.urls
              /\ posting' = [posting EXCEPT ![n] = @ \ {f}]
              /\ UNCHANGED <<restarts, abandoned, asked>>
<1>1. now \in 0..MaxTime /\ f \in Fact
  BY WholeNodes DEF Sound, TypeOK
<1>2. PICK fact : fact = Row("delivered", n, f.urls)
  OBVIOUS
<1>3. fact \in Fact /\ fact.table = "delivered" /\ fact.at = now /\ fact.urls = f.urls /\ fact.origin = n
  BY <1>1, <1>2, RowOK, Shapes DEF Tables
<1>4. /\ held' = [held EXCEPT ![n] = @ \cup {fact}] /\ seen' = [seen EXCEPT ![n] = @ \cup {fact}]
      /\ got' = got \cup f.urls /\ posting' = [posting EXCEPT ![n] = @ \ {f}]
      /\ UNCHANGED <<now, heardAt, retry, swept, restarts, abandoned, asked>>
  BY <1>2 DEF Delivered
<1>5. heardAt' = [heardAt EXCEPT ![n] = heardAt[n]] /\ retry' = [retry EXCEPT ![n] = retry[n]]
  BY <1>4 DEF Sound, Shaped
<1>6. In({fact}, "paid") = {} /\ In({fact}, "outbox") = {}
  BY <1>3 DEF In
<1>7. now \in Nat
  BY <1>1, TimesAssumption
<1>8. Gains(n, {fact})
  BY <1>3, <1>4, <1>5, <1>6, <1>7, GainsOne
<1> QED BY <1>3, <1>4, <1>8

LEMMA SettleGains ==
    ASSUME Sound, NEW n \in Nodes, Settle(n)
    PROVE  \E new \in SUBSET Fact :
              /\ Gains(n, new) /\ IsFiniteSet(In(new, "paid"))
              /\ \A f \in new : f.at = now /\ f.table \in {"paid", "outbox"}
              /\ In(held[n], "accepted") # {}
              /\ \A u \in Webhooks(held[n]) : \E f \in new : Names(f, u)
              /\ UNCHANGED <<posting, restarts, got, abandoned, asked>>
<1>1. now \in 0..MaxTime /\ now \in Nat /\ Whole(held[n], heardAt[n], retry[n])
  BY WholeNodes, TimesAssumption DEF Sound, TypeOK
<1>2. PICK hooks : hooks = Webhooks(held[n])
  OBVIOUS
<1>3. hooks \subseteq Urls
  <2>1. \A f \in In(held[n], "accepted") : f.urls \subseteq Urls
    BY <1>1, Shapes DEF In, Whole
  <2> QED BY <1>2, <2>1 DEF Webhooks
<1>4. PICK paid : paid = Row("paid", n, {})
  OBVIOUS
<1>5. paid \in Fact /\ paid.table = "paid" /\ paid.at = now /\ paid.origin = n
  BY <1>1, <1>4, RowOK DEF Tables
<1>6. PICK owed : owed = {Debt(n, u, now) : u \in hooks}
  OBVIOUS
<1>7. ASSUME NEW f \in owed
      PROVE  f \in Fact /\ f.table = "outbox" /\ f.at = now /\ f.origin = n
  <2>1. PICK u \in hooks : f = Debt(n, u, now)
    BY <1>6
  <2> QED BY <1>1, <1>3, <2>1, DebtRow
<1>8. PICK new : new = {paid} \cup owed
  OBVIOUS
<1>9. new \subseteq Fact /\ \A f \in new : f.at = now /\ f.origin = n /\ f.table \in {"paid", "outbox"}
  BY <1>5, <1>7, <1>8
<1>10. In(new, "paid") = {paid} /\ In(new, "outbox") = owed
  BY <1>5, <1>7, <1>8 DEF In
<1>11. PICK h : h = [f \in DOMAIN heardAt[n] \cup {paid} |->
                        IF f \in DOMAIN heardAt[n] THEN heardAt[n][f] ELSE now]
  OBVIOUS
<1>12. PICK c : c = [f \in DOMAIN retry[n] \cup owed |->
                        IF f \in DOMAIN retry[n] THEN retry[n][f] ELSE Scheduled(held[n], f, 0)]
  OBVIOUS
<1>13. /\ In(held[n], "accepted") # {}
       /\ held' = [held EXCEPT ![n] = held[n] \cup {paid} \cup owed]
       /\ seen' = [seen EXCEPT ![n] = @ \cup (held[n] \cup {paid} \cup owed)]
       /\ UNCHANGED <<now, posting, swept, restarts, got, abandoned, asked>>
  BY <1>2, <1>4, <1>6 DEF Settle
<1>14. heardAt' = [heardAt EXCEPT ![n] = h]
  BY <1>4, <1>11 DEF Settle, With, Sound, Shaped
<1>15. retry' = [retry EXCEPT ![n] = c]
  BY <1>2, <1>6, <1>12 DEF Settle, With, Sound, Shaped
<1>16. held' = [held EXCEPT ![n] = @ \cup new]
  BY <1>8, <1>13
<1>17. seen' = [seen EXCEPT ![n] = @ \cup new]
  <2>1. seen[n] \cup (held[n] \cup {paid} \cup owed) = seen[n] \cup new
    BY <1>8 DEF Sound, HeldIsSeen
  <2> QED BY <1>13, <2>1
<1>18. \A f \in owed : Fresh(Scheduled(held[n], f, 0), f)
  BY <1>7, ScheduledOK, LimitOK
<1>19. \E x : /\ heardAt' = [heardAt EXCEPT ![n] = x]
              /\ DOMAIN x = DOMAIN heardAt[n] \cup In(new, "paid")
              /\ \A f \in DOMAIN x : x[f] = IF f \in DOMAIN heardAt[n] THEN heardAt[n][f] ELSE now
  <2> WITNESS h
  <2> QED BY <1>10, <1>11, <1>14
<1>20. \E x : /\ retry' = [retry EXCEPT ![n] = x]
              /\ DOMAIN x = DOMAIN retry[n] \cup In(new, "outbox")
              /\ \A f \in DOMAIN x : IF f \in DOMAIN retry[n] THEN x[f] = retry[n][f]
                                     ELSE Fresh(x[f], f)
  <2> WITNESS c
  <2> QED BY <1>10, <1>12, <1>15, <1>18
<1>21. \A f \in new : f.at <= now /\ (f \in Unheard(n) \/ (f.at = now /\ f.origin = n))
  BY <1>1, <1>9
<1>22. Gains(n, new)
  BY <1>9, <1>13, <1>16, <1>17, <1>19, <1>20, <1>21 DEF Gains
<1>23. IsFiniteSet(In(new, "paid"))
  BY <1>10, FS_Singleton
<1>24. ASSUME NEW u \in Webhooks(held[n])
       PROVE  \E f \in new : Names(f, u)
  <2>1. PICK f \in owed : f = Debt(n, u, now)
    BY <1>2, <1>6, <1>24
  <2>2. u \in Urls
    BY <1>2, <1>3, <1>24
  <2>3. f.table = "outbox" /\ f.urls = {u}
    BY <1>1, <2>1, <2>2, DebtRow
  <2> QED BY <1>8, <2>3 DEF Names
<1> QED BY <1>9, <1>13, <1>22, <1>23, <1>24

LEMMA HearGains ==
    ASSUME Sound, NEW n \in Nodes, NEW facts \in SUBSET Unheard(n), NEW rank \in Ranks, Hear(n, facts, rank)
    PROVE  Gains(n, facts) /\ UNCHANGED <<posting, restarts, got, abandoned, asked>>
<1>1. \A f \in facts : f \in Fact /\ f.at <= now
  BY UnheardOK
<1>2. PICK rows : rows = held[n] \cup facts
  OBVIOUS
<1>3. PICK h : h = [f \in DOMAIN heardAt[n] \cup In(facts, "paid") |->
                       IF f \in DOMAIN heardAt[n] THEN heardAt[n][f] ELSE now]
  OBVIOUS
<1>4. PICK c : c = [f \in DOMAIN retry[n] \cup In(facts, "outbox") |->
                       IF f \in DOMAIN retry[n] THEN retry[n][f]
                       ELSE Scheduled(rows, f, TakeoverAt(f, rank))]
  OBVIOUS
<1>5. /\ held' = [held EXCEPT ![n] = rows] /\ seen' = [seen EXCEPT ![n] = @ \cup facts]
      /\ UNCHANGED <<now, posting, swept, restarts, got, abandoned, asked>>
  BY <1>2 DEF Hear
<1>6. heardAt' = [heardAt EXCEPT ![n] = h]
  BY <1>3 DEF Hear, With, Sound, Shaped
<1>7. retry' = [retry EXCEPT ![n] = c]
  BY <1>2, <1>4 DEF Hear, With, Sound, Shaped
<1>8. \A f \in In(facts, "outbox") : Fresh(Scheduled(rows, f, TakeoverAt(f, rank)), f)
  BY <1>1, TakeoverOK, ScheduledOK DEF In
<1>9. \E x : /\ heardAt' = [heardAt EXCEPT ![n] = x]
             /\ DOMAIN x = DOMAIN heardAt[n] \cup In(facts, "paid")
             /\ \A f \in DOMAIN x : x[f] = IF f \in DOMAIN heardAt[n] THEN heardAt[n][f] ELSE now
  <2> WITNESS h
  <2> QED BY <1>3, <1>6
<1>10. \E x : /\ retry' = [retry EXCEPT ![n] = x]
              /\ DOMAIN x = DOMAIN retry[n] \cup In(facts, "outbox")
              /\ \A f \in DOMAIN x : IF f \in DOMAIN retry[n] THEN x[f] = retry[n][f]
                                     ELSE Fresh(x[f], f)
  <2> WITNESS c
  <2> QED BY <1>4, <1>7, <1>8
<1>11. held' = [held EXCEPT ![n] = @ \cup facts]
  BY <1>2, <1>5
<1>12. facts \subseteq Fact /\ \A f \in facts : f.at <= now /\ f \in Unheard(n)
  BY <1>1
<1> QED BY <1>5, <1>9, <1>10, <1>11, <1>12 DEF Gains

\* What a sweep takes away, and what it leaves.
LEMMA PrunedRows ==
    ASSUME NEW rows, NEW columns, NEW left, left = Pruned(rows, columns)
    PROVE  /\ left \subseteq rows
           /\ \A f \in rows \ left :
                 \/ f.table = "accepted" /\ (Old(ExpiresAt) \/ \E p \in rows : p.table = "paid" /\ Old(p.at))
                 \/ f.table = "outbox" /\ \E t \in columns[f].parkedAt : Old(t)
                 \/ f.table = "outbox" /\ Old(f.at) /\ Told(rows, f.urls)
                 \/ f.table \in {"paid", "delivered"} /\ Old(f.at)
           /\ \A p \in rows : p.table = "paid" /\ Old(p.at) => In(left, "accepted") = {}
           /\ Old(ExpiresAt) => In(left, "accepted") = {}
<1>1. PICK r1 : r1 = ForgetAccepted(rows)
  OBVIOUS
<1>2. /\ r1 \subseteq rows /\ \A f \in rows \ r1 : f.table = "accepted"
      /\ \A p \in rows : p.table = "paid" /\ Old(p.at) => In(r1, "accepted") = {}
      /\ Old(ExpiresAt) => In(r1, "accepted") = {}
      /\ r1 # rows => Old(ExpiresAt) \/ \E p \in rows : p.table = "paid" /\ Old(p.at)
  BY <1>1 DEF ForgetAccepted, In
<1>3. PICK r2 : r2 = PruneOutbox(r1, columns)
  OBVIOUS
<1>4. /\ r2 \subseteq r1
      /\ \A f \in r1 \ r2 : /\ f.table = "outbox"
                            /\ (\E t \in columns[f].parkedAt : Old(t)) \/ (Old(f.at) /\ Told(r1, f.urls))
  BY <1>3 DEF PruneOutbox, In
<1>5. PICK r3 : r3 = PrunePaid(r2)
  OBVIOUS
<1>6. r3 \subseteq r2 /\ \A f \in r2 \ r3 : f.table = "paid" /\ Old(f.at)
  BY <1>5 DEF PrunePaid
<1>7. left = PruneDelivered(r3)
  BY <1>1, <1>3, <1>5 DEF Pruned
<1>8. left \subseteq r3 /\ \A f \in r3 \ left : f.table = "delivered" /\ Old(f.at)
  BY <1>7 DEF PruneDelivered
<1>9. \A urls : Told(r1, urls) => Told(rows, urls)
  BY <1>2 DEF Told, In
<1>10. left \subseteq rows
  BY <1>2, <1>4, <1>6, <1>8
<1>11. ASSUME NEW f \in rows \ left
       PROVE  \/ f.table = "accepted" /\ (Old(ExpiresAt) \/ \E p \in rows : p.table = "paid" /\ Old(p.at))
              \/ f.table = "outbox" /\ \E t \in columns[f].parkedAt : Old(t)
              \/ f.table = "outbox" /\ Old(f.at) /\ Told(rows, f.urls)
              \/ f.table \in {"paid", "delivered"} /\ Old(f.at)
  <2>1. CASE f \notin r1
    BY <1>2, <2>1
  <2>2. CASE f \in r1 \ r2
    BY <1>4, <1>9, <2>2
  <2>3. CASE f \in r2 \ r3
    BY <1>6, <2>3
  <2>4. CASE f \in r3 \ left
    BY <1>8, <2>4
  <2> QED BY <2>1, <2>2, <2>3, <2>4
<1>12. In(r1, "accepted") = {} => In(left, "accepted") = {}
  BY <1>4, <1>6, <1>8 DEF In
<1> QED BY <1>2, <1>10, <1>11, <1>12

\* A sweep of instance n: what is left, and what it owes now.
Sweeps(n, left, owed) ==
    /\ left \subseteq held[n] /\ owed \subseteq Fact
    /\ left = Pruned(held[n], retry[n])
    /\ \A f \in owed : f.at = now /\ f.table = "outbox" /\ f.origin = n
    /\ \A f \in owed : \E m \in Missing(left, heardAt[n]) : f.urls = {m[1]}
    /\ \A m \in Missing(left, heardAt[n]) : \E f \in owed : f.urls = {m[1]}
    /\ held' = [held EXCEPT ![n] = left \cup owed]
    /\ seen' = [seen EXCEPT ![n] = @ \cup owed]
    /\ \E h : /\ heardAt' = [heardAt EXCEPT ![n] = h]
              /\ DOMAIN h = In(left, "paid") /\ \A f \in DOMAIN h : h[f] = heardAt[n][f]
    /\ \E c : /\ retry' = [retry EXCEPT ![n] = c]
              /\ DOMAIN c = In(left, "outbox") \cup owed
              /\ \A f \in DOMAIN c : IF f \in left THEN c[f] = retry[n][f]
                                     ELSE Fresh(c[f], f)
    /\ swept' = [swept EXCEPT ![n] = TRUE]
    /\ UNCHANGED <<now, posting, restarts, got, abandoned, asked>>

LEMMA SweepSweeps ==
    ASSUME Sound, NEW n \in Nodes, Sweep(n)
    PROVE  ~swept[n] /\ \E left, owed : Sweeps(n, left, owed)
<1>1. now \in 0..MaxTime /\ Whole(held[n], heardAt[n], retry[n])
  BY WholeNodes DEF Sound, TypeOK
<1>2. PICK left : left = Pruned(held[n], retry[n])
  OBVIOUS
<1>3. left \subseteq held[n]
  BY <1>2, PrunedRows
<1>4. PICK missing : missing = Missing(left, heardAt[n])
  OBVIOUS
<1>5. \A m \in missing : m[1] \in Urls /\ m[2] \in 0..MaxTime
  <2>1. \A f \in In(left, "accepted") : f.urls \subseteq Urls
    BY <1>1, <1>3, Shapes DEF In, Whole
  <2>2. Webhooks(left) \subseteq Urls
    BY <2>1 DEF Webhooks
  <2>3. \A p \in In(left, "paid") : p.at \in 0..MaxTime
    BY <1>1, <1>3, Shapes DEF In, Whole
  <2>4. ASSUME NEW m \in missing PROVE m[1] \in Urls /\ m[2] \in 0..MaxTime
    <3>1. PICK u \in Unowed(left), p \in In(left, "paid") : m = <<u, p.at>>
      BY <1>4, <2>4 DEF Missing
    <3>2. u \in Webhooks(left)
      BY DEF Unowed
    <3> QED BY <2>2, <2>3, <3>1, <3>2
  <2> QED BY <2>4
<1>6. PICK owed : owed = {Debt(n, m[1], m[2]) : m \in missing}
  OBVIOUS
<1>7. ASSUME NEW m \in missing
      PROVE  /\ Debt(n, m[1], m[2]) \in Fact /\ Debt(n, m[1], m[2]).table = "outbox"
             /\ Debt(n, m[1], m[2]).at = now /\ Debt(n, m[1], m[2]).urls = {m[1]}
             /\ Debt(n, m[1], m[2]).origin = n
  BY <1>1, <1>5, DebtRow
<1>8. /\ owed \subseteq Fact /\ \A f \in owed : f.at = now /\ f.table = "outbox" /\ f.origin = n
      /\ \A f \in owed : \E m \in missing : f.urls = {m[1]}
      /\ \A m \in missing : \E f \in owed : f.urls = {m[1]}
  BY <1>6, <1>7
<1>9. In(left, "paid") = left \cap DOMAIN heardAt[n] /\ In(left, "outbox") = left \cap DOMAIN retry[n]
  BY <1>1, <1>3 DEF Whole, In
<1>10. PICK h : h = [f \in left \cap DOMAIN heardAt[n] |-> heardAt[n][f]]
  OBVIOUS
<1>11. PICK kept : kept = [f \in left \cap DOMAIN retry[n] |-> retry[n][f]]
  OBVIOUS
<1>12. PICK c : c = [f \in DOMAIN kept \cup owed |->
                        IF f \in DOMAIN kept THEN kept[f] ELSE Scheduled(left, f, 0)]
  OBVIOUS
<1>13. /\ ~swept[n] /\ swept' = [swept EXCEPT ![n] = TRUE]
       /\ held' = [held EXCEPT ![n] = left \cup owed] /\ seen' = [seen EXCEPT ![n] = @ \cup owed]
       /\ UNCHANGED <<now, posting, restarts, got, abandoned, asked>>
  BY <1>2, <1>4, <1>6 DEF Sweep
<1>14. heardAt' = [heardAt EXCEPT ![n] = h]
  BY <1>2, <1>10 DEF Sweep, Restrict, Sound, Shaped
<1>15. retry' = [retry EXCEPT ![n] = c]
  BY <1>2, <1>4, <1>6, <1>11, <1>12 DEF Sweep, Restrict, With, Sound, Shaped
<1>16. \A f \in owed : Fresh(Scheduled(left, f, 0), f)
  BY <1>8, ScheduledOK, LimitOK
<1>17. \E x : /\ heardAt' = [heardAt EXCEPT ![n] = x]
              /\ DOMAIN x = In(left, "paid") /\ \A f \in DOMAIN x : x[f] = heardAt[n][f]
  <2> WITNESS h
  <2> QED BY <1>9, <1>10, <1>14
<1>18. \E x : /\ retry' = [retry EXCEPT ![n] = x]
              /\ DOMAIN x = In(left, "outbox") \cup owed
              /\ \A f \in DOMAIN x : IF f \in left THEN x[f] = retry[n][f]
                                     ELSE Fresh(x[f], f)
  <2>1. DOMAIN c = In(left, "outbox") \cup owed /\ DOMAIN kept = In(left, "outbox")
    BY <1>9, <1>11, <1>12
  <2>2. ASSUME NEW f \in DOMAIN c
        PROVE  IF f \in left THEN c[f] = retry[n][f] ELSE Fresh(c[f], f)
    <3>1. CASE f \in left
      <4>1. f \in DOMAIN kept
        BY <1>8, <2>1, <2>2, <3>1 DEF In
      <4> QED BY <1>11, <1>12, <3>1, <4>1
    <3>2. CASE f \notin left
      <4>1. f \in owed /\ f \notin DOMAIN kept
        BY <1>9, <1>11, <2>1, <2>2, <3>2
      <4> QED BY <1>12, <1>16, <3>2, <4>1
    <3> QED BY <3>1, <3>2
  <2> WITNESS c
  <2> QED BY <1>15, <2>1, <2>2
<1>19. Sweeps(n, left, owed)
  BY <1>2, <1>3, <1>4, <1>8, <1>13, <1>17, <1>18 DEF Sweeps
<1> QED BY <1>13, <1>19

-----------------------------------------------------------------------------
(* The type invariant *)

LEMMA GainsSound ==
    ASSUME Sound, NEW n \in Nodes, NEW new, Gains(n, new),
           posting' \in [Nodes -> SUBSET Fact], restarts' \in 0..MaxRestarts,
           got' \subseteq Urls, abandoned' \subseteq Urls, asked' \subseteq Urls
    PROVE  Sound'
<1>1. /\ now \in 0..MaxTime /\ now \in Nat /\ held \in [Nodes -> SUBSET Fact] /\ seen \in [Nodes -> SUBSET Fact]
      /\ swept \in [Nodes -> BOOLEAN]
  BY TimesAssumption DEF Sound, TypeOK
<1>2. /\ new \subseteq Fact /\ \A f \in new : f.at <= now
      /\ held' = [held EXCEPT ![n] = held[n] \cup new] /\ seen' = [seen EXCEPT ![n] = seen[n] \cup new]
      /\ now' = now /\ swept' = swept
  BY DEF Gains
<1>3. PICK h : /\ heardAt' = [heardAt EXCEPT ![n] = h]
               /\ DOMAIN h = DOMAIN heardAt[n] \cup In(new, "paid")
               /\ \A f \in DOMAIN h : h[f] = IF f \in DOMAIN heardAt[n] THEN heardAt[n][f] ELSE now
  BY DEF Gains
<1>4. PICK c : /\ retry' = [retry EXCEPT ![n] = c]
               /\ DOMAIN c = DOMAIN retry[n] \cup In(new, "outbox")
               /\ \A f \in DOMAIN c : IF f \in DOMAIN retry[n] THEN c[f] = retry[n][f]
                                      ELSE Fresh(c[f], f)
  BY DEF Gains
<1>5. held' \in [Nodes -> SUBSET Fact] /\ seen' \in [Nodes -> SUBSET Fact]
  BY <1>1, <1>2
<1>6. Shaped'
  BY <1>3, <1>4 DEF Sound, Shaped
<1>7. ASSUME NEW m \in Nodes
      PROVE  /\ Whole(held[m], heardAt[m], retry[m])' /\ held'[m] \subseteq seen'[m]
             /\ \A f \in held'[m] : f.at <= now'
  <2>0. Whole(held[m], heardAt[m], retry[m]) /\ held[m] \subseteq seen[m] /\ \A f \in held[m] : f.at <= now
    BY WholeNodes DEF Sound, HeldIsSeen, Past
  <2>1. CASE m # n
    <3>1. held'[m] = held[m] /\ seen'[m] = seen[m] /\ heardAt'[m] = heardAt[m] /\ retry'[m] = retry[m]
      BY <1>1, <1>2, <1>3, <1>4, <2>1 DEF Sound, Shaped
    <3> QED BY <1>2, <2>0, <3>1 DEF Whole
  <2>2. CASE m = n
    <3>1. held'[n] = held[n] \cup new /\ seen'[n] = seen[n] \cup new /\ heardAt'[n] = h /\ retry'[n] = c
      BY <1>1, <1>2, <1>3, <1>4 DEF Sound, Shaped
    <3>2. DOMAIN h = In(held'[n], "paid") /\ DOMAIN c = In(held'[n], "outbox")
      BY <1>3, <1>4, <2>0, <2>2, <3>1 DEF Whole, In
    <3>3. ASSUME NEW f \in DOMAIN h PROVE h[f] \in f.at..now
      <4>1. CASE f \in DOMAIN heardAt[n]
        BY <1>3, <2>0, <2>2, <4>1 DEF Whole
      <4>2. CASE f \notin DOMAIN heardAt[n]
        <5>1. f \in new /\ h[f] = now
          BY <1>3, <3>3, <4>2 DEF In
        <5>2. f.at \in Nat /\ f.at <= now
          BY <1>2, <5>1, Shapes
        <5> QED BY <1>1, <5>1, <5>2
      <4> QED BY <4>1, <4>2
    <3>4. \A f \in DOMAIN c : c[f] \in Column
      BY <1>4, <2>0, <2>2 DEF Fresh, Whole
    <3>5. held'[n] \subseteq Fact
      BY <1>2, <2>0, <2>2, <3>1 DEF Whole
    <3>6. Whole(held[m], heardAt[m], retry[m])'
      BY <1>2, <2>2, <3>1, <3>2, <3>3, <3>4, <3>5 DEF Whole
    <3> QED BY <1>2, <2>0, <2>2, <3>1, <3>6
  <2> QED BY <2>1, <2>2
<1> QED BY <1>1, <1>2, <1>5, <1>6, <1>7 DEF Sound, TypeOK, Past, HeldIsSeen, Whole

LEMMA SweepsSound ==
    ASSUME Sound, NEW n \in Nodes, NEW left, NEW owed, Sweeps(n, left, owed)
    PROVE  Sound'
<1>1. /\ now \in 0..MaxTime /\ now \in Nat /\ held \in [Nodes -> SUBSET Fact] /\ seen \in [Nodes -> SUBSET Fact]
      /\ swept \in [Nodes -> BOOLEAN] /\ posting \in [Nodes -> SUBSET Fact] /\ restarts \in 0..MaxRestarts
      /\ got \subseteq Urls /\ abandoned \subseteq Urls /\ asked \subseteq Urls
  BY TimesAssumption DEF Sound, TypeOK
<1>2. /\ left \subseteq held[n] /\ owed \subseteq Fact /\ \A f \in owed : f.at = now /\ f.table = "outbox"
      /\ held' = [held EXCEPT ![n] = left \cup owed] /\ seen' = [seen EXCEPT ![n] = seen[n] \cup owed]
      /\ swept' = [swept EXCEPT ![n] = TRUE]
      /\ UNCHANGED <<now, posting, restarts, got, abandoned, asked>>
  BY DEF Sweeps
<1>3. PICK h : /\ heardAt' = [heardAt EXCEPT ![n] = h]
               /\ DOMAIN h = In(left, "paid") /\ \A f \in DOMAIN h : h[f] = heardAt[n][f]
  BY DEF Sweeps
<1>4. PICK c : /\ retry' = [retry EXCEPT ![n] = c]
               /\ DOMAIN c = In(left, "outbox") \cup owed
               /\ \A f \in DOMAIN c : IF f \in left THEN c[f] = retry[n][f]
                                      ELSE Fresh(c[f], f)
  BY DEF Sweeps
<1>5. held' \in [Nodes -> SUBSET Fact] /\ seen' \in [Nodes -> SUBSET Fact] /\ swept' \in [Nodes -> BOOLEAN]
  <2>1. held[n] \subseteq Fact
    BY <1>1
  <2> QED BY <1>1, <1>2, <2>1
<1>6. Shaped'
  BY <1>3, <1>4 DEF Sound, Shaped
<1>7. ASSUME NEW m \in Nodes
      PROVE  /\ Whole(held[m], heardAt[m], retry[m])' /\ held'[m] \subseteq seen'[m]
             /\ \A f \in held'[m] : f.at <= now'
  <2>0. Whole(held[m], heardAt[m], retry[m]) /\ held[m] \subseteq seen[m] /\ \A f \in held[m] : f.at <= now
    BY WholeNodes DEF Sound, HeldIsSeen, Past
  <2>1. CASE m # n
    <3>1. held'[m] = held[m] /\ seen'[m] = seen[m] /\ heardAt'[m] = heardAt[m] /\ retry'[m] = retry[m]
      BY <1>1, <1>2, <1>3, <1>4, <2>1 DEF Sound, Shaped
    <3> QED BY <1>2, <2>0, <3>1 DEF Whole
  <2>2. CASE m = n
    <3>1. held'[n] = left \cup owed /\ seen'[n] = seen[n] \cup owed /\ heardAt'[n] = h /\ retry'[n] = c
      BY <1>1, <1>2, <1>3, <1>4 DEF Sound, Shaped
    <3>2. DOMAIN h = In(held'[n], "paid") /\ DOMAIN c = In(held'[n], "outbox")
      BY <1>2, <1>3, <1>4, <3>1 DEF In
    <3>3. \A f \in DOMAIN h : h[f] \in f.at..now
      BY <1>2, <1>3, <2>0, <2>2 DEF Whole, In
    <3>4. \A f \in DOMAIN c : c[f] \in Column
      BY <1>2, <1>4, <2>0, <2>2 DEF Fresh, Whole, In
    <3>5. held'[n] \subseteq Fact
      BY <1>2, <2>0, <2>2, <3>1 DEF Whole
    <3>6. Whole(held[m], heardAt[m], retry[m])'
      BY <1>2, <2>2, <3>1, <3>2, <3>3, <3>4, <3>5 DEF Whole
    <3>7. held'[n] \subseteq seen'[n]
      BY <1>2, <2>0, <2>2, <3>1
    <3>8. \A f \in held'[n] : f.at <= now'
      BY <1>1, <1>2, <2>0, <2>2, <3>1
    <3> QED BY <2>2, <3>6, <3>7, <3>8
  <2> QED BY <2>1, <2>2
<1> QED BY <1>1, <1>2, <1>5, <1>6, <1>7 DEF Sound, TypeOK, Past, HeldIsSeen, Whole

-----------------------------------------------------------------------------
(* The kinds of steps *)

OwesAll(n, new) == \A u \in Webhooks(held[n]) : \E f \in new : Names(f, u)

\* Instance n writes or hears facts: accept, settle, hear and the tombstone.
Writes(n, new) ==
    /\ Gains(n, new)
    /\ posting' \in [Nodes -> SUBSET Fact] /\ restarts' = restarts
    /\ \A m \in Nodes : posting'[m] \subseteq posting[m]
    /\ \A m \in Nodes : \A f \in posting[m] \ posting'[m] :
         m = n /\ \E d \in new : d.table = "delivered" /\ d.urls = f.urls /\ d.at = now
    /\ got \subseteq got' /\ got' \subseteq Urls
    /\ asked \subseteq asked' /\ asked' \subseteq Urls /\ abandoned' = abandoned
    /\ asked' = asked \/ now < ExpiresAt
    /\ IsFiniteSet(In(new, "paid") \ Unheard(n))
    /\ \A u \in asked' \ asked :
         /\ ~Settled(seen[n]) /\ \A f \in new : f.table # "paid"
         /\ \E f \in new : f.table = "accepted" /\ f.origin = n /\ u \in f.urls
    /\ \A f \in new :
         f \in Unheard(n) \/ /\ f.table = "accepted" => now <= ExpiresAt /\ ~Settled(held[n])
                             /\ f.table = "delivered" => f.urls \subseteq got'
                             /\ f.table = "paid" => In(held[n], "accepted") # {} /\ OwesAll(n, new)

\* What that does to one debt: nothing, unless a crash ended its post; a lease; or
\* a failed attempt.
Moves(n, f, c, d) ==
    /\ d.until = c.until
    /\ \/ /\ d = c /\ (f \in posting'[n] => f \in posting[n])
          /\ f \in posting[n] \ posting'[n] => restarts' = restarts + 1
       \/ f \in Due(n) /\ f \in posting'[n] /\ d.parkedAt = c.parkedAt /\ d.dueAt = now + Lease
       \/ /\ f \in posting[n] \ posting'[n]
          /\ d.parkedAt = {now} \/ (d.parkedAt = c.parkedAt /\ d.dueAt <= c.until)

\* Instance n changes the local columns of its debts and its posts in flight:
\* the lease, a failed attempt and a crash.
Reschedules(n) ==
    /\ \E c : /\ retry' = [retry EXCEPT ![n] = c] /\ DOMAIN c = DOMAIN retry[n]
              /\ \A f \in DOMAIN c :
                    /\ c[f] \in Column /\ c[f].parkedAt \in {retry[n][f].parkedAt, {now}}
                    /\ c[f].parkedAt # {} => retry[n][f].parkedAt # {} \/ f.urls \subseteq abandoned'
                    /\ Moves(n, f, retry[n][f], c[f])
    /\ posting' \in [Nodes -> SUBSET Fact] /\ \A m \in Nodes : m # n => posting'[m] = posting[m]
    /\ restarts' \in {restarts, restarts + 1} /\ restarts' \in 0..MaxRestarts
    /\ abandoned \subseteq abandoned' /\ abandoned' \subseteq Urls
    /\ UNCHANGED <<now, held, heardAt, swept, seen, got, asked>>

LEMMA AcceptWrites ==
    ASSUME Sound, NEW n \in Nodes, NEW hooks \in SUBSET Urls, Accept(n, hooks)
    PROVE  \E new : Writes(n, new)
<1>1. PICK fact \in Fact :
         /\ fact.table = "accepted" /\ fact.at = now /\ fact.origin = n /\ hooks \subseteq fact.urls
         /\ Gains(n, {fact}) /\ now < ExpiresAt
         /\ asked' = IF Settled(seen[n]) THEN asked ELSE asked \cup hooks
         /\ UNCHANGED <<posting, restarts, got, abandoned>>
  BY AcceptGains
<1>2. now \in Nat /\ ExpiresAt \in Nat
  BY TimesAssumption DEF Sound, TypeOK
<1>3. IsFiniteSet(In({fact}, "paid") \ Unheard(n))
  <2>1. In({fact}, "paid") \ Unheard(n) = {}
    BY <1>1 DEF In
  <2> QED BY <2>1, FS_EmptySet
<1>4. ~Settled(held[n])
  BY DEF Accept
<1>5. asked \subseteq asked' /\ asked' \subseteq Urls
  BY <1>1 DEF Sound, TypeOK
<1>6. \A u \in asked' \ asked : ~Settled(seen[n]) /\ u \in fact.urls
  BY <1>1
<1>7. Writes(n, {fact})
  BY <1>1, <1>2, <1>3, <1>4, <1>5, <1>6 DEF Writes, Sound, TypeOK
<1> QED BY <1>7

LEMMA SettleWrites ==
    ASSUME Sound, NEW n \in Nodes, Settle(n)
    PROVE  \E new : Writes(n, new)
<1>1. PICK new \in SUBSET Fact :
         /\ Gains(n, new) /\ IsFiniteSet(In(new, "paid"))
         /\ \A f \in new : f.at = now /\ f.table \in {"paid", "outbox"}
         /\ In(held[n], "accepted") # {} /\ OwesAll(n, new)
         /\ UNCHANGED <<posting, restarts, got, abandoned, asked>>
  BY SettleGains DEF OwesAll
<1>2. IsFiniteSet(In(new, "paid") \ Unheard(n))
  BY <1>1, FS_Subset
<1>3. Writes(n, new)
  BY <1>1, <1>2 DEF Writes, Sound, TypeOK
<1> QED BY <1>3

LEMMA HearWrites ==
    ASSUME Sound, NEW n \in Nodes, NEW facts \in SUBSET Unheard(n), NEW rank \in Ranks, Hear(n, facts, rank)
    PROVE  \E new : Writes(n, new)
<1>1. Gains(n, facts) /\ UNCHANGED <<posting, restarts, got, abandoned, asked>>
  BY HearGains
<1>2. IsFiniteSet(In(facts, "paid") \ Unheard(n))
  <2>1. In(facts, "paid") \ Unheard(n) = {}
    BY DEF In
  <2> QED BY <2>1, FS_EmptySet
<1>3. Writes(n, facts)
  BY <1>1, <1>2 DEF Writes, Sound, TypeOK
<1> QED BY <1>3

LEMMA DeliveredWrites ==
    ASSUME Sound, NEW n \in Nodes, NEW f \in posting[n], Delivered(n, f)
    PROVE  \E new : Writes(n, new)
<1>1. PICK fact \in Fact :
         /\ fact.table = "delivered" /\ fact.at = now /\ fact.urls = f.urls /\ Gains(n, {fact})
         /\ got' = got \cup f.urls
         /\ posting' = [posting EXCEPT ![n] = @ \ {f}]
         /\ UNCHANGED <<restarts, abandoned, asked>>
  BY DeliveredGains
<1>2. fact.urls \subseteq Urls
  BY Shapes
<1>3. posting' \in [Nodes -> SUBSET Fact]
  BY <1>1 DEF Sound, TypeOK
<1>4. IsFiniteSet(In({fact}, "paid") \ Unheard(n))
  <2>1. In({fact}, "paid") \ Unheard(n) = {}
    BY <1>1 DEF In
  <2> QED BY <2>1, FS_EmptySet
<1>5. posting'[n] = posting[n] \ {f} /\ \A m \in Nodes : m # n => posting'[m] = posting[m]
  BY <1>1 DEF Sound, TypeOK
<1>6. Writes(n, {fact})
  BY <1>1, <1>2, <1>3, <1>4, <1>5 DEF Writes, Sound, TypeOK
<1> QED BY <1>6

LEMMA UndoneOK ==
    ASSUME NEW c \in Column, now \in 0..MaxTime
    PROVE  /\ Undone(c) \in Column /\ Undone(c).parkedAt \in {c.parkedAt, {now}} /\ Undone(c).until = c.until
           /\ Undone(c).parkedAt = {now} \/ (Undone(c).parkedAt = c.parkedAt /\ Undone(c).dueAt <= c.until)
<1>1. now \in Nat /\ Backoff \in Nat /\ c.attempts \in Nat /\ c.attempts + 1 \in Nat
  BY TimesAssumption, Shapes
<1>2. PICK attempts \in Nat : attempts = c.attempts + 1
  BY <1>1
<1>3. PICK nextAt \in Nat : nextAt = now + Backoff * attempts
  BY <1>1
<1>4. Undone(c) = IF nextAt > c.until
                  THEN [c EXCEPT !.attempts = attempts, !.parkedAt = {now}]
                  ELSE [c EXCEPT !.attempts = attempts, !.dueAt = nextAt]
  BY <1>2, <1>3 DEF Undone
<1>5. {now} \in SUBSET (0..MaxTime)
  OBVIOUS
<1>6. c.until \in Nat
  BY Shapes
<1>7. PICK d : d = Undone(c)
  OBVIOUS
<1>8. CASE nextAt > c.until
  <2>1. d = [c EXCEPT !.attempts = attempts, !.parkedAt = {now}]
    BY <1>4, <1>7, <1>8
  <2>2. d \in Column /\ d.parkedAt = {now} /\ d.until = c.until
    BY <1>2, <1>5, <2>1 DEF Column
  <2> QED BY <1>7, <2>2
<1>9. CASE ~(nextAt > c.until)
  <2>1. d = [c EXCEPT !.attempts = attempts, !.dueAt = nextAt]
    BY <1>4, <1>7, <1>9
  <2>2. d \in Column /\ d.parkedAt = c.parkedAt /\ d.until = c.until /\ d.dueAt = nextAt
    BY <1>2, <1>3, <2>1 DEF Column
  <2> QED BY <1>3, <1>6, <1>7, <1>9, <2>2
<1> QED BY <1>8, <1>9

LEMMA TakeReschedules ==
    ASSUME Sound, NEW n \in Nodes, Take(n)
    PROVE  Reschedules(n)
<1>1. now \in Nat /\ Lease \in Nat /\ now + Lease \in Nat /\ Whole(held[n], heardAt[n], retry[n])
  BY WholeNodes, TimesAssumption DEF Sound, TypeOK
<1>2. Due(n) \subseteq DOMAIN retry[n] /\ DOMAIN retry[n] \subseteq Fact
  BY <1>1 DEF Due, Whole, In
<1>3. PICK due : due = Due(n)
  OBVIOUS
<1>4. PICK c : c = [f \in DOMAIN retry[n] |-> IF f \in due THEN [retry[n][f] EXCEPT !.dueAt = now + Lease]
                                              ELSE retry[n][f]]
  OBVIOUS
<1>5. /\ posting' = [posting EXCEPT ![n] = due] /\ retry' = [retry EXCEPT ![n] = c]
      /\ UNCHANGED <<now, held, heardAt, swept, restarts, seen, got, abandoned, asked>>
  BY <1>3, <1>4 DEF Take, Sound, Shaped
<1>6. ASSUME NEW f \in DOMAIN c
      PROVE  /\ c[f] \in Column /\ c[f].parkedAt = retry[n][f].parkedAt /\ c[f].until = retry[n][f].until
             /\ f \in due => c[f].dueAt = now + Lease
             /\ f \notin due => c[f] = retry[n][f]
  <2>1. retry[n][f] \in Column
    BY <1>1, <1>4 DEF Whole
  <2>2. [retry[n][f] EXCEPT !.dueAt = now + Lease] \in Column
    BY <1>1, <2>1 DEF Column
  <2>3. /\ [retry[n][f] EXCEPT !.dueAt = now + Lease].parkedAt = retry[n][f].parkedAt
        /\ [retry[n][f] EXCEPT !.dueAt = now + Lease].until = retry[n][f].until
        /\ [retry[n][f] EXCEPT !.dueAt = now + Lease].dueAt = now + Lease
    BY <2>1 DEF Column
  <2> QED BY <1>4, <2>1, <2>2, <2>3
<1>7. /\ posting' \in [Nodes -> SUBSET Fact] /\ posting'[n] = due /\ posting[n] = {}
      /\ \A m \in Nodes : m # n => posting'[m] = posting[m]
  BY <1>2, <1>3, <1>5 DEF Take, Sound, TypeOK
<1>8. \A f \in DOMAIN c : Moves(n, f, retry[n][f], c[f])
  BY <1>3, <1>6, <1>7 DEF Moves
<1>9. \E x : /\ retry' = [retry EXCEPT ![n] = x] /\ DOMAIN x = DOMAIN retry[n]
             /\ \A f \in DOMAIN x :
                   /\ x[f] \in Column /\ x[f].parkedAt \in {retry[n][f].parkedAt, {now}}
                   /\ x[f].parkedAt # {} => retry[n][f].parkedAt # {} \/ f.urls \subseteq abandoned'
                   /\ Moves(n, f, retry[n][f], x[f])
  <2> WITNESS c
  <2> QED BY <1>4, <1>5, <1>6, <1>8
<1> QED BY <1>5, <1>7, <1>9 DEF Reschedules, Sound, TypeOK

LEMMA UndeliveredReschedules ==
    ASSUME Sound, NEW n \in Nodes, NEW f \in posting[n], Undelivered(n, f)
    PROVE  Reschedules(n)
<1>1. now \in 0..MaxTime /\ Whole(held[n], heardAt[n], retry[n]) /\ f \in Fact
  BY WholeNodes DEF Sound, TypeOK
<1>2. /\ posting' \in [Nodes -> SUBSET Fact] /\ posting'[n] = posting[n] \ {f}
      /\ \A m \in Nodes : m # n => posting'[m] = posting[m]
  BY DEF Undelivered, Sound, TypeOK
<1>3. UNCHANGED <<now, held, heardAt, swept, restarts, seen, got, asked>>
  BY DEF Undelivered
<1>4. f.urls \subseteq Urls
  BY <1>1, Shapes
<1>5. CASE f \in DOMAIN retry[n]
  <2>1. PICK d : d = Undone(retry[n][f])
    OBVIOUS
  <2>2. PICK c : c = [retry[n] EXCEPT ![f] = d]
    OBVIOUS
  <2>3. retry' = [retry EXCEPT ![n] = c]
    BY <1>5, <2>1, <2>2 DEF Undelivered, Sound, Shaped
  <2>4. abandoned' = IF d.parkedAt = {} THEN abandoned ELSE abandoned \cup f.urls
    BY <1>5, <2>1 DEF Undelivered
  <2>5. /\ d \in Column /\ d.parkedAt \in {retry[n][f].parkedAt, {now}} /\ d.until = retry[n][f].until
        /\ d.parkedAt = {now} \/ (d.parkedAt = retry[n][f].parkedAt /\ d.dueAt <= retry[n][f].until)
    BY <1>1, <1>5, <2>1, UndoneOK DEF Whole
  <2>6. c = [g \in DOMAIN retry[n] |-> IF g = f THEN d ELSE retry[n][g]]
    BY <2>2
  <2>7. abandoned \subseteq abandoned' /\ abandoned' \subseteq Urls
    BY <1>4, <2>4 DEF Sound, TypeOK
  <2>8. \A g \in DOMAIN c : Moves(n, g, retry[n][g], c[g])
    BY <1>2, <2>5, <2>6 DEF Moves
  <2>9. \E x : /\ retry' = [retry EXCEPT ![n] = x] /\ DOMAIN x = DOMAIN retry[n]
               /\ \A g \in DOMAIN x :
                     /\ x[g] \in Column /\ x[g].parkedAt \in {retry[n][g].parkedAt, {now}}
                     /\ x[g].parkedAt # {} => retry[n][g].parkedAt # {} \/ g.urls \subseteq abandoned'
                     /\ Moves(n, g, retry[n][g], x[g])
    <3> WITNESS c
    <3> QED BY <1>1, <2>3, <2>4, <2>5, <2>6, <2>8 DEF Whole
  <2> QED BY <1>2, <1>3, <2>7, <2>9 DEF Reschedules, Sound, TypeOK
<1>6. CASE f \notin DOMAIN retry[n]
  <2>1. UNCHANGED <<retry, abandoned>>
    BY <1>6 DEF Undelivered
  <2>2. retry' = [retry EXCEPT ![n] = retry[n]]
    BY <2>1 DEF Sound, Shaped
  <2>3. \A g \in DOMAIN retry[n] : Moves(n, g, retry[n][g], retry[n][g])
    BY <1>2, <1>6 DEF Moves
  <2>4. \E x : /\ retry' = [retry EXCEPT ![n] = x] /\ DOMAIN x = DOMAIN retry[n]
               /\ \A g \in DOMAIN x :
                     /\ x[g] \in Column /\ x[g].parkedAt \in {retry[n][g].parkedAt, {now}}
                     /\ x[g].parkedAt # {} => retry[n][g].parkedAt # {} \/ g.urls \subseteq abandoned'
                     /\ Moves(n, g, retry[n][g], x[g])
    <3> WITNESS retry[n]
    <3> QED BY <1>1, <2>2, <2>3 DEF Whole
  <2> QED BY <1>2, <1>3, <2>1, <2>4 DEF Reschedules, Sound, TypeOK
<1> QED BY <1>5, <1>6

LEMMA RestartReschedules ==
    ASSUME Sound, NEW n \in Nodes, Restart(n)
    PROVE  Reschedules(n)
<1>1. Whole(held[n], heardAt[n], retry[n])
  BY WholeNodes DEF Sound
<1>2. /\ posting' \in [Nodes -> SUBSET Fact] /\ posting'[n] = {}
      /\ \A m \in Nodes : m # n => posting'[m] = posting[m]
  BY DEF Restart, Sound, TypeOK
<1>3. restarts' = restarts + 1 /\ restarts' \in 0..MaxRestarts
  BY TimesAssumption DEF Restart, Sound, TypeOK
<1>4. \A g \in DOMAIN retry[n] : Moves(n, g, retry[n][g], retry[n][g])
  BY <1>2, <1>3 DEF Moves
<1>5. UNCHANGED <<now, held, heardAt, retry, swept, seen, got, abandoned, asked>>
  BY DEF Restart
<1>6. retry' = [retry EXCEPT ![n] = retry[n]]
  BY <1>5 DEF Sound, Shaped
<1>7. \E x : /\ retry' = [retry EXCEPT ![n] = x] /\ DOMAIN x = DOMAIN retry[n]
             /\ \A g \in DOMAIN x :
                   /\ x[g] \in Column /\ x[g].parkedAt \in {retry[n][g].parkedAt, {now}}
                   /\ x[g].parkedAt # {} => retry[n][g].parkedAt # {} \/ g.urls \subseteq abandoned'
                   /\ Moves(n, g, retry[n][g], x[g])
  <2> WITNESS retry[n]
  <2> QED BY <1>1, <1>6, <1>4 DEF Whole
<1> QED BY <1>2, <1>5, <1>7, <1>3 DEF Reschedules, Sound, TypeOK

LEMMA StepKinds ==
    ASSUME Sound, Next
    PROVE  \/ \E n \in Nodes : \E new : Writes(n, new)
           \/ \E n \in Nodes : Reschedules(n)
           \/ \E n \in Nodes : Sweep(n)
           \/ Tick
<1>1. ASSUME NEW n \in Nodes, NEW hooks \in {{}} \cup {{u} : u \in Urls}, Accept(n, hooks)
      PROVE  \E new : Writes(n, new)
  BY <1>1, AcceptWrites
<1>2. ASSUME NEW n \in Nodes, NEW tables \in Notes, NEW rank \in Ranks,
             Hear(n, {f \in Unheard(n) : f.table \in tables}, rank)
      PROVE  \E new : Writes(n, new)
  <2>1. {f \in Unheard(n) : f.table \in tables} \in SUBSET Unheard(n)
    OBVIOUS
  <2> QED BY <1>2, <2>1, HearWrites
<1> QED BY <1>1, <1>2, SettleWrites, DeliveredWrites, TakeReschedules, UndeliveredReschedules,
           RestartReschedules DEF Next

LEMMA ReschedulesSound ==
    ASSUME Sound, NEW n \in Nodes, Reschedules(n)
    PROVE  Sound'
<1>1. PICK c : /\ retry' = [retry EXCEPT ![n] = c] /\ DOMAIN c = DOMAIN retry[n]
               /\ \A f \in DOMAIN c : c[f] \in Column
  BY DEF Reschedules
<1>2. UNCHANGED <<now, held, heardAt, swept, seen, got, asked>>
  BY DEF Reschedules
<1>3. Shaped'
  BY <1>1, <1>2 DEF Sound, Shaped
<1>4. ASSUME NEW m \in Nodes
      PROVE  Whole(held[m], heardAt[m], retry[m])'
  <2>1. Whole(held[m], heardAt[m], retry[m])
    BY WholeNodes DEF Sound
  <2>2. retry'[m] = IF m = n THEN c ELSE retry[m]
    BY <1>1 DEF Sound, Shaped
  <2>3. CASE m = n
    BY <1>1, <1>2, <2>1, <2>2, <2>3 DEF Whole
  <2>4. CASE m # n
    BY <1>1, <1>2, <2>1, <2>2, <2>4 DEF Whole
  <2> QED BY <2>3, <2>4
<1>5. Past' /\ HeldIsSeen'
  BY <1>2 DEF Sound, Past, HeldIsSeen
<1>6. posting' \in [Nodes -> SUBSET Fact] /\ restarts' \in 0..MaxRestarts /\ abandoned' \subseteq Urls
  BY DEF Reschedules
<1> QED BY <1>2, <1>3, <1>4, <1>5, <1>6 DEF Sound, TypeOK, Whole

LEMMA TickSound ==
    ASSUME Sound, Tick
    PROVE  Sound' /\ now' = now + 1 /\ now \in Nat
<1>1. /\ now' = now + 1 /\ now < MaxTime /\ swept' \in [Nodes -> BOOLEAN]
      /\ UNCHANGED <<held, heardAt, retry, posting, restarts, seen, got, abandoned, asked>>
  BY DEF Tick
<1>2. now \in Nat /\ now' \in 0..MaxTime
  BY <1>1, TimesAssumption DEF Sound, TypeOK
<1>3. \A n \in Nodes : \A f \in held[n] : f.at <= now'
  <2>1. \A n \in Nodes : \A f \in held[n] : f.at <= now /\ f.at \in Nat
    BY Shapes DEF Sound, Past, TypeOK
  <2> QED BY <1>1, <1>2, <2>1
<1>4. \A n \in Nodes : \A f \in DOMAIN heardAt[n] : heardAt[n][f] \in f.at..now'
  <2>1. ASSUME NEW n \in Nodes, NEW f \in DOMAIN heardAt[n]
        PROVE  heardAt[n][f] \in f.at..now'
    <3>1. heardAt[n][f] \in f.at..now /\ f \in Fact
      BY <2>1 DEF Sound, TypeOK, In
    <3>2. f.at \in Nat
      BY <3>1, Shapes
    <3> QED BY <1>1, <1>2, <3>1, <3>2
  <2> QED BY <2>1
<1>5. Past' /\ HeldIsSeen' /\ Shaped'
  BY <1>1, <1>3 DEF Sound, Past, HeldIsSeen, Shaped
<1>6. TypeOK'
  BY <1>1, <1>2, <1>4 DEF Sound, TypeOK
<1> QED BY <1>1, <1>2, <1>5, <1>6 DEF Sound

LEMMA WritesSound ==
    ASSUME Sound, NEW n \in Nodes, NEW new, Writes(n, new)
    PROVE  Sound'
<1>1. /\ Gains(n, new) /\ posting' \in [Nodes -> SUBSET Fact] /\ restarts' \in 0..MaxRestarts
      /\ got' \subseteq Urls /\ abandoned' \subseteq Urls /\ asked' \subseteq Urls
  BY DEF Writes, Sound, TypeOK
<1> QED BY <1>1, GainsSound

LEMMA SoundInit == Init => Sound
<1> SUFFICES ASSUME Init PROVE Sound
  OBVIOUS
<1>1. \A n \in Nodes : held[n] = {} /\ seen[n] = {} /\ heardAt[n] = NoRows /\ retry[n] = NoRows
  BY DEF Init
<1>2. DOMAIN NoRows = {}
  BY DEF NoRows
<1>3. Past /\ HeldIsSeen /\ Shaped
  BY <1>1 DEF Past, HeldIsSeen, Shaped, Init
<1>4. /\ now \in 0..MaxTime /\ restarts \in 0..MaxRestarts /\ held \in [Nodes -> SUBSET Fact]
      /\ seen \in [Nodes -> SUBSET Fact] /\ posting \in [Nodes -> SUBSET Fact] /\ swept \in [Nodes -> BOOLEAN]
      /\ got \subseteq Urls /\ abandoned \subseteq Urls /\ asked \subseteq Urls
  BY TimesAssumption DEF Init
<1>5. \A n \in Nodes : In(held[n], "paid") = {} /\ In(held[n], "outbox") = {}
  BY <1>1 DEF In
<1> QED BY <1>1, <1>2, <1>3, <1>4, <1>5 DEF Sound, TypeOK

LEMMA SoundStep == Sound /\ [Next]_vars => Sound'
<1> SUFFICES ASSUME Sound, [Next]_vars PROVE Sound'
  OBVIOUS
<1>1. CASE UNCHANGED vars
  BY <1>1 DEF vars, Sound, TypeOK, Past, HeldIsSeen, Shaped
<1>2. ASSUME NEW n \in Nodes, Sweep(n) PROVE Sound'
  BY <1>2, SweepSweeps, SweepsSound
<1> QED BY <1>1, <1>2, StepKinds, WritesSound, ReschedulesSound, TickSound

\* The ledgers stay typed for every value of the constants: local columns exist
\* exactly for the rows they belong to, through pruning, takeovers and crashes,
\* and no due time lies before the epoch (ledger.ts takeoverAt, undelivered, sweep).
THEOREM Typed == Spec => []TypeOK
<1>1. Init => Sound
  BY SoundInit
<1>2. Sound /\ [Next]_vars => Sound'
  BY SoundStep
<1>3. Sound => TypeOK
  BY DEF Sound
<1> QED BY <1>1, <1>2, <1>3, PTL DEF Spec

-----------------------------------------------------------------------------
(* What the kinds of steps do to the rows of each instance *)

LEMMA GainsHeard ==
    ASSUME Sound, NEW n \in Nodes, NEW new, Gains(n, new), NEW m \in Nodes, NEW f \in DOMAIN heardAt'[m]
    PROVE  \/ f \in DOMAIN heardAt[m] /\ heardAt'[m][f] = heardAt[m][f]
           \/ m = n /\ f \in new /\ heardAt'[m][f] = now
<1>1. PICK h : /\ heardAt' = [heardAt EXCEPT ![n] = h]
               /\ DOMAIN h = DOMAIN heardAt[n] \cup In(new, "paid")
               /\ \A g \in DOMAIN h : h[g] = IF g \in DOMAIN heardAt[n] THEN heardAt[n][g] ELSE now
  BY DEF Gains
<1>2. heardAt'[m] = IF m = n THEN h ELSE heardAt[m]
  BY <1>1 DEF Sound, Shaped
<1> QED BY <1>1, <1>2 DEF In

LEMMA GainsRows ==
    ASSUME Sound, NEW n \in Nodes, NEW new, Gains(n, new)
    PROVE  /\ now' = now /\ swept' = swept
           /\ \A m \in Nodes : held'[m] = IF m = n THEN held[n] \cup new ELSE held[m]
           /\ \A m \in Nodes : seen'[m] = IF m = n THEN seen[n] \cup new ELSE seen[m]
           /\ \A m \in Nodes : DOMAIN retry[m] \subseteq DOMAIN retry'[m]
           /\ \A f \in In(new, "outbox") : f \in DOMAIN retry'[n]
           /\ \A m \in Nodes : \A f \in DOMAIN retry'[m] :
                 \/ f \in DOMAIN retry[m] /\ retry'[m][f] = retry[m][f]
                 \/ f \notin DOMAIN retry[m] /\ retry'[m][f].parkedAt = {}
           /\ \A m \in Nodes : \A f \in Unheard(m)' : f \in Unheard(m) \/ f.at = now
<1>1. /\ held' = [held EXCEPT ![n] = held[n] \cup new] /\ seen' = [seen EXCEPT ![n] = seen[n] \cup new]
      /\ now' = now /\ swept' = swept /\ \A f \in new : f \in Unheard(n) \/ f.at = now
  BY DEF Gains
<1>2. PICK c : /\ retry' = [retry EXCEPT ![n] = c]
               /\ DOMAIN c = DOMAIN retry[n] \cup In(new, "outbox")
               /\ \A f \in DOMAIN c : IF f \in DOMAIN retry[n] THEN c[f] = retry[n][f]
                                      ELSE Fresh(c[f], f)
  BY DEF Gains
<1>3. /\ \A m \in Nodes : held'[m] = IF m = n THEN held[n] \cup new ELSE held[m]
      /\ \A m \in Nodes : seen'[m] = IF m = n THEN seen[n] \cup new ELSE seen[m]
  BY <1>1 DEF Sound, TypeOK
<1>4. \A m \in Nodes : retry'[m] = IF m = n THEN c ELSE retry[m]
  BY <1>2 DEF Sound, Shaped
<1>5. /\ \A m \in Nodes : DOMAIN retry[m] \subseteq DOMAIN retry'[m]
      /\ \A f \in In(new, "outbox") : f \in DOMAIN retry'[n]
  BY <1>2, <1>4
<1>6. ASSUME NEW m \in Nodes, NEW f \in DOMAIN retry'[m]
      PROVE  \/ f \in DOMAIN retry[m] /\ retry'[m][f] = retry[m][f]
             \/ f \notin DOMAIN retry[m] /\ retry'[m][f].parkedAt = {}
  BY <1>2, <1>4, <1>6 DEF Fresh
<1>7. ASSUME NEW m \in Nodes, NEW f \in Unheard(m)'
      PROVE  f \in Unheard(m) \/ f.at = now
  <2>1. PICK q \in Nodes : f \in held'[q] /\ f \notin seen'[m]
    BY <1>7 DEF Unheard
  <2>2. f \notin seen[m]
    BY <1>3, <2>1
  <2>3. CASE f \in held[q]
    BY <2>2, <2>3 DEF Unheard
  <2>4. CASE f \in new
    BY <1>1, <2>2, <2>4 DEF Unheard
  <2> QED BY <1>3, <2>1, <2>3, <2>4
<1> QED BY <1>1, <1>3, <1>5, <1>6, <1>7

LEMMA SweepsHeard ==
    ASSUME Sound, NEW n \in Nodes, NEW left, NEW owed, Sweeps(n, left, owed),
           NEW m \in Nodes, NEW f \in DOMAIN heardAt'[m]
    PROVE  f \in DOMAIN heardAt[m] /\ heardAt'[m][f] = heardAt[m][f]
<1>1. PICK h : /\ heardAt' = [heardAt EXCEPT ![n] = h]
               /\ DOMAIN h = In(left, "paid") /\ \A g \in DOMAIN h : h[g] = heardAt[n][g]
  BY DEF Sweeps
<1>2. In(left, "paid") \subseteq DOMAIN heardAt[n]
  BY WholeNodes DEF Sound, Whole, In, Sweeps
<1>3. heardAt'[m] = IF m = n THEN h ELSE heardAt[m]
  BY <1>1 DEF Sound, Shaped
<1> QED BY <1>1, <1>2, <1>3

LEMMA SweepsRows ==
    ASSUME Sound, NEW n \in Nodes, NEW left, NEW owed, Sweeps(n, left, owed)
    PROVE  /\ now' = now /\ \A m \in Nodes : m # n => swept'[m] = swept[m]
           /\ \A m \in Nodes : held'[m] = IF m = n THEN left \cup owed ELSE held[m]
           /\ \A m \in Nodes : seen'[m] = IF m = n THEN seen[n] \cup owed ELSE seen[m]
           /\ \A m \in Nodes : \A f \in DOMAIN retry[m] : m # n \/ f \in left => f \in DOMAIN retry'[m]
           /\ \A f \in owed : f \in DOMAIN retry'[n]
           /\ \A m \in Nodes : \A f \in DOMAIN retry'[m] :
                 \/ f \in DOMAIN retry[m] /\ retry'[m][f] = retry[m][f]
                 \/ f \notin held[m] /\ retry'[m][f].parkedAt = {}
                 \/ f \in owed /\ retry'[m][f].parkedAt = {}
           /\ \A m \in Nodes : \A f \in Unheard(m)' : f \in Unheard(m) \/ f.at = now
<1>1. /\ held' = [held EXCEPT ![n] = left \cup owed] /\ seen' = [seen EXCEPT ![n] = seen[n] \cup owed]
      /\ swept' = [swept EXCEPT ![n] = TRUE] /\ now' = now
      /\ left \subseteq held[n] /\ \A f \in owed : f.at = now /\ f.table = "outbox"
  BY DEF Sweeps
<1>2. PICK c : /\ retry' = [retry EXCEPT ![n] = c]
               /\ DOMAIN c = In(left, "outbox") \cup owed
               /\ \A f \in DOMAIN c : IF f \in left THEN c[f] = retry[n][f]
                                      ELSE Fresh(c[f], f)
  BY DEF Sweeps
<1>3. /\ \A m \in Nodes : held'[m] = IF m = n THEN left \cup owed ELSE held[m]
      /\ \A m \in Nodes : seen'[m] = IF m = n THEN seen[n] \cup owed ELSE seen[m]
      /\ \A m \in Nodes : m # n => swept'[m] = swept[m]
  BY <1>1 DEF Sound, TypeOK
<1>4. Whole(held[n], heardAt[n], retry[n])
  BY WholeNodes DEF Sound
<1>5. In(left, "outbox") = left \cap DOMAIN retry[n]
  BY <1>1, <1>4 DEF Whole, In
<1>6. \A m \in Nodes : retry'[m] = IF m = n THEN c ELSE retry[m]
  BY <1>2 DEF Sound, Shaped
<1>7. /\ \A m \in Nodes : \A f \in DOMAIN retry[m] : m # n \/ f \in left => f \in DOMAIN retry'[m]
      /\ \A f \in owed : f \in DOMAIN retry'[n]
  BY <1>2, <1>5, <1>6
<1>8. ASSUME NEW m \in Nodes, NEW f \in DOMAIN retry'[m]
       PROVE  \/ f \in DOMAIN retry[m] /\ retry'[m][f] = retry[m][f]
              \/ f \notin held[m] /\ retry'[m][f].parkedAt = {}
              \/ f \in owed /\ retry'[m][f].parkedAt = {}
  <2>1. CASE m # n
    BY <1>6, <1>8, <2>1
  <2>2. CASE m = n /\ f \in left
    <3>1. f \in In(left, "outbox")
      BY <1>1, <1>2, <1>6, <1>8, <2>2 DEF In
    <3> QED BY <1>2, <1>5, <1>6, <1>8, <2>2, <3>1
  <2>3. CASE m = n /\ f \notin left
    BY <1>2, <1>5, <1>6, <1>8, <2>3 DEF Fresh
  <2> QED BY <2>1, <2>2, <2>3
<1>9. ASSUME NEW m \in Nodes, NEW f \in Unheard(m)'
       PROVE  f \in Unheard(m) \/ f.at = now
  <2>1. PICK q \in Nodes : f \in held'[q] /\ f \notin seen'[m]
    BY <1>9 DEF Unheard
  <2>2. f \notin seen[m]
    BY <1>3, <2>1
  <2>3. CASE f \in held[q]
    BY <2>2, <2>3 DEF Unheard
  <2> QED BY <1>1, <1>3, <2>1, <2>3
<1> QED BY <1>1, <1>3, <1>7, <1>8, <1>9

LEMMA ReschedulesRows ==
    ASSUME Sound, NEW n \in Nodes, Reschedules(n)
    PROVE  /\ UNCHANGED <<now, held, heardAt, swept, seen, got, asked>> /\ abandoned \subseteq abandoned'
           /\ \A m \in Nodes : DOMAIN retry'[m] = DOMAIN retry[m]
           /\ \A m \in Nodes : \A f \in DOMAIN retry'[m] :
                 /\ retry'[m][f].parkedAt \in {retry[m][f].parkedAt, {now}}
                 /\ retry'[m][f].parkedAt # {} => retry[m][f].parkedAt # {} \/ f.urls \subseteq abandoned'
<1>1. PICK c : /\ retry' = [retry EXCEPT ![n] = c] /\ DOMAIN c = DOMAIN retry[n]
               /\ \A f \in DOMAIN c :
                     /\ c[f] \in Column /\ c[f].parkedAt \in {retry[n][f].parkedAt, {now}}
                     /\ c[f].parkedAt # {} => retry[n][f].parkedAt # {} \/ f.urls \subseteq abandoned'
                     /\ Moves(n, f, retry[n][f], c[f])
  BY DEF Reschedules
<1>2. \A m \in Nodes : retry'[m] = IF m = n THEN c ELSE retry[m]
  BY <1>1 DEF Sound, Shaped
<1> QED BY <1>1, <1>2 DEF Reschedules

-----------------------------------------------------------------------------
(* Time *)

\* A row is parked after it was written.
ParkedAfter == \A n \in Nodes : \A f \in DOMAIN retry[n] : \A t \in retry[n][f].parkedAt : f.at <= t
\* Nothing is pruned before its time: a debt a grace after it was written at the
\* earliest, and nothing at all in the first grace.
Kept ==
    \A n \in Nodes : \A f \in seen[n] : (f.table = "outbox" /\ ~Old(f.at)) \/ now < Grace => f \in held[n]
HeardInTime == \A n \in Nodes : \A f \in Unheard(n) : now - f.at <= MaxAway

Timely == ParkedAfter /\ Kept /\ HeardInTime

\* Accepting ends with the invoice.
Early == \A n \in Nodes : \A f \in seen[n] : f.table = "accepted" => f.at <= ExpiresAt
HeardSoon == \A n \in Nodes : \A p \in DOMAIN heardAt[n] : heardAt[n][p] <= p.at + MaxAway

\* Whoever asked is in somebody's accepted row.
AskedIsAccepted == \A u \in asked : \E n \in Nodes : \E f \in seen[n] : f.table = "accepted" /\ u \in f.urls

\* A row once known is still owed, or its receiver has it, or its retries ran out.
Accounted ==
    \A n \in Nodes : \A f \in seen[n] :
        /\ f.table = "delivered" => f.urls \subseteq got
        /\ f.table = "outbox" => \/ f \in DOMAIN retry[n] /\ retry[n][f].parkedAt = {}
                                 \/ f.urls \subseteq got \cup abandoned

SeenPast == \A n \in Nodes : \A f \in seen[n] : f.at <= now

\* What is accepted or paid is known where it was written, kept there for as long
\* as a fact travels, and known everywhere after that.
Spreads(f) == f.table \in {"accepted", "paid"}
OriginKnows == \A m \in Nodes : \A f \in seen[m] : f \in seen[f.origin]
YoungAtOrigin == \A m \in Nodes : \A f \in seen[m] : Spreads(f) /\ now <= f.at + MaxAway => f \in held[f.origin]
KnownSoon == \A m, n \in Nodes : \A f \in seen[m] : Spreads(f) /\ f.at + MaxAway < now => f \in seen[n]

\* An instance takes on nothing once it holds a settlement.
OwnComeFirst ==
    \A n \in Nodes : \A f \in In(held[n], "accepted") : f.origin = n =>
        \A p \in DOMAIN heardAt[n] : f.at <= heardAt[n][p]

\* Some row names the webhook.
Owed(u) == \E n \in Nodes : \E f \in seen[n] : Names(f, u)

\* A sweep has run since the slack of settlement p was over.
SlackOver(n, p) == heardAt[n][p] + Slack < now \/ (swept[n] /\ heardAt[n][p] + Slack <= now)
SweptOwes ==
    \A n \in Nodes : \A f \in In(held[n], "accepted") : f.origin = n =>
        \A p \in DOMAIN heardAt[n] : SlackOver(n, p) => \A u \in f.urls : Owed(u)

\* While it has heard of no settlement, an instance forgets what was accepted only
\* when all of it has expired.
Unforgotten ==
    \A n \in Nodes : ~Settled(seen[n]) /\ (now < ExpiresAt + Grace \/ In(held[n], "accepted") # {}) =>
        In(seen[n], "accepted") \subseteq held[n]

\* A payment first settled late is settled by somebody who knows all its webhooks.
Paid == In(UNION {seen[n] : n \in Nodes}, "paid")
LateSettlerKnows ==
    Paid # {} => (\E p \in Paid : p.at <= ExpiresAt + MaxAway) \/ \A u \in asked : Owed(u)

\* Whoever took the webhook on still can owe it, or somebody did, or nobody settled.
Witness(n, u) ==
    /\ \E f \in In(held[n], "accepted") : f.origin = n /\ u \in f.urls
    /\ In(seen[n], "paid") \subseteq held[n]
Witnessed ==
    \A u \in asked : \/ \E n \in Nodes : Witness(n, u)
                     \/ Owed(u)
                     \/ ExpiresAt + Grace <= now /\ Paid = {}

Hooked ==
    /\ Early /\ HeardSoon /\ AskedIsAccepted /\ Accounted
    /\ SeenPast /\ OriginKnows /\ YoungAtOrigin /\ KnownSoon /\ OwnComeFirst
    /\ SweptOwes /\ Unforgotten /\ LateSettlerKnows /\ Witnessed

\* No sweep takes a young debt, nor anything in the first grace.
LEMMA YoungStays ==
    ASSUME Sound, ParkedAfter, NEW n \in Nodes, NEW left, left = Pruned(held[n], retry[n]),
           NEW f \in held[n], (f.table = "outbox" /\ ~Old(f.at)) \/ now < Grace
    PROVE  f \in left
<1>1. now \in Nat /\ Grace \in Nat /\ ExpiresAt \in Nat /\ Whole(held[n], heardAt[n], retry[n])
  BY WholeNodes, TimesAssumption DEF Sound, TypeOK
<1>2. \A g \in held[n] : g.at \in Nat
  BY <1>1, Shapes DEF Whole
<1> SUFFICES ASSUME f \in held[n] \ left PROVE FALSE
  OBVIOUS
<1>3. \/ f.table = "accepted" /\ (Old(ExpiresAt) \/ \E p \in held[n] : p.table = "paid" /\ Old(p.at))
      \/ f.table = "outbox" /\ \E t \in retry[n][f].parkedAt : Old(t)
      \/ f.table = "outbox" /\ Old(f.at) /\ Told(held[n], f.urls)
      \/ f.table \in {"paid", "delivered"} /\ Old(f.at)
  BY PrunedRows
<1>4. \A t \in Nat : Old(t) => Grace <= now
  BY <1>1 DEF Old
<1>5. ASSUME f.table = "outbox", NEW t \in retry[n][f].parkedAt, Old(t)
      PROVE  Old(f.at)
  <2>1. f \in DOMAIN retry[n]
    BY <1>1, <1>5 DEF Whole, In
  <2>2. t \in Nat /\ f.at <= t
    BY <1>1, <1>5, <2>1, Shapes DEF Whole, ParkedAfter
  <2> QED BY <1>1, <1>2, <1>5, <2>2 DEF Old
<1>6. Grace <= now
  BY <1>1, <1>2, <1>3, <1>4, <1>5
<1> QED BY <1>1, <1>3, <1>5, <1>6

LEMMA TimelyWrites ==
    ASSUME Sound, Timely, NEW n \in Nodes, NEW new, Gains(n, new)
    PROVE  Timely'
<1>0. /\ \A m \in Nodes : held'[m] = IF m = n THEN held[n] \cup new ELSE held[m]
      /\ \A m \in Nodes : seen'[m] = IF m = n THEN seen[n] \cup new ELSE seen[m]
  BY DEF Gains, Sound, TypeOK
<1>1. now' = now
  BY GainsRows
<1>2. ParkedAfter'
  <2>1. ASSUME NEW m \in Nodes, NEW f \in DOMAIN retry'[m], NEW t \in retry'[m][f].parkedAt
        PROVE  f.at <= t
    <3>1. f \in DOMAIN retry[m] /\ retry'[m][f] = retry[m][f]
      BY <2>1, GainsRows
    <3> QED BY <2>1, <3>1 DEF Timely, ParkedAfter
  <2> QED BY <2>1 DEF ParkedAfter
<1>3. Kept'
  <2>1. ASSUME NEW m \in Nodes, NEW f \in seen'[m], (f.table = "outbox" /\ ~Old(f.at)) \/ now < Grace
        PROVE  f \in held'[m]
    <3>1. f \in seen[m] => f \in held[m]
      BY <2>1 DEF Timely, Kept
    <3> QED BY <1>0, <2>1, <3>1
  <2> QED BY <1>1, <2>1 DEF Kept, Old
<1>4. HeardInTime'
  <2>1. ASSUME NEW m \in Nodes, NEW f \in Unheard(m)'
        PROVE  now - f.at <= MaxAway
    <3>1. f \in Unheard(m) \/ f.at = now
      BY <2>1, GainsRows
    <3>2. now \in Nat /\ MaxAway \in Nat
      BY TimesAssumption DEF Sound, TypeOK
    <3> QED BY <3>1, <3>2 DEF Timely, HeardInTime
  <2> QED BY <1>1, <2>1 DEF HeardInTime
<1> QED BY <1>2, <1>3, <1>4 DEF Timely

LEMMA TimelySweeps ==
    ASSUME Sound, Timely, NEW n \in Nodes, NEW left, NEW owed, Sweeps(n, left, owed)
    PROVE  Timely'
<1>0. /\ \A m \in Nodes : held'[m] = IF m = n THEN left \cup owed ELSE held[m]
      /\ \A m \in Nodes : seen'[m] = IF m = n THEN seen[n] \cup owed ELSE seen[m]
  BY DEF Sweeps, Sound, TypeOK
<1>1. now' = now
  BY SweepsRows
<1>2. ParkedAfter'
  <2>1. ASSUME NEW m \in Nodes, NEW f \in DOMAIN retry'[m], NEW t \in retry'[m][f].parkedAt
        PROVE  f.at <= t
    <3>1. f \in DOMAIN retry[m] /\ retry'[m][f] = retry[m][f]
      BY <2>1, SweepsRows
    <3> QED BY <2>1, <3>1 DEF Timely, ParkedAfter
  <2> QED BY <2>1 DEF ParkedAfter
<1>3. Kept'
  <2>1. ASSUME NEW m \in Nodes, NEW f \in seen'[m], (f.table = "outbox" /\ ~Old(f.at)) \/ now < Grace
        PROVE  f \in held'[m]
    <3>1. f \in seen[m] => f \in held[m]
      BY <2>1 DEF Timely, Kept
    <3>2. m = n /\ f \in held[n] => f \in left
      BY <2>1, YoungStays DEF Timely, Sweeps
    <3> QED BY <1>0, <2>1, <3>1, <3>2
  <2> QED BY <1>1, <2>1 DEF Kept, Old
<1>4. HeardInTime'
  <2>1. ASSUME NEW m \in Nodes, NEW f \in Unheard(m)'
        PROVE  now - f.at <= MaxAway
    <3>1. f \in Unheard(m) \/ f.at = now
      BY <2>1, SweepsRows
    <3>2. now \in Nat /\ MaxAway \in Nat
      BY TimesAssumption DEF Sound, TypeOK
    <3> QED BY <3>1, <3>2 DEF Timely, HeardInTime
  <2> QED BY <1>1, <2>1 DEF HeardInTime
<1> QED BY <1>2, <1>3, <1>4 DEF Timely

LEMMA TimelyReschedules ==
    ASSUME Sound, Timely, NEW n \in Nodes, Reschedules(n)
    PROVE  Timely'
<1>1. UNCHANGED <<now, held, seen>>
  BY ReschedulesRows
<1>2. ParkedAfter'
  <2>1. ASSUME NEW m \in Nodes, NEW f \in DOMAIN retry'[m], NEW t \in retry'[m][f].parkedAt
        PROVE  f.at <= t
    <3>1. f \in DOMAIN retry[m] /\ retry'[m][f].parkedAt \in {retry[m][f].parkedAt, {now}}
      BY <2>1, ReschedulesRows
    <3>2. f \in held[m]
      BY <3>1 DEF Sound, TypeOK, In
    <3>3. f.at <= now
      BY <3>2 DEF Sound, Past
    <3> QED BY <2>1, <3>1, <3>3 DEF Timely, ParkedAfter
  <2> QED BY <2>1 DEF ParkedAfter
<1>3. Kept' /\ HeardInTime'
  BY <1>1 DEF Timely, Kept, HeardInTime, Old, Unheard
<1> QED BY <1>2, <1>3 DEF Timely

LEMMA TimelyTick ==
    ASSUME Sound, Timely, Tick
    PROVE  Timely'
<1>1. /\ now' = now + 1 /\ now \in Nat /\ UNCHANGED <<held, heardAt, retry, seen>>
      /\ \A n \in Nodes : \A f \in Unheard(n) : now - f.at < MaxAway
  BY TickSound DEF Tick
<1>2. MaxAway \in Nat /\ Grace \in Nat
  BY TimesAssumption
<1>3. \A n \in Nodes : \A f \in seen[n] : f.at \in Nat
  BY Shapes, WholeNodes DEF Sound
<1>4. ParkedAfter'
  BY <1>1 DEF Timely, ParkedAfter
<1>5. Kept'
  <2>1. ASSUME NEW n \in Nodes, NEW f \in seen[n], ~(f.at <= now + 1 - Grace)
        PROVE  ~Old(f.at)
    BY <1>1, <1>2, <1>3, <2>1 DEF Old
  <2> QED BY <1>1, <1>2, <2>1 DEF Timely, Kept, Old
<1>6. HeardInTime'
  <2> SUFFICES ASSUME NEW n \in Nodes, NEW f \in Unheard(n)' PROVE now' - f.at <= MaxAway
    BY DEF HeardInTime
  <2>1. f \in Unheard(n)
    BY <1>1 DEF Unheard
  <2>2. f.at \in Nat
    BY <2>1, UnheardOK, Shapes
  <2> QED BY <1>1, <1>2, <2>1, <2>2
<1> QED BY <1>4, <1>5, <1>6 DEF Timely

LEMMA TimelyInvariant == Spec => [](Sound /\ Timely)
<1>1. Init => Sound /\ Timely
  <2> SUFFICES ASSUME Init PROVE Sound /\ Timely
    OBVIOUS
  <2>1. \A n \in Nodes : held[n] = {} /\ seen[n] = {} /\ retry[n] = NoRows /\ DOMAIN NoRows = {}
    BY DEF Init, NoRows
  <2>2. \A n \in Nodes : Unheard(n) = {}
    BY <2>1 DEF Unheard
  <2> QED BY <2>1, <2>2, SoundInit DEF Timely, ParkedAfter, Kept, HeardInTime
<1>2. Sound /\ Timely /\ [Next]_vars => (Sound /\ Timely)'
  <2> SUFFICES ASSUME Sound, Timely, [Next]_vars PROVE Timely'
    BY SoundStep
  <2>1. CASE UNCHANGED vars
    BY <2>1 DEF vars, Timely, ParkedAfter, Kept, HeardInTime, Unheard, Old
  <2>2. ASSUME NEW n \in Nodes, NEW new, Writes(n, new) PROVE Timely'
    BY <2>2, TimelyWrites DEF Writes
  <2>3. ASSUME NEW n \in Nodes, Sweep(n) PROVE Timely'
    BY <2>3, SweepSweeps, TimelySweeps
  <2> QED BY <2>1, <2>2, <2>3, StepKinds, TimelyReschedules, TimelyTick
<1> QED BY <1>1, <1>2, PTL DEF Spec

-----------------------------------------------------------------------------
(* The sweep invents no debt *)

\* A fact reaches every peer before the sweep takes its absence for a fact.
SlackCovers == MaxAway < Slack

Invents(n) ==
    swept'[n] /\ ~swept[n] =>
        \A f \in In(held'[n] \ held[n], "outbox") : \A u \in f.urls :
            \E p \in DOMAIN heardAt[n] : heardAt[n][p] <= now - Slack /\ ~OwedBySettler(p, u)

LEMMA SettlersDebtIsKnown ==
    ASSUME SlackCovers, Sound, Timely, NEW n \in Nodes, NEW left, left = Pruned(held[n], retry[n]),
           NEW p \in In(left, "paid"), heardAt[n][p] <= now - Slack, ~Old(p.at),
           NEW u, OwedBySettler(p, u)
    PROVE  \E f \in left : f.table = "outbox" /\ u \in f.urls
<1>1. /\ now \in Nat /\ MaxAway \in Nat /\ Slack \in Nat /\ Grace \in Nat
      /\ Whole(held[n], heardAt[n], retry[n])
  BY WholeNodes, TimesAssumption DEF Sound, TypeOK
<1>2. p \in held[n] /\ p.table = "paid"
  BY PrunedRows DEF In
<1>3. p \in Fact /\ p.origin \in Nodes /\ p.at \in Nat
  BY <1>1, <1>2, Shapes DEF Whole
<1>4. heardAt[n][p] \in p.at..now
  BY <1>1, <1>2 DEF Whole, In
<1>5. p.at <= now - Slack
  BY <1>1, <1>3, <1>4
<1>6. PICK f \in seen[p.origin] : f.table = "outbox" /\ f.at = p.at /\ f.urls = {u}
  BY DEF OwedBySettler
<1>7. f \in held[p.origin]
  BY <1>3, <1>6 DEF Timely, Kept
<1>8. f \in seen[n]
  <2>1. f \in Unheard(n) => now - f.at <= MaxAway
    BY DEF Timely, HeardInTime
  <2>2. f \notin Unheard(n)
    BY <1>1, <1>3, <1>5, <1>6, <2>1 DEF SlackCovers
  <2> QED BY <1>3, <1>7, <2>2 DEF Unheard
<1>9. f \in held[n]
  BY <1>6, <1>8 DEF Timely, Kept
<1>10. f \in left
  BY <1>6, <1>9, YoungStays DEF Timely
<1> QED BY <1>6, <1>10

LEMMA OwedHasCause ==
    ASSUME SlackCovers, Sound, Timely, NEW n \in Nodes, NEW left, NEW owed, Sweeps(n, left, owed),
           NEW f \in In(held'[n] \ held[n], "outbox"), NEW u \in f.urls
    PROVE  \E p \in DOMAIN heardAt[n] : heardAt[n][p] <= now - Slack /\ ~OwedBySettler(p, u)
<1>1. left = Pruned(held[n], retry[n]) /\ left \subseteq held[n] /\ held'[n] = left \cup owed
  BY DEF Sweeps, Sound, TypeOK
<1>2. f \in owed
  BY <1>1 DEF In
<1>3. PICK m \in Missing(left, heardAt[n]) : m[1] = u
  <2>1. PICK m \in Missing(left, heardAt[n]) : f.urls = {m[1]}
    BY <1>2 DEF Sweeps
  <2> QED BY <2>1
<1>4. (\E p \in In(left, "paid") : heardAt[n][p] <= now - Slack) /\ u \in Unowed(left)
  BY <1>3 DEF Missing
<1>5. PICK p \in In(left, "paid") : heardAt[n][p] <= now - Slack
  BY <1>4
<1>6. In(left, "accepted") # {} /\ \A g \in left : g.table = "outbox" => u \notin g.urls
  BY <1>4 DEF Unowed, Webhooks, In
<1>7. ~Old(p.at)
  BY <1>1, <1>6, PrunedRows DEF In
<1>8. ~OwedBySettler(p, u)
  BY <1>1, <1>5, <1>6, <1>7, SettlersDebtIsKnown
<1>9. p \in DOMAIN heardAt[n]
  BY <1>1, WholeNodes DEF Sound, Whole, In
<1> QED BY <1>5, <1>8, <1>9

\* Wherever a fact travels faster than UNOWED_SLACK_SECS, a sweep owes a webhook
\* only on the strength of a settlement whose settler did not: a paid row that
\* overtook its outbox row, or an outbox row pruned before its payment was, is
\* never mistaken for a debt nobody recorded (ledger.ts sweep).
THEOREM TheSweepInventsNothing ==
    ASSUME SlackCovers
    PROVE  Spec => SweepInventsNoDebt
<1>1. Sound /\ Timely /\ [Next]_vars => [\A n \in Nodes : Invents(n)]_vars
  <2> SUFFICES ASSUME Sound, Timely, Next, NEW n \in Nodes PROVE Invents(n)
    BY DEF vars
  <2>1. ASSUME NEW m \in Nodes, NEW new, Writes(m, new) PROVE Invents(n)
    <3>1. swept' = swept
      BY <2>1 DEF Writes, Gains
    <3> QED BY <3>1 DEF Invents
  <2>2. ASSUME NEW m \in Nodes, Reschedules(m) PROVE Invents(n)
    <3>1. swept' = swept
      BY <2>2 DEF Reschedules
    <3> QED BY <3>1 DEF Invents
  <2>3. ASSUME Tick PROVE Invents(n)
    <3>1. swept'[n] = FALSE
      BY <2>3 DEF Tick
    <3> QED BY <3>1 DEF Invents
  <2>4. ASSUME NEW m \in Nodes, Sweep(m) PROVE Invents(n)
    <3>1. PICK left, owed : Sweeps(m, left, owed)
      BY <2>4, SweepSweeps
    <3>2. CASE m = n
      <4>1. \A f \in In(held'[n] \ held[n], "outbox") : \A u \in f.urls :
               \E p \in DOMAIN heardAt[n] : heardAt[n][p] <= now - Slack /\ ~OwedBySettler(p, u)
        BY <3>1, <3>2, OwedHasCause
      <4> QED BY <4>1 DEF Invents
    <3>3. CASE m # n
      <4>1. swept' = [swept EXCEPT ![m] = TRUE]
        BY <3>1 DEF Sweeps
      <4>2. swept'[n] = swept[n]
        BY <3>3, <4>1 DEF Sound, TypeOK
      <4> QED BY <4>2 DEF Invents
    <3> QED BY <3>2, <3>3
  <2> QED BY <2>1, <2>2, <2>3, <2>4, StepKinds
<1>2. [\A n \in Nodes : Invents(n)]_vars =>
      [\A n \in Nodes : swept'[n] /\ ~swept[n] =>
          \A f \in In(held'[n] \ held[n], "outbox") : \A u \in f.urls :
             \E p \in DOMAIN heardAt[n] :
                heardAt[n][p] <= now - Slack /\ ~OwedBySettler(p, u)]_vars
  BY DEF Invents
<1> QED BY <1>1, <1>2, TimelyInvariant, PTL DEF Spec, SweepInventsNoDebt

-----------------------------------------------------------------------------
(* No webhook is forgotten *)

\* A fact travels, there and back and with the slack, faster than the grace.
GraceCovers == 0 < Slack /\ 2 * MaxAway + Slack < Grace

LEMMA Numbers ==
    ASSUME Sound
    PROVE  /\ now \in Nat /\ MaxAway \in Nat /\ Slack \in Nat /\ Grace \in Nat /\ ExpiresAt \in Nat
           /\ \A n \in Nodes : \A f \in seen[n] : f.at \in Nat /\ f.origin \in Nodes
           /\ \A n \in Nodes : \A f \in held[n] : f.at \in Nat /\ f \in seen[n]
           /\ \A n \in Nodes : \A f \in DOMAIN heardAt[n] : heardAt[n][f] \in Nat /\ f \in held[n] /\ f.table = "paid"
           /\ \A n \in Nodes : \A f \in held[n] : f.table = "paid" => f \in DOMAIN heardAt[n]
           /\ \A n \in Nodes : \A f \in DOMAIN retry[n] : f \in held[n] /\ f.table = "outbox"
<1>1. now \in Nat /\ MaxAway \in Nat /\ Slack \in Nat /\ Grace \in Nat /\ ExpiresAt \in Nat
  BY TimesAssumption DEF Sound, TypeOK
<1>2. \A n \in Nodes : \A f \in seen[n] : f.at \in Nat /\ f.origin \in Nodes
  BY Shapes, WholeNodes DEF Sound
<1>3. \A n \in Nodes : held[n] \subseteq seen[n]
  BY DEF Sound, HeldIsSeen
<1>4. ASSUME NEW n \in Nodes, NEW f \in DOMAIN heardAt[n]
      PROVE  heardAt[n][f] \in Nat /\ f \in held[n] /\ f.table = "paid"
  <2>1. f \in held[n] /\ f.table = "paid" /\ heardAt[n][f] \in f.at..now
    BY <1>4 DEF Sound, TypeOK, In
  <2> QED BY <1>1, <1>2, <1>3, <2>1
<1>5. \A n \in Nodes : \A f \in DOMAIN retry[n] : f \in held[n] /\ f.table = "outbox"
  BY DEF Sound, TypeOK, In
<1>6. \A n \in Nodes : \A f \in held[n] : f.table = "paid" => f \in DOMAIN heardAt[n]
  BY DEF Sound, TypeOK, In
<1> QED BY <1>1, <1>2, <1>3, <1>4, <1>5, <1>6

\* What a writer knows that it did not: facts of this instant, or facts of a peer.
LEMMA NewFacts ==
    ASSUME Sound, Timely, NEW n \in Nodes, NEW new, Writes(n, new), NEW f \in new
    PROVE  /\ f.at \in Nat /\ f.at <= now
           /\ \/ /\ f.at = now /\ f.origin = n
                 /\ f.table = "accepted" => now <= ExpiresAt /\ ~Settled(held[n])
                 /\ f.table = "delivered" => f.urls \subseteq got'
                 /\ f.table = "paid" => In(held[n], "accepted") # {} /\ OwesAll(n, new)
              \/ f \notin seen[n] /\ now - f.at <= MaxAway /\ \E q \in Nodes : f \in held[q] /\ f \in seen[q]
<1>1. f \in Fact /\ f.at <= now /\ (f \in Unheard(n) \/ (f.at = now /\ f.origin = n))
  BY DEF Writes, Gains
<1>2. f.at \in Nat
  BY <1>1, Shapes
<1>3. CASE f \in Unheard(n)
  <2>1. now - f.at <= MaxAway
    BY <1>3 DEF Timely, HeardInTime
  <2>2. \E q \in Nodes : f \in held[q] /\ f \in seen[q]
    BY <1>3, UnheardOK
  <2>3. f \notin seen[n]
    BY <1>3 DEF Unheard
  <2> QED BY <1>1, <1>2, <2>1, <2>2, <2>3
<1>4. CASE f \notin Unheard(n)
  <2>1. /\ f.table = "accepted" => now <= ExpiresAt /\ ~Settled(held[n])
        /\ f.table = "delivered" => f.urls \subseteq got'
        /\ f.table = "paid" => In(held[n], "accepted") # {} /\ OwesAll(n, new)
    BY <1>4 DEF Writes
  <2> QED BY <1>1, <1>2, <1>4, <2>1
<1> QED BY <1>3, <1>4

LEMMA NewEarly ==
    ASSUME Sound, Timely, Early, NEW n \in Nodes, NEW new, Writes(n, new), NEW f \in new,
           f.table = "accepted"
    PROVE  f.at <= ExpiresAt
<1>1. CASE f.at = now /\ now <= ExpiresAt
  BY <1>1
<1>2. CASE \E q \in Nodes : f \in held[q] /\ f \in seen[q]
  BY <1>2 DEF Early
<1> QED BY <1>1, <1>2, NewFacts

LEMMA EarlyWrites ==
    ASSUME Sound, Timely, Early, NEW n \in Nodes, NEW new, Writes(n, new)
    PROVE  Early'
<1>1. \A m \in Nodes : seen'[m] = IF m = n THEN seen[n] \cup new ELSE seen[m]
  BY DEF Writes, Gains, Sound, TypeOK
<1>2. ASSUME NEW m \in Nodes, NEW f \in seen'[m], f.table = "accepted"
      PROVE  f.at <= ExpiresAt
  <2>1. f \in seen[m] \/ f \in new
    BY <1>1, <1>2
  <2>2. CASE f \in seen[m]
    BY <1>2, <2>2 DEF Early
  <2>3. CASE f \in new
    BY <1>2, <2>3, NewEarly
  <2> QED BY <2>1, <2>2, <2>3
<1> QED BY <1>2 DEF Early

\* Known facts stay known, and so what was owed once was owed.
LEMMA OwedStays ==
    ASSUME \A m \in Nodes : seen[m] \subseteq seen'[m], NEW u, Owed(u)
    PROVE  Owed(u)'
BY DEF Owed, Names

LEMMA WritesRows ==
    ASSUME Sound, NEW n \in Nodes, NEW new, Writes(n, new)
    PROVE  /\ \A m \in Nodes : held'[m] = IF m = n THEN held[n] \cup new ELSE held[m]
           /\ \A m \in Nodes : seen'[m] = IF m = n THEN seen[n] \cup new ELSE seen[m]
           /\ \A m \in Nodes : held[m] \subseteq held'[m] /\ seen[m] \subseteq seen'[m]
           /\ now' = now /\ swept' = swept
           /\ got \subseteq got' /\ abandoned' = abandoned /\ asked \subseteq asked'
           /\ Gains(n, new)
<1>1. Gains(n, new) /\ got \subseteq got' /\ abandoned' = abandoned /\ asked \subseteq asked'
  BY DEF Writes
<1>2. /\ \A m \in Nodes : held'[m] = IF m = n THEN held[n] \cup new ELSE held[m]
      /\ \A m \in Nodes : seen'[m] = IF m = n THEN seen[n] \cup new ELSE seen[m]
      /\ now' = now /\ swept' = swept
  BY <1>1 DEF Gains, Sound, TypeOK
<1> QED BY <1>1, <1>2

\* A fact of its own that an instance comes by is one it writes.
LEMMA OwnIsWritten ==
    ASSUME Sound, Timely, OriginKnows, NEW n \in Nodes, NEW new, Writes(n, new), NEW f \in new, f.origin = n
    PROVE  f.at = now /\ (f.table = "accepted" => now <= ExpiresAt /\ ~Settled(held[n]))
<1>1. CASE f \in seen[n]
  BY <1>1, NewFacts
<1>2. CASE f \notin seen[n]
  <2>1. ~ \E q \in Nodes : f \in seen[q]
    BY <1>2 DEF OriginKnows
  <2> QED BY <2>1, NewFacts
<1> QED BY <1>1, <1>2

LEMMA AccountedWrites ==
    ASSUME Sound, Timely, Accounted, AskedIsAccepted, HeardSoon, NEW n \in Nodes, NEW new, Writes(n, new)
    PROVE  Accounted' /\ AskedIsAccepted' /\ HeardSoon'
<1>1. /\ \A m \in Nodes : held'[m] = IF m = n THEN held[n] \cup new ELSE held[m]
      /\ \A m \in Nodes : seen'[m] = IF m = n THEN seen[n] \cup new ELSE seen[m]
      /\ \A m \in Nodes : held[m] \subseteq held'[m] /\ seen[m] \subseteq seen'[m]
      /\ got \subseteq got' /\ abandoned' = abandoned /\ asked \subseteq asked'
      /\ Gains(n, new)
  BY WritesRows
<1>2. now \in Nat /\ MaxAway \in Nat
  BY Numbers
<1>3. HeardSoon'
  <2>1. ASSUME NEW m \in Nodes, NEW p \in DOMAIN heardAt'[m]
        PROVE  heardAt'[m][p] <= p.at + MaxAway
    <3>1. CASE p \in DOMAIN heardAt[m] /\ heardAt'[m][p] = heardAt[m][p]
      BY <3>1 DEF HeardSoon
    <3>2. CASE p \in new /\ heardAt'[m][p] = now
      <4>1. p.at \in Nat /\ (p.at = now \/ now - p.at <= MaxAway)
        BY <3>2, NewFacts
      <4> QED BY <1>2, <3>2, <4>1
    <3>3. \/ p \in DOMAIN heardAt[m] /\ heardAt'[m][p] = heardAt[m][p]
          \/ m = n /\ p \in new /\ heardAt'[m][p] = now
      BY <1>1, <2>1, GainsHeard
    <3> QED BY <3>1, <3>2, <3>3
  <2> QED BY <2>1 DEF HeardSoon
<1>4. AskedIsAccepted'
  <2>1. ASSUME NEW u \in asked'
        PROVE  \E m \in Nodes : \E f \in seen'[m] : f.table = "accepted" /\ u \in f.urls
    <3>1. CASE u \in asked
      <4>1. PICK m \in Nodes : \E f \in seen[m] : f.table = "accepted" /\ u \in f.urls
        BY <3>1 DEF AskedIsAccepted
      <4> QED BY <1>1, <4>1
    <3>2. CASE u \notin asked
      <4>1. \E f \in new : f.table = "accepted" /\ u \in f.urls
        BY <2>1, <3>2 DEF Writes
      <4>2. new \subseteq seen'[n]
        BY <1>1
      <4> QED BY <4>1, <4>2
    <3> QED BY <3>1, <3>2
  <2> QED BY <2>1 DEF AskedIsAccepted
<1>5. Accounted'
  <2>1. ASSUME NEW m \in Nodes, NEW f \in seen'[m], f.table = "delivered"
        PROVE  f.urls \subseteq got'
    <3>1. CASE f \in seen[m]
      BY <1>1, <2>1, <3>1 DEF Accounted
    <3>2. CASE f \in new
      <4>1. CASE \E q \in Nodes : f \in seen[q]
        BY <1>1, <2>1, <4>1 DEF Accounted
      <4> QED BY <2>1, <3>2, <4>1, NewFacts
    <3> QED BY <1>1, <2>1, <3>1, <3>2
  <2>2. ASSUME NEW m \in Nodes, NEW f \in seen'[m], f.table = "outbox"
        PROVE  \/ f \in DOMAIN retry'[m] /\ retry'[m][f].parkedAt = {}
               \/ f.urls \subseteq got' \cup abandoned'
    <3>1. CASE f \in seen[m]
      <4>1. CASE f.urls \subseteq got \cup abandoned
        BY <1>1, <4>1
      <4>2. CASE f \in DOMAIN retry[m] /\ retry[m][f].parkedAt = {}
        <5>1. f \in DOMAIN retry'[m]
          BY <1>1, <4>2, GainsRows
        <5>2. retry'[m][f] = retry[m][f]
          BY <1>1, <4>2, <5>1, GainsRows
        <5> QED BY <4>2, <5>1, <5>2
      <4> QED BY <2>2, <3>1, <4>1, <4>2 DEF Accounted
    <3>2. CASE m = n /\ f \in new /\ f \notin seen[n]
      <4>1. f \in In(new, "outbox") /\ f \notin DOMAIN retry[n]
        BY <2>2, <3>2, Numbers DEF In
      <4>2. f \in DOMAIN retry'[n]
        BY <1>1, <4>1, GainsRows
      <4>3. retry'[n][f].parkedAt = {}
        BY <1>1, <4>1, <4>2, GainsRows
      <4> QED BY <3>2, <4>2, <4>3
    <3> QED BY <1>1, <2>2, <3>1, <3>2
  <2> QED BY <2>1, <2>2 DEF Accounted
<1> QED BY <1>3, <1>4, <1>5

LEMMA SpreadWrites ==
    ASSUME GraceCovers, Sound, Timely, Hooked, NEW n \in Nodes, NEW new, Writes(n, new)
    PROVE  SeenPast' /\ OriginKnows' /\ YoungAtOrigin' /\ KnownSoon' /\ OwnComeFirst'
<1>1. /\ \A m \in Nodes : held'[m] = IF m = n THEN held[n] \cup new ELSE held[m]
      /\ \A m \in Nodes : seen'[m] = IF m = n THEN seen[n] \cup new ELSE seen[m]
      /\ \A m \in Nodes : held[m] \subseteq held'[m] /\ seen[m] \subseteq seen'[m]
      /\ now' = now /\ Gains(n, new)
  BY WritesRows
<1>2. now \in Nat /\ MaxAway \in Nat
  BY Numbers
<1>3. ASSUME NEW m \in Nodes, NEW f \in seen'[m]
      PROVE  \/ \E q \in Nodes : f \in seen[q]
             \/ m = n /\ f \in new /\ f.at = now /\ f.origin = n
  BY <1>1, <1>3, NewFacts
<1>4. SeenPast'
  <2>1. ASSUME NEW m \in Nodes, NEW f \in seen'[m] PROVE f.at <= now
    <3>1. CASE \E q \in Nodes : f \in seen[q]
      BY <3>1 DEF Hooked, SeenPast
    <3>2. CASE f.at = now
      BY <1>2, <3>2
    <3> QED BY <1>3, <2>1, <3>1, <3>2
  <2> QED BY <1>1, <2>1 DEF SeenPast
<1>5. OriginKnows'
  <2>1. ASSUME NEW m \in Nodes, NEW f \in seen'[m] PROVE f \in seen'[f.origin]
    <3>1. CASE \E q \in Nodes : f \in seen[q]
      BY <1>1, <3>1, Numbers DEF Hooked, OriginKnows
    <3>2. CASE m = n /\ f.origin = n
      BY <2>1, <3>2
    <3> QED BY <1>3, <2>1, <3>1, <3>2
  <2> QED BY <2>1 DEF OriginKnows
<1>6. YoungAtOrigin'
  <2>1. ASSUME NEW m \in Nodes, NEW f \in seen'[m], Spreads(f), now <= f.at + MaxAway PROVE f \in held'[f.origin]
    <3>1. CASE \E q \in Nodes : f \in seen[q]
      BY <1>1, <2>1, <3>1, Numbers DEF Hooked, YoungAtOrigin
    <3>2. CASE f \in new /\ f.origin = n
      BY <1>1, <3>2
    <3> QED BY <1>3, <2>1, <3>1, <3>2
  <2> QED BY <1>1, <2>1 DEF YoungAtOrigin, Spreads
<1>7. KnownSoon'
  <2>1. ASSUME NEW m \in Nodes, NEW k \in Nodes, NEW f \in seen'[m], Spreads(f), f.at + MaxAway < now
        PROVE  f \in seen'[k]
    <3>1. CASE \E q \in Nodes : f \in seen[q]
      BY <1>1, <2>1, <3>1 DEF Hooked, KnownSoon
    <3>2. CASE f.at = now
      BY <1>2, <2>1, <3>2
    <3> QED BY <1>3, <2>1, <3>1, <3>2
  <2> QED BY <1>1, <2>1 DEF KnownSoon, Spreads
<1>8. OwnComeFirst'
  <2>1. ASSUME NEW m \in Nodes, NEW f \in In(held'[m], "accepted"), f.origin = m, NEW p \in DOMAIN heardAt'[m]
        PROVE  f.at <= heardAt'[m][p]
    <3>1. f \in held'[m] /\ f.table = "accepted" /\ f \in seen'[m]
      BY <1>1, <2>1, Numbers DEF In
    <3>2. CASE p \in DOMAIN heardAt[m] /\ heardAt'[m][p] = heardAt[m][p]
      <4>1. CASE f \in held[m]
        BY <2>1, <3>1, <3>2, <4>1 DEF Hooked, OwnComeFirst, In
      <4>2. CASE m = n /\ f \in new
        <5>1. ~Settled(held[n])
          BY <2>1, <3>1, <4>2, OwnIsWritten DEF Hooked
        <5>2. p \in held[n] /\ p.table = "paid"
          BY <3>2, <4>2, Numbers
        <5> QED BY <5>1, <5>2 DEF Settled, In
      <4> QED BY <1>1, <2>1, <3>1, <4>1, <4>2
    <3>3. CASE heardAt'[m][p] = now
      BY <1>1, <1>4, <2>1, <3>1, <3>3 DEF SeenPast
    <3> QED BY <1>1, <2>1, <3>2, <3>3, GainsHeard
  <2> QED BY <2>1 DEF OwnComeFirst
<1> QED BY <1>4, <1>5, <1>6, <1>7, <1>8

LEMMA SweptOwesWrites ==
    ASSUME GraceCovers, Sound, Timely, Hooked, NEW n \in Nodes, NEW new, Writes(n, new)
    PROVE  SweptOwes' /\ Unforgotten'
<1>1. /\ \A m \in Nodes : held'[m] = IF m = n THEN held[n] \cup new ELSE held[m]
      /\ \A m \in Nodes : seen'[m] = IF m = n THEN seen[n] \cup new ELSE seen[m]
      /\ \A m \in Nodes : held[m] \subseteq held'[m] /\ seen[m] \subseteq seen'[m]
      /\ now' = now /\ swept' = swept /\ Gains(n, new)
  BY WritesRows
<1>2. /\ now \in Nat /\ MaxAway \in Nat /\ Slack \in Nat /\ 0 < Slack /\ Grace \in Nat /\ ExpiresAt \in Nat
      /\ MaxAway < Grace
  BY Numbers DEF GraceCovers
<1>3. SweptOwes'
  <2>1. ASSUME NEW m \in Nodes, NEW f \in In(held'[m], "accepted"), f.origin = m, NEW p \in DOMAIN heardAt'[m],
               SlackOver(m, p)', NEW u \in f.urls
        PROVE  Owed(u)'
    <3>1. f \in held'[m] /\ f.table = "accepted"
      BY <2>1 DEF In
    <3>2. CASE p \in DOMAIN heardAt[m] /\ heardAt'[m][p] = heardAt[m][p]
      <4>1. CASE f \in held[m]
        <5>1. SlackOver(m, p)
          BY <1>1, <2>1, <3>2 DEF SlackOver
        <5>2. Owed(u)
          BY <2>1, <3>1, <3>2, <4>1, <5>1 DEF Hooked, SweptOwes, In
        <5> QED BY <1>1, <5>2, OwedStays
      <4>2. CASE m = n /\ f \in new
        <5>1. ~Settled(held[n])
          BY <2>1, <3>1, <4>2, OwnIsWritten DEF Hooked
        <5>2. p \in held[n] /\ p.table = "paid"
          BY <3>2, <4>2, Numbers
        <5> QED BY <5>1, <5>2 DEF Settled, In
      <4> QED BY <1>1, <2>1, <3>1, <4>1, <4>2
    <3>3. CASE heardAt'[m][p] = now
      BY <1>1, <1>2, <2>1, <3>3 DEF SlackOver
    <3> QED BY <1>1, <2>1, <3>2, <3>3, GainsHeard
  <2> QED BY <2>1 DEF SweptOwes
<1>4. Unforgotten'
  <2>1. ASSUME NEW m \in Nodes, ~Settled(seen'[m]), now < ExpiresAt + Grace \/ In(held'[m], "accepted") # {},
               NEW f \in In(seen'[m], "accepted")
        PROVE  f \in held'[m]
    <3>1. f \in seen'[m] /\ f.table = "accepted" /\ ~Settled(seen[m])
      BY <1>1, <2>1 DEF In, Settled
    <3>2. CASE now < ExpiresAt + Grace \/ In(held[m], "accepted") # {}
      <4>1. f \in seen[m] => f \in held[m]
        BY <2>1, <3>1, <3>2 DEF Hooked, Unforgotten, In
      <4> QED BY <1>1, <3>1, <4>1
    <3>3. CASE ~(now < ExpiresAt + Grace) /\ In(held[m], "accepted") = {}
      <4>1. PICK g \in held'[m] : g.table = "accepted" /\ g \notin held[m]
        BY <2>1, <3>3 DEF In
      <4>2. g \in new
        BY <1>1, <4>1
      <4>3. g.at \in Nat /\ g.at <= ExpiresAt /\ (now <= ExpiresAt \/ now - g.at <= MaxAway)
        BY <4>1, <4>2, NewFacts, NewEarly DEF Hooked
      <4> QED BY <1>2, <3>3, <4>3
    <3> QED BY <3>2, <3>3
  <2> QED BY <1>1, <2>1 DEF Unforgotten
<1> QED BY <1>3, <1>4

LEMMA WitnessedWrites ==
    ASSUME GraceCovers, Sound, Timely, Hooked, NEW n \in Nodes, NEW new, Writes(n, new)
    PROVE  LateSettlerKnows' /\ Witnessed'
<1>1. /\ \A m \in Nodes : held'[m] = IF m = n THEN held[n] \cup new ELSE held[m]
      /\ \A m \in Nodes : seen'[m] = IF m = n THEN seen[n] \cup new ELSE seen[m]
      /\ \A m \in Nodes : held[m] \subseteq held'[m] /\ seen[m] \subseteq seen'[m]
      /\ now' = now /\ asked \subseteq asked'
  BY WritesRows
<1>2. /\ now \in Nat /\ MaxAway \in Nat /\ Grace \in Nat /\ ExpiresAt \in Nat /\ MaxAway < Grace
  BY Numbers DEF GraceCovers
<1>3. Paid \subseteq Paid'
  BY <1>1 DEF Paid, In
<1>4. ASSUME NEW p \in Paid', p \notin Paid
      PROVE  p \in new /\ p.table = "paid" /\ p.at = now /\ In(held[n], "accepted") # {} /\ OwesAll(n, new)
  <2>1. p.table = "paid" /\ p \in new /\ ~ \E q \in Nodes : p \in seen[q]
    BY <1>1, <1>4 DEF Paid, In
  <2> QED BY <2>1, NewFacts
<1>5. \A p \in Paid' : p.at <= now /\ p.at \in Nat
  <2>1. SeenPast'
    BY SpreadWrites
  <2>2. Sound'
    BY WritesSound
  <2>3. \A m \in Nodes : \A f \in seen'[m] : f.at \in Nat
    BY <2>2, WholeNodes, Shapes DEF Sound, TypeOK
  <2> QED BY <1>1, <2>1, <2>3 DEF Paid, In, SeenPast
<1>6. ASSUME Paid = {}, NEW p \in Paid', ~(now <= ExpiresAt + MaxAway), NEW u \in asked
      PROVE  Owed(u)'
  <2>1. In(held[n], "accepted") # {} /\ OwesAll(n, new)
    BY <1>4, <1>6
  <2>2. ~Settled(seen[n])
    BY <1>6 DEF Paid, Settled, In
  <2>3. PICK m, f : m \in Nodes /\ f \in seen[m] /\ f.table = "accepted" /\ u \in f.urls
    BY <1>6 DEF Hooked, AskedIsAccepted
  <2>4. f.at \in Nat /\ f.at <= ExpiresAt
    BY <2>3, Numbers DEF Hooked, Early
  <2>5. f \in seen[n]
    BY <1>2, <1>6, <2>3, <2>4 DEF Hooked, KnownSoon, Spreads
  <2>6. f \in held[n]
    BY <2>1, <2>2, <2>3, <2>5 DEF Hooked, Unforgotten, In
  <2>7. u \in Webhooks(held[n])
    BY <2>3, <2>6 DEF Webhooks, In
  <2>8. PICK g \in new : Names(g, u)
    BY <2>1, <2>7 DEF OwesAll
  <2> QED BY <1>1, <2>8 DEF Owed, Names
<1>7. asked' = asked \/ now <= ExpiresAt
  <2>1. asked' = asked \/ now < ExpiresAt
    BY DEF Writes
  <2> QED BY <1>2, <2>1
<1>8. LateSettlerKnows'
  <2>1. ASSUME Paid' # {}, ~ \E p \in Paid' : p.at <= ExpiresAt + MaxAway, NEW u \in asked'
        PROVE  Owed(u)'
    <3>1. PICK p \in Paid' : ~(p.at <= ExpiresAt + MaxAway) /\ p.at <= now /\ p.at \in Nat
      BY <1>5, <2>1
    <3>2. ~(now <= ExpiresAt + MaxAway) /\ ~(now <= ExpiresAt)
      BY <1>2, <3>1
    <3>3. u \in asked
      BY <1>7, <2>1, <3>2
    <3>4. CASE Paid = {}
      BY <1>6, <3>1, <3>2, <3>3, <3>4
    <3>5. CASE Paid # {}
      <4>1. Owed(u)
        BY <1>3, <2>1, <3>3, <3>5 DEF Hooked, LateSettlerKnows
      <4> QED BY <1>1, <4>1, OwedStays
    <3> QED BY <3>4, <3>5
  <2> QED BY <2>1 DEF LateSettlerKnows
<1>9. Witnessed'
  <2>1. ASSUME NEW u \in asked'
        PROVE  \/ \E m \in Nodes : Witness(m, u)'
               \/ Owed(u)'
               \/ ExpiresAt + Grace <= now /\ Paid' = {}
    <3>1. CASE u \notin asked
      <4>1. PICK f \in new : f.table = "accepted" /\ f.origin = n /\ u \in f.urls
        BY <2>1, <3>1 DEF Writes
      <4>2. ~Settled(seen[n]) /\ \A g \in new : g.table # "paid"
        BY <2>1, <3>1 DEF Writes
      <4>3. In(seen'[n], "paid") = {}
        BY <1>1, <4>2 DEF Settled, In
      <4>4. f \in In(held'[n], "accepted")
        BY <1>1, <4>1 DEF In
      <4>5. Witness(n, u)'
        BY <4>1, <4>3, <4>4 DEF Witness
      <4> QED BY <4>5
    <3>2. ASSUME NEW b \in Nodes, Witness(b, u)
          PROVE  Witness(b, u)'
      <4>1. PICK f \in In(held[b], "accepted") : f.origin = b /\ u \in f.urls
        BY <3>2 DEF Witness
      <4>2. f \in In(held'[b], "accepted")
        BY <1>1, <4>1 DEF In
      <4>3. In(seen'[b], "paid") \subseteq held'[b]
        BY <1>1, <3>2 DEF Witness, In
      <4> QED BY <4>1, <4>2, <4>3 DEF Witness
    <3>3. CASE Owed(u)
      BY <1>1, <3>3, OwedStays
    <3>4. CASE u \in asked /\ ExpiresAt + Grace <= now /\ Paid = {}
      <4>1. ~(now <= ExpiresAt + MaxAway)
        BY <1>2, <3>4
      <4> QED BY <1>6, <3>4, <4>1
    <3> QED BY <2>1, <3>1, <3>2, <3>3, <3>4 DEF Hooked, Witnessed
  <2> QED BY <1>1, <2>1 DEF Witnessed
<1> QED BY <1>8, <1>9

LEMMA HookedWrites ==
    ASSUME GraceCovers, Sound, Timely, Hooked, NEW n \in Nodes, NEW new, Writes(n, new)
    PROVE  Hooked'
<1>1. Early' /\ Accounted' /\ AskedIsAccepted' /\ HeardSoon'
  BY EarlyWrites, AccountedWrites DEF Hooked
<1> QED BY <1>1, SpreadWrites, SweptOwesWrites, WitnessedWrites DEF Hooked

LEMMA HookedReschedules ==
    ASSUME Sound, Hooked, NEW n \in Nodes, Reschedules(n)
    PROVE  Hooked'
<1>1. UNCHANGED <<now, held, heardAt, swept, seen, got, asked>> /\ abandoned \subseteq abandoned'
  BY ReschedulesRows
<1>2. Early' /\ HeardSoon' /\ AskedIsAccepted' /\ SeenPast' /\ OriginKnows' /\ YoungAtOrigin' /\ KnownSoon' /\ OwnComeFirst'
  BY <1>1 DEF Hooked, Early, HeardSoon, AskedIsAccepted, SeenPast, OriginKnows, YoungAtOrigin, KnownSoon,
              OwnComeFirst, Spreads
<1>3. SweptOwes' /\ Unforgotten' /\ LateSettlerKnows' /\ Witnessed'
  BY <1>1 DEF Hooked, SweptOwes, SlackOver, Unforgotten, LateSettlerKnows, Paid, Witnessed, Witness, Owed
<1>4. Accounted'
  <2>1. ASSUME NEW m \in Nodes, NEW f \in seen[m], f.table = "delivered"
        PROVE  f.urls \subseteq got'
    BY <1>1, <2>1 DEF Hooked, Accounted
  <2>2. ASSUME NEW m \in Nodes, NEW f \in seen[m], f.table = "outbox"
        PROVE  \/ f \in DOMAIN retry'[m] /\ retry'[m][f].parkedAt = {}
               \/ f.urls \subseteq got' \cup abandoned'
    <3>1. CASE f.urls \subseteq got \cup abandoned
      BY <1>1, <3>1
    <3>2. CASE f \in DOMAIN retry[m] /\ retry[m][f].parkedAt = {}
      <4>1. f \in DOMAIN retry'[m]
        BY <3>2, ReschedulesRows
      <4>2. retry'[m][f].parkedAt # {} => f.urls \subseteq abandoned'
        BY <3>2, <4>1, ReschedulesRows
      <4> QED BY <4>1, <4>2
    <3> QED BY <2>2, <3>1, <3>2 DEF Hooked, Accounted
  <2> QED BY <1>1, <2>1, <2>2 DEF Accounted
<1> QED BY <1>2, <1>3, <1>4 DEF Hooked

\* A debt the sweep takes is settled or given up.
LEMMA TakenIsAccounted ==
    ASSUME Sound, Accounted, NEW n \in Nodes, NEW left, left = Pruned(held[n], retry[n]),
           NEW f \in held[n] \ left, f.table = "outbox", retry[n][f].parkedAt = {}
    PROVE  f.urls \subseteq got
<1>1. Told(held[n], f.urls)
  BY PrunedRows
<1>2. PICK g \in held[n] : g.table = "delivered" /\ g.urls = f.urls
  BY <1>1 DEF Told, In
<1>3. g \in seen[n]
  BY <1>2 DEF Sound, HeldIsSeen
<1> QED BY <1>2, <1>3 DEF Accounted

\* What an old settlement named has been owed.
LEMMA OldIsOwed ==
    ASSUME GraceCovers, Sound, Hooked, NEW n \in Nodes, NEW p \in held[n], p.table = "paid",
           p.at + MaxAway + Slack < now,
           NEW f \in In(held[n], "accepted"), f.origin = n, NEW u \in f.urls
    PROVE  Owed(u)
<1>1. p \in DOMAIN heardAt[n] /\ heardAt[n][p] \in Nat /\ p.at \in Nat /\ now \in Nat /\ Slack \in Nat /\ MaxAway \in Nat
  BY Numbers
<1>2. heardAt[n][p] <= p.at + MaxAway
  BY <1>1 DEF Hooked, HeardSoon
<1>3. SlackOver(n, p)
  BY <1>1, <1>2 DEF SlackOver
<1> QED BY <1>1, <1>3 DEF Hooked, SweptOwes

(* What a sweep leaves of the four logs. *)
SweepKnowledge(n, left, owed) ==
    /\ left = Pruned(held[n], retry[n]) /\ left \subseteq held[n]
    /\ \A f \in owed : f.table = "outbox" /\ f.at = now /\ f.origin = n
    /\ \A m \in Nodes : held'[m] = IF m = n THEN left \cup owed ELSE held[m]
    /\ \A m \in Nodes : seen'[m] = IF m = n THEN seen[n] \cup owed ELSE seen[m]
    /\ \A m \in Nodes : seen[m] \subseteq seen'[m]
    /\ \A m \in Nodes : m # n => swept'[m] = swept[m]
    /\ UNCHANGED <<now, got, abandoned, asked>>
    /\ \A m \in Nodes : \A f \in seen'[m] : f.table # "outbox" => f \in seen[m]
    /\ \A m \in Nodes : \A f \in held'[m] : f.table # "outbox" => f \in held[m] /\ (m = n => f \in left)
    /\ \A u : Owed(u) => Owed(u)'

LEMMA SweepsKnow ==
    ASSUME Sound, NEW n \in Nodes, NEW left, NEW owed, Sweeps(n, left, owed)
    PROVE  SweepKnowledge(n, left, owed)
<1>1. /\ left = Pruned(held[n], retry[n]) /\ left \subseteq held[n]
      /\ \A f \in owed : f.table = "outbox" /\ f.at = now /\ f.origin = n
      /\ UNCHANGED <<now, got, abandoned, asked>>
  BY DEF Sweeps
<1>2. /\ \A m \in Nodes : held'[m] = IF m = n THEN left \cup owed ELSE held[m]
      /\ \A m \in Nodes : seen'[m] = IF m = n THEN seen[n] \cup owed ELSE seen[m]
      /\ \A m \in Nodes : m # n => swept'[m] = swept[m]
  BY DEF Sweeps, Sound, TypeOK
<1>3. \A m \in Nodes : seen[m] \subseteq seen'[m]
  BY <1>2
<1>4. /\ \A m \in Nodes : \A f \in seen'[m] : f.table # "outbox" => f \in seen[m]
      /\ \A m \in Nodes : \A f \in held'[m] : f.table # "outbox" => f \in held[m] /\ (m = n => f \in left)
  BY <1>1, <1>2
<1>5. \A u : Owed(u) => Owed(u)'
  BY <1>3, OwedStays
<1> QED BY <1>1, <1>2, <1>3, <1>4, <1>5 DEF SweepKnowledge

\* What a sweep takes of what an instance accepted itself is old.
LEMMA TakenIsOld ==
    ASSUME GraceCovers, Sound, Hooked, NEW n \in Nodes, NEW left, left = Pruned(held[n], retry[n]),
           NEW f \in held[n] \ left, Spreads(f), f.origin = n
    PROVE  f.at + MaxAway < now
<1>1. /\ now \in Nat /\ MaxAway \in Nat /\ Slack \in Nat /\ Grace \in Nat /\ ExpiresAt \in Nat /\ f.at \in Nat
      /\ 2 * MaxAway + Slack < Grace
  BY Numbers DEF GraceCovers
<1>2. \/ f.table = "accepted" /\ (Old(ExpiresAt) \/ \E p \in held[n] : p.table = "paid" /\ Old(p.at))
      \/ f.table \in {"paid", "delivered"} /\ Old(f.at)
  BY PrunedRows DEF Spreads
<1>3. CASE f.table = "accepted" /\ Old(ExpiresAt)
  <2>1. f.at <= ExpiresAt
    BY <1>3, Numbers DEF Hooked, Early
  <2> QED BY <1>1, <1>3, <2>1 DEF Old
<1>4. ASSUME f.table = "accepted", NEW p \in held[n], p.table = "paid", Old(p.at)
      PROVE  f.at + MaxAway < now
  <2>1. p \in DOMAIN heardAt[n] /\ heardAt[n][p] \in Nat /\ p.at \in Nat
    BY <1>4, Numbers
  <2>2. heardAt[n][p] <= p.at + MaxAway
    BY <2>1 DEF Hooked, HeardSoon
  <2>3. f.at <= heardAt[n][p]
    BY <1>4, <2>1 DEF Hooked, OwnComeFirst, In
  <2> QED BY <1>1, <1>4, <2>1, <2>2, <2>3 DEF Old
<1>5. CASE Old(f.at)
  BY <1>1, <1>5 DEF Old
<1> QED BY <1>2, <1>3, <1>4, <1>5

LEMMA SpreadSweeps ==
    ASSUME GraceCovers, Sound, Hooked, NEW n \in Nodes, NEW left, NEW owed, Sweeps(n, left, owed)
    PROVE  SeenPast' /\ OriginKnows' /\ YoungAtOrigin' /\ KnownSoon' /\ OwnComeFirst'
<1>0. SweepKnowledge(n, left, owed)
  BY SweepsKnow
<1>1. /\ left = Pruned(held[n], retry[n]) /\ left \subseteq held[n]
      /\ \A f \in owed : f.table = "outbox" /\ f.at = now /\ f.origin = n
      /\ \A m \in Nodes : held'[m] = IF m = n THEN left \cup owed ELSE held[m]
      /\ \A m \in Nodes : seen'[m] = IF m = n THEN seen[n] \cup owed ELSE seen[m]
      /\ \A m \in Nodes : seen[m] \subseteq seen'[m]
      /\ now' = now
      /\ \A m \in Nodes : \A f \in seen'[m] : f.table # "outbox" => f \in seen[m]
      /\ \A m \in Nodes : \A f \in held'[m] : f.table # "outbox" => f \in held[m]
  BY <1>0 DEF SweepKnowledge
<1>2. now \in Nat /\ MaxAway \in Nat
  BY Numbers
<1>3. SeenPast'
  BY <1>1, <1>2 DEF Hooked, SeenPast
<1>4. OriginKnows'
  <2>1. ASSUME NEW m \in Nodes, NEW f \in seen'[m] PROVE f \in seen'[f.origin]
    <3>1. CASE f \in seen[m]
      BY <1>1, <3>1, Numbers DEF Hooked, OriginKnows
    <3>2. CASE f \in owed
      BY <1>1, <3>2
    <3> QED BY <1>1, <2>1, <3>1, <3>2
  <2> QED BY <2>1 DEF OriginKnows
<1>5. YoungAtOrigin'
  <2>1. ASSUME NEW m \in Nodes, NEW f \in seen'[m], Spreads(f), now <= f.at + MaxAway PROVE f \in held'[f.origin]
    <3>1. f \in seen[m] /\ f.origin \in Nodes /\ f.at \in Nat
      BY <1>1, <2>1, Numbers DEF Spreads
    <3>2. f \in held[f.origin]
      BY <2>1, <3>1 DEF Hooked, YoungAtOrigin
    <3>3. f.origin = n => f \in left
      BY <1>1, <1>2, <2>1, <3>1, <3>2, TakenIsOld
    <3> QED BY <1>1, <3>1, <3>2, <3>3
  <2> QED BY <1>1, <2>1 DEF YoungAtOrigin, Spreads
<1>6. KnownSoon'
  <2>1. ASSUME NEW m \in Nodes, NEW k \in Nodes, NEW f \in seen'[m], Spreads(f), f.at + MaxAway < now
        PROVE  f \in seen'[k]
    <3>1. f \in seen[m]
      BY <1>1, <2>1 DEF Spreads
    <3> QED BY <1>1, <2>1, <3>1 DEF Hooked, KnownSoon
  <2> QED BY <1>1, <2>1 DEF KnownSoon, Spreads
<1>7. OwnComeFirst'
  <2>1. ASSUME NEW m \in Nodes, NEW f \in In(held'[m], "accepted"), f.origin = m, NEW p \in DOMAIN heardAt'[m]
        PROVE  f.at <= heardAt'[m][p]
    <3>1. f \in In(held[m], "accepted")
      BY <1>1, <2>1 DEF In
    <3>2. p \in DOMAIN heardAt[m] /\ heardAt'[m][p] = heardAt[m][p]
      BY <2>1, SweepsHeard
    <3> QED BY <2>1, <3>1, <3>2 DEF Hooked, OwnComeFirst
  <2> QED BY <2>1 DEF OwnComeFirst
<1> QED BY <1>3, <1>4, <1>5, <1>6, <1>7

LEMMA SweptOwesSweeps ==
    ASSUME GraceCovers, Sound, Hooked, NEW n \in Nodes, NEW left, NEW owed, Sweeps(n, left, owed)
    PROVE  SweptOwes' /\ Unforgotten'
<1>0. SweepKnowledge(n, left, owed)
  BY SweepsKnow
<1>1. /\ left = Pruned(held[n], retry[n]) /\ left \subseteq held[n]
      /\ \A f \in owed : f.table = "outbox"
      /\ \A m \in Nodes : held'[m] = IF m = n THEN left \cup owed ELSE held[m]
      /\ \A m \in Nodes : seen'[m] = IF m = n THEN seen[n] \cup owed ELSE seen[m]
      /\ \A m \in Nodes : seen[m] \subseteq seen'[m] /\ (m # n => swept'[m] = swept[m])
      /\ now' = now
      /\ \A m \in Nodes : \A f \in seen'[m] : f.table # "outbox" => f \in seen[m]
      /\ \A m \in Nodes : \A f \in held'[m] : f.table # "outbox" => f \in held[m] /\ (m = n => f \in left)
      /\ \A u : Owed(u) => Owed(u)'
  BY <1>0 DEF SweepKnowledge
<1>2. now \in Nat /\ Slack \in Nat /\ Grace \in Nat /\ ExpiresAt \in Nat
  BY Numbers
<1>3. SweptOwes'
  <2>1. ASSUME NEW m \in Nodes, NEW f \in In(held'[m], "accepted"), f.origin = m, NEW p \in DOMAIN heardAt'[m],
               SlackOver(m, p)', NEW u \in f.urls
        PROVE  Owed(u)'
    <3>1. f \in held'[m] /\ f \in held[m] /\ f.table = "accepted" /\ (m = n => f \in left)
      BY <1>1, <2>1 DEF In
    <3>2. p \in DOMAIN heardAt[m] /\ heardAt'[m][p] = heardAt[m][p]
      BY <2>1, SweepsHeard
    <3>3. CASE m # n
      <4>1. SlackOver(m, p)
        BY <1>1, <2>1, <3>2, <3>3 DEF SlackOver
      <4>2. Owed(u)
        BY <2>1, <3>1, <3>2, <4>1 DEF Hooked, SweptOwes, In
      <4> QED BY <1>1, <4>2
    <3>4. CASE m = n
      <4>1. u \in Webhooks(left)
        BY <2>1, <3>1, <3>4 DEF Webhooks, In
      <4>2. p \in In(left, "paid")
        <5>1. Sound'
          BY SweepsSound
        <5>2. p \in held'[m] /\ p.table = "paid"
          BY <2>1, <5>1 DEF Sound, TypeOK, In
        <5> QED BY <1>1, <3>4, <5>2 DEF In
      <4>3. heardAt[n][p] <= now - Slack
        <5>1. heardAt[n][p] \in Nat
          BY <3>2, <3>4, Numbers
        <5>2. heardAt[n][p] + Slack < now \/ heardAt[n][p] + Slack <= now
          BY <1>1, <2>1, <3>2, <3>4 DEF SlackOver
        <5> QED BY <1>2, <5>1, <5>2
      <4>4. CASE u \in Unowed(left)
        <5>1. <<u, p.at>> \in Missing(left, heardAt[n])
          BY <4>2, <4>3, <4>4 DEF Missing
        <5>2. PICK g \in owed : g.urls = {u}
          BY <5>1 DEF Sweeps
        <5> QED BY <1>1, <5>2 DEF Owed, Names
      <4>5. CASE u \notin Unowed(left)
        <5>1. PICK g \in left : g.table \in {"outbox", "delivered"} /\ u \in g.urls
          BY <4>1, <4>5 DEF Unowed, In
        <5>2. g \in seen[n]
          BY <1>1, <5>1, Numbers
        <5>3. Owed(u)
          BY <5>1, <5>2 DEF Owed, Names
        <5> QED BY <1>1, <5>3
      <4> QED BY <4>4, <4>5
    <3> QED BY <3>3, <3>4
  <2> QED BY <2>1 DEF SweptOwes
<1>4. Unforgotten'
  <2>1. ASSUME NEW m \in Nodes, ~Settled(seen'[m]), now < ExpiresAt + Grace \/ In(held'[m], "accepted") # {},
               NEW f \in In(seen'[m], "accepted")
        PROVE  f \in held'[m]
    <3>1. f \in seen[m] /\ f.table = "accepted" /\ ~Settled(seen[m])
      BY <1>1, <2>1 DEF In, Settled
    <3>2. now < ExpiresAt + Grace \/ In(held[m], "accepted") # {}
      BY <1>1, <2>1 DEF In
    <3>3. f \in held[m]
      BY <3>1, <3>2 DEF Hooked, Unforgotten, In
    <3>4. CASE m # n
      BY <1>1, <2>1, <3>3, <3>4
    <3>5. CASE m = n
      <4>1. ~ \E p \in held[n] : p.table = "paid"
        BY <3>1, <3>5, Numbers DEF Settled, In
      <4>2. Old(ExpiresAt) => In(left, "accepted") = {}
        BY <1>1, PrunedRows
      <4>3. ~Old(ExpiresAt)
        <5>1. Old(ExpiresAt) => ~(now < ExpiresAt + Grace)
          BY <1>2 DEF Old
        <5>2. In(held'[n], "accepted") # {} => In(left, "accepted") # {}
          BY <1>1 DEF In
        <5> QED BY <2>1, <3>5, <4>2, <5>1, <5>2
      <4>4. f \in left
        BY <1>1, <3>1, <3>3, <3>5, <4>1, <4>3, PrunedRows
      <4> QED BY <1>1, <3>5, <4>4
    <3> QED BY <3>4, <3>5
  <2> QED BY <1>1, <2>1 DEF Unforgotten
<1> QED BY <1>3, <1>4

LEMMA WitnessedSweeps ==
    ASSUME GraceCovers, Sound, Hooked, NEW n \in Nodes, NEW left, NEW owed, Sweeps(n, left, owed)
    PROVE  LateSettlerKnows' /\ Witnessed'
<1>0. SweepKnowledge(n, left, owed)
  BY SweepsKnow
<1>1. /\ left = Pruned(held[n], retry[n]) /\ left \subseteq held[n]
      /\ \A f \in owed : f.table = "outbox"
      /\ \A m \in Nodes : held'[m] = IF m = n THEN left \cup owed ELSE held[m]
      /\ \A m \in Nodes : seen'[m] = IF m = n THEN seen[n] \cup owed ELSE seen[m]
      /\ \A m \in Nodes : seen[m] \subseteq seen'[m]
      /\ now' = now /\ asked' = asked
      /\ \A m \in Nodes : \A f \in seen'[m] : f.table # "outbox" => f \in seen[m]
      /\ \A u : Owed(u) => Owed(u)'
  BY <1>0 DEF SweepKnowledge
<1>2. /\ now \in Nat /\ MaxAway \in Nat /\ Slack \in Nat /\ Grace \in Nat /\ ExpiresAt \in Nat
      /\ 2 * MaxAway + Slack < Grace
  BY Numbers DEF GraceCovers
<1>3. Paid' = Paid
  BY <1>1 DEF Paid, In
<1>4. LateSettlerKnows'
  BY <1>1, <1>3 DEF Hooked, LateSettlerKnows
<1>5. ASSUME NEW u \in asked, Witness(n, u)
      PROVE  \/ Witness(n, u)'
             \/ Owed(u)
             \/ ExpiresAt + Grace <= now /\ Paid = {}
  <2>1. PICK f \in In(held[n], "accepted") : f.origin = n /\ u \in f.urls
    BY <1>5 DEF Witness
  <2>2. f \in held[n] /\ f.table = "accepted"
    BY <2>1 DEF In
  <2>3. In(seen[n], "paid") \subseteq held[n]
    BY <1>5 DEF Witness
  <2>4. CASE f \in left
    <3>1. ~ \E p \in held[n] : p.table = "paid" /\ Old(p.at)
      BY <1>1, <2>2, <2>4, PrunedRows DEF In
    <3>2. ASSUME NEW p \in In(seen'[n], "paid") PROVE p \in held'[n]
      <4>1. p \in held[n] /\ p.table = "paid"
        BY <1>1, <2>3, <3>2 DEF In
      <4>2. p \in left
        BY <1>1, <3>1, <4>1, PrunedRows
      <4> QED BY <1>1, <4>2
    <3>3. f \in In(held'[n], "accepted")
      BY <1>1, <2>2, <2>4 DEF In
    <3> QED BY <2>1, <3>2, <3>3 DEF Witness
  <2>5. CASE f \notin left
    <3>1. Old(ExpiresAt) \/ \E p \in held[n] : p.table = "paid" /\ Old(p.at)
      BY <1>1, <2>2, <2>5, PrunedRows
    <3>2. ASSUME NEW p \in held[n], p.table = "paid", Old(p.at) PROVE Owed(u)
      <4>1. p.at \in Nat
        BY <3>2, Numbers
      <4>2. p.at + MaxAway + Slack < now
        BY <1>2, <3>2, <4>1 DEF Old
      <4> QED BY <2>1, <3>2, <4>2, OldIsOwed
    <3>3. CASE Old(ExpiresAt)
      <4>1. ExpiresAt + Grace <= now
        BY <1>2, <3>3 DEF Old
      <4>2. ASSUME NEW p \in Paid, p.at <= ExpiresAt + MaxAway PROVE Owed(u)
        <5>1. PICK m \in Nodes : p \in seen[m] /\ p.table = "paid"
          BY <4>2 DEF Paid, In
        <5>2. p.at \in Nat
          BY <5>1, Numbers
        <5>3. p.at + MaxAway < now /\ p.at + MaxAway + Slack < now
          BY <1>2, <4>1, <4>2, <5>2
        <5>4. p \in seen[n]
          BY <5>1, <5>3 DEF Hooked, KnownSoon, Spreads
        <5>5. p \in held[n]
          BY <2>3, <5>1, <5>4 DEF In
        <5> QED BY <2>1, <5>1, <5>3, <5>5, OldIsOwed
      <4> QED BY <1>5, <4>1, <4>2 DEF Hooked, LateSettlerKnows
    <3> QED BY <3>1, <3>2, <3>3
  <2> QED BY <2>4, <2>5
<1>6. Witnessed'
  <2>1. ASSUME NEW u \in asked
        PROVE  \/ \E m \in Nodes : Witness(m, u)'
               \/ Owed(u)'
               \/ ExpiresAt + Grace <= now /\ Paid = {}
    <3>1. ASSUME NEW b \in Nodes, Witness(b, u), b # n PROVE Witness(b, u)'
      <4>1. held'[b] = held[b] /\ seen'[b] = seen[b]
        BY <1>1, <3>1
      <4> QED BY <3>1, <4>1 DEF Witness
    <3>2. CASE Witness(n, u)
      BY <1>1, <1>5, <2>1, <3>2
    <3> QED BY <1>1, <2>1, <3>1, <3>2 DEF Hooked, Witnessed
  <2> QED BY <1>1, <1>3, <2>1 DEF Witnessed
<1> QED BY <1>4, <1>6

LEMMA HookedSweeps ==
    ASSUME GraceCovers, Sound, Timely, Hooked, NEW n \in Nodes, NEW left, NEW owed, Sweeps(n, left, owed)
    PROVE  Hooked'
<1>0. SweepKnowledge(n, left, owed)
  BY SweepsKnow
<1>1. /\ left = Pruned(held[n], retry[n])
      /\ UNCHANGED <<now, got, abandoned, asked>>
      /\ \A m \in Nodes : seen'[m] = IF m = n THEN seen[n] \cup owed ELSE seen[m]
      /\ \A m \in Nodes : seen[m] \subseteq seen'[m]
      /\ \A m \in Nodes : \A f \in seen'[m] : f.table # "outbox" => f \in seen[m]
  BY <1>0 DEF SweepKnowledge
<1>2. Early'
  BY <1>1 DEF Hooked, Early
<1>3. HeardSoon'
  <2>1. ASSUME NEW m \in Nodes, NEW p \in DOMAIN heardAt'[m]
        PROVE  heardAt'[m][p] <= p.at + MaxAway
    <3>1. p \in DOMAIN heardAt[m] /\ heardAt'[m][p] = heardAt[m][p]
      BY <2>1, SweepsHeard
    <3> QED BY <3>1 DEF Hooked, HeardSoon
  <2> QED BY <2>1 DEF HeardSoon
<1>4. AskedIsAccepted'
  BY <1>1 DEF Hooked, AskedIsAccepted
<1>5. Accounted'
  <2>1. ASSUME NEW m \in Nodes, NEW f \in seen'[m], f.table = "delivered"
        PROVE  f.urls \subseteq got'
    BY <1>1, <2>1 DEF Hooked, Accounted
  <2>2. ASSUME NEW m \in Nodes, NEW f \in seen'[m], f.table = "outbox"
        PROVE  \/ f \in DOMAIN retry'[m] /\ retry'[m][f].parkedAt = {}
               \/ f.urls \subseteq got \cup abandoned
    <3>1. CASE f.urls \subseteq got \cup abandoned
      BY <3>1
    <3>2. CASE f \in DOMAIN retry[m] /\ retry[m][f].parkedAt = {} /\ (m # n \/ f \in left)
      <4>1. f \in DOMAIN retry'[m]
        BY <3>2, SweepsRows
      <4>2. retry'[m][f] = retry[m][f] \/ retry'[m][f].parkedAt = {}
        BY <4>1, SweepsRows
      <4> QED BY <3>2, <4>1, <4>2
    <3>3. CASE m = n /\ f \in DOMAIN retry[n] /\ retry[n][f].parkedAt = {} /\ f \notin left
      <4>1. f \in held[n]
        BY <3>3, Numbers
      <4> QED BY <1>1, <2>2, <3>3, <4>1, TakenIsAccounted DEF Hooked
    <3>4. CASE m = n /\ f \in owed /\ f \notin seen[n]
      <4>1. f \in DOMAIN retry'[n] /\ f \notin DOMAIN retry[n]
        BY <3>4, SweepsRows, Numbers
      <4>2. retry'[n][f].parkedAt = {}
        BY <4>1, SweepsRows
      <4> QED BY <3>4, <4>1, <4>2
    <3>5. CASE f \in seen[m]
      BY <2>2, <3>1, <3>2, <3>3, <3>5 DEF Hooked, Accounted
    <3> QED BY <1>1, <2>2, <3>4, <3>5
  <2> QED BY <1>1, <2>1, <2>2 DEF Accounted
<1> QED BY <1>2, <1>3, <1>4, <1>5, SpreadSweeps, SweptOwesSweeps, WitnessedSweeps DEF Hooked

LEMMA HookedTick ==
    ASSUME Sound, Hooked, Tick
    PROVE  Hooked'
<1>1. /\ now' = now + 1 /\ now \in Nat /\ UNCHANGED <<held, heardAt, retry, seen, got, abandoned, asked>>
      /\ \A n \in Nodes : swept[n] /\ swept'[n] = FALSE
      /\ \A n \in Nodes : \A f \in Unheard(n) : now - f.at < MaxAway
  BY TickSound DEF Tick
<1>2. MaxAway \in Nat /\ Slack \in Nat /\ ExpiresAt \in Nat /\ Grace \in Nat
  BY Numbers
<1>3. Early' /\ HeardSoon' /\ AskedIsAccepted' /\ Accounted' /\ OriginKnows' /\ OwnComeFirst'
  BY <1>1 DEF Hooked, Early, HeardSoon, AskedIsAccepted, Accounted, OriginKnows, OwnComeFirst
<1>4. \A m \in Nodes : \A f \in seen[m] : f.at \in Nat /\ f.at <= now /\ f.origin \in Nodes
  BY Numbers DEF Hooked, SeenPast
<1>5. SeenPast'
  BY <1>1, <1>4 DEF SeenPast
<1>6. YoungAtOrigin'
  <2>1. ASSUME NEW m \in Nodes, NEW f \in seen[m], Spreads(f), now + 1 <= f.at + MaxAway PROVE f \in held[f.origin]
    <3>1. now <= f.at + MaxAway
      BY <1>1, <1>2, <1>4, <2>1
    <3> QED BY <2>1, <3>1 DEF Hooked, YoungAtOrigin
  <2> QED BY <1>1, <2>1 DEF YoungAtOrigin, Spreads
<1>7. KnownSoon'
  <2>1. ASSUME NEW m \in Nodes, NEW k \in Nodes, NEW f \in seen[m], Spreads(f), f.at + MaxAway < now + 1
        PROVE  f \in seen[k]
    <3>1. CASE f.at + MaxAway < now
      BY <2>1, <3>1 DEF Hooked, KnownSoon
    <3>2. CASE ~(f.at + MaxAway < now)
      <4>1. f.at + MaxAway = now
        BY <1>1, <1>2, <1>4, <2>1, <3>2
      <4>2. now <= f.at + MaxAway /\ ~(now - f.at < MaxAway)
        BY <1>1, <1>2, <1>4, <4>1
      <4>3. f \in held[f.origin] /\ f.origin \in Nodes
        BY <1>4, <2>1, <4>2 DEF Hooked, YoungAtOrigin
      <4>4. f \notin Unheard(k)
        BY <1>1, <4>2
      <4> QED BY <4>3, <4>4 DEF Unheard
    <3> QED BY <3>1, <3>2
  <2> QED BY <1>1, <2>1 DEF KnownSoon, Spreads
<1>8. SweptOwes'
  <2>1. ASSUME NEW n \in Nodes, NEW p \in DOMAIN heardAt[n], SlackOver(n, p)' PROVE SlackOver(n, p)
    <3>1. heardAt[n][p] \in Nat /\ heardAt[n][p] + Slack < now + 1
      BY <1>1, <2>1, Numbers DEF SlackOver
    <3>2. heardAt[n][p] + Slack <= now
      BY <1>1, <1>2, <3>1
    <3> QED BY <1>1, <3>2 DEF SlackOver
  <2>2. \A u : Owed(u)' <=> Owed(u)
    BY <1>1 DEF Owed
  <2> QED BY <1>1, <2>1, <2>2 DEF Hooked, SweptOwes
<1>9. Unforgotten'
  <2>1. now + 1 < ExpiresAt + Grace => now < ExpiresAt + Grace
    BY <1>1, <1>2
  <2> QED BY <1>1, <2>1 DEF Hooked, Unforgotten
<1>10. LateSettlerKnows'
  BY <1>1 DEF Hooked, LateSettlerKnows, Paid, Owed
<1>11. Witnessed'
  <2>1. ExpiresAt + Grace <= now => ExpiresAt + Grace <= now + 1
    BY <1>1, <1>2
  <2> QED BY <1>1, <2>1 DEF Hooked, Witnessed, Witness, Paid, Owed
<1> QED BY <1>3, <1>5, <1>6, <1>7, <1>8, <1>9, <1>10, <1>11 DEF Hooked

LEMMA HookedIsEnough ==
    ASSUME Hooked
    PROVE  HookAccountedFor
<1> SUFFICES ASSUME NEW u \in asked, \E n \in Nodes : \E f \in seen[n] : f.table = "paid"
             PROVE  \/ u \in got \cup abandoned
                    \/ \E n \in Nodes : u \in Webhooks(held[n])
                    \/ \E n \in Nodes : \E f \in DOMAIN retry[n] : u \in f.urls /\ retry[n][f].parkedAt = {}
  BY DEF HookAccountedFor
<1>1. Paid # {}
  BY DEF Paid, In
<1>2. ASSUME NEW n \in Nodes, Witness(n, u) PROVE u \in Webhooks(held[n])
  BY <1>2 DEF Witness, Webhooks
<1>3. CASE Owed(u)
  <2>1. PICK n, f : n \in Nodes /\ f \in seen[n] /\ Names(f, u)
    BY <1>3 DEF Owed
  <2> QED BY <2>1 DEF Hooked, Accounted, Names
<1> QED BY <1>1, <1>2, <1>3 DEF Hooked, Witnessed

\* A webhook somebody registered is never forgotten, for any number of instances,
\* webhooks, settlers, crashes and failures and however long the invoice lasts:
\* until its receiver acknowledged the settlement or its retries ran out, some
\* instance owes it or still has the accepted row from which its sweep will.  That
\* a fact takes under half an hour there and back, with the slack, is all it
\* rests on (ledger.ts settle, sweep, undelivered; EXPIRED_GRACE_SECS,
\* UNOWED_SLACK_SECS).
THEOREM NoHookIsForgotten ==
    ASSUME GraceCovers
    PROVE  Spec => []HookAccountedFor
<1>1. Init => Hooked
  <2> SUFFICES ASSUME Init PROVE Hooked
    OBVIOUS
  <2>1. /\ \A n \in Nodes : held[n] = {} /\ seen[n] = {} /\ heardAt[n] = NoRows /\ swept[n] = FALSE
        /\ DOMAIN NoRows = {} /\ asked = {}
    BY DEF Init, NoRows
  <2>2. Early /\ HeardSoon /\ AskedIsAccepted /\ Accounted /\ SeenPast /\ OriginKnows /\ YoungAtOrigin /\ KnownSoon
    BY <2>1 DEF Early, HeardSoon, AskedIsAccepted, Accounted, SeenPast, OriginKnows, YoungAtOrigin, KnownSoon
  <2>3. OwnComeFirst /\ SweptOwes /\ Unforgotten
    BY <2>1 DEF OwnComeFirst, SweptOwes, Unforgotten, In
  <2>4. LateSettlerKnows /\ Witnessed
    BY <2>1 DEF LateSettlerKnows, Witnessed
  <2> QED BY <2>2, <2>3, <2>4 DEF Hooked
<1>2. Sound /\ Timely /\ Hooked /\ [Next]_vars => Hooked'
  <2> SUFFICES ASSUME Sound, Timely, Hooked, [Next]_vars PROVE Hooked'
    OBVIOUS
  <2>1. CASE UNCHANGED vars
    <3>1. UNCHANGED <<now, held, heardAt, retry, swept, seen, got, abandoned, asked>>
      BY <2>1 DEF vars
    <3>2. Early' /\ HeardSoon' /\ AskedIsAccepted' /\ Accounted' /\ SeenPast' /\ OriginKnows' /\ YoungAtOrigin' /\ KnownSoon'
      BY <3>1 DEF Hooked, Early, HeardSoon, AskedIsAccepted, Accounted, SeenPast, OriginKnows, YoungAtOrigin, KnownSoon,
                  Spreads
    <3>3. OwnComeFirst' /\ SweptOwes' /\ Unforgotten' /\ LateSettlerKnows' /\ Witnessed'
      BY <3>1 DEF Hooked, OwnComeFirst, SweptOwes, SlackOver, Unforgotten, LateSettlerKnows, Paid, Owed, Witnessed, Witness
    <3> QED BY <3>2, <3>3 DEF Hooked
  <2>2. ASSUME NEW n \in Nodes, Sweep(n) PROVE Hooked'
    BY <2>2, SweepSweeps, HookedSweeps
  <2> QED BY <2>1, <2>2, StepKinds, HookedWrites, HookedReschedules, HookedTick
<1>3. Hooked => HookAccountedFor
  BY HookedIsEnough
<1> QED BY <1>1, <1>2, <1>3, TimelyInvariant, PTL DEF Spec

-----------------------------------------------------------------------------
(* Nothing is left behind *)

\* The last instant at which a debt is tried, with what the crashes so far add.
LastTry(f) == Limit(f) + Lease * restarts

ToldSince(rows, f) == \E d \in rows : d.table = "delivered" /\ d.urls = f.urls /\ f.at <= d.at
Ends(f) == IF f.table = "accepted" THEN ExpiresAt ELSE f.at

\* Everything but a debt goes a grace after it was written or expired; the sweep
\* of the unit has seen to it.
GoesInTime ==
    \A n \in Nodes : \A f \in held[n] :
        f.table # "outbox" => now <= Ends(f) + Grace /\ (swept[n] => now < Ends(f) + Grace)

\* A parked debt was parked by its last try and goes a grace later.
ParkedInTime ==
    \A n \in Nodes : \A f \in DOMAIN retry[n] : \A t \in retry[n][f].parkedAt :
        t <= LastTry(f) /\ now <= t + Grace /\ (swept[n] => now < t + Grace)

\* A debt that is not parked is within its retries, or a tombstone came in its
\* last unit and the sweep is about to take it.
TriedInTime ==
    \A n \in Nodes : \A f \in DOMAIN retry[n] : retry[n][f].parkedAt = {} =>
        now <= LastTry(f) \/ (Told(held[n], f.urls) /\ ~swept[n] /\ now <= LastTry(f) + 1)

\* It is due within them, unless it is being posted or this instance has its tombstone.
DueInTime ==
    \A n \in Nodes : \A f \in DOMAIN retry[n] :
        /\ retry[n][f].until <= Limit(f)
        /\ retry[n][f].parkedAt = {} =>
             \/ retry[n][f].dueAt <= LastTry(f)
             \/ f \in posting[n] /\ retry[n][f].dueAt <= LastTry(f) + Lease
             \/ ToldSince(held[n], f)
        /\ f \in posting[n] => now <= LastTry(f)

FewPaid == \A n \in Nodes : IsFiniteSet(In(held[n], "paid"))

Leaving == Early /\ FewPaid /\ GoesInTime /\ ParkedInTime /\ TriedInTime /\ DueInTime

LEMMA TimesOK ==
    ASSUME Sound, RetryCovers
    PROVE  /\ now \in Nat /\ MaxAway \in Nat /\ Grace \in Nat /\ ExpiresAt \in Nat /\ RetryFloor \in Nat /\ Lease \in Nat
           /\ MaxAway < Grace /\ MaxAway <= RetryFloor /\ Grace <= RetryFloor + 1
           /\ restarts \in Nat /\ Lease * restarts \in Nat
<1>1. /\ now \in Nat /\ MaxAway \in Nat /\ Grace \in Nat /\ ExpiresAt \in Nat /\ RetryFloor \in Nat /\ Lease \in Nat
      /\ restarts \in Nat
  BY TimesAssumption DEF Sound, TypeOK
<1>2. Lease * restarts \in Nat
  BY <1>1
<1>3. MaxAway < Grace /\ MaxAway <= RetryFloor /\ Grace <= RetryFloor + 1
  BY DEF RetryCovers
<1> QED BY <1>1, <1>2, <1>3

LEMMA DebtOK ==
    ASSUME Sound, NEW n \in Nodes, NEW f \in DOMAIN retry[n]
    PROVE  /\ f \in held[n] /\ f.table = "outbox" /\ f \in Fact /\ f.at \in Nat /\ f.at <= now
           /\ Limit(f) \in Nat /\ f.at + RetryFloor <= Limit(f)
           /\ retry[n][f].dueAt \in Nat /\ retry[n][f].until \in Nat /\ retry[n][f].parkedAt \subseteq Nat
<1>1. f \in held[n] /\ f.table = "outbox"
  BY Numbers
<1>2. f \in Fact /\ f.at <= now /\ retry[n][f] \in Column
  BY <1>1 DEF Sound, TypeOK, Past
<1>3. retry[n][f].dueAt \in Nat /\ retry[n][f].until \in Nat /\ retry[n][f].parkedAt \subseteq 0..MaxTime
  BY <1>2, Shapes
<1>4. retry[n][f].parkedAt \subseteq Nat
  BY <1>3, TimesAssumption
<1> QED BY <1>1, <1>2, <1>3, <1>4, LimitOK

\* What a writer or a hearer adds is on time.
LEMMA NewInTime ==
    ASSUME RetryCovers, Sound, Timely, Early, NEW n \in Nodes, NEW new, Writes(n, new), NEW f \in new
    PROVE  /\ f \in Fact /\ f.at \in Nat /\ now <= f.at + MaxAway /\ f.at <= now
           /\ now < Ends(f) + Grace /\ now <= Limit(f) /\ Limit(f) \in Nat
<1>1. f \in Fact /\ f.at <= now
  BY DEF Writes, Gains
<1>2. f.at \in Nat /\ (f.at = now \/ now - f.at <= MaxAway)
  BY NewFacts
<1>3. now <= f.at + MaxAway
  BY <1>2, TimesOK
<1>4. f.table = "accepted" => f.at <= ExpiresAt
  BY NewEarly
<1>5. now < Ends(f) + Grace
  BY <1>2, <1>3, <1>4, TimesOK DEF Ends
<1>6. Limit(f) \in Nat /\ f.at + RetryFloor <= Limit(f)
  BY <1>1, LimitOK
<1>7. now <= Limit(f)
  BY <1>2, <1>3, <1>6, TimesOK
<1> QED BY <1>1, <1>2, <1>3, <1>5, <1>6, <1>7

LEMMA GainsColumn ==
    ASSUME Sound, NEW n \in Nodes, NEW new, Gains(n, new), NEW m \in Nodes, NEW f \in DOMAIN retry'[m]
    PROVE  \/ f \in DOMAIN retry[m] /\ retry'[m][f] = retry[m][f]
           \/ m = n /\ f \in new /\ Fresh(retry'[m][f], f)
<1>1. PICK c : /\ retry' = [retry EXCEPT ![n] = c]
               /\ DOMAIN c = DOMAIN retry[n] \cup In(new, "outbox")
               /\ \A g \in DOMAIN c : IF g \in DOMAIN retry[n] THEN c[g] = retry[n][g] ELSE Fresh(c[g], g)
  BY DEF Gains
<1>2. retry'[m] = IF m = n THEN c ELSE retry[m]
  BY <1>1 DEF Sound, Shaped
<1> QED BY <1>1, <1>2 DEF In

LEMMA SweepsColumn ==
    ASSUME Sound, NEW n \in Nodes, NEW left, NEW owed, Sweeps(n, left, owed),
           NEW m \in Nodes, NEW f \in DOMAIN retry'[m]
    PROVE  \/ f \in DOMAIN retry[m] /\ retry'[m][f] = retry[m][f] /\ (m = n => f \in left)
           \/ m = n /\ f \in owed /\ Fresh(retry'[m][f], f)
<1>1. PICK c : /\ retry' = [retry EXCEPT ![n] = c]
               /\ DOMAIN c = In(left, "outbox") \cup owed
               /\ \A g \in DOMAIN c : IF g \in left THEN c[g] = retry[n][g] ELSE Fresh(c[g], g)
  BY DEF Sweeps
<1>2. retry'[m] = IF m = n THEN c ELSE retry[m]
  BY <1>1 DEF Sound, Shaped
<1>3. left \subseteq held[n] /\ \A g \in owed : g.table = "outbox"
  BY DEF Sweeps
<1>4. \A g \in left : g.table = "outbox" => g \in DOMAIN retry[n]
  BY <1>3, WholeNodes DEF Sound, Whole, In
<1>5. CASE m = n /\ f \in left
  <2>1. f.table = "outbox"
    BY <1>1, <1>2, <1>3, <1>5 DEF In
  <2> QED BY <1>1, <1>2, <1>4, <1>5, <2>1
<1>6. CASE m = n /\ f \notin left
  BY <1>1, <1>2, <1>6 DEF In
<1>7. CASE m # n
  BY <1>2, <1>7
<1> QED BY <1>5, <1>6, <1>7

LEMMA ReschedulesColumn ==
    ASSUME Sound, NEW n \in Nodes, Reschedules(n), NEW m \in Nodes, NEW f \in DOMAIN retry'[m]
    PROVE  /\ f \in DOMAIN retry[m]
           /\ m # n => retry'[m][f] = retry[m][f]
           /\ m = n => Moves(n, f, retry[n][f], retry'[n][f])
<1>1. PICK c : /\ retry' = [retry EXCEPT ![n] = c] /\ DOMAIN c = DOMAIN retry[n]
               /\ \A g \in DOMAIN c : Moves(n, g, retry[n][g], c[g])
  BY DEF Reschedules
<1>2. \A k \in Nodes : retry'[k] = IF k = n THEN c ELSE retry[k]
  BY <1>1 DEF Sound, Shaped
<1>3. CASE m = n
  <2>1. retry'[n] = c
    BY <1>2
  <2> QED BY <1>1, <1>3, <2>1
<1>4. CASE m # n
  BY <1>2, <1>4
<1> QED BY <1>3, <1>4

\* What a sweep leaves.
LEMMA PrunedLeaves ==
    ASSUME Replay = 0, NEW rows, NEW columns, IsFiniteSet(In(rows, "paid")), NEW left, left = Pruned(rows, columns),
           NEW f \in left
    PROVE  /\ f.table = "accepted" => ~Old(ExpiresAt)
           /\ f.table = "outbox" => /\ \A t \in columns[f].parkedAt : ~Old(t)
                                    /\ ~(Old(f.at) /\ Told(rows, f.urls))
           /\ f.table \in {"paid", "delivered"} => ~Old(f.at)
<1>1. PICK r1 : r1 = ForgetAccepted(rows)
  OBVIOUS
<1>2. /\ r1 \subseteq rows /\ \A g \in rows \ r1 : g.table = "accepted"
      /\ Old(ExpiresAt) => In(r1, "accepted") = {}
  BY <1>1 DEF ForgetAccepted, In
<1>3. PICK r2 : r2 = PruneOutbox(r1, columns)
  OBVIOUS
<1>4. /\ r2 \subseteq r1
      /\ \A g \in r2 : g.table = "outbox" => /\ \A t \in columns[g].parkedAt : ~Old(t)
                                             /\ ~(Old(g.at) /\ Told(r1, g.urls))
  BY <1>3 DEF PruneOutbox, In
<1>5. PICK r3 : r3 = PrunePaid(r2)
  OBVIOUS
<1>6. r3 \subseteq r2 /\ \A g \in r3 : g.table = "paid" => ~Old(g.at)
  <2>1. IsFiniteSet(In(r2, "paid"))
    <3>1. In(r2, "paid") \subseteq In(rows, "paid")
      BY <1>2, <1>4 DEF In
    <3> QED BY <3>1, FS_Subset
  <2>2. CASE In(r2, "paid") = {}
    BY <1>5, <2>2 DEF PrunePaid, In
  <2>3. CASE In(r2, "paid") # {}
    <3>1. PICK k \in Nat : k = Cardinality(In(r2, "paid"))
      BY <2>1, FS_CardinalityType
    <3>2. k # 0
      BY <2>1, <2>3, <3>1, FS_EmptySet
    <3>3. Cardinality(In(r2, "paid")) > Replay
      BY <3>1, <3>2
    <3> QED BY <1>5, <3>3 DEF PrunePaid
  <2> QED BY <2>2, <2>3
<1>7. left = PruneDelivered(r3)
  BY <1>1, <1>3, <1>5 DEF Pruned
<1>8. left \subseteq r3 /\ \A g \in left : g.table = "delivered" => ~Old(g.at)
  BY <1>7 DEF PruneDelivered
<1>9. \A urls : Told(rows, urls) => Told(r1, urls)
  BY <1>2 DEF Told, In
<1>10. f \in r1 /\ f \in r2 /\ f \in r3
  BY <1>4, <1>6, <1>8
<1>11. f.table = "accepted" => ~Old(ExpiresAt)
  BY <1>2, <1>10 DEF In
<1> QED BY <1>4, <1>6, <1>8, <1>9, <1>10, <1>11

LEMMA LeavingWrites ==
    ASSUME RetryCovers, IsFiniteSet(Nodes), Sound, Timely, Leaving, NEW n \in Nodes, NEW new, Writes(n, new)
    PROVE  Leaving'
<1>1. Gains(n, new) /\ restarts' = restarts
  BY DEF Writes
<1>2. /\ \A m \in Nodes : held'[m] = IF m = n THEN held[n] \cup new ELSE held[m]
      /\ now' = now /\ swept' = swept
  BY <1>1 DEF Gains, Sound, TypeOK
<1>3. PICK z \in Nat : z = Lease * restarts
  BY TimesOK
<1>4. now \in Nat /\ Grace \in Nat
  BY TimesOK
<1>5. Early'
  BY EarlyWrites DEF Leaving
<1>6. FewPaid'
  <2>1. IsFiniteSet(In(new, "paid"))
    <3>1. PICK paid : paid = [q \in Nodes |-> In(held[q], "paid")]
      OBVIOUS
    <3>2. PICK all : all = {paid[q] : q \in Nodes}
      OBVIOUS
    <3>3. IsFiniteSet(all)
      <4>1. paid \in Surjection(Nodes, all)
        BY <3>1, <3>2 DEF Surjection
      <4> QED BY <4>1, FS_Surjection
    <3>4. IsFiniteSet(UNION all)
      <4>1. \A S \in all : IsFiniteSet(S)
        BY <3>1, <3>2 DEF Leaving, FewPaid
      <4> QED BY <3>3, <4>1, FS_UNION
    <3>5. PICK own : own = In(new, "paid") \ Unheard(n)
      OBVIOUS
    <3>6. IsFiniteSet(own)
      BY <3>5 DEF Writes
    <3>7. IsFiniteSet(own \cup UNION all)
      BY <3>4, <3>6, FS_Union
    <3>8. In(new, "paid") \subseteq own \cup UNION all
      <4>1. ASSUME NEW f \in In(new, "paid"), f \in Unheard(n) PROVE f \in UNION all
        <5>1. PICK q \in Nodes : f \in held[q]
          BY <4>1, UnheardOK
        <5>2. f \in paid[q] /\ paid[q] \in all
          BY <3>1, <3>2, <4>1, <5>1 DEF In
        <5> QED BY <5>2
      <4> QED BY <3>5, <4>1
    <3> QED BY <3>7, <3>8, FS_Subset
  <2>2. ASSUME NEW m \in Nodes PROVE IsFiniteSet(In(held'[m], "paid"))
    <3>1. IsFiniteSet(In(held[m], "paid"))
      BY <2>2 DEF Leaving, FewPaid
    <3>2. CASE m = n
      <4>1. In(held'[m], "paid") = In(held[m], "paid") \cup In(new, "paid")
        BY <1>2, <3>2 DEF In
      <4> QED BY <2>1, <3>1, <4>1, FS_Union
    <3>3. CASE m # n
      BY <1>2, <2>2, <3>1, <3>3
    <3> QED BY <3>2, <3>3
  <2> QED BY <2>2 DEF FewPaid
<1>7. GoesInTime'
  <2>1. ASSUME NEW m \in Nodes, NEW f \in held'[m], f.table # "outbox"
        PROVE  now <= Ends(f) + Grace /\ (swept[m] => now < Ends(f) + Grace)
    <3>1. CASE f \in held[m]
      BY <2>1, <3>1 DEF Leaving, GoesInTime
    <3>2. CASE f \in new
      <4>1. now < Ends(f) + Grace /\ f.at \in Nat
        BY <3>2, NewInTime DEF Leaving
      <4>2. Ends(f) \in Nat
        BY <4>1, TimesOK DEF Ends
      <4> QED BY <1>4, <4>1, <4>2
    <3> QED BY <1>2, <2>1, <3>1, <3>2
  <2> QED BY <1>2, <2>1 DEF GoesInTime, Ends
<1>8. ParkedInTime'
  <2>1. ASSUME NEW m \in Nodes, NEW f \in DOMAIN retry'[m], NEW t \in retry'[m][f].parkedAt
        PROVE  t <= Limit(f) + z /\ now <= t + Grace /\ (swept[m] => now < t + Grace)
    <3>1. f \in DOMAIN retry[m] /\ retry'[m][f] = retry[m][f]
      BY <1>1, <2>1, GainsColumn DEF Fresh
    <3> QED BY <1>3, <2>1, <3>1 DEF Leaving, ParkedInTime, LastTry
  <2> QED BY <1>1, <1>2, <1>3, <2>1 DEF ParkedInTime, LastTry, Limit
<1>9. \A m \in Nodes : \A urls : Told(held[m], urls) => Told(held'[m], urls)
  BY <1>2 DEF Told, In
<1>10. TriedInTime'
  <2>1. ASSUME NEW m \in Nodes, NEW f \in DOMAIN retry'[m], retry'[m][f].parkedAt = {}
        PROVE  now <= Limit(f) + z \/ (Told(held'[m], f.urls) /\ ~swept[m] /\ now <= Limit(f) + z + 1)
    <3>1. CASE f \in DOMAIN retry[m] /\ retry'[m][f] = retry[m][f]
      BY <1>3, <1>9, <2>1, <3>1 DEF Leaving, TriedInTime, LastTry
    <3>2. CASE f \in new
      <4>1. now <= Limit(f) /\ Limit(f) \in Nat
        BY <3>2, NewInTime DEF Leaving
      <4> QED BY <1>3, <1>4, <4>1
    <3> QED BY <1>1, <2>1, <3>1, <3>2, GainsColumn
  <2> QED BY <1>1, <1>2, <1>3, <2>1 DEF TriedInTime, LastTry, Limit
<1>11. DueInTime'
  <2>1. ASSUME NEW m \in Nodes, NEW f \in DOMAIN retry'[m]
        PROVE  /\ retry'[m][f].until <= Limit(f)
               /\ retry'[m][f].parkedAt = {} =>
                    \/ retry'[m][f].dueAt <= Limit(f) + z
                    \/ f \in posting'[m] /\ retry'[m][f].dueAt <= Limit(f) + z + Lease
                    \/ ToldSince(held'[m], f)
               /\ f \in posting'[m] => now <= Limit(f) + z
    <3>1. CASE f \in DOMAIN retry[m] /\ retry'[m][f] = retry[m][f]
      <4>1. /\ retry[m][f].until <= Limit(f)
            /\ retry[m][f].parkedAt = {} =>
                 \/ retry[m][f].dueAt <= Limit(f) + z
                 \/ f \in posting[m] /\ retry[m][f].dueAt <= Limit(f) + z + Lease
                 \/ ToldSince(held[m], f)
            /\ f \in posting[m] => now <= Limit(f) + z
        BY <1>3, <2>1, <3>1 DEF Leaving, DueInTime, LastTry
      <4>2. posting'[m] \subseteq posting[m]
        BY <2>1 DEF Writes
      <4>3. ToldSince(held[m], f) => ToldSince(held'[m], f)
        BY <1>2, <2>1 DEF ToldSince
      <4>4. f \in posting[m] \ posting'[m] => ToldSince(held'[m], f)
        <5>1. f.at <= now
          BY <2>1, <3>1, DebtOK
        <5>2. f \in posting[m] \ posting'[m] =>
                m = n /\ \E d \in new : d.table = "delivered" /\ d.urls = f.urls /\ d.at = now
          BY <2>1 DEF Writes
        <5> QED BY <1>2, <2>1, <5>1, <5>2 DEF ToldSince
      <4> QED BY <3>1, <4>1, <4>2, <4>3, <4>4
    <3>2. CASE f \in new /\ Fresh(retry'[m][f], f)
      <4>1. now <= Limit(f) /\ Limit(f) \in Nat
        BY <3>2, NewInTime DEF Leaving
      <4>2. retry'[m][f].until <= Limit(f) /\ retry'[m][f].dueAt <= Limit(f) /\ retry'[m][f].dueAt \in Nat
        BY <3>2, Shapes DEF Fresh
      <4> QED BY <1>3, <1>4, <4>1, <4>2
    <3> QED BY <1>1, <2>1, <3>1, <3>2, GainsColumn
  <2> QED BY <1>1, <1>2, <1>3, <2>1 DEF DueInTime, LastTry, Limit
<1> QED BY <1>5, <1>6, <1>7, <1>8, <1>10, <1>11 DEF Leaving

LEMMA LeavingReschedules ==
    ASSUME RetryCovers, Sound, Leaving, NEW n \in Nodes, Reschedules(n)
    PROVE  Leaving'
<1>1. UNCHANGED <<now, held, swept, seen>>
  BY DEF Reschedules
<1>2. PICK z \in Nat : z = Lease * restarts
  BY TimesOK
<1>3. PICK y \in Nat : y = Lease * restarts' /\ z <= y /\ (restarts' = restarts + 1 => y = z + Lease)
  <2>1. Lease \in Nat /\ restarts \in Nat
    BY TimesOK
  <2>2. Lease * (restarts + 1) = Lease * restarts + Lease
    BY <2>1
  <2>3. restarts' \in {restarts, restarts + 1}
    BY DEF Reschedules
  <2>4. PICK x : x = Lease * restarts'
    OBVIOUS
  <2>5. CASE restarts' = restarts + 1
    <3>1. x = z + Lease /\ x \in Nat /\ z <= x
      BY <1>2, <2>1, <2>2, <2>4, <2>5
    <3> QED BY <2>4, <3>1
  <2>6. CASE restarts' = restarts
    <3>1. x = z /\ restarts' # restarts + 1
      BY <1>2, <2>1, <2>4, <2>6
    <3> QED BY <2>4, <3>1
  <2> QED BY <2>3, <2>5, <2>6
<1>4. now \in Nat /\ Grace \in Nat /\ Lease \in Nat /\ 0 < Grace
  BY TimesOK
<1>5. Early' /\ FewPaid' /\ GoesInTime'
  BY <1>1 DEF Leaving, Early, FewPaid, GoesInTime, Ends
<1>6. ASSUME NEW m \in Nodes, NEW f \in DOMAIN retry'[m]
      PROVE  /\ \A t \in retry'[m][f].parkedAt :
                   t <= Limit(f) + y /\ now <= t + Grace /\ (swept[m] => now < t + Grace)
             /\ retry'[m][f].parkedAt = {} =>
                   now <= Limit(f) + y \/ (Told(held[m], f.urls) /\ ~swept[m] /\ now <= Limit(f) + y + 1)
             /\ retry'[m][f].until <= Limit(f)
             /\ retry'[m][f].parkedAt = {} =>
                  \/ retry'[m][f].dueAt <= Limit(f) + y
                  \/ f \in posting'[m] /\ retry'[m][f].dueAt <= Limit(f) + y + Lease
                  \/ ToldSince(held[m], f)
             /\ f \in posting'[m] => now <= Limit(f) + y
  <2>1. f \in DOMAIN retry[m]
    BY <1>6, ReschedulesColumn
  <2>2. /\ Limit(f) \in Nat /\ retry[m][f].dueAt \in Nat /\ retry[m][f].until \in Nat
        /\ retry[m][f].parkedAt \subseteq Nat
    BY <1>6, <2>1, DebtOK
  <2>3. \A t \in retry[m][f].parkedAt :
          t <= Limit(f) + z /\ now <= t + Grace /\ (swept[m] => now < t + Grace)
    BY <1>2, <1>6, <2>1 DEF Leaving, ParkedInTime, LastTry
  <2>4. retry[m][f].parkedAt = {} =>
          now <= Limit(f) + z \/ (Told(held[m], f.urls) /\ ~swept[m] /\ now <= Limit(f) + z + 1)
    BY <1>2, <1>6, <2>1 DEF Leaving, TriedInTime, LastTry
  <2>5. /\ retry[m][f].until <= Limit(f)
        /\ retry[m][f].parkedAt = {} =>
             \/ retry[m][f].dueAt <= Limit(f) + z
             \/ f \in posting[m] /\ retry[m][f].dueAt <= Limit(f) + z + Lease
             \/ ToldSince(held[m], f)
        /\ f \in posting[m] => now <= Limit(f) + z
    BY <1>2, <1>6, <2>1 DEF Leaving, DueInTime, LastTry
  <2>6. CASE retry'[m][f] = retry[m][f] /\ (f \in posting'[m] => f \in posting[m])
             /\ (f \in posting[m] \ posting'[m] => restarts' = restarts + 1)
    <3>1. \A t \in retry'[m][f].parkedAt :
             t <= Limit(f) + y /\ now <= t + Grace /\ (swept[m] => now < t + Grace)
      BY <1>3, <2>2, <2>3, <2>6
    <3>2. retry'[m][f].parkedAt = {} =>
             now <= Limit(f) + y \/ (Told(held[m], f.urls) /\ ~swept[m] /\ now <= Limit(f) + y + 1)
      BY <1>3, <1>4, <2>2, <2>4, <2>6
    <3>3. retry'[m][f].parkedAt = {} =>
            \/ retry'[m][f].dueAt <= Limit(f) + y
            \/ f \in posting'[m] /\ retry'[m][f].dueAt <= Limit(f) + y + Lease
            \/ ToldSince(held[m], f)
      BY <1>3, <1>4, <2>2, <2>5, <2>6
    <3>4. f \in posting'[m] => now <= Limit(f) + y
      BY <1>3, <1>4, <2>2, <2>5, <2>6
    <3> QED BY <2>5, <2>6, <3>1, <3>2, <3>3, <3>4
  <2>7. CASE m # n
    <3>1. retry'[m][f] = retry[m][f] /\ posting'[m] = posting[m]
      BY <1>6, <2>7, ReschedulesColumn DEF Reschedules
    <3> QED BY <2>6, <3>1
  <2>8. CASE m = n
    <3>1. Moves(n, f, retry[m][f], retry'[m][f])
      BY <1>6, <2>8, ReschedulesColumn
    <3>2. retry'[m][f].until = retry[m][f].until
      BY <3>1 DEF Moves
    <3>3. CASE f \in Due(n) /\ f \in posting'[n] /\ retry'[m][f].parkedAt = retry[m][f].parkedAt
               /\ retry'[m][f].dueAt = now + Lease
      <4>1. retry[m][f].parkedAt = {} /\ ~Told(held[m], f.urls)
        BY <2>8, <3>3 DEF Due
      <4>2. now <= Limit(f) + z
        BY <2>4, <4>1
      <4>3. now <= Limit(f) + y /\ now + Lease <= Limit(f) + y + Lease
        BY <1>3, <1>4, <2>2, <4>2
      <4> QED BY <2>5, <2>8, <3>2, <3>3, <4>1, <4>3
    <3>4. CASE f \in posting[n] \ posting'[n] /\ retry'[m][f].parkedAt = {now}
      <4>1. now <= Limit(f) + y
        BY <1>3, <1>4, <2>2, <2>5, <2>8, <3>4
      <4> QED BY <1>4, <2>5, <2>8, <3>2, <3>4, <4>1
    <3>5. CASE f \in posting[n] \ posting'[n] /\ retry'[m][f].parkedAt = retry[m][f].parkedAt
               /\ retry'[m][f].dueAt <= retry[m][f].until
      <4>1. now <= Limit(f) + y
        BY <1>3, <1>4, <2>2, <2>5, <2>8, <3>5
      <4>2. retry'[m][f].dueAt \in Nat
        <5>1. f \in DOMAIN retry'[m] /\ Sound'
          BY <1>6, ReschedulesSound
        <5>2. retry'[m][f] \in Column
          BY <1>6, <5>1 DEF Sound, TypeOK
        <5> QED BY <5>2, Shapes
      <4>3. retry'[m][f].dueAt <= Limit(f) + y
        BY <1>3, <2>2, <2>5, <3>5, <4>2
      <4>4. \A t \in retry'[m][f].parkedAt :
               t <= Limit(f) + y /\ now <= t + Grace /\ (swept[m] => now < t + Grace)
        BY <1>3, <2>2, <2>3, <3>5
      <4> QED BY <2>5, <2>8, <3>2, <3>5, <4>1, <4>3, <4>4
    <3> QED BY <2>6, <2>8, <3>1, <3>3, <3>4, <3>5 DEF Moves
  <2> QED BY <2>7, <2>8
<1>7. ParkedInTime'
  BY <1>1, <1>3, <1>6 DEF ParkedInTime, LastTry, Limit
<1>8. TriedInTime'
  BY <1>1, <1>3, <1>6 DEF TriedInTime, LastTry, Limit
<1>9. DueInTime'
  BY <1>1, <1>3, <1>6 DEF DueInTime, LastTry, Limit
<1> QED BY <1>5, <1>7, <1>8, <1>9 DEF Leaving

LEMMA LeavingSweeps ==
    ASSUME Replay = 0, RetryCovers, Sound, Leaving, NEW n \in Nodes, NEW left, NEW owed, Sweeps(n, left, owed)
    PROVE  Leaving'
<1>1. /\ left = Pruned(held[n], retry[n]) /\ left \subseteq held[n] /\ owed \subseteq Fact
      /\ \A f \in owed : f.at = now /\ f.table = "outbox"
      /\ UNCHANGED <<now, posting, restarts>>
  BY DEF Sweeps
<1>2. /\ \A m \in Nodes : held'[m] = IF m = n THEN left \cup owed ELSE held[m]
      /\ \A m \in Nodes : seen'[m] = IF m = n THEN seen[n] \cup owed ELSE seen[m]
      /\ \A m \in Nodes : m # n => swept'[m] = swept[m]
  BY DEF Sweeps, Sound, TypeOK
<1>3. PICK z \in Nat : z = Lease * restarts
  BY TimesOK
<1>4. now \in Nat /\ Grace \in Nat /\ RetryFloor \in Nat /\ Grace <= RetryFloor + 1 /\ ExpiresAt \in Nat
  BY TimesOK
<1>5. IsFiniteSet(In(held[n], "paid"))
  BY DEF Leaving, FewPaid
<1>6. Early'
  BY <1>1, <1>2 DEF Leaving, Early
<1>7. FewPaid'
  <2>1. In(left \cup owed, "paid") \subseteq In(held[n], "paid")
    BY <1>1 DEF In
  <2>2. IsFiniteSet(In(left \cup owed, "paid"))
    BY <1>5, <2>1, FS_Subset
  <2>3. ASSUME NEW m \in Nodes PROVE IsFiniteSet(In(held'[m], "paid"))
    <3>1. CASE m = n
      BY <1>2, <2>2, <3>1
    <3>2. CASE m # n
      BY <1>2, <2>3, <3>2 DEF Leaving, FewPaid
    <3> QED BY <3>1, <3>2
  <2> QED BY <2>3 DEF FewPaid
<1>8. GoesInTime'
  <2>1. ASSUME NEW m \in Nodes, NEW f \in held'[m], f.table # "outbox"
        PROVE  now <= Ends(f) + Grace /\ (swept'[m] => now < Ends(f) + Grace)
    <3>1. CASE m # n
      BY <1>2, <2>1, <3>1 DEF Leaving, GoesInTime
    <3>2. CASE m = n
      <4>1. f \in left
        BY <1>1, <1>2, <2>1, <3>2
      <4>2. f \in Fact /\ f.at \in Nat
        BY <1>1, <4>1, Shapes, WholeNodes DEF Sound, Whole
      <4>3. f.table \in {"accepted", "paid", "delivered"}
        BY <2>1, <4>2, Shapes DEF Tables
      <4>4. ~Old(Ends(f)) /\ Ends(f) \in Nat
        BY <1>1, <1>4, <1>5, <4>1, <4>2, <4>3, PrunedLeaves DEF Ends
      <4> QED BY <1>4, <4>4 DEF Old
    <3> QED BY <3>1, <3>2
  <2> QED BY <1>1, <2>1 DEF GoesInTime, Ends
<1>9. ASSUME NEW m \in Nodes, NEW f \in DOMAIN retry'[m]
      PROVE  /\ \A t \in retry'[m][f].parkedAt :
                   t <= Limit(f) + z /\ now <= t + Grace /\ (swept'[m] => now < t + Grace)
             /\ retry'[m][f].parkedAt = {} =>
                   now <= Limit(f) + z \/ (Told(held'[m], f.urls) /\ ~swept'[m] /\ now <= Limit(f) + z + 1)
             /\ retry'[m][f].until <= Limit(f)
             /\ retry'[m][f].parkedAt = {} =>
                  \/ retry'[m][f].dueAt <= Limit(f) + z
                  \/ f \in posting[m] /\ retry'[m][f].dueAt <= Limit(f) + z + Lease
                  \/ ToldSince(held'[m], f)
             /\ f \in posting[m] => now <= Limit(f) + z
  <2>1. CASE m = n /\ f \in owed /\ Fresh(retry'[m][f], f)
    <3>1. f \in Fact /\ f.at = now
      BY <1>1, <2>1
    <3>2. Limit(f) \in Nat /\ now <= Limit(f)
      BY <1>4, <3>1, LimitOK
    <3>3. retry'[m][f].until <= Limit(f) /\ retry'[m][f].dueAt <= Limit(f) /\ retry'[m][f].dueAt \in Nat
          /\ retry'[m][f].parkedAt = {}
      BY <2>1, Shapes DEF Fresh
    <3> QED BY <1>3, <1>4, <3>2, <3>3
  <2>2. CASE f \in DOMAIN retry[m] /\ retry'[m][f] = retry[m][f] /\ (m = n => f \in left)
    <3>1. /\ Limit(f) \in Nat /\ f.at \in Nat /\ f.at + RetryFloor <= Limit(f) /\ f.table = "outbox"
          /\ retry[m][f].parkedAt \subseteq Nat
      BY <1>9, <2>2, DebtOK
    <3>2. \A t \in retry[m][f].parkedAt :
            t <= Limit(f) + z /\ now <= t + Grace /\ (swept[m] => now < t + Grace)
      BY <1>3, <1>9, <2>2 DEF Leaving, ParkedInTime, LastTry
    <3>3. retry[m][f].parkedAt = {} =>
            now <= Limit(f) + z \/ (Told(held[m], f.urls) /\ ~swept[m] /\ now <= Limit(f) + z + 1)
      BY <1>3, <1>9, <2>2 DEF Leaving, TriedInTime, LastTry
    <3>4. /\ retry[m][f].until <= Limit(f)
          /\ retry[m][f].parkedAt = {} =>
               \/ retry[m][f].dueAt <= Limit(f) + z
               \/ f \in posting[m] /\ retry[m][f].dueAt <= Limit(f) + z + Lease
               \/ ToldSince(held[m], f)
          /\ f \in posting[m] => now <= Limit(f) + z
      BY <1>3, <1>9, <2>2 DEF Leaving, DueInTime, LastTry
    <3>5. CASE m # n
      <4>1. held'[m] = held[m] /\ swept'[m] = swept[m]
        BY <1>2, <1>9, <3>5
      <4> QED BY <2>2, <3>2, <3>3, <3>4, <4>1
    <3>6. CASE m = n
      <4>1. (\A t \in retry[m][f].parkedAt : ~Old(t)) /\ ~(Old(f.at) /\ Told(held[m], f.urls))
        BY <1>1, <1>5, <2>2, <3>1, <3>6, PrunedLeaves
      <4>2. \A t \in retry[m][f].parkedAt : t <= Limit(f) + z /\ now < t + Grace /\ now <= t + Grace
        BY <1>4, <3>1, <3>2, <4>1 DEF Old
      <4>3. retry[m][f].parkedAt = {} => now <= Limit(f) + z
        <5> SUFFICES ASSUME retry[m][f].parkedAt = {}, ~(now <= Limit(f) + z) PROVE FALSE
          OBVIOUS
        <5>1. Told(held[m], f.urls)
          BY <3>3
        <5>2. f.at <= now - Grace
          BY <1>3, <1>4, <3>1
        <5> QED BY <4>1, <5>1, <5>2 DEF Old
      <4>4. ToldSince(held[m], f) => ToldSince(held'[m], f)
        <5> SUFFICES ASSUME NEW d \in held[m], d.table = "delivered", d.urls = f.urls, f.at <= d.at
                     PROVE  d \in left
          BY <1>2, <3>6 DEF ToldSince
        <5>1. Told(held[m], f.urls) /\ d.at \in Nat
          BY <1>9, Numbers DEF Told, In
        <5>2. ~Old(f.at)
          BY <4>1, <5>1
        <5>3. ~Old(d.at)
          BY <1>4, <3>1, <5>1, <5>2 DEF Old
        <5> QED BY <1>1, <3>6, <5>3, PrunedRows
      <4> QED BY <2>2, <3>4, <4>2, <4>3, <4>4
    <3> QED BY <3>5, <3>6
  <2> QED BY <1>9, <2>1, <2>2, SweepsColumn
<1>10. ParkedInTime'
  BY <1>1, <1>3, <1>9 DEF ParkedInTime, LastTry, Limit
<1>11. TriedInTime'
  BY <1>1, <1>3, <1>9 DEF TriedInTime, LastTry, Limit
<1>12. DueInTime'
  BY <1>1, <1>3, <1>9 DEF DueInTime, LastTry, Limit
<1> QED BY <1>6, <1>7, <1>8, <1>10, <1>11, <1>12 DEF Leaving

LEMMA LeavingTick ==
    ASSUME RetryCovers, Sound, Leaving, Tick
    PROVE  Leaving'
<1>1. /\ now' = now + 1 /\ now \in Nat /\ UNCHANGED <<held, heardAt, retry, posting, restarts, seen>>
      /\ \A n \in Nodes : swept[n] /\ posting[n] = {} /\ Due(n) = {} /\ swept'[n] = FALSE
  BY TickSound DEF Tick
<1>2. PICK z \in Nat : z = Lease * restarts
  BY TimesOK
<1>3. Grace \in Nat /\ ExpiresAt \in Nat
  BY TimesOK
<1>4. Early' /\ FewPaid'
  BY <1>1 DEF Leaving, Early, FewPaid
<1>5. GoesInTime'
  <2>1. ASSUME NEW n \in Nodes, NEW f \in held[n], f.table # "outbox"
        PROVE  now + 1 <= Ends(f) + Grace
    <3>1. now < Ends(f) + Grace
      BY <1>1, <2>1 DEF Leaving, GoesInTime
    <3>2. Ends(f) \in Nat
      BY <1>3, <2>1, Numbers DEF Ends
    <3> QED BY <1>1, <1>3, <3>1, <3>2
  <2> QED BY <1>1, <2>1 DEF GoesInTime, Ends
<1>6. ASSUME NEW n \in Nodes, NEW f \in DOMAIN retry[n]
      PROVE  /\ \A t \in retry[n][f].parkedAt : t <= Limit(f) + z /\ now + 1 <= t + Grace
             /\ retry[n][f].parkedAt = {} =>
                  now + 1 <= Limit(f) + z \/ (Told(held[n], f.urls) /\ now + 1 <= Limit(f) + z + 1)
  <2>1. Limit(f) \in Nat /\ retry[n][f].dueAt \in Nat /\ retry[n][f].parkedAt \subseteq Nat
    BY <1>6, DebtOK
  <2>2. \A t \in retry[n][f].parkedAt : t <= Limit(f) + z /\ now + 1 <= t + Grace
    <3>1. ASSUME NEW t \in retry[n][f].parkedAt PROVE t <= Limit(f) + z /\ now < t + Grace
      BY <1>1, <1>2, <1>6, <3>1 DEF Leaving, ParkedInTime, LastTry
    <3> QED BY <1>1, <1>3, <2>1, <3>1
  <2>3. ASSUME retry[n][f].parkedAt = {} PROVE now <= Limit(f) + z
    BY <1>1, <1>2, <1>6, <2>3 DEF Leaving, TriedInTime, LastTry
  <2>4. ASSUME retry[n][f].parkedAt = {}, ~Told(held[n], f.urls) PROVE now + 1 <= Limit(f) + z
    <3>1. ~ToldSince(held[n], f)
      BY <2>4 DEF Told, ToldSince, In
    <3>2. retry[n][f].dueAt <= Limit(f) + z
      BY <1>1, <1>2, <1>6, <2>4, <3>1 DEF Leaving, DueInTime, LastTry
    <3>3. ~(retry[n][f].dueAt <= now)
      BY <1>1, <1>6, <2>4 DEF Due
    <3> QED BY <1>1, <1>2, <2>1, <3>2, <3>3
  <2> QED BY <1>1, <1>2, <2>1, <2>2, <2>3, <2>4
<1>7. ParkedInTime'
  BY <1>1, <1>2, <1>6 DEF ParkedInTime, LastTry, Limit
<1>8. TriedInTime'
  BY <1>1, <1>2, <1>6 DEF TriedInTime, LastTry, Limit
<1>9. DueInTime'
  BY <1>1 DEF Leaving, DueInTime, LastTry, Limit
<1> QED BY <1>4, <1>5, <1>7, <1>8, <1>9 DEF Leaving

LEMMA LeavingIsEnough ==
    ASSUME RetryCovers, Sound, Leaving
    PROVE  NothingLeftBehind
<1> SUFFICES ASSUME NEW n \in Nodes, NEW f \in held[n] PROVE now <= LastsUntil(f)
  BY DEF NothingLeftBehind
<1>1. now \in Nat /\ Grace \in Nat /\ 0 < Grace
  BY TimesOK
<1>2. CASE f.table # "outbox"
  <2>1. now <= Ends(f) + Grace
    BY <1>2 DEF Leaving, GoesInTime
  <2> QED BY <1>2, <2>1 DEF LastsUntil, Ends
<1>3. CASE f.table = "outbox"
  <2>1. f \in DOMAIN retry[n]
    BY <1>3, WholeNodes DEF Sound, Whole, In
  <2>2. PICK last \in Nat : last = LastTry(f)
    BY <2>1, DebtOK, TimesOK DEF LastTry
  <2>3. LastsUntil(f) = last + Grace
    BY <1>3, <2>2 DEF LastsUntil, LastTry, Limit
  <2>4. CASE retry[n][f].parkedAt = {}
    <3>1. now <= last + 1
      BY <1>1, <2>1, <2>2, <2>4 DEF Leaving, TriedInTime
    <3> QED BY <1>1, <2>2, <2>3, <3>1
  <2>5. CASE retry[n][f].parkedAt # {}
    <3>1. PICK t \in retry[n][f].parkedAt : TRUE
      BY <2>5
    <3>2. t \in Nat
      BY <2>1, <3>1, DebtOK
    <3>3. t <= last /\ now <= t + Grace
      BY <2>1, <2>2, <3>1 DEF Leaving, ParkedInTime
    <3> QED BY <1>1, <2>2, <2>3, <3>2, <3>3
  <2> QED BY <2>4, <2>5
<1> QED BY <1>2, <1>3

\* Nothing the gateway could read outlives its time, for any number of instances,
\* settlers, failures and crashes: settlements and tombstones go a grace after
\* they were written, what was accepted a grace after it expired, a debt a grace
\* after its last retry and a lease per crash, even where a tombstone of another
\* settlement calls a debt off and is pruned before it (ledger.ts sweep,
\* undelivered, takeoverAt).
THEOREM NothingOutlivesItsTime ==
    ASSUME RetryCovers, IsFiniteSet(Nodes)
    PROVE  Spec => []NothingLeftBehind
<1>1. CASE Replay = 0
  <2>1. Init => Leaving
    <3> SUFFICES ASSUME Init PROVE Leaving
      OBVIOUS
    <3>1. /\ \A n \in Nodes : held[n] = {} /\ seen[n] = {} /\ retry[n] = NoRows
          /\ DOMAIN NoRows = {}
      BY DEF Init, NoRows
    <3>2. \A n \in Nodes : In(held[n], "paid") = {}
      BY <3>1 DEF In
    <3>3. FewPaid
      BY <3>2, FS_EmptySet DEF FewPaid
    <3> QED BY <3>1, <3>3 DEF Leaving, Early, GoesInTime, ParkedInTime, TriedInTime, DueInTime
  <2>2. Sound /\ Timely /\ Leaving /\ [Next]_vars => Leaving'
    <3> SUFFICES ASSUME Sound, Timely, Leaving, [Next]_vars PROVE Leaving'
      OBVIOUS
    <3>1. CASE UNCHANGED vars
      <4>1. UNCHANGED <<now, held, heardAt, retry, posting, swept, restarts, seen>>
        BY <3>1 DEF vars
      <4>2. Early' /\ FewPaid' /\ GoesInTime'
        BY <4>1 DEF Leaving, Early, FewPaid, GoesInTime, Ends
      <4>3. ParkedInTime' /\ TriedInTime' /\ DueInTime'
        BY <4>1 DEF Leaving, ParkedInTime, TriedInTime, DueInTime, LastTry, Limit
      <4> QED BY <4>2, <4>3 DEF Leaving
    <3>2. ASSUME NEW n \in Nodes, Sweep(n) PROVE Leaving'
      BY <1>1, <3>2, SweepSweeps, LeavingSweeps
    <3> QED BY <3>1, <3>2, StepKinds, LeavingWrites, LeavingReschedules, LeavingTick
  <2>3. Sound /\ Timely /\ Leaving => NothingLeftBehind
    BY LeavingIsEnough
  <2> QED BY <2>1, <2>2, <2>3, TimelyInvariant, PTL DEF Spec
<1>2. CASE Replay # 0
  <2>1. NothingLeftBehind
    BY <1>2 DEF NothingLeftBehind
  <2> QED BY <2>1, PTL
<1> QED BY <1>1, <1>2

=============================================================================
