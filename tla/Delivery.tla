------------------------------- MODULE Delivery -------------------------------
(***************************************************************************)
(* What instances do with the facts of ONE payment, from the webhooks it   *)
(* was accepted with to the last row the sweep deletes (src/ledger.ts,     *)
(* src/store.ts, src/watch.ts, the sweeper and the ticker of src/index.ts).*)
(*                                                                         *)
(* Settling owes one outbox row per webhook.  The owner posts at once, a   *)
(* peer that heard the row takes over later, a `delivered` tombstone calls *)
(* everybody off, a failure backs off until the row is parked.  The sweep  *)
(* prunes by age and then owes the webhooks that nobody owes.              *)
(*                                                                         *)
(* Time is whole units of SWEEP_INTERVAL on one clock.  Replication is the *)
(* subject of module Replication: here an instance hears any facts another *)
(* one holds, each fact once, and none stays unheard longer than MaxAway.  *)
(***************************************************************************)
EXTENDS Integers, FiniteSets, FiniteSetsExt, Functions

CONSTANTS
    Nodes,        \* the running instances
    Urls,         \* webhook URLs
    Lease,        \* LEASE_SECS
    Backoff,      \* WEBHOOK_BACKOFF_SECS
    TakeoverAfter,\* TAKEOVER_AFTER_SECS
    Ranks,        \* the ranks takeoverAt can hash to
    Slack,        \* UNOWED_SLACK_SECS
    RetryFloor,   \* RETRY_FLOOR_SECS
    Grace,        \* EXPIRED_GRACE_SECS
    Replay,       \* the payment's `replay`
    ExpiresAt,    \* when the payment's invoice expires
    Notes,        \* the tables one note carries facts of
    MaxAway,      \* bound: how long a fact takes to reach a peer
    MaxTime,      \* bound: the last instant
    MaxRestarts   \* bound: crashes

ASSUME TimesAssumption ==
    /\ {Lease, Backoff, TakeoverAfter, Slack, RetryFloor, Grace, ExpiresAt} \subseteq Nat
    /\ {MaxAway, MaxTime, MaxRestarts, Replay} \subseteq Nat
    /\ Ranks \subseteq Nat

VARIABLES
    now,        \* unixNow
    held,       \* held[n]: the fact rows of n's ledger
    heardAt,    \* heardAt[n]: paid.heardAt, per paid fact held
    retry,      \* retry[n]: the local columns of n's outbox, per outbox fact held
    posting,    \* posting[n]: the rows n's tick is posting
    swept,      \* swept[n]: n's sweeper has run in this unit
    restarts,   \* how many crashes have happened
    seen,       \* seen[n]: facts n's watermarks have passed, kept or pruned
    got,        \* history: URLs that acknowledged the settlement
    abandoned,  \* history: URLs some row of which was parked
    asked       \* history: URLs an instance accepted that had heard of no settlement

vars == <<now, held, heardAt, retry, posting, swept, restarts, seen, got, abandoned, asked>>

-----------------------------------------------------------------------------
(* Facts *)

\* The payload of a fact is the URLs it names: all the webhooks of an accepted
\* fact, one for outbox and delivered, none for paid.  `at` is its timestamp, and
\* `tells` the settledAt that the body of an outbox row tells its receiver.
Tables == {"accepted", "paid", "outbox", "delivered"}
Fact == [table: Tables, origin: Nodes, urls: SUBSET Urls, at: 0..MaxTime, tells: 0..MaxTime]

Row(table, n, urls) ==
    [table |-> table, origin |-> n, urls |-> urls, at |-> now, tells |-> now]
Debt(n, u, settledAt) == [Row("outbox", n, {u}) EXCEPT !.tells = settledAt]
In(rows, table) == {f \in rows : f.table = table}

\* One payment from every accepted row: the union of their webhooks.
Webhooks(rows) == UNION {f.urls : f \in In(rows, "accepted")}

Settled(rows) == In(rows, "paid") # {}
Told(rows, urls) == \E f \in In(rows, "delivered") : f.urls = urls

\* An outbox row's local columns; parkedAt is {} while dueAt is set.
Column == [dueAt: Nat, attempts: Nat, parkedAt: SUBSET (0..MaxTime), until: Nat]

RetryUntil(rows, f) ==
    Max({f.at + RetryFloor} \cup (IF In(rows, "accepted") # {} THEN {ExpiresAt} ELSE {}))

Scheduled(rows, f, dueAt) ==
    [dueAt |-> dueAt, attempts |-> 0, parkedAt |-> {}, until |-> RetryUntil(rows, f)]

\* takeoverAt: the stagger is an eighth of the wait, at least one.
TakeoverAt(f, rank) ==
    f.at + TakeoverAfter + Max({1, (TakeoverAfter + 4) \div 8}) * rank

\* Function g with the rows of domain S entered by Entry.
With(g, S, Entry(_)) == [f \in DOMAIN g \cup S |-> IF f \in DOMAIN g THEN g[f] ELSE Entry(f)]

-----------------------------------------------------------------------------
(* Accepting and settling *)

\* Store.insert: a payment already settled is answered, not taken.  A webhook
\* the ledger has already writes nothing.
Accept(n, hooks) ==
    LET all == Webhooks(held[n]) \cup hooks
        fact == Row("accepted", n, all)
    IN  /\ now < ExpiresAt
        /\ ~Settled(held[n])
        /\ In(held[n], "accepted") = {} \/ all # Webhooks(held[n])
        /\ held' = [held EXCEPT ![n] = @ \cup {fact}]
        /\ seen' = [seen EXCEPT ![n] = @ \cup {fact}]
        /\ asked' = IF Settled(seen[n]) THEN asked ELSE asked \cup hooks
        /\ UNCHANGED <<now, heardAt, retry, posting, swept, restarts, got, abandoned>>

\* Store.paid with the preimage a poll returned: the paid fact and one outbox
\* row per webhook known here, due at once, in one transaction.  A poll that was
\* due before the expiry is made after it too, however late its host lets it.
Settle(n) ==
    LET paid == Row("paid", n, {})
        owed == {Debt(n, u, now) : u \in Webhooks(held[n])}
        rows == held[n] \cup {paid} \cup owed
        Due(f) == Scheduled(held[n], f, 0)
    IN  /\ In(held[n], "accepted") # {}
        /\ ~Settled(held[n])
        /\ held' = [held EXCEPT ![n] = rows]
        /\ seen' = [seen EXCEPT ![n] = @ \cup rows]
        /\ heardAt' = [heardAt EXCEPT ![n] = With(@, {paid}, LAMBDA f : now)]
        /\ retry' = [retry EXCEPT ![n] = With(@, owed, Due)]
        /\ UNCHANGED <<now, posting, swept, restarts, got, abandoned, asked>>

\* Ledger.absorb of a note: facts not known yet, accepted before outbox, each
\* outbox row scheduled for a takeover.
Hear(n, facts, rank) ==
    LET rows == held[n] \cup facts
        Due(f) == Scheduled(rows, f, TakeoverAt(f, rank))
    IN  /\ facts # {}
        /\ held' = [held EXCEPT ![n] = rows]
        /\ seen' = [seen EXCEPT ![n] = @ \cup facts]
        /\ heardAt' = [heardAt EXCEPT ![n] = With(@, In(facts, "paid"), LAMBDA f : now)]
        /\ retry' = [retry EXCEPT ![n] = With(@, In(facts, "outbox"), Due)]
        /\ UNCHANGED <<now, posting, swept, restarts, got, abandoned, asked>>

-----------------------------------------------------------------------------
(* Delivering *)

Due(n) ==
    {f \in DOMAIN retry[n] :
        retry[n][f].parkedAt = {} /\ retry[n][f].dueAt <= now /\ ~Told(held[n], f.urls)}

\* dueDeliveries: a tick leases every due row.  Ticks of one instance do not
\* overlap, and one tick's limit is past what one payment owes.
Take(n) ==
    /\ posting[n] = {}
    /\ Due(n) # {}
    /\ posting' = [posting EXCEPT ![n] = Due(n)]
    /\ retry' = [retry EXCEPT ![n] =
                   [f \in DOMAIN @ |-> IF f \in Due(n) THEN [@[f] EXCEPT !.dueAt = now + Lease]
                                       ELSE @[f]]]
    /\ UNCHANGED <<now, held, heardAt, swept, restarts, seen, got, abandoned, asked>>

\* The receiver answered 2xx: a tombstone.
Delivered(n, f) ==
    LET tombstone == Row("delivered", n, f.urls)
    IN  /\ f \in posting[n]
        /\ posting' = [posting EXCEPT ![n] = @ \ {f}]
        /\ got' = got \cup f.urls
        /\ held' = [held EXCEPT ![n] = @ \cup {tombstone}]
        /\ seen' = [seen EXCEPT ![n] = @ \cup {tombstone}]
        /\ UNCHANGED <<now, heardAt, retry, swept, restarts, abandoned, asked>>

\* The columns after one more failed attempt.
Undone(c) ==
    LET attempts == c.attempts + 1
        nextAt == now + Backoff * attempts
    IN  IF nextAt > c.until
        THEN [c EXCEPT !.attempts = attempts, !.parkedAt = {now}]
        ELSE [c EXCEPT !.attempts = attempts, !.dueAt = nextAt]

\* The post failed, or its answer did.  A row swept meanwhile has nothing left
\* to retry.
Undelivered(n, f) ==
    /\ f \in posting[n]
    /\ posting' = [posting EXCEPT ![n] = @ \ {f}]
    /\ IF f \in DOMAIN retry[n]
       THEN /\ retry' = [retry EXCEPT ![n][f] = Undone(@)]
            /\ abandoned' = IF Undone(retry[n][f]).parkedAt = {} THEN abandoned
                            ELSE abandoned \cup f.urls
       ELSE UNCHANGED <<retry, abandoned>>
    /\ UNCHANGED <<now, held, heardAt, swept, restarts, seen, got, asked>>

\* A crash in the middle of posting and a start on the same ledger.
Restart(n) ==
    /\ restarts < MaxRestarts
    /\ posting[n] # {}
    /\ posting' = [posting EXCEPT ![n] = {}]
    /\ restarts' = restarts + 1
    /\ UNCHANGED <<now, held, heardAt, retry, swept, seen, got, abandoned, asked>>

-----------------------------------------------------------------------------
(* The sweep *)

Old(t) == t <= now - Grace

\* Mutant of ForgetAccepted: a settled payment goes at once.
ForgetSettledAtOnce(rows) ==
    IF Old(ExpiresAt) \/ Settled(rows) THEN rows \ In(rows, "accepted") ELSE rows

\* The statements of Ledger.sweep in their order, each on what the last left.
ForgetAccepted(rows) ==
    IF Old(ExpiresAt) \/ \E f \in In(rows, "paid") : Old(f.at)
    THEN rows \ In(rows, "accepted") ELSE rows

\* Mutant of PruneOutbox: parked rows are never pruned.
PruneOnlyTold(rows, columns) ==
    rows \ {f \in In(rows, "outbox") : Old(f.at) /\ Told(rows, f.urls)}

PruneOutbox(rows, columns) ==
    rows \ {f \in In(rows, "outbox") :
              \/ \E t \in columns[f].parkedAt : Old(t)
              \/ Old(f.at) /\ Told(rows, f.urls)}

\* Row numbers count every paid row of the trigger; a payment goes when one of
\* its rows is past the depth it asked to keep.
PrunePaid(rows) ==
    IF Cardinality(In(rows, "paid")) > Replay
    THEN {f \in rows : f.table = "paid" => ~Old(f.at)} ELSE rows

PruneDelivered(rows) == {f \in rows : f.table = "delivered" => ~Old(f.at)}

Pruned(rows, columns) == PruneDelivered(PrunePaid(PruneOutbox(ForgetAccepted(rows), columns)))

\* Webhooks that no outbox row and no tombstone mentions.
Unowed(rows) ==
    {u \in Webhooks(rows) :
        \A f \in In(rows, "outbox") \cup In(rows, "delivered") : u \notin f.urls}

\* Mutant of Missing: no slack.
MissingAtOnce(rows, heard) == {<<u, p.at>> : u \in Unowed(rows), p \in In(rows, "paid")}

\* They are owed for every settlement heard of at least Slack ago: SELECT DISTINCT
\* counts settledAt in, so two settlements owe a webhook twice.
Missing(rows, heard) ==
    {<<u, p.at>> : u \in Unowed(rows), p \in {p \in In(rows, "paid") : heard[p] <= now - Slack}}

Sweep(n) ==
    LET left == Pruned(held[n], retry[n])
        owed == {Debt(n, m[1], m[2]) : m \in Missing(left, heardAt[n])}
        Soon(f) == Scheduled(left, f, 0)
    IN  /\ ~swept[n]
        /\ swept' = [swept EXCEPT ![n] = TRUE]
        /\ held' = [held EXCEPT ![n] = left \cup owed]
        /\ seen' = [seen EXCEPT ![n] = @ \cup owed]
        /\ heardAt' = [heardAt EXCEPT ![n] = Restrict(@, left \cap DOMAIN @)]
        /\ retry' = [retry EXCEPT ![n] = With(Restrict(@, left \cap DOMAIN @), owed, Soon)]
        /\ UNCHANGED <<now, posting, restarts, got, abandoned, asked>>

-----------------------------------------------------------------------------
(* Time *)

Unheard(n) == (UNION {held[q] : q \in Nodes}) \ seen[n]

\* A unit passes once the timers due in it have fired: every sweeper, every tick
\* with a due row, and a post ends well within one (HTTP_TIMEOUT_MS).
Tick ==
    /\ now < MaxTime
    /\ \A n \in Nodes : swept[n] /\ posting[n] = {} /\ Due(n) = {}
    /\ \A n \in Nodes : \A f \in Unheard(n) : now - f.at < MaxAway
    /\ now' = now + 1
    /\ swept' = [n \in Nodes |-> FALSE]
    /\ UNCHANGED <<held, heardAt, retry, posting, restarts, seen, got, abandoned, asked>>

NoRows == [f \in {} |-> 0]

Init ==
    /\ now = 0
    /\ held = [n \in Nodes |-> {}]
    /\ heardAt = [n \in Nodes |-> NoRows]
    /\ retry = [n \in Nodes |-> NoRows]
    /\ posting = [n \in Nodes |-> {}]
    /\ swept = [n \in Nodes |-> FALSE]
    /\ restarts = 0
    /\ seen = [n \in Nodes |-> {}]
    /\ got = {}
    /\ abandoned = {}
    /\ asked = {}

Next ==
    \/ \E n \in Nodes, hooks \in {{}} \cup {{u} : u \in Urls} : Accept(n, hooks)
    \/ \E n \in Nodes : Settle(n)
    \/ \E n \in Nodes, tables \in Notes, rank \in Ranks :
         Hear(n, {f \in Unheard(n) : f.table \in tables}, rank)
    \/ \E n \in Nodes : Take(n)
    \/ \E n \in Nodes : \E f \in posting[n] : Delivered(n, f)
    \/ \E n \in Nodes : \E f \in posting[n] : Undelivered(n, f)
    \/ \E n \in Nodes : Restart(n)
    \/ \E n \in Nodes : Sweep(n)
    \/ Tick

Spec == Init /\ [][Next]_vars

-----------------------------------------------------------------------------
(* Properties *)

\* The type of the state.  A row's due time, takeover included, is never before
\* the epoch (ledger.ts takeoverAt, undelivered).
TypeOK ==
    /\ now \in 0..MaxTime
    /\ held \in [Nodes -> SUBSET Fact]
    /\ \A n \in Nodes :
         /\ DOMAIN heardAt[n] = In(held[n], "paid")
         /\ DOMAIN retry[n] = In(held[n], "outbox")
         /\ \A f \in DOMAIN heardAt[n] : heardAt[n][f] \in f.at..now
         /\ \A f \in DOMAIN retry[n] : retry[n][f] \in Column
    /\ posting \in [Nodes -> SUBSET Fact]
    /\ swept \in [Nodes -> BOOLEAN]
    /\ restarts \in 0..MaxRestarts
    /\ seen \in [Nodes -> SUBSET Fact]
    /\ got \subseteq Urls /\ abandoned \subseteq Urls /\ asked \subseteq Urls

\* A webhook somebody registered is never forgotten: until its receiver has
\* acknowledged the settlement or its retries ran out, some instance still owes it, or still has
\* the accepted row from which its sweep will owe it (ledger.ts settle, sweep,
\* undelivered).  Crashes between lease and answer, two settlers and a webhook
\* that only one of them knew included.  Excepted is a webhook taken on by an
\* instance that had heard of a settlement and pruned it (see asked).
HookAccountedFor ==
    \A u \in asked :
        \/ u \in got \cup abandoned
        \/ \E n \in Nodes : u \in Webhooks(held[n])
        \/ \E n \in Nodes : \E f \in DOMAIN retry[n] : u \in f.urls /\ retry[n][f].parkedAt = {}
        \/ \A n \in Nodes : \A f \in seen[n] : f.table # "paid"

\* The sweep owes what nobody owes, it does not invent: it owes a webhook only on
\* the strength of a settlement it heard of Slack ago whose settler did not owe
\* it, though a paid fact and its outbox row may come apart on the way, or the
\* row be gone again (ledger.ts sweep, UNOWED_SLACK_SECS).
OwedBySettler(p, u) ==
    \E f \in seen[p.origin] :
        f.table = "outbox" /\ f.origin = p.origin /\ f.at = p.at /\ f.urls = {u}
SweepInventsNoDebt ==
    [][\A n \in Nodes : swept'[n] /\ ~swept[n] =>
          \A f \in In(held'[n] \ held[n], "outbox") : \A u \in f.urls :
             \E p \in DOMAIN heardAt[n] :
                heardAt[n][p] <= now - Slack /\ ~OwedBySettler(p, u)]_vars

\* "An hour after a payment settles or expires, the sweep deletes everything the
\* gateway could read about it" (docs/design.md:46).  No run lists this, because
\* the code does not keep it: an outbox row goes an hour after its tombstone's
\* age or its parking, and it is parked an hour or more after it was written.
GoneAnHourLater ==
    LET settlements == In(UNION {seen[q] : q \in Nodes}, "paid")
    IN  Replay = 0 =>
          \A n \in Nodes : held[n] # {} =>
              now <= Max({ExpiresAt} \cup {p.at : p \in settlements}) + Grace

\* What is left of that sentence: it holds of what was accepted and of the
\* settlement itself, and everything else goes too, later but in bounded time,
\* whatever the order of settlements, takeovers, failures, crashes and
\* tombstones.  A tombstone goes an hour after it was written, a debt, its payload
\* with it, an hour after its last retry, which each crash in the middle of a
\* post puts off by a lease (ledger.ts sweep, undelivered).
LastsUntil(f) ==
    IF f.table = "accepted" THEN ExpiresAt + Grace
    ELSE IF f.table = "outbox"
         THEN Max({f.at + RetryFloor, ExpiresAt}) + Lease * restarts + Grace
    ELSE f.at + Grace
NothingLeftBehind ==
    Replay = 0 => \A n \in Nodes : \A f \in held[n] : now <= LastsUntil(f)

\* "A payment created with `replay` keeps that many of its trigger's newest
\* settlements": an instance that recorded the settlement still has it
\* (ledger.ts sweep).
ReplayKept ==
    Replay > 0 => \A n \in Nodes : Settled(seen[n]) => Settled(held[n])

=============================================================================
