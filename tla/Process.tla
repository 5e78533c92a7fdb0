------------------------------- MODULE Process -------------------------------
(***************************************************************************)
(* The watch loop of ONE instance (src/index.ts runTick, armTicker, stop,  *)
(* leave, vitals, readiness; src/watch.ts tick, pollDue, deliverDue,       *)
(* spend, turnOf; src/ledger.ts nextDueAt, duePolls, dueDeliveries).       *)
(*                                                                         *)
(* One timer sleeps until the first row falls due.  When it fires, a tick  *)
(* leases what is due and runs until every poll and every delivery it took *)
(* has ended; the timer is armed again by the end of a tick and by every   *)
(* change of the schedule, but never during a tick and never while the     *)
(* instance drains.  A poll first buys a slot of its host's budget.        *)
(*                                                                         *)
(* Which instance polls is module Turns' business: here the instance is    *)
(* first in line, and its peers are a number that divides the budget.      *)
(* What a delivery says, and who owes it, is module Delivery's.  A poll    *)
(* that is answered makes the payment due Eager later or parks it.         *)
(***************************************************************************)
EXTENDS Integers, FiniteSets, FiniteSetsExt

CONSTANTS
    Payments,
    HostOf,        \* HostOf[p]: the host the payment's verify URL names
    PerTick,       \* workPerTick
    Lease,         \* LEASE_SECS
    Eager,         \* eagerDelayMs
    Interval,      \* 1000 / pollsPerSecond
    LongestWait,   \* LONGEST_WAIT_MS
    LongestSleep,  \* LONGEST_SLEEP_MS
    LongestTick,   \* LONGEST_TICK_MS
    TickStall,     \* tickStallMs
    DrainTimeout,  \* drainTimeoutMs
    ReadyGrace,    \* readyGraceMs
    Backoff,       \* deliveryBackoffSecs
    Grace,         \* EXPIRED_GRACE_SECS
    AskTime,       \* bound: how long a wallet or a webhook takes to answer
    MaxInstances,  \* bound: how many instances there can be, itself among them
    MaxNews,       \* bound: how often a peer is heard from, a poll parked, a webhook refused, the process stopped
    MaxTime        \* bound: the last instant

Hosts == {HostOf[p] : p \in Payments}

ASSUME WorkAssumption == PerTick \in Nat \ {0} /\ IsFiniteSet(Payments)
ASSUME TimesAssumption ==
    /\ {Lease, LongestWait, LongestSleep, LongestTick, TickStall, DrainTimeout,
        ReadyGrace, Grace, AskTime, MaxNews, MaxTime} \subseteq Nat
    /\ {Eager, Interval, Backoff, MaxInstances} \subseteq Nat \ {0}

VARIABLES
    now,
    due,         \* due[p]: {schedule.dueAt}, or {} when parked or not scheduled
    open,        \* the payments this instance watches and nobody settled
    paid,        \* the payments it knows to be paid
    outbox,      \* outbox[p]: {the row}: dueAt ({} for NULL), owedAt, and whether it is told
    up,          \* the process runs
    startedAt, ticking, tickStartedAt, tickDueAt, draining,
    ticker,      \* {when the timer fires}, or {}
    leaveBy,     \* {when the drain times out}, or {}
    flight,      \* what the tick waits for: a poll from its slot on, a delivery
    nextAt,      \* budget.nextAt
    instances,   \* store.instances()
    caughtUp,    \* store.caughtUp()
    news,        \* how much of MaxNews has happened
    slots,       \* history: the slots this process spent, and how long each was to last
    lastAsk      \* history: lastAsk[p]: when p was last asked about, or began to be due

ledger == <<due, open, paid, outbox>>
loop == <<ticking, tickStartedAt, tickDueAt, ticker, flight, nextAt, slots>>
life == <<up, startedAt, draining, leaveBy>>
vars == <<now, ledger, loop, life, instances, caughtUp, news, lastAsk>>

-----------------------------------------------------------------------------
(* The timer *)

News == news < MaxNews /\ news' = news + 1

Rows(o) == UNION {o[p] : p \in Payments}

\* Ledger.nextDueAt: over the schedule and ALL of the outbox, told or not.
NextDueAt(d, o) == UNION ({d[p] : p \in Payments} \cup {r.due : r \in Rows(o)})

\* Mutant of ArmTicker: armed while the instance drains.
ArmTickerAnyway(busy, d, o) ==
    IF busy THEN UNCHANGED <<ticker, tickDueAt>>
    ELSE /\ tickDueAt' = Min(NextDueAt(d, o) \cup {now + LongestSleep})
         /\ ticker' = {Max({tickDueAt', now})}

\* armTicker: not during a tick, and not while draining.
ArmTicker(busy, d, o) ==
    IF busy \/ draining THEN UNCHANGED <<ticker, tickDueAt>>
    ELSE /\ tickDueAt' = Min(NextDueAt(d, o) \cup {now + LongestSleep})
         /\ ticker' = {Max({tickDueAt', now})}

\* Mutant of Scheduled: a change of the schedule does not arm the timer.
ScheduledUnarmed == UNCHANGED loop

\* onScheduled, after every change of the schedule from outside a tick.
Scheduled ==
    /\ ArmTicker(ticking, due', outbox')
    /\ UNCHANGED <<ticking, tickStartedAt, flight, nextAt, slots>>

-----------------------------------------------------------------------------
(* Work arrives *)

\* Store.insert, also of a payment heard of from a peer (standby).
Insert(p) ==
    /\ up /\ p \notin open \cup paid
    /\ open' = open \cup {p}
    /\ due' = [due EXCEPT ![p] = {now}]
    /\ lastAsk' = [lastAsk EXCEPT ![p] = now]
    /\ UNCHANGED <<paid, outbox>>
    /\ Scheduled
    /\ UNCHANGED <<now, life, instances, caughtUp, news>>

\* onFacts: a peer settled it.  Its outbox row comes later, or is made by a sweep.
HearPaid(p) ==
    /\ News /\ up /\ p \in open
    /\ open' = open \ {p}
    /\ paid' = paid \cup {p}
    /\ due' = [due EXCEPT ![p] = {}]
    /\ UNCHANGED outbox
    /\ Scheduled
    /\ UNCHANGED <<now, life, instances, caughtUp, lastAsk>>

\* onPolled: a peer asked, so the turn is put off as if this instance had.
HearPolled(p) ==
    /\ News /\ up /\ p \in open
    /\ due' = [due EXCEPT ![p] = {now + Eager}]
    /\ lastAsk' = [lastAsk EXCEPT ![p] = now]
    /\ UNCHANGED <<open, paid, outbox>>
    /\ Scheduled
    /\ UNCHANGED <<now, life, instances, caughtUp>>

\* onMissed: brought forward, unless it is parked.
HearMissed(p) ==
    /\ News /\ up /\ p \in open
    /\ due' = [due EXCEPT ![p] = {Min({t, now}) : t \in @}]
    /\ UNCHANGED <<open, paid, outbox>>
    /\ Scheduled
    /\ UNCHANGED <<now, life, instances, caughtUp, lastAsk>>

\* onFacts with a delivered fact: the row stays, and keeps its time.
HearTold(p) ==
    /\ News /\ up /\ \E r \in outbox[p] : ~r.told
    /\ outbox' = [outbox EXCEPT ![p] = {[r EXCEPT !.told = TRUE] : r \in @}]
    /\ UNCHANGED <<due, open, paid>>
    /\ Scheduled
    /\ UNCHANGED <<now, life, instances, caughtUp, lastAsk>>

Owed == [due |-> {0}, owedAt |-> now, told |-> FALSE]

\* Store.sweep: told and parked rows go with age, a missing one is owed at once.
Sweep ==
    /\ up /\ ~draining
    /\ outbox' = [p \in Payments |->
          IF p \in paid /\ outbox[p] = {} THEN {Owed}
          ELSE {r \in outbox[p] : ~(r.owedAt + Grace <= now /\ (r.told \/ r.due = {}))}]
    /\ UNCHANGED <<due, open, paid>>
    /\ Scheduled
    /\ UNCHANGED <<now, life, instances, caughtUp, news, lastAsk>>

-----------------------------------------------------------------------------
(* A tick *)

\* The first PerTick of the rows that are due, by their time; ties in any order.
Earliest(S, at) ==
    {D \in SUBSET S :
        /\ Cardinality(D) = Min({PerTick, Cardinality(S)})
        /\ \A p \in D, q \in S \ D : at[p] <= at[q]}

DuePolls == {p \in Payments : \E t \in due[p] : t <= now}

DueDeliveries == {p \in Payments : \E r \in outbox[p] : ~r.told /\ \E t \in r.due : t <= now}

\* Mutant of Slot: reckoned from the present, not from the slot before.
SlotFromNow(h, k) == now + k * Interval * instances

\* spend: the k-th poll of a tick that asks for a slot of h.  The budget is shared
\* by the instances this one can see.
Slot(h, k) == Max({now, nextAt[h]}) + k * Interval * instances

\* Mutant of Affordable: a poll that would have to wait at all is put off.
AffordableAtOnce(h, k) == Slot(h, k) <= now

Affordable(h, k) == Slot(h, k) - now <= LongestWait

\* spend moves the host's next slot on for every poll it lets pass.
NextSlot(h, bought) == IF bought = 0 THEN nextAt[h] ELSE Slot(h, bought)

At(rows) == [p \in Payments |-> IF rows[p] = {} THEN 0 ELSE Min(rows[p])]

\* runTick: pollDue and deliverDue lease what they take; the polls buy their slots
\* in an order of the database's choosing, and one that would wait too long goes
\* back on the schedule for when its host is free (turnOf).
RunTick ==
    /\ up /\ \E t \in ticker : t <= now
    /\ ticking' = TRUE /\ tickStartedAt' = now /\ ticker' = {}
    /\ \E P \in Earliest(DuePolls, At(due)),
          H \in Earliest(DueDeliveries, At([p \in Payments |-> UNION {r.due : r \in outbox[p]}])) :
       \E rank \in [P -> 0..Cardinality(P)] :
          LET mine(p) == {q \in P : HostOf[q] = HostOf[p]}
              buys == {p \in P : Affordable(HostOf[p], rank[p])}
              of(h, S) == Cardinality({p \in S : HostOf[p] = h})
          IN  /\ \A p \in P : rank[p] < Cardinality(mine(p))
              /\ \A p, q \in P : p # q /\ HostOf[p] = HostOf[q] => rank[p] # rank[q]
              /\ nextAt' = [h \in Hosts |-> NextSlot(h, of(h, buys))]
              /\ due' = [p \in Payments |-> IF p \notin P THEN due[p]
                                            ELSE IF p \in buys THEN {now + Lease}
                                            ELSE {nextAt'[HostOf[p]]}]
              /\ outbox' = [p \in Payments |->
                    IF p \in H THEN {[r EXCEPT !.due = {now + Lease}] : r \in outbox[p]} ELSE outbox[p]]
              /\ flight' = {[kind |-> "poll", p |-> p, at |-> Slot(HostOf[p], rank[p])] : p \in buys}
                    \cup {[kind |-> "hook", p |-> p, at |-> now] : p \in H}
              /\ slots' = {s \in slots : s.at + s.gap > now}
                    \cup {[p |-> p, at |-> Slot(HostOf[p], rank[p]), gap |-> Interval * instances] : p \in buys}
    /\ UNCHANGED <<now, open, paid, tickDueAt, life, instances, caughtUp, news, lastAsk>>

InFlight(kind, p) == {f \in flight : f.kind = kind /\ f.p = p /\ f.at <= now}

\* Store.postponed is an UPDATE: a row that is gone is not brought back.
Turned(p, next) == IF p \in open THEN [due EXCEPT ![p] = next] ELSE due

\* poll: not paid yet, or no answer.  It is due again, or parked for good.
PollEnds(p, next) ==
    /\ IF next = {} THEN News ELSE UNCHANGED news
    /\ up /\ InFlight("poll", p) # {}
    /\ flight' = flight \ InFlight("poll", p)
    /\ due' = Turned(p, next)
    /\ lastAsk' = [lastAsk EXCEPT ![p] = now]
    /\ UNCHANGED <<now, open, paid, outbox, ticking, tickStartedAt, tickDueAt, ticker, nextAt, slots>>
    /\ UNCHANGED <<life, instances, caughtUp>>

\* Store.paid: the schedule forgets it and the webhook is owed at once.
PollFinds(p) ==
    /\ up /\ InFlight("poll", p) # {}
    /\ flight' = flight \ InFlight("poll", p)
    /\ due' = [due EXCEPT ![p] = {}]
    /\ open' = open \ {p}
    /\ paid' = paid \cup {p}
    /\ outbox' = IF p \in open THEN [outbox EXCEPT ![p] = {Owed}] ELSE outbox
    /\ ArmTicker(TRUE, due', outbox')
    /\ UNCHANGED <<now, ticking, tickStartedAt, nextAt, slots, life, instances, caughtUp, news, lastAsk>>

\* deliver: the webhook was taken; the row keeps the time of its lease.
HookTaken(p) ==
    /\ up /\ InFlight("hook", p) # {}
    /\ flight' = flight \ InFlight("hook", p)
    /\ outbox' = [outbox EXCEPT ![p] = {[r EXCEPT !.told = TRUE] : r \in @}]
    /\ UNCHANGED <<now, due, open, paid, ticking, tickStartedAt, tickDueAt, ticker, nextAt, slots>>
    /\ UNCHANGED <<life, instances, caughtUp, news, lastAsk>>

\* deliver: refused or not answered.  Retried, or parked.
HookRefused(p, next) ==
    /\ News /\ up /\ InFlight("hook", p) # {}
    /\ flight' = flight \ InFlight("hook", p)
    /\ outbox' = [outbox EXCEPT ![p] = {[r EXCEPT !.due = next] : r \in @}]
    /\ UNCHANGED <<now, due, open, paid, ticking, tickStartedAt, tickDueAt, ticker, nextAt, slots>>
    /\ UNCHANGED <<life, instances, caughtUp, lastAsk>>

\* The tick's promise is kept: finally.
EndTick ==
    /\ up /\ ticking /\ flight = {}
    /\ ticking' = FALSE
    /\ ArmTicker(FALSE, due, outbox)
    /\ UNCHANGED <<now, ledger, tickStartedAt, flight, nextAt, slots>>
    /\ UNCHANGED <<life, instances, caughtUp, news, lastAsk>>

-----------------------------------------------------------------------------
(* Starting and leaving *)

Stopped ==
    /\ up' = FALSE /\ draining' = FALSE /\ leaveBy' = {}
    /\ ticking' = FALSE /\ ticker' = {} /\ flight' = {} /\ slots' = {}
    /\ startedAt' = 0 /\ tickStartedAt' = 0 /\ tickDueAt' = 0
    /\ nextAt' = [h \in Hosts |-> 0]
    /\ instances' = 1 /\ caughtUp' = FALSE
    /\ UNCHANGED <<now, ledger, lastAsk>>

\* leave: the first signal drains, the second exits at once.
Signal ==
    /\ up
    /\ IF draining THEN Stopped /\ UNCHANGED news
       ELSE /\ News
            /\ draining' = TRUE
            /\ leaveBy' = {now + DrainTimeout}
            /\ ticker' = {}
            /\ UNCHANGED <<now, ledger, ticking, tickStartedAt, tickDueAt, flight, nextAt, slots>>
            /\ UNCHANGED <<up, startedAt, instances, caughtUp, lastAsk>>

\* stop: the tick in flight, or the timeout, whichever is sooner.
Exit ==
    /\ up /\ draining
    /\ ~ticking \/ \E t \in leaveBy : t <= now
    /\ Stopped
    /\ UNCHANGED news

Crash == up /\ News /\ Stopped

\* start, on the ledger as it was left.
Start ==
    /\ ~up
    /\ UNCHANGED news
    /\ up' = TRUE /\ startedAt' = now
    /\ tickStartedAt' = now
    /\ ArmTicker(FALSE, due, outbox)
    /\ UNCHANGED <<now, ledger, ticking, flight, slots, nextAt, instances, caughtUp, draining, leaveBy, lastAsk>>

\* Peers come and go; one brings the instance up to date.
Meet ==
    /\ up /\ News
    /\ instances' \in 1..MaxInstances
    /\ caughtUp' \in (IF instances > 1 THEN {caughtUp, TRUE} ELSE {caughtUp})
    /\ <<instances', caughtUp'>> # <<instances, caughtUp>>
    /\ UNCHANGED <<now, ledger, loop, life, lastAsk>>

\* The event loop is not blocked: what is due at this instant happens in it.  Ticks
\* with nothing to take follow each other a millisecond apart until the unit is over.
Tick ==
    /\ now < MaxTime
    /\ up => /\ (\A t \in ticker : t > now) \/ (tickStartedAt = now /\ DuePolls \cup DueDeliveries = {})
             /\ ticking => flight # {}
             /\ \A f \in flight : now < f.at + AskTime
             /\ draining => ticking /\ \A t \in leaveBy : t > now
    /\ now' = now + 1
    /\ UNCHANGED <<ledger, loop, life, instances, caughtUp, news, lastAsk>>

-----------------------------------------------------------------------------
(* What the process says of itself *)

Stalled ==
    IF ticking THEN now - tickStartedAt > TickStall + LongestTick ELSE now - tickDueAt > TickStall

\* awaitPeers is TRUE: the instance was given peers.
CatchingUp == ~caughtUp /\ (instances > 1 \/ now - startedAt < ReadyGrace)

Vitals ==
    IF draining THEN "draining" ELSE IF Stalled THEN "stalled"
    ELSE IF CatchingUp THEN "catching-up" ELSE "serving"

\* GET /health and GET /ready.
Healthy == Vitals # "stalled"
Ready == Vitals \notin {"draining", "catching-up"}

-----------------------------------------------------------------------------

Init ==
    /\ now = 0
    /\ due = [p \in Payments |-> {}]
    /\ open = {} /\ paid = {}
    /\ outbox = [p \in Payments |-> {}]
    /\ up = TRUE /\ startedAt = 0 /\ draining = FALSE /\ leaveBy = {} 
    /\ ticking = FALSE /\ tickStartedAt = 0
    /\ tickDueAt = LongestSleep /\ ticker = {tickDueAt}
    /\ flight = {} /\ slots = {}
    /\ nextAt = [h \in Hosts |-> 0]
    /\ instances = 1 /\ caughtUp = FALSE /\ news = 0
    /\ lastAsk = [p \in Payments |-> 0]

Next ==
    \/ \E p \in Payments :
          \/ Insert(p) \/ HearPaid(p) \/ HearTold(p)
          \/ HearPolled(p) \/ HearMissed(p)
          \/ PollEnds(p, {now + Eager}) \/ PollEnds(p, {}) \/ PollFinds(p)
          \/ HookTaken(p) \/ HookRefused(p, {now + Backoff}) \/ HookRefused(p, {})
    \/ Sweep \/ RunTick \/ EndTick
    \/ Signal \/ Exit \/ Crash \/ Start \/ Meet
    \/ Tick

Spec == Init /\ [][Next]_vars

-----------------------------------------------------------------------------
(* Properties *)

\* The longest a tick runs: the wait for a slot and the answer.
TickRuns == LongestWait + AskTime

\* How long it takes until the n that may go first have been taken, PerTick in a
\* tick, and then the one that waits for them.
Backlog(n) == (1 + n \div PerTick) * TickRuns

\* Nothing that is due is slept over, whoever scheduled it and whenever: a poll or
\* a delivery that fell due while the instance runs is taken within a tick for
\* every batch ahead of it (armTicker, onScheduled, ORDER BY dueAt LIMIT).  Another
\* payment goes ahead of a poll once.  It goes ahead of a delivery twice when it
\* was due before, was told and swept, and is owed again at 0; not more often while
\* the backlog is worked off before the next sweep forgets that it was told.
NothingOverdue ==
    up /\ ~draining =>
        LET others == Cardinality(Payments) - 1
            late(t, ahead) == now > Max({t, startedAt}) + Backlog(ahead)
        IN  /\ \A p \in Payments : \A t \in due[p] : ~late(t, others)
            /\ Backlog(2 * others) <= Grace =>
                  \A p \in Payments : \A r \in outbox[p] :
                      ~r.told => \A t \in r.due : ~late(Max({t, r.owedAt}), 2 * others)

\* Polls of one host are never closer than its budget allows, over all the ticks
\* of a process and however the number of instances changes: no slot begins before
\* the one before it has run out (spend).
HostIsPaced ==
    \A s, r \in slots :
        s # r /\ HostOf[s.p] = HostOf[r.p] /\ s.at <= r.at => r.at >= s.at + s.gap

\* A draining instance takes nothing on: from the signal on what is in flight only
\* shrinks, whatever is scheduled meanwhile and however the tick ends.
DrainOnlyShrinks == [][draining => flight' \subseteq flight]_vars

\* A payment is asked about again and again if a tick has room for all that name its
\* host: each of them then waits for its slot and none is put off (turnOf), whatever
\* peers bring forward, however crowded the other hosts are and in whatever order the
\* polls of a tick buy their slots (spend).  It is taken within a tick for every batch
\* ahead of it; a poll that a crash cut off counts from its lease.
Rivals(h) == {q \in Payments : HostOf[q] = h}
Roomy(h) == Cardinality(Rivals(h)) * Interval * MaxInstances <= LongestWait
NobodyStarves ==
    up /\ ~draining => \A p \in open :
        due[p] # {} /\ Roomy(HostOf[p]) =>
            now <= Max({lastAsk[p] + Eager, startedAt + Lease})
                     + Backlog(Cardinality(Payments) - 1) + TickRuns

\* "an idle instance sleeps instead of ticking, and stays live for as long as it
\* sleeps": with nothing scheduled and nothing owed, /health says OK.
IdleStaysLive ==
    up /\ open = {} /\ (\A r \in Rows(outbox) : r.told) => Healthy

=============================================================================
