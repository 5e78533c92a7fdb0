-------------------------------- MODULE Turns --------------------------------
(***************************************************************************)
(* Who asks the wallet about ONE payment, and when (src/watch.ts poll,     *)
(* nextDue; src/store.ts turn, standby, polled, missed, postponed;         *)
(* src/ledger.ts schedule; the notes `polled` and `missed` of              *)
(* src/gossip.ts; the ticker of src/index.ts).                             *)
(*                                                                         *)
(* Every instance that holds the payment has a time of its own at which to *)
(* poll.  It stands behind the peers it can see that a hash ranks ahead,   *)
(* one wait for each.  A poll that got an answer tells the peers the next  *)
(* turn; one that got none makes them come forward.  Nothing else is       *)
(* agreed on, and nobody has to be alive.                                  *)
(*                                                                         *)
(* Facts (accepted, paid) spread as in module Replication: here they cross *)
(* a link within the unit.  The gap until the next poll (the eager         *)
(* interval, a tenth of the wait, the pace the host asked for) is any      *)
(* member of Gaps; a host without a slot puts a poll off by a member of   *)
(* Busy.  A fault is a link that drops, an instance that dies or freezes,  *)
(* a poll that gets no answer, a host too busy to be polled, and an agent  *)
(* that leaves; MaxFaults bounds them all together.                        *)
(***************************************************************************)
EXTENDS Naturals, FiniteSets, FiniteSetsExt

CONSTANTS
    Nodes,      \* the instances
    Standing,   \* Standing[n]: the hash that ranks n for this payment
    Eager,      \* eagerDelayMs
    Gaps,       \* what pollDelayMs can be, Eager among them
    Busy,       \* how far off the slot of a busy host can be
    MaxGap,     \* bound: the longest of Gaps and Busy
    Lease,      \* LEASE_SECS
    PollAtLeast,\* bound: how soon a poll ends
    PollTime,   \* bound: how long a poll takes
    ExpiresAt,  \* when the payment expires
    MaxDelay,   \* bound: the longest delay of a note
    MaxClock,   \* bound: the last instant
    MaxFaults   \* bound: how many faults happen

ASSUME StandingAssumption ==
    /\ IsFiniteSet(Nodes)
    /\ Standing \in [Nodes -> Nat]
    /\ \A n, q \in Nodes : Standing[n] = Standing[q] => n = q
ASSUME GapsAssumption ==
    /\ MaxGap \in Nat /\ Gaps \cup Busy \subseteq 1..MaxGap /\ Eager \in Gaps
    /\ PollAtLeast <= PollTime
    /\ {Lease, PollAtLeast, PollTime, ExpiresAt, MaxDelay, MaxClock, MaxFaults} \subseteq Nat

VARIABLES
    byAgent,    \* whether the verify URL names an agent; never changes
    delay,      \* how long a note may take; never changes
    clock,      \* unixNow
    paid,       \* {when the payer paid}, or {}
    accepted,   \* accepted[n]: {the acceptedAt of the fact n holds}, or {}
    row,        \* row[n]: n's schedule has a row
    due,        \* due[n]: {dueAt}, or {} for NULL
    polling,    \* polling[n]: {the poll in flight}: when it began, and whether it was paid by then
    settled,    \* settled[n]: n's ledger has a paid fact
    peers,      \* peers[n]: the instances n counts as peers
    socket,     \* the instances that hold a socket of the agent
    dead,       \* the instances that crashed or froze
    net,        \* polled and missed notes in flight
    faults,     \* how many faults have happened
    attended,   \* history: {when the agent's socket last landed}, or {}
    since       \* history: since[n]: {when n took the payment on}, or {}

schedule == <<row, due>>
world == <<byAgent, delay, clock, paid, peers, socket, dead, faults, attended>>
turnVars == <<world, accepted, since, schedule, polling, settled, net>>

-----------------------------------------------------------------------------
(* The order *)

Rank(n, among) == Cardinality({q \in among : Standing[q] > Standing[n]})

Wait(gap) == Min({Max({gap, 1}), Lease})

\* Mutants of Turn: nobody waits; the holder of the socket waits too.
TurnUnranked(n, next, gap, among) == next
TurnByHash(n, next, gap, among) == next + Rank(n, among) * Wait(gap)

\* Store.turn: one wait, at most a lease, for every instance ranked ahead; none
\* for the instance that holds the agent's socket.
Turn(n, next, gap, among) ==
    next + (IF byAgent /\ n \in socket THEN 0 ELSE Rank(n, among) * Wait(gap))

\* Mutant of NextDue: no turn where the next one would come after expiry.
NextDueUncapped(gap) == IF clock + gap >= ExpiresAt THEN {} ELSE {clock + gap}

\* nextDue: no turn after expiry, and one right at it.  {} is NULL.
NextDue(gap) == IF clock >= ExpiresAt THEN {} ELSE {Min({clock + gap, ExpiresAt})}

Less(x, y) == IF x > y THEN x - y ELSE 0

\* Store.postponed, an UPDATE: a row that is gone is not brought back.
Postponed(n, next) ==
    [due EXCEPT ![n] = IF row[n] THEN {Turn(n, t, Less(t, clock), peers[n]) : t \in next} ELSE @]

Polled(n, q, next) == [kind |-> "polled", from |-> n, to |-> q, next |-> next, sent |-> clock]
Missed(n, q) == [kind |-> "missed", from |-> n, to |-> q, next |-> {}, sent |-> clock]

Awake(n) == n \notin dead

-----------------------------------------------------------------------------
(* Taking the payment on *)

Schedule(n, at) ==
    IF row[n] THEN UNCHANGED schedule
    ELSE /\ row' = [row EXCEPT ![n] = TRUE]
         /\ due' = [due EXCEPT ![n] = {at}]

\* Store.insert at the instance the client asked.
Accept(n) ==
    /\ Awake(n) /\ clock < ExpiresAt
    /\ accepted[n] = {} /\ ~settled[n]
    /\ accepted' = [accepted EXCEPT ![n] = {clock}]
    /\ Schedule(n, Turn(n, clock, Eager, peers[n]))
    /\ since' = [since EXCEPT ![n] = {clock}]
    /\ UNCHANGED <<world, polling, settled, net>>

\* Store.standby: a copy heard within the first interval joins the first turn, a
\* later one waits an interval from now.
Standby(n, acceptedAt, gap) ==
    Turn(n, IF clock - acceptedAt < gap THEN acceptedAt ELSE clock + gap, gap, peers[n])

\* absorb of the accepted fact.
Copy(n, q, gap) ==
    /\ Awake(n) /\ q \in peers[n] \ dead
    /\ accepted[n] = {}
    /\ \E t \in accepted[q] :
          /\ accepted' = [accepted EXCEPT ![n] = {t}]
          /\ IF settled[n] THEN UNCHANGED schedule ELSE Schedule(n, Standby(n, t, gap))
    /\ since' = [since EXCEPT ![n] = {clock}]
    /\ UNCHANGED <<world, polling, settled, net>>

\* onFacts with a paid fact: the row is forgotten.
Hear(n, q) ==
    /\ Awake(n) /\ q \in peers[n] \ dead
    /\ settled[q] /\ ~settled[n]
    /\ settled' = [settled EXCEPT ![n] = TRUE]
    /\ row' = [row EXCEPT ![n] = FALSE]
    /\ due' = [due EXCEPT ![n] = {}]
    /\ UNCHANGED <<world, accepted, since, polling, net>>

-----------------------------------------------------------------------------
(* Polling *)

IsDue(n) == Awake(n) /\ polling[n] = {} /\ \E t \in due[n] : t <= clock

Faulty == faults < MaxFaults /\ faults' = faults + 1
elsewhere == <<byAgent, delay, clock, paid, peers, socket, dead, attended>>

\* duePolls leases the row and poll asks the wallet or the agent.
Poll(n) ==
    /\ IsDue(n)
    /\ byAgent => n \in socket
    /\ polling' = [polling EXCEPT ![n] = {[at |-> clock, paid |-> paid # {}]}]
    /\ due' = [due EXCEPT ![n] = {clock + Lease}]
    /\ UNCHANGED <<world, row, accepted, since, settled, net>>

\* poll without a socket of the agent: the turn is put off here, nobody is told.
StandAside(n) ==
    /\ IsDue(n)
    /\ byAgent /\ n \notin socket
    /\ \E gap \in Gaps : due' = Postponed(n, NextDue(gap))
    /\ UNCHANGED <<world, row, accepted, since, polling, settled, net>>

\* spend refused, the host is busy until turnOf: put off here, nobody is told.
PutOff(n, busy) ==
    /\ Faulty
    /\ IsDue(n)
    /\ byAgent => n \in socket
    /\ due' = Postponed(n, {clock + busy})
    /\ UNCHANGED <<elsewhere, row, accepted, since, polling, settled, net>>

Began(n) == {p.at : p \in polling[n]}
Ends(n) == Awake(n) /\ \E t \in Began(n) : clock >= t + PollAtLeast

\* The wallet said not yet: it looked no sooner than the poll began, so it was
\* not paid by then.
Answer(n, gap) ==
    /\ Ends(n)
    /\ \E p \in polling[n] : ~p.paid
    /\ polling' = [polling EXCEPT ![n] = {}]
    /\ due' = Postponed(n, NextDue(gap))
    /\ net' = net \cup {Polled(n, q, NextDue(gap)) : q \in peers[n] \ dead}
    /\ UNCHANGED <<world, row, accepted, since, settled>>

\* The wallet gave the preimage: Store.paid.
Find(n) ==
    /\ Ends(n)
    /\ paid # {}
    /\ polling' = [polling EXCEPT ![n] = {}]
    /\ settled' = [settled EXCEPT ![n] = TRUE]
    /\ row' = [row EXCEPT ![n] = FALSE]
    /\ due' = [due EXCEPT ![n] = {}]
    /\ UNCHANGED <<world, accepted, since, net>>

\* The poll got no answer.
Miss(n, gap) ==
    /\ Faulty
    /\ Ends(n)
    /\ polling' = [polling EXCEPT ![n] = {}]
    /\ due' = Postponed(n, NextDue(gap))
    /\ net' = net \cup {Missed(n, q) : q \in peers[n] \ dead}
    /\ UNCHANGED <<elsewhere, row, accepted, since, settled>>

-----------------------------------------------------------------------------
(* Notes *)

\* onPolled adopts the turn as if it had polled itself.
Adopt(m) ==
    LET n == m.to
    IN  /\ m.kind = "polled" /\ Awake(n)
        /\ due' = IF accepted[n] # {} THEN Postponed(n, m.next) ELSE due
        /\ net' = net \ {m}
        /\ UNCHANGED <<world, row, accepted, since, polling, settled>>

\* onMissed ranks again without the one that missed and never moves a turn back.
ComeForward(m) ==
    LET n == m.to
        at == Turn(n, clock, Eager, peers[n] \ {m.from})
    IN  /\ m.kind = "missed" /\ Awake(n)
        /\ due' = [due EXCEPT ![n] = {Min({t, at}) : t \in @}]
        /\ net' = net \ {m}
        /\ UNCHANGED <<world, row, accepted, since, polling, settled>>

-----------------------------------------------------------------------------
(* The world *)

Pay ==
    /\ paid = {} /\ clock < ExpiresAt
    /\ paid' = {clock}
    /\ UNCHANGED <<byAgent, delay, clock, peers, socket, dead, faults, accepted, since, attended, schedule, polling, settled, net>>

Link(n, q) ==
    /\ n # q /\ Awake(n) /\ Awake(q)
    /\ q \notin peers[n] \/ n \notin peers[q]
    /\ peers' = [peers EXCEPT ![n] = @ \cup {q}, ![q] = @ \cup {n}]
    /\ UNCHANGED <<byAgent, delay, clock, paid, socket, dead, faults, accepted, since, attended, schedule, polling, settled, net>>

\* The notes on the link go with it.
Unlink(n, q) ==
    /\ Faulty
    /\ q \in peers[n]
    /\ peers' = [peers EXCEPT ![n] = @ \ {q}, ![q] = @ \ {n}]
    /\ net' = {m \in net : {m.from, m.to} # {n, q}}
    /\ UNCHANGED <<byAgent, delay, clock, paid, socket, dead, accepted, since, attended, schedule, polling, settled>>

\* Dead or frozen: it sends nothing more and hears nothing, and its peers may still
\* count it.
Die(n) ==
    /\ Faulty
    /\ Awake(n)
    /\ dead' = dead \cup {n}
    /\ polling' = [polling EXCEPT ![n] = {}]
    /\ net' = {m \in net : m.to # n}
    /\ UNCHANGED <<byAgent, delay, clock, paid, peers, socket, accepted, since, attended, schedule, settled>>

\* attend: the agent's socket lands on some instance, and leaves it.
Attend(n) ==
    /\ byAgent /\ Awake(n) /\ socket \subseteq dead
    /\ socket' = {n}
    /\ attended' = {clock}
    /\ UNCHANGED <<byAgent, delay, clock, paid, peers, dead, faults, accepted, since, schedule, polling, settled, net>>

Leave(n) ==
    /\ Faulty
    /\ n \in socket
    /\ socket' = socket \ {n}
    /\ UNCHANGED <<byAgent, delay, clock, paid, peers, dead, accepted, since, attended, schedule, polling, settled, net>>

\* Linked instances know the same of the payment.
Agree(n, q) ==
    /\ accepted[q] # {} => accepted[n] # {}
    /\ settled[q] => settled[n]

\* A unit passes once every due turn was taken, no poll has run out of time, no
\* note is late, facts have crossed the links and the agent is back.
Elapse ==
    /\ clock < MaxClock
    /\ \A n \in Nodes : ~IsDue(n) /\ \A p \in polling[n] : clock < p.at + PollTime
    /\ \A m \in net : clock < m.sent + delay
    /\ \A n \in Nodes \ dead : \A q \in peers[n] \ dead : Agree(n, q)
    /\ byAgent => socket \ dead # {} \/ dead = Nodes
    /\ clock' = clock + 1
    /\ UNCHANGED <<byAgent, delay, paid, peers, socket, dead, faults, accepted, since, attended, schedule, polling, settled, net>>

TurnsInit ==
    /\ byAgent \in BOOLEAN /\ delay \in 0..MaxDelay
    /\ clock = 0
    /\ paid = {}
    /\ accepted = [n \in Nodes |-> {}]
    /\ since = [n \in Nodes |-> {}]
    /\ attended = {}
    /\ row = [n \in Nodes |-> FALSE]
    /\ due = [n \in Nodes |-> {}]
    /\ polling = [n \in Nodes |-> {}]
    /\ settled = [n \in Nodes |-> FALSE]
    /\ peers = [n \in Nodes |-> Nodes \ {n}]
    /\ socket = {}
    /\ dead = {}
    /\ net = {}
    /\ faults = 0

TurnsNext ==
    \/ \E n \in Nodes :
          Accept(n) \/ Poll(n) \/ StandAside(n) \/ Find(n) \/ Die(n) \/ Attend(n) \/ Leave(n)
    \/ \E n \in Nodes, busy \in Busy : PutOff(n, busy)
    \/ \E n \in Nodes, gap \in Gaps : Answer(n, gap) \/ Miss(n, gap)
    \/ \E n, q \in Nodes : Hear(n, q) \/ Link(n, q) \/ Unlink(n, q)
    \/ \E n, q \in Nodes, gap \in Gaps : Copy(n, q, gap)
    \/ \E m \in net : Adopt(m) \/ ComeForward(m)
    \/ Pay
    \/ Elapse

TurnsSpec == TurnsInit /\ [][TurnsNext]_turnVars

-----------------------------------------------------------------------------
(* Properties *)

\* Nobody gives anything up before the end: until expiry every live instance
\* that holds an unsettled payment has it in its schedule with a turn to come,
\* whatever notes it adopted and whoever it counts as a peer.
InLine ==
    \A n \in Nodes \ dead :
        accepted[n] # {} /\ ~settled[n] /\ clock < ExpiresAt => row[n] /\ due[n] # {}

\* While nothing fails, only the first in line asks the wallet: the second never
\* reaches its turn while the first keeps answering (Store.turn, polled,
\* onPolled).  At the expiry everybody's turn has come (nextDue).
FirstPolls ==
    faults = 0 /\ delay = 0 /\ ~byAgent /\ clock < ExpiresAt => \A n \in Nodes : polling[n] # {} => Rank(n, peers[n]) = 0

\* Who can notice that the payment was paid.
Able == IF byAgent THEN socket \ dead ELSE Nodes \ dead

\* The longest n's turn can be away: an interval, and a wait for every instance
\* ranked ahead of it.  The instance that the agent came to at x still has the turn
\* it stood in line for by then.
Behindhand(n) == Rank(n, Nodes) * Wait(MaxGap)
TurnWithin(n) == MaxGap + (IF byAgent THEN 0 ELSE Behindhand(n))
ServedFrom(n) == {x + Behindhand(n) : x \in attended}

\* Any live instance that can ask, and took the payment on, sees to it that a paid
\* payment is settled before it expires: a turn of its own later, with the poll that
\* had just looked in vain and the one that finds it, and one more turn for every
\* fault, whoever died, missed, was put off or lost a link (Store.turn, postponed,
\* onPolled, onMissed).
NoticeWithin(n) == (1 + faults) * (TurnWithin(n) + PollTime) + PollTime
PaidIsNoticed ==
    clock <= ExpiresAt =>
        \A t \in paid : \A n \in Able : \A took \in since[n] :
            clock > Max({t, took} \cup ServedFrom(n)) + NoticeWithin(n)
                => \E q \in Nodes \ dead : settled[q]

\* A missed poll, a stalled instance and a wrong view each cost at most one interval
\* (docs/design.md:217), whoever is first in line: beside the poll that had just
\* looked in vain and the one that finds the payment paid, an interval for the next
\* turn and one for every fault.  An instance the agent has just come to first takes
\* the turn it stood in line for.
Served(t) == t + (Cardinality(Nodes) - 1) * MaxGap
EachCostsAnInterval ==
    clock <= ExpiresAt =>
        \A t \in paid : \A n \in Able : \A took \in since[n] :
            clock > Max({t, took} \cup {Served(x) : x \in attended})
                        + (1 + faults) * (MaxGap + PollTime) + PollTime + delay
                => \E q \in Nodes \ dead : settled[q]

\* That is so of a single fault, whichever of the instances it hits: either it puts off
\* a turn of the first in line, or the next one has a wait more and every turn (Store.turn,
\* postponed, onMissed).
OneFaultCostsAnInterval == faults <= 1 => EachCostsAnInterval

=============================================================================
