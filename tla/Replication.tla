----------------------------- MODULE Replication -----------------------------
(***************************************************************************)
(* How instances that share a cluster key replicate the facts of their     *)
(* ledgers (src/ledger.ts, src/gossip.ts, src/store.ts, src/cluster.ts).   *)
(*                                                                         *)
(* Every fact belongs to a stream: one table (source) of one origin.  An   *)
(* origin numbers the facts of each of its streams 1, 2, 3, ...  An        *)
(* instance keeps the rows it holds and, per stream, a watermark: how far  *)
(* it has followed the stream without a hole.  New facts are pushed live   *)
(* to the linked peers; whatever a push misses is asked for with the marks *)
(* (`have`) and answered in batches (`facts`) that say how far they cover. *)
(*                                                                         *)
(* What a fact says is reduced to a body that can be compared.  The Noise  *)
(* handshake and the HMAC are external: an instance only links with peers  *)
(* that hold its key.  Unproven is the set of bodies the receiver's own    *)
(* proof refuses (provenAccepted, provenPaid, verify).                     *)
(***************************************************************************)
EXTENDS Naturals, FiniteSets, FiniteSetsExt

CONSTANTS
    Nodes,      \* the running instances
    Origins,    \* names a ledger can draw for itself; a node first uses its own
    Sources,    \* the replicated tables
    Bodies,     \* what facts can say
    Unproven,   \* the bodies a receiver refuses
    GapBatch,   \* GAP_BATCH: rows per origin in one reply (500 in the code)
    MaxHooks,   \* bound: webhooks one transaction owes
    MaxSeq,     \* bound: facts per stream
    MaxFacts,   \* bound: facts altogether
    MaxBusy,    \* bound: a resync finds fewer notes than this on each link
    MaxFaults   \* bound: dropped links, restarts and lost ledgers, together

ASSUME NodesAssumption == Nodes \subseteq Origins
ASSUME UnprovenAssumption == Unproven \subseteq Bodies
ASSUME GapBatchAssumption == GapBatch \in Nat \ {0}
ASSUME BoundsAssumption ==
    MaxHooks \in Nat \ {0} /\ MaxSeq \in Nat /\ MaxFacts \in Nat /\ MaxBusy \in Nat /\ MaxFaults \in Nat

VARIABLES
    origin,     \* origin[n]: the name in n's meta table
    held,       \* held[n]: the fact rows of n's ledger
    mark,       \* mark[n][stream]: n's progress table
    peers,      \* peers[n]: the instances n has an open channel to
    converged,  \* converged[n]: convergedAt is set
    net,        \* notes in flight
    faults,     \* how many faults have happened
    written,    \* history: every fact ever written
    pruned,     \* history: pruned[n] are the rows n's sweep has deleted
    buried,     \* history: those of them n's marks covered by then
    minted      \* history: the origins drawn so far

ledgers == <<origin, held, mark>>
history == <<written, pruned, buried, minted>>
vars == <<ledgers, peers, converged, net, faults, history>>

-----------------------------------------------------------------------------
(* Facts, streams and marks *)

Streams == Sources \X Origins
Marks == [Streams -> 0..MaxSeq]
Fact == [source: Sources, origin: Origins, seq: 1..MaxSeq, body: Bodies]

StreamOf(f) == <<f.source, f.origin>>
RowsOf(rows, st) == {f \in rows : StreamOf(f) = st}
SeqsOf(rows, st) == {f.seq : f \in RowsOf(rows, st)}

Nowhere == [st \in Streams |-> 0]

\* `have` asks; `facts` answers or pushes.  `through` is Nowhere in a push.
\* `told` is history: the marks the sender had when it sent the note.
Have == [kind: {"have"}, from: Nodes, to: Nodes, marks: Marks]
Facts == [kind: {"facts"}, from: Nodes, to: Nodes, facts: SUBSET Fact,
          more: BOOLEAN, through: Marks, told: Marks]

\* Mutant of Advance: the mark jumps over holes.
AdvanceOverHoles(seqs, m) == Max(seqs \cup {m})

\* Moves a mark over the contiguous run of rows above it.
Advance(seqs, m) ==
    CHOOSE k \in m..MaxSeq : k + 1 \notin seqs /\ (m + 1)..k \subseteq seqs

\* The marks after recording rows.  A stream that gained no row does not move.
Advanced(rows, marks) == [st \in Streams |-> Advance(SeqsOf(rows, st), marks[st])]

\* Mutant of Known: asks the table alone.
KnownByRow(n, f) == f.seq \in SeqsOf(held[n], StreamOf(f))

\* A row is known below the mark, or above it when it came ahead of a hole.
Known(n, f) ==
    \/ f.seq <= mark[n][StreamOf(f)]
    \/ f.seq \in SeqsOf(held[n], StreamOf(f))

\* Mutant of NextSeq: one past the rows still there.
NextSeqOfRows(n, source) == Max(SeqsOf(held[n], <<source, origin[n]>>) \cup {0}) + 1

\* Mutant of NextSeq: counts from zero.
NextSeqFromZero(n, source) == Max(SeqsOf(held[n], <<source, origin[n]>>) \cup {0})

\* One past everything this ledger has written to the table, kept or pruned.
NextSeq(n, source) ==
    LET own == <<source, origin[n]>>
    IN  Max(SeqsOf(held[n], own) \cup {mark[n][own]}) + 1

-----------------------------------------------------------------------------
(* The answer to a question: Ledger.since *)

\* The rows of one stream that the asker lacks, no further than our own mark,
\* by their sequence numbers.
Gap(n, theirs, st) == SeqsOf(held[n], st) \cap ((theirs[st] + 1)..mark[n][st])

\* The first GapBatch of them; a full batch is taken to be cut short.
Below(gap, k) == {j \in gap : j < k}
Batch(gap) == {k \in gap : Cardinality(Below(gap, k)) < GapBatch}
Cut(gap) == Cardinality(gap) >= GapBatch

\* Mutant of Through: an answer covers nothing but its rows.
ThroughNothing(n, theirs, st) == 0

\* How far the answer covers one stream; 0 where the answer has no entry.
Through(n, theirs, st) ==
    IF mark[n][st] <= theirs[st] THEN 0
    ELSE LET gap == Gap(n, theirs, st)
         IN  IF Cut(gap) THEN Max(Batch(gap)) ELSE mark[n][st]

Since(n, q, theirs) ==
    [kind |-> "facts", from |-> n, to |-> q,
     facts |-> {f \in held[n] : f.seq \in Batch(Gap(n, theirs, StreamOf(f)))},
     more |-> \E st \in Streams : Cut(Gap(n, theirs, st)),
     through |-> [st \in Streams |-> Through(n, theirs, st)],
     told |-> mark[n]]

HaveNote(n, q, marks) == [kind |-> "have", from |-> n, to |-> q, marks |-> marks]

\* announce(gossip, {facts, more: false}): one copy per open channel.
Pushes(n, facts, marks) ==
    {[kind |-> "facts", from |-> n, to |-> q, facts |-> facts, more |-> FALSE,
      through |-> Nowhere, told |-> marks] : q \in peers[n]}

-----------------------------------------------------------------------------
(* Writing and deleting facts *)

\* How many rows a transaction writes to each table: accept and delivered one,
\* settle one and an outbox row for every webhook.
Rows == [Sources -> 0..MaxHooks]
Transactions ==
    {w \in Rows : \E s \in Sources \ {"outbox"} :
        /\ w[s] = 1
        /\ \A t \in Sources \ {s} : w[t] = 0 \/ (s = "paid" /\ t = "outbox")}

\* An outbox row for every webhook the sweep finds unowed.
Owing == {w \in Rows : \A s \in Sources \ {"outbox"} : w[s] = 0}

\* Each row takes the next number of its stream.
NewFacts(n, w, b) ==
    UNION {{[source |-> s, origin |-> origin[n], seq |-> NextSeq(n, s) + i, body |-> b] :
              i \in 0..(w[s] - 1)} : s \in Sources}

WithinBounds(new) ==
    /\ \A f \in new : f.seq <= MaxSeq
    /\ Cardinality(written) + Cardinality(new) <= MaxFacts

\* The transaction commits, then its facts are announced to every peer.
Write(n, w, b) ==
    LET new == NewFacts(n, w, b)
        rows == held[n] \cup new
        marks == Advanced(rows, mark[n])
    IN  /\ WithinBounds(new)
        /\ held' = [held EXCEPT ![n] = rows]
        /\ mark' = [mark EXCEPT ![n] = marks]
        /\ written' = written \cup new
        /\ net' = net \cup Pushes(n, new, marks)
        /\ UNCHANGED <<origin, peers, converged, faults, pruned, buried, minted>>

\* The sweep deletes rows by age and then owes the webhooks nobody owes, in
\* outbox rows that are not announced.  Ages are the Delivery module's subject:
\* here any rows may be old enough, and any webhooks unowed.
Sweep(n, old, w, b) ==
    LET new == NewFacts(n, w, b)
        rows == (held[n] \ old) \cup new
    IN  /\ WithinBounds(new)
        /\ held' = [held EXCEPT ![n] = rows]
        /\ mark' = [mark EXCEPT ![n] = Advanced(rows, mark[n])]
        /\ pruned' = [pruned EXCEPT ![n] = @ \cup old]
        /\ buried' = [buried EXCEPT ![n] = @ \cup {f \in old : f.seq <= mark[n][StreamOf(f)]}]
        /\ written' = written \cup new
        /\ UNCHANGED <<origin, peers, converged, net, faults, minted>>

-----------------------------------------------------------------------------
(* Notes *)

\* The channel to q opens at n: n counts q as a peer and asks.
Open(n, q) ==
    /\ q \in Nodes \ (peers[n] \cup {n})
    /\ peers' = [peers EXCEPT ![n] = @ \cup {q}]
    /\ net' = net \cup {HaveNote(n, q, mark[n])}
    /\ UNCHANGED <<ledgers, converged, faults, history>>

OnLink(n, q) == {m \in net : {m.from, m.to} = {n, q}}

\* The timer that asks every peer again, whatever was lost.
Resync(n) ==
    /\ peers[n] # {}
    /\ \A q \in peers[n] : Cardinality(OnLink(n, q)) < MaxBusy
    /\ net' = net \cup {HaveNote(n, q, mark[n]) : q \in peers[n]}
    /\ UNCHANGED <<ledgers, peers, converged, faults, history>>

Answer(m) ==
    /\ m.kind = "have"
    /\ m.from \in peers[m.to]
    /\ net' = (net \ {m}) \cup {Since(m.to, m.from, m.marks)}
    /\ UNCHANGED <<ledgers, peers, converged, faults, history>>

\* What a note adds: facts not known yet whose proof holds.
Recorded(n, facts) == {f \in facts : ~Known(n, f) /\ f.body \notin Unproven}

\* Mutant of Absorbed: a mark is set to what the answer covers, also backwards.
AbsorbedBackwards(n, m) ==
    LET rows == held[n] \cup Recorded(n, m.facts)
        covered == [st \in Streams |-> IF st[2] = origin[n] THEN mark[n][st] ELSE m.through[st]]
    IN  [rows |-> rows, marks |-> Advanced(rows, covered)]

Absorbed(n, m) ==
    LET rows == held[n] \cup Recorded(n, m.facts)
        covered == [st \in Streams |->
                      IF st[2] = origin[n] THEN mark[n][st]
                      ELSE Max({mark[n][st], m.through[st]})]
    IN  [rows |-> rows, marks |-> Advanced(rows, covered)]

\* absorb is one transaction; a note with nothing more to come counts as being
\* in sync, one with more asks again only if this one moved a mark.
Absorb(m) ==
    LET n == m.to
        after == Absorbed(n, m)
    IN  /\ m.kind = "facts"
        /\ m.from \in peers[n]
        /\ held' = [held EXCEPT ![n] = after.rows]
        /\ mark' = [mark EXCEPT ![n] = after.marks]
        /\ converged' = [converged EXCEPT ![n] = @ \/ ~m.more]
        /\ net' = (net \ {m}) \cup
                    (IF m.more /\ after.marks # mark[n]
                     THEN {HaveNote(n, m.from, after.marks)} ELSE {})
        /\ UNCHANGED <<origin, peers, faults, history>>

-----------------------------------------------------------------------------
(* Faults *)

Unlinked(n) == [q \in Nodes |-> IF q = n THEN {} ELSE peers[q] \ {n}]
Without(n) == {m \in net : n \notin {m.from, m.to}}

\* A link closes: both ends forget it and what it carried is lost.
Drop(n, q) ==
    /\ faults < MaxFaults
    /\ q \in peers[n]
    /\ peers' = [peers EXCEPT ![n] = @ \ {q}, ![q] = @ \ {n}]
    /\ net' = net \ OnLink(n, q)
    /\ faults' = faults + 1
    /\ UNCHANGED <<ledgers, converged, history>>

\* A crash and a start on the same file: the ledger is all that remains.
Restart(n) ==
    /\ faults < MaxFaults
    /\ peers' = Unlinked(n)
    /\ net' = Without(n)
    /\ converged' = [converged EXCEPT ![n] = FALSE]
    /\ faults' = faults + 1
    /\ UNCHANGED <<ledgers, history>>

\* A start on an empty file: the ledger is gone and draws another origin.
Replace(n, o) ==
    /\ faults < MaxFaults
    /\ o \in Origins \ minted
    /\ origin' = [origin EXCEPT ![n] = o]
    /\ held' = [held EXCEPT ![n] = {}]
    /\ mark' = [mark EXCEPT ![n] = Nowhere]
    /\ buried' = [buried EXCEPT ![n] = {}]
    /\ minted' = minted \cup {o}
    /\ peers' = Unlinked(n)
    /\ net' = Without(n)
    /\ converged' = [converged EXCEPT ![n] = FALSE]
    /\ faults' = faults + 1
    /\ UNCHANGED <<written, pruned>>

-----------------------------------------------------------------------------
Init ==
    /\ origin = [n \in Nodes |-> n]
    /\ held = [n \in Nodes |-> {}]
    /\ mark = [n \in Nodes |-> Nowhere]
    /\ peers = [n \in Nodes |-> {}]
    /\ converged = [n \in Nodes |-> FALSE]
    /\ net = {}
    /\ faults = 0
    /\ written = {}
    /\ pruned = [n \in Nodes |-> {}]
    /\ buried = [n \in Nodes |-> {}]
    /\ minted = Nodes

Next ==
    \/ \E n \in Nodes, w \in Transactions, b \in Bodies : Write(n, w, b)
    \/ \E n \in Nodes : \E old \in SUBSET held[n], w \in Owing, b \in Bodies :
         Sweep(n, old, w, b)
    \/ \E n, q \in Nodes : Open(n, q)
    \/ \E n \in Nodes : Resync(n)
    \/ \E m \in net : Answer(m)
    \/ \E m \in net : Absorb(m)
    \/ \E n, q \in Nodes : Drop(n, q)
    \/ \E n \in Nodes : Restart(n)
    \/ \E n \in Nodes, o \in Origins : Replace(n, o)

Spec == Init /\ [][Next]_vars

\* What the timers and the links guarantee: a closed link is dialled again every
\* second, every channel is asked again every thirty seconds, and a note on a
\* link that stays open is handled.
Fairness ==
    /\ \A n, q \in Nodes : WF_vars(Open(n, q))
    /\ \A n \in Nodes : SF_vars(Resync(n))
    /\ \A n, q \in Nodes : WF_vars(\E m \in net : m.from = n /\ m.to = q /\ Answer(m))
    /\ \A n, q \in Nodes : WF_vars(\E m \in net : m.from = n /\ m.to = q /\ Absorb(m))

FairSpec == Spec /\ Fairness

-----------------------------------------------------------------------------
(* Properties *)

\* The type of the state: every ledger, mark and note that writing, sweeping,
\* absorbing and losing a ledger leave behind (numbers of a stream start at one,
\* ledger.ts nextSeq).
TypeOK ==
    /\ origin \in [Nodes -> Origins]
    /\ held \in [Nodes -> SUBSET Fact]
    /\ mark \in [Nodes -> Marks]
    /\ peers \in [Nodes -> SUBSET Nodes]
    /\ converged \in [Nodes -> BOOLEAN]
    /\ net \subseteq Have \cup Facts
    /\ faults \in 0..MaxFaults
    /\ written \subseteq Fact
    /\ pruned \in [Nodes -> SUBSET Fact]
    /\ buried \in [Nodes -> SUBSET Fact]
    /\ minted \subseteq Origins

Pruned == UNION {pruned[q] : q \in Nodes}

\* A watermark never passes a fact the instance neither holds nor may ignore.
\* Everything at or below the mark is in the ledger, or some sweep of the cluster
\* already deleted it, or the instance refused it.  A mark that ran ahead would
\* lose the fact for good: `have` never asks below it (ledger.ts cover, advance,
\* since).
MarksSound ==
    \A n \in Nodes, f \in written :
        f.seq <= mark[n][StreamOf(f)] => f \in held[n] \cup Pruned \/ f.body \in Unproven

\* A sequence number of a stream names one fact for ever, also after the row
\* was pruned, the instance restarted or its ledger was lost (ledger.ts nextSeq,
\* constructor).  Otherwise peers would take the second fact for the first.
OneFactPerSeq ==
    \A f, g \in written : StreamOf(f) = StreamOf(g) /\ f.seq = g.seq => f = g

\* A row that an instance's sweep deleted while its mark covered it is never in
\* that ledger again, however late a push, a repeated answer or a catch-up brings
\* it back: the mark that makes it known outlives the row and never falls (ledger.ts
\* known, cover, sweep).  A webhook's outbox row that returned would be delivered
\* again.  A row swept above the mark, ahead of a hole, may come back; a lost
\* ledger forgets.
SweptStaysAway == \A n \in Nodes : buried[n] \cap held[n] = {}

\* What replication promises (module Logs): the streams are its logs, and the
\* marks are how far each instance has followed them.
Log == INSTANCE Logs WITH
    Readers <- Nodes, Names <- Origins, Kinds <- Sources, Messages <- Bodies,
    log <- written, name <- origin, at <- mark, used <- minted

\* Replication implements the logs: an origin's facts are numbered without a gap by
\* the one ledger that bears it, marks only move forward and never past what was
\* written, and a lost ledger starts under a fresh origin (ledger.ts nextSeq, cover,
\* advance, absorb, constructor).  A mark that fell back would have rows asked for
\* again that a sweep has deleted.
KeepsLogs == Log!Spec

\* Every fact ever written ends up covered by every instance's mark, whatever
\* links dropped and whoever restarted, as long as no ledger is lost
\* (gossip.ts receive, cluster.ts resync).
AllCovered == \A n \in Nodes, f \in written : f.seq <= mark[n][StreamOf(f)]
Converges == <>[]AllCovered

\* "A reply with nothing more to send is the only honest moment to say I am in
\* sync, because the peer held nothing above any of our marks": an instance
\* turns caught-up only on a note that leaves it no further back than the
\* note's sender was when it sent it (gossip.ts receive, store.ts onConverged).
CaughtUpHonestly ==
    [][\A n \in Nodes : converged'[n] /\ ~converged[n] =>
          \E m \in net \ net' :
             /\ m.to = n /\ m.kind = "facts"
             /\ \A st \in Streams : m.told[st] <= mark'[n][st]]_vars

=============================================================================
