-------------------------- MODULE ReplicationProofs --------------------------
(***************************************************************************)
(* Watermarks are sound, sequence numbers are never reused, and the        *)
(* ledgers implement the gap-free logs of module Logs, for every number of *)
(* instances, facts, batches and faults.                                   *)
(***************************************************************************)
EXTENDS Replication, FiniteSetTheorems, WellFoundedInduction, TLAPS

USE NodesAssumption, UnprovenAssumption, GapBatchAssumption, BoundsAssumption

-----------------------------------------------------------------------------
(* The inductive invariant *)

\* No two ledgers share an origin, and every origin in use was drawn.
OriginsApart ==
    /\ \A n \in Nodes : origin[n] \in minted
    /\ \A n, q \in Nodes : origin[n] = origin[q] => n = q
    /\ \A f \in written : f.origin \in minted

\* A ledger's own mark covers all it ever wrote, so nextSeq is past all of it.
OwnCovered ==
    \A n \in Nodes, f \in written :
        f.origin = origin[n] => f.seq <= mark[n][StreamOf(f)]

\* Rows are facts somebody wrote.
HeldWritten == \A n \in Nodes : held[n] \subseteq written

\* A mark stands at a fact that was written, or at the start.
MarkWritten ==
    \A n \in Nodes, st \in Streams : mark[n][st] \in SeqsOf(written, st) \cup {0}

LedgerType ==
    /\ origin \in [Nodes -> Origins]
    /\ held \in [Nodes -> SUBSET Fact]
    /\ mark \in [Nodes -> Marks]
    /\ written \subseteq Fact
    /\ pruned \in [Nodes -> SUBSET Fact]
    /\ minted \subseteq Origins

LedgerInv ==
    /\ LedgerType
    /\ OriginsApart
    /\ OwnCovered
    /\ HeldWritten
    /\ MarkWritten
    /\ MarksSound
    /\ OneFactPerSeq

\* A question never claims more than the asker still covers.
QuestionSound(m) ==
    m.kind = "have" => \A st \in Streams : m.marks[st] <= mark[m.from][st]

\* An answer carries written facts, covers no further than what was written,
\* and what it covers without carrying it, its receiver covers already.
AnswerSound(m) ==
    m.kind = "facts" =>
        /\ m.facts \subseteq written
        /\ \A st \in Streams : m.through[st] \in SeqsOf(written, st) \cup {0}
        /\ \A f \in written : f.seq <= m.through[StreamOf(f)] =>
              \/ f \in m.facts
              \/ f.seq <= mark[m.to][StreamOf(f)]
              \/ f \in Pruned
              \/ f.body \in Unproven

NoteSound(m) == m \in Have \cup Facts /\ QuestionSound(m) /\ AnswerSound(m)

IInv ==
    /\ LedgerInv
    /\ \A m \in net : NoteSound(m)
    /\ peers \in [Nodes -> SUBSET Nodes]
    /\ converged \in [Nodes -> BOOLEAN]
    /\ faults \in 0..MaxFaults

-----------------------------------------------------------------------------
(* Numbers *)

\* Every nonempty set of naturals has a least element.
LEMMA LeastExists ==
    ASSUME NEW T \in SUBSET Nat, T # {}
    PROVE  \E x \in T : \A y \in T : x <= y
<1> DEFINE R == OpToRel(<, Nat)
<1>1. IsWellFoundedOn(R, Nat)
  BY NatLessThanWellFounded
<1>2. PICK x \in T : \A y \in T : ~(<<y, x>> \in R)
  <2> HIDE DEF R
  <2> QED BY <1>1, WFMin
<1>3. \A y \in T : <<y, x>> \in R <=> y < x
  BY DEF OpToRel
<1> HIDE DEF R
<1>4. \A y \in T : ~(y < x)
  BY <1>2, <1>3
<1>5. x \in T /\ T \subseteq Nat
  BY <1>2
<1> QED
  BY <1>4, <1>5

\* Max of FiniteSetsExt is a greatest element of a nonempty set of bounded naturals.
LEMMA MaxIsGreatest ==
    ASSUME NEW T \in SUBSET (0..MaxSeq), T # {}
    PROVE  Max(T) \in T /\ \A y \in T : y <= Max(T)
<1> DEFINE U == {MaxSeq - y : y \in T}
<1>1. U \in SUBSET Nat /\ U # {}
  <2>1. \A y \in T : y \in 0..MaxSeq /\ MaxSeq - y \in Nat
    OBVIOUS
  <2> QED BY <2>1
<1>2. PICK u \in U : \A v \in U : u <= v
  <2> HIDE DEF U
  <2> QED BY <1>1, LeastExists
<1>3. PICK x \in T : u = MaxSeq - x
  BY <1>2
<1>4. \A y \in T : x >= y
  BY <1>2, <1>3
<1> QED
  BY <1>4 DEF Max

\* Advance stops exactly at the end of the run of rows above the mark.
LEMMA AdvanceRuns ==
    ASSUME NEW seqs \in SUBSET (1..MaxSeq), NEW m \in 0..MaxSeq
    PROVE  /\ Advance(seqs, m) \in m..MaxSeq
           /\ Advance(seqs, m) + 1 \notin seqs
           /\ (m + 1)..Advance(seqs, m) \subseteq seqs
<1> DEFINE Stops == {k \in m..MaxSeq : k + 1 \notin seqs}
<1>1. Stops \in SUBSET Nat /\ MaxSeq \in Stops
  OBVIOUS
<1>2. PICK k \in Stops : \A j \in Stops : k <= j
  <2> HIDE DEF Stops
  <2> QED BY <1>1, LeastExists
<1>3. \A i \in (m + 1)..k : i \in seqs
  <2> SUFFICES ASSUME NEW i \in (m + 1)..k, i \notin seqs PROVE FALSE
    OBVIOUS
  <2>1. i - 1 \in m..MaxSeq /\ (i - 1) + 1 = i
    BY <1>2
  <2>2. i - 1 \in Stops
    BY <2>1
  <2> QED BY <1>2, <2>2
<1> QED
  BY <1>2, <1>3 DEF Advance

-----------------------------------------------------------------------------
(* The operators of the model *)

LEMMA SeqsType ==
    ASSUME NEW rows \in SUBSET Fact, NEW st
    PROVE  SeqsOf(rows, st) \in SUBSET (1..MaxSeq)
BY DEF SeqsOf, RowsOf, Fact

LEMMA MarkType ==
    ASSUME NEW marks \in Marks, NEW st \in Streams
    PROVE  marks[st] \in Nat /\ marks[st] \in 0..MaxSeq
BY DEF Marks

LEMMA StreamType ==
    ASSUME NEW f \in Fact
    PROVE  /\ StreamOf(f) \in Streams
           /\ StreamOf(f)[1] = f.source
           /\ StreamOf(f)[2] = f.origin
BY DEF StreamOf, Streams, Fact

\* A sequence number is listed exactly when a row carries it.
LEMMA SeqsMember ==
    ASSUME NEW rows, NEW st, NEW k
    PROVE  k \in SeqsOf(rows, st) <=> \E f \in rows : StreamOf(f) = st /\ f.seq = k
BY DEF SeqsOf, RowsOf

LEMMA AdvancedType ==
    ASSUME NEW rows \in SUBSET Fact, NEW marks \in Marks
    PROVE  Advanced(rows, marks) \in Marks
<1>1. \A t \in Streams : Advance(SeqsOf(rows, t), marks[t]) \in 0..MaxSeq
  <2> SUFFICES ASSUME NEW t \in Streams
               PROVE  Advance(SeqsOf(rows, t), marks[t]) \in 0..MaxSeq
    OBVIOUS
  <2>1. marks[t] \in 0..MaxSeq
    BY MarkType
  <2>2. Advance(SeqsOf(rows, t), marks[t]) \in marks[t]..MaxSeq
    BY <2>1, SeqsType, AdvanceRuns
  <2> QED BY <2>1, <2>2
<1> QED
  BY <1>1 DEF Advanced, Marks

\* Marks only move up, to the end of a run of rows.
LEMMA AdvancedRuns ==
    ASSUME NEW rows \in SUBSET Fact, NEW marks \in Marks, NEW st \in Streams
    PROVE  /\ Advanced(rows, marks) \in Marks
           /\ marks[st] <= Advanced(rows, marks)[st]
           /\ Advanced(rows, marks)[st] + 1 \notin SeqsOf(rows, st)
           /\ (marks[st] + 1)..Advanced(rows, marks)[st] \subseteq SeqsOf(rows, st)
           /\ Advanced(rows, marks)[st] \in SeqsOf(rows, st) \cup {marks[st]}
<1>1. \A t \in Streams : /\ Advance(SeqsOf(rows, t), marks[t]) \in marks[t]..MaxSeq
                         /\ Advance(SeqsOf(rows, t), marks[t]) + 1 \notin SeqsOf(rows, t)
                         /\ (marks[t] + 1)..Advance(SeqsOf(rows, t), marks[t])
                               \subseteq SeqsOf(rows, t)
                         /\ marks[t] \in 0..MaxSeq
  BY SeqsType, AdvanceRuns DEF Marks
<1>2. Advanced(rows, marks) \in Marks
  BY <1>1 DEF Advanced, Marks
<1>3. Advanced(rows, marks)[st] = Advance(SeqsOf(rows, st), marks[st])
  BY DEF Advanced
<1> QED
  BY <1>1, <1>2, <1>3

\* An answer leaves no row out below the point it says it covers.
LEMMA BatchCovers ==
    ASSUME NEW gap \in SUBSET (1..MaxSeq)
    PROVE  /\ ~Cut(gap) => Batch(gap) = gap
           /\ Cut(gap) => /\ Max(Batch(gap)) \in gap
                          /\ \A k \in gap : k <= Max(Batch(gap)) => k \in Batch(gap)
<1>1. IsFiniteSet(gap) /\ Cardinality(gap) \in Nat
  <2>1. IsFiniteSet(1..MaxSeq)
    BY FS_Interval
  <2> QED BY <2>1, FS_Subset, FS_CardinalityType
<1>2. ASSUME NEW k \in gap
      PROVE  /\ IsFiniteSet(Below(gap, k))
             /\ Cardinality(Below(gap, k)) \in Nat
             /\ Cardinality(Below(gap, k)) <= Cardinality(gap)
  <2>1. Below(gap, k) \in SUBSET gap
    BY DEF Below
  <2> QED BY <1>1, <2>1, FS_Subset, FS_CardinalityType
<1>3. ASSUME ~Cut(gap)
      PROVE  Batch(gap) = gap
  <2>1. \A k \in gap : Cardinality(Below(gap, k)) < GapBatch
    BY <1>1, <1>2, <1>3 DEF Cut
  <2> QED BY <2>1 DEF Batch
<1>4. ASSUME Cut(gap)
      PROVE  /\ Max(Batch(gap)) \in gap
             /\ \A k \in gap : k <= Max(Batch(gap)) => k \in Batch(gap)
  <2>1. gap # {}
    BY <1>4, FS_EmptySet DEF Cut
  <2>2. PICK least \in gap : \A y \in gap : least <= y
    <3>1. gap \in SUBSET Nat
      OBVIOUS
    <3> QED BY <2>1, <3>1, LeastExists
  <2>3. Below(gap, least) = {}
    <3>1. \A j \in gap : ~(j < least)
      BY <2>2
    <3> QED BY <3>1 DEF Below
  <2>4. least \in Batch(gap)
    BY <2>3, FS_EmptySet DEF Batch
  <2>5. Batch(gap) \in SUBSET (0..MaxSeq) /\ Batch(gap) # {}
    <3>1. Batch(gap) \subseteq gap
      BY DEF Batch
    <3>2. gap \subseteq 0..MaxSeq
      OBVIOUS
    <3> QED BY <2>4, <3>1, <3>2
  <2> DEFINE top == Max(Batch(gap))
  <2>6. top \in Batch(gap)
    BY <2>5, MaxIsGreatest
  <2>7. top \in gap /\ Cardinality(Below(gap, top)) < GapBatch
    BY <2>6 DEF Batch
  <2>8. ASSUME NEW k \in gap, k <= top
        PROVE  k \in Batch(gap)
    <3> HIDE DEF top
    <3>1. \A j \in gap : j < k => j < top
      BY <2>7, <2>8
    <3>2. Below(gap, k) \in SUBSET Below(gap, top)
      BY <3>1 DEF Below
    <3>3. Cardinality(Below(gap, k)) <= Cardinality(Below(gap, top))
      BY <1>2, <2>7, <3>2, FS_Subset
    <3>4. Cardinality(Below(gap, k)) < GapBatch
      BY <1>2, <2>7, <3>3
    <3> QED BY <3>4 DEF Batch
  <2> QED BY <2>7, <2>8
<1> QED
  BY <1>3, <1>4

\* A ledger numbers its next fact one past its own mark.
LEMMA NextSeqIsNext ==
    ASSUME LedgerInv, NEW n \in Nodes, NEW s \in Sources
    PROVE  NextSeq(n, s) = mark[n][<<s, origin[n]>>] + 1
<1> DEFINE own == <<s, origin[n]>>
           all == SeqsOf(held[n], own) \cup {mark[n][own]}
<1>1. own \in Streams /\ mark[n][own] \in 0..MaxSeq /\ held[n] \in SUBSET Fact
  BY DEF LedgerInv, LedgerType, Streams, Marks
<1>2. \A k \in SeqsOf(held[n], own) : k \in 1..MaxSeq /\ k <= mark[n][own]
  <2> SUFFICES ASSUME NEW k \in SeqsOf(held[n], own) PROVE k \in 1..MaxSeq /\ k <= mark[n][own]
    OBVIOUS
  <2>1. PICK f \in held[n] : StreamOf(f) = own /\ f.seq = k
    BY SeqsMember
  <2>2. f \in written /\ f \in Fact /\ f.origin = origin[n]
    BY <1>1, <2>1, StreamType DEF LedgerInv, HeldWritten
  <2>3. f.seq <= mark[n][StreamOf(f)]
    BY <2>2 DEF LedgerInv, OwnCovered
  <2> QED BY <2>1, <2>2, <2>3 DEF Fact
<1>3. all \in SUBSET (0..MaxSeq) /\ all # {} /\ \A k \in all : k <= mark[n][own]
  BY <1>1, <1>2
<1>4. Max(all) \in all /\ \A y \in all : y <= Max(all)
  <2> HIDE DEF all
  <2> QED BY <1>3, MaxIsGreatest
<1>5. Max(all) = mark[n][own]
  <2>1. mark[n][own] \in all
    OBVIOUS
  <2>2. mark[n][own] <= Max(all) /\ Max(all) <= mark[n][own]
    <3> HIDE DEF all
    <3> QED BY <1>3, <1>4, <2>1
  <2>3. Max(all) \in 0..MaxSeq /\ mark[n][own] \in 0..MaxSeq
    <3> HIDE DEF all, own
    <3>1. Max(all) \in 0..MaxSeq
      BY <1>3, <1>4
    <3> QED BY <1>1, <3>1
  <2> HIDE DEF all, own
  <2> QED BY <2>2, <2>3
<1> QED
  BY <1>5 DEF NextSeq

-----------------------------------------------------------------------------
(* Steps of one ledger *)

\* A mark that moved over held rows is sound if the mark it started from was.
LEMMA AdvancedSound ==
    ASSUME NEW all \in SUBSET Fact, NEW rows \in SUBSET all, NEW marks \in Marks,
           \A f, g \in all : StreamOf(f) = StreamOf(g) /\ f.seq = g.seq => f = g,
           NEW f \in all, f.seq <= Advanced(rows, marks)[StreamOf(f)]
    PROVE  f \in rows \/ f.seq <= marks[StreamOf(f)]
<1> DEFINE st == StreamOf(f)
<1>1. st \in Streams /\ rows \in SUBSET Fact /\ f.seq \in Nat
  BY StreamType DEF Fact
<1>2. (marks[st] + 1)..Advanced(rows, marks)[st] \subseteq SeqsOf(rows, st)
  BY <1>1, AdvancedRuns
<1>3. marks[st] \in Nat /\ Advanced(rows, marks)[st] \in Nat
  BY <1>1, AdvancedRuns DEF Marks
<1>4. ASSUME ~(f.seq <= marks[st])
      PROVE  f \in rows
  <2>1. f.seq \in SeqsOf(rows, st)
    BY <1>1, <1>2, <1>3, <1>4
  <2>2. PICK g \in rows : StreamOf(g) = st /\ g.seq = f.seq
    BY <2>1, SeqsMember
  <2> QED BY <2>2
<1> QED
  BY <1>4

\* The facts about to be written run on from their writer's marks without a gap,
\* past every fact of their streams.
LEMMA NewFactsAreNew ==
    ASSUME LedgerInv, NEW n \in Nodes, NEW w \in Rows, NEW b \in Bodies,
           \A f \in NewFacts(n, w, b) : f.seq <= MaxSeq
    PROVE  /\ NewFacts(n, w, b) \in SUBSET Fact
           /\ \A f \in NewFacts(n, w, b) :
                /\ f.origin = origin[n]
                /\ f.seq > mark[n][StreamOf(f)]
                /\ (mark[n][StreamOf(f)] + 1)..f.seq \subseteq SeqsOf(NewFacts(n, w, b), StreamOf(f))
                /\ \A g \in written : StreamOf(g) = StreamOf(f) => g.seq < f.seq
           /\ \A f, g \in NewFacts(n, w, b) :
                StreamOf(f) = StreamOf(g) /\ f.seq = g.seq => f = g
<1> DEFINE new == NewFacts(n, w, b)
           Row(s, i) == [source |-> s, origin |-> origin[n], seq |-> NextSeq(n, s) + i, body |-> b]
<1>1. \A f : f \in new <=> \E s \in Sources : \E i \in 0..(w[s] - 1) : f = Row(s, i)
  BY DEF NewFacts
<1>2. ASSUME NEW s \in Sources
      PROVE  /\ NextSeq(n, s) = mark[n][<<s, origin[n]>>] + 1
             /\ mark[n][<<s, origin[n]>>] \in Nat
             /\ origin[n] \in Origins
             /\ w[s] \in Nat
  <2>1. NextSeq(n, s) = mark[n][<<s, origin[n]>>] + 1
    BY NextSeqIsNext
  <2>2. mark[n][<<s, origin[n]>>] \in Nat /\ origin[n] \in Origins
    BY DEF LedgerInv, LedgerType, Marks, Streams
  <2> QED BY <2>1, <2>2 DEF Rows
<1> HIDE DEF new
<1>3. ASSUME NEW f \in new
      PROVE  /\ f \in Fact
             /\ f.origin = origin[n]
             /\ f.body = b
             /\ f.seq > mark[n][StreamOf(f)]
             /\ mark[n][StreamOf(f)] \in Nat
             /\ \A k \in (mark[n][StreamOf(f)] + 1)..f.seq : k \in SeqsOf(new, StreamOf(f))
  <2>1. PICK s \in Sources : \E i \in 0..(w[s] - 1) : f = Row(s, i)
    BY <1>1
  <2>0. PICK i \in 0..(w[s] - 1) : f = Row(s, i)
    BY <2>1
  <2> DEFINE m == mark[n][<<s, origin[n]>>]
  <2>2. NextSeq(n, s) = m + 1 /\ m \in Nat /\ origin[n] \in Origins /\ w[s] \in Nat
    BY <1>2
  <2>3. StreamOf(f) = <<s, origin[n]>> /\ f.seq = NextSeq(n, s) + i /\ f.body = b
    BY <2>0, <2>2 DEF StreamOf
  <2>4. i \in Nat /\ f.seq = m + 1 + i /\ f.seq <= MaxSeq
    BY <2>0, <2>2, <2>3 DEF new
  <2>5. f.seq \in 1..MaxSeq /\ f.seq > m
    BY <2>2, <2>4
  <2>6. f \in Fact
    BY <2>0, <2>2, <2>5 DEF Fact
  <2>7. ASSUME NEW k \in (m + 1)..f.seq
        PROVE  k \in SeqsOf(new, <<s, origin[n]>>)
    <3> DEFINE j == k - (m + 1)
    <3>1. j \in 0..i /\ k = m + 1 + j
      <4> HIDE DEF m
      <4> QED BY <2>2, <2>4, <2>7
    <3>2. j \in 0..(w[s] - 1)
      <4> HIDE DEF j
      <4> QED BY <2>0, <2>2, <3>1
    <3> HIDE DEF j
    <3>3. Row(s, j) \in new
      BY <1>1, <3>2
    <3>4. StreamOf(Row(s, j)) = <<s, origin[n]>> /\ Row(s, j).seq = k
      BY <2>2, <3>1 DEF StreamOf
    <3> QED BY <3>3, <3>4, SeqsMember
  <2> QED BY <2>0, <2>2, <2>3, <2>5, <2>6, <2>7
<1>4. ASSUME NEW f \in new, NEW g \in written, StreamOf(g) = StreamOf(f)
      PROVE  g.seq < f.seq
  <2>1. g \in Fact /\ f \in Fact /\ g.origin = f.origin
    BY <1>3, <1>4, StreamType DEF LedgerInv, LedgerType
  <2>2. g.seq <= mark[n][StreamOf(g)]
    BY <1>3, <2>1 DEF LedgerInv, OwnCovered
  <2>3. f.seq > mark[n][StreamOf(f)] /\ mark[n][StreamOf(f)] \in Nat /\ g.seq \in Nat /\ f.seq \in Nat
    BY <1>3, <2>1 DEF Fact
  <2> QED BY <1>4, <2>2, <2>3
<1>5. ASSUME NEW f \in new, NEW g \in new, StreamOf(f) = StreamOf(g), f.seq = g.seq
      PROVE  f = g
  <2>1. f.source = g.source
    BY <1>3, <1>5, StreamType
  <2> QED BY <1>3, <1>5, <2>1 DEF Fact
<1>6. \A f \in new : (mark[n][StreamOf(f)] + 1)..f.seq \subseteq SeqsOf(new, StreamOf(f))
  BY <1>3
<1> QED
  BY <1>3, <1>4, <1>5, <1>6 DEF new

\* Deleting rows and writing new facts keeps a ledger sound: accept, settle,
\* delivered and sweep.
LEMMA LedgerStep ==
    ASSUME LedgerInv, NEW n \in Nodes, NEW w \in Rows, NEW b \in Bodies,
           NEW old \in SUBSET held[n],
           NEW new, new = NewFacts(n, w, b), \A f \in new : f.seq <= MaxSeq,
           NEW rows, rows = (held[n] \ old) \cup new,
           held' = [held EXCEPT ![n] = rows],
           mark' = [mark EXCEPT ![n] = Advanced(rows, mark[n])],
           written' = written \cup new,
           pruned' = [pruned EXCEPT ![n] = @ \cup old],
           UNCHANGED <<origin, minted>>
    PROVE  /\ LedgerInv'
           /\ Advanced(rows, mark[n]) \in Marks
           /\ \A q \in Nodes, st \in Streams : mark[q][st] <= mark'[q][st]
           /\ Pruned \subseteq Pruned'
<1>1. /\ new \in SUBSET Fact
      /\ \A f \in new :
           /\ f.origin = origin[n]
           /\ f.seq > mark[n][StreamOf(f)]
           /\ (mark[n][StreamOf(f)] + 1)..f.seq \subseteq SeqsOf(new, StreamOf(f))
           /\ \A g \in written : StreamOf(g) = StreamOf(f) => g.seq < f.seq
      /\ \A f, g \in new : StreamOf(f) = StreamOf(g) /\ f.seq = g.seq => f = g
  BY NewFactsAreNew
<1>2. LedgerType
  BY DEF LedgerInv
<1>3. rows \in SUBSET Fact /\ mark[n] \in Marks
  BY <1>1, <1>2 DEF LedgerType
<1>4. \A st \in Streams :
        /\ mark[n][st] <= Advanced(rows, mark[n])[st]
        /\ Advanced(rows, mark[n])[st] + 1 \notin SeqsOf(rows, st)
        /\ Advanced(rows, mark[n])[st] \in SeqsOf(rows, st) \cup {mark[n][st]}
  BY <1>3, AdvancedRuns
<1>5. Advanced(rows, mark[n]) \in Marks
  BY <1>3, AdvancedType
<1>6. LedgerType'
  BY <1>1, <1>2, <1>3, <1>5 DEF LedgerType
<1>7. \A q \in Nodes : mark'[q] = IF q = n THEN Advanced(rows, mark[n]) ELSE mark[q]
  BY <1>2 DEF LedgerType
<1>8. \A q \in Nodes : held'[q] = IF q = n THEN rows ELSE held[q]
  BY <1>2 DEF LedgerType
<1>9. \A q \in Nodes, st \in Streams : mark[q][st] <= mark'[q][st]
  <2> SUFFICES ASSUME NEW q \in Nodes, NEW st \in Streams
               PROVE  mark[q][st] <= mark'[q][st]
    OBVIOUS
  <2>1. mark[q] \in Marks
    BY <1>2 DEF LedgerType
  <2>2. mark[q][st] \in Nat
    BY <2>1 DEF Marks
  <2>3. CASE q = n
    BY <1>4, <1>7, <2>3
  <2>4. CASE q # n
    BY <1>7, <2>2, <2>4
  <2> QED BY <2>3, <2>4
<1>10. Pruned \subseteq Pruned' /\ old \subseteq Pruned'
  BY <1>2 DEF LedgerType, Pruned
<1>11. OneFactPerSeq'
  <2> SUFFICES ASSUME NEW f \in written', NEW g \in written',
                      StreamOf(f) = StreamOf(g), f.seq = g.seq
               PROVE  f = g
    BY DEF OneFactPerSeq, StreamOf
  <2>1. f.seq \in Nat /\ g.seq \in Nat
    BY <1>6 DEF LedgerType, Fact
  <2>2. CASE f \in written /\ g \in written
    BY <2>2 DEF LedgerInv, OneFactPerSeq
  <2>3. CASE f \in new /\ g \in new
    BY <1>1, <2>3
  <2>4. CASE f \in new /\ g \in written
    BY <1>1, <2>1, <2>4
  <2>5. CASE f \in written /\ g \in new
    BY <1>1, <2>1, <2>5
  <2> QED BY <2>2, <2>3, <2>4, <2>5
<1>12. OriginsApart'
  <2>1. \A f \in written' : f.origin \in minted
    BY <1>1 DEF LedgerInv, OriginsApart
  <2> QED BY <2>1 DEF LedgerInv, OriginsApart
<1>13. HeldWritten'
  <2>1. \A q \in Nodes : held[q] \subseteq written
    BY DEF LedgerInv, HeldWritten
  <2> QED BY <1>8, <2>1 DEF HeldWritten
<1>14. MarkWritten'
  <2> SUFFICES ASSUME NEW q \in Nodes, NEW st \in Streams
               PROVE  mark'[q][st] \in SeqsOf(written', st) \cup {0}
    BY DEF MarkWritten, SeqsOf, RowsOf, StreamOf, Streams
  <2>1. SeqsOf(written, st) \subseteq SeqsOf(written', st)
    BY DEF SeqsOf, RowsOf
  <2>2. rows \subseteq written'
    BY <1>8, <1>13 DEF HeldWritten
  <2>3. SeqsOf(rows, st) \subseteq SeqsOf(written', st)
    BY <2>2 DEF SeqsOf, RowsOf
  <2>4. mark[q][st] \in SeqsOf(written, st) \cup {0}
    BY DEF LedgerInv, MarkWritten
  <2> QED BY <1>4, <1>7, <2>1, <2>3, <2>4
<1>15. OwnCovered'
  <2> SUFFICES ASSUME NEW q \in Nodes, NEW f \in written', f.origin = origin[q]
               PROVE  f.seq <= mark'[q][StreamOf(f)]
    BY DEF OwnCovered, StreamOf
  <2>1. f \in Fact /\ StreamOf(f) \in Streams /\ f.seq \in Nat
    BY <1>6, StreamType DEF LedgerType, Fact
  <2>2. mark[q][StreamOf(f)] \in Nat /\ mark'[q][StreamOf(f)] \in Nat
    <3>1. mark[q] \in Marks /\ mark'[q] \in Marks
      BY <1>2, <1>6 DEF LedgerType
    <3> QED BY <2>1, <3>1, MarkType
  <2>3. CASE f \in written
    <3>1. f.seq <= mark[q][StreamOf(f)]
      BY <2>3 DEF LedgerInv, OwnCovered
    <3>2. mark[q][StreamOf(f)] <= mark'[q][StreamOf(f)]
      BY <1>9, <2>1
    <3> HIDE DEF StreamOf
    <3> QED BY <2>1, <2>2, <3>1, <3>2
  <2>4. CASE f \in new
    <3>1. q = n
      BY <1>1, <2>4 DEF LedgerInv, OriginsApart
    <3>2. (mark[n][StreamOf(f)] + 1)..f.seq \subseteq SeqsOf(rows, StreamOf(f))
      <4>1. SeqsOf(new, StreamOf(f)) \subseteq SeqsOf(rows, StreamOf(f))
        BY DEF SeqsOf, RowsOf
      <4> QED BY <1>1, <2>4, <4>1
    <3>3. mark[n][StreamOf(f)] <= mark'[n][StreamOf(f)]
      BY <1>9, <2>1
    <3>4. mark'[n][StreamOf(f)] + 1 \notin SeqsOf(rows, StreamOf(f))
      BY <1>4, <1>7, <2>1
    <3>5. SUFFICES ASSUME f.seq > mark'[n][StreamOf(f)] PROVE FALSE
      BY <2>1, <2>2, <3>1
    <3>6. mark'[n][StreamOf(f)] + 1 \in (mark[n][StreamOf(f)] + 1)..f.seq
      BY <2>1, <2>2, <3>1, <3>3, <3>5
    <3> QED BY <3>2, <3>4, <3>6
  <2> QED BY <2>3, <2>4
<1>16. MarksSound'
  <2> SUFFICES ASSUME NEW q \in Nodes, NEW f \in written', f.seq <= mark'[q][StreamOf(f)]
               PROVE  f \in held'[q] \cup Pruned' \/ f.body \in Unproven
    BY DEF MarksSound, StreamOf
  <2>1. f \in Fact /\ StreamOf(f) \in Streams /\ f.seq \in Nat
    BY <1>6, StreamType DEF LedgerType, Fact
  <2>2. mark[q][StreamOf(f)] \in Nat
    BY <1>2, <2>1 DEF LedgerType, Marks
  <2>3. ASSUME f.seq <= mark[q][StreamOf(f)]
        PROVE  f \in held'[q] \cup Pruned' \/ f.body \in Unproven
    <3>1. f \in written
      <4> SUFFICES ASSUME f \in new PROVE FALSE
        OBVIOUS
      <4>1. mark[q][StreamOf(f)] \in SeqsOf(written, StreamOf(f)) \cup {0}
        BY <2>1 DEF LedgerInv, MarkWritten
      <4>2. f.seq >= 1
        BY <2>1 DEF Fact
      <4>3. PICK g \in written : StreamOf(g) = StreamOf(f) /\ g.seq = mark[q][StreamOf(f)]
        BY <2>1, <2>2, <2>3, <4>1, <4>2, SeqsMember
      <4>4. g.seq < f.seq
        BY <1>1, <4>3
      <4> QED BY <2>1, <2>2, <2>3, <4>3, <4>4
    <3>2. f \in held[q] \cup Pruned \/ f.body \in Unproven
      BY <2>3, <3>1 DEF LedgerInv, MarksSound
    <3>3. f \in held[q] => f \in held'[q] \cup Pruned'
      BY <1>8, <1>10
    <3> QED BY <1>10, <3>2, <3>3
  <2>4. CASE q = n
    <3>1. rows \subseteq written' /\ written' \in SUBSET Fact
      BY <1>6, <1>8, <1>13 DEF HeldWritten, LedgerType
    <3>2. \A g, h \in written' : StreamOf(g) = StreamOf(h) /\ g.seq = h.seq => g = h
      BY <1>11 DEF OneFactPerSeq, StreamOf
    <3>3. f.seq <= Advanced(rows, mark[n])[StreamOf(f)]
      BY <1>7, <2>4
    <3>4. f \in rows \/ f.seq <= mark[n][StreamOf(f)]
      BY <1>3, <3>1, <3>2, <3>3, AdvancedSound
    <3> QED BY <1>8, <2>3, <2>4, <3>4
  <2>5. CASE q # n
    BY <1>7, <2>3, <2>5
  <2> QED BY <2>4, <2>5
<1> QED
  BY <1>5, <1>6, <1>9, <1>10, <1>11, <1>12, <1>13, <1>14, <1>15, <1>16 DEF LedgerInv

-----------------------------------------------------------------------------
(* Notes *)

\* A note in flight stays sound while marks move up, sweeps delete and facts are
\* written past everything in their streams.
LEMMA NotePreserved ==
    ASSUME LedgerInv, LedgerType', NEW m, NoteSound(m),
           m.from \in Nodes, m.to \in Nodes,
           \A st \in Streams : mark[m.from][st] <= mark'[m.from][st],
           \A st \in Streams : mark[m.to][st] <= mark'[m.to][st],
           Pruned \subseteq Pruned',
           NEW new, written' = written \cup new,
           \A f \in new : \A g \in written : StreamOf(g) = StreamOf(f) => g.seq < f.seq
    PROVE  NoteSound(m)'
<1>1. LedgerType /\ m \in Have \cup Facts
  BY DEF LedgerInv, NoteSound
<1>2. \A st \in Streams : /\ mark[m.from][st] \in Nat /\ mark'[m.from][st] \in Nat
                          /\ mark[m.to][st] \in Nat /\ mark'[m.to][st] \in Nat
  <2>1. /\ mark[m.from] \in Marks /\ mark'[m.from] \in Marks
        /\ mark[m.to] \in Marks /\ mark'[m.to] \in Marks
    BY <1>1 DEF LedgerType
  <2> QED BY <2>1, MarkType
<1>3. QuestionSound(m)'
  <2> SUFFICES ASSUME m.kind = "have", NEW st \in Streams
               PROVE  m.marks[st] <= mark'[m.from][st]
    BY DEF QuestionSound
  <2>1. m.marks[st] <= mark[m.from][st]
    BY DEF NoteSound, QuestionSound
  <2>2. m.marks \in Marks
    BY <1>1 DEF Have, Facts
  <2> QED BY <1>2, <2>1, <2>2, MarkType
<1>4. AnswerSound(m)'
  <2> SUFFICES ASSUME m.kind = "facts"
               PROVE  AnswerSound(m)'
    BY DEF AnswerSound
  <2>1. /\ m.facts \subseteq written
        /\ \A st \in Streams : m.through[st] \in SeqsOf(written, st) \cup {0}
        /\ \A f \in written : f.seq <= m.through[StreamOf(f)] =>
              \/ f \in m.facts
              \/ f.seq <= mark[m.to][StreamOf(f)]
              \/ f \in Pruned
              \/ f.body \in Unproven
    BY DEF NoteSound, AnswerSound
  <2>2. m.through \in Marks
    BY <1>1 DEF Have, Facts
  <2>3. \A st \in Streams : m.through[st] \in SeqsOf(written', st) \cup {0}
    <3>1. \A st \in Streams : SeqsOf(written, st) \subseteq SeqsOf(written', st)
      BY DEF SeqsOf, RowsOf
    <3> QED BY <2>1, <3>1
  <2>4. ASSUME NEW f \in written', f.seq <= m.through[StreamOf(f)]
        PROVE  \/ f \in m.facts
               \/ f.seq <= mark'[m.to][StreamOf(f)]
               \/ f \in Pruned'
               \/ f.body \in Unproven
    <3> DEFINE st == StreamOf(f)
    <3>1. f \in Fact /\ st \in Streams /\ f.seq \in Nat /\ f.seq >= 1
      BY StreamType DEF LedgerType, Fact
    <3>2. f \in written
      <4> SUFFICES ASSUME f \in new PROVE FALSE
        OBVIOUS
      <4>1. m.through[st] \in Nat
        BY <2>2, <3>1, MarkType
      <4>2. m.through[st] \in SeqsOf(written, st)
        BY <2>1, <2>4, <3>1, <4>1
      <4>3. PICK g \in written : StreamOf(g) = st /\ g.seq = m.through[st]
        BY <4>2, SeqsMember
      <4>4. g.seq < f.seq
        BY <4>3
      <4> HIDE DEF st
      <4> QED BY <2>4, <3>1, <4>1, <4>3, <4>4 DEF st
    <3>3. f.seq <= mark[m.to][st] => f.seq <= mark'[m.to][st]
      <4>1. mark[m.to][st] <= mark'[m.to][st]
        BY <3>1
      <4> HIDE DEF st
      <4> QED BY <1>2, <3>1, <4>1
    <3> QED BY <2>1, <2>4, <3>2, <3>3
  <2> QED BY <2>1, <2>3, <2>4 DEF AnswerSound, SeqsOf, RowsOf, StreamOf
<1> QED
  BY <1>1, <1>3, <1>4 DEF NoteSound, Have, Facts

\* The same when nothing was written.
LEMMA NoteKept ==
    ASSUME LedgerInv, LedgerType', NEW m, NoteSound(m),
           m.from \in Nodes, m.to \in Nodes,
           \A st \in Streams : mark[m.from][st] <= mark'[m.from][st],
           \A st \in Streams : mark[m.to][st] <= mark'[m.to][st],
           Pruned \subseteq Pruned', written' = written
    PROVE  NoteSound(m)'
<1> DEFINE none == {f \in written : FALSE}
<1>1. \A f \in none : \A g \in written : StreamOf(g) = StreamOf(f) => g.seq < f.seq
  OBVIOUS
<1>2. written' = written \cup none
  OBVIOUS
<1> HIDE DEF none
<1> QED
  BY <1>1, <1>2, NotePreserved

\* The answer to a sound question is sound.
LEMMA SinceSound ==
    ASSUME LedgerInv, NEW n \in Nodes, NEW q \in Nodes, NEW theirs \in Marks,
           \A st \in Streams : theirs[st] <= mark[q][st]
    PROVE  NoteSound(Since(n, q, theirs))
<1> DEFINE r == Since(n, q, theirs)
           gap(st) == Gap(n, theirs, st)
<1>1. LedgerType /\ held[n] \in SUBSET Fact /\ mark[n] \in Marks /\ mark[q] \in Marks
  BY DEF LedgerInv, LedgerType
<1>2. \A st \in Streams : gap(st) \in SUBSET (1..MaxSeq)
  BY <1>1, SeqsType DEF Gap
<1>3. ASSUME NEW st \in Streams
      PROVE  /\ Through(n, theirs, st) \in 0..MaxSeq
             /\ Through(n, theirs, st) \in SeqsOf(written, st) \cup {0}
             /\ Through(n, theirs, st) <= mark[n][st]
             /\ \A k \in gap(st) : k <= Through(n, theirs, st) => k \in Batch(gap(st))
             /\ Through(n, theirs, st) # 0 => ~(mark[n][st] <= theirs[st])
  <2>1. mark[n][st] \in 0..MaxSeq /\ theirs[st] \in 0..MaxSeq
    BY <1>1, MarkType
  <2>2. mark[n][st] \in SeqsOf(written, st) \cup {0}
    BY DEF LedgerInv, MarkWritten
  <2>3. SeqsOf(held[n], st) \subseteq SeqsOf(written, st)
    <3>1. held[n] \subseteq written
      BY DEF LedgerInv, HeldWritten
    <3> QED BY <3>1 DEF SeqsOf, RowsOf
  <2>4. \A k \in gap(st) : /\ k \in SeqsOf(held[n], st) /\ k \in 1..MaxSeq
                           /\ theirs[st] < k /\ k <= mark[n][st]
    BY <1>1, <2>1, SeqsType DEF Gap
  <2>5. CASE mark[n][st] <= theirs[st]
    <3>1. Through(n, theirs, st) = 0
      BY <2>5 DEF Through
    <3> QED BY <2>1, <2>4, <3>1
  <2>6. CASE ~(mark[n][st] <= theirs[st]) /\ Cut(gap(st))
    <3>1. Through(n, theirs, st) = Max(Batch(gap(st)))
      BY <2>6 DEF Through
    <3>2. /\ Max(Batch(gap(st))) \in gap(st)
          /\ \A k \in gap(st) : k <= Max(Batch(gap(st))) => k \in Batch(gap(st))
      BY <1>2, <2>6, BatchCovers
    <3> HIDE DEF gap
    <3>3. Through(n, theirs, st) \in gap(st)
      BY <3>1, <3>2
    <3> QED BY <2>1, <2>3, <2>4, <2>6, <3>1, <3>2, <3>3
  <2>7. CASE ~(mark[n][st] <= theirs[st]) /\ ~Cut(gap(st))
    <3>1. Through(n, theirs, st) = mark[n][st]
      BY <2>7 DEF Through
    <3>2. Batch(gap(st)) = gap(st)
      BY <1>2, <2>7, BatchCovers
    <3> QED BY <2>1, <2>2, <2>7, <3>1, <3>2
  <2> QED BY <2>5, <2>6, <2>7
<1>4. /\ r.kind = "facts" /\ r.from = n /\ r.to = q
      /\ r.facts = {f \in held[n] : f.seq \in Batch(Gap(n, theirs, StreamOf(f)))}
      /\ r.through = [st \in Streams |-> Through(n, theirs, st)]
      /\ r.more = \E st \in Streams : Cut(Gap(n, theirs, st))
      /\ r.told = mark[n]
      /\ DOMAIN r = {"kind", "from", "to", "facts", "more", "through", "told"}
  BY DEF Since
<1>5. r \in Have \cup Facts
  <2>1. [st \in Streams |-> Through(n, theirs, st)] \in Marks
    BY <1>3 DEF Marks
  <2>2. {f \in held[n] : f.seq \in Batch(Gap(n, theirs, StreamOf(f)))} \in SUBSET Fact
    BY <1>1
  <2>3. (\E st \in Streams : Cut(Gap(n, theirs, st))) \in BOOLEAN
    OBVIOUS
  <2> QED BY <1>1, <2>1, <2>2, <2>3 DEF Since, Facts
<1>6. QuestionSound(r)
  BY <1>4 DEF QuestionSound
<1>7. AnswerSound(r)
  <2>1. r.facts \subseteq written
    BY <1>4 DEF LedgerInv, HeldWritten
  <2>2. \A st \in Streams : r.through[st] = Through(n, theirs, st)
    BY <1>4
  <2>3. ASSUME NEW f \in written, f.seq <= r.through[StreamOf(f)]
        PROVE  \/ f \in r.facts
               \/ f.seq <= mark[q][StreamOf(f)]
               \/ f \in Pruned
               \/ f.body \in Unproven
    <3> DEFINE st == StreamOf(f)
    <3>1. st \in Streams /\ f.seq \in 1..MaxSeq
      BY <1>1, StreamType DEF LedgerType, Fact
    <3>2. f.seq <= Through(n, theirs, st)
      BY <2>2, <2>3, <3>1
    <3>3. /\ mark[n][st] \in 0..MaxSeq /\ theirs[st] \in 0..MaxSeq
          /\ mark[q][st] \in 0..MaxSeq /\ theirs[st] <= mark[q][st]
      BY <1>1, <3>1, MarkType
    <3>4. f.seq <= mark[n][st]
      <4> HIDE DEF st
      <4> QED BY <1>3, <3>1, <3>2, <3>3
    <3>5. f \in held[n] \cup Pruned \/ f.body \in Unproven
      BY <3>4 DEF LedgerInv, MarksSound
    <3>6. ASSUME f \in held[n], ~(f.seq <= mark[q][st])
          PROVE  f \in r.facts
      <4>1. f.seq \in SeqsOf(held[n], st)
        BY <3>6 DEF SeqsOf, RowsOf
      <4>2. theirs[st] < f.seq
        <5> HIDE DEF st
        <5> QED BY <3>1, <3>3, <3>6
      <4>3. f.seq \in Gap(n, theirs, st)
        <5> HIDE DEF st
        <5> QED BY <3>1, <3>3, <3>4, <4>1, <4>2 DEF Gap
      <4>4. f.seq \in Batch(Gap(n, theirs, st))
        <5> HIDE DEF st
        <5> QED BY <1>3, <3>1, <3>2, <4>3
      <4> QED BY <1>4, <3>6, <4>4
    <3> QED BY <3>5, <3>6
  <2> HIDE DEF r
  <2> QED BY <1>3, <1>4, <2>1, <2>2, <2>3 DEF AnswerSound
<1> QED
  BY <1>5, <1>6, <1>7 DEF NoteSound

\* Absorbing a sound note keeps the receiver's ledger sound: absorb and cover.
LEMMA AbsorbStep ==
    ASSUME LedgerInv, NEW m \in Facts, NoteSound(m), NEW n, n = m.to,
           NEW after, after = Absorbed(n, m),
           held' = [held EXCEPT ![n] = after.rows],
           mark' = [mark EXCEPT ![n] = after.marks],
           UNCHANGED <<origin, history>>
    PROVE  /\ LedgerInv'
           /\ after.marks \in Marks
           /\ \A q \in Nodes, st \in Streams : mark[q][st] <= mark'[q][st]
<1> DEFINE rows == held[n] \cup Recorded(n, m.facts)
           covered == [st \in Streams |->
                         IF st[2] = origin[n] THEN mark[n][st]
                         ELSE Max({mark[n][st], m.through[st]})]
<1>1. n \in Nodes /\ m.facts \in SUBSET Fact /\ m.through \in Marks /\ m.kind = "facts"
  BY DEF Facts
<1>2. LedgerType /\ mark[n] \in Marks /\ held[n] \in SUBSET Fact
  BY <1>1 DEF LedgerInv, LedgerType
<1>3. after.rows = rows /\ after.marks = Advanced(rows, covered)
  BY DEF Absorbed
<1>4. /\ m.facts \subseteq written
      /\ \A st \in Streams : m.through[st] \in SeqsOf(written, st) \cup {0}
      /\ \A f \in written : f.seq <= m.through[StreamOf(f)] =>
            \/ f \in m.facts
            \/ f.seq <= mark[n][StreamOf(f)]
            \/ f \in Pruned
            \/ f.body \in Unproven
  BY <1>1 DEF NoteSound, AnswerSound
<1>5. Recorded(n, m.facts) \subseteq m.facts
  BY DEF Recorded
<1>6. rows \in SUBSET Fact /\ rows \subseteq written
  BY <1>1, <1>2, <1>4, <1>5 DEF LedgerInv, HeldWritten
<1>7. ASSUME NEW st \in Streams
      PROVE  /\ covered[st] \in 0..MaxSeq
             /\ mark[n][st] <= covered[st]
             /\ covered[st] \in {mark[n][st], m.through[st]}
  <2>1. mark[n][st] \in 0..MaxSeq /\ m.through[st] \in 0..MaxSeq
    BY <1>1, <1>2, MarkType
  <2> DEFINE two == {mark[n][st], m.through[st]}
  <2>2. two \in SUBSET (0..MaxSeq) /\ two # {}
    BY <2>1
  <2>3. Max(two) \in two /\ \A y \in two : y <= Max(two)
    <3> HIDE DEF two
    <3> QED BY <2>2, MaxIsGreatest
  <2>4. CASE st[2] = origin[n]
    BY <2>1, <2>4
  <2>5. CASE st[2] # origin[n]
    <3>1. covered[st] = Max(two)
      BY <2>5
    <3>2. mark[n][st] <= Max(two) /\ Max(two) \in {mark[n][st], m.through[st]}
      BY <2>3
    <3> HIDE DEF covered, two
    <3> QED BY <2>1, <3>1, <3>2
  <2> QED BY <2>4, <2>5
<1>8. covered \in Marks
  BY <1>7 DEF Marks
<1> HIDE DEF rows, covered
<1>9. \A st \in Streams :
        /\ covered[st] <= Advanced(rows, covered)[st]
        /\ Advanced(rows, covered)[st] \in SeqsOf(rows, st) \cup {covered[st]}
  BY <1>6, <1>8, AdvancedRuns
<1>10. after.marks \in Marks
  BY <1>3, <1>6, <1>8, AdvancedType
<1>11. LedgerType'
  BY <1>1, <1>2, <1>3, <1>6, <1>10 DEF LedgerType, history
<1>12. \A q \in Nodes : mark'[q] = IF q = n THEN Advanced(rows, covered) ELSE mark[q]
  BY <1>1, <1>2, <1>3 DEF LedgerType
<1>13. \A q \in Nodes : held'[q] = IF q = n THEN rows ELSE held[q]
  BY <1>1, <1>2, <1>3 DEF LedgerType
<1>14. \A q \in Nodes, st \in Streams : mark[q][st] <= mark'[q][st]
  <2> SUFFICES ASSUME NEW q \in Nodes, NEW st \in Streams
               PROVE  mark[q][st] <= mark'[q][st]
    OBVIOUS
  <2>1. mark[q] \in Marks /\ Advanced(rows, covered) \in Marks
    BY <1>2, <1>3, <1>10 DEF LedgerType
  <2>2. /\ mark[q][st] \in Nat /\ mark[n][st] \in Nat /\ covered[st] \in Nat
        /\ Advanced(rows, covered)[st] \in Nat
    BY <1>2, <1>8, <2>1, MarkType
  <2>3. CASE q = n
    BY <1>7, <1>9, <1>12, <2>2, <2>3
  <2>4. CASE q # n
    BY <1>12, <2>2, <2>4
  <2> QED BY <2>3, <2>4
<1>15. OneFactPerSeq'
  BY DEF LedgerInv, OneFactPerSeq, history, StreamOf
<1>16. OriginsApart'
  BY DEF LedgerInv, OriginsApart, history
<1>17. HeldWritten'
  BY <1>6, <1>13 DEF LedgerInv, HeldWritten, history
<1>18. MarkWritten'
  <2> SUFFICES ASSUME NEW q \in Nodes, NEW st \in Streams
               PROVE  mark'[q][st] \in SeqsOf(written, st) \cup {0}
    BY DEF MarkWritten, SeqsOf, RowsOf, StreamOf, Streams, history
  <2>1. SeqsOf(rows, st) \subseteq SeqsOf(written, st)
    BY <1>6 DEF SeqsOf, RowsOf
  <2>2. mark[q][st] \in SeqsOf(written, st) \cup {0} /\ mark[n][st] \in SeqsOf(written, st) \cup {0}
    BY <1>1 DEF LedgerInv, MarkWritten
  <2> QED BY <1>4, <1>7, <1>9, <1>12, <2>1, <2>2
<1>19. OwnCovered'
  <2> SUFFICES ASSUME NEW q \in Nodes, NEW f \in written, f.origin = origin[q]
               PROVE  f.seq <= mark'[q][StreamOf(f)]
    BY DEF OwnCovered, StreamOf, history
  <2>1. StreamOf(f) \in Streams /\ f.seq \in Nat
    BY <1>2, StreamType DEF LedgerType, Fact
  <2>2. mark[q] \in Marks /\ mark'[q] \in Marks
    BY <1>2, <1>11 DEF LedgerType
  <2>3. mark[q][StreamOf(f)] \in Nat /\ mark'[q][StreamOf(f)] \in Nat
    BY <2>1, <2>2, MarkType
  <2>4. f.seq <= mark[q][StreamOf(f)]
    BY DEF LedgerInv, OwnCovered
  <2>5. mark[q][StreamOf(f)] <= mark'[q][StreamOf(f)]
    BY <1>14, <2>1
  <2> QED BY <2>1, <2>3, <2>4, <2>5
<1>20. MarksSound'
  <2> SUFFICES ASSUME NEW q \in Nodes, NEW f \in written, f.seq <= mark'[q][StreamOf(f)]
               PROVE  f \in held'[q] \cup Pruned \/ f.body \in Unproven
    BY DEF MarksSound, StreamOf, Pruned, history
  <2>1. StreamOf(f) \in Streams /\ f.seq \in Nat /\ written \in SUBSET Fact
    BY <1>2, StreamType DEF LedgerType, Fact
  <2>2. \A g, h \in written : StreamOf(g) = StreamOf(h) /\ g.seq = h.seq => g = h
    BY DEF LedgerInv, OneFactPerSeq
  <2>3. ASSUME f.seq <= mark[q][StreamOf(f)]
        PROVE  f \in held'[q] \cup Pruned \/ f.body \in Unproven
    <3>1. f \in held[q] \cup Pruned \/ f.body \in Unproven
      BY <2>3 DEF LedgerInv, MarksSound
    <3>2. held[q] \subseteq held'[q]
      BY <1>13 DEF rows
    <3> QED BY <3>1, <3>2
  <2>4. CASE q # n
    BY <1>12, <2>3, <2>4
  <2>5. CASE q = n
    <3>1. f \in rows \/ f.seq <= covered[StreamOf(f)]
      BY <1>6, <1>8, <1>12, <2>1, <2>2, <2>5, AdvancedSound
    <3>2. ASSUME f.seq <= m.through[StreamOf(f)]
          PROVE  f \in rows \cup Pruned \/ f.body \in Unproven \/ f.seq <= mark[n][StreamOf(f)]
      <4>1. CASE f \in m.facts
        <5>1. CASE Known(n, f)
          <6>1. CASE f.seq \in SeqsOf(held[n], StreamOf(f))
            <7>1. PICK g \in held[n] : StreamOf(g) = StreamOf(f) /\ g.seq = f.seq
              BY <6>1, SeqsMember
            <7>2. g \in written
              BY <1>1, <7>1 DEF LedgerInv, HeldWritten
            <7> QED BY <2>2, <7>1, <7>2 DEF rows
          <6> QED BY <5>1, <6>1 DEF Known
        <5>2. CASE ~Known(n, f)
          BY <4>1, <5>2 DEF Recorded, rows
        <5> QED BY <5>1, <5>2
      <4> QED BY <1>4, <3>2, <4>1
    <3>3. covered[StreamOf(f)] \in {mark[n][StreamOf(f)], m.through[StreamOf(f)]}
      BY <1>7, <2>1
    <3> QED BY <1>13, <2>3, <2>5, <3>1, <3>2, <3>3
  <2> QED BY <2>4, <2>5
<1> QED
  BY <1>10, <1>11, <1>14, <1>15, <1>16, <1>17, <1>18, <1>19, <1>20 DEF LedgerInv

\* An empty ledger under an origin nobody drew is sound.
LEMMA ReplaceStep ==
    ASSUME LedgerInv, NEW n \in Nodes, NEW o \in Origins \ minted,
           origin' = [origin EXCEPT ![n] = o],
           held' = [held EXCEPT ![n] = {}],
           mark' = [mark EXCEPT ![n] = Nowhere],
           minted' = minted \cup {o},
           UNCHANGED <<written, pruned>>
    PROVE  LedgerInv'
<1>1. LedgerType
  BY DEF LedgerInv
<1>2. Nowhere \in Marks /\ \A st \in Streams : Nowhere[st] = 0
  BY DEF Nowhere, Marks
<1>3. LedgerType'
  BY <1>1, <1>2 DEF LedgerType
<1>4. \A q \in Nodes : /\ origin'[q] = IF q = n THEN o ELSE origin[q]
                       /\ held'[q] = IF q = n THEN {} ELSE held[q]
                       /\ mark'[q] = IF q = n THEN Nowhere ELSE mark[q]
  BY <1>1 DEF LedgerType
<1>5. \A f \in written : StreamOf(f) \in Streams /\ f.seq \in Nat /\ f.seq >= 1
  BY <1>1, StreamType DEF LedgerType, Fact
<1>6. OriginsApart'
  BY <1>4 DEF LedgerInv, OriginsApart
<1>7. OwnCovered'
  <2>1. \A f \in written : f.origin # o
    BY DEF LedgerInv, OriginsApart
  <2> QED BY <1>4, <2>1 DEF LedgerInv, OwnCovered, StreamOf
<1>8. HeldWritten'
  BY <1>4 DEF LedgerInv, HeldWritten
<1>9. MarkWritten'
  <2> SUFFICES ASSUME NEW q \in Nodes, NEW st \in Streams
               PROVE  mark'[q][st] \in SeqsOf(written, st) \cup {0}
    BY DEF MarkWritten, SeqsOf, RowsOf, StreamOf, Streams
  <2> QED BY <1>2, <1>4 DEF LedgerInv, MarkWritten
<1>10. MarksSound'
  <2> SUFFICES ASSUME NEW q \in Nodes, NEW f \in written, f.seq <= mark'[q][StreamOf(f)]
               PROVE  f \in held'[q] \cup Pruned \/ f.body \in Unproven
    BY DEF MarksSound, StreamOf, Pruned
  <2>1. q # n
    BY <1>2, <1>4, <1>5
  <2> QED BY <1>4, <2>1 DEF LedgerInv, MarksSound
<1>11. OneFactPerSeq'
  BY DEF LedgerInv, OneFactPerSeq, StreamOf
<1> QED
  BY <1>3, <1>6, <1>7, <1>8, <1>9, <1>10, <1>11 DEF LedgerInv

-----------------------------------------------------------------------------
(* The invariant *)

LEMMA InitInv == Init => IInv
<1> SUFFICES ASSUME Init PROVE IInv
  OBVIOUS
<1>1. Nowhere \in Marks /\ \A st \in Streams : Nowhere[st] = 0
  BY DEF Nowhere, Marks
<1>2. LedgerType
  BY <1>1 DEF Init, LedgerType
<1>3. LedgerInv
  BY <1>1, <1>2 DEF Init, LedgerInv, OriginsApart, OwnCovered, HeldWritten, MarkWritten,
                    MarksSound, OneFactPerSeq
<1> QED
  BY <1>3 DEF Init, IInv

\* A pushed note covers nothing and carries what was just written.
LEMMA PushSound ==
    ASSUME NEW m \in Facts, m.through = Nowhere, written' \in SUBSET Fact, m.facts \subseteq written'
    PROVE  NoteSound(m)'
<1>1. \A st \in Streams : m.through[st] = 0
  BY DEF Nowhere
<1>2. m.kind = "facts"
  BY DEF Facts
<1>3. \A f \in written' : ~(f.seq <= m.through[StreamOf(f)])
  <2> SUFFICES ASSUME NEW f \in written' PROVE ~(f.seq <= m.through[StreamOf(f)])
    OBVIOUS
  <2>1. StreamOf(f) \in Streams /\ f.seq \in Nat /\ f.seq >= 1
    BY StreamType DEF Fact
  <2> QED BY <1>1, <2>1
<1>4. \A st \in Streams : m.through[st] \in SeqsOf(written', st) \cup {0}
  BY <1>1
<1>5. AnswerSound(m)'
  <2>1. \A f \in written' : ~(f.seq <= m.through[StreamOf(f)'])
    BY <1>3 DEF StreamOf
  <2>2. \A st \in Streams : m.through[st] \in SeqsOf(written, st)' \cup {0}
    BY <1>4 DEF SeqsOf, RowsOf, StreamOf
  <2> QED BY <2>1, <2>2 DEF AnswerSound
<1>6. QuestionSound(m)'
  BY <1>2 DEF QuestionSound
<1> QED
  BY <1>5, <1>6 DEF NoteSound

LEMMA HaveSound ==
    ASSUME NEW n \in Nodes, NEW q \in Nodes, mark[n] \in Marks
    PROVE  NoteSound(HaveNote(n, q, mark[n]))
<1>1. \A st \in Streams : mark[n][st] <= mark[n][st]
  BY MarkType
<1> QED
  BY <1>1 DEF NoteSound, QuestionSound, AnswerSound, HaveNote, Have

\* Every step keeps the invariant.
LEMMA StepInv == IInv /\ [Next]_vars => IInv'
<1> SUFFICES ASSUME IInv, [Next]_vars PROVE IInv'
  OBVIOUS
<1>1. LedgerInv /\ LedgerType /\ \A m \in net : NoteSound(m)
  BY DEF IInv, LedgerInv
<1>2. /\ peers \in [Nodes -> SUBSET Nodes]
      /\ converged \in [Nodes -> BOOLEAN]
      /\ faults \in 0..MaxFaults
  BY DEF IInv
<1>3. \A m \in net : m \in Have \cup Facts /\ m.from \in Nodes /\ m.to \in Nodes
  BY <1>1 DEF NoteSound, Have, Facts
<1>4. ASSUME UNCHANGED <<ledgers, history>>
      PROVE  LedgerInv' /\ \A m : NoteSound(m) => NoteSound(m)'
  <2>1. UNCHANGED <<origin, held, mark, written, pruned, minted>>
    BY <1>4 DEF ledgers, history
  <2>2. LedgerInv'
    BY <1>1, <2>1 DEF LedgerInv, LedgerType, OriginsApart, OwnCovered, HeldWritten,
                      MarkWritten, MarksSound, OneFactPerSeq, Pruned, StreamOf, SeqsOf, RowsOf
  <2>3. \A m : NoteSound(m) => NoteSound(m)'
    BY <2>1 DEF NoteSound, QuestionSound, AnswerSound, Pruned, StreamOf, SeqsOf, RowsOf
  <2> QED BY <2>2, <2>3
<1>5. ASSUME NEW n \in Nodes, NEW w \in Transactions, NEW b \in Bodies, Write(n, w, b)
      PROVE  IInv'
  <2> DEFINE new == NewFacts(n, w, b)
             rows == held[n] \cup new
             marks == Advanced(rows, mark[n])
  <2>1. /\ \A f \in new : f.seq <= MaxSeq
        /\ held' = [held EXCEPT ![n] = rows]
        /\ mark' = [mark EXCEPT ![n] = marks]
        /\ written' = written \cup new
        /\ net' = net \cup Pushes(n, new, marks)
        /\ UNCHANGED <<origin, peers, converged, faults, pruned, minted>>
    BY <1>5 DEF Write, WithinBounds
  <2>2. w \in Rows
    BY DEF Transactions
  <2>3. rows = (held[n] \ {}) \cup new /\ pruned' = [pruned EXCEPT ![n] = @ \cup {}]
    BY <1>1, <2>1 DEF LedgerType
  <2> HIDE DEF new, rows
  <2>4. /\ LedgerInv' /\ marks \in Marks /\ Pruned \subseteq Pruned'
        /\ \A q \in Nodes, st \in Streams : mark[q][st] <= mark'[q][st]
    <3>1. {} \in SUBSET held[n] /\ new = NewFacts(n, w, b)
      BY DEF new
    <3> QED BY <1>1, <2>1, <2>2, <2>3, <3>1, LedgerStep
  <2> HIDE DEF marks
  <2>5. new \in SUBSET Fact /\ \A f \in new, g \in written : StreamOf(g) = StreamOf(f) => g.seq < f.seq
    BY <1>1, <2>1, <2>2, NewFactsAreNew DEF new
  <2>6. LedgerType'
    BY <2>4 DEF LedgerInv
  <2>7. ASSUME NEW m \in net PROVE NoteSound(m)'
    <3>1. NoteSound(m) /\ m.from \in Nodes /\ m.to \in Nodes
      BY <1>1, <1>3
    <3> QED BY <1>1, <2>1, <2>4, <2>5, <2>6, <3>1, NotePreserved
  <2>8. ASSUME NEW m \in Pushes(n, new, marks) PROVE NoteSound(m)'
    <3>1. PICK q \in peers[n] :
             m = [kind |-> "facts", from |-> n, to |-> q, facts |-> new, more |-> FALSE,
                  through |-> Nowhere, told |-> marks]
      BY <2>8 DEF Pushes
    <3>2. q \in Nodes /\ new \subseteq written' /\ written' \in SUBSET Fact
      BY <1>2, <2>1, <2>6 DEF LedgerType
    <3>3. m \in Facts /\ m.through = Nowhere /\ m.facts \subseteq written'
      <4>1. Nowhere \in Marks
        BY DEF Nowhere, Marks
      <4> QED BY <2>4, <2>5, <3>1, <3>2, <4>1 DEF Facts
    <3> QED BY <3>2, <3>3, PushSound
  <2> QED BY <1>2, <2>1, <2>4, <2>7, <2>8 DEF IInv
<1>6. ASSUME NEW n \in Nodes, NEW old \in SUBSET held[n], NEW w \in Owing, NEW b \in Bodies,
             Sweep(n, old, w, b)
      PROVE  IInv'
  <2> DEFINE new == NewFacts(n, w, b)
             rows == (held[n] \ old) \cup new
  <2>1. /\ \A f \in new : f.seq <= MaxSeq
        /\ held' = [held EXCEPT ![n] = rows]
        /\ mark' = [mark EXCEPT ![n] = Advanced(rows, mark[n])]
        /\ pruned' = [pruned EXCEPT ![n] = @ \cup old]
        /\ written' = written \cup new
        /\ UNCHANGED <<origin, peers, converged, net, faults, minted>>
    BY <1>6 DEF Sweep, WithinBounds
  <2>2. w \in Rows
    BY DEF Owing
  <2> HIDE DEF new
  <2>3. /\ LedgerInv' /\ Pruned \subseteq Pruned'
        /\ \A q \in Nodes, st \in Streams : mark[q][st] <= mark'[q][st]
    <3>1. new = NewFacts(n, w, b)
      BY DEF new
    <3> QED BY <1>1, <2>1, <2>2, <3>1, LedgerStep
  <2>4. \A f \in new, g \in written : StreamOf(g) = StreamOf(f) => g.seq < f.seq
    BY <1>1, <2>1, <2>2, NewFactsAreNew DEF new
  <2>5. LedgerType'
    BY <2>3 DEF LedgerInv
  <2>6. ASSUME NEW m \in net PROVE NoteSound(m)'
    <3>1. NoteSound(m) /\ m.from \in Nodes /\ m.to \in Nodes
      BY <1>1, <1>3
    <3> QED BY <1>1, <2>1, <2>3, <2>4, <2>5, <3>1, NotePreserved
  <2> QED BY <1>2, <2>1, <2>3, <2>6 DEF IInv
<1>7. ASSUME NEW n \in Nodes, NEW q \in Nodes, Open(n, q)
      PROVE  IInv'
  <2>1. /\ UNCHANGED <<ledgers, converged, faults, history>>
        /\ peers' = [peers EXCEPT ![n] = @ \cup {q}]
        /\ net' = net \cup {HaveNote(n, q, mark[n])}
    BY <1>7 DEF Open
  <2>2. NoteSound(HaveNote(n, q, mark[n]))
    BY <1>1, HaveSound DEF LedgerType
  <2> QED BY <1>1, <1>2, <1>4, <2>1, <2>2 DEF IInv
<1>8. ASSUME NEW n \in Nodes, Resync(n)
      PROVE  IInv'
  <2>1. /\ UNCHANGED <<ledgers, peers, converged, faults, history>>
        /\ net' = net \cup {HaveNote(n, q, mark[n]) : q \in peers[n]}
    BY <1>8 DEF Resync
  <2>2. \A q \in peers[n] : NoteSound(HaveNote(n, q, mark[n]))
    BY <1>1, <1>2, HaveSound DEF LedgerType
  <2> QED BY <1>1, <1>2, <1>4, <2>1, <2>2 DEF IInv
<1>9. ASSUME NEW m \in net, Answer(m)
      PROVE  IInv'
  <2>1. /\ m.kind = "have"
        /\ UNCHANGED <<ledgers, peers, converged, faults, history>>
        /\ net' = (net \ {m}) \cup {Since(m.to, m.from, m.marks)}
    BY <1>9 DEF Answer
  <2>2. NoteSound(Since(m.to, m.from, m.marks))
    <3>1. m.marks \in Marks /\ m.from \in Nodes /\ m.to \in Nodes
      BY <1>3, <2>1 DEF Have, Facts
    <3>2. \A st \in Streams : m.marks[st] <= mark[m.from][st]
      BY <1>1, <2>1 DEF NoteSound, QuestionSound
    <3> QED BY <1>1, <3>1, <3>2, SinceSound
  <2> QED BY <1>1, <1>2, <1>4, <2>1, <2>2 DEF IInv
<1>10. ASSUME NEW m \in net, Absorb(m)
       PROVE  IInv'
  <2> DEFINE n == m.to
             after == Absorbed(n, m)
             again == IF m.more /\ after.marks # mark[n]
                      THEN {HaveNote(n, m.from, after.marks)} ELSE {}
  <2>1. /\ m.kind = "facts"
        /\ held' = [held EXCEPT ![n] = after.rows]
        /\ mark' = [mark EXCEPT ![n] = after.marks]
        /\ converged' = [converged EXCEPT ![n] = @ \/ ~m.more]
        /\ net' = (net \ {m}) \cup again
        /\ UNCHANGED <<origin, peers, faults, history>>
    BY <1>10 DEF Absorb
  <2>2. m \in Facts /\ n \in Nodes /\ m.from \in Nodes /\ m.more \in BOOLEAN
    BY <1>3, <2>1 DEF Have, Facts
  <2>3. /\ LedgerInv' /\ after.marks \in Marks
        /\ \A q \in Nodes, st \in Streams : mark[q][st] <= mark'[q][st]
    <3>1. NoteSound(m)
      BY <1>1
    <3> QED BY <1>1, <2>1, <2>2, <3>1, AbsorbStep
  <2>4. LedgerType'
    BY <2>3 DEF LedgerInv
  <2>5. Pruned \subseteq Pruned' /\ written' = written
    BY <2>1 DEF Pruned, history
  <2>6. ASSUME NEW k \in net PROVE NoteSound(k)'
    <3>1. NoteSound(k) /\ k.from \in Nodes /\ k.to \in Nodes
      BY <1>1, <1>3
    <3> QED BY <1>1, <2>3, <2>4, <2>5, <3>1, NoteKept
  <2> HIDE DEF after
  <2>7. ASSUME NEW k \in again PROVE NoteSound(k)'
    <3>1. k = HaveNote(n, m.from, after.marks) /\ mark'[n] = after.marks
      BY <1>1, <2>1, <2>2, <2>7 DEF LedgerType
    <3>2. \A st \in Streams : after.marks[st] <= mark'[n][st]
      BY <2>3, <3>1, MarkType
    <3> QED BY <2>2, <2>3, <3>1, <3>2
            DEF NoteSound, QuestionSound, AnswerSound, HaveNote, Have
  <2>8. converged' \in [Nodes -> BOOLEAN]
    BY <1>2, <2>1, <2>2
  <2> QED BY <1>2, <2>1, <2>3, <2>6, <2>7, <2>8 DEF IInv
<1>11. ASSUME NEW n \in Nodes, NEW q \in Nodes, Drop(n, q)
       PROVE  IInv'
  <2>1. /\ UNCHANGED <<ledgers, converged, history>>
        /\ net' \subseteq net
        /\ peers' = [peers EXCEPT ![n] = @ \ {q}, ![q] = @ \ {n}]
        /\ faults' = faults + 1 /\ faults < MaxFaults
    BY <1>11 DEF Drop
  <2>2. peers' \in [Nodes -> SUBSET Nodes]
    BY <1>2, <2>1
  <2>3. faults' \in 0..MaxFaults
    BY <1>2, <2>1
  <2> QED BY <1>1, <1>2, <1>4, <2>1, <2>2, <2>3 DEF IInv
<1>12. ASSUME NEW n \in Nodes, Restart(n)
       PROVE  IInv'
  <2>1. /\ UNCHANGED <<ledgers, history>>
        /\ net' \subseteq net
        /\ peers' = Unlinked(n)
        /\ converged' = [converged EXCEPT ![n] = FALSE]
        /\ faults' = faults + 1 /\ faults < MaxFaults
    BY <1>12 DEF Restart, Without
  <2>2. peers' \in [Nodes -> SUBSET Nodes]
    BY <1>2, <2>1 DEF Unlinked
  <2>3. faults' \in 0..MaxFaults /\ converged' \in [Nodes -> BOOLEAN]
    BY <1>2, <2>1
  <2> QED BY <1>1, <1>2, <1>4, <2>1, <2>2, <2>3 DEF IInv
<1>13. ASSUME NEW n \in Nodes, NEW o \in Origins, Replace(n, o)
       PROVE  IInv'
  <2>1. /\ o \in Origins \ minted
        /\ origin' = [origin EXCEPT ![n] = o]
        /\ held' = [held EXCEPT ![n] = {}]
        /\ mark' = [mark EXCEPT ![n] = Nowhere]
        /\ minted' = minted \cup {o}
        /\ peers' = Unlinked(n)
        /\ net' = Without(n)
        /\ converged' = [converged EXCEPT ![n] = FALSE]
        /\ faults' = faults + 1 /\ faults < MaxFaults
        /\ UNCHANGED <<written, pruned>>
    BY <1>13 DEF Replace
  <2>2. LedgerInv'
    BY <1>1, <2>1, ReplaceStep
  <2>3. LedgerType'
    BY <2>2 DEF LedgerInv
  <2>4. ASSUME NEW m \in net' PROVE NoteSound(m)'
    <3>1. m \in net /\ NoteSound(m) /\ m.from \in Nodes \ {n} /\ m.to \in Nodes \ {n}
      BY <1>1, <1>3, <2>1 DEF Without
    <3>2. mark'[m.from] = mark[m.from] /\ mark'[m.to] = mark[m.to]
      BY <1>1, <2>1, <3>1 DEF LedgerType
    <3>3. mark[m.from] \in Marks /\ mark[m.to] \in Marks
      BY <1>1, <3>1 DEF LedgerType
    <3>4. /\ \A st \in Streams : mark[m.from][st] <= mark'[m.from][st]
          /\ \A st \in Streams : mark[m.to][st] <= mark'[m.to][st]
      BY <3>2, <3>3, MarkType
    <3>5. Pruned \subseteq Pruned' /\ written' = written
      BY <2>1 DEF Pruned
    <3> QED BY <1>1, <2>3, <3>1, <3>4, <3>5, NoteKept
  <2>5. peers' \in [Nodes -> SUBSET Nodes]
    BY <1>2, <2>1 DEF Unlinked
  <2>6. faults' \in 0..MaxFaults /\ converged' \in [Nodes -> BOOLEAN]
    BY <1>2, <2>1
  <2> QED BY <2>2, <2>4, <2>5, <2>6 DEF IInv
<1>14. CASE UNCHANGED vars
  BY <1>1, <1>2, <1>4, <1>14 DEF IInv, vars, ledgers, history
<1> QED
  BY <1>5, <1>6, <1>7, <1>8, <1>9, <1>10, <1>11, <1>12, <1>13, <1>14 DEF Next

LEMMA InvAlways == Spec => []IInv
BY InitInv, StepInv, PTL DEF Spec

-----------------------------------------------------------------------------
(* Theorems *)

\* A watermark never passes a fact that is neither held, nor pruned by some
\* sweep, nor refused: catch-up in batches, live pushes ahead of a hole, crashes,
\* lost notes and lost ledgers included (ledger.ts since, absorb, cover, advance).
THEOREM MarksAreSound == Spec => []MarksSound
<1>1. IInv => MarksSound
  BY DEF IInv, LedgerInv
<1> QED
  BY <1>1, InvAlways, PTL

\* A sequence number is never given to two facts (ledger.ts nextSeq).
THEOREM SeqsNameOneFact == Spec => []OneFactPerSeq
<1>1. IInv => OneFactPerSeq
  BY DEF IInv, LedgerInv
<1> QED
  BY <1>1, InvAlways, PTL

\* Advancing over the rows of a ledger lowers no mark.
LEMMA MarksRise ==
    ASSUME mark \in [Nodes -> Marks], NEW n \in Nodes, NEW rows \in SUBSET Fact,
           mark' = [mark EXCEPT ![n] = Advanced(rows, mark[n])]
    PROVE  \A q \in Nodes, st \in Streams : mark[q][st] <= mark'[q][st]
<1> SUFFICES ASSUME NEW q \in Nodes, NEW st \in Streams
             PROVE  mark[q][st] <= mark'[q][st]
  OBVIOUS
<1>1. mark[q] \in Marks /\ mark[n] \in Marks
  OBVIOUS
<1>2. mark[q][st] \in Nat
  BY <1>1, MarkType
<1>3. mark[n][st] <= Advanced(rows, mark[n])[st]
  BY <1>1, AdvancedRuns
<1>4. mark'[q] = IF q = n THEN Advanced(rows, mark[n]) ELSE mark[q]
  OBVIOUS
<1> QED BY <1>2, <1>3, <1>4

\* A step that gains a row gains it above the mark.
LEMMA GainedAboveMark ==
    ASSUME IInv, [Next]_vars, NEW n \in Nodes, NEW f \in held'[n] \ held[n]
    PROVE  f.seq > mark[n][StreamOf(f)]
<1>1. LedgerInv /\ LedgerType /\ \A m \in net : NoteSound(m)
  BY DEF IInv, LedgerInv
<1>2. held \in [Nodes -> SUBSET Fact] /\ mark \in [Nodes -> Marks]
  BY <1>1 DEF LedgerType
<1>3. ASSUME NEW q \in Nodes, NEW w \in Rows, NEW b \in Bodies,
             WithinBounds(NewFacts(q, w, b)), NEW old,
             held' = [held EXCEPT ![q] = (@ \ old) \cup NewFacts(q, w, b)]
      PROVE  f.seq > mark[n][StreamOf(f)]
  <2>1. q = n /\ f \in NewFacts(n, w, b)
    BY <1>2, <1>3
  <2> QED BY <1>1, <1>3, <2>1, NewFactsAreNew DEF WithinBounds
<1>4. ASSUME NEW q \in Nodes, NEW w \in Transactions, NEW b \in Bodies, Write(q, w, b)
      PROVE  f.seq > mark[n][StreamOf(f)]
  <2>1. held' = [held EXCEPT ![q] = (@ \ {}) \cup NewFacts(q, w, b)]
    BY <1>2, <1>4 DEF Write
  <2>2. w \in Rows /\ WithinBounds(NewFacts(q, w, b))
    BY <1>4 DEF Write, Transactions
  <2> QED BY <1>3, <2>1, <2>2
<1>5. ASSUME NEW q \in Nodes, NEW old \in SUBSET held[q], NEW w \in Owing, NEW b \in Bodies,
             Sweep(q, old, w, b)
      PROVE  f.seq > mark[n][StreamOf(f)]
  <2>1. held' = [held EXCEPT ![q] = (@ \ old) \cup NewFacts(q, w, b)]
    BY <1>2, <1>5 DEF Sweep
  <2>2. w \in Rows /\ WithinBounds(NewFacts(q, w, b))
    BY <1>5 DEF Sweep, Owing
  <2> QED BY <1>3, <2>1, <2>2
<1>6. ASSUME NEW m \in net, Absorb(m)
      PROVE  f.seq > mark[n][StreamOf(f)]
  <2>1. held' = [held EXCEPT ![m.to] = held[m.to] \cup Recorded(m.to, m.facts)] /\ m.kind = "facts"
    BY <1>6 DEF Absorb, Absorbed
  <2>2. m.to = n /\ f \in Recorded(n, m.facts)
    BY <1>2, <2>1
  <2>3. f \in m.facts /\ ~(f.seq <= mark[n][StreamOf(f)])
    BY <2>2 DEF Recorded, Known
  <2>4. f \in Fact
    BY <1>1, <2>1, <2>3 DEF NoteSound, Have, Facts
  <2>5. mark[n][StreamOf(f)] \in Nat /\ f.seq \in Nat
    BY <1>2, <2>4, StreamType, MarkType DEF Fact
  <2> QED BY <2>3, <2>5
<1>7. ASSUME NEW q \in Nodes, NEW o \in Origins, Replace(q, o)
      PROVE  FALSE
  BY <1>2, <1>7 DEF Replace
<1>8. held' # held
  OBVIOUS
<1> QED
  BY <1>4, <1>5, <1>6, <1>7, <1>8
  DEF Next, Open, Resync, Answer, Drop, Restart, vars, ledgers

\* What an instance's sweeps have buried stays below its mark and out of its ledger.
Buried ==
    /\ buried \in [Nodes -> SUBSET Fact]
    /\ \A n \in Nodes : \A f \in buried[n] : f.seq <= mark[n][StreamOf(f)] /\ f \notin held[n]

LEMMA StepBuries == IInv /\ IInv' /\ Buried /\ [Next]_vars => Buried'
<1> SUFFICES ASSUME IInv, IInv', Buried, [Next]_vars PROVE Buried'
  OBVIOUS
<1>1. /\ held \in [Nodes -> SUBSET Fact] /\ mark \in [Nodes -> Marks]
      /\ held' \in [Nodes -> SUBSET Fact] /\ mark' \in [Nodes -> Marks]
  BY DEF IInv, LedgerInv, LedgerType
\* A row that was covered and not held is neither held now nor uncovered.
<1>2. ASSUME NEW n \in Nodes, NEW f \in Fact,
             f.seq <= mark[n][StreamOf(f)], f \notin held[n],
             mark[n][StreamOf(f)] <= mark'[n][StreamOf(f)]
      PROVE  f.seq <= mark'[n][StreamOf(f)] /\ f \notin held'[n]
  <2>1. StreamOf(f) \in Streams /\ f.seq \in Nat
    BY StreamType DEF Fact
  <2>2. mark[n][StreamOf(f)] \in Nat /\ mark'[n][StreamOf(f)] \in Nat
    <3>1. mark[n] \in Marks /\ mark'[n] \in Marks
      BY <1>1
    <3> QED BY <2>1, <3>1, MarkType
  <2>3. f \notin held'[n]
    <3> SUFFICES ASSUME f \in held'[n] \ held[n] PROVE FALSE
      BY <1>2
    <3>1. f.seq > mark[n][StreamOf(f)]
      BY GainedAboveMark
    <3> QED BY <1>2, <2>1, <2>2, <3>1
  <2> HIDE DEF StreamOf
  <2> QED BY <1>2, <2>1, <2>2, <2>3
<1>3. ASSUME NEW q \in Nodes, NEW o \in Origins, Replace(q, o) PROVE Buried'
  <2>1. /\ buried' = [buried EXCEPT ![q] = {}]
        /\ held' = [held EXCEPT ![q] = {}]
        /\ mark' = [mark EXCEPT ![q] = Nowhere]
    BY <1>3 DEF Replace
  <2>2. \A n \in Nodes \ {q} : /\ buried'[n] = buried[n] /\ held'[n] = held[n]
                               /\ mark'[n] = mark[n]
    BY <1>1, <2>1 DEF Buried
  <2>3. buried'[q] = {} /\ buried' \in [Nodes -> SUBSET Fact]
    BY <2>1 DEF Buried
  <2> QED BY <2>2, <2>3 DEF Buried, StreamOf
<1>4. ASSUME \A n \in Nodes, st \in Streams : mark[n][st] <= mark'[n][st], UNCHANGED buried
      PROVE  Buried'
  <2> SUFFICES ASSUME NEW n \in Nodes, NEW f \in buried[n]
               PROVE  f.seq <= mark'[n][StreamOf(f)] /\ f \notin held'[n]
    BY <1>4 DEF Buried, StreamOf
  <2>1. f \in Fact /\ f.seq <= mark[n][StreamOf(f)] /\ f \notin held[n]
    BY DEF Buried
  <2>2. StreamOf(f) \in Streams
    BY <2>1, StreamType
  <2> HIDE DEF StreamOf
  <2> QED BY <1>2, <1>4, <2>1, <2>2
<1>5. ASSUME NEW n \in Nodes, NEW w \in Transactions, NEW b \in Bodies, Write(n, w, b)
      PROVE  Buried'
  <2>1. mark' = [mark EXCEPT ![n] = Advanced(held[n] \cup NewFacts(n, w, b), mark[n])]
    BY <1>5 DEF Write
  <2>2. held[n] \cup NewFacts(n, w, b) \in SUBSET Fact
    <3>1. held'[n] = held[n] \cup NewFacts(n, w, b)
      BY <1>1, <1>5 DEF Write
    <3> QED BY <1>1, <3>1
  <2>3. \A q \in Nodes, st \in Streams : mark[q][st] <= mark'[q][st]
    BY <1>1, <2>1, <2>2, MarksRise
  <2> QED BY <1>4, <1>5, <2>3 DEF Write
<1>6. ASSUME NEW n \in Nodes, NEW old \in SUBSET held[n], NEW w \in Owing, NEW b \in Bodies,
             Sweep(n, old, w, b)
      PROVE  Buried'
  <2> DEFINE new == NewFacts(n, w, b)
             rows == (held[n] \ old) \cup new
             deep == {f \in old : f.seq <= mark[n][StreamOf(f)]}
  <2>1. /\ mark' = [mark EXCEPT ![n] = Advanced(rows, mark[n])]
        /\ held' = [held EXCEPT ![n] = rows]
        /\ buried' = [buried EXCEPT ![n] = @ \cup deep]
        /\ \A f \in new : f.seq <= MaxSeq
    BY <1>6 DEF Sweep, WithinBounds
  <2>2. w \in Rows
    BY DEF Owing
  <2>3. \A f \in new : f \in Fact /\ f.seq > mark[n][StreamOf(f)]
    BY <2>1, <2>2, NewFactsAreNew DEF IInv
  <2> HIDE DEF new
  <2>4. rows \in SUBSET Fact
    BY <1>1, <2>3
  <2>5. \A q \in Nodes, st \in Streams : mark[q][st] <= mark'[q][st]
    BY <1>1, <2>1, <2>4, MarksRise
  <2>6. deep \in SUBSET Fact
    BY <1>1
  <2>7. buried' \in [Nodes -> SUBSET Fact]
    BY <2>1, <2>6 DEF Buried
  <2>8. ASSUME NEW q \in Nodes, NEW f \in buried[q]
        PROVE  f.seq <= mark'[q][StreamOf(f)] /\ f \notin held'[q]
    <3>1. f \in Fact /\ f.seq <= mark[q][StreamOf(f)] /\ f \notin held[q]
      BY DEF Buried
    <3>2. StreamOf(f) \in Streams
      BY <3>1, StreamType
    <3> HIDE DEF StreamOf, rows, deep
    <3> QED BY <1>2, <2>5, <3>1, <3>2
  <2>9. ASSUME NEW f \in deep
        PROVE  f.seq <= mark'[n][StreamOf(f)] /\ f \notin held'[n]
    <3>1. f \in Fact /\ f \in old /\ f.seq <= mark[n][StreamOf(f)]
      BY <2>6
    <3>2. StreamOf(f) \in Streams /\ f.seq \in Nat
      BY <3>1, StreamType DEF Fact
    <3>3. mark[n][StreamOf(f)] \in Nat /\ mark'[n][StreamOf(f)] \in Nat
      <4>1. mark[n] \in Marks /\ mark'[n] \in Marks
        BY <1>1
      <4> QED BY <3>2, <4>1, MarkType
    <3>4. f \notin held'[n]
      <4>1. held'[n] = rows
        BY <1>1, <2>1
      <4>2. f \notin new
        BY <2>3, <3>1, <3>2, <3>3
      <4> QED BY <3>1, <4>1, <4>2
    <3>5. mark[n][StreamOf(f)] <= mark'[n][StreamOf(f)]
      BY <2>5, <3>2
    <3> HIDE DEF StreamOf
    <3> QED BY <3>1, <3>2, <3>3, <3>4, <3>5
  <2> HIDE DEF deep, rows
  <2>10. \A q \in Nodes : buried'[q] = IF q = n THEN buried[q] \cup deep ELSE buried[q]
    BY <2>1 DEF Buried
  <2>11. \A q \in Nodes : \A f \in buried'[q] : f.seq <= mark'[q][StreamOf(f)] /\ f \notin held'[q]
    BY <2>8, <2>9, <2>10
  <2> QED BY <2>7, <2>11 DEF Buried, StreamOf
<1>7. ASSUME NEW m \in net, Absorb(m) PROVE Buried'
  <2>1. NoteSound(m) /\ LedgerInv
    BY DEF IInv
  <2>2. \A q \in Nodes, st \in Streams : mark[q][st] <= mark'[q][st]
    BY <1>7, <2>1, AbsorbStep DEF Absorb, NoteSound, Have, Facts
  <2> QED BY <1>4, <1>7, <2>2 DEF Absorb, history
<1>8. ASSUME UNCHANGED <<ledgers, history>> PROVE Buried'
  BY <1>8 DEF ledgers, history, Buried, StreamOf
<1> QED
  BY <1>3, <1>5, <1>6, <1>7, <1>8 DEF Next, Open, Resync, Answer, Drop, Restart, vars

LEMMA BuriedAlways == Spec => []Buried
<1>1. Init => Buried
  BY DEF Init, Buried
<1> QED
  BY <1>1, StepBuries, InvAlways, PTL DEF Spec

\* Every state is well typed.
THEOREM Typed == Spec => []TypeOK
<1>1. IInv /\ Buried => TypeOK
  BY DEF IInv, LedgerInv, LedgerType, Buried, TypeOK, NoteSound
<1> QED
  BY <1>1, InvAlways, BuriedAlways, PTL

\* No row an instance's sweep deleted below its mark is in that ledger again, whatever
\* late pushes, repeated answers, catch-ups and new writes follow: the mark that covers
\* it never falls while the ledger lives (ledger.ts known, cover, advance, nextSeq).
THEOREM SweptRowsStayAway == Spec => []SweptStaysAway
<1>1. Buried => SweptStaysAway
  BY DEF Buried, SweptStaysAway
<1> QED
  BY <1>1, BuriedAlways, PTL

-----------------------------------------------------------------------------
(* The refinement *)

\* A mark rests: the row after it is not held.
Rested == \A n \in Nodes, st \in Streams : mark[n][st] + 1 \notin SeqsOf(held[n], st)

\* What absorbing leaves are marks advanced over the rows it leaves.
LEMMA AbsorbedIsAdvanced ==
    ASSUME LedgerType, NEW m \in Facts
    PROVE  /\ Absorbed(m.to, m).rows \in SUBSET Fact
           /\ \E marks \in Marks :
                Absorbed(m.to, m).marks = Advanced(Absorbed(m.to, m).rows, marks)
<1> DEFINE n == m.to
           covered == [st \in Streams |->
                         IF st[2] = origin[n] THEN mark[n][st]
                         ELSE Max({mark[n][st], m.through[st]})]
<1>1. n \in Nodes /\ m.facts \in SUBSET Fact /\ m.through \in Marks
  BY DEF Facts
<1>2. mark[n] \in Marks /\ held[n] \in SUBSET Fact
  BY <1>1 DEF LedgerType
<1>3. Absorbed(n, m).rows \in SUBSET Fact
  BY <1>1, <1>2 DEF Absorbed, Recorded
<1>4. ASSUME NEW st \in Streams PROVE covered[st] \in 0..MaxSeq
  <2> DEFINE two == {mark[n][st], m.through[st]}
  <2>1. mark[n][st] \in 0..MaxSeq /\ m.through[st] \in 0..MaxSeq
    BY <1>1, <1>2, MarkType
  <2>2. two \in SUBSET (0..MaxSeq) /\ two # {}
    BY <2>1
  <2>3. Max(two) \in 0..MaxSeq
    <3> HIDE DEF two
    <3> QED BY <2>2, MaxIsGreatest
  <2> QED BY <2>1, <2>3
<1>5. covered \in Marks
  BY <1>4 DEF Marks
<1>6. Absorbed(n, m).marks = Advanced(Absorbed(n, m).rows, covered)
  BY DEF Absorbed
<1> HIDE DEF covered
<1> QED BY <1>3, <1>5, <1>6

\* A ledger that advances after every change of its rows keeps its marks at rest.
LEMMA StepRests == IInv /\ Rested /\ [Next]_vars => Rested'
<1> SUFFICES ASSUME IInv, Rested, [Next]_vars PROVE Rested'
  OBVIOUS
<1>1. LedgerInv /\ LedgerType
  BY DEF IInv, LedgerInv
<1>2. ASSUME NEW n \in Nodes, NEW rows \in SUBSET Fact, NEW marks \in Marks,
             held' = [held EXCEPT ![n] = rows], mark' = [mark EXCEPT ![n] = Advanced(rows, marks)]
      PROVE  Rested'
  <2> SUFFICES ASSUME NEW q \in Nodes, NEW st \in Streams
               PROVE  mark'[q][st] + 1 \notin SeqsOf(held'[q], st)
    BY DEF Rested, SeqsOf, RowsOf, StreamOf, Streams
  <2>1. CASE q = n
    <3>1. held'[q] = rows /\ mark'[q] = Advanced(rows, marks)
      BY <1>1, <1>2, <2>1 DEF LedgerType
    <3> QED BY <3>1, AdvancedRuns
  <2>2. CASE q # n
    <3>1. held'[q] = held[q] /\ mark'[q] = mark[q]
      BY <1>1, <1>2, <2>2 DEF LedgerType
    <3> QED BY <3>1 DEF Rested
  <2> QED BY <2>1, <2>2
<1>3. ASSUME NEW n \in Nodes, NEW w \in Transactions, NEW b \in Bodies, Write(n, w, b)
      PROVE  Rested'
  <2> DEFINE rows == held[n] \cup NewFacts(n, w, b)
  <2>1. w \in Rows /\ \A f \in NewFacts(n, w, b) : f.seq <= MaxSeq
    BY <1>3 DEF Write, Transactions, WithinBounds
  <2>2. rows \in SUBSET Fact /\ mark[n] \in Marks
    BY <1>1, <2>1, NewFactsAreNew DEF LedgerType
  <2>3. held' = [held EXCEPT ![n] = rows] /\ mark' = [mark EXCEPT ![n] = Advanced(rows, mark[n])]
    BY <1>3 DEF Write
  <2> QED BY <1>2, <2>2, <2>3
<1>4. ASSUME NEW n \in Nodes, NEW old \in SUBSET held[n], NEW w \in Owing, NEW b \in Bodies,
             Sweep(n, old, w, b)
      PROVE  Rested'
  <2> DEFINE rows == (held[n] \ old) \cup NewFacts(n, w, b)
  <2>1. w \in Rows /\ \A f \in NewFacts(n, w, b) : f.seq <= MaxSeq
    BY <1>4 DEF Sweep, Owing, WithinBounds
  <2>2. rows \in SUBSET Fact /\ mark[n] \in Marks
    BY <1>1, <2>1, NewFactsAreNew DEF LedgerType
  <2>3. held' = [held EXCEPT ![n] = rows] /\ mark' = [mark EXCEPT ![n] = Advanced(rows, mark[n])]
    BY <1>4 DEF Sweep
  <2> QED BY <1>2, <2>2, <2>3
<1>5. ASSUME NEW m \in net, Absorb(m) PROVE Rested'
  <2>1. m \in Facts
    BY <1>5 DEF IInv, NoteSound, Absorb, Have, Facts
  <2>2. m.to \in Nodes
    BY <2>1 DEF Facts
  <2>3. /\ held' = [held EXCEPT ![m.to] = Absorbed(m.to, m).rows]
        /\ mark' = [mark EXCEPT ![m.to] = Absorbed(m.to, m).marks]
    BY <1>5 DEF Absorb
  <2> QED BY <1>1, <1>2, <2>1, <2>2, <2>3, AbsorbedIsAdvanced
<1>6. ASSUME NEW n \in Nodes, NEW o \in Origins, Replace(n, o) PROVE Rested'
  <2> SUFFICES ASSUME NEW q \in Nodes, NEW st \in Streams
               PROVE  mark'[q][st] + 1 \notin SeqsOf(held'[q], st)
    BY DEF Rested, SeqsOf, RowsOf, StreamOf, Streams
  <2>1. CASE q = n
    <3>1. held'[q] = {}
      BY <1>1, <1>6, <2>1 DEF Replace, LedgerType
    <3> QED BY <3>1 DEF SeqsOf, RowsOf
  <2>2. CASE q # n
    <3>1. held'[q] = held[q] /\ mark'[q] = mark[q]
      BY <1>1, <1>6, <2>2 DEF Replace, LedgerType
    <3> QED BY <3>1 DEF Rested
  <2> QED BY <2>1, <2>2
<1>7. ASSUME UNCHANGED ledgers PROVE Rested'
  BY <1>7 DEF Rested, ledgers, SeqsOf, RowsOf, StreamOf
<1> QED
  BY <1>3, <1>4, <1>5, <1>6, <1>7 DEF Next, Open, Resync, Answer, Drop, Restart, vars

\* The end of a stream is its greatest number, or zero.
LEMMA EndIsLast ==
    ASSUME written \in SUBSET Fact, NEW st
    PROVE  /\ Log!Numbers(st) = SeqsOf(written, st)
           /\ Log!End(st) \in SeqsOf(written, st) \cup {0}
           /\ \A j \in SeqsOf(written, st) : j <= Log!End(st)
           /\ Log!End(st) \in Nat
<1> DEFINE seqs == SeqsOf(written, st)
<1>1. Log!Numbers(st) = seqs
  BY DEF Log!Numbers, SeqsOf, RowsOf, StreamOf
<1>2. seqs \in SUBSET (1..MaxSeq)
  BY SeqsType
<1> HIDE DEF seqs
<1>3. seqs \cup {0} \in SUBSET (0..MaxSeq) /\ seqs \cup {0} # {}
  BY <1>2
<1>4. \E k \in seqs \cup {0} : \A j \in seqs : j <= k
  BY <1>3, MaxIsGreatest
<1>5. Log!End(st) \in seqs \cup {0} /\ \A j \in seqs : j <= Log!End(st)
  BY <1>1, <1>4 DEF Log!End
<1> QED BY <1>1, <1>3, <1>5 DEF seqs

\* A mark is not past the end, and a ledger's own mark stands at it.
LEMMA MarkToEnd ==
    ASSUME LedgerInv, NEW n \in Nodes, NEW st \in Streams
    PROVE  /\ mark[n][st] <= Log!End(st)
           /\ st[2] = origin[n] => Log!End(st) = mark[n][st]
<1>1. written \in SUBSET Fact /\ mark[n][st] \in Nat
  BY MarkType DEF LedgerInv, LedgerType
<1>2. /\ Log!End(st) \in SeqsOf(written, st) \cup {0}
      /\ \A j \in SeqsOf(written, st) : j <= Log!End(st)
      /\ Log!End(st) \in Nat
  BY <1>1, EndIsLast
<1>3. mark[n][st] <= Log!End(st)
  <2>1. mark[n][st] \in SeqsOf(written, st) \cup {0}
    BY DEF LedgerInv, MarkWritten
  <2> QED BY <1>2, <2>1
<1>4. ASSUME st[2] = origin[n] PROVE Log!End(st) <= mark[n][st]
  <2>1. CASE Log!End(st) = 0
    BY <1>1, <2>1
  <2>2. CASE Log!End(st) # 0
    <3>1. PICK f \in written : StreamOf(f) = st /\ f.seq = Log!End(st)
      BY <1>2, <2>2, SeqsMember
    <3>2. f.origin = origin[n]
      BY <1>1, <1>4, <3>1, StreamType
    <3> QED BY <3>1, <3>2 DEF LedgerInv, OwnCovered
  <2> QED BY <2>1, <2>2
<1> QED BY <1>1, <1>2, <1>3, <1>4

\* Writing facts, and sweeping before it, publishes at the ends of the ledger's own
\* streams and moves no other mark.
LEMMA PublishRefines ==
    ASSUME LedgerInv, LedgerInv', Rested, NEW n \in Nodes, NEW w \in Rows, NEW b \in Bodies,
           NEW old \in SUBSET held[n], NEW new, new = NewFacts(n, w, b),
           \A f \in new : f.seq <= MaxSeq,
           NEW rows, rows = (held[n] \ old) \cup new,
           mark' = [mark EXCEPT ![n] = Advanced(rows, mark[n])],
           written' = written \cup new,
           UNCHANGED <<origin, minted>>
    PROVE  Log!Publish(n)
<1>1. LedgerType /\ mark[n] \in Marks /\ origin[n] \in Origins /\ written \in SUBSET Fact
  BY DEF LedgerInv, LedgerType
<1>2. /\ new \in SUBSET Fact
      /\ \A f \in new :
           /\ f.origin = origin[n]
           /\ f.seq > mark[n][StreamOf(f)]
           /\ (mark[n][StreamOf(f)] + 1)..f.seq \subseteq SeqsOf(new, StreamOf(f))
           /\ \A g \in written : StreamOf(g) = StreamOf(f) => g.seq < f.seq
      /\ \A f, g \in new : StreamOf(f) = StreamOf(g) /\ f.seq = g.seq => f = g
  BY NewFactsAreNew
<1>3. rows \in SUBSET Fact
  BY <1>1, <1>2 DEF LedgerType
<1>4. mark'[n] = Advanced(rows, mark[n]) /\ mark' = [mark EXCEPT ![n] = mark'[n]]
  BY <1>1 DEF LedgerType
<1>5. written' \ written = new
  <2> SUFFICES ASSUME NEW f \in new, f \in written PROVE FALSE
    OBVIOUS
  <2>1. f.seq < f.seq /\ f.seq \in Nat
    BY <1>2 DEF Fact
  <2> QED BY <2>1
<1>6. Log!Own(n) = {st \in Streams : st[2] = origin[n]}
  BY <1>1 DEF Log!Own, Streams
<1>7. \A f \in new : /\ f \in Log!Entries /\ <<f.source, f.origin>> \in Log!Own(n)
                     /\ <<f.source, f.origin>> = StreamOf(f)
  <2> SUFFICES ASSUME NEW f \in new
               PROVE  /\ f \in Log!Entries /\ <<f.source, f.origin>> \in Log!Own(n)
                      /\ <<f.source, f.origin>> = StreamOf(f)
    OBVIOUS
  <2>1. f \in Fact /\ f.origin = origin[n]
    BY <1>2
  <2>2. f \in Log!Entries
    BY <2>1 DEF Log!Entries, Fact
  <2>3. f.source \in Sources
    BY <2>1 DEF Fact
  <2> QED BY <2>1, <2>2, <2>3 DEF Log!Own, StreamOf
<1>8. ASSUME NEW st \in Streams
      PROVE  /\ mark[n][st] \in Nat
             /\ mark'[n][st] \in Nat
             /\ mark[n][st] <= mark'[n][st]
             /\ mark'[n][st] + 1 \notin SeqsOf(rows, st)
             /\ (mark[n][st] + 1)..mark'[n][st] \subseteq SeqsOf(rows, st)
  <2>1. Advanced(rows, mark[n]) \in Marks
    BY <1>1, <1>3, AdvancedType
  <2> QED BY <1>1, <1>3, <1>4, <2>1, AdvancedRuns, MarkType
<1>9. ASSUME NEW st \in Streams, st[2] = origin[n]
      PROVE  SeqsOf(new, st) = (Log!End(st) + 1)..mark'[n][st]
  <2>1. Log!End(st) = mark[n][st]
    BY <1>9, MarkToEnd
  <2>2. ASSUME NEW k \in SeqsOf(new, st)
        PROVE  k \in (mark[n][st] + 1)..mark'[n][st]
    <3>1. PICK f \in new : StreamOf(f) = st /\ f.seq = k
      BY SeqsMember
    <3>2. f \in written' /\ f.origin = origin'[n]
      BY <1>2, <3>1
    <3>3. f.seq <= mark'[n][StreamOf(f)]
      BY <3>2 DEF LedgerInv, OwnCovered, StreamOf
    <3>4. k \in Nat /\ k > mark[n][st]
      <4>1. f \in Fact /\ f.seq > mark[n][StreamOf(f)]
        BY <1>2, <3>1
      <4>2. f.seq \in Nat
        BY <4>1 DEF Fact
      <4> HIDE DEF StreamOf
      <4> QED BY <3>1, <4>1, <4>2
    <3>5. k <= mark'[n][st]
      <4> HIDE DEF StreamOf
      <4> QED BY <3>1, <3>3
    <3>6. mark[n][st] \in Nat /\ mark'[n][st] \in Nat
      BY <1>8
    <3> QED BY <3>4, <3>5, <3>6
  <2>3. ASSUME NEW k \in (mark[n][st] + 1)..mark'[n][st]
        PROVE  k \in SeqsOf(new, st)
    <3>1. k \in SeqsOf(rows, st)
      BY <1>8
    <3>2. PICK f \in rows : StreamOf(f) = st /\ f.seq = k
      BY <3>1, SeqsMember
    <3>3. f \in new
      <4> SUFFICES ASSUME f \in held[n] PROVE FALSE
        BY <3>2
      <4>1. f \in written /\ f \in Fact
        BY <1>1 DEF LedgerInv, HeldWritten
      <4>2. f.origin = origin[n]
        BY <1>9, <3>2, <4>1, StreamType
      <4>3. f.seq <= mark[n][StreamOf(f)]
        BY <4>1, <4>2 DEF LedgerInv, OwnCovered
      <4> QED BY <1>8, <3>2, <4>3
    <3> QED BY <3>2, <3>3, SeqsMember
  <2> QED BY <2>1, <2>2, <2>3
<1>10. ASSUME NEW st \in Streams, st[2] # origin[n]
       PROVE  mark'[n][st] = mark[n][st]
  <2>1. \A f \in new : StreamOf(f) # st
    BY <1>2, <1>10, StreamType
  <2>2. SeqsOf(rows, st) \subseteq SeqsOf(held[n], st)
    BY <2>1 DEF SeqsOf, RowsOf
  <2>3. mark[n][st] + 1 \notin SeqsOf(rows, st)
    BY <2>2 DEF Rested
  <2> SUFFICES ASSUME mark'[n][st] # mark[n][st] PROVE FALSE
    OBVIOUS
  <2>4. mark[n][st] \in Nat /\ mark'[n][st] \in Nat /\ mark[n][st] <= mark'[n][st]
    BY <1>8
  <2>5. mark[n][st] + 1 \in (mark[n][st] + 1)..mark'[n][st]
    BY <2>4
  <2> QED BY <1>8, <2>3, <2>5
<1>11. ASSUME NEW st \in Log!Own(n)
       PROVE  LET fresh == {e \in written' \ written : <<e.source, e.origin>> = st}
              IN  /\ {e.seq : e \in fresh} = (Log!End(st) + 1)..mark'[n][st]
                  /\ \A e, f \in fresh : e.seq = f.seq => e = f
  <2> DEFINE fresh == {e \in written' \ written : <<e.source, e.origin>> = st}
  <2>1. fresh = RowsOf(new, st)
    BY <1>5 DEF RowsOf, StreamOf
  <2>2. {e.seq : e \in fresh} = SeqsOf(new, st)
    BY <2>1 DEF SeqsOf
  <2>3. st \in Streams /\ st[2] = origin[n]
    BY <1>6
  <2>4. \A e, f \in fresh : e.seq = f.seq => e = f
    BY <1>2, <2>1 DEF RowsOf
  <2> HIDE DEF fresh
  <2>5. {e.seq : e \in fresh} = (Log!End(st) + 1)..mark'[n][st]
    BY <1>9, <2>2, <2>3
  <2> QED BY <2>4, <2>5 DEF fresh
<1>12. Log!Streams = Streams
  BY DEF Log!Streams, Streams
<1>13. \A st \in Log!Streams \ Log!Own(n) : mark'[n][st] = mark[n][st]
  BY <1>6, <1>10, <1>12
<1>14. \A e \in written' \ written : e \in Log!Entries /\ <<e.source, e.origin>> \in Log!Own(n)
  BY <1>5, <1>7
<1> QED
  BY <1>4, <1>11, <1>13, <1>14 DEF Log!Publish

\* Absorbing a note follows its streams.
LEMMA FollowRefines ==
    ASSUME IInv, LedgerInv', NEW m \in net, Absorb(m)
    PROVE  m.to \in Nodes /\ Log!Follow(m.to)
<1> DEFINE n == m.to
<1>1. LedgerInv /\ LedgerType /\ NoteSound(m) /\ m \in Facts
  BY DEF IInv, LedgerInv, NoteSound, Absorb, Have, Facts
<1>2. n \in Nodes
  BY <1>1 DEF Facts
<1>3. /\ held' = [held EXCEPT ![n] = Absorbed(n, m).rows]
      /\ mark' = [mark EXCEPT ![n] = Absorbed(n, m).marks]
      /\ UNCHANGED <<origin, history>>
  BY DEF Absorb
<1>4. \A q \in Nodes, st \in Streams : mark[q][st] <= mark'[q][st]
  BY <1>1, <1>3, AbsorbStep
<1>5. mark' = [mark EXCEPT ![n] = mark'[n]]
  BY <1>1, <1>2, <1>3 DEF LedgerType
<1>6. written' = written /\ minted' = minted /\ origin' = origin
  BY <1>3 DEF history
<1>7. ASSUME NEW st \in Streams PROVE mark'[n][st] <= Log!End(st)
  <2>1. mark'[n][st] \in SeqsOf(written, st) \cup {0}
    BY <1>2, <1>6 DEF LedgerInv, MarkWritten, SeqsOf, RowsOf, StreamOf, Streams
  <2>2. written \in SUBSET Fact
    BY <1>1 DEF LedgerType
  <2> QED BY <2>1, <2>2, EndIsLast
<1>8. Log!Streams = Streams
  BY DEF Log!Streams, Streams
<1> QED
  BY <1>2, <1>4, <1>5, <1>6, <1>7, <1>8 DEF Log!Follow

\* Every step of Replication is a step of Logs or a stutter.
LEMMA StepRefines ==
    ASSUME IInv, IInv', Rested, [Next]_vars
    PROVE  [Log!Next]_Log!vars
<1>1. LedgerInv /\ LedgerType /\ LedgerInv'
  BY DEF IInv, LedgerInv
<1>2. ASSUME NEW n \in Nodes, NEW w \in Transactions, NEW b \in Bodies, Write(n, w, b)
      PROVE  Log!Next
  <2> DEFINE new == NewFacts(n, w, b)
             rows == held[n] \cup new
  <2>1. /\ \A f \in new : f.seq <= MaxSeq
        /\ mark' = [mark EXCEPT ![n] = Advanced(rows, mark[n])]
        /\ written' = written \cup new
        /\ UNCHANGED <<origin, minted>>
    BY <1>2 DEF Write, WithinBounds
  <2>2. w \in Rows /\ rows = (held[n] \ {}) \cup new /\ {} \in SUBSET held[n]
    BY DEF Transactions
  <2> HIDE DEF new, rows
  <2>3. Log!Publish(n)
    BY <1>1, <2>1, <2>2, PublishRefines DEF new
  <2> QED BY <2>2, <2>3 DEF Log!Next
<1>3. ASSUME NEW n \in Nodes, NEW old \in SUBSET held[n], NEW w \in Owing, NEW b \in Bodies,
             Sweep(n, old, w, b)
      PROVE  Log!Next
  <2> DEFINE new == NewFacts(n, w, b)
             rows == (held[n] \ old) \cup new
  <2>1. /\ \A f \in new : f.seq <= MaxSeq
        /\ mark' = [mark EXCEPT ![n] = Advanced(rows, mark[n])]
        /\ written' = written \cup new
        /\ UNCHANGED <<origin, minted>>
    BY <1>3 DEF Sweep, WithinBounds
  <2>2. w \in Rows
    BY DEF Owing
  <2>3. rows = (held[n] \ old) \cup new
    OBVIOUS
  <2> HIDE DEF new, rows
  <2>4. Log!Publish(n)
    BY <1>1, <2>1, <2>2, <2>3, PublishRefines DEF new
  <2> QED BY <2>2, <2>4 DEF Log!Next
<1>4. ASSUME NEW m \in net, Absorb(m) PROVE Log!Next
  BY <1>1, <1>4, FollowRefines DEF Log!Next
<1>5. ASSUME NEW n \in Nodes, NEW o \in Origins, Replace(n, o) PROVE Log!Next
  <2>1. Nowhere = [st \in Log!Streams |-> 0]
    BY DEF Nowhere, Log!Streams, Streams
  <2>2. Log!Lose(n, o)
    BY <1>5, <2>1 DEF Replace, Log!Lose
  <2> QED BY <2>2 DEF Log!Next
<1>6. ASSUME UNCHANGED <<ledgers, history>> PROVE UNCHANGED Log!vars
  BY <1>6 DEF ledgers, history, Log!vars
<1> QED
  BY <1>2, <1>3, <1>4, <1>5, <1>6 DEF Next, Open, Resync, Answer, Drop, Restart, vars

\* Replication implements module Logs, for any number of instances, tables, batches
\* and faults: the facts of an origin are one gap-free log of one writer, marks only
\* move forward within what was written, and only a lost ledger begins again, under
\* an origin never used before (ledger.ts nextSeq, advance, cover, absorb).
THEOREM ReplicationKeepsLogs == Spec => KeepsLogs
<1>1. Init => Log!Init
  BY DEF Init, Log!Init, Nowhere, Streams, Log!Streams
<1>2. Init => Rested
  BY DEF Init, Rested, SeqsOf, RowsOf
<1>3. Spec => []Rested
  BY <1>2, InvAlways, StepRests, PTL DEF Spec
<1>4. IInv /\ IInv' /\ Rested /\ [Next]_vars => [Log!Next]_Log!vars
  BY StepRefines
<1> QED
  BY <1>1, <1>3, <1>4, InvAlways, PTL DEF Spec, KeepsLogs, Log!Spec

=============================================================================
