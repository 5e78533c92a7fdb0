--------------------------------- MODULE Logs ---------------------------------
(***************************************************************************)
(* What replication promises, whatever is pushed, asked, lost or swept:    *)
(* every stream is one growing log.  Only the reader that goes by its name *)
(* publishes on it, numbering the entries 1, 2, 3, ... without a gap; a    *)
(* reader's position on a log only moves forward, over entries that exist; *)
(* and a reader that lost everything begins again under a name nobody has  *)
(* used.  How a reader gets at the entries is not said.                    *)
(***************************************************************************)
EXTENDS Naturals

CONSTANTS
    Readers,   \* who publishes and follows
    Names,     \* what they can go by
    Kinds,     \* each name has one stream of each kind
    Messages   \* what an entry can say

VARIABLES
    log,       \* every entry published
    name,      \* name[r]: what r goes by
    at,        \* at[r][stream]: how far r has followed
    used       \* the names taken so far

vars == <<log, name, at, used>>

Streams == Kinds \X Names
Numbers(st) == {e.seq : e \in {f \in log : <<f.source, f.origin>> = st}}
End(st) == CHOOSE k \in Numbers(st) \cup {0} : \A j \in Numbers(st) : j <= k

Own(r) == {<<kind, name[r]>> : kind \in Kinds}
Entries == [source: Kinds, origin: Names, seq: Nat, body: Messages]

Init ==
    /\ log = {}
    /\ name \in [Readers -> Names]
    /\ \A r, q \in Readers : name[r] = name[q] => r = q
    /\ at = [r \in Readers |-> [st \in Streams |-> 0]]
    /\ used = {name[r] : r \in Readers}

\* Some entries at the ends of its own streams, at once, one for each next number.
Publish(r) ==
    /\ log \subseteq log'
    /\ at' = [at EXCEPT ![r] = at'[r]]
    /\ \A e \in log' \ log : e \in Entries /\ <<e.source, e.origin>> \in Own(r)
    /\ \A st \in Own(r) :
          LET new == {e \in log' \ log : <<e.source, e.origin>> = st}
          IN  /\ {e.seq : e \in new} = (End(st) + 1)..at'[r][st]
              /\ \A e, f \in new : e.seq = f.seq => e = f
    /\ \A st \in Streams \ Own(r) : at'[r][st] = at[r][st]
    /\ UNCHANGED <<name, used>>

Follow(r) ==
    /\ at' = [at EXCEPT ![r] = at'[r]]
    /\ \A st \in Streams : at[r][st] <= at'[r][st] /\ at'[r][st] <= End(st)
    /\ UNCHANGED <<log, name, used>>

Lose(r, o) ==
    /\ o \notin used
    /\ name' = [name EXCEPT ![r] = o]
    /\ at' = [at EXCEPT ![r] = [st \in Streams |-> 0]]
    /\ used' = used \cup {o}
    /\ UNCHANGED log

Next ==
    \E r \in Readers :
        \/ Publish(r)
        \/ Follow(r)
        \/ \E o \in Names : Lose(r, o)

Spec == Init /\ [][Next]_vars

===============================================================================
