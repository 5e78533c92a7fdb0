------------------------------- MODULE Receiver -------------------------------
(***************************************************************************)
(* The webhook route of the SDK (sdk/src/serving.ts webhook,               *)
(* onceWhileReplayable, acted; sdk/src/webhook.ts readSettlement,          *)
(* believable, proved): a signed delivery may arrive any number of times   *)
(* while its signature is fresh, and is acted on once.                     *)
(*                                                                         *)
(* A message is one signed delivery.  left is how long its signature is    *)
(* still believed, measured by the shop's clock, which is off by less than *)
(* the tolerance.  The route is one step up to the handler's own await.    *)
(***************************************************************************)
EXTENDS Integers, Sequences, FiniteSets

CONSTANTS
    Orders,     \* the deliveries' keys: id and status
    Messages,   \* slots for signed deliveries
    Tolerance,  \* toleranceSecs
    LongestAct  \* how long the shop's handler may take, below 2 * Tolerance

VARIABLES
    mail,       \* mail[m]: the delivery in slot m, at most one
    acting,     \* the Map: its entries in order, [key, left, done]
    acts,       \* the handler's calls that run: [key, by]
    waits,      \* the requests held until a call ends: [key, by]
    acked,      \* the orders whose delivery was answered ok at the gateway
    fulfilled,  \* history: the orders the handler acted on
    twice       \* history: a delivery was acted on that had been already

vars == <<mail, acting, acts, waits, acked, fulfilled, twice>>

-----------------------------------------------------------------------------
(* What is believed *)

\* signerOf, believable: a signature of the gateway that is neither old nor from the
\* future.  Any other delivery, and one that says paid and does not prove it (proved),
\* is answered 401 and changes nothing.
Believed(d) == d.left \in 0..(2 * Tolerance)

\* Mutant of Kept: an entry is kept for the tolerance.
KeptOnce == Tolerance

\* replayableForMs
Kept == 2 * Tolerance

\* The loop over the Map stops at the first entry that is not over yet.
Evicted(s) ==
    IF \A i \in DOMAIN s : s[i].left <= 0 THEN <<>>
    ELSE LET first == CHOOSE i \in DOMAIN s : s[i].left > 0 /\ \A j \in 1..(i - 1) : s[j].left <= 0
         IN SubSeq(s, first, Len(s))

Entries(s, key) == {i \in DOMAIN s : s[i].key = key}

-----------------------------------------------------------------------------
(* The route *)

\* The gateway signs a delivery, by a clock that is skew ahead of the shop's: again
\* and again until one is answered.
Sign(m, o, skew) ==
    /\ mail[m] = {} /\ o \notin acked
    /\ mail' = [mail EXCEPT ![m] = {[key |-> o, left |-> Tolerance + skew, hit |-> FALSE]}]
    /\ UNCHANGED <<acting, acts, waits, acked, fulfilled, twice>>

Hit(m) == mail' = [mail EXCEPT ![m] = {[d EXCEPT !.hit = TRUE] : d \in @}]

\* once, when the key is not being acted on: act() begins and is kept at once.
Acts(m) ==
    \E d \in mail[m] :
       /\ Believed(d)
       /\ Entries(Evicted(acting), d.key) = {}
       /\ acts' = acts \cup {[key |-> d.key, by |-> m]}
       /\ waits' = waits \cup {[key |-> d.key, by |-> m]}
       /\ acting' = Append(Evicted(acting), [key |-> d.key, left |-> Kept, done |-> FALSE])
       /\ twice' = (twice \/ d.hit)
       /\ UNCHANGED <<mail, acked, fulfilled>>

\* once, while the earlier call runs: await earlier.done.
Joins(m) ==
    \E d \in mail[m] :
       /\ Believed(d)
       /\ \E i \in Entries(Evicted(acting), d.key) : ~Evicted(acting)[i].done
       /\ waits' = waits \cup {[key |-> d.key, by |-> m]}
       /\ acting' = Evicted(acting)
       /\ UNCHANGED <<mail, acts, acked, fulfilled, twice>>

\* once, after it: "ok".
Repeats(m) ==
    \E d \in mail[m] :
       /\ Believed(d)
       /\ \E i \in Entries(Evicted(acting), d.key) : Evicted(acting)[i].done
       /\ acting' = Evicted(acting)
       /\ acked' = acked \cup {d.key}
       /\ UNCHANGED <<mail, acts, waits, fulfilled, twice>>

\* The handler's call ends well: everybody who waited is answered "ok"; heard says
\* whether the gateway still listens.
ActEnds(a, heard) ==
    /\ a \in acts
    /\ acts' = acts \ {a}
    /\ fulfilled' = fulfilled \cup {a.key}
    /\ acting' = [i \in DOMAIN acting |->
          IF acting[i].key = a.key THEN [acting[i] EXCEPT !.done = TRUE] ELSE acting[i]]
    /\ Hit(a.by)
    /\ waits' = {w \in waits : w.key # a.key}
    /\ acked' = IF heard THEN acked \cup {a.key} ELSE acked
    /\ UNCHANGED twice

\* Mutant of Forgotten: what failed is remembered as done.
ForgottenNever(key) ==
    [i \in DOMAIN acting |-> IF acting[i].key = key THEN [acting[i] EXCEPT !.done = TRUE] ELSE acting[i]]

\* acting.delete(delivery)
Forgotten(key) ==
    IF Entries(acting, key) = {} THEN acting
    ELSE LET i == CHOOSE i \in Entries(acting, key) : TRUE
         IN SubSeq(acting, 1, i - 1) \o SubSeq(acting, i + 1, Len(acting))

\* It throws: so does everybody's request, and the key is free again.
ActFails(a) ==
    /\ a \in acts
    /\ acts' = acts \ {a}
    /\ acting' = Forgotten(a.key)
    /\ waits' = {w \in waits : w.key # a.key}
    /\ UNCHANGED <<mail, acked, fulfilled, twice>>

\* A call ends within LongestAct.
MayElapse == \A i \in DOMAIN acting : acting[i].done \/ acting[i].left > Kept - LongestAct

\* A stale message's slot is free for another one once the call it began has ended.
Stays(m, d) == d.left >= 0 \/ \E a \in acts : a.by = m

Elapse ==
    /\ MayElapse
    /\ mail' = [m \in Messages |-> {[d EXCEPT !.left = @ - 1] : d \in {d \in mail[m] : Stays(m, d)}}]
    /\ acting' = [i \in DOMAIN acting |-> [acting[i] EXCEPT !.left = IF @ > 0 THEN @ - 1 ELSE 0]]
    /\ UNCHANGED <<acts, waits, acked, fulfilled, twice>>

Init ==
    /\ mail = [m \in Messages |-> {}]
    /\ acting = <<>>
    /\ acts = {} /\ waits = {} /\ acked = {} /\ fulfilled = {}
    /\ twice = FALSE

-----------------------------------------------------------------------------
(* Properties *)

\* A delivery that was acted on is not acted on again for as long as it can be
\* replayed, and no two calls act on one settlement at a time, however often and
\* whenever its deliveries arrive (onceWhileReplayable).
ActedOnce ==
    /\ ~twice
    /\ \A a, b \in acts : a.key = b.key => a = b

=============================================================================
