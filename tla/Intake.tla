-------------------------------- MODULE Intake --------------------------------
(***************************************************************************)
(* How one instance takes payments on for one caller: POST                 *)
(* /incoming-payments (create, mint) and POST /watches (watchOnly) of      *)
(* src/index.ts, over the idempotency keys of src/ledger.ts (claimKey,     *)
(* fulfillKey, releaseKey) and the quota of src/store.ts (full, insert).   *)
(*                                                                         *)
(* A handler runs alone between two awaits.  It awaits a place in the      *)
(* budget of the webhook's host, the webhook's answer to a challenge, and  *)
(* the wallet that mints the invoice (or, for a watch, the verify URL),    *)
(* each for a bounded time.  Other handlers run meanwhile.                 *)
(***************************************************************************)
EXTENDS Naturals, FiniteSets

CONSTANTS
    Creates,      \* requests to create a payment
    Watches,      \* requests to watch a payment hash
    Keys,         \* idempotency keys
    KeyOf,        \* KeyOf[r]: the keys r offers, {} or one of Keys
    AskOf,        \* AskOf[r]: what r asks for, which its fingerprint stands for
    Hooked,       \* the requests that carry a webhook
    HashOf,       \* HashOf[r]: the payment a watch names
    Pace,         \* LONGEST_WAIT_MS
    Challenge,    \* HTTP_TIMEOUT_MS
    Resolve,      \* RESOLVE_TIMEOUT_MS
    ClaimLease,   \* CLAIM_LEASE_SECS
    MaxPending,   \* MAX_PENDING
    MaxTime,      \* bound: the last instant
    MaxCrashes    \* bound: crashes

Requests == Creates \cup Watches

ASSUME RequestsAssumption ==
    /\ Creates \cap Watches = {}
    /\ KeyOf \in [Creates -> {{}} \cup {{k} : k \in Keys}]
    /\ DOMAIN AskOf = Requests
    /\ DOMAIN HashOf = Watches
    /\ Hooked \subseteq Requests
ASSUME DurationsAssumption ==
    {Pace, Challenge, Resolve, ClaimLease, MaxPending, MaxTime, MaxCrashes} \subseteq Nat

VARIABLES
    now,        \* unixNow
    at,         \* at[r]: where r's handler is
    until,      \* until[r]: when the wait it is in times out, 0 in none
    answer,     \* answer[r]: what r was answered
    claims,     \* the requests table, per key that has a row
    stored,     \* stored[p]: the ask the payment was stored for, per payment held
    pending,    \* the payments on the worklist
    overran,    \* history: the handlers whose lease ended before they did
    crashes     \* how many crashes have happened

vars == <<now, at, until, answer, claims, stored, pending, overran, crashes>>

-----------------------------------------------------------------------------
Payments == Creates \cup {HashOf[r] : r \in Watches}
Asks == {AskOf[r] : r \in Requests}

\* A request is answered with a payment, or refused.
Answered(p) == [kind |-> "created", payment |-> p]
Refused(why) == [kind |-> why]
Reasons == {"none", "conflict", "mismatch", "watched", "full", "refused", "gone"}
Waiting == Refused("none")

\* A row of the requests table: payment is {} until the key is fulfilled.
Claims == [ask: Asks, payment: SUBSET Payments, leaseUntil: Nat]

Put(f, x, y) == [z \in DOMAIN f \cup {x} |-> IF z = x THEN y ELSE f[z]]
Drop(f, S) == [z \in DOMAIN f \ S |-> f[z]]

Full == Cardinality(pending) >= MaxPending

\* Mutant of ClaimState: the fingerprint is not compared.
ClaimStateOfAnyAsk(r) ==
    LET rows == {claims[k] : k \in KeyOf[r] \cap DOMAIN claims}
    IN  IF \E c \in rows : c.payment # {} THEN "done"
        ELSE IF \E c \in rows : c.leaseUntil > now THEN "inflight"
        ELSE "mine"

\* Mutant of ClaimState: a claim without a payment is free.
ClaimStateUnleased(r) ==
    LET rows == {claims[k] : k \in KeyOf[r] \cap DOMAIN claims}
    IN  IF \E c \in rows : c.ask # AskOf[r] THEN "mismatch"
        ELSE IF \E c \in rows : c.payment # {} THEN "done"
        ELSE "mine"

\* What claimKey finds under r's keys: no row, or a lapsed lease, is r's to take.
ClaimState(r) ==
    LET rows == {claims[k] : k \in KeyOf[r] \cap DOMAIN claims}
    IN  IF \E c \in rows : c.ask # AskOf[r] THEN "mismatch"
        ELSE IF \E c \in rows : c.payment # {} THEN "done"
        ELSE IF \E c \in rows : c.leaseUntil > now THEN "inflight"
        ELSE "mine"

Claimed(r) ==
    [k \in DOMAIN claims \cup KeyOf[r] |->
        IF k \in KeyOf[r]
        THEN [ask |-> AskOf[r], payment |-> {}, leaseUntil |-> now + ClaimLease]
        ELSE claims[k]]

\* Mutant of Fulfilled: the payment is not written down.
FulfilledNot(rows, r, p) == rows

\* fulfillKey: an UPDATE, which does nothing when the row is gone.
Fulfilled(rows, r, p) ==
    [k \in DOMAIN rows |->
        IF k \in KeyOf[r] THEN [rows[k] EXCEPT !.payment = {p}] ELSE rows[k]]

\* releaseKey, in the finally: the row goes unless it is fulfilled.
Released(rows, r) == Drop(rows, {k \in KeyOf[r] \cap DOMAIN rows : rows[k].payment = {}})

Finish(r, with) ==
    /\ at' = [at EXCEPT ![r] = "answered"]
    /\ answer' = [answer EXCEPT ![r] = with]
    /\ until' = [until EXCEPT ![r] = 0]

Await(r, what, secs) ==
    /\ at' = [at EXCEPT ![r] = what]
    /\ until' = [until EXCEPT ![r] = now + secs]
    /\ UNCHANGED answer

\* create gives the key back whenever it mints nothing; a watch has none.
GiveUp(r, why) ==
    /\ Finish(r, Refused(why))
    /\ claims' = IF r \in Creates THEN Released(claims, r) ELSE claims
    /\ UNCHANGED <<now, stored, pending, overran, crashes>>

-----------------------------------------------------------------------------
(* POST /incoming-payments *)

\* A key already fulfilled replays its payment, if the ledger still has it.
Replayed(r) ==
    LET p == CHOOSE p \in Payments : \E k \in KeyOf[r] : claims[k].payment = {p}
    IN  IF p \in DOMAIN stored THEN Answered(p) ELSE Refused("gone")

\* Up to the first await: the claim, then the quota, then the webhook or the
\* wallet.
Create(r) ==
    /\ r \in Creates /\ at[r] = "new"
    /\ \/ /\ ClaimState(r) = "done"
          /\ Finish(r, Replayed(r))
          /\ UNCHANGED claims
       \/ /\ ClaimState(r) = "inflight"
          /\ Finish(r, Refused("conflict"))
          /\ UNCHANGED claims
       \/ /\ ClaimState(r) = "mismatch"
          /\ Finish(r, Refused("mismatch"))
          /\ UNCHANGED claims
       \/ /\ ClaimState(r) = "mine" /\ Full
          /\ Finish(r, Refused("full"))
          /\ claims' = Released(Claimed(r), r)
       \/ /\ ClaimState(r) = "mine" /\ ~Full
          /\ claims' = Claimed(r)
          /\ IF r \in Hooked THEN Await(r, "pacing", Pace) ELSE Await(r, "minting", Resolve)
    /\ UNCHANGED <<now, stored, pending, overran, crashes>>

\* Mutant of Mint: the quota is not counted again.
MintUncounted(r) ==
    /\ at[r] = "minting" /\ r \in Creates
    /\ stored' = Put(stored, r, AskOf[r])
    /\ pending' = pending \cup {r}
    /\ claims' = Released(Fulfilled(claims, r, r), r)
    /\ Finish(r, Answered(r))
    /\ UNCHANGED <<now, overran, crashes>>

\* The wallet answered with an invoice.  The quota is counted again, then the
\* payment is stored and the key fulfilled, with no await between.
Mint(r) ==
    /\ at[r] = "minting" /\ r \in Creates
    /\ ~Full
    /\ stored' = Put(stored, r, AskOf[r])
    /\ pending' = pending \cup {r}
    /\ claims' = Released(Fulfilled(claims, r, r), r)
    /\ Finish(r, Answered(r))
    /\ UNCHANGED <<now, overran, crashes>>

-----------------------------------------------------------------------------
(* POST /watched-payments *)

\* Up to the first await: the quota, then whether the hash is watched already,
\* as asked or otherwise.  One wait stands for all that is asked of the verify
\* URL; a URL that names the caller's own agent is asked nothing.
Watch(r) ==
    /\ r \in Watches /\ at[r] = "new"
    /\ \/ /\ Full
          /\ Finish(r, Refused("full"))
       \/ /\ ~Full
          /\ HashOf[r] \in DOMAIN stored /\ stored[HashOf[r]] # AskOf[r]
          /\ Finish(r, Refused("watched"))
       \/ /\ ~Full
          /\ HashOf[r] \in DOMAIN stored => stored[HashOf[r]] = AskOf[r]
          /\ Await(r, "probing", Pace + Challenge)
    /\ UNCHANGED <<now, claims, stored, pending, overran, crashes>>

\* The verify URL speaks LUD-21: on to the webhook.
Probed(r) ==
    /\ at[r] = "probing" /\ r \in Hooked
    /\ Await(r, "pacing", Pace)
    /\ UNCHANGED <<now, claims, stored, pending, overran, crashes>>

\* What the handler awaits last, before it stores the payment.
LastWait(r) ==
    IF r \in Creates THEN "minting" ELSE IF r \in Hooked THEN "confirming" ELSE "probing"

\* The quota again, then Store.insert, which leaves a payment it holds as it is
\* and answers with it.
Insert(r) ==
    LET p == HashOf[r]
    IN  /\ r \in Watches /\ at[r] = LastWait(r)
        /\ ~Full
        /\ stored' = IF p \in DOMAIN stored THEN stored ELSE Put(stored, p, AskOf[r])
        /\ pending' = IF p \in DOMAIN stored THEN pending ELSE pending \cup {p}
        /\ Finish(r, Answered(p))
        /\ UNCHANGED <<now, claims, overran, crashes>>

-----------------------------------------------------------------------------
(* What both share *)

\* A place in the host's budget: on to the challenge.
Paced(r) ==
    /\ at[r] = "pacing"
    /\ Await(r, "confirming", Challenge)
    /\ UNCHANGED <<now, claims, stored, pending, overran, crashes>>

\* The webhook consented: on to the wallet.
Confirmed(r) ==
    /\ at[r] = "confirming" /\ r \in Creates
    /\ Await(r, "minting", Resolve)
    /\ UNCHANGED <<now, claims, stored, pending, overran, crashes>>

InHand(r) == at[r] \notin {"new", "answered", "lost"}

\* Too many asked of the host, no consent, no wallet, no LUD-21.
Refuse(r) ==
    /\ InHand(r)
    /\ GiveUp(r, "refused")

\* The quota filled up while this handler waited.
TurnAway(r) ==
    /\ at[r] = LastWait(r)
    /\ Full
    /\ GiveUp(r, "full")

-----------------------------------------------------------------------------
(* Around the handlers *)

\* A payment settles or expires and leaves the worklist.
End(p) ==
    /\ p \in pending
    /\ pending' = pending \ {p}
    /\ UNCHANGED <<now, at, until, answer, claims, stored, overran, crashes>>

\* The sweep forgets a payment that ended, long before its key.
Forget(p) ==
    /\ p \in DOMAIN stored \ pending
    /\ stored' = Drop(stored, {p})
    /\ UNCHANGED <<now, at, until, answer, claims, pending, overran, crashes>>

\* A crash: the handlers are gone, what was committed stays.  A create may have
\* stored its payment and not yet fulfilled its key.
Crash ==
    /\ crashes < MaxCrashes
    /\ at' = [r \in Requests |-> IF InHand(r) THEN "lost" ELSE at[r]]
    /\ until' = [r \in Requests |-> 0]
    /\ \/ UNCHANGED <<stored, pending>>
       \/ \E r \in Creates :
            /\ at[r] = "minting" /\ ~Full
            /\ stored' = Put(stored, r, AskOf[r])
            /\ pending' = pending \cup {r}
    /\ crashes' = crashes + 1
    /\ UNCHANGED <<now, answer, claims, overran>>

\* A wait never outlives its timeout.  The lease is one for all the waits of a
\* handler, and may end before the last of them.
Tick ==
    /\ now < MaxTime
    /\ \A r \in Requests : InHand(r) => now < until[r]
    /\ now' = now + 1
    /\ overran' = overran \cup
          {r \in Creates : InHand(r) /\ \E k \in KeyOf[r] \cap DOMAIN claims : claims[k].leaseUntil <= now'}
    /\ UNCHANGED <<at, until, answer, claims, stored, pending, crashes>>

Init ==
    /\ now = 0
    /\ at = [r \in Requests |-> "new"]
    /\ until = [r \in Requests |-> 0]
    /\ answer = [r \in Requests |-> Waiting]
    /\ claims = [k \in {} |-> 0]
    /\ stored = [p \in {} |-> 0]
    /\ pending = {}
    /\ overran = {}
    /\ crashes = 0

Next ==
    \/ \E r \in Requests :
         \/ Create(r)
         \/ Mint(r)
         \/ Watch(r)
         \/ Probed(r)
         \/ Insert(r)
         \/ Paced(r)
         \/ Confirmed(r)
         \/ Refuse(r)
         \/ TurnAway(r)
    \/ \E p \in Payments : End(p)
    \/ \E p \in Payments : Forget(p)
    \/ Crash
    \/ Tick

Spec == Init /\ [][Next]_vars

-----------------------------------------------------------------------------
(* Properties *)

\* The type of the state.  What is being watched is in the ledger: nothing is
\* forgotten before it ends (index.ts create, watchOnly; ledger.ts sweep).
TypeOK ==
    /\ now \in 0..MaxTime
    /\ at \in [Requests -> {"new", "pacing", "probing", "confirming", "minting", "answered", "lost"}]
    /\ until \in [Requests -> Nat]
    /\ answer \in [Requests -> {Answered(p) : p \in Payments} \cup {Refused(w) : w \in Reasons}]
    /\ DOMAIN claims \subseteq Keys /\ \A k \in DOMAIN claims : claims[k] \in Claims
    /\ DOMAIN stored \subseteq Payments /\ \A p \in DOMAIN stored : stored[p] \in Asks
    /\ pending \subseteq DOMAIN stored
    /\ overran \subseteq Creates
    /\ crashes \in 0..MaxCrashes

\* The quota holds however many handlers passed the first count and waited side
\* by side for their wallets (index.ts create, mint, watchOnly; store.ts full).
QuotaHolds == Cardinality(pending) <= MaxPending

\* CLAIM_LEASE_SECS is ten seconds more than a wallet may take.  A handler that
\* first asks a webhook's host for its consent may need more than that: these are
\* the keys one such handler has outlived the lease of.
Outlived == UNION {KeyOf[r] : r \in overran \cap Hooked}
Leased(r) == KeyOf[r] \cap Outlived = {}

\* A client that repeats a request under its key is never given two payments,
\* though handlers, answers and crashes come in any order - unless a handler that
\* asked a webhook for its consent outlived the lease of the key (index.ts
\* create, ledger.ts claimKey, fulfillKey, releaseKey).
Given(r) == answer[r].kind = "created"
OnePaymentPerKey ==
    \A r, s \in Creates :
        KeyOf[r] = KeyOf[s] /\ KeyOf[r] # {} /\ Leased(r) /\ Given(r) /\ Given(s) => answer[r] = answer[s]

\* "An optional Idempotency-Key makes the POST safe to retry" (README.md:70), with
\* no exception, which the program does not keep.
SafeToRetry ==
    \A r, s \in Creates : KeyOf[r] = KeyOf[s] /\ KeyOf[r] # {} /\ Given(r) /\ Given(s) => answer[r] = answer[s]

\* A key never hands out the payment of a different request (ledger.ts
\* claimKey): the payment an answer names was stored for what was asked.  A
\* release that comes after the lease can take the row of a later claim with it,
\* so the exception is the same.
AnsweredAsAsked ==
    \A r \in Creates : Leased(r) /\ Given(r) => AskOf[answer[r].payment] = AskOf[r]

\* "A repeat arriving mid-flight answers 409" (index.ts create,
\* CLAIM_LEASE_SECS): two handlers run under one key only when one of them, or one
\* before them, had a webhook to ask and outlived the lease of the key.
OneHandlerPerKey ==
    \A r, s \in Creates :
        r # s /\ KeyOf[r] = KeyOf[s] /\ KeyOf[r] # {} /\ Leased(r) => ~(InHand(r) /\ InHand(s))

\* "That payment hash is already watched here": a watch that is taken is
\* watched as it was asked for, and a different one is refused (index.ts
\* watchOnly).
WatchedAsAsked ==
    [][\A r \in Watches : answer'[r] # answer[r] /\ Given(r)' => stored'[HashOf[r]] = AskOf[r]]_vars

=============================================================================
