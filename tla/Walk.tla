--------------------------------- MODULE Walk ---------------------------------
(***************************************************************************)
(* Who sends requests to the outside, and what becomes of the answers      *)
(* (core/lnurl.ts, sdk/src/relay.ts, the webhooks of src/watch.ts): the    *)
(* walk along a priority list of Lightning addresses to the first that     *)
(* issues an invoice which can be proved, under one deadline; a poll of a  *)
(* verify URL, whoever polls; a signed webhook.                            *)
(***************************************************************************)
EXTENDS Outbound

CONSTANTS
    Lists,       \* priority lists of Lightning addresses, as wallets: [url, callback, kind]
    Deadline,    \* RESOLVE_TIMEOUT_MS
    MaxAsks      \* bound on the requests outside a walk

ASSUME DeadlineAssumption == Deadline \in Nat \ {0}

VARIABLES
    list,      \* the list that is walked
    walk,      \* the walk under way, at most one: [quotes, place, step, refusals]
    left,      \* what its deadline has left
    ended,     \* how the walk ended: [quotes, how, place, refusals]
    lost,      \* the places whose requests failed on the way
    asks,      \* how many requests were made outside a walk
    purpose,   \* what the request outside a walk is for, if there is one
    told       \* what the last such request was taken to say

walking == <<list, walk, left, ended, lost>>
asking == <<asks, purpose, told>>
walkVars == <<ask, walking, asking>>

\* What is wrong with a wallet, in the order resolveAddress finds it out, and what it
\* is refused for.
Refusal ==
    [unusable |-> "address-unusable",       \* splitAddress
     withholds |-> "cannot-prove-delivery", \* cannotReleaseAPreimage
     down |-> "unreachable",                \* answered: an error, too long, not JSON
     noPayRequest |-> "unreachable",
     unnamed |-> "cannot-prove-delivery",   \* namesTheAddress
     outOfRange |-> "amount-not-accepted",
     noInvoice |-> "unreachable",
     noVerify |-> "cannot-prove-delivery",
     undecodable |-> "invoice-refused",     \* decodeIssued
     otherAmount |-> "invoice-refused",
     unbound |-> "invoice-refused"]

\* What no code expects, so that reading it throws, and that is no WalletRefused: "null",
\* which is JSON and no object, for the payRequest or for the invoice, or a callback that
\* is no string.
ThrowsAt == [throws |-> "payRequest", throwsBetween |-> "callback", throwsLate |-> "invoice"]

Throws(kind, step) == kind \in DOMAIN ThrowsAt /\ ThrowsAt[kind] = step

Kinds == DOMAIN Refusal \cup DOMAIN ThrowsAt \cup {"serves"}

ASSUME ListsAssumption ==
    \A addresses \in Lists :
       addresses # <<>> /\ addresses \in Seq([url: Urls, callback: Urls, kind: Kinds])

AtOnce == {"unusable", "withholds"}
ByPayRequest == {"down", "noPayRequest", "unnamed", "outOfRange"}

\* Mutant of Proves: the amount of the invoice is not compared.
ProvesAnyAmount(kind) == kind \in {"serves", "otherAmount"}

\* The invoice can be verified, decodes, asks for the amount and is bound to the metadata.
Proves(kind) == kind = "serves"

-----------------------------------------------------------------------------
(* firstThatServes *)

\* resolve, or quote, which stops at the payRequest.
Walks(addresses, quotes) ==
    /\ walk = {} /\ ended = {} /\ request = {} /\ answer = {}
    /\ walk' = {[quotes |-> quotes, place |-> 1, step |-> "turn", refusals |-> <<>>]}
    /\ list' = addresses
    /\ left' = Deadline
    /\ UNCHANGED <<ask, ended, lost, asking>>

\* For a payment that is created, and for POST /quotes.
Resolves(addresses) == Walks(addresses, FALSE)
Quotes(addresses) == Walks(addresses, TRUE)

Ends(w, how, refusals) ==
    /\ walk' = {}
    /\ ended' = {[quotes |-> w.quotes, how |-> how, place |-> w.place, refusals |-> refusals]}

\* The next on the list, if there is one.
Refused(w, why) ==
    IF w.place < Len(list)
    THEN /\ walk' = {[w EXCEPT !.place = @ + 1, !.step = "turn", !.refusals = Append(@, why)]}
         /\ UNCHANGED ended
    ELSE Ends(w, "none", Append(w.refusals, why))

\* Its turn, unless the deadline is over: probe, up to its request.
Turn(w) ==
    /\ w \in walk /\ w.step = "turn"
    /\ LET kind == list[w.place].kind IN
       \/ left = 0 /\ Ends(w, "none", w.refusals) /\ UNCHANGED ask
       \/ left > 0 /\ kind \in AtOnce /\ Refused(w, Refusal[kind]) /\ UNCHANGED ask
       \/ /\ left > 0 /\ kind \notin AtOnce
          /\ Asked(list[w.place].url, {}, FALSE)
          /\ walk' = {[w EXCEPT !.step = "payRequest"]}
          /\ UNCHANGED ended
    /\ UNCHANGED <<list, left, lost, asking>>

\* A request that failed refuses the wallet, whatever it would have said.
HeardNothing(w) ==
    /\ w \in walk /\ answer = {"failed"}
    /\ Taken
    /\ Refused(w, "unreachable")
    /\ lost' = lost \cup {w.place}
    /\ UNCHANGED <<list, left, asking>>

\* probe, from its answer on.
HeardPayRequest(w) ==
    /\ w \in walk /\ w.step = "payRequest" /\ answer = {"ok"}
    /\ Taken
    /\ LET kind == list[w.place].kind IN
       \/ Throws(kind, w.step) /\ Ends(w, "threw", w.refusals)
       \/ kind \in ByPayRequest /\ Refused(w, Refusal[kind])
       \/ /\ ~Throws(kind, w.step) /\ kind \notin ByPayRequest
          /\ IF w.quotes
             THEN Ends(w, "won", w.refusals)
             ELSE walk' = {[w EXCEPT !.step = "callback"]} /\ UNCHANGED ended
    /\ UNCHANGED <<list, left, lost, asking>>

\* resolveAddress, from its answer on.
HeardInvoice(w) ==
    /\ w \in walk /\ w.step = "invoice" /\ answer = {"ok"}
    /\ Taken
    /\ LET kind == list[w.place].kind IN
       \/ Throws(kind, w.step) /\ Ends(w, "threw", w.refusals)
       \/ Proves(kind) /\ Ends(w, "won", w.refusals)
       \/ kind \in DOMAIN Refusal /\ ~Proves(kind) /\ Refused(w, Refusal[kind])
    /\ UNCHANGED <<list, left, lost, asking>>

\* withAmount of the callback, and its request.
Callback(w) ==
    /\ w \in walk /\ w.step = "callback"
    /\ LET kind == list[w.place].kind IN
       \/ Throws(kind, w.step) /\ Ends(w, "threw", w.refusals) /\ UNCHANGED ask
       \/ /\ ~Throws(kind, w.step)
          /\ Asked(list[w.place].callback, {}, FALSE)
          /\ walk' = {[w EXCEPT !.step = "invoice"]}
          /\ UNCHANGED ended
    /\ UNCHANGED <<list, left, lost, asking>>

-----------------------------------------------------------------------------
(* The others who ask *)

\* checkSettled for the gateway's watcher or for lightningVerifyEndpoint, and a signed
\* webhook or challenge.
Asks(what, url) ==
    /\ walk = {} /\ purpose = {} /\ asks < MaxAsks
    /\ \/ what = "verify" /\ Asked(url, {}, TRUE)
       \/ what = "webhook" /\ Asked(url, {"body", "signature"}, TRUE)
    /\ asks' = asks + 1
    /\ purpose' = {what}
    /\ UNCHANGED <<told, walking>>

\* A verify URL that cannot be reached or lies about the preimage is a failure, not a
\* "no"; a webhook that is not answered with success was not delivered.
Concludes(what) ==
    /\ what \in purpose
    /\ Taken
    /\ purpose' = {}
    /\ told' = (CASE answer = {"preimage"} -> {"settled"}
                  [] answer = {"none"} -> {"pending"}
                  [] answer = {"ok"} -> {"delivered"}
                  [] OTHER -> {"failed"})
    /\ UNCHANGED <<asks, walking>>

\* What a server may say: something good or an error; or, asked to verify, a preimage
\* that fits, one that does not, or none.
Said == (CASE purpose = {"verify"} -> {"preimage", "wrong", "none"}
           [] purpose = {"webhook"} -> {"ok", "rejected"}
           [] OTHER -> {"ok"})

-----------------------------------------------------------------------------

Elapse ==
    /\ request # {} /\ \E r \in request : r.spare > 0
    /\ Elapsed
    /\ left' = IF left > 0 THEN left - 1 ELSE 0
    /\ UNCHANGED <<reached, answer, list, walk, ended, lost, asking>>

Late == walk # {} /\ left = 0

Onward(r) ==
    /\ \/ Lookup(r)
       \/ Connect(r, Late)
       \/ ~Late /\ \E status \in {302, 307}, next \in Urls : Redirected(r, status, next)
       \/ ~Late /\ \E said \in Said : Answered(r, said)
       \/ Breaks(r)
    /\ UNCHANGED <<walking, asking>>

WalkInit ==
    /\ Init
    /\ list = <<>> /\ walk = {} /\ left = 0 /\ ended = {} /\ lost = {}
    /\ asks = 0 /\ purpose = {} /\ told = {}

WalkNext ==
    \/ \E addresses \in Lists : Resolves(addresses) \/ Quotes(addresses)
    \/ \E w \in walk :
          Turn(w) \/ HeardNothing(w) \/ HeardPayRequest(w) \/ Callback(w) \/ HeardInvoice(w)
    \/ \E what \in {"verify", "webhook"}, url \in Urls : Asks(what, url)
    \/ \E what \in purpose : Concludes(what)
    \/ \E r \in request : Onward(r)
    \/ Elapse

-----------------------------------------------------------------------------
(* Properties *)

\* What there is to find out about a wallet before it is handed on: for a quote no more
\* than its payRequest shows.
Serves(kind, quotes) ==
    kind = "serves" \/ (quotes /\ kind \notin AtOnce \cup ByPayRequest \cup {"throws"})

\* The walk ends with the first address on the list that serves, and it does serve: each
\* one before it had a fault of its own, which is what is told of it, or was lost to the
\* network; and none is given up on for what another one did, unless the deadline all of
\* them share is over or one answers with what nothing expects (firstThatServes, probe,
\* resolveAddress).
FirstThatServes ==
    \A e \in ended :
       LET passed == Len(e.refusals) IN
       /\ \A i \in 1..passed :
             \/ i \in lost /\ e.refusals[i] = "unreachable"
             \/ list[i].kind \in DOMAIN Refusal /\ e.refusals[i] = Refusal[list[i].kind]
       /\ e.how = "none" => passed = Len(list) \/ left = 0
       /\ e.how = "threw" => e.place = passed + 1 /\ list[e.place].kind \in DOMAIN ThrowsAt
       /\ e.how = "won" => e.place = passed + 1 /\ Serves(list[e.place].kind, e.quotes)

=============================================================================
