---------------------------------- MODULE Nwc ----------------------------------
(***************************************************************************)
(* A wallet of one's own over NIP-47 (sdk/src/nwc.ts): one call is one     *)
(* signed event, carried over the connection's relays in turn until one of *)
(* them brings the wallet's answer or the deadline passes; and the verify  *)
(* endpoint that looks a payment up that way.                              *)
(*                                                                         *)
(* A relay may be down, refuse the event, stay silent, or deliver it late; *)
(* the wallet acts on an event once, whichever relays bring it, and what   *)
(* it answers stays on the relays after the call has given up.             *)
(***************************************************************************)
EXTENDS Integers, FiniteSets

CONSTANTS
    Relays,     \* how many relays the connection names
    Deadline,   \* timeoutMs
    MaxCalls    \* bound on the calls

VARIABLES
    call,       \* the call under way, at most one: [n, method, relay, link, left]
    calls,      \* how many were made
    carried,    \* the events on their way to the wallet: [n, relay, method]
    acted,      \* the events the wallet acted on
    answers,    \* what it answered: [event, result]
    released,   \* the invoice looked up has been paid
    verdicts    \* how the calls ended: [n, method, said, event]

vars == <<call, calls, carried, acted, answers, released, verdicts>>

Methods == {"make_invoice", "make_hold_invoice", "lookup_invoice", "pay_invoice"}

\* What a wallet can answer: an error or nothing; an invoice as asked for, another
\* amount, another hash or undecodable; a preimage that fits, one that does not, or
\* none.
Results(method) ==
    {"error", "empty"} \cup
    (CASE method = "make_invoice" -> {"asked", "amount", "undecodable"}
       [] method = "make_hold_invoice" -> {"asked", "amount", "hash", "undecodable"}
       [] method = "lookup_invoice" -> {"wrong", "none"} \cup (IF released THEN {"preimage"} ELSE {})
       [] method = "pay_invoice" -> {"preimage", "wrong", "none"})

\* resultOf, nwcInvoice, nwcHoldInvoice, nwcSettlement, nwcPay.
Judged(method, result) ==
    CASE result \in {"error", "empty"} -> "refused"
      [] result = "asked" -> "invoice"
      [] result = "preimage" -> "proof"
      [] result = "none" /\ method = "lookup_invoice" -> "unpaid"
      [] OTHER -> "refused"

\* nwcVerifyEndpoint: what the gateway is told of a lookup.  Not reached, refused or
\* lied to is a 502 and not "not settled".
Told(said) == CASE said = "proof" -> "settled" [] said = "unpaid" -> "pending" [] OTHER -> "502"

-----------------------------------------------------------------------------
(* A call *)

\* Mutant of EventOf: every relay is sent an event of its own.
EventOfEach(c) == [n |-> c.n, relay |-> c.relay, method |-> c.method]

\* askWallet signs once: the same event goes to every relay.
EventOf(c) == [n |-> c.n, relay |-> 1, method |-> c.method]

Ask(method) ==
    /\ call = {} /\ calls < MaxCalls
    /\ calls' = calls + 1
    /\ call' = {[n |-> calls + 1, method |-> method, relay |-> 1, link |-> "dialling", left |-> Deadline]}
    /\ UNCHANGED <<carried, acted, answers, released, verdicts>>

\* Open: the subscription and the event are sent.
Open(c) ==
    /\ c \in call /\ c.link = "dialling"
    /\ call' = {[c EXCEPT !.link = "open"]}
    /\ UNCHANGED <<calls, carried, acted, answers, released, verdicts>>

\* The relay takes the event and brings it to the wallet, sooner or later.
Carry(c) ==
    /\ c \in call /\ c.link = "open"
    /\ carried' = carried \cup {EventOf(c)}
    /\ UNCHANGED <<call, calls, acted, answers, released, verdicts>>

Ends(c, said, event) ==
    /\ call' = {}
    /\ verdicts' = verdicts \cup {[n |-> c.n, method |-> c.method, said |-> said, event |-> event]}

\* The relay cannot be reached, fails, or answers OK false: the next one is tried.
NextRelay(c) ==
    /\ c \in call
    /\ IF c.relay < Relays
       THEN call' = {[c EXCEPT !.relay = @ + 1, !.link = "dialling"]} /\ UNCHANGED verdicts
       ELSE Ends(c, "unreachable", {})
    /\ UNCHANGED <<calls, carried, acted, answers, released>>

\* Mutant of Answers: any answer of the wallet will do.
AnswersAny(c) == answers

\* answeredEvent: signed by the wallet and tagged with this event.
Answers(c) == {a \in answers : a.event.n = c.n}

Hear(c) ==
    /\ c \in call /\ c.link = "open"
    /\ \E a \in Answers(c) : Ends(c, Judged(c.method, a.result), {a})
    /\ UNCHANGED <<calls, carried, acted, answers, released>>

\* One deadline for all the relays: a silent one uses it up.
Expire(c) ==
    /\ c \in call /\ c.left = 0
    /\ Ends(c, "unreachable", {})
    /\ UNCHANGED <<calls, carried, acted, answers, released>>

Elapse(c) ==
    /\ c \in call /\ c.left > 0
    /\ call' = {[c EXCEPT !.left = @ - 1]}
    /\ UNCHANGED <<calls, carried, acted, answers, released, verdicts>>

-----------------------------------------------------------------------------
(* The wallet *)

Act(e) ==
    /\ e \in carried \ acted
    /\ acted' = acted \cup {e}
    /\ \E r \in Results(e.method) : answers' = answers \cup {[event |-> e, result |-> r]}
    /\ UNCHANGED <<call, calls, carried, released, verdicts>>

Release ==
    /\ ~released
    /\ released' = TRUE
    /\ UNCHANGED <<call, calls, carried, acted, answers, verdicts>>

Init ==
    /\ call = {} /\ calls = 0
    /\ carried = {} /\ acted = {} /\ answers = {} /\ verdicts = {}
    /\ released = FALSE

Next ==
    \/ \E m \in Methods : Ask(m)
    \/ \E c \in call : Open(c) \/ Carry(c) \/ NextRelay(c) \/ Hear(c) \/ Expire(c) \/ Elapse(c)
    \/ \E e \in carried : Act(e)
    \/ Release

-----------------------------------------------------------------------------
(* Properties *)

\* A call spends at most once, however many relays it was sent over and although a
\* relay that seemed to fail has delivered it (askWallet, overFirstRelayThatAnswers).
PaysOnce == \A d, e \in acted : d.n = e.n => d = e

\* What a call says is what the wallet answered to this very call: an answer that
\* came too late is not taken for the next call's, and no answer is not "not
\* settled" (answeredEvent, nwcVerifyEndpoint).
OwnAnswer ==
    \A v \in verdicts :
       /\ \A a \in v.event : a.event.n = v.n
       /\ Told(v.said) = "pending" => \E a \in v.event : a.result = "none"
       /\ Told(v.said) = "settled" /\ v.method = "lookup_invoice" => released

=============================================================================
