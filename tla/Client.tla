-------------------------------- MODULE Client --------------------------------
(***************************************************************************)
(* Waiting for a payment in the SDK (sdk/src/client.ts followed, settled,  *)
(* firstSettled, proven, follow, attend; sdk/src/gateways.ts settled;      *)
(* sdk/src/request.ts paid, onPaid).                                       *)
(*                                                                         *)
(* A leg is one socket that is reconnected through every drop.  Three      *)
(* things are made of legs, and Init picks one: "first" waits on several   *)
(* payments at one gateway, "gateways" waits on one payment at several     *)
(* gateways, and "stream" follows triggers, or answers as an agent, until  *)
(* it is stopped.  A gateway may say anything: what it sends is pending,   *)
(* expired, paid with the preimage, paid without it (forged), another      *)
(* payment's end (other), something that is not a payment (junk) or not    *)
(* JSON at all (rubbish).  With every payment it states an expiry, and its *)
(* last word is the one the leg goes by; it may also say nothing at all,   *)
(* on a socket it keeps open or to a request it never answers.             *)
(***************************************************************************)
EXTENDS Naturals, FiniteSets

CONSTANTS
    Legs,
    Unanswered    \* UNANSWERED_ATTEMPTS

ASSUME UnansweredAssumption == Unanswered \in Nat \ {0}
ASSUME LegsAssumption == IsFiniteSet(Legs) /\ Legs # {}

\* How a wait may end but for a leg that was paid; a leg is none of these.
Ends == {"unpaid", "refused", "cheat", "aborted", "stopped"}
ASSUME EndsAssumption == Legs \cap (Ends \cup {"waiting"}) = {}

VARIABLES
    mode,      \* "first", "gateways" or "stream"; never changes
    tickets,   \* needsTicket; never changes
    phase,     \* phase[l]: "ticket" (asking for one), "open", "backoff" or "ended"
    attempt,   \* attempt[l]
    expires,   \* expires[l]: the leg's expiresAt is "none", "ahead" or "past"
    over,      \* the legs that are settled (a wait) or stopped (a stream)
    released,  \* the legs whose payment's preimage is out
    result,    \* result[l]: how the leg's own promise ended, or "none"
    outcome,   \* "waiting", the winning leg, "unpaid", "refused", "cheat", "aborted" or "stopped"
    refused,   \* a leg failed before (the code keeps the first failure)
    aborted,   \* history: the caller took the wait back
    given      \* history: what a stream handed to onPayment was proven

fixed == <<mode, tickets>>
histories == <<aborted, given>>
ending == <<over, result, outcome, refused>>
vars == <<fixed, released, phase, attempt, expires, ending, histories>>

Frames == {"pending", "expired", "paid", "forged", "other", "junk", "rubbish"}
Waits == mode # "stream"

-----------------------------------------------------------------------------
(* What a frame proves *)

\* proven and agreesWithItself: another payment, or paid without the preimage, is
\* a cheat.  What cannot be parsed fails the leg.
Proven(f) ==
    IF f = "rubbish" THEN "failed" ELSE IF f \in {"other", "forged"} THEN "cheat" ELSE f

-----------------------------------------------------------------------------
(* The legs together *)

Left == {l \in Legs : result[l] = "none"}

\* stopLosers.abort(), and socket.close(): an open socket and a retry end at once,
\* a leg that waits for its ticket finds out when it has it.
Halted(ph) == [l \in Legs |-> IF ph[l] \in {"open", "backoff"} THEN "ended" ELSE ph[l]]

Decide(how) ==
    /\ outcome' = how
    /\ over' = Legs
    /\ phase' = Halted(phase)

\* Mutant of Fatal: one lying gateway ends the wait at all of them.
FatalAnywhere(r) == r = "cheat"

\* firstSettled lets a cheat end the wait; Gateways.settled only reports it.
Fatal(r) == r = "cheat" /\ mode = "first"

Expired == {l \in Legs : result[l] = "expired"}

\* Mutant of InVain: what failed is forgotten.
InVainForgiving(r) == IF mode = "first" THEN "unpaid" ELSE "refused"

\* Every leg ended: a failure outweighs an expiry among payments, and an expiry
\* outweighs a failure among gateways.
InVain(r) ==
    IF mode = "first" THEN (IF refused \/ r # "expired" THEN "refused" ELSE "unpaid")
    ELSE IF Expired # {} \/ r = "expired" THEN "unpaid" ELSE "refused"

\* settle: a leg ends once.
Settle(l) == over \cup {l}

\* Mutant of LastLeg: the first gateway to end in vain ends the wait.
LastLegOrGateway(l) == mode = "gateways" \/ Left = {l}

\* left === 0, and ended.length === gateways.length
LastLeg(l) == Left = {l}

\* One leg's promise ends with r.
LegEnds(l, r) ==
    /\ result' = [result EXCEPT ![l] = r]
    /\ refused' = (refused \/ r \in {"failed", "cheat"})
    /\ IF r = "paid" THEN Decide(l)
       ELSE IF Fatal(r) THEN Decide("cheat")
       ELSE IF LastLeg(l) THEN Decide(InVain(r))
       ELSE /\ phase' = [phase EXCEPT ![l] = "ended"]
            /\ over' = Settle(l)
            /\ UNCHANGED outcome

-----------------------------------------------------------------------------
(* One leg *)

Aim == IF tickets THEN "ticket" ELSE "open"

\* Mutant of GivesUp: nobody's answer is waited for for ever.
GivesUpNever(l) == Waits /\ expires[l] = "past"

GivesUp(l) ==
    /\ Waits
    /\ expires[l] = "past" \/ (expires[l] = "none" /\ attempt[l] >= Unanswered)

\* again: a wait gives up when nobody ever answered, or past the expiry it was told.
Again(l) ==
    IF GivesUp(l) THEN LegEnds(l, "failed")
    ELSE /\ phase' = [phase EXCEPT ![l] = "backoff"]
         /\ UNCHANGED ending

\* The retry's timer: connect.  Past Unanswered nobody counts the attempts.
Retry(l) ==
    /\ phase[l] = "backoff"
    /\ attempt' = [attempt EXCEPT ![l] = IF @ > Unanswered THEN @ ELSE @ + 1]
    /\ phase' = [phase EXCEPT ![l] = Aim]
    /\ UNCHANGED <<fixed, released, expires, ending, histories>>

\* Mutant of Ticketed: the socket is opened although the wait has ended.
TicketedRegardless(l) == phase' = [phase EXCEPT ![l] = "open"]

\* The ticket came: the wait may have ended meanwhile.
Ticketed(l) == phase' = [phase EXCEPT ![l] = IF l \in over THEN "ended" ELSE "open"]

TicketGiven(l) ==
    /\ phase[l] = "ticket"
    /\ Ticketed(l)
    /\ UNCHANGED <<fixed, released, attempt, expires, ending, histories>>

\* The gateway answered the request for a ticket with a problem: that ends a wait,
\* and a stream tries again.
TicketRefused(l) ==
    /\ phase[l] = "ticket"
    /\ IF l \in over
       THEN phase' = [phase EXCEPT ![l] = "ended"] /\ UNCHANGED ending
       ELSE IF Waits THEN LegEnds(l, "failed") ELSE Again(l)
    /\ UNCHANGED <<fixed, released, attempt, expires, histories>>

\* The gateway could not be reached for one.
TicketFails(l) ==
    /\ phase[l] = "ticket"
    /\ IF l \in over
       THEN phase' = [phase EXCEPT ![l] = "ended"] /\ UNCHANGED ending
       ELSE Again(l)
    /\ UNCHANGED <<fixed, released, attempt, expires, histories>>

\* onmessage of a wait.  A payment in any state sets expiresAt, to whatever the
\* gateway says this time, and resets attempt.
Hear(l, f) ==
    /\ Waits /\ phase[l] = "open"
    /\ f = "paid" => l \in released
    /\ f # "junk"
    /\ IF f = "rubbish" THEN UNCHANGED <<attempt, expires>>
       ELSE /\ attempt' = [attempt EXCEPT ![l] = 1]
            /\ \E when \in {"ahead", "past"} : expires' = [expires EXCEPT ![l] = when]
    /\ IF f = "pending" THEN UNCHANGED <<phase, ending>> ELSE LegEnds(l, Proven(f))
    /\ UNCHANGED <<fixed, released, histories>>

\* onmessage of a stream: what is proven is handed on, the rest is onError's.
Pass(l, f) ==
    /\ ~Waits /\ phase[l] = "open"
    /\ f = "paid" => l \in released
    /\ given' = (given /\ (Proven(f) = "paid" => l \in released))
    /\ attempt' = [attempt EXCEPT ![l] = 1]
    /\ UNCHANGED <<fixed, released, phase, expires, ending, aborted>>

\* onclose
Drop(l) ==
    /\ phase[l] = "open"
    /\ Again(l)
    /\ UNCHANGED <<fixed, released, attempt, expires, histories>>

\* What an aborted wait ends with.  The abort ends every leg that was left, and the
\* rest is as if they had lost: among gateways an expiry heard before is returned,
\* and a failure before the abort is the one that is thrown.
OnAbort ==
    IF mode = "gateways" /\ Expired # {} THEN "unpaid"
    ELSE IF refused THEN "refused" ELSE "aborted"

\* The caller's signal.
Abort ==
    /\ outcome = "waiting" /\ Waits
    /\ result' = [l \in Legs |-> IF l \in Left THEN "aborted" ELSE result[l]]
    /\ aborted' = TRUE
    /\ Decide(OnAbort)
    /\ UNCHANGED <<fixed, released, attempt, expires, refused, given>>

\* The function a stream returned.
Stop ==
    /\ outcome = "waiting" /\ ~Waits
    /\ Decide("stopped")
    /\ UNCHANGED <<fixed, released, attempt, expires, result, refused, histories>>

-----------------------------------------------------------------------------
(* The world: in "gateways" the legs are of one payment. *)

Same(l) == IF mode = "gateways" THEN Legs ELSE {l}

Release(l) ==
    /\ l \notin released
    /\ released' = released \cup Same(l)
    /\ UNCHANGED <<fixed, phase, attempt, expires, ending, histories>>

\* The clock passes the expiry a gateway stated; nothing happens until a socket
\* closes.
Expire(l) ==
    /\ expires[l] = "ahead"
    /\ expires' = [expires EXCEPT ![l] = "past"]
    /\ UNCHANGED <<fixed, released, phase, attempt, ending, histories>>

Init ==
    /\ mode \in {"first", "gateways", "stream"}
    /\ tickets \in BOOLEAN
    /\ phase = [l \in Legs |-> Aim]
    /\ attempt = [l \in Legs |-> 1]
    /\ expires = [l \in Legs |-> "none"]
    /\ over = {} /\ released = {}
    /\ result = [l \in Legs |-> "none"]
    /\ outcome = "waiting" /\ refused = FALSE /\ aborted = FALSE /\ given = TRUE

Next ==
    \/ \E l \in Legs :
          \/ Retry(l) \/ TicketGiven(l) \/ TicketRefused(l) \/ TicketFails(l)
          \/ Drop(l) \/ Release(l) \/ Expire(l)
          \/ \E f \in Frames : Hear(l, f) \/ Pass(l, f)
    \/ Abort \/ Stop

Spec == Init /\ [][Next]_vars

\* The client's own timers run and time passes.  Of the gateways nothing is assumed:
\* the client sets no timer on a connection or on a request for a ticket.
FairSpec ==
    /\ Spec
    /\ \A l \in Legs : WF_vars(Retry(l)) /\ WF_vars(Expire(l))

-----------------------------------------------------------------------------
(* Properties *)

\* The type of the state; a leg that has ended by itself is over.
TypeOK ==
    /\ mode \in {"first", "gateways", "stream"} /\ {tickets, refused, aborted, given} \subseteq BOOLEAN
    /\ phase \in [Legs -> {"ticket", "open", "backoff", "ended"}]
    /\ attempt \in [Legs -> 0..Unanswered + 1]
    /\ expires \in [Legs -> {"none", "ahead", "past"}]
    /\ over \cup released \subseteq Legs
    /\ result \in [Legs -> {"none", "paid", "expired", "failed", "cheat", "aborted"}]
    /\ outcome \in Legs \cup Ends \cup {"waiting"}
    /\ \A l \in Legs : result[l] # "none" => l \in over

\* Nothing outlives the wait: once it is decided, or the stream is stopped, no leg
\* is connected or will connect again, the one that was waiting for its ticket
\* included (settle, stop, and the check after the await).
NothingOutlives == \A l \in over : phase[l] \in {"ticket", "ended"}

\* A stream hands on no payment as paid that was not (proven in follow).
StreamIsProven == given

\* The wait for payments never trades a cheat for a later win, and a wait at
\* several gateways is never ended by a lie: "cheat" decides the first and never
\* the second, and nobody wins after it.
CheatsAreNotTraded ==
    /\ mode = "first" => ((\E l \in Legs : result[l] = "cheat") <=> outcome = "cheat")
    /\ mode = "gateways" => outcome # "cheat"

\* A wait that says nothing was paid heard an expiry and, at one gateway, nothing
\* else; one that is refused had a failure to tell; and nobody is told of an abort
\* unless the caller aborted and there was nothing else to tell (InVain, OnAbort).
EndsAsHeard ==
    /\ outcome = "unpaid" /\ mode = "first" => \A l \in Legs : result[l] = "expired"
    /\ outcome = "unpaid" => \E l \in Legs : result[l] = "expired"
    /\ outcome = "refused" => \E l \in Legs : result[l] \in {"failed", "cheat"}
    /\ outcome = "aborted" => aborted /\ \A l \in Legs : result[l] \notin {"failed", "cheat", "paid"}

\* What the wait promises (module Wait): the legs that are followed are those that
\* have not ended, until it is decided.  A stream promises nothing of the kind.
Promise == INSTANCE Wait WITH
    Undecided <- "waiting",
    Stopped <- {"cheat", "stopped"},
    Aborted <- "aborted",
    Spent <- {"unpaid", "refused"},
    following <- IF outcome = "waiting" THEN Left ELSE {}

PromiseKept == Promise!Spec

\* A leg the client cannot move on from by itself: a gateway that answers nothing to
\* the request for a ticket, or keeps the socket open and does not end it.
Held(l) == phase[l] \in {"ticket", "open"}

\* Only a gateway can keep a wait from ending: one that holds a leg for ever, or one
\* that says again and again that the expiry is still ahead.  Whatever the others
\* do, a gateway that is gone or drops every connection ends the wait in the tries
\* of UNANSWERED_ATTEMPTS or at the expiry it stated last (again in followed).
WaitEnds ==
    Waits => \/ <>(outcome # "waiting")
             \/ \E l \in Legs : <>[]Held(l) \/ []<>(expires[l] = "ahead")

\* Disagreement with sdk/src/client.ts:439, "so the wait always ends by itself": a
\* gateway that never answers a request, or keeps a silent socket open, holds it.
AlwaysEnds == Waits ~> outcome # "waiting"

=============================================================================
