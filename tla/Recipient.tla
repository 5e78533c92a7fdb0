------------------------------- MODULE Recipient -------------------------------
(***************************************************************************)
(* A shop that sells for bank transfers: the bank rail (Bank) and the      *)
(* webhook route (Receiver) in one process, and between them a gateway     *)
(* that polls the first until it has the preimage and then tells the       *)
(* second until it is answered, as Turns and Delivery have it.             *)
(***************************************************************************)
EXTENDS Integers, Sequences, FiniteSets

CONSTANTS
    Orders, Credits, Tokens, Window,
    Messages, Tolerance, LongestAct,
    Skews,      \* how far the gateway's clock may be ahead of the shop's
    MaxFaults   \* failed reads, failed calls and lost answers

ASSUME WindowAssumption == Window \in Nat /\ Window % Len(Tokens) = 0
ASSUME SkewAssumption == Skews \subseteq (1 - Tolerance)..(Tolerance - 1)
ASSUME ActAssumption == Tolerance \in Nat /\ LongestAct \in 1..(2 * Tolerance - 1)

Words == [numbered : BOOLEAN, is : STRING]
ASSUME ShapeAssumption ==
    Orders \subseteq [amount : Int, word : Words] /\ Credits \subseteq [amount : Int, words : SUBSET Words]

VARIABLES
    account, watched, turn, rests, gap, credits, reads, settled, tooSoon,
    mail, acting, acts, waits, acked, fulfilled, twice,
    window,     \* window[k]: what the bank's own window for token k has left
    faults

B == INSTANCE Bank
R == INSTANCE Receiver

bank == <<account, watched, turn, rests, gap, credits, reads, settled, tooSoon>>
route == <<mail, acting, acts, waits, acked, fulfilled, twice>>
vars == <<bank, route, window, faults>>

Usable == {o \in Orders : B!Usable(o)}

Fault == faults < MaxFaults /\ faults' = faults + 1

-----------------------------------------------------------------------------
(* The statement's side *)

Transfer(o) == B!Transfer(o) /\ UNCHANGED <<route, window, faults>>
Land(c) == B!Land(c) /\ UNCHANGED <<route, window, faults>>
PollKept(o) == B!PollKept(o) /\ UNCHANGED <<route, window, faults>>
PollReads(o) ==
    /\ B!PollReads(o, window)
    /\ window' = [window EXCEPT ![Head(turn)] = Window]
    /\ UNCHANGED <<route, faults>>
Serve(o) == B!Serve(o) /\ UNCHANGED <<route, window, faults>>
ReadEnds(o) == B!ReadEnds(o) /\ UNCHANGED <<route, window, faults>>
ReadFails(o) == B!ReadFails(o) /\ Fault /\ UNCHANGED <<route, window>>

-----------------------------------------------------------------------------
(* The route's side *)

\* Only what is settled has a proof to deliver.
Sign(m, o) ==
    /\ o \in settled
    /\ \E skew \in Skews : R!Sign(m, o, skew)
    /\ UNCHANGED <<bank, window, faults>>

Acts(m) == R!Acts(m) /\ UNCHANGED <<bank, window, faults>>
Joins(m) == R!Joins(m) /\ UNCHANGED <<bank, window, faults>>
Repeats(m) == R!Repeats(m) /\ UNCHANGED <<bank, window, faults>>
ActEnds(a) == R!ActEnds(a, TRUE) /\ UNCHANGED <<bank, window, faults>>
AnswerLost(a) == R!ActEnds(a, FALSE) /\ Fault /\ UNCHANGED <<bank, window>>
ActFails(a) == R!ActFails(a) /\ Fault /\ UNCHANGED <<bank, window>>

\* One clock.
Tick ==
    /\ B!Elapse /\ R!Elapse
    /\ window' = [k \in B!Names |-> B!Less(window[k])]
    /\ UNCHANGED faults

Init ==
    /\ B!Init /\ R!Init
    /\ window = [k \in B!Names |-> 0]
    /\ faults = 0

Next ==
    \/ \E c \in Credits : Land(c)
    \/ \E o \in Orders :
          \/ Transfer(o) \/ PollKept(o) \/ PollReads(o) \/ Serve(o) \/ ReadEnds(o) \/ ReadFails(o)
          \/ \E m \in Messages : Sign(m, o)
    \/ \E m \in Messages : Acts(m) \/ Joins(m) \/ Repeats(m)
    \/ \E a \in acts : ActEnds(a) \/ AnswerLost(a) \/ ActFails(a)
    \/ Tick

\* The gateway polls until it is answered, the bank answers, the shop's handler ends,
\* time passes, and of the deliveries that are signed again and again until one is
\* answered, one arrives while its signature is fresh.
Fairness ==
    /\ WF_vars(Tick)
    /\ \A o \in Usable :
          /\ WF_vars(PollKept(o) \/ PollReads(o))
          /\ WF_vars(Serve(o))
          /\ WF_vars(ReadEnds(o))
          /\ SF_vars(\E m \in Messages : Sign(m, o))
          /\ SF_vars(\E m \in Messages : (\E d \in mail[m] : d.key = o) /\ (Acts(m) \/ Repeats(m)))
    /\ WF_vars(\E a \in acts : ActEnds(a))

Spec == Init /\ [][Next]_vars /\ Fairness

-----------------------------------------------------------------------------
(* Properties *)

\* No token is used inside the bank's own window, whichever order is polled and however reads
\* overlap (sdk/src/fio.ts): the bank locks a token out that is.
NoTokenTooSoon == B!NoTokenTooSoon

\* A transfer pays for one order, though it names several and both are of its amount.
OneCreditOneOrder == B!OneCreditOneOrder

\* The shop's handler acts on a delivery once, however often and however late it is repeated,
\* as long as it can still be believed (sdk/src/serving.ts onceWhileReplayable).
ActedOnce == R!ActedOnce

\* What was asked for and paid is fulfilled, through failed reads, kept answers, answers that
\* come out of order, failing calls and lost replies.
CreditedIsFulfilled ==
    \A o \in Usable : (o \in watched /\ \E c \in account : B!PaidBy(c, o)) ~> o \in fulfilled

=============================================================================
