------------------------------- MODULE Sockets -------------------------------
(***************************************************************************)
(* The sockets ONE instance holds (src/index.ts upgrade,                   *)
(* openWhatTheTicketAllows, firstUse, follow, subscribe, keepFresh,        *)
(* publish, keepalive, ticketed; src/agents.ts attend, keepAlive,          *)
(* askAnAgent; core/ticket.ts mint, read).                                 *)
(*                                                                         *)
(* There is one payment with one trigger and one caller who is its agent.  *)
(* A socket follows the payment, subscribes to the trigger, or is one of   *)
(* the agent's devices.  It is opened with a ticket, which is signed and   *)
(* not stored: reading one takes as long as its signature does (an await), *)
(* and what keeps it from opening a second socket is the memory of having  *)
(* been spent, here or, by a peer's note, elsewhere.  A payment or a       *)
(* trigger may also be opened without a ticket on an instance that keeps   *)
(* no list of callers.  Who subscribes says how many of the trigger's      *)
(* settlements to replay; the trigger has others than the payment's.       *)
(*                                                                         *)
(* A device's socket fails first and closes later: between its error and   *)
(* its close others come and go.  It may also fall silent.  The error of a *)
(* follower's socket has no handler, and is left out.                      *)
(***************************************************************************)
EXTENDS Integers, FiniteSets, FiniteSetsExt

CONSTANTS
    Conns,       \* the connections clients make, one socket each
    Tickets,
    KindOf,      \* KindOf[t]: "payment", "trigger" or "agent"
    DepthOf,     \* DepthOf[t]: the settlements a trigger's ticket has replayed
    Depths,      \* the settlements a request without a ticket has replayed
    Ttl,         \* TICKET_TTL_SECS
    Ping,        \* PING_INTERVAL_MS
    AnswerTime,  \* ANSWER_MS
    MaxSockets,  \* maxSockets
    Honest,      \* the connections of devices that give the preimage once it is paid
    MaxAsks,     \* bound: how often the agent is asked
    MaxAhead,    \* bound: the trigger's settlements that come before the payment's
    MaxFaults,   \* bound: how often a socket fails or falls silent, a client gives up, a peer uses a ticket
    MaxTime      \* bound: the last instant

Kinds == {"payment", "trigger", "agent"}

ASSUME KindAssumption ==
    KindOf \in [Tickets -> Kinds] /\ DepthOf \in [Tickets -> Nat] /\ Depths \subseteq Nat
ASSUME TimeAssumption ==
    /\ {Ttl, AnswerTime, MaxSockets, MaxAsks, MaxAhead, MaxFaults, MaxTime} \subseteq Nat
    /\ Ping \in Nat \ {0}
    /\ Honest \subseteq Conns

VARIABLES
    now,
    payment,    \* what this instance knows of it: "none" if it never took it, "pending", "paid", "expired"
    ahead,      \* the trigger's settlements that a replay counts before the payment's
    landed,     \* the money reached the agent's wallet
    phase,      \* phase[s]: "away", "reading", "open", "failed" (error, no close yet), "closed"
    kind,       \* kind[s]: what it was opened for
    by,         \* by[s]: {the ticket it presented}, or {}
    silent,     \* the sockets whose other end is gone and says nothing
    followers,  \* the keys of the followers map
    answered,   \* the sockets with a pong since the last ping (answered, or not in unanswered)
    band,       \* band[s]: which Set of the agent's sockets s was put in, 0 for none
    members,    \* the sockets still in the Set they were put in
    entry,      \* agents.get(caller): {its Set}, or {}
    minted,     \* minted[t]: {expiresAt}, or {}
    spent,      \* spent[t]: {until}, or {}
    notes,      \* peers' spent notes on their way here
    pingAt,     \* when the keepalive runs next
    ask,        \* {the ask in flight}
    asks,       \* how often the agent was asked
    draining,
    stopped,    \* the sockets were closed, and none is let in any more
    got,        \* history: got[s]: what s was sent of the payment
    depth,      \* depth[s]: the settlements s asked to have replayed
    met,        \* history: met[s]: what was known of the payment when s registered
    uses,       \* history: uses[t]: once for a note that it was spent, and once for every socket after
    straddled,  \* history: the tickets that opened a socket after they expired
    wronged,    \* history: keepalive terminated a socket that could have answered
    faults,     \* how much of MaxFaults has happened
    verdict     \* history: {the outcome of the last ask, and the sockets that could have settled it}

people == <<followers, answered, band, members, entry>>
papers == <<minted, spent, notes, uses, straddled>>
asking == <<ask, asks, verdict>>
story == <<payment, ahead, landed>>
life == <<pingAt, draining, stopped>>
world == <<now, silent, story, life>>
told == <<got, depth, met>>
vars == <<world, people, papers, asking, phase, kind, by, told, wronged, faults>>

Fault == faults < MaxFaults /\ faults' = faults + 1

-----------------------------------------------------------------------------
(* Tickets *)

\* mint of core/ticket.ts
ExpiresAt == now + Ttl

\* read of core/ticket.ts: what is signed and not over.  No other ticket gets a socket.
Reads(t) == \A x \in minted[t] : now < x

\* ticketed: nothing is stored.  A payment's ticket needs the payment.
MintTicket(t) ==
    /\ minted[t] = {}
    /\ KindOf[t] = "payment" => payment # "none"
    /\ minted' = [minted EXCEPT ![t] = {ExpiresAt}]
    /\ UNCHANGED <<world, people, asking, phase, kind, by, told, wronged, faults, spent, notes, uses, straddled>>

\* A peer opened a socket with it and says so; onSpent keeps the later time.
UsedElsewhere(t) ==
    /\ Fault
    /\ minted[t] # {}
    /\ notes' = notes \cup {[t |-> t, until |-> now + Ttl]}
    /\ UNCHANGED <<world, people, asking, phase, kind, by, told, wronged, minted, spent, uses, straddled>>

HearSpent(m) ==
    /\ m \in notes
    /\ notes' = notes \ {m}
    /\ spent' = [spent EXCEPT ![m.t] = {Max(@ \cup {m.until})}]
    /\ uses' = [uses EXCEPT ![m.t] = Max({@, 1})]
    /\ UNCHANGED <<world, people, asking, phase, kind, by, told, wronged, faults, minted, straddled>>

-----------------------------------------------------------------------------
(* Opening *)

\* socketsOpen
SocketsOpen == Cardinality(followers) + Cardinality({s \in members : band[s] \in entry})

\* server.on("upgrade") with a ticket; read looks at the time at once, and awaits
\* the signature after.
Upgrade(s, t) ==
    /\ phase[s] = "away" /\ minted[t] # {}
    /\ phase' = [phase EXCEPT ![s] =
          IF draining \/ SocketsOpen >= MaxSockets \/ ~Reads(t)
          THEN "closed" ELSE "reading"]
    /\ by' = [by EXCEPT ![s] = {t}]
    /\ kind' = [kind EXCEPT ![s] = KindOf[t]]
    /\ UNCHANGED <<world, people, papers, asking, told, wronged, faults>>

\* Mutant of FirstUse: what a peer said is forgotten.
FirstUseHere(t) == \A s \in Conns : by[s] = {t} => phase[s] \in {"away", "reading"}

\* firstUse
FirstUse(t) == spent[t] = {}

\* Mutant of Greeted: the socket has to answer a ping it was never sent.
GreetedUnheard(s) == followers' = followers \cup {s} /\ UNCHANGED answered

\* follow and subscribe register before they send.
Greeted(s) == followers' = followers \cup {s} /\ answered' = answered \cup {s}

\* attend: into the caller's Set, or into a new one.
Attend(s) ==
    LET own == IF entry = {} THEN 1 + Max({band[q] : q \in Conns}) ELSE Max(entry)
    IN  /\ band' = [band EXCEPT ![s] = own]
        /\ members' = members \cup {s}
        /\ entry' = {own}
        /\ answered' = answered \cup {s}

\* store.replay: the newest settlements of the trigger, as many as were asked for.
Replayed(d) == IF payment = "paid" /\ ahead < d THEN {"paid"} ELSE {}

Registered(s, d, frames) ==
    /\ Greeted(s)
    /\ got' = [got EXCEPT ![s] = @ \cup frames]
    /\ depth' = [depth EXCEPT ![s] = d]
    /\ met' = [met EXCEPT ![s] = payment]
    /\ UNCHANGED <<band, members, entry>>

\* Mutant of Enter: a follower is told only what comes.
EnterUntold(s, k, d) ==
    IF k = "agent" THEN Attend(s) /\ phase' = [phase EXCEPT ![s] = "open"] /\ UNCHANGED <<followers, told>>
    ELSE phase' = [phase EXCEPT ![s] = "open"] /\ Registered(s, d, {})

\* follow closes a socket that asks for nothing it knows, and one it has told the
\* end; subscribe replays what was paid, as deep as it was asked to.  The read, the
\* registration and the first frame are one step of the event loop.
Enter(s, k, d) ==
    IF k = "agent" THEN Attend(s) /\ phase' = [phase EXCEPT ![s] = "open"] /\ UNCHANGED <<followers, told>>
    ELSE IF k = "payment" /\ payment = "none"
    THEN phase' = [phase EXCEPT ![s] = "closed"] /\ UNCHANGED <<people, told>>
    ELSE /\ Registered(s, d, IF k = "payment" THEN {payment} ELSE Replayed(d))
         /\ phase' = [phase EXCEPT ![s] = IF k = "payment" /\ payment # "pending" THEN "failed" ELSE "open"]

\* openWhatTheTicketAllows, after the await: the client may have gone, the ticket
\* may have been spent, and the time it was good for may have passed meanwhile.  A
\* server that has closed its sockets answers 503.
Opens(s) ==
    /\ phase[s] = "reading"
    /\ \E t \in by[s] :
          IF FirstUse(t)
          THEN /\ spent' = [spent EXCEPT ![t] = {now + Ttl}]
               /\ IF stopped
                  THEN /\ phase' = [phase EXCEPT ![s] = "closed"]
                       /\ UNCHANGED <<people, uses, straddled, told>>
                  ELSE /\ uses' = [uses EXCEPT ![t] = @ + 1]
                       /\ straddled' = IF Reads(t) THEN straddled ELSE straddled \cup {t}
                       /\ Enter(s, KindOf[t], DepthOf[t])
          ELSE phase' = [phase EXCEPT ![s] = "closed"] /\ UNCHANGED <<people, spent, uses, straddled, told>>
    /\ UNCHANGED <<world, asking, minted, notes, kind, by, wronged, faults>>

\* The upgrade of a bare payment or trigger path.
OpensBare(s, k, d) ==
    /\ phase[s] = "away"
    /\ kind' = [kind EXCEPT ![s] = k]
    /\ IF draining \/ SocketsOpen >= MaxSockets
       THEN phase' = [phase EXCEPT ![s] = "closed"] /\ UNCHANGED <<people, told>>
       ELSE Enter(s, k, d)
    /\ UNCHANGED <<world, papers, asking, by, wronged, faults>>

-----------------------------------------------------------------------------
(* Leaving *)

\* The other end is gone and the socket does not notice.
FallSilent(s) ==
    /\ Fault
    /\ phase[s] = "open" /\ s \notin silent
    /\ silent' = silent \cup {s}
    /\ UNCHANGED <<now, story, life, people, papers, asking, phase, kind, by, told, wronged>>

Lost(s) ==
    /\ members' = members \ {s}
    /\ entry' = IF band[s] # 0 /\ \A q \in members' : band[q] # band[s] THEN {} ELSE entry
    /\ UNCHANGED <<answered, band>>

\* Mutant of Left: a socket that closes leaves its place taken.
LeftHeld(s) == UNCHANGED people

\* leave of attend, and the close handler of keepFresh.
Left(s) == Lost(s) /\ followers' = followers \ {s}

\* The error event of an agent's socket: attend's leave, which runs again on close.
Fail(s) ==
    /\ Fault
    /\ phase[s] = "open" /\ kind[s] = "agent"
    /\ phase' = [phase EXCEPT ![s] = "failed"]
    /\ Lost(s)
    /\ UNCHANGED followers
    /\ UNCHANGED <<world, papers, asking, kind, by, told, wronged>>

\* The close event.
Close(s) ==
    /\ IF phase[s] = "failed" THEN UNCHANGED faults ELSE phase[s] = "open" /\ Fault
    /\ phase' = [phase EXCEPT ![s] = "closed"]
    /\ got' = [got EXCEPT ![s] = {}]
    /\ Left(s)
    /\ UNCHANGED <<world, papers, asking, kind, by, depth, met, wronged>>

\* The client goes before the ticket is read.
GiveUp(s) ==
    /\ Fault
    /\ phase[s] = "reading"
    /\ phase' = [phase EXCEPT ![s] = "closed"]
    /\ UNCHANGED <<world, people, papers, asking, kind, by, told, wronged>>

\* stop: nothing is let in, and the keepalive ends.
Drain ==
    /\ Fault
    /\ ~draining
    /\ draining' = TRUE
    /\ UNCHANGED <<now, story, silent, pingAt, stopped, people, papers, asking, phase, kind, by, told, wronged>>

\* stop, once the tick in flight has ended or had its time: every socket that is
\* held is closed.  One whose ticket was being read may have come in since.
CloseAll ==
    /\ draining /\ ~stopped
    /\ stopped' = TRUE
    /\ phase' = [s \in Conns |-> IF s \in followers \/ (s \in members /\ band[s] \in entry)
                                 THEN "failed" ELSE phase[s]]
    /\ UNCHANGED <<now, story, silent, pingAt, draining, people, papers, asking, kind, by, told, wronged, faults>>

Held == followers \cup {s \in members : band[s] \in entry}

\* keepalive and keepAlive: who did not answer the last ping is terminated, the
\* others are pinged; spent tickets are forgotten once they expire.
KeepAlive ==
    /\ ~draining /\ now >= pingAt
    /\ pingAt' = now + Ping
    /\ wronged' = (wronged \/ \E s \in Held \ answered : phase[s] = "open" /\ s \notin silent)
    /\ phase' = [s \in Conns |-> IF s \in Held \ answered THEN "failed" ELSE phase[s]]
    /\ answered' = answered \ Held
    /\ spent' = [t \in Tickets |-> {x \in spent[t] : x > now}]
    /\ UNCHANGED <<now, story, silent, draining, stopped, followers, band, members, entry, asking>>
    /\ UNCHANGED <<kind, by, told, minted, notes, uses, straddled, faults>>

Pong(s) ==
    /\ phase[s] = "open" /\ s \notin silent /\ s \in Held \ answered
    /\ answered' = answered \cup {s}
    /\ UNCHANGED <<world, papers, asking, phase, kind, by, told, wronged, faults, followers, band, members, entry>>

-----------------------------------------------------------------------------
(* The payment, and asking the agent about it *)

\* publish: to the followers of the payment and to its trigger's.
Published(status) ==
    [s \in Conns |-> IF s \in followers /\ phase[s] = "open" THEN got[s] \cup {status} ELSE got[s]]

\* onChange on settlement, here or heard of; the sweep's on expiry.
Change(status) ==
    /\ payment = "pending"
    /\ payment' = status
    /\ got' = Published(status)
    /\ UNCHANGED <<now, ahead, landed, silent, life, people, papers, asking, phase, kind, by, depth, met, wronged, faults>>

\* The trigger has another settlement, which a replay counts before the payment's.
AnotherSettles ==
    /\ ahead < MaxAhead
    /\ ahead' = ahead + 1
    /\ UNCHANGED <<now, payment, landed, silent, life, people, papers, asking, phase, kind, by, told, wronged, faults>>

\* The money reaches the recipient's wallet.
Land ==
    /\ ~landed
    /\ landed' = TRUE
    /\ UNCHANGED <<now, payment, ahead, silent, life, people, papers, asking, phase, kind, by, told, wronged, faults>>

Devices == {s \in members : band[s] \in entry}

\* askAnAgent: every device the caller holds open is asked at once.
Ask ==
    /\ payment = "pending" /\ ask = {} /\ asks < MaxAsks /\ Devices # {}
    /\ ask' = {[held |-> Devices, heard |-> {}, until |-> now + AnswerTime, able |-> landed]}
    /\ asks' = asks + 1
    /\ UNCHANGED <<world, people, papers, verdict, phase, kind, by, told, wronged, faults>>

\* Mutant of Done: the first answer ends the ask.
DoneAtFirst(a) == a.heard # {}

\* A proof ends the ask; otherwise all must have answered.
Done(a) == a.held = {x.s : x \in a.heard} \/ \E x \in a.heard : x.said = "proof"

Ended(a) ==
    /\ ask' = {}
    /\ verdict' = {[paid |-> \E x \in a.heard : x.said = "proof",
                    could |-> IF a.able /\ now < a.until
                              THEN {s \in a.held \cap Honest : phase[s] = "open" /\ s \notin silent}
                              ELSE {}]}

\* A device answers: the preimage, a wrong one, or not yet.  An honest one that
\* was asked after the money landed gives the preimage.
Answer(s, said) ==
    /\ phase[s] = "open" /\ s \notin silent
    /\ \E a \in ask :
          /\ s \in a.held /\ \A x \in a.heard : x.s # s
          /\ s \in Honest /\ a.able => said = "proof"
          /\ said = "proof" => landed
          /\ LET b == [a EXCEPT !.heard = @ \cup {[s |-> s, said |-> said]}]
             IN  IF Done(b) THEN Ended(b) ELSE ask' = {b} /\ UNCHANGED verdict
    /\ UNCHANGED <<world, people, papers, asks, phase, kind, by, told, wronged, faults>>

AskTimesOut ==
    /\ \E a \in ask : now >= a.until /\ Ended(a)
    /\ UNCHANGED <<world, people, papers, asks, phase, kind, by, told, wronged, faults>>

\* A pong arrives within the unit, nothing due is late.  A ticket may be read for
\* any time.
Tick ==
    /\ now < MaxTime
    /\ draining \/ now < pingAt
    /\ \A s \in Held \ answered : phase[s] = "open" => s \in silent
    /\ \A a \in ask : now < a.until
    /\ now' = now + 1
    /\ UNCHANGED <<story, silent, life, people, papers, asking, phase, kind, by, told, wronged, faults>>

-----------------------------------------------------------------------------

Init ==
    /\ now = 0 /\ payment \in {"none", "pending"} /\ ahead = 0 /\ landed = FALSE /\ silent = {} /\ pingAt = Ping
    /\ draining = FALSE /\ stopped = FALSE
    /\ phase = [s \in Conns |-> "away"] /\ kind = [s \in Conns |-> "payment"]
    /\ by = [s \in Conns |-> {}] /\ got = [s \in Conns |-> {}] /\ depth = [s \in Conns |-> 0]
    /\ met = [s \in Conns |-> "none"] /\ wronged = FALSE /\ faults = 0
    /\ followers = {} /\ answered = {} /\ members = {} /\ entry = {} /\ band = [s \in Conns |-> 0]
    /\ minted = [t \in Tickets |-> {}] /\ spent = [t \in Tickets |-> {}] /\ notes = {}
    /\ uses = [t \in Tickets |-> 0] /\ straddled = {}
    /\ ask = {} /\ asks = 0 /\ verdict = {}

Next ==
    \/ \E t \in Tickets : MintTicket(t) \/ UsedElsewhere(t)
    \/ \E m \in notes : HearSpent(m)
    \/ \E s \in Conns, t \in Tickets : Upgrade(s, t)
    \/ \E s \in Conns :
          \/ Opens(s) \/ OpensBare(s, "payment", 0)
          \/ \E d \in Depths : OpensBare(s, "trigger", d)
          \/ FallSilent(s) \/ Fail(s) \/ Close(s) \/ GiveUp(s) \/ Pong(s)
          \/ \E said \in {"proof", "wrong", "not yet"} : Answer(s, said)
    \/ Drain \/ CloseAll \/ KeepAlive
    \/ Change("paid") \/ Change("expired") \/ AnotherSettles \/ Land
    \/ Ask \/ AskTimesOut
    \/ Tick

Spec == Init /\ [][Next]_vars

-----------------------------------------------------------------------------
(* Properties *)

\* Nobody lingers: who is told of a payment, or counts as an agent, has a socket that
\* is not closed, so neither map outgrows the sockets (keepFresh, leave).
NobodyLingers == \A s \in followers \cup members : phase[s] \in {"open", "failed"}

\* An open follower knows the end: whatever happened between the client's request,
\* the reading of its ticket and its registration, a follower of a payment that was
\* paid has been sent that, and so has a subscriber of its trigger - one that came
\* before the settlement, whatever it wanted replayed, and one that came after it if
\* the replay it asked for reaches so far back (follow, subscribe, publish).  A
\* follower that comes after it is told and closed at once.
ToldOf(s) == met[s] = "paid" => ahead < depth[s]
FollowersKnow ==
    payment = "paid" => \A s \in followers : phase[s] = "open" /\ ToldOf(s) => "paid" \in got[s]

\* "A ticket opens one socket": no second one here, although it is read across an
\* await, and none once a peer's note said it was spent there, although the memory
\* of it is forgotten when it expires (firstUse, onSpent, keepalive).  The time is
\* looked at before the signature is: what is said here is said of the tickets that
\* opened no socket after they expired.
TicketOpensOnce ==
    \A t \in Tickets \ straddled : uses[t] <= 1

\* "A ticket opens one socket: the instance that opens it" keeps it from opening
\* another (openapi.yaml:560), whatever its reading took - which the program does not
\* keep: a ticket that is presented again in its last second may be read until its
\* memory is gone.
OneSocketPerTicket == \A t \in Tickets : uses[t] <= 1

\* keepalive lets go only of sockets that are silent or already failing, however
\* the ping falls between a socket's opening and its first pong.
OnlyTheSilentAreDropped == ~wronged

\* An honest device is heard: an ask that ends without the preimage, before its
\* time, leaves out no open honest device that was asked once the money was there,
\* whatever the caller's other devices said, and whichever of them left.
HonestIsHeard == \A v \in verdict : ~v.paid => v.could = {}

\* "Hold one caller's socket for as long as it lives": an agent's open socket is
\* in the caller's entry, so it is asked, pinged, counted and closed.
HeldForAsLongAsItLives ==
    \A s \in Conns : kind[s] = "agent" /\ phase[s] = "open" => s \in Devices

=============================================================================
