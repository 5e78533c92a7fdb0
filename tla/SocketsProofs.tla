---------------------------- MODULE SocketsProofs ----------------------------
(***************************************************************************)
(* Proofs about Sockets, for any number of sockets, tickets and asks: the  *)
(* maps hold no closed socket, followers know, a ticket opens one socket,  *)
(* only the silent are dropped and an honest device is heard.  The         *)
(* invariant has four parts: who is in the maps, what is left of a ticket, *)
(* which Set of the agent's sockets is the caller's, and what was heard.   *)
(***************************************************************************)
EXTENDS Sockets, TLAPS

Phases == {"away", "reading", "open", "failed", "closed"}
Statuses == {"none", "pending", "paid", "expired"}
Saids == {"proof", "wrong", "not yet"}

LEMMA MaxOf ==
    ASSUME NEW S, NEW m \in S, S \subseteq Int, \A x \in S : x <= m
    PROVE  Max(S) = m
<1>1. m \in S /\ \A y \in S : m >= y
  OBVIOUS
<1>2. Max(S) \in S /\ \A y \in S : Max(S) >= y
  BY <1>1 DEF Max
<1>3. PICK z : z = Max(S)
  OBVIOUS
<1>4. z \in Int /\ m \in Int /\ z >= m /\ z <= m
  BY <1>2, <1>3
<1> QED BY <1>3, <1>4

-----------------------------------------------------------------------------
(* Who is in the maps *)

Maps ==
    /\ phase \in [Conns -> Phases]
    /\ got \in [Conns -> SUBSET Statuses]
    /\ payment \in Statuses
    /\ followers \subseteq Conns
    /\ members \subseteq Conns
    /\ ahead \in Nat
    /\ depth \in [Conns -> Nat]
    /\ met \in [Conns -> Statuses]

MapsInv == Maps /\ NobodyLingers /\ FollowersKnow

LEMMA MapsInit == Init => MapsInv
BY DEF Init, MapsInv, Maps, NobodyLingers, FollowersKnow, Phases, Statuses

\* A socket that enters is open or failing, and is told of a payment that was paid,
\* unless it wanted less replayed.
LEMMA MapsEnter ==
    ASSUME MapsInv, NEW s \in Conns, NEW k, NEW d \in Nat, Enter(s, k, d), phase[s] \in {"away", "reading"},
           UNCHANGED <<payment, ahead>>
    PROVE  MapsInv'
<1> USE DEF MapsInv, Maps
<1>1. CASE k = "agent"
  <2>1. /\ members' = members \cup {s} /\ phase' = [phase EXCEPT ![s] = "open"]
        /\ UNCHANGED <<followers, got, depth, met>>
    BY <1>1 DEF Enter, Attend, told
  <2>2. Maps'
    BY <2>1 DEF Phases
  <2>3. NobodyLingers'
    BY <2>1 DEF NobodyLingers
  <2>4. FollowersKnow'
    BY <2>1 DEF FollowersKnow, ToldOf, NobodyLingers
  <2> QED BY <2>2, <2>3, <2>4
<1>2. CASE k # "agent" /\ k = "payment" /\ payment = "none"
  <2>1. phase' = [phase EXCEPT ![s] = "closed"] /\ UNCHANGED <<followers, members, got, depth, met>>
    BY <1>2 DEF Enter, people, told
  <2>2. s \notin followers /\ s \notin members
    BY DEF NobodyLingers
  <2> QED BY <2>1, <2>2 DEF Phases, NobodyLingers, FollowersKnow, ToldOf
<1>3. CASE k # "agent" /\ ~(k = "payment" /\ payment = "none")
  <2> DEFINE frames == IF k = "payment" THEN {payment} ELSE Replayed(d)
  <2>1. /\ followers' = followers \cup {s} /\ UNCHANGED members
        /\ got' = [got EXCEPT ![s] = @ \cup frames]
        /\ depth' = [depth EXCEPT ![s] = d] /\ met' = [met EXCEPT ![s] = payment]
        /\ phase' = [phase EXCEPT ![s] = IF k = "payment" /\ payment # "pending" THEN "failed" ELSE "open"]
    BY <1>3 DEF Enter, Registered, Greeted
  <2>2. frames \subseteq Statuses
    BY DEF Statuses, Replayed
  <2>r. k # "payment" /\ payment = "paid" /\ ahead < d => "paid" \in frames
    BY DEF Replayed
  <2> HIDE DEF frames
  <2>3. Maps'
    BY <2>1, <2>2 DEF Phases
  <2>4. NobodyLingers'
    BY <2>1 DEF NobodyLingers
  <2>5. ASSUME payment' = "paid", NEW q \in followers', phase'[q] = "open", ToldOf(q)'
        PROVE  "paid" \in got'[q]
    <3>1. CASE q = s
      <4>1. k # "payment"
        BY <2>1, <2>5, <3>1
      <4>2. met'[s] = "paid" /\ depth'[s] = d
        BY <2>1, <2>5
      <4>3. "paid" \in frames
        BY <2>5, <2>r, <3>1, <4>1, <4>2 DEF ToldOf
      <4> QED BY <2>1, <3>1, <4>3
    <3>2. CASE q # s
      <4>1. q \in followers /\ phase[q] = "open" /\ ToldOf(q) /\ payment = "paid" /\ got'[q] = got[q]
        BY <2>1, <2>5, <3>2 DEF ToldOf
      <4> QED BY <4>1 DEF FollowersKnow
    <3> QED BY <3>1, <3>2
  <2> QED BY <2>3, <2>4, <2>5 DEF FollowersKnow
<1> QED BY <1>1, <1>2, <1>3

\* A socket that never was in the maps is turned away.
LEMMA MapsRefuse ==
    ASSUME MapsInv, NEW s \in Conns, phase[s] \in {"away", "reading"}, NEW p \in {"reading", "closed"},
           phase' = [phase EXCEPT ![s] = p], UNCHANGED <<followers, members, payment, ahead, told>>
    PROVE  MapsInv'
<1>1. s \notin followers /\ s \notin members
  BY DEF MapsInv, NobodyLingers
<1> QED BY <1>1 DEF MapsInv, Maps, Phases, NobodyLingers, FollowersKnow, ToldOf, told

\* Sockets that are held start to fail.
LEMMA MapsFailing ==
    ASSUME MapsInv, NEW F \in SUBSET (followers \cup members),
           phase' = [s \in Conns |-> IF s \in F THEN "failed" ELSE phase[s]],
           UNCHANGED <<followers, members, payment, ahead, told>>
    PROVE  MapsInv'
BY DEF MapsInv, Maps, Phases, NobodyLingers, FollowersKnow, ToldOf, told

LEMMA MapsNext ==
    ASSUME MapsInv, by \in [Conns -> SUBSET Tickets], [Next]_vars
    PROVE  MapsInv'
<1>1. ASSUME NEW s \in Conns, NEW t \in Tickets, Upgrade(s, t)
      PROVE  MapsInv'
  <2>1. PICK p : p = IF draining \/ SocketsOpen >= MaxSockets \/ ~Reads(t) THEN "closed" ELSE "reading"
    OBVIOUS
  <2>2. /\ phase[s] = "away" /\ phase' = [phase EXCEPT ![s] = p]
        /\ UNCHANGED <<followers, members, payment, ahead, told>>
    BY <1>1, <2>1 DEF Upgrade, people, world, story
  <2>3. p \in {"reading", "closed"}
    BY <2>1
  <2> QED BY <2>2, <2>3, MapsRefuse
<1>2. ASSUME NEW s \in Conns, Opens(s)
      PROVE  MapsInv'
  <2>1. phase[s] = "reading" /\ UNCHANGED <<payment, ahead>>
    BY <1>2 DEF Opens, world, story
  <2>2. \/ \E t \in by[s] : Enter(s, KindOf[t], DepthOf[t])
        \/ phase' = [phase EXCEPT ![s] = "closed"] /\ UNCHANGED <<followers, members, told>>
    BY <1>2 DEF Opens, people
  <2>3. \A t \in by[s] : DepthOf[t] \in Nat
    BY KindAssumption
  <2> QED BY <2>1, <2>2, <2>3, MapsEnter, MapsRefuse
<1>3. ASSUME NEW s \in Conns, NEW k, NEW d \in Nat, OpensBare(s, k, d)
      PROVE  MapsInv'
  <2>1. phase[s] = "away" /\ UNCHANGED <<payment, ahead>>
    BY <1>3 DEF OpensBare, world, story
  <2>2. \/ Enter(s, k, d)
        \/ phase' = [phase EXCEPT ![s] = "closed"] /\ UNCHANGED <<followers, members, told>>
    BY <1>3 DEF OpensBare, people
  <2> QED BY <2>1, <2>2, MapsEnter, MapsRefuse
<1>4. ASSUME NEW s \in Conns, Fail(s)
      PROVE  MapsInv'
  BY <1>4 DEF Fail, Lost, world, story, told, MapsInv, Maps, Phases, NobodyLingers, FollowersKnow, ToldOf
<1>5. ASSUME NEW s \in Conns, Close(s)
      PROVE  MapsInv'
  BY <1>5 DEF Close, Left, Lost, world, story, MapsInv, Maps, Phases, NobodyLingers, FollowersKnow, ToldOf
<1>6. ASSUME NEW s \in Conns, GiveUp(s)
      PROVE  MapsInv'
  BY <1>6, MapsRefuse DEF GiveUp, people, world, story
<1>7. CASE CloseAll
  <2>1. PICK F : F = {s \in Conns : s \in followers \/ (s \in members /\ band[s] \in entry)}
    OBVIOUS
  <2>2. /\ F \subseteq followers \cup members
        /\ phase' = [s \in Conns |-> IF s \in F THEN "failed" ELSE phase[s]]
        /\ UNCHANGED <<followers, members, payment, ahead, told>>
    BY <1>7, <2>1 DEF CloseAll, people, story
  <2> QED BY <2>2, MapsFailing
<1>8. CASE KeepAlive
  <2>1. PICK F : F = Held \ answered
    OBVIOUS
  <2>2. /\ F \subseteq followers \cup members
        /\ phase' = [s \in Conns |-> IF s \in F THEN "failed" ELSE phase[s]]
        /\ UNCHANGED <<followers, members, payment, ahead, told>>
    BY <1>8, <2>1 DEF KeepAlive, Held, story
  <2> QED BY <2>2, MapsFailing
<1>9. ASSUME NEW status \in {"paid", "expired"}, Change(status)
      PROVE  MapsInv'
  BY <1>9 DEF Change, Published, people, MapsInv, Maps, Statuses, NobodyLingers, FollowersKnow, ToldOf
<1>10. CASE UNCHANGED <<phase, payment, ahead, followers, members, told>>
  BY <1>10 DEF told, MapsInv, Maps, NobodyLingers, FollowersKnow, ToldOf
<1>11. CASE UNCHANGED vars
  BY <1>10, <1>11 DEF vars, world, story, people
<1>12. ASSUME NEW t \in Tickets, MintTicket(t) \/ UsedElsewhere(t)
       PROVE  MapsInv'
  BY <1>10, <1>12 DEF MintTicket, UsedElsewhere, world, story, people
<1>13. ASSUME NEW m \in notes, HearSpent(m)
       PROVE  MapsInv'
  BY <1>10, <1>13 DEF HearSpent, world, story, people
<1>14. ASSUME NEW s \in Conns, FallSilent(s) \/ Pong(s)
       PROVE  MapsInv'
  BY <1>10, <1>14 DEF FallSilent, Pong, world, story, people
<1>15. ASSUME NEW s \in Conns, NEW said, Answer(s, said)
       PROVE  MapsInv'
  BY <1>10, <1>15 DEF Answer, world, story, people
<1>16. CASE Land \/ Ask \/ AskTimesOut \/ Tick \/ Drain
  BY <1>10, <1>16 DEF Land, Ask, AskTimesOut, Tick, Drain, world, story, people
<1>17. CASE AnotherSettles
  <2>1. UNCHANGED <<phase, payment, followers, members, got, depth, met>> /\ ahead' = ahead + 1
    BY <1>17 DEF AnotherSettles, people, told
  <2>2. Maps' /\ NobodyLingers'
    BY <2>1 DEF MapsInv, Maps, NobodyLingers
  <2>3. \A s \in followers : ToldOf(s)' => ToldOf(s)
    BY <2>1 DEF MapsInv, Maps, ToldOf
  <2>4. FollowersKnow'
    BY <2>1, <2>3 DEF MapsInv, FollowersKnow
  <2> QED BY <2>2, <2>4 DEF MapsInv
<1>18. ASSUME NEW s \in Conns, OpensBare(s, "payment", 0) \/ \E d \in Depths : OpensBare(s, "trigger", d)
       PROVE  MapsInv'
  BY <1>3, <1>18, KindAssumption
<1> QED BY <1>1, <1>2, <1>4, <1>5, <1>6, <1>7, <1>8, <1>9, <1>11, <1>12, <1>13, <1>14, <1>15, <1>16, <1>17, <1>18
        DEF Next

-----------------------------------------------------------------------------
(* What is left of a ticket *)

Papers ==
    /\ now \in Nat
    /\ phase \in [Conns -> Phases]
    /\ by \in [Conns -> SUBSET Tickets]
    /\ minted \in [Tickets -> SUBSET Nat]
    /\ spent \in [Tickets -> SUBSET Nat]
    /\ notes \subseteq [t : Tickets, until : Nat]
    /\ uses \in [Tickets -> Nat]

\* No ticket lasts longer than one that is minted now.
Lasts == \A t \in Tickets : \A x \in minted[t] : x <= now + Ttl

\* What a peer used was minted, and its note holds for as long as the ticket.
NotesLast == \A m \in notes : minted[m.t] # {} /\ \A x \in minted[m.t] : x <= m.until

\* What is being read was minted.
ReadIsMinted == \A s \in Conns : phase[s] = "reading" => \A t \in by[s] : minted[t] # {}

\* The memory of a ticket that was used lasts until the ticket is over.
UsedIsKnown ==
    \A t \in Tickets : uses[t] > 0 =>
        /\ minted[t] # {}
        /\ \/ \E u \in spent[t] : \A x \in minted[t] : x <= u
           \/ \E x \in minted[t] : x <= now

\* A ticket has one time to be over, and at most one that it is remembered until.
OneMemory == \A t \in Tickets : (\A u, v \in spent[t] : u = v) /\ (\A x, y \in minted[t] : x = y)

PapersInv == Papers /\ Lasts /\ NotesLast /\ ReadIsMinted /\ UsedIsKnown /\ OneMemory /\ TicketOpensOnce

LEMMA PapersInit == Init => PapersInv
BY DEF Init, PapersInv, Papers, Lasts, NotesLast, ReadIsMinted, UsedIsKnown, OneMemory, TicketOpensOnce, Phases

\* Sockets move on, and none of them starts to read its ticket.
LEMMA PapersMove ==
    ASSUME PapersInv, UNCHANGED <<now, by, papers>>, phase' \in [Conns -> Phases],
           \A s \in Conns : phase'[s] = "reading" => phase[s] = "reading"
    PROVE  PapersInv'
BY DEF papers, PapersInv, Papers, Lasts, NotesLast, ReadIsMinted, UsedIsKnown, OneMemory, TicketOpensOnce

LEMMA PapersSame ==
    ASSUME PapersInv, UNCHANGED <<now, by, phase, papers>>
    PROVE  PapersInv'
BY DEF papers, PapersInv, Papers, Lasts, NotesLast, ReadIsMinted, UsedIsKnown, OneMemory, TicketOpensOnce

\* What Enter does to the phases.
LEMMA EnterPhase ==
    ASSUME phase \in [Conns -> Phases], NEW s \in Conns, NEW k, NEW d, Enter(s, k, d)
    PROVE  /\ phase' \in [Conns -> Phases]
           /\ phase'[s] \in {"open", "failed", "closed"}
           /\ \A q \in Conns \ {s} : phase'[q] = phase[q]
<1>1. PICK p \in {"open", "failed", "closed"} : phase' = [phase EXCEPT ![s] = p]
  BY DEF Enter
<1> QED BY <1>1 DEF Phases

LEMMA PapersMint ==
    ASSUME PapersInv, NEW t \in Tickets, MintTicket(t)
    PROVE  PapersInv'
<1> USE TimeAssumption DEF PapersInv, Papers
<1>1. PICK x \in Nat : x = now + Ttl
  OBVIOUS
<1>2. /\ minted[t] = {} /\ minted' = [minted EXCEPT ![t] = {x}]
      /\ UNCHANGED <<now, phase, by, spent, notes, uses, straddled>>
  BY <1>1 DEF MintTicket, ExpiresAt, world
<1>3. Papers'
  BY <1>2
<1>4. Lasts'
  BY <1>1, <1>2 DEF Lasts
<1>5. \A m \in notes : m.t \in Tickets /\ m.t # t
  BY <1>2 DEF NotesLast
<1>6. NotesLast'
  BY <1>2, <1>5 DEF NotesLast
<1>7. ReadIsMinted'
  BY <1>2 DEF ReadIsMinted
<1>8. UsedIsKnown'
  BY <1>2 DEF UsedIsKnown
<1>9. OneMemory' /\ TicketOpensOnce'
  BY <1>2 DEF OneMemory, TicketOpensOnce
<1> QED BY <1>3, <1>4, <1>6, <1>7, <1>8, <1>9

LEMMA PapersElsewhere ==
    ASSUME PapersInv, NEW t \in Tickets, UsedElsewhere(t)
    PROVE  PapersInv'
<1> USE TimeAssumption DEF PapersInv, Papers
<1>1. PICK u \in Nat : u = now + Ttl
  OBVIOUS
<1>2. PICK n \in [t : Tickets, until : Nat] : n = [t |-> t, until |-> u]
  BY <1>1
<1>3. n.t = t /\ n.until = u
  BY <1>2
<1>4. /\ minted[t] # {} /\ notes' = notes \cup {n}
      /\ UNCHANGED <<now, phase, by, minted, spent, uses, straddled>>
  BY <1>1, <1>2 DEF UsedElsewhere, world
<1>5. Papers'
  BY <1>4
<1>6. \A x \in minted[n.t] : x <= n.until
  BY <1>1, <1>3 DEF Lasts
<1>7. NotesLast'
  BY <1>3, <1>4, <1>6 DEF NotesLast
<1> QED BY <1>4, <1>5, <1>7 DEF Lasts, ReadIsMinted, UsedIsKnown, OneMemory, TicketOpensOnce

LEMMA PapersHear ==
    ASSUME PapersInv, NEW m \in notes, HearSpent(m)
    PROVE  PapersInv'
<1> USE DEF PapersInv, Papers
<1>1. PICK t \in Tickets : t = m.t
  OBVIOUS
<1>2. PICK until \in Nat : until = m.until
  OBVIOUS
<1>3. PICK u \in Nat : u = Max(spent[t] \cup {until}) /\ until <= u
  <2>1. CASE \E v \in spent[t] : until <= v
    <3>1. PICK v \in spent[t] : until <= v
      BY <2>1
    <3>2. v \in spent[t] \cup {until} /\ spent[t] \cup {until} \subseteq Int
      OBVIOUS
    <3>3. \A x \in spent[t] \cup {until} : x <= v
      BY <3>1 DEF OneMemory
    <3>4. Max(spent[t] \cup {until}) = v
      BY <3>2, <3>3, MaxOf
    <3> QED BY <3>1, <3>4
  <2>2. CASE ~\E v \in spent[t] : until <= v
    <3>1. until \in spent[t] \cup {until} /\ spent[t] \cup {until} \subseteq Int
      OBVIOUS
    <3>2. \A x \in spent[t] \cup {until} : x <= until
      BY <2>2
    <3>3. Max(spent[t] \cup {until}) = until
      BY <3>1, <3>2, MaxOf
    <3> QED BY <3>3
  <2> QED BY <2>1, <2>2
<1>4. PICK w \in Nat : w = Max({uses[t], 1}) /\ w > 0 /\ (uses[t] <= 1 => w = 1)
  <2>1. CASE uses[t] <= 1
    <3>1. 1 \in {uses[t], 1} /\ {uses[t], 1} \subseteq Int /\ \A x \in {uses[t], 1} : x <= 1
      BY <2>1
    <3>2. Max({uses[t], 1}) = 1
      BY <3>1, MaxOf
    <3> QED BY <2>1, <3>2
  <2>2. CASE ~(uses[t] <= 1)
    <3>1. uses[t] \in {uses[t], 1} /\ {uses[t], 1} \subseteq Int /\ \A x \in {uses[t], 1} : x <= uses[t]
      BY <2>2
    <3>2. Max({uses[t], 1}) = uses[t]
      BY <3>1, MaxOf
    <3> QED BY <2>2, <3>2
  <2> QED BY <2>1, <2>2
<1>5. /\ notes' \subseteq notes
      /\ spent' = [spent EXCEPT ![t] = {u}]
      /\ uses' = [uses EXCEPT ![t] = w]
      /\ UNCHANGED <<now, phase, by, minted, straddled>>
  BY <1>1, <1>2, <1>3, <1>4 DEF HearSpent, world
<1>6. minted[t] # {} /\ \A x \in minted[t] : x <= u
  BY <1>1, <1>2, <1>3 DEF NotesLast
<1>7. Papers'
  BY <1>5
<1>8. UsedIsKnown'
  BY <1>5, <1>6 DEF UsedIsKnown
<1>9. OneMemory'
  BY <1>5 DEF OneMemory
<1>10. TicketOpensOnce'
  BY <1>4, <1>5 DEF TicketOpensOnce
<1> QED BY <1>5, <1>7, <1>8, <1>9, <1>10 DEF Lasts, NotesLast, ReadIsMinted

LEMMA PapersUpgrade ==
    ASSUME PapersInv, NEW s \in Conns, NEW t \in Tickets, Upgrade(s, t)
    PROVE  PapersInv'
<1> USE DEF PapersInv, Papers
<1>1. PICK p : p = IF draining \/ SocketsOpen >= MaxSockets \/ ~Reads(t) THEN "closed" ELSE "reading"
  OBVIOUS
<1>2. /\ minted[t] # {} /\ phase' = [phase EXCEPT ![s] = p] /\ by' = [by EXCEPT ![s] = {t}]
      /\ UNCHANGED <<now, minted, spent, notes, uses, straddled>>
  BY <1>1 DEF Upgrade, world, papers
<1>3. p \in {"closed", "reading"}
  BY <1>1
<1>4. Papers'
  BY <1>2, <1>3 DEF Phases
<1>5. ReadIsMinted'
  BY <1>2, <1>3 DEF ReadIsMinted
<1> QED BY <1>2, <1>4, <1>5 DEF Lasts, NotesLast, UsedIsKnown, OneMemory, TicketOpensOnce

\* The ticket of a socket that is let in was not used before, or is over.
LEMMA PapersOpens ==
    ASSUME PapersInv, NEW s \in Conns, Opens(s)
    PROVE  PapersInv'
<1> USE TimeAssumption DEF PapersInv, Papers
<1>1. phase[s] = "reading" /\ UNCHANGED <<now, minted, notes, by>>
  BY DEF Opens, world
<1>2. PICK t \in by[s] :
          IF FirstUse(t)
          THEN /\ spent' = [spent EXCEPT ![t] = {now + Ttl}]
               /\ IF stopped
                  THEN /\ phase' = [phase EXCEPT ![s] = "closed"]
                       /\ UNCHANGED <<people, uses, straddled, told>>
                  ELSE /\ uses' = [uses EXCEPT ![t] = @ + 1]
                       /\ straddled' = IF Reads(t) THEN straddled ELSE straddled \cup {t}
                       /\ Enter(s, KindOf[t], DepthOf[t])
          ELSE phase' = [phase EXCEPT ![s] = "closed"] /\ UNCHANGED <<people, spent, uses, straddled, told>>
  BY DEF Opens
<1>3. t \in Tickets /\ minted[t] # {}
  BY <1>1 DEF ReadIsMinted
<1>4. CASE ~FirstUse(t)
  <2>1. phase' = [phase EXCEPT ![s] = "closed"] /\ UNCHANGED <<spent, uses, straddled>>
    BY <1>2, <1>4
  <2>2. phase' \in [Conns -> Phases] /\ \A q \in Conns : phase'[q] = "reading" => phase[q] = "reading"
    BY <2>1 DEF Phases
  <2> QED BY <1>1, <2>1, <2>2, PapersMove DEF papers
<1>5. CASE FirstUse(t)
  <2>1. PICK u \in Nat : u = now + Ttl
    OBVIOUS
  <2>2. /\ spent' = [spent EXCEPT ![t] = {u}]
        /\ \/ /\ UNCHANGED <<uses, straddled>>
              /\ phase' = [phase EXCEPT ![s] = "closed"]
           \/ /\ uses' = [uses EXCEPT ![t] = @ + 1]
              /\ straddled' = IF Reads(t) THEN straddled ELSE straddled \cup {t}
              /\ Enter(s, KindOf[t], DepthOf[t])
    BY <1>2, <1>5, <2>1
  <2>3. /\ phase' \in [Conns -> Phases]
        /\ \A q \in Conns : phase'[q] = "reading" => phase[q] = "reading"
    BY <2>2, EnterPhase DEF Phases
  <2>4. straddled \subseteq straddled' /\ \A q \in Tickets \ {t} : uses'[q] = uses[q]
    BY <2>2
  <2>5. t \notin straddled' => uses'[t] <= 1
    <3>1. CASE UNCHANGED uses
      BY <1>3, <2>4, <3>1 DEF TicketOpensOnce
    <3>2. CASE uses' = [uses EXCEPT ![t] = @ + 1] /\ straddled' = IF Reads(t) THEN straddled ELSE straddled \cup {t}
      <4> SUFFICES ASSUME t \notin straddled'
                   PROVE  uses'[t] <= 1
        OBVIOUS
      <4>1. Reads(t)
        BY <3>2
      <4>2. \A x \in minted[t] : x \in Nat /\ now < x
        BY <1>3, <4>1 DEF Reads
      <4>3. spent[t] = {}
        BY <1>5 DEF FirstUse
      <4>4. ~(uses[t] > 0)
        BY <1>3, <4>2, <4>3 DEF UsedIsKnown
      <4> QED BY <1>3, <3>2, <4>4
    <3> QED BY <2>2, <3>1, <3>2
  <2>6. TicketOpensOnce'
    BY <2>4, <2>5 DEF TicketOpensOnce
  <2>7. Papers'
    BY <1>1, <1>3, <2>2, <2>3
  <2>8. \A x \in minted[t] : x <= u
    BY <1>3, <2>1 DEF Lasts
  <2>9. UsedIsKnown'
    <3>1. \A q \in Tickets \ {t} : spent'[q] = spent[q] /\ uses'[q] = uses[q]
      BY <2>2
    <3>2. spent'[t] = {u}
      BY <1>3, <2>2
    <3> QED BY <1>1, <1>3, <2>8, <3>1, <3>2 DEF UsedIsKnown
  <2>10. OneMemory'
    BY <1>1, <1>3, <2>2 DEF OneMemory
  <2>11. ReadIsMinted'
    BY <1>1, <2>3 DEF ReadIsMinted
  <2> QED BY <1>1, <2>6, <2>7, <2>9, <2>10, <2>11 DEF Lasts, NotesLast
<1> QED BY <1>4, <1>5

\* What the keepalive forgets was the memory of a ticket that is over.
LEMMA PapersKeepAlive ==
    ASSUME PapersInv, KeepAlive
    PROVE  PapersInv'
<1> USE DEF PapersInv, Papers
<1>1. /\ phase' = [s \in Conns |-> IF s \in Held \ answered THEN "failed" ELSE phase[s]]
      /\ spent' = [t \in Tickets |-> {x \in spent[t] : x > now}]
      /\ UNCHANGED <<now, by, minted, notes, uses, straddled>>
  BY DEF KeepAlive
<1>2. Papers'
  BY <1>1 DEF Phases
<1>3. ASSUME NEW t \in Tickets, uses[t] > 0
      PROVE  /\ minted[t] # {}
             /\ \/ \E u \in spent'[t] : \A x \in minted[t] : x <= u
                \/ \E x \in minted[t] : x <= now
  <2>0. minted[t] # {}
    BY <1>3 DEF UsedIsKnown
  <2>1. CASE \E u \in spent[t] : \A x \in minted[t] : x <= u
    <3>1. PICK u \in spent[t] : \A x \in minted[t] : x <= u
      BY <2>1
    <3>2. u \in Nat /\ \A x \in minted[t] : x \in Nat
      OBVIOUS
    <3>3. CASE u > now
      BY <1>1, <2>0, <3>1, <3>3
    <3>4. CASE ~(u > now)
      BY <2>0, <3>1, <3>2, <3>4
    <3> QED BY <3>3, <3>4
  <2> QED BY <1>3, <2>0, <2>1 DEF UsedIsKnown
<1>4. UsedIsKnown'
  BY <1>1, <1>3 DEF UsedIsKnown
<1>5. OneMemory'
  BY <1>1 DEF OneMemory
<1>6. ReadIsMinted'
  BY <1>1 DEF ReadIsMinted
<1> QED BY <1>1, <1>2, <1>4, <1>5, <1>6 DEF Lasts, NotesLast, TicketOpensOnce

\* Time passes, whoever is still reading.
LEMMA PapersTick ==
    ASSUME PapersInv, Tick
    PROVE  PapersInv'
<1> USE TimeAssumption DEF PapersInv, Papers
<1>1. now' = now + 1 /\ UNCHANGED <<phase, by, minted, spent, notes, uses, straddled>>
  BY DEF Tick, papers
<1>2. Papers'
  BY <1>1
<1>3. Lasts'
  BY <1>1 DEF Lasts
<1>4. UsedIsKnown'
  BY <1>1 DEF UsedIsKnown
<1>5. ReadIsMinted'
  BY <1>1 DEF ReadIsMinted
<1> QED BY <1>1, <1>2, <1>3, <1>4, <1>5 DEF NotesLast, OneMemory, TicketOpensOnce

LEMMA PapersNext ==
    ASSUME PapersInv, [Next]_vars
    PROVE  PapersInv'
<1>1. phase \in [Conns -> Phases]
  BY DEF PapersInv, Papers
<1>2. ASSUME NEW s \in Conns, NEW k, NEW d, OpensBare(s, k, d)
      PROVE  PapersInv'
  <2>1. UNCHANGED <<now, by, papers>>
    BY <1>2 DEF OpensBare, world
  <2>2. Enter(s, k, d) \/ phase' = [phase EXCEPT ![s] = "closed"]
    BY <1>2 DEF OpensBare
  <2>3. /\ phase' \in [Conns -> Phases]
        /\ \A q \in Conns : phase'[q] = "reading" => phase[q] = "reading"
    BY <1>1, <2>2, EnterPhase DEF Phases
  <2> QED BY <2>1, <2>3, PapersMove
<1>3. ASSUME NEW s \in Conns, Fail(s) \/ Close(s) \/ GiveUp(s)
      PROVE  PapersInv'
  <2>1. UNCHANGED <<now, by, papers>>
    BY <1>3 DEF Fail, Close, GiveUp, world
  <2>2. PICK p \in {"failed", "closed"} : phase' = [phase EXCEPT ![s] = p]
    BY <1>3 DEF Fail, Close, GiveUp
  <2>3. /\ phase' \in [Conns -> Phases]
        /\ \A q \in Conns : phase'[q] = "reading" => phase[q] = "reading"
    BY <1>1, <2>2 DEF Phases
  <2> QED BY <2>1, <2>3, PapersMove
<1>4. CASE CloseAll
  <2>1. UNCHANGED <<now, by, papers>>
    BY <1>4 DEF CloseAll
  <2>2. /\ phase' \in [Conns -> Phases]
        /\ \A q \in Conns : phase'[q] = "reading" => phase[q] = "reading"
    BY <1>1, <1>4 DEF CloseAll, Phases
  <2> QED BY <2>1, <2>2, PapersMove
<1>5. ASSUME NEW s \in Conns, FallSilent(s) \/ Pong(s)
      PROVE  PapersInv'
  BY <1>5, PapersSame DEF FallSilent, Pong, world
<1>6. ASSUME NEW s \in Conns, NEW said, Answer(s, said)
      PROVE  PapersInv'
  BY <1>6, PapersSame DEF Answer, world
<1>7. ASSUME NEW status, Change(status)
      PROVE  PapersInv'
  BY <1>7, PapersSame DEF Change
<1>8. CASE Land \/ Ask \/ AskTimesOut \/ Drain \/ AnotherSettles
  BY <1>8, PapersSame DEF Land, Ask, AskTimesOut, Drain, AnotherSettles, world
<1>9. CASE UNCHANGED vars
  BY <1>9, PapersSame DEF vars, world
<1> QED BY <1>2, <1>3, <1>4, <1>5, <1>6, <1>7, <1>8, <1>9, PapersMint, PapersElsewhere, PapersHear,
           PapersUpgrade, PapersOpens, PapersKeepAlive, PapersTick
        DEF Next

-----------------------------------------------------------------------------
(* Which Set is the caller's, and whom the keepalive drops *)

Bands ==
    /\ now \in Nat
    /\ pingAt \in Nat
    /\ phase \in [Conns -> Phases]
    /\ band \in [Conns -> Nat]

\* The newest Set; a socket that is not in yet has none.
NewestBand ==
    /\ \A s \in Conns : \E m \in Conns : band[s] <= band[m] /\ \A q \in Conns : band[q] <= band[m]
    /\ \A s \in Conns : phase[s] \in {"away", "reading"} => band[s] = 0

\* The caller has at most one Set, and it was some socket's.
OneBand ==
    /\ \A d, e \in entry : d = e
    /\ \A e \in entry : \E q \in Conns : band[q] = e

\* Once a ping is due, whoever did not answer the last one cannot.
PingIsFair == now >= pingAt => \A s \in Held \ answered : phase[s] = "open" => s \in silent

BandsInv == Bands /\ NewestBand /\ OneBand /\ PingIsFair /\ ~wronged

LEMMA BandsInit == Init => BandsInv
<1> SUFFICES ASSUME Init PROVE BandsInv
  OBVIOUS
<1> USE TimeAssumption DEF Init
<1>1. Bands /\ OneBand /\ ~wronged
  BY DEF Bands, OneBand, Phases
<1>2. NewestBand
  BY DEF NewestBand
<1>3. PingIsFair
  BY DEF PingIsFair, Held
<1> QED BY <1>1, <1>2, <1>3 DEF BandsInv

LEMMA BandsSame ==
    ASSUME BandsInv, UNCHANGED <<now, pingAt, phase, band, entry, followers, members, answered, silent, wronged>>
    PROVE  BandsInv'
BY DEF BandsInv, Bands, NewestBand, OneBand, PingIsFair, Held

\* Nothing enters the maps, and no socket opens.
LEMMA BandsShrink ==
    ASSUME BandsInv, UNCHANGED <<now, pingAt, band, wronged>>,
           entry' \subseteq entry, followers' \subseteq followers, members' \subseteq members,
           answered \subseteq answered', silent \subseteq silent',
           phase' \in [Conns -> Phases],
           \A s \in Conns : phase'[s] # phase[s] => phase'[s] # "open",
           \A s \in Conns : phase'[s] \in {"away", "reading"} => phase[s] \in {"away", "reading"},
           followers \cup members \subseteq Conns
    PROVE  BandsInv'
<1> USE DEF BandsInv
<1>1. Bands' /\ ~wronged'
  BY DEF Bands
<1>2. NewestBand'
  BY DEF NewestBand
<1>3. OneBand'
  BY DEF OneBand
<1>4. Held' \subseteq Held /\ Held \subseteq Conns
  BY DEF Held
<1>5. PingIsFair'
  BY <1>4 DEF PingIsFair
<1> QED BY <1>1, <1>2, <1>3, <1>5

\* attend: a Set of its own is newer than any other, so the socket is the only one in it.
LEMMA BandsAttend ==
    ASSUME BandsInv, NEW s \in Conns, phase[s] \in {"away", "reading"}, Attend(s),
           phase' = [phase EXCEPT ![s] = "open"], members \subseteq Conns, followers \subseteq Conns,
           UNCHANGED <<now, pingAt, followers, silent, wronged>>
    PROVE  BandsInv'
<1> USE DEF BandsInv, Bands
<1>1. PICK own : own = IF entry = {} THEN 1 + Max({band[q] : q \in Conns}) ELSE Max(entry)
  OBVIOUS
<1>2. /\ band' = [band EXCEPT ![s] = own] /\ members' = members \cup {s}
      /\ entry' = {own} /\ answered' = answered \cup {s}
  BY <1>1 DEF Attend
<1>3. PICK m \in Conns : \A q \in Conns : band[q] <= band[m]
  BY DEF NewestBand
<1>4. CASE entry = {}
  <2>1. /\ band[m] \in {band[q] : q \in Conns} /\ {band[q] : q \in Conns} \subseteq Int
        /\ \A x \in {band[q] : q \in Conns} : x <= band[m]
    BY <1>3
  <2>2. Max({band[q] : q \in Conns}) = band[m]
    BY <2>1, MaxOf
  <2>3. own \in Nat /\ own = 1 + band[m]
    BY <1>1, <1>4, <2>2
  <2>4. band' \in [Conns -> Nat] /\ band'[s] = own /\ \A q \in Conns \ {s} : band'[q] = band[q] /\ band[q] < own
    BY <1>2, <1>3, <2>3
  <2>5. Bands'
    BY <2>4 DEF Phases
  <2>6. NewestBand'
    <3>1. \A q \in Conns : band'[q] <= band'[s]
      BY <2>3, <2>4
    <3>2. \A q \in Conns : phase'[q] \in {"away", "reading"} => band'[q] = 0
      BY <2>4 DEF NewestBand
    <3> QED BY <3>1, <3>2 DEF NewestBand
  <2>7. OneBand'
    BY <1>2, <2>4 DEF OneBand
  <2>8. Held' \subseteq followers \cup {s}
    BY <1>2, <2>3, <2>4 DEF Held
  <2>9. PingIsFair'
    BY <1>2, <2>8 DEF PingIsFair, Held
  <2> QED BY <2>5, <2>6, <2>7, <2>9
<1>5. CASE entry # {}
  <2>1. PICK e \in entry : TRUE
    BY <1>5
  <2>2. PICK q \in Conns : band[q] = e
    BY <2>1 DEF OneBand
  <2>3. e \in entry /\ entry \subseteq Int /\ \A x \in entry : x <= e
    BY <2>1, <2>2 DEF OneBand
  <2>4. own = e
    BY <1>1, <1>5, <2>3, MaxOf
  <2>5. band' \in [Conns -> Nat] /\ band'[s] = e /\ \A r \in Conns \ {s} : band'[r] = band[r]
    BY <1>2, <2>2, <2>4
  <2>6. Bands'
    BY <2>5 DEF Phases
  <2>7. NewestBand'
    <3>1. \A r \in Conns : band'[r] <= band'[m]
      <4>1. CASE m = s
        BY <1>3, <2>2, <2>5, <4>1 DEF NewestBand
      <4>2. CASE m # s
        BY <1>3, <2>2, <2>5, <4>2
      <4> QED BY <4>1, <4>2
    <3>2. \A r \in Conns : phase'[r] \in {"away", "reading"} => band'[r] = 0
      BY <2>5 DEF NewestBand
    <3> QED BY <3>1, <3>2 DEF NewestBand
  <2>8. OneBand'
    BY <1>2, <2>4, <2>5 DEF OneBand
  <2>9. Held' \subseteq Held \cup {s}
    BY <1>2, <2>1, <2>4, <2>5 DEF Held
  <2>10. PingIsFair'
    BY <1>2, <2>9 DEF PingIsFair, Held
  <2> QED BY <2>6, <2>7, <2>8, <2>10
<1> QED BY <1>4, <1>5

\* A socket that enters counts as having answered.
LEMMA BandsEnter ==
    ASSUME BandsInv, Maps, NEW s \in Conns, NEW k, NEW d, Enter(s, k, d), phase[s] \in {"away", "reading"},
           UNCHANGED <<now, pingAt, silent, wronged>>
    PROVE  BandsInv'
<1>1. CASE k = "agent"
  BY <1>1, BandsAttend DEF Enter, Maps
<1>2. CASE k # "agent" /\ k = "payment" /\ payment = "none"
  <2>1. phase' = [phase EXCEPT ![s] = "closed"] /\ UNCHANGED people
    BY <1>2 DEF Enter
  <2> QED BY <2>1, BandsShrink DEF people, BandsInv, Bands, Phases, Maps
<1>3. CASE k # "agent" /\ ~(k = "payment" /\ payment = "none")
  <2>1. PICK p \in {"open", "failed"} : phase' = [phase EXCEPT ![s] = p]
    BY <1>3 DEF Enter
  <2>2. /\ followers' = followers \cup {s} /\ answered' = answered \cup {s}
        /\ UNCHANGED <<band, members, entry>>
    BY <1>3 DEF Enter, Registered, Greeted
  <2>3. Held' = Held \cup {s}
    BY <2>2 DEF Held
  <2>4. Bands' /\ NewestBand' /\ OneBand' /\ ~wronged'
    BY <2>1, <2>2 DEF BandsInv, Bands, Phases, NewestBand, OneBand
  <2>5. Held \subseteq Conns
    BY DEF Held, Maps
  <2>6. PingIsFair'
    BY <2>1, <2>2, <2>3, <2>5 DEF PingIsFair, BandsInv, Bands
  <2> QED BY <2>4, <2>6 DEF BandsInv
<1> QED BY <1>1, <1>2, <1>3

LEMMA BandsKeepAlive ==
    ASSUME BandsInv, KeepAlive
    PROVE  BandsInv'
<1> USE TimeAssumption DEF BandsInv, Bands
<1>1. now >= pingAt /\ pingAt' = now + Ping /\ now' = now /\ UNCHANGED <<band, entry>>
  BY DEF KeepAlive
<1>2. ~wronged'
  BY <1>1 DEF KeepAlive, PingIsFair
<1>3. phase' = [s \in Conns |-> IF s \in Held \ answered THEN "failed" ELSE phase[s]]
  BY DEF KeepAlive
<1>4. Bands'
  BY <1>1, <1>3 DEF Phases
<1>5. NewestBand'
  BY <1>1, <1>3 DEF NewestBand
<1>6. OneBand'
  BY <1>1 DEF OneBand
<1>7. PingIsFair'
  BY <1>1 DEF PingIsFair
<1> QED BY <1>2, <1>4, <1>5, <1>6, <1>7

LEMMA BandsTick ==
    ASSUME BandsInv, Tick
    PROVE  BandsInv'
<1>1. /\ \A s \in Held \ answered : phase[s] = "open" => s \in silent
      /\ now' = now + 1
      /\ UNCHANGED <<pingAt, phase, band, entry, followers, members, answered, silent, wronged>>
  BY DEF Tick, people, life
<1>2. Held' = Held
  BY <1>1 DEF Held
<1> QED BY <1>1, <1>2 DEF BandsInv, Bands, NewestBand, OneBand, PingIsFair

LEMMA BandsNext ==
    ASSUME BandsInv, Maps, [Next]_vars
    PROVE  BandsInv'
<1>1. phase \in [Conns -> Phases] /\ followers \cup members \subseteq Conns
  BY DEF Maps
<1>2. ASSUME NEW s \in Conns, NEW t \in Tickets, Upgrade(s, t)
      PROVE  BandsInv'
  <2>1. PICK p \in {"reading", "closed"} : phase' = [phase EXCEPT ![s] = p]
    BY <1>2 DEF Upgrade
  <2>2. phase[s] = "away" /\ UNCHANGED <<now, pingAt, band, wronged, entry, followers, members, answered, silent>>
    BY <1>2 DEF Upgrade, people, world, life
  <2>3. /\ phase' \in [Conns -> Phases] /\ \A q \in Conns : phase'[q] # phase[q] => phase'[q] # "open"
        /\ \A q \in Conns : phase'[q] \in {"away", "reading"} => phase[q] \in {"away", "reading"}
    BY <1>1, <2>1, <2>2 DEF Phases
  <2> QED BY <1>1, <2>2, <2>3, BandsShrink
<1>3. ASSUME NEW s \in Conns, phase[s] \in {"away", "reading"}, NEW k, NEW d,
             Enter(s, k, d) \/ (phase' = [phase EXCEPT ![s] = "closed"] /\ UNCHANGED people),
             UNCHANGED <<now, pingAt, silent, wronged>>
      PROVE  BandsInv'
  <2>1. CASE Enter(s, k, d)
    BY <1>3, <2>1, BandsEnter
  <2>2. CASE phase' = [phase EXCEPT ![s] = "closed"] /\ UNCHANGED people
    <3>1. /\ phase' \in [Conns -> Phases] /\ \A q \in Conns : phase'[q] # phase[q] => phase'[q] # "open"
          /\ \A q \in Conns : phase'[q] \in {"away", "reading"} => phase[q] \in {"away", "reading"}
      BY <1>1, <2>2 DEF Phases
    <3> QED BY <1>1, <1>3, <2>2, <3>1, BandsShrink DEF people
  <2> QED BY <1>3, <2>1, <2>2
<1>4. ASSUME NEW s \in Conns, Opens(s)
      PROVE  BandsInv'
  <2>1. phase[s] = "reading" /\ UNCHANGED <<now, pingAt, silent, wronged>>
    BY <1>4 DEF Opens, world, life
  <2>2. \E t \in by[s] : Enter(s, KindOf[t], DepthOf[t]) \/ (phase' = [phase EXCEPT ![s] = "closed"] /\ UNCHANGED people)
    BY <1>4 DEF Opens
  <2> QED BY <1>3, <2>1, <2>2
<1>5. ASSUME NEW s \in Conns, NEW k, NEW d, OpensBare(s, k, d)
      PROVE  BandsInv'
  <2>1. phase[s] = "away" /\ UNCHANGED <<now, pingAt, silent, wronged>>
    BY <1>5 DEF OpensBare, world, life
  <2>2. Enter(s, k, d) \/ (phase' = [phase EXCEPT ![s] = "closed"] /\ UNCHANGED people)
    BY <1>5 DEF OpensBare
  <2> QED BY <1>3, <2>1, <2>2
<1>6. ASSUME NEW s \in Conns, Fail(s) \/ Close(s) \/ GiveUp(s)
      PROVE  BandsInv'
  <2>1. UNCHANGED <<now, pingAt, band, wronged, silent>>
    BY <1>6 DEF Fail, Close, GiveUp, Left, Lost, people, world, life
  <2>2. /\ entry' \subseteq entry /\ followers' \subseteq followers /\ members' \subseteq members
        /\ answered' = answered
    BY <1>6 DEF Fail, Close, GiveUp, Left, Lost, people
  <2>3. PICK p \in {"failed", "closed"} : phase' = [phase EXCEPT ![s] = p]
    BY <1>6 DEF Fail, Close, GiveUp
  <2>4. /\ phase' \in [Conns -> Phases] /\ \A q \in Conns : phase'[q] # phase[q] => phase'[q] # "open"
        /\ \A q \in Conns : phase'[q] \in {"away", "reading"} => phase[q] \in {"away", "reading"}
    BY <1>1, <2>3 DEF Phases
  <2> QED BY <1>1, <2>1, <2>2, <2>4, BandsShrink
<1>7. CASE CloseAll
  <2>1. UNCHANGED <<now, pingAt, band, wronged, silent, entry, followers, members, answered>>
    BY <1>7 DEF CloseAll, people
  <2>2. /\ phase' \in [Conns -> Phases] /\ \A q \in Conns : phase'[q] # phase[q] => phase'[q] # "open"
        /\ \A q \in Conns : phase'[q] \in {"away", "reading"} => phase[q] \in {"away", "reading"}
    BY <1>1, <1>7 DEF CloseAll, Phases
  <2> QED BY <1>1, <2>1, <2>2, BandsShrink
<1>8. ASSUME NEW s \in Conns, FallSilent(s) \/ Pong(s)
      PROVE  BandsInv'
  <2>1. /\ UNCHANGED <<now, pingAt, band, wronged, entry, followers, members, phase>>
        /\ answered \subseteq answered' /\ silent \subseteq silent'
    BY <1>8 DEF FallSilent, Pong, people, world, life
  <2> QED BY <1>1, <2>1, BandsShrink
<1>9. ASSUME NEW s \in Conns, NEW said, Answer(s, said)
      PROVE  BandsInv'
  BY <1>9, BandsSame DEF Answer, people, world, life
<1>10. ASSUME NEW status, Change(status)
       PROVE  BandsInv'
  BY <1>10, BandsSame DEF Change, people, life
<1>11. ASSUME NEW t \in Tickets, MintTicket(t) \/ UsedElsewhere(t)
       PROVE  BandsInv'
  BY <1>11, BandsSame DEF MintTicket, UsedElsewhere, people, world, life
<1>12. ASSUME NEW m \in notes, HearSpent(m)
       PROVE  BandsInv'
  BY <1>12, BandsSame DEF HearSpent, people, world, life
<1>13. CASE Land \/ Ask \/ AskTimesOut \/ Drain \/ AnotherSettles
  BY <1>13, BandsSame DEF Land, Ask, AskTimesOut, Drain, AnotherSettles, people, world, life
<1>14. CASE UNCHANGED vars
  BY <1>14, BandsSame DEF vars, people, world, life
<1> QED BY <1>2, <1>4, <1>5, <1>6, <1>7, <1>8, <1>9, <1>10, <1>11, <1>12, <1>13, <1>14,
           BandsKeepAlive, BandsTick
        DEF Next

-----------------------------------------------------------------------------
(* What was heard *)

Answers == [s : Conns, said : Saids]
Asked == [held : SUBSET Conns, heard : SUBSET Answers, until : Nat, able : BOOLEAN]

\* An honest device that was asked once the money was there said the preimage.
HonestSaidIt ==
    \A a \in ask : a.able => \A x \in a.heard : x.s \in Honest => x.said = "proof"

AskInv ==
    /\ now \in Nat /\ landed \in BOOLEAN /\ members \subseteq Conns
    /\ ask \subseteq Asked
    /\ HonestSaidIt
    /\ HonestIsHeard

LEMMA AskInit == Init => AskInv
<1>1. Init => landed \in BOOLEAN
  BY Zenon DEF Init
<1>2. Init => now \in Nat /\ members \subseteq Conns /\ ask = {} /\ verdict = {}
  BY DEF Init
<1> QED BY <1>1, <1>2 DEF AskInv, HonestSaidIt, HonestIsHeard

\* An ask that all have answered leaves out nobody who could have settled it.
LEMMA EndedIsHeard ==
    ASSUME NEW b \in Asked, Ended(b), Done(b) \/ now >= b.until, now \in Nat,
           b.able => \A x \in b.heard : x.s \in Honest => x.said = "proof"
    PROVE  HonestIsHeard'
<1>1. PICK v : /\ v = [paid |-> \E x \in b.heard : x.said = "proof",
                       could |-> IF b.able /\ now < b.until
                                 THEN {s \in b.held \cap Honest : phase[s] = "open" /\ s \notin silent}
                                 ELSE {}]
               /\ verdict' = {v}
  BY Zenon DEF Ended
<1>2. b.until \in Nat
  BY DEF Asked
<1>3. ASSUME ~v.paid, NEW s \in v.could
      PROVE  FALSE
  <2>1. b.able /\ now < b.until /\ s \in b.held /\ s \in Honest
    <3>1. v.could = IF b.able /\ now < b.until
                    THEN {q \in b.held \cap Honest : phase[q] = "open" /\ q \notin silent}
                    ELSE {}
      BY <1>1, Zenon
    <3> QED BY <1>3, <3>1
  <2>2. ~(\E x \in b.heard : x.said = "proof")
    BY <1>1, <1>3, Zenon
  <2>3. b.held = {x.s : x \in b.heard}
    BY <1>2, <2>1, <2>2 DEF Done
  <2>4. PICK x \in b.heard : x.s = s
    BY <2>1, <2>3
  <2> QED BY <2>1, <2>2, <2>4
<1> QED BY <1>1, <1>3 DEF HonestIsHeard

LEMMA AskNext ==
    ASSUME AskInv, Maps, Maps', [Next]_vars
    PROVE  AskInv'
<1> USE TimeAssumption DEF AskInv
<1>1. members' \subseteq Conns
  BY DEF Maps
<1>2. CASE Ask
  <2>1. PICK u \in Nat : u = now + AnswerTime
    OBVIOUS
  <2>2. PICK a : a = [held |-> Devices, heard |-> {}, until |-> u, able |-> landed]
    OBVIOUS
  <2>3. ask' = {a} /\ UNCHANGED <<now, landed, verdict>>
    BY <1>2, <2>1, <2>2 DEF Ask, world, story
  <2>4. Devices \subseteq Conns
    BY DEF Devices
  <2>5. a \in Asked /\ a.heard = {}
    BY <2>2, <2>4 DEF Asked
  <2> QED BY <1>1, <2>3, <2>5 DEF HonestSaidIt, HonestIsHeard
<1>3. ASSUME NEW s \in Conns, NEW said \in Saids, Answer(s, said)
      PROVE  AskInv'
  <2>1. UNCHANGED <<now, landed>>
    BY <1>3 DEF Answer, world, story
  <2>2. PICK x : x = [s |-> s, said |-> said]
    OBVIOUS
  <2>3. x \in Answers /\ x.s = s /\ x.said = said
    BY <2>2 DEF Answers
  <2>4. PICK a \in ask :
            /\ s \in Honest /\ a.able => said = "proof"
            /\ LET b == [a EXCEPT !.heard = @ \cup {[s |-> s, said |-> said]}]
               IN  IF Done(b) THEN Ended(b) ELSE ask' = {b} /\ UNCHANGED verdict
    BY <1>3 DEF Answer
  <2>5. a \in Asked
    OBVIOUS
  <2>6. PICK b : b = [a EXCEPT !.heard = @ \cup {[s |-> s, said |-> said]}]
    OBVIOUS
  <2>7. b \in Asked /\ b.heard = a.heard \cup {x} /\ b.able = a.able
    BY <2>2, <2>3, <2>5, <2>6 DEF Asked
  <2>8. b.able => \A y \in b.heard : y.s \in Honest => y.said = "proof"
    BY <2>3, <2>4, <2>7 DEF HonestSaidIt
  <2>9. IF Done(b) THEN Ended(b) ELSE ask' = {b} /\ UNCHANGED verdict
    BY <2>4, <2>6
  <2>10. CASE Done(b)
    <3>1. ask' = {} /\ Ended(b)
      BY <2>9, <2>10 DEF Ended
    <3>2. HonestIsHeard'
      BY <2>7, <2>8, <2>10, <3>1, EndedIsHeard
    <3> QED BY <1>1, <2>1, <3>1, <3>2 DEF HonestSaidIt
  <2>11. CASE ~Done(b)
    BY <1>1, <2>1, <2>7, <2>8, <2>9, <2>11 DEF HonestSaidIt, HonestIsHeard
  <2> QED BY <2>10, <2>11
<1>4. CASE AskTimesOut
  <2>1. PICK a \in ask : now >= a.until /\ Ended(a)
    BY <1>4 DEF AskTimesOut
  <2>2. UNCHANGED <<now, landed>> /\ ask' = {}
    BY <1>4, <2>1 DEF AskTimesOut, Ended, world, story
  <2>3. a \in Asked /\ (a.able => \A x \in a.heard : x.s \in Honest => x.said = "proof")
    BY DEF HonestSaidIt
  <2>4. HonestIsHeard'
    BY <2>1, <2>3, EndedIsHeard
  <2> QED BY <1>1, <2>2, <2>4 DEF HonestSaidIt
<1>5. CASE UNCHANGED <<ask, verdict>> /\ now' \in Nat /\ landed' \in BOOLEAN
  BY <1>1, <1>5 DEF HonestSaidIt, HonestIsHeard
<1>6. CASE Land
  BY <1>5, <1>6 DEF Land, asking
<1>7. CASE Tick
  BY <1>5, <1>7 DEF Tick, asking, story
<1>8. ASSUME UNCHANGED <<ask, verdict, now, landed>>
      PROVE  AskInv'
  BY <1>5, <1>8
<1>9. ASSUME NEW t \in Tickets, MintTicket(t) \/ UsedElsewhere(t)
      PROVE  AskInv'
  BY <1>8, <1>9 DEF MintTicket, UsedElsewhere, asking, world, story
<1>10. ASSUME NEW m \in notes, HearSpent(m)
       PROVE  AskInv'
  BY <1>8, <1>10 DEF HearSpent, asking, world, story
<1>11. ASSUME NEW s \in Conns, NEW t \in Tickets, Upgrade(s, t)
       PROVE  AskInv'
  BY <1>8, <1>11 DEF Upgrade, asking, world, story
<1>12. ASSUME NEW s \in Conns, NEW k, NEW d, OpensBare(s, k, d)
       PROVE  AskInv'
  BY <1>8, <1>12 DEF OpensBare, asking, world, story
<1>13. ASSUME NEW s \in Conns, Opens(s) \/ FallSilent(s) \/ Fail(s) \/ Close(s) \/ GiveUp(s) \/ Pong(s)
       PROVE  AskInv'
  BY <1>8, <1>13 DEF Opens, FallSilent, Fail, Close, GiveUp, Pong, asking, world, story
<1>14. CASE Drain \/ CloseAll \/ KeepAlive \/ AnotherSettles
  BY <1>8, <1>14 DEF Drain, CloseAll, KeepAlive, AnotherSettles, asking, story
<1>15. ASSUME NEW status, Change(status)
       PROVE  AskInv'
  BY <1>8, <1>15 DEF Change, asking
<1>16. CASE UNCHANGED vars
  BY <1>8, <1>16 DEF vars, asking, world, story
<1> QED BY <1>2, <1>3, <1>4, <1>6, <1>7, <1>9, <1>10, <1>11, <1>12, <1>13, <1>14, <1>15, <1>16
        DEF Next, Saids

-----------------------------------------------------------------------------
(* The theorems *)

SocketsInv == MapsInv /\ PapersInv /\ BandsInv /\ AskInv

\* The four parts together are inductive: each rests on the sockets' phases, and the
\* last two on who is in the maps.
THEOREM SocketsInvariant == Spec => []SocketsInv
<1>1. Init => SocketsInv
  BY MapsInit, PapersInit, BandsInit, AskInit DEF SocketsInv
<1>2. SocketsInv /\ [Next]_vars => SocketsInv'
  <2> SUFFICES ASSUME SocketsInv, [Next]_vars PROVE SocketsInv'
    OBVIOUS
  <2>1. MapsInv'
    BY MapsNext DEF SocketsInv, PapersInv, Papers
  <2>2. Maps /\ Maps'
    BY <2>1 DEF MapsInv, SocketsInv
  <2>3. PapersInv' /\ BandsInv' /\ AskInv'
    BY <2>2, PapersNext, BandsNext, AskNext DEF SocketsInv
  <2> QED BY <2>1, <2>3 DEF SocketsInv
<1> QED BY <1>1, <1>2, PTL DEF Spec

\* Nobody lingers: whatever sockets come, fail, close or are dropped, in whatever
\* order, neither map keeps one that is closed (keepFresh, leave).
THEOREM NobodyEverLingers == Spec => []NobodyLingers
<1>1. SocketsInv => NobodyLingers
  BY DEF SocketsInv, MapsInv
<1> QED BY <1>1, SocketsInvariant, PTL

\* An open follower of a payment that was paid has been told, whenever it came, and so
\* has an open subscriber, unless it came after the settlement and wanted fewer
\* replayed than there are before it (follow, subscribe, publish).
THEOREM FollowersAlwaysKnow == Spec => []FollowersKnow
<1>1. SocketsInv => FollowersKnow
  BY DEF SocketsInv, MapsInv
<1> QED BY <1>1, SocketsInvariant, PTL

\* A ticket opens at most one socket after it is known to be spent, here or at a
\* peer, for as long as its reading ends before it does: what is forgotten then is
\* the memory of a ticket that is over (firstUse, onSpent, keepalive).
THEOREM ATicketOpensOnce == Spec => []TicketOpensOnce
<1>1. SocketsInv => TicketOpensOnce
  BY DEF SocketsInv, PapersInv
<1> QED BY <1>1, SocketsInvariant, PTL

\* The keepalive terminates no open socket that could have answered its ping.
THEOREM OnlyTheSilentAreEverDropped == Spec => []OnlyTheSilentAreDropped
<1>1. SocketsInv => OnlyTheSilentAreDropped
  BY DEF SocketsInv, BandsInv, OnlyTheSilentAreDropped
<1> QED BY <1>1, SocketsInvariant, PTL

\* An ask that ends without the preimage left out no honest open device that was
\* asked once the money was there (askAnAgent).
THEOREM TheHonestIsHeard == Spec => []HonestIsHeard
<1>1. SocketsInv => HonestIsHeard
  BY DEF SocketsInv, AskInv
<1> QED BY <1>1, SocketsInvariant, PTL

=============================================================================
