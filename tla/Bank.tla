--------------------------------- MODULE Bank ---------------------------------
(***************************************************************************)
(* The bank rail of the SDK: the verify endpoint and the agent that answer *)
(* off the account's statement (sdk/src/bank.ts bankVerifyEndpoint,        *)
(* bankAgent, creditedPreimage, pays) and the statement itself, read over  *)
(* Fio's API with several tokens (sdk/src/fio.ts fioStatement).            *)
(*                                                                         *)
(* Times are what is left of a wait: no state keeps an absolute time.  An  *)
(* order is asked about by one poll at a time, as the gateway's lease has  *)
(* it; polls of different orders overlap.  A poll that is not sealed for   *)
(* this account is turned away before the statement (400, 403).            *)
(***************************************************************************)
EXTENDS Integers, Sequences, FiniteSets

CONSTANTS
    Orders,    \* what may be asked for: [amount, word]; a reference is a word of one of two
               \* shapes, [numbered, is]: with a digit in it or without
    Credits,   \* what may be booked: [amount, words]
    Tokens,    \* the account's tokens, a sequence without repetition
    Window     \* minIntervalSecs: how long one token rests, a multiple of their number

VARIABLES
    account,   \* what the bank has booked, what was paid out too
    watched,   \* the orders whose transfer was asked for
    turn,      \* the tokens, the longest unused first (usedAt)
    rests,     \* rests[k]: how long token k still may not be asked
    gap,       \* how long no read is made at all (lastRead, paceMs)
    credits,   \* the answer that was kept
    reads,     \* reads[o]: the poll of o that reads the statement, at most one
    settled,   \* the orders whose poll was answered with the preimage
    tooSoon    \* history: a token was asked inside its window

vars == <<account, watched, turn, rests, gap, credits, reads, settled, tooSoon>>
paced == <<turn, rests, gap, tooSoon>>

Pace == Window \div Len(Tokens)
Names == {Tokens[i] : i \in DOMAIN Tokens}

-----------------------------------------------------------------------------
(* Which credit pays which order *)

\* wordsShapedLike
Alike(c, o) == {w \in c.words : w.numbered = o.word.numbered}

\* Mutant of NamesOnly: a reference is found among others.
NamesOnlyAmong(c, o) == o.word \in Alike(c, o)

\* namesOnly: a numbered reference must be the only word of its shape.
NamesOnly(c, o) == o.word \in Alike(c, o) /\ (o.word.numbered => Alike(c, o) = {o.word})

\* pays.  The currency goes with the amount.
PaidBy(c, o) == c.amount = o.amount /\ NamesOnly(c, o)

\* creditedPreimage: the preimage is derived when a credit pays.
Answered(o, landed) ==
    settled' = IF \E c \in landed : PaidBy(c, o) THEN settled \cup {o} ELSE settled

-----------------------------------------------------------------------------
(* What is asked for *)

\* refuseUnusable: a transfer without an amount or a reference is not asked for.
Usable(o) == o.amount > 0 /\ o.word.is # ""

\* bankTransfer: the hash of what the secret makes of the order goes under watch,
\* polled at the endpoint or asked of the agent; asked for again it is the same hash.
Transfer(o) ==
    /\ Usable(o) /\ o \notin watched
    /\ watched' = watched \cup {o}
    /\ UNCHANGED <<account, paced, credits, reads, settled>>

-----------------------------------------------------------------------------
(* The statement *)

\* isCredit, asCredit: the sign of the amount says which way it went.
CreditsOf(booked) == {c \in booked : c.amount > 0}

Land(c) ==
    /\ c \notin account
    /\ account' = account \cup {c}
    /\ UNCHANGED <<watched, paced, credits, reads, settled>>

\* Mutant of Spent: a token's time is taken when its answer comes.
SpentUnmarked(k) == UNCHANGED <<turn, rests>>

\* usedAt.set(token, now), before the request: a read that fails has spent it too.
Spent(k) ==
    /\ turn' = Append(Tail(turn), k)
    /\ rests' = [rests EXCEPT ![k] = Window]

\* A poll of o inside the gap, or with every token resting, gets the kept answer.
PollKept(o) ==
    /\ o \in watched \ settled /\ reads[o] = {}
    /\ gap > 0 \/ rests[Head(turn)] > 0
    /\ Answered(o, credits)
    /\ UNCHANGED <<account, watched, paced, credits, reads>>

\* Otherwise it asks with the token that was idle longest (longestUnused).  asked
\* is the history of the tokens' windows, kept by the bank.
PollReads(o, asked) ==
    /\ o \in watched \ settled /\ reads[o] = {}
    /\ gap = 0 /\ rests[Head(turn)] = 0
    /\ Spent(Head(turn))
    /\ gap' = Pace
    /\ reads' = [reads EXCEPT ![o] = {[served |-> FALSE, saw |-> {}]}]
    /\ tooSoon' = (tooSoon \/ asked[Head(turn)] > 0)
    /\ UNCHANGED <<account, watched, credits, settled>>

\* The bank makes up its answer.
Serve(o) ==
    /\ \E r \in reads[o] : ~r.served
    /\ reads' = [reads EXCEPT ![o] = {[served |-> TRUE, saw |-> account]}]
    /\ UNCHANGED <<account, watched, paced, credits, settled>>

\* The answer arrives: it is kept, although one asked for later may be kept already.
ReadEnds(o) ==
    /\ \E r \in reads[o] :
          /\ r.served
          /\ credits' = CreditsOf(r.saw)
          /\ Answered(o, CreditsOf(r.saw))
    /\ reads' = [reads EXCEPT ![o] = {}]
    /\ UNCHANGED <<account, watched, paced>>

\* Too soon, refused, unreachable or another account's token: the poll fails, and
\* what was kept stays.
ReadFails(o) ==
    /\ reads[o] # {}
    /\ reads' = [reads EXCEPT ![o] = {}]
    /\ UNCHANGED <<account, watched, paced, credits, settled>>

Less(n) == IF n = 0 THEN 0 ELSE n - 1

Elapse ==
    /\ rests' = [k \in Names |-> Less(rests[k])]
    /\ gap' = Less(gap)
    /\ UNCHANGED <<account, watched, turn, credits, reads, settled, tooSoon>>

Init ==
    /\ account = {c \in Credits : c.amount <= 0} /\ watched = {} /\ credits = {} /\ settled = {}
    /\ turn = Tokens
    /\ rests = [k \in Names |-> 0]
    /\ gap = 0
    /\ reads = [o \in Orders |-> {}]
    /\ tooSoon = FALSE

-----------------------------------------------------------------------------
(* Properties *)

\* No token is asked twice inside its window, whatever became of the first read
\* (usedAt, lastRead, longestUnused of fioStatement).
NoTokenTooSoon == ~tooSoon

\* One credit pays for one order, if orders go by numbered references: as many are
\* answered for as credits landed, although one transfer may name several (pays,
\* namesOnly).
OneCreditOneOrder ==
    Cardinality({o \in settled : o.word.numbered}) <= Cardinality(CreditsOf(account))

=============================================================================
