-------------------------------- MODULE Minting --------------------------------
(***************************************************************************)
(* How a shop comes by an invoice (sdk/src/client.ts, verify.ts,           *)
(* trigger.ts, rail.ts): through a gateway, whose answer is proved with    *)
(* the recipient before anybody sees it; or from the recipient itself, so  *)
(* that the gateway is handed a hash to watch; for an order of the shop's  *)
(* own, or for a payer's wallet that was made an LNURL-pay offer.          *)
(*                                                                         *)
(* The gateway is not trusted: it may answer with any invoice it has seen, *)
(* or with one it forged, and say whatever it likes about it.  The wallets *)
(* are: each tells what it issued and what was paid.                       *)
(***************************************************************************)
EXTENDS Integers, FiniteSets

CONSTANTS
    Orders,     \* [paidTo, amount, key]: whom the shop asks for how much, under which key
    Addresses,  \* the Lightning addresses there are
    OriginOf,   \* at whose wallet each of them is: the origin of its callback
    Forger, Foreign,    \* who issues what the gateway forges, and an origin of the gateway's own
    Amounts,
    Offers,     \* what a trigger may offer: [paidTo, least, most]
    NoKey,      \* an order without an idempotency key
    Skew,       \* ISSUED_SKEW_SECS
    Life,       \* how long an invoice may be paid
    Stated,     \* until when a gateway may say it can be: the expires_at of its answer
    MaxTime, MaxInvoices, MaxMints   \* bounds

VARIABLES
    now,
    invoices,   \* what the wallets issued: [n, by, commits, amount, at], n its payment hash,
                \* and whose metadata it commits to
    paid,       \* the hashes that were paid
    known,      \* the hashes whose invoice the gateway has seen
    offered,    \* the offers that were signed: [address, least, most, nonce]
    mints,      \* the mints under way: [id, order, askedAt, paidThen, stage, said]
    handedOut,  \* [hash, key, until]
    given,      \* what was handed to a payer: [id, order, invoice, askedAt, at, until, here, wasPaid],
                \* whether it was minted here, and whether it was paid when it was asked for
    minted      \* how many mints were begun

mintVars == <<now, invoices, paid, known, offered, mints, handedOut, given, minted>>

Until(i) == i.at + Life

Fresh(address, amount) ==
    [n |-> Cardinality(invoices) + 1, by |-> address, commits |-> address, amount |-> amount, at |-> now]

-----------------------------------------------------------------------------
(* The recipients, and time *)

Issue(address, amount) ==
    /\ Cardinality(invoices) < MaxInvoices
    /\ invoices' = invoices \cup {Fresh(address, amount)}
    /\ known' = known \cup {Fresh(address, amount).n}
    /\ UNCHANGED <<now, paid, offered, mints, handedOut, given, minted>>

\* By somebody who has seen it.
Pay(i) ==
    /\ i.n \in known \/ \E g \in given : g.invoice = i
    /\ i.n \notin paid /\ now < Until(i)
    /\ paid' = paid \cup {i.n}
    /\ UNCHANGED <<now, invoices, known, offered, mints, handedOut, given, minted>>

\* A payer lets the gateway see what it was given.
Show(g) ==
    /\ g.invoice.n \notin known
    /\ known' = known \cup {g.invoice.n}
    /\ UNCHANGED <<now, invoices, paid, offered, mints, handedOut, given, minted>>

Tick ==
    /\ now < MaxTime
    /\ now' = now + 1
    /\ UNCHANGED <<invoices, paid, known, offered, mints, handedOut, given, minted>>

-----------------------------------------------------------------------------
(* mint *)

Begun(o, stage, said) ==
    /\ minted < MaxMints
    /\ minted' = minted + 1
    /\ mints' = mints \cup {[id |-> minted, order |-> o, askedAt |-> now, paidThen |-> paid,
                             stage |-> stage, said |-> said]}

Mint(o) ==
    /\ Begun(o, "asked", {})
    /\ UNCHANGED <<now, invoices, paid, known, offered, handedOut, given>>

\* A refusal, a cheat found out or a recipient that cannot be reached: the order gets
\* nothing, and nothing is kept of it.
Thrown(m) ==
    /\ m \in mints
    /\ mints' = mints \ {m}
    /\ UNCHANGED <<now, invoices, paid, known, offered, handedOut, given, minted>>

\* Of its own making: with the hash of any invoice there is, or with another, and
\* committed to anybody's metadata, which is public.
Forged == [n : 0..Cardinality(invoices), by : {Forger}, commits : Addresses, amount : Amounts, at : {now}]

Presented == {i \in invoices : i.n \in known} \cup Forged

\* The invoices a verify URL may be about, and the origins it may be on.
VerifyUrls == ({OriginOf[a] : a \in Addresses} \cup {Foreign}) \X (0..Cardinality(invoices))

\* proveOrigin, as far as it asks nobody.
Agrees(m, i, lnAddress) ==
    /\ lnAddress \in m.order.paidTo
    /\ i.amount = m.order.amount
    /\ i.at >= m.askedAt - Skew

\* A gateway's answer: an invoice, whose it is said to be, and where to verify that.  One
\* that does not agree, with the order or with itself (its own paymentHash and
\* amountMsat), is Thrown like any other.
Answer(m, i, lnAddress, verify) ==
    /\ m \in mints /\ m.stage = "asked"
    /\ Agrees(m, i, lnAddress)
    /\ mints' = (mints \ {m}) \cup
                   {[m EXCEPT !.stage = "payRequest",
                              !.said = {[invoice |-> i, lnAddress |-> lnAddress, verify |-> verify]}]}
    /\ UNCHANGED <<now, invoices, paid, known, offered, handedOut, given, minted>>

\* The recipient's own payRequest: the invoice commits to its metadata, and the verify
\* URL is on its callback's origin.
Bound(m) == \A s \in m.said : s.invoice.commits = s.lnAddress /\ s.verify[1] = OriginOf[s.lnAddress]

PayRequest(m) ==
    /\ m \in mints /\ m.stage = "payRequest"
    /\ Bound(m)
    /\ mints' = (mints \ {m}) \cup {[m EXCEPT !.stage = "verify"]}
    /\ UNCHANGED <<now, invoices, paid, known, offered, handedOut, given, minted>>

\* What is asked there echoes the invoice: a wallet if it issued that very one, an origin
\* of the gateway's own whatever it is shown.
Echoes(verify, i) ==
    \/ verify[1] = Foreign
    \/ i \in invoices /\ OriginOf[i.by] = verify[1] /\ i.n = verify[2]

\* What the recipient answers is older than what is made of it (HandOut).
Verify(m) ==
    /\ m \in mints /\ m.stage = "verify"
    /\ \A s \in m.said : Echoes(s.verify, s.invoice) /\ s.invoice.n \notin paid
    /\ mints' = (mints \ {m}) \cup {[m EXCEPT !.stage = "proved"]}
    /\ UNCHANGED <<now, invoices, paid, known, offered, handedOut, given, minted>>

\* Mutant of HandedBefore: an order without a key is taken for a retry of another.
HandedBeforeByKey(i, key) ==
    \E h \in handedOut : h.hash = i.n /\ h.until > now /\ h.key # key

\* handOut: it went to another order, or to one that cannot be told from another.
HandedBefore(i, key) ==
    \E h \in handedOut : h.hash = i.n /\ h.until > now /\ (h.key = NoKey \/ h.key # key)

Give(m, i, until, here) ==
    /\ mints' = mints \ {m}
    /\ given' = given \cup {[id |-> m.id, order |-> m.order, invoice |-> i, askedAt |-> m.askedAt, at |-> now,
                             until |-> until, here |-> here, wasPaid |-> i.n \in m.paidThen]}

\* An entry is kept until the gateway said that the invoice can be paid, which is read
\* nowhere else and held against nothing; an older one is dropped, and the entry of a
\* retry written anew.
HandOut(m) ==
    /\ m \in mints /\ m.stage = "proved"
    /\ \E s \in m.said, until \in Stated :
          /\ ~HandedBefore(s.invoice, m.order.key)
          /\ handedOut' = {h \in handedOut : h.until > now /\ h.hash # s.invoice.n}
                             \cup {[hash |-> s.invoice.n, key |-> m.order.key, until |-> until]}
          /\ Give(m, s.invoice, until, FALSE)
    /\ UNCHANGED <<now, invoices, paid, known, offered, minted>>

-----------------------------------------------------------------------------
(* Minted here *)

\* resolve (Walk) asks the recipients themselves; of what they issue the gateway is
\* handed the hash alone.
Resolve(o, address) ==
    /\ address \in o.paidTo \cap Addresses
    /\ Cardinality(invoices) < MaxInvoices
    /\ invoices' = invoices \cup {Fresh(address, o.amount)}
    /\ Begun(o, "watching", {[invoice |-> Fresh(address, o.amount)]})
    /\ UNCHANGED <<now, paid, known, offered, handedOut, given>>

\* watch: the gateway answers with the name and the hash it was handed, or, for a
\* trigger, says that it watches it already; anything else is Thrown.
Watched(m) ==
    /\ m \in mints /\ m.stage = "watching"
    /\ \E s \in m.said : Give(m, s.invoice, Until(s.invoice), TRUE)
    /\ UNCHANGED <<now, invoices, paid, known, offered, handedOut, minted>>

-----------------------------------------------------------------------------
(* An LNURL-pay endpoint: offer and mint of sdk/src/trigger.ts *)

\* quote: the gateway names the address that would serve, one that was asked for.
Quoted(o, address) == address \in o.paidTo

\* The address that was quoted is signed into the callback with the range and a nonce.
Offer(o, address) ==
    /\ Quoted(o, address)
    /\ Cardinality(offered) < 1
    /\ offered' = offered \cup {[address |-> address, least |-> o.least, most |-> o.most,
                                 nonce |-> <<Cardinality(offered)>>]}
    /\ UNCHANGED <<now, invoices, paid, known, mints, handedOut, given, minted>>

\* What the payer's wallet calls: an offer as it was signed, with an amount of its own
\* choice.  Called again it mints again, under the same key.
OrderOf(f, amount) == [paidTo |-> {f.address}, amount |-> amount, key |-> f.nonce]

Callback(f, amount) ==
    /\ f \in offered
    /\ amount \in f.least..f.most
    /\ \/ Mint(OrderOf(f, amount))
       \/ Resolve(OrderOf(f, amount), f.address)

MintInit ==
    /\ now = 0 /\ minted = 0
    /\ invoices = {} /\ paid = {} /\ known = {}
    /\ offered = {} /\ mints = {} /\ handedOut = {} /\ given = {}

MintNext ==
    \/ \E a \in Addresses, v \in Amounts : Issue(a, v)
    \/ \E i \in invoices : Pay(i)
    \/ \E g \in given : Show(g)
    \/ Tick
    \/ \E o \in Orders : Mint(o) \/ \E a \in Addresses : Resolve(o, a)
    \/ \E m \in mints :
          \/ \E i \in Presented, a \in Addresses :
                Agrees(m, i, a) /\ \E verify \in VerifyUrls : Answer(m, i, a, verify)
          \/ PayRequest(m) \/ Verify(m) \/ HandOut(m) \/ Watched(m) \/ Thrown(m)
    \/ \E o \in Offers, a \in Addresses : Offer(o, a)
    \/ \E f \in offered, v \in Amounts : Callback(f, v)

-----------------------------------------------------------------------------
(* Properties *)

Earlier(g, h) == IF h.at < g.at THEN h.at ELSE g.at
Later(g, h) == IF h.at > g.at THEN h.at ELSE g.at

\* Between the two the gateway said of a hand-out of the invoice that it could no longer
\* be paid, which makes the client forget it.
Forgotten(g, h) ==
    \E p \in given :
       /\ p.invoice.n = g.invoice.n /\ ~p.here
       /\ Earlier(g, h) <= p.at /\ p.until <= Later(g, h)

\* What the client minted here it does not remember, and the gateway came to see it.
MintedHere(g, h) == g.here # h.here /\ g.invoice.n \in known

\* Whatever a gateway answers to however many mints at once, an invoice that reaches a
\* payer is a recipient's own and for this order: issued by an address on its list, for
\* its amount, about when it was asked for, and not paid by then; and two orders are
\* handed the same one only under one key, once the gateway's own word had it expire in
\* between, or if one of them was minted without it (proveOrigin, handOut,
\* mintThroughGateway, mintHere).
EachOrderItsOwnInvoice ==
    \A g \in given :
       /\ g.invoice \in invoices /\ g.invoice.by \in g.order.paidTo
       /\ g.invoice.amount = g.order.amount
       /\ g.invoice.at >= g.askedAt - Skew /\ ~g.wasPaid
       /\ \A h \in given :
             h.invoice.n = g.invoice.n /\ h # g =>
                \/ h.order.key = g.order.key /\ h.order.key # NoKey
                \/ Forgotten(g, h)
                \/ MintedHere(g, h)

\* A disagreement: docs/proving-a-payment.md:264 has the client remember "hashes for as
\* long as their invoices are payable and no longer".  It remembers them for as long as
\* the gateway says they are, and those minted here not at all, so that an invoice that
\* can still be paid is handed to two orders, and this does not hold.
RememberedWhilePayable ==
    \A g, h \in given :
       h.invoice.n = g.invoice.n /\ h # g /\ Later(g, h) < Until(g.invoice) =>
          h.order.key = g.order.key /\ h.order.key # NoKey

=============================================================================
