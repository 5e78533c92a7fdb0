# A TLA+ development of Thunder Bridge

Thunder Bridge watches Lightning payments for others. A client names an address or
a verify URL, the gateway polls it until the money is there, and then it tells a
socket or a webhook. Several instances form a cluster without a leader and without
a shared database: each has a SQLite ledger of signed facts, and gossip makes the
ledgers agree. What is hard in it is not the arithmetic but the order of things:
facts that arrive late or twice, instances that die between two statements, a
sweep that deletes while others still send, handlers that read before an await and
write after it, sockets that fail before they close, and a poll order that nobody
coordinates. The SDK beside it has the same nature: waits over sockets that drop,
deliveries that come twice, a bank that may be asked twice a minute, and answers
from gateways and wallets that are not trusted.

The modules below are translated from the source. `PROJECT.json` maps every
definition to the lines it stands for.

## Inventory

| component | state it keeps | operations | where |
| --- | --- | --- | --- |
| Fact replication | the tables `accepted`, `paid`, `outbox`, `delivered`, the marks in `progress`, the peers | write, push, `have`, `since`, `absorb`, `cover`, `advance`, sweep | `src/ledger.ts`, `src/gossip.ts`, `src/cluster.ts` |
| Webhook delivery | outbox rows with due time, attempts and parking, tombstones | settle, owe, lease, post, back off, park, take over, sweep | `src/ledger.ts`, `src/watch.ts` |
| Payment intake | idempotency keys, the pending set, handlers at an await | `create`, `mint`, `watchOnly`, claim, fulfil, release, replay | `src/index.ts`, `src/ledger.ts` |
| Poll turns | `schedule.dueAt` at every instance, `polled` and `missed` notes | poll, answer, miss, stand aside, put off, adopt, come forward | `src/watch.ts`, `src/store.ts` |
| Ticker, health, drain | the timer, the tick in flight, `draining`, when the last tick began | `armTicker`, `runTick`, `stop`, `leave`, `vitals`, readiness | `src/index.ts` |
| Pacing | a slot, a pace and a ceiling per host | `spend`, `turnOf` | `src/watch.ts` |
| Sockets and tickets | followers, tickets spent here and elsewhere | upgrade, `follow`, `subscribe`, `publish`, `firstUse`, `keepalive` | `src/index.ts`, `core/ticket.ts` |
| Agents | sockets per caller, asks in flight | `attend`, `keepAlive`, `askAnAgent` | `src/agents.ts` |
| Sealed records | the table `kept` | sweep, `kept` | `src/ledger.ts` |
| Key rotation and schema | the schema version, every signature | migrate, sign again | `src/ledger.ts`, `tools/` |
| Wallet walk | the refusals so far, one deadline | `resolve`, `quote`, `checkSettled` | `core/lnurl.ts` |
| Outbound requests | the hop and what it still carries | lookup, check, pinned connect, redirect | `core/outbound.ts`, `core/pinned.ts`, `core/url.ts` |
| Codecs and cryptography | none | BOLT 11, signatures, sealing | `core/` |
| SDK client and gateways | legs with socket, attempts, timers; what was heard | `followed`, `settled`, `firstSettled`, `follow`, `attend` | `sdk/src/client.ts`, `sdk/src/gateways.ts`, `sdk/src/request.ts` |
| SDK triggers and rails | offers and invoices handed out | offer, callback, mint through a gateway, mint here, prove, hand out | `sdk/src/trigger.ts`, `sdk/src/verify.ts`, `sdk/src/rail.ts` |
| SDK webhook receiver | deliveries already acted on | `onceWhileReplayable` | `sdk/src/serving.ts`, `sdk/src/webhook.ts` |
| SDK bank rail | whose token is next, when it may be asked, the answer kept | transfer, poll, read, match | `sdk/src/bank.ts`, `sdk/src/fio.ts` |
| SDK Nostr wallet connect | the call under way and its relay | `call`, the verify endpoints | `sdk/src/nwc.ts` |
| SDK presentation, tools, demos | none | formatting, scripts | `sdk/src/`, `tools/`, `examples/` |

How they interact: intake writes an `accepted` fact and a schedule row, and pushes
the fact to the peers. The ticker runs `tick`, which leases due polls and due
deliveries. A poll that finds the preimage writes a `paid` fact and an `outbox` fact
for every webhook in one transaction, pushes them, publishes to the followers, and
forgets the schedule row. Facts heard from a peer go through `absorb`, which records
what is proven and not known, schedules watches and takeovers, and moves the marks.
The sweep runs every minute, deletes what is an hour past its end, and owes what
nobody owes. A poll goes out through the outbound client, or to the agents of the
caller over their sockets. A shop uses the SDK: it mints through a gateway whose
answer it proves with the recipient, waits over sockets or is told by webhook, and
where it sells for bank transfers it is itself the verify URL the gateway polls.

What makes each part correct:

- *Replication*: a mark covers no hole, a number names one fact, a row deleted below
  its mark stays away, every writer's facts are one gap-free log, everything written is covered
  in the end.
- *Delivery*: no webhook is lost while somebody could know of it, none is invented,
  nothing outlives its time.
- *Intake*: the quota holds across awaits, a key stands for one request and one
  payment, and one handler at a time works for it.
- *Turns*: a payment is polled by somebody, normally by one, and is settled a turn
  after it was paid, and one more turn for every fault.
- *Process*: what is due is never slept over, a host is asked within its budget, no
  payment of a host with room is starved, a draining instance only finishes.
- *Sockets*: places are given back, a follower never has an old state as its last
  word, a ticket opens one socket, only the silent are dropped, an honest device is
  heard past others.
- *Client*: a wait is decided once, as it was told, only by what is proved, leaves
  nothing connected, and is kept from ending only by a gateway that holds it.
- *Bank and Receiver*: no token inside its window, one transfer for one order, a
  delivery acted on once, what was paid is fulfilled.
- *Outward*: nothing connects to a reserved address, the first wallet that serves
  wins, a call over relays pays once and hears its own answer, an invoice that
  reaches a payer is a recipient's own and its order's.

## Modules

`Replication` is the core. A ledger is a set of rows `held[n]`, a mark per source
and origin, and the origin its own facts carry. `Write` is one of the transactions
that make facts (a settlement writes an outbox fact per webhook), with the live push.
`Sweep` deletes any rows and may owe outbox facts; which rows are old is `Delivery`'s
matter. `Open`, `Resync`,
`Answer` and `Absorb` are `attach`, the timer, and the two branches of `receive`.
`Since` translates the batch, its cut and its coverage; `Absorbed` translates
`absorb` followed by `cover`. `Drop`, `Restart` and `Replace` are a lost link with
its notes, a process that comes back with its ledger, and an instance that comes
back with an empty one and a fresh origin. Notes may be reordered: the model keeps
a set, the sockets keep an order, so it allows more than the code. A body outside
the provable ones stands for a fact the receiver refuses. `written`, `pruned`,
`buried` (what an instance swept at or below its own mark) and `minted` are history. `Logs` is what all this promises: one growing log per writer and
table, numbered without a gap, followed by readers that only move forward, and a fresh
name for a reader that lost everything. `KeepsLogs` is its specification under
`INSTANCE Logs WITH ...`, with `written` for the log and the marks for the positions.

`Delivery` follows one payment through every instance: who knows of which webhook,
who settled, who owes, what is being posted. Time is explicit and every period of
the code is a constant. `Hear` is `absorb` of a group of facts in `Notes`, so that
a paid fact and its outbox rows travel together or apart; `MaxAway` bounds how long
a fact takes to reach an instance. `Sweep` is the whole sweep in its order:
`ForgetAccepted`, `PruneOutbox`, `PrunePaid`, `PruneDelivered`, then `Missing` and
the debts. `seen` stands for the marks (what was once heard is not recorded again);
that the marks really give this is what `Replication` shows. `Tick` waits for the
sweep of the unit, for due deliveries and for late facts.

`Intake` is one caller at one instance. A handler is cut at its awaits (`pacing`,
`probing`, `confirming`, `minting`), each with a timeout; between two awaits a step
is atomic, as in the event loop. A crash loses the handlers and may fall between
the insert of a payment and the fulfilment of its key, which are two commits. A
handler with a webhook may take longer than the lease of its key; `overran` is the
history of those that did.

`Turns` is the schedule of one payment. `Turn` is `Store.turn`, `NextDue` is
`nextDue`, `Standby` is what a copied payment gets. A poll is open from `Poll` to
`Answer`, `Find` or `Miss`; the wallet looks at some moment in between, so an
answer "not yet" only says that it was not paid when the poll began. `Adopt` and
`ComeForward` are `onPolled` and `onMissed`, and a note to a dead instance is lost. A
fault is a dropped link, a dead instance, a missed poll, a busy host (put off by a member
of `Busy`) or an agent that leaves. `Elapse` lets a unit pass once every due turn was
taken, no poll has run out of time and no note is late. `attended` and `since` are
history: when the agent's socket landed, and when an instance took the payment on.

`Process` is the watch loop of one instance: `NextDueAt`, `ArmTicker` and
`Scheduled` decide what the timer sleeps for, `RunTick` leases what is due and buys
the slots of the hosts, `PollEnds`, `PollFinds`, `HookTaken` and `HookRefused` end
what a tick took, and `EndTick` arms the timer again. The `Hear...` actions are
news from peers, `Insert` is intake's, and `Signal`, `Exit`, `Crash` and `Start` are
the life of the process. The other instances are a number, which divides the budget
and changes under `Meet`. A fresh outbox row is due at once (`dueAt` 0). Budgets are
kept per process, so a restart begins with a free slot.

`Sockets` is what one instance holds open: upgrades with a ticket (an await long, in
which time may pass) and without, the followers of one payment and its trigger, the
devices of one agent, keepalive, publish, the ask put to every device, and the drain in
its two steps. A subscriber asks for a replay of some depth or of none, and `ahead`
counts the trigger's settlements that are newer than this payment's. A socket
fails in one step and closes in a later one, and whatever else happens may fall
between the two. The code keeps a Set per caller in a Map; `band` is the Set a
socket was put into and `entry` the one the Map names, since the two may part.

`Wait` says what a wait promises and has no sockets in it: it is decided once, for
a payment only if its preimage came out, in vain only when nobody is left to hear, or
when the caller takes it back after somebody had ended in vain.
`Client` is the code: legs that are reconnected through every drop, each with its
attempts, the expiry it heard last, and its ticket. Three modes are made of legs: at
one gateway, at several, and streams that only a stop ends. `Abort` is the caller's
signal, and `OnAbort` what the code makes of it once some legs have ended: the unpaid
payment among gateways, the first refusal, or the abort. `PromiseKept` is
`Wait`'s specification under `INSTANCE Wait WITH ...`. `ClientProofs` proves it.

`Bank` (orders, tokens, the answer that is kept, which transfer pays which order)
and `Receiver` (the Map of deliveries acted on, calls that run, fail or are joined)
are the two stateful halves of a shop, and `Recipient` composes them with the
gateway between: it polls the first until it is answered and tells the second until
it is acknowledged. Time in both is what is left, not what the clock shows.
`Recipient` adds the bank's own token window, which the shop does not see, and
clocks that differ.

`Addresses` has the decision of `core/url.ts` and, apart from it, the reserved
blocks of the registries as prefixes, those that the decision overlooks listed by name
(`Overlooked4`, `Overlooked6`). `Outbound` is one request: looked up, checked,
pinned, redirected. `Walk` extends it with who asks: the walk along a priority list
under one deadline, verify polls and webhooks. `Nwc` is a call over the relays in
turn, with events and answers that arrive after the call gave up. `Minting` is how a
shop comes by an invoice and proves it: the gateway presents what it has seen or forges
an invoice with any hash and anybody's description, names any recipient and any verify
URL, and states any expiry; `Bound` is the check against the recipient's payRequest,
`Verify` what its verify URL answers, and `HandOut` comes in a later step. The three share no state, so `Outward` sums
them: a behaviour is about one of them, and its interleavings with the others would
show nothing.

The `MC` modules give TLC the constants that a cfg cannot write down, symmetry where
names make no difference, and for `Replication` the bound on notes in flight.
The eight modules named `...Proofs` hold the theorems about the module they are named
after; `OutwardProofs` also those about what `Outward` sums, `RecipientProofs` those
about `Bank` and `Receiver`, and `PaymentProofs` those about one payment, in `Turns` and
in `Intake`.

An operator marked as a mutant is a wrong variant of the operator that follows it.
Nothing uses it; it is there to show that a property notices.

## Runs

| run | shows | bounds and why they are enough |
| --- | --- | --- |
| `replication_safety` | `TypeOK`, `MarksSound`, `OneFactPerSeq`, `SweptStaysAway`, `KeepsLogs` | two instances and a spare origin, two sources, batches of one so that every reply of two facts is cut, two facts, up to two webhooks a sweep owes at once, two notes in flight, one fault: holes, cuts, refusals, sweeps on either side and a lost ledger all occur. The theorems cover every other size |
| `replication_converges` | `Converges` | two instances, finitely many writes and faults; batches of one force several rounds |
| `delivery_safety` | `HookAccountedFor`, `NothingLeftBehind`, `SweepInventsNoDebt` | grace and retry floor of a few units against a slack of two and a delay of one keep the order of the real periods; the invoice expires after one unit, so that settlements come before and after; long enough for a debt to be taken on, retried, parked and swept |
| `intake_safety` | `QuotaHolds`, `OnePaymentPerKey`, `AnsweredAsAsked`, `OneHandlerPerKey` | four creates that share one key, two with a webhook and two without, equal bodies and different ones, and a watch, against a quota of one; a slot, a challenge and a walk of one, one and three units against a lease of four, as five, fifteen and thirty seconds are against forty: a walk fits into the lease, a slot, a challenge and a walk do not; one crash |
| `turns` | `InLine`, `FirstPolls`, `PaidIsNoticed`, `OneFaultCostsAnInterval` | three instances, notes up to a unit late, polls that take time, one fault of any kind, an expiry at ten of eleven units so that an interval and a fault fit before it and parking after it; with and without an agent. The theorems cover every number of instances and of faults |
| `process` | `NothingOverdue`, `HostIsPaced`, `NobodyStarves`, `DrainOnlyShrinks` | two payments of one host so that they compete for its slots, which a wait of four units has just room for at two instances, one or two instances, three rows a tick, a lease and an interval of one unit so that both run out within a wait, a sleep longer than the others' periods, one piece of news from outside at any moment; twelve units hold a poll, a delivery that is refused, retried and swept, a crash and a restart |
| `process_idle` | `IdleStaysLive` fails | the same with no news at all |
| `sockets` | `NobodyLingers`, `FollowersKnow`, `TicketOpensOnce`, `OnlyTheSilentAreDropped`, `HonestIsHeard` | two connections and two tickets, as many places as connections, one honest device, one ask, one fault, replays of depth none and one, another settlement of the trigger, a ticket that lives two of three units: both sockets may hold one ticket, fail before the other opens, answer before and after the timeout |
| `sockets_held` | `HeldForAsLongAsItLives` fails | the same |
| `client` | `NothingOutlives`, `CheatsAreNotTraded`, `EndsAsHeard`, `PromiseKept`, `WaitEnds` | two legs in each of the three modes, two unanswered attempts, gateways that may send any frame at any time, with tickets and without. The theorems cover every number of legs and attempts; `WaitEnds` is the run's alone |
| `recipient` | `NoTokenTooSoon`, `OneCreditOneOrder`, `ActedOnce`, `CreditedIsFulfilled` | two tokens in a window of two, orders of one amount so that only references tell them apart and one that cannot be asked for, a transfer that names one, one that names both, a refund, two deliveries under way, a gateway clock ahead by one of a tolerance of two, one fault |
| `outward` | `NothingStrays`, `FirstThatServes`, `PaysOnce`, `OwnAnswer`, `EachOrderItsOwnInvoice` | addresses on both sides of block boundaries, names that resolve to mixed answers, to nothing, or to a block that is overlooked, two redirects, each defect of a wallet in front of one that serves, and two of them, a request cap of two under a deadline of four, so that the deadline cuts the second wallet or the third; two relays and two calls; two amounts, two recipients at one wallet, one genuine invoice at a time beside what the gateway forges, two mints, an order with a key and one without, expiries stated too early and right. `EachOrderItsOwnInvoice` of more mints and invoices is what the theorem is for |

Deadlock is not checked: counters and the clock are bounded, so behaviours end.

`FirstPolls` needs what the run's bounds say: a poll and its note end well within an
interval. With the five second interval of the code that holds while the host is not
crowded; `spend` may hold a poll back by up to five seconds, and then the second in
line asks too, which costs a poll and nothing else. `NobodyStarves` is about a host
with room for all its payments within the longest wait of a poll (`Roomy`; five seconds
in the code, at as many instances as there can be). With more payments than slots the
code puts the rest off until the host is free, as it should, and no bound could hold.

### Fairness

`Converges` assumes that an instance dials and opens links again (`Cluster.redial`,
weak fairness of `Open`), that the resync timer keeps firing (strong fairness of
`Resync`, since links may come and go between two firings), and that a note on a
link that stays up is received and handled (weak fairness of `Answer` and `Absorb`).
Faults and writes are finite by their bounds.

`WaitEnds` assumes that the client's pause before a reconnect ends (`Retry`) and that
time passes (`Expire`), and nothing of any gateway: the client sets no timer on a socket
or on a request for a ticket, and looks at the expiry only when a socket has closed. The
property therefore names what can keep a wait from ending: a gateway that holds a leg
for ever (`Held`), or one that goes on stating an expiry that is still ahead. Every other
gateway, one that is gone or drops whatever is opened included, ends its leg.

`CreditedIsFulfilled` assumes what the other modules show of the gateway: it polls
until it is answered and repeats a delivery until it is acknowledged; that the bank
answers a read in the end (failed reads are faults and finite), that a handler
ends, and that time passes. Signing and arriving fresh are strongly fair: either is
disabled and enabled again as slots fill and deliveries age, and a gateway that
repeats for days meets a moment that suits.

Nothing else is assumed fair. The timing properties of the other modules are
invariants over an explicit clock: time waits for what has a deadline, as the
timers of the code do.

## What disagrees with the documentation

Two disagreements have a run that fails on what the code does:

- *An idle instance does not sleep* (`process_idle`): `nextDueAt` (`ledger.ts:300`)
  looks at delivered outbox rows too. After a delivery the timer fires at once, over
  and over, until the row is swept, and the stall detector turns `/health` to 503.
- *A device that is held and not asked* (`sockets_held`): `leave` (`agents.ts:24`) runs
  on error and again on close; the second run deletes the entry of a socket that
  arrived in between.

Others were met while modelling. All but the last can be seen with the change named, or
by listing the property in the cfg named:

- *What outlives the hour* (`ledger.ts:622`, `docs/design.md:46`): "An hour after a payment
  settles or expires, the sweep deletes everything the gateway could read about it", with
  two exceptions that are named. A webhook that is not acknowledged is a third: its outbox
  row, with the payment in it, is retried for an hour after the settlement or until the
  expiry, and parked for an hour after that. `GoneAnHourLater` of `Delivery` fails as an
  INVARIANT in `DeliverySafety.cfg`; `NothingLeftBehind` is the bound that holds.
- *The lease is shorter than the handler* (`index.ts:81`, `README.md:70`,
  `docs/design.md:262`): a key "makes the POST safe to retry". A request with a webhook
  waits for the slot of the webhook's host (5 s) and for its answer to the challenge (15 s)
  before the thirty second walk that the lease of 40 s was made for. A handler that takes
  longer than its lease lets a repeat claim the key, and two payments are made.
  `SafeToRetry` of `Intake` fails as an INVARIANT in `IntakeSafety.cfg`; what holds is said
  of the keys whose lease no handler with a webhook outlived (`Leased`).
- *A ticket that opens two sockets* (`core/ticket.ts:56`, `openapi.yaml:560`): the instance
  that opens a ticket's socket "remembers it until it would have expired and refuses it a
  second time". The expiry is looked at before the signature is awaited, and `keepalive`
  forgets a ticket that has expired (`index.ts:383`), so one presented again in its last
  second may be read until its memory is gone. `OneSocketPerTicket` of `Sockets` fails as an
  INVARIANT in `SocketsSafety.cfg`.
- *A wait that does not end* (`sdk/src/client.ts:439`): "the wait always ends by itself". A
  gateway that never answers the request for a ticket, or keeps a socket open and silent,
  holds it, whatever the expiry. `AlwaysEnds` of `Client` fails as a PROPERTY in
  `ClientWaits.cfg`; `WaitEnds` is what remains.
- *Reserved blocks of IPv6* (`core/url.ts:99`, `docs/proving-a-payment.md:294`): the guard
  refuses "documentation, benchmarking and multicast ranges". It does of IPv4; of IPv6 it lets
  through the documentation blocks (`2001:db8::/32`, `3fff::/20`), the IETF's `2001::/23`,
  in which benchmarking and ORCHID lie, `5f00::/16` and `100:0:0:1::/64`, and of IPv4
  `192.88.99.0/24`. `NothingReserved` of `Outbound` fails as an INVARIANT in `Outward.cfg`;
  `ReservedOnlyWhereOverlooked` proves that nothing else is missing.
- *Remembered for as long as it is payable* (`sdk/src/client.ts:882`,
  `docs/proving-a-payment.md:264`): the client remembers a hash until the expiry that the
  gateway states, and one it minted here not at all. `RememberedWhilePayable` fails as an
  INVARIANT in `Outward.cfg`; `EachOrderItsOwnInvoice` names both exceptions.

- *A fault that costs two intervals* (`store.ts:203`, `docs/design.md:217`): the document
  says that a wallet that refuses one node and a stalled node "each cost at most one
  interval". While the stalled peer is still counted (until its link is closed),
  `postponed` puts every turn of the next in line an interval and a wait away, so the
  refused poll costs both. `EachCostsAnInterval` fails as an INVARIANT in `Turns.cfg` with
  `Nodes = {a, b}`, `MaxFaults = 2` and `ExpiresAt = 11`. `OneFaultCostsAnInterval` is what
  remains true of the sentence, `PaidIsNoticed` the bound that holds for every number of
  faults.
- *In sync too early* (`gossip.ts:107`, `docs/design.md:164`): live pushes carry
  `more: false`, and `receive` takes any such note for the last batch of a catch-up.
  `CaughtUpHonestly` of `Replication` fails as a PROPERTY in `ReplicationSafety.cfg`.
- *A webhook lost after an hour away* (`ledger.ts:619`, `docs/design.md:190`): the
  sweep forgets the accepted fact of a payment settled an hour ago before it looks
  for missing hooks. `HookAccountedFor` fails with `MaxAway` above `Grace` (and so does
  `SweepInventsNoDebt`, which assumes facts that arrive within the slack).
- *Replay counts rows* (`ledger.ts:627`, `docs/design.md:49`): a payment settled by two
  instances takes two places in its trigger's history and can lose both.
  `ReplayKept` of `Delivery` fails with `Replay = 1`.
- *Two watches of one hash* (`index.ts:903`, `docs/errors.md:20`): both pass the check
  before the awaits, and the second is answered with the terms of the first.
  `WatchedAsAsked` of `Intake` fails as a PROPERTY with `Watches = {w1, w2}`.
- *The last look* (`watch.ts:224`, `watch.test.ts:271`): a poll that straddles the expiry
  parks the payment everywhere, though the wallet was last asked before the expiry.

Known limits, by module:

- *Replication*: a fact pushed ahead of a hole that nobody can fill any more (its
  origin lost its ledger) stays above the holder's own mark, and `since` never sends
  it on.
- *Delivery*: a tombstone ages from `deliveredAt` while the row it calls off ages from
  `owedAt` (`ledger.ts:638`); with two settlers (`store.ts:158`), who both owe, the later
  row can outlive the tombstone and be posted once more. `HookAccountedFor` is about the
  webhooks taken on by an instance that had heard of no settlement (`asked`): one that
  accepts a payment again after it pruned the settlement has nothing to owe from.
- *Process*: what the intake spends for a challenge comes out of the same budget of a host as
  the polls (`budget.nextAt`) and is not in `Slot`, so `HostIsPaced` and `NobodyStarves`
  are about a host at which no challenge is under way; `Intake` has only what comes of a
  spend.
- *Sockets*: a restart forgets the tickets spent, and a peer the note has not reached
  opens one again; concurrent upgrades may exceed the limit on sockets
  (`index.ts:306`), which the model bounds by its connections. The socket of a follower
  has no handler for `error` (`index.ts:503`), and an error event without one ends the
  process; `Fail` is a socket that fails and closes.
- *Client*: `WaitEnds` speaks of a wait; a stream ends only when it is stopped.
- *Receiver*: the Map is in memory, so a restart acts again on what is repeated; a
  repeat that is signed anew late enough outlives the entry; at a skew of exactly
  the tolerance a delivery lives as long as its entry, and `Skews` stays inside.
- *Bank*: a transfer that names references of different shapes, or unnumbered ones,
  pays for each, so `OneCreditOneOrder` is about numbered references; an older answer
  that comes late replaces a newer one; a failed read leaves the kept answer for as
  long as the pace says.
- *Walk*: a wallet that answers JSON `null`, or whose callback is no string, is no
  `WalletRefused` but a TypeError, and ends the walk for all after it (`throws`,
  `throwsBetween`, `throwsLate`); a lookup heeds no deadline but its own.
- *Outbound*: a webhook redirected with 301, 302 or 303 within its origin arrives as a
  GET without its body, and a 200 to that counts as delivered.
- *Nwc*: the relays are tried in order (`nwc.ts:42`) under one deadline, so a silent
  first relay can use it up.
- *Minting*: an invoice that is paid between the recipient's answer and the hand-out is
  handed out all the same (`wasPaid` is as of the answer); one that was minted here and
  that the gateway comes to see can be handed to another order; minting here has no
  idempotency key, and each call makes an invoice.

## Proofs

`ReplicationProofs` proves for every set of instances, origins, sources and bodies,
every batch size and all bounds:

- `Typed`: `Spec => []TypeOK`;
- `MarksAreSound`: `Spec => []MarksSound`;
- `SeqsNameOneFact`: `Spec => []OneFactPerSeq`;
- `SweptRowsStayAway`: `Spec => []SweptStaysAway`;
- `ReplicationKeepsLogs`: `Spec => KeepsLogs`, the refinement of `Logs`.

`MarksSound` alone is not inductive. A reply in flight claims coverage with
`through`, and absorbing it moves the receiver's mark there whatever the receiver
holds, so the claim must already be true when it is sent and stay true until it
arrives, through sweeps and replaced ledgers on both sides. The inductive invariant
`IInv` therefore has three parts. `LedgerInv` is about ledgers: types, live origins
are apart and were minted, an instance's mark for its own facts covers all it wrote,
what is held or marked was written, and `MarksSound` and `OneFactPerSeq`
themselves. `QuestionSound` says that the marks in a `have` note were the asker's
and still stand for what it has. `AnswerSound` says that every written fact between
the asker's marks and `through` is in the reply, swept, or refused. The step proof
goes action by action; the lemmas underneath are about `Advance` (it moves only over
numbers that are there), about batches (what is at or below the cut is in the batch)
and about `NextSeq` (it is above everything written). The assumptions are the four
named ones of `Replication`: the node names are among the origins, unprovable bodies
are bodies, a batch has room for one fact, and bounds are natural numbers.
`SweptStaysAway` speaks of all time after a sweep, and needs `Buried`: what an instance
swept at or below its own mark is still at or below it and not in its ledger. The marks
never fall, and whatever is recorded is above them, whether it is written here or comes in
a push or a reply that was sent before the sweep.
The refinement adds `Rested`: the log of an origin is as long as its last number. A
transaction then appends the next numbers to each log it writes, as many as it has facts,
and a batch that is absorbed moves a mark forward and never past the end.

`ClientProofs` proves for every finite set of legs and every number of attempts:

- `NothingEverOutlives`: `Spec => []NothingOutlives`;
- `CheatsAreNeverTraded`: `Spec => []CheatsAreNotTraded`;
- `AlwaysEndsAsHeard`: `Spec => []EndsAsHeard`;
- `TypeCorrect`: `Spec => [](TypeOK /\ StreamIsProven)`;
- `ClientKeepsItsPromise`: `Spec => PromiseKept`, the refinement of `Wait`.

The inductive invariant `Inv` joins the three properties with what they rest on:
`Typed` (the shape of the state), `LetGo` (once a wait is decided every leg is over,
and before that exactly the legs with a result are) and `Remembered` (no leg was paid
while the wait is undecided, the flag `refused` is up exactly if a leg failed or
cheated, and a leg was aborted only if the caller gave the signal). Nearly
every action ends in `LegEnds`, where the last leg decides the wait and an earlier one
only leaves its result behind, so the step proof is one lemma about `LegEnds`, one
about the steps that only move a leg's phase, one about `Again`, and a case per
action above them. The refinement uses `Inv` at every step: a leg that ends maps to a
stutter or to the one deciding step of `Wait`, and everything else stutters. The
assumptions are `UnansweredAssumption` (at least one attempt), `LegsAssumption` (finitely
many legs and at least one) and `EndsAssumption` (a leg is not named like an end).

`DeliveryProofs` proves for any number of instances, webhooks, crashes and failed posts:

- `Typed`: `Spec => []TypeOK`, from `Delivery`'s own assumption;
- `TheSweepInventsNothing`: `Spec => SweepInventsNoDebt`, assuming `SlackCovers`;
- `NoHookIsForgotten`: `Spec => []HookAccountedFor`, assuming `GraceCovers`;
- `NothingOutlivesItsTime`: `Spec => []NothingLeftBehind`, assuming `RetryCovers` and
  finitely many instances.

These three are about races between periods, so they need the periods in order, and each
theorem names what it needs. `SlackCovers` says that a fact reaches every instance before
the slack has passed: in the code a minute (`UNOWED_SLACK_SECS`). `RetryCovers` says that
retries outlast the grace and every takeover: the code has an hour for both
(`RETRY_FLOOR_SECS`, `EXPIRED_GRACE_SECS`) and 1125 seconds for the last takeover by
default, so it holds while facts travel within the hour. `GraceCovers` says that a fact
travels there and back, and the slack passes, within the grace: with a minute and an hour
in the code, while a fact takes less than half an hour to arrive. Nothing is
assumed of when the payment expires.

No property is inductive. `Sound` says which rows, columns and times belong together;
`Timely` says how late a row can be heard and how early it can be gone; `Hooked` follows a
webhook from the accepted row over the settlement to the debt or the tombstone: whoever
settles owes what it knows of (`Accounted`), an instance that had the webhook and not the
settlement hears of it before its row is forgotten (`KnownSoon`, `Unforgotten`), its sweep
then owes it (`SweptOwes`), a settlement after the expiry is made by somebody who knows
every webhook (`LateSettlerKnows`), and at every moment some instance is a witness to the
debt (`Witnessed`). `Leaving`
bounds the last try of a debt, so that its parking and its pruning are bounded. All four
were model-checked on the instance of `delivery_safety` first. The proof of
`NothingOutlivesItsTime` showed that the bound must count crashes: a crash while a webhook
is posted leaves the row leased, so each one puts the last try off by a lease
(`LastsUntil`).

`PaymentProofs` proves of `Turns`, for any instances, ranks, intervals, delays and faults:

- `NobodyGivesUp`: `TurnsSpec => []InLine`;
- `OnlyTheFirstPolls`: `TurnsSpec => []FirstPolls`, assuming `Brisk`;
- `PaidIsSettledInTime`: `TurnsSpec => []PaidIsNoticed`;
- `OneFaultIsCheap`: `TurnsSpec => []OneFaultCostsAnInterval`.

`Brisk` says that a poll ends within every interval and within the lease. `FirstPolls` rests
on `Calm`, which follows the first in line through a poll: while it asks, everybody else's
turn is later than the longest it can take (`Behind`); when it is answered, the note is on
its way to everybody whose turn has not come (`Telling`); and whoever adopts it stands
behind the first one's next turn again. The cardinality of those ranked ahead is never
added up: one wait is enough. `PaidIsNoticed` rests on `LimitInv` and `Noticing`. A poll
that is answered "not yet" began before the payer paid, so a poll's length after that no
note puts a turn off any more (`NotesTimed`), and a turn is never further away than the
order can put it (`DueSoon`). What can still move a turn back is a fault of the instance's
own, and each costs at most one turn and one poll (`Noticing`, by the `Cost` of the faults so
far). The bound is per instance, so it does not matter who is dead. The proof showed that an
earlier form of the bound, an interval for each fault, is false when a stalled
peer is still counted. For one fault it is true, and needs two things more. `FewFaults` says
what one fault can do to the cluster: one instance is dead, or one link is down; and as long
as any two live instances still reach each other, perhaps over a third, what one of them took
on all have within the unit (`Shared`). `Cost` says what it cost: a fault that killed an
instance or parted two has put off no turn, so it counts nothing. Then either the first in
line is alive and has the payment, or the next one stands behind a single instance and has
lost no turn (`SomebodyIsNext`); the case of two instances that are parted before the second
heard of the payment is one of these.

It proves of `Intake`, for any requests, keys, bodies, quota and deadlines:

- `Typed`: `Spec => []TypeOK`, and `QuotaAlwaysHolds`: `Spec => []QuotaHolds`;
- `OneHandlerAtATime`, `KeysGiveOnePayment`, `AlwaysAnsweredAsAsked`: `OneHandlerPerKey`,
  `OnePaymentPerKey` and `AnsweredAsAsked`, assuming `LeaseCovers`.

`LeaseCovers` says that the lease of a key outlasts a wallet walk, and the code leases for
ten seconds more than a walk may take (`CLAIM_LEASE_SECS`). That covers a request without a
webhook. With one the handler also waits for its host's slot and for the challenge, and
the lease may run out under it. The properties except the keys of which that happened
(`Leased`), and nothing else: a request with a webhook that keeps to its lease is in them,
and so is one without that shares its key. The invariant `KeyInv` says that a handler in
hand holds its key, unless a lease of it was outlived, with its own fingerprint and, without
a webhook, with time to spare (`KeysHeld`), that a fulfilled key names a
payment made for its fingerprint (`KeysTrue`), and that every payment given under a key is
the one the key still names (`KeysKept`).

`ProcessProofs` proves for any payments, hosts, budgets and batch sizes:

- `HostsAreAlwaysPaced`: `Spec => []HostIsPaced`;
- `DrainingOnlyShrinks`: `Spec => DrainOnlyShrinks`;
- `NothingIsSleptOver`: `Spec => []NothingOverdue`;
- `NobodyIsStarved`: `Spec => []NobodyStarves`.

`HostIsPaced` needs `Spent`: every slot has run out when its host's next one begins.
`spend` moves the next slot on once for every poll it lets pass, whoever passes, so `Spent`
holds only because the polls that pass are exactly the first to ask
(`FirstComeFirstServed`, a counting argument over the ranks of a tick). The drain needs
`Quiet`: the timer is off while the instance drains, and nothing arms it.
`NothingOverdue` needs `PromptInv`: a tick ends in time (`TicksEnd`), outside a tick the timer
is armed for the first row that falls due (`Armed`), and what may go ahead of a row that
waits is a load that each tick without it lowers by a batch (`PollsInTime`,
`HooksInTime`). Another payment goes ahead of a poll once, of a delivery twice if it is owed
anew; that it is not owed anew more often needs the backlog to be worked off before a sweep
forgets what was told, which `NothingOverdue` says itself (an hour in the code).
`NobodyStarves` needs `StarveInv`: the last poll that bought a slot is at most one share of
the budget before its host's next one (`SlotsFollow`), so the slots of a tick have passed
when the next one begins, and a host with room sells each of its polls the slot of its rank
(`RoomForAll`). None is put off, then, and what makes a payment due is its last asking or
a lease (`Fed`); `NothingOverdue` does the rest. The attempt showed that an earlier bound,
from the last asking alone, is false: the lease of a poll may be longer than the interval
(thirty seconds against five), and a crash in the middle of the poll leaves the payment
leased. A poll that is cut off therefore counts from its lease. The assumptions are
`WorkAssumption` and `TimesAssumption`.

`SocketsProofs` proves for any number of sockets, tickets and asks `NobodyEverLingers`,
`FollowersAlwaysKnow`, `ATicketOpensOnce`, `OnlyTheSilentAreEverDropped` and
`TheHonestIsHeard`, each `Spec => []P` for the property of that name. The invariant
`SocketsInv` has four parts: who is in the maps and what they were sent (`MapsInv`; what a
follower is owed depends on when it came and on the replay it asked for, `ToldOf`), what
is left of a ticket between its reading and its expiry (`PapersInv`), which Set a device
is in and which one the caller's entry names (`BandsInv`), and what an ask has heard and
can still hear (`AskInv`).

`RecipientProofs` proves `NoTokenIsEverTooSoon`, `OneCreditPaysOneOrder` and
`TheShopActsOnce`. The assumptions are `Recipient`'s: the tokens share the window evenly,
clocks differ by less than the tolerance, a call ends before its delivery's memory may be
evicted (`ActAssumption`), and orders and credits have the shape the parsers give them
(`ShapeAssumption`). The invariants say that what the rail keeps of a token's
rest is what the bank's window has left, that the orders
answered for map one to one into the credits, and that a call that runs has its entry in
the Map.

`OutwardProofs` proves first, without any state, `ReservedOnlyWhereOverlooked`: an IPv4 or
IPv6 address that `publicAddress` lets through lies in no reserved block, in whichever of
the embedding forms it is written, except those listed in `Overlooked4` and `Overlooked6`.
From it follows the first part of `NothingEverStrays`: a connection is made to a reserved
address only in one of these. `TheFirstServes` is for lists of any length: whoever was asked
before the winner is refused for its own defect, and the winner serves.
`ACallPaysOnce` and `ACallHasItsOwnAnswer` are for any number of relays and calls.

`InvoicesAreTheOrdersOwn` is for any orders, recipients and wallets, and any gateway: one
that presents invoices of others, forges them, names any recipient and verify URL, and
states any expiry. `MintInv` has three parts. `Numbered`: an invoice that was issued is
told by its number, and was issued by whom it commits to. `Underhand`: what a mint under way
has established at each of its awaits (`Proving`), and that an invoice minted here is
nobody else's until it is handed out (`Hidden`). `HandedInv`: everything handed out was
right for its order (`GivenRight`), an entry remembers the latest hand-out of an invoice
until the expiry stated with it (`Entered`), what was minted here was handed out once
(`Sole`), and any two hand-outs of one invoice are excused (`Apart`).

The assumptions: names resolve to addresses (`AddressesAssumption`), a priority list is
not empty (`ListsAssumption`; `wire.ts` refuses an empty one), bounds are natural
numbers (`NwcAssumption`, and those of `Outbound` and `Walk`), stated expiries are too,
whoever forges is no recipient, and `Foreign` is no recipient's host (`MintingAssumption`).

Only model-checked:

- `Converges`, `WaitEnds` and `CreditedIsFulfilled`: liveness under fairness is out of the
  prover's reach;
- `IdleStaysLive` and `HeldForAsLongAsItLives`, which the code does not have.

## Not modelled

Signatures, hashes and encodings (BOLT 11, bech32, NIP-44, sealing) are functions with
test vectors; here a fact is proven or it is not, and a literal address comes
parsed. HTTP parsing and formatting, who may call, reading and listing,
configuration, logs, prices, IBANs, the QR code and the tools hold no state that
another step depends on. Sealed records are written and deleted by the sweep and
read by their owner. Migrations and key rotation run once at start, before a peer is
heard. The check that a gateway refuses strangers before a bank rail trusts it
(`refuseAnOpenGateway`) is one question that keeps nothing. The proof of a wrapped invoice
and the rails that only put modelled parts together are left out of `Minting`.

## Plan

In this order, each with its properties and, where it pays, a proof:

1. wrapped invoices in `Minting`, sealed records with the sweep in `Delivery`;
2. key rotation: signing again while peers still hold the old signatures.

Runs are few by intention. A new component takes one passing run; a run that shows
a disagreement gives way once the code or the document has changed.
