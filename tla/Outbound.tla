------------------------------- MODULE Outbound -------------------------------
(***************************************************************************)
(* One request to the outside (core/outbound.ts and core/pinned.ts): every *)
(* hop of it is looked up, checked, and sent to the very addresses that    *)
(* were checked; a redirect is followed by hand, at most HopsFollowed      *)
(* times, with less and less of what was to be sent.                       *)
(*                                                                         *)
(* A URL is its origin: where on it a redirect leads makes no difference   *)
(* here.  A name resolves to something else at every lookup, and what      *)
(* answers may redirect anywhere.                                          *)
(***************************************************************************)
EXTENDS Addresses, FiniteSets

CONSTANTS
    Urls,          \* the origins there are
    Lookups,       \* what a name may resolve to: sets of addresses
    HopsFollowed,  \* HOPS_FOLLOWED
    Cap            \* HTTP_TIMEOUT_MS

ASSUME HopsAssumption == HopsFollowed \in Nat
ASSUME CapAssumption == Cap \in Nat \ {0}
ASSUME AddressesAssumption ==
    /\ \A found \in Lookups : \A a \in found : Len(a) \in {4, 8}
    /\ \A u \in Urls : "literal" \in DOMAIN u.host => Len(u.host.literal) \in {4, 8}

VARIABLES
    request,   \* the request under way, at most one: [url, target, carried, stays, hop, at, stage, spare]
    reached,   \* what it last connected to, if anything: [url, stays, to, address, carried, hop]
    answer     \* what came of it, until its asker takes that: an answer or "failed"

ask == <<request, reached, answer>>

Failed == answer' = {"failed"} /\ request' = {}

\* ask, up to its first hop.
Asked(url, carried, stays) ==
    /\ request = {} /\ answer = {}
    /\ request' = {[url |-> url, target |-> url, carried |-> carried, stays |-> stays,
                    hop |-> 0, at |-> {}, stage |-> "lookup", spare |-> Cap]}
    /\ reached' = {}
    /\ UNCHANGED answer

\* resolved: a literal is itself; a name is looked up, and a lookup that fails or takes
\* LOOKUP_TIMEOUT_MS finds nothing.
Found(host) == IF "literal" \in DOMAIN host THEN {{host.literal}} ELSE Lookups

\* Mutant of MayReach: one address that may be reached is enough.
MayReachOne(url, found) == publicHttps(url) /\ \E a \in found : publicAddress(a)

\* addressesToReach: not one of them may be private.
MayReach(url, found) == publicHttps(url) /\ found # {} /\ \A a \in found : publicAddress(a)

Lookup(r) ==
    /\ r \in request /\ r.stage = "lookup"
    /\ \E found \in Found(r.target.host) :
          IF MayReach(r.target, found)
          THEN request' = {[r EXCEPT !.at = found, !.stage = "sending"]} /\ UNCHANGED answer
          ELSE Failed
    /\ UNCHANGED reached

\* pinnedToTheAddressWeVerified: nothing resolves the name again, and any of what was
\* found is connected to.  What takes too long while it is looked up is not sent.
Connect(r, late) ==
    /\ r \in request /\ r.stage = "sending"
    /\ IF late \/ r.spare = 0
       THEN Failed /\ UNCHANGED reached
       ELSE \E a \in r.at :
               /\ request' = {[r EXCEPT !.stage = "reading"]}
               /\ reached' = {[url |-> r.url, stays |-> r.stays, to |-> r.target, address |-> a,
                               carried |-> r.carried, hop |-> r.hop]}
               /\ UNCHANGED answer

\* withoutBody.  Nobody sends credentials, so that withoutCredentials has none to drop.
CarriedOn(r, status) == IF status \in {307, 308} THEN r.carried ELSE r.carried \ {"body"}

\* Of 301, 302 and 303 one stands for all, of 307 and 308 too; a redirect that does
\* not say where to fails like any error does.
Redirected(r, status, next) ==
    /\ r \in request /\ r.stage = "reading" /\ r.spare > 0
    /\ IF (r.stays /\ ~sameOrigin(r.target, next)) \/ r.hop = HopsFollowed
       THEN Failed
       ELSE /\ request' = {[r EXCEPT !.target = next, !.carried = CarriedOn(r, status),
                                     !.hop = @ + 1, !.at = {}, !.stage = "lookup"]}
            /\ UNCHANGED answer
    /\ UNCHANGED reached

\* answerOf: the body is read up to BODY_LIMIT_BYTES, and the rest cut off.
Answered(r, said) ==
    /\ r \in request /\ r.stage = "reading" /\ r.spare > 0
    /\ request' = {}
    /\ answer' = {said}
    /\ UNCHANGED reached

\* The connection fails, or the deadline aborts it.
Breaks(r) ==
    /\ r \in request /\ r.stage = "reading"
    /\ Failed
    /\ UNCHANGED reached

Taken == answer # {} /\ answer' = {} /\ reached' = {} /\ UNCHANGED request

\* A lookup heeds neither deadline.
Elapsed == request' = {[r EXCEPT !.spare = IF @ > 0 THEN @ - 1 ELSE 0] : r \in request}

Init == request = {} /\ reached = {} /\ answer = {}

-----------------------------------------------------------------------------
(* Properties *)

\* Whatever names resolve to and wherever redirects lead, a connection is made to a
\* reserved address only where its block is one of the few the code overlooks; a poll
\* and what a webhook carries, its body or its signature, reach no origin but the one
\* that was named; and two redirects are the most that is followed (ask,
\* addressesToReach, ipv6IsGlobal).
NothingStrays ==
    \A c \in reached :
       /\ IsReserved(c.address) => IsOverlooked(c.address)
       /\ c.stays \/ c.carried # {} => c.to = c.url
       /\ c.hop <= HopsFollowed

\* A disagreement: docs/proving-a-payment.md:294 has the guard refuse "private,
\* carrier-grade NAT, documentation, benchmarking and multicast ranges".  Those of
\* IPv4 are; of IPv6 neither documentation nor benchmarking is, so that this does not hold.
NothingReserved == \A c \in reached : ~IsReserved(c.address)

=============================================================================
