-------------------------------- MODULE Outward --------------------------------
(***************************************************************************)
(* The three ways the system turns to somebody it does not trust to get an *)
(* invoice or a settlement: over HTTP to wallets and callers' hosts        *)
(* (Walk, on Outbound), over relays to a wallet of one's own (Nwc), and to *)
(* a gateway whose answer the recipients have to confirm (Minting).  They  *)
(* share no state, so a behaviour is about one of them.                    *)
(***************************************************************************)
EXTENDS Walk

CONSTANTS
    Relays, CallDeadline, MaxCalls,                                   \* Nwc
    Orders, Accounts, OriginOf, Forger, Foreign, Amounts, Offers,     \* Minting
    NoKey, Skew, Life, Stated,
    MaxTime, MaxInvoices, MaxMints

ASSUME NwcAssumption == {Relays, CallDeadline, MaxCalls} \subseteq Nat
ASSUME MintingAssumption ==
    /\ {Skew, Life, MaxTime, MaxInvoices, MaxMints} \cup Stated \subseteq Nat
    /\ Forger \notin Accounts /\ \A a \in Accounts : OriginOf[a] # Foreign

VARIABLES
    part,                                                             \* which of them
    call, calls, carried, acted, answers, released, verdicts,         \* Nwc
    now, invoices, paid, known, offered, mints, handedOut, given, minted

N == INSTANCE Nwc WITH Deadline <- CallDeadline
M == INSTANCE Minting WITH Addresses <- Accounts

nwc == <<call, calls, carried, acted, answers, released, verdicts>>
minting == <<now, invoices, paid, known, offered, mints, handedOut, given, minted>>
vars == <<part, walkVars, nwc, minting>>

OutwardInit ==
    /\ part \in {"walk", "nwc", "minting"}
    /\ WalkInit /\ N!Init /\ M!MintInit

OutwardNext ==
    \/ part = "walk" /\ WalkNext /\ UNCHANGED <<part, nwc, minting>>
    \/ part = "nwc" /\ N!Next /\ UNCHANGED <<part, walkVars, minting>>
    \/ part = "minting" /\ M!MintNext /\ UNCHANGED <<part, walkVars, nwc>>

Spec == OutwardInit /\ [][OutwardNext]_vars

-----------------------------------------------------------------------------
(* Properties *)

\* A call of one's own wallet spends once, over however many relays (Nwc).
PaysOnce == N!PaysOnce

\* A call says what the wallet answered to it, and to no other (Nwc).
OwnAnswer == N!OwnAnswer

\* An invoice that reaches a payer is this order's own (Minting).
EachOrderItsOwnInvoice == M!EachOrderItsOwnInvoice

\* An invoice is remembered for as long as it can be paid, which does not hold (Minting).
RememberedWhilePayable == M!RememberedWhilePayable

=============================================================================
