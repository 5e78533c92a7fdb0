------------------------------ MODULE MCOutward ------------------------------
(* An instance of Outward for TLC: two wallets that may redirect to each other,*)
(* to a name nobody registers, to plain http, and to literals on both sides of  *)
(* reserved blocks, or resolve to one that is reserved and overlooked; lists    *)
(* with a wallet of every kind, or two of them, before one that serves; two     *)
(* recipients at one wallet, a shop order without a key and with one, and an    *)
(* offer of a trigger.                                                          *)
EXTENDS Outward

CONSTANTS a, b, k

name(n, private) == [scheme |-> "https", host |-> [name |-> n, private |-> private]]
literal(x) == [scheme |-> "https", host |-> [literal |-> x]]

Public == {<<172, 32, 0, 1>>, <<0, 0, 0, 0, 0, 65535, 25663, 1>>}
Private == {<<172, 31, 255, 1>>, <<0, 0, 0, 0, 0, 65535, 25664, 1>>,
            <<8194, 49320, 1, 0, 0, 0, 0, 1>>, <<65215, 0, 0, 0, 0, 0, 0, 1>>}

TheUrls == {name("a", FALSE), name("b", FALSE), name("a", TRUE),
            [scheme |-> "http", host |-> [name |-> "a", private |-> FALSE]]}
              \cup {literal(x) : x \in Public \cup Private}
TheLookups == {{}, {<<8, 8, 8, 8>>, <<9734, 0, 0, 0, 0, 0, 0, 1>>}, {<<8, 8, 8, 8>>, <<10, 0, 0, 1>>},
               {<<8193, 3512, 0, 0, 0, 0, 0, 1>>}}

wallet(kind) == [url |-> name("a", FALSE), callback |-> name("b", FALSE), kind |-> kind]
TheLists == {<<wallet(kind), wallet("serves")>> : kind \in Kinds}
              \cup {<<wallet("otherAmount"), wallet("noInvoice"), wallet("serves")>>}

TheOrigins == [x \in {a, b} |-> "w"]
TheOrders == {[paidTo |-> {a}, amount |-> 1, key |-> key] : key \in {NoKey, k}}
TheOffers == {[paidTo |-> {a}, least |-> 1, most |-> 2]}

=============================================================================
