----------------------------- MODULE MCRecipient -----------------------------
(* An instance of Recipient for TLC: two orders of one amount and one that cannot *)
(* be asked for; a transfer that names one, one that names both, and a refund.  *)
EXTENDS Recipient, TLC

CONSTANTS t1, t2, m1, m2

word(w) == [numbered |-> w # "", is |-> w]
order(w) == [amount |-> 5, word |-> word(w)]
TheOrders == {order("A1"), order("A2"), order("")}
TheCredits == {[amount |-> 5, words |-> {word("A1")}], [amount |-> 5, words |-> {word("A1"), word("A2")}],
               [amount |-> -5, words |-> {word("A2")}]}
TheTokens == <<t1, t2>>
TheSkews == {1}

=============================================================================
