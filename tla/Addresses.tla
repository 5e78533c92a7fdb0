------------------------------ MODULE Addresses ------------------------------
(***************************************************************************)
(* Which addresses the gateway will connect to (core/url.ts), as the code  *)
(* decides it, and the blocks of the address registries that are not for   *)
(* the public, to hold that against: those the code refuses and those it   *)
(* overlooks.  An IPv4 address is its four octets, an IPv6 address its     *)
(* eight groups; a host is a literal of either kind or a name.             *)
(***************************************************************************)
EXTENDS Integers, Sequences

ipv4IsGlobal(p) ==
    /\ \A i \in 1..4 : p[i] \in Nat /\ p[i] < 256
    /\ p[1] \notin {0, 10, 127} /\ p[1] < 224
    /\ ~(p[1] = 100 /\ p[2] \in 64..127)
    /\ ~(p[1] = 169 /\ p[2] = 254)
    /\ ~(p[1] = 172 /\ p[2] \in 16..31)
    /\ ~(p[1] = 192 /\ (p[2] = 168 \/ (p[2] = 0 /\ p[3] \in {0, 2})))
    /\ ~(p[1] = 198 /\ (p[2] \in {18, 19} \/ (p[2] = 51 /\ p[3] = 100)))
    /\ ~(p[1] = 203 /\ p[2] = 0 /\ p[3] = 113)

\* The IPv4 address two groups hold.
embedded(one, other) == ipv4IsGlobal(<<one \div 256, one % 256, other \div 256, other % 256>>)

ipv6IsGlobal(g) ==
    LET zeroBefore(n) == \A i \in 1..n : g[i] = 0 IN
    /\ \A i \in 1..8 : g[i] \in Nat /\ g[i] < 65536
    /\ IF zeroBefore(5) /\ g[6] = 65535 THEN embedded(g[7], g[8])              \* ::ffff:0:0/96
       ELSE IF zeroBefore(6) \/ (zeroBefore(4) /\ g[5] = 65535 /\ g[6] = 0) THEN FALSE
       ELSE IF g[1] = 100 /\ g[2] = 65435                                       \* 64:ff9b::/32
       THEN g[3] = 0 /\ g[4] = 0 /\ g[5] = 0 /\ g[6] = 0 /\ embedded(g[7], g[8])
       ELSE IF g[1] = 8194 THEN embedded(g[2], g[3])                            \* 2002::/16
       ELSE /\ ~(g[1] = 8193 /\ g[2] = 0)                                      \* 2001::/32
            /\ ~(g[1] = 256 /\ g[2] = 0 /\ g[3] = 0 /\ g[4] = 0)               \* 100::/64
            /\ g[1] \div 512 # 126                                             \* fc00::/7
            /\ g[1] \div 256 # 255                                             \* ff00::/8
            /\ g[1] \div 64 \notin {1018, 1019}                                \* fe80::/10, fec0::/10

publicAddress(a) == IF Len(a) = 8 THEN ipv6IsGlobal(a) ELSE ipv4IsGlobal(a)

\* A name is [name, private]: it has one label, an empty one, or ends in a suffix
\* nobody registers; a literal is [literal].
hostIsPublic(h) == IF "literal" \in DOMAIN h THEN publicAddress(h.literal) ELSE ~h.private

publicHttps(url) == url.scheme = "https" /\ hostIsPublic(url.host)

sameOrigin(one, other) == one = other

-----------------------------------------------------------------------------
(* The registries *)

\* The first bits of the groups, each w bits wide, are the prefix's.
InBlock(a, w, prefix, bits) ==
    \A i \in 1..Len(prefix) :
       LET kept == IF bits >= i * w THEN w ELSE IF bits > (i - 1) * w THEN bits - (i - 1) * w ELSE 0
       IN  a[i] \div 2^(w - kept) = prefix[i] \div 2^(w - kept)

\* The anycast addresses of the relays of 6to4 and 6a44.
Overlooked4 == {<<<<192, 88, 99>>, 24>>}

Reserved4 == Overlooked4 \cup
             {<<<<0>>, 8>>, <<<<10>>, 8>>, <<<<100, 64>>, 10>>, <<<<127>>, 8>>, <<<<169, 254>>, 16>>,
              <<<<172, 16>>, 12>>, <<<<192, 0, 0>>, 24>>, <<<<192, 0, 2>>, 24>>, <<<<192, 168>>, 16>>,
              <<<<198, 18>>, 15>>, <<<<198, 51, 100>>, 24>>, <<<<203, 0, 113>>, 24>>,
              <<<<224>>, 4>>, <<<<240>>, 4>>}

\* Protocol assignments (benchmarking and ORCHID among them, and a few that may be
\* reached after all), documentation twice, segment routing, and the dummy prefix.
Overlooked6 == {<<<<8193, 0>>, 23>>, <<<<8193, 3512>>, 32>>, <<<<16383, 0>>, 20>>, <<<<24320>>, 16>>,
                <<<<256, 0, 0, 1>>, 64>>}

\* The unspecified, loopback and IPv4-compatible addresses, local NAT64, Teredo,
\* discard-only, unique local, link local, site local and multicast.
Reserved6 == Overlooked6 \cup
             {<<<<0, 0, 0, 0, 0, 0>>, 96>>, <<<<100, 65435, 1>>, 48>>, <<<<8193, 0>>, 32>>,
              <<<<256, 0, 0, 0>>, 64>>, <<<<64512>>, 7>>, <<<<65152>>, 10>>, <<<<65216>>, 10>>, <<<<65280>>, 8>>}

\* Where an IPv6 address carries an IPv4 one: mapped, NAT64, 6to4.
Carriers == {<<<<0, 0, 0, 0, 0, 65535>>, 96, 7>>, <<<<100, 65435, 0, 0, 0, 0>>, 96, 7>>, <<<<8194>>, 16, 2>>}

Octets(a, i) == <<a[i] \div 256, a[i] % 256, a[i + 1] \div 256, a[i + 1] % 256>>

LiesIn(a, four, six) ==
    IF Len(a) = 4
    THEN \E b \in four : InBlock(a, 8, b[1], b[2])
    ELSE \/ \E b \in six : InBlock(a, 16, b[1], b[2])
         \/ \E c \in Carriers :
               /\ InBlock(a, 16, c[1], c[2])
               /\ \E b \in four : InBlock(Octets(a, c[3]), 8, b[1], b[2])

IsReserved(a) == LiesIn(a, Reserved4, Reserved6)

IsOverlooked(a) == LiesIn(a, Overlooked4, Overlooked6)

=============================================================================
