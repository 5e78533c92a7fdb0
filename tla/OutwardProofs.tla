----------------------------- MODULE OutwardProofs -----------------------------
(***************************************************************************)
(* Proofs about Outward, and about the modules it is made of.  First that  *)
(* an address the code takes for public is reserved by a registry only     *)
(* where the code overlooks the block; then, part by part, an invariant of *)
(* its own for each of the walk (Walk, on Outbound), the wallet connection *)
(* (Nwc) and the minting (Minting), all three of which a step of Outward   *)
(* preserves.                                                              *)
(***************************************************************************)
EXTENDS Outward, FiniteSetTheorems, TLAPS

-----------------------------------------------------------------------------
(* Addresses *)

\* d holds the bits of group i that do not belong to the prefix.
Spare(d, w, bits, i) ==
    d = 2^(w - (IF bits >= i * w THEN w ELSE IF bits > (i - 1) * w THEN bits - (i - 1) * w ELSE 0))

Agree(a, prefix, i, d) == a[i] \div d = prefix[i] \div d

\* An address in a block agrees with its prefix, group by group, in the other bits.
LEMMA Group ==
    ASSUME NEW a, NEW w, NEW prefix, NEW bits, InBlock(a, w, prefix, bits),
           NEW i \in 1..Len(prefix), NEW d, Spare(d, w, bits, i)
    PROVE  Agree(a, prefix, i, d)
BY DEF InBlock, Spare, Agree

\* The same, spelled out for prefixes of one to six groups.
LEMMA Prefix1 ==
    ASSUME NEW a, NEW w, NEW bits, NEW x1, InBlock(a, w, <<x1>>, bits),
           NEW d, Spare(d, w, bits, 1)
    PROVE  a[1] \div d = x1 \div d
<1>1. PICK t : t = <<x1>>
  OBVIOUS
<1>2. t[1] = x1
  BY <1>1
<1>3. InBlock(a, w, t, bits) /\ 1 \in 1..Len(t)
  BY <1>1
<1>5. Agree(a, t, 1, d)
  BY <1>3, Group
<1> QED BY <1>2, <1>5 DEF Agree

LEMMA Prefix2 ==
    ASSUME NEW a, NEW w, NEW bits, NEW x1, NEW x2, InBlock(a, w, <<x1, x2>>, bits),
           NEW d, Spare(d, w, bits, 2),
           \A i \in 1..1 : Spare(1, w, bits, i)
    PROVE  a[1] \div 1 = x1 \div 1 /\ a[2] \div d = x2 \div d
<1>1. PICK t : t = <<x1, x2>>
  OBVIOUS
<1>2. t[1] = x1 /\ t[2] = x2
  BY <1>1
<1>3. InBlock(a, w, t, bits) /\ 1 \in 1..Len(t) /\ 2 \in 1..Len(t)
  BY <1>1
<1>4. Spare(1, w, bits, 1)
  OBVIOUS
<1>5. Agree(a, t, 1, 1) /\ Agree(a, t, 2, d)
  BY <1>3, <1>4, Group
<1> QED BY <1>2, <1>5 DEF Agree

LEMMA Prefix3 ==
    ASSUME NEW a, NEW w, NEW bits, NEW x1, NEW x2, NEW x3, InBlock(a, w, <<x1, x2, x3>>, bits),
           NEW d, Spare(d, w, bits, 3),
           \A i \in 1..2 : Spare(1, w, bits, i)
    PROVE  a[1] \div 1 = x1 \div 1 /\ a[2] \div 1 = x2 \div 1 /\ a[3] \div d = x3 \div d
<1>1. PICK t : t = <<x1, x2, x3>>
  OBVIOUS
<1>2. t[1] = x1 /\ t[2] = x2 /\ t[3] = x3
  BY <1>1
<1>3. InBlock(a, w, t, bits) /\ 1 \in 1..Len(t) /\ 2 \in 1..Len(t) /\ 3 \in 1..Len(t)
  BY <1>1
<1>4. Spare(1, w, bits, 1) /\ Spare(1, w, bits, 2)
  OBVIOUS
<1>5. Agree(a, t, 1, 1) /\ Agree(a, t, 2, 1) /\ Agree(a, t, 3, d)
  BY <1>3, <1>4, Group
<1> QED BY <1>2, <1>5 DEF Agree

LEMMA Prefix4 ==
    ASSUME NEW a, NEW w, NEW bits, NEW x1, NEW x2, NEW x3, NEW x4, InBlock(a, w, <<x1, x2, x3, x4>>, bits),
           NEW d, Spare(d, w, bits, 4),
           \A i \in 1..3 : Spare(1, w, bits, i)
    PROVE  a[1] \div 1 = x1 \div 1 /\ a[2] \div 1 = x2 \div 1 /\ a[3] \div 1 = x3 \div 1 /\ a[4] \div d = x4 \div d
<1>1. PICK t : t = <<x1, x2, x3, x4>>
  OBVIOUS
<1>2. t[1] = x1 /\ t[2] = x2 /\ t[3] = x3 /\ t[4] = x4
  BY <1>1
<1>3. InBlock(a, w, t, bits) /\ 1 \in 1..Len(t) /\ 2 \in 1..Len(t) /\ 3 \in 1..Len(t) /\ 4 \in 1..Len(t)
  BY <1>1
<1>4. Spare(1, w, bits, 1) /\ Spare(1, w, bits, 2) /\ Spare(1, w, bits, 3)
  OBVIOUS
<1>5. Agree(a, t, 1, 1) /\ Agree(a, t, 2, 1) /\ Agree(a, t, 3, 1) /\ Agree(a, t, 4, d)
  BY <1>3, <1>4, Group
<1> QED BY <1>2, <1>5 DEF Agree

LEMMA Prefix6 ==
    ASSUME NEW a, NEW w, NEW bits, NEW x1, NEW x2, NEW x3, NEW x4, NEW x5, NEW x6, InBlock(a, w, <<x1, x2, x3, x4, x5, x6>>, bits),
           NEW d, Spare(d, w, bits, 6),
           \A i \in 1..5 : Spare(1, w, bits, i)
    PROVE  a[1] \div 1 = x1 \div 1 /\ a[2] \div 1 = x2 \div 1 /\ a[3] \div 1 = x3 \div 1 /\ a[4] \div 1 = x4 \div 1 /\ a[5] \div 1 = x5 \div 1 /\ a[6] \div d = x6 \div d
<1>1. PICK t : t = <<x1, x2, x3, x4, x5, x6>>
  OBVIOUS
<1>2. t[1] = x1 /\ t[2] = x2 /\ t[3] = x3 /\ t[4] = x4 /\ t[5] = x5 /\ t[6] = x6
  BY <1>1
<1>3. InBlock(a, w, t, bits) /\ 1 \in 1..Len(t) /\ 2 \in 1..Len(t) /\ 3 \in 1..Len(t) /\ 4 \in 1..Len(t) /\ 5 \in 1..Len(t) /\ 6 \in 1..Len(t)
  BY <1>1
<1>4. Spare(1, w, bits, 1) /\ Spare(1, w, bits, 2) /\ Spare(1, w, bits, 3) /\ Spare(1, w, bits, 4) /\ Spare(1, w, bits, 5)
  OBVIOUS
<1>5. Agree(a, t, 1, 1) /\ Agree(a, t, 2, 1) /\ Agree(a, t, 3, 1) /\ Agree(a, t, 4, 1) /\ Agree(a, t, 5, 1) /\ Agree(a, t, 6, d)
  BY <1>3, <1>4, Group
<1> QED BY <1>2, <1>5 DEF Agree

\* An IPv4 address in a reserved block is not global, unless the block is overlooked.
LEMMA Reserved4IsNotGlobal ==
    ASSUME NEW p, \A i \in 1..4 : p[i] \in Nat /\ p[i] < 256, NEW b \in Reserved4 \ Overlooked4,
           InBlock(p, 8, b[1], b[2])
    PROVE  ~ipv4IsGlobal(p)
<1>0. p[1] \in Nat /\ p[2] \in Nat /\ p[3] \in Nat /\ p[1] < 256 /\ p[2] < 256
  OBVIOUS
<1>1. ASSUME InBlock(p, 8, << 0 >>, 8)
      PROVE  ~ipv4IsGlobal(p)
  <2>1. Spare(1, 8, 8, 1)
    BY DEF Spare
  <2>2. p[1] \div 1 = 0 \div 1
    BY <1>1, <2>1, Prefix1
  <2> QED BY <2>2, <1>0 DEF ipv4IsGlobal
<1>2. ASSUME InBlock(p, 8, << 10 >>, 8)
      PROVE  ~ipv4IsGlobal(p)
  <2>1. Spare(1, 8, 8, 1)
    BY DEF Spare
  <2>2. p[1] \div 1 = 10 \div 1
    BY <1>2, <2>1, Prefix1
  <2> QED BY <2>2, <1>0 DEF ipv4IsGlobal
<1>3. ASSUME InBlock(p, 8, <<100, 64>>, 10)
      PROVE  ~ipv4IsGlobal(p)
  <2>1. Spare(64, 8, 10, 2) /\ \A i \in 1..1 : Spare(1, 8, 10, i)
    BY DEF Spare
  <2>2. p[1] \div 1 = 100 \div 1 /\ p[2] \div 64 = 64 \div 64
    BY <1>3, <2>1, Prefix2
  <2> QED BY <2>2, <1>0 DEF ipv4IsGlobal
<1>4. ASSUME InBlock(p, 8, << 127 >>, 8)
      PROVE  ~ipv4IsGlobal(p)
  <2>1. Spare(1, 8, 8, 1)
    BY DEF Spare
  <2>2. p[1] \div 1 = 127 \div 1
    BY <1>4, <2>1, Prefix1
  <2> QED BY <2>2, <1>0 DEF ipv4IsGlobal
<1>5. ASSUME InBlock(p, 8, <<169, 254>>, 16)
      PROVE  ~ipv4IsGlobal(p)
  <2>1. Spare(1, 8, 16, 2) /\ \A i \in 1..1 : Spare(1, 8, 16, i)
    BY DEF Spare
  <2>2. p[1] \div 1 = 169 \div 1 /\ p[2] \div 1 = 254 \div 1
    BY <1>5, <2>1, Prefix2
  <2> QED BY <2>2, <1>0 DEF ipv4IsGlobal
<1>6. ASSUME InBlock(p, 8, <<172, 16>>, 12)
      PROVE  ~ipv4IsGlobal(p)
  <2>1. Spare(16, 8, 12, 2) /\ \A i \in 1..1 : Spare(1, 8, 12, i)
    BY DEF Spare
  <2>2. p[1] \div 1 = 172 \div 1 /\ p[2] \div 16 = 16 \div 16
    BY <1>6, <2>1, Prefix2
  <2> QED BY <2>2, <1>0 DEF ipv4IsGlobal
<1>7. ASSUME InBlock(p, 8, <<192, 0, 0>>, 24)
      PROVE  ~ipv4IsGlobal(p)
  <2>1. Spare(1, 8, 24, 3) /\ \A i \in 1..2 : Spare(1, 8, 24, i)
    BY DEF Spare
  <2>2. p[1] \div 1 = 192 \div 1 /\ p[2] \div 1 = 0 \div 1 /\ p[3] \div 1 = 0 \div 1
    BY <1>7, <2>1, Prefix3
  <2> QED BY <2>2, <1>0 DEF ipv4IsGlobal
<1>8. ASSUME InBlock(p, 8, <<192, 0, 2>>, 24)
      PROVE  ~ipv4IsGlobal(p)
  <2>1. Spare(1, 8, 24, 3) /\ \A i \in 1..2 : Spare(1, 8, 24, i)
    BY DEF Spare
  <2>2. p[1] \div 1 = 192 \div 1 /\ p[2] \div 1 = 0 \div 1 /\ p[3] \div 1 = 2 \div 1
    BY <1>8, <2>1, Prefix3
  <2> QED BY <2>2, <1>0 DEF ipv4IsGlobal
<1>9. ASSUME InBlock(p, 8, <<192, 168>>, 16)
      PROVE  ~ipv4IsGlobal(p)
  <2>1. Spare(1, 8, 16, 2) /\ \A i \in 1..1 : Spare(1, 8, 16, i)
    BY DEF Spare
  <2>2. p[1] \div 1 = 192 \div 1 /\ p[2] \div 1 = 168 \div 1
    BY <1>9, <2>1, Prefix2
  <2> QED BY <2>2, <1>0 DEF ipv4IsGlobal
<1>10. ASSUME InBlock(p, 8, <<198, 18>>, 15)
      PROVE  ~ipv4IsGlobal(p)
  <2>1. Spare(2, 8, 15, 2) /\ \A i \in 1..1 : Spare(1, 8, 15, i)
    BY DEF Spare
  <2>2. p[1] \div 1 = 198 \div 1 /\ p[2] \div 2 = 18 \div 2
    BY <1>10, <2>1, Prefix2
  <2> QED BY <2>2, <1>0 DEF ipv4IsGlobal
<1>11. ASSUME InBlock(p, 8, <<198, 51, 100>>, 24)
      PROVE  ~ipv4IsGlobal(p)
  <2>1. Spare(1, 8, 24, 3) /\ \A i \in 1..2 : Spare(1, 8, 24, i)
    BY DEF Spare
  <2>2. p[1] \div 1 = 198 \div 1 /\ p[2] \div 1 = 51 \div 1 /\ p[3] \div 1 = 100 \div 1
    BY <1>11, <2>1, Prefix3
  <2> QED BY <2>2, <1>0 DEF ipv4IsGlobal
<1>12. ASSUME InBlock(p, 8, <<203, 0, 113>>, 24)
      PROVE  ~ipv4IsGlobal(p)
  <2>1. Spare(1, 8, 24, 3) /\ \A i \in 1..2 : Spare(1, 8, 24, i)
    BY DEF Spare
  <2>2. p[1] \div 1 = 203 \div 1 /\ p[2] \div 1 = 0 \div 1 /\ p[3] \div 1 = 113 \div 1
    BY <1>12, <2>1, Prefix3
  <2> QED BY <2>2, <1>0 DEF ipv4IsGlobal
<1>13. ASSUME InBlock(p, 8, << 224 >>, 4)
      PROVE  ~ipv4IsGlobal(p)
  <2>1. Spare(16, 8, 4, 1)
    BY DEF Spare
  <2>2. p[1] \div 16 = 224 \div 16
    BY <1>13, <2>1, Prefix1
  <2> QED BY <2>2, <1>0 DEF ipv4IsGlobal
<1>14. ASSUME InBlock(p, 8, << 240 >>, 4)
      PROVE  ~ipv4IsGlobal(p)
  <2>1. Spare(16, 8, 4, 1)
    BY DEF Spare
  <2>2. p[1] \div 16 = 240 \div 16
    BY <1>14, <2>1, Prefix1
  <2> QED BY <2>2, <1>0 DEF ipv4IsGlobal
<1> QED BY <1>1, <1>2, <1>3, <1>4, <1>5, <1>6, <1>7, <1>8, <1>9, <1>10, <1>11, <1>12, <1>13, <1>14 DEF Reserved4

\* An IPv6 address in a reserved block is not global, unless the block is overlooked.
LEMMA Reserved6IsNotGlobal ==
    ASSUME NEW a, \A i \in 1..8 : a[i] \in Nat /\ a[i] < 65536, NEW b \in Reserved6 \ Overlooked6,
           InBlock(a, 16, b[1], b[2])
    PROVE  ~ipv6IsGlobal(a)
<1>0. a[1] \in Nat /\ a[2] \in Nat /\ a[3] \in Nat /\ a[4] \in Nat /\ a[5] \in Nat /\ a[6] \in Nat
  OBVIOUS
<1>1. ASSUME InBlock(a, 16, <<0, 0, 0, 0, 0, 0>>, 96)
      PROVE  ~ipv6IsGlobal(a)
  <2>1. Spare(1, 16, 96, 6) /\ \A i \in 1..5 : Spare(1, 16, 96, i)
    BY DEF Spare
  <2>2. a[1] \div 1 = 0 \div 1 /\ a[2] \div 1 = 0 \div 1 /\ a[3] \div 1 = 0 \div 1 /\ a[4] \div 1 = 0 \div 1 /\ a[5] \div 1 = 0 \div 1 /\ a[6] \div 1 = 0 \div 1
    BY <1>1, <2>1, Prefix6
  <2> QED BY <2>2, <1>0 DEF ipv6IsGlobal
<1>2. ASSUME InBlock(a, 16, <<8193, 0>>, 32)
      PROVE  ~ipv6IsGlobal(a)
  <2>1. Spare(1, 16, 32, 2) /\ \A i \in 1..1 : Spare(1, 16, 32, i)
    BY DEF Spare
  <2>2. a[1] \div 1 = 8193 \div 1 /\ a[2] \div 1 = 0 \div 1
    BY <1>2, <2>1, Prefix2
  <2> QED BY <2>2, <1>0 DEF ipv6IsGlobal
<1>3. ASSUME InBlock(a, 16, <<256, 0, 0, 0>>, 64)
      PROVE  ~ipv6IsGlobal(a)
  <2>1. Spare(1, 16, 64, 4) /\ \A i \in 1..3 : Spare(1, 16, 64, i)
    BY DEF Spare
  <2>2. a[1] \div 1 = 256 \div 1 /\ a[2] \div 1 = 0 \div 1 /\ a[3] \div 1 = 0 \div 1 /\ a[4] \div 1 = 0 \div 1
    BY <1>3, <2>1, Prefix4
  <2> QED BY <2>2, <1>0 DEF ipv6IsGlobal
<1>4. ASSUME InBlock(a, 16, << 64512 >>, 7)
      PROVE  ~ipv6IsGlobal(a)
  <2>1. Spare(512, 16, 7, 1)
    BY DEF Spare
  <2>2. a[1] \div 512 = 64512 \div 512
    BY <1>4, <2>1, Prefix1
  <2> QED BY <2>2, <1>0 DEF ipv6IsGlobal
<1>5. ASSUME InBlock(a, 16, << 65152 >>, 10)
      PROVE  ~ipv6IsGlobal(a)
  <2>1. Spare(64, 16, 10, 1)
    BY DEF Spare
  <2>2. a[1] \div 64 = 65152 \div 64
    BY <1>5, <2>1, Prefix1
  <2> QED BY <2>2, <1>0 DEF ipv6IsGlobal
<1>6. ASSUME InBlock(a, 16, << 65216 >>, 10)
      PROVE  ~ipv6IsGlobal(a)
  <2>1. Spare(64, 16, 10, 1)
    BY DEF Spare
  <2>2. a[1] \div 64 = 65216 \div 64
    BY <1>6, <2>1, Prefix1
  <2> QED BY <2>2, <1>0 DEF ipv6IsGlobal
<1>7. ASSUME InBlock(a, 16, << 65280 >>, 8)
      PROVE  ~ipv6IsGlobal(a)
  <2>1. Spare(256, 16, 8, 1)
    BY DEF Spare
  <2>2. a[1] \div 256 = 65280 \div 256
    BY <1>7, <2>1, Prefix1
  <2> QED BY <2>2, <1>0 DEF ipv6IsGlobal
<1>8. ASSUME InBlock(a, 16, <<100, 65435, 1>>, 48)
      PROVE  ~ipv6IsGlobal(a)
  <2>1. Spare(1, 16, 48, 3) /\ \A i \in 1..2 : Spare(1, 16, 48, i)
    BY DEF Spare
  <2>2. a[1] \div 1 = 100 \div 1 /\ a[2] \div 1 = 65435 \div 1 /\ a[3] \div 1 = 1 \div 1
    BY <1>8, <2>1, Prefix3
  <2> QED BY <2>2, <1>0 DEF ipv6IsGlobal
<1> QED BY <1>1, <1>2, <1>3, <1>4, <1>5, <1>6, <1>7, <1>8 DEF Reserved6

\* Nor is one that carries a reserved IPv4 address.
LEMMA CarrierIsNotGlobal ==
    ASSUME NEW a, \A i \in 1..8 : a[i] \in Nat /\ a[i] < 65536, NEW c \in Carriers,
           InBlock(a, 16, c[1], c[2]), ~ipv4IsGlobal(Octets(a, c[3]))
    PROVE  ~ipv6IsGlobal(a)
<1>0. a[1] \in Nat /\ a[2] \in Nat /\ a[3] \in Nat /\ a[4] \in Nat /\ a[5] \in Nat /\ a[6] \in Nat
  OBVIOUS
<1>1. ASSUME InBlock(a, 16, <<0, 0, 0, 0, 0, 65535>>, 96), ~ipv4IsGlobal(Octets(a, 7))
      PROVE  ~ipv6IsGlobal(a)
  <2>1. Spare(1, 16, 96, 6) /\ \A i \in 1..5 : Spare(1, 16, 96, i)
    BY DEF Spare
  <2>2. a[1] \div 1 = 0 \div 1 /\ a[2] \div 1 = 0 \div 1 /\ a[3] \div 1 = 0 \div 1 /\ a[4] \div 1 = 0 \div 1 /\ a[5] \div 1 = 0 \div 1 /\ a[6] \div 1 = 65535 \div 1
    BY <1>1, <2>1, Prefix6
  <2> QED BY <1>1, <2>2, <1>0 DEF ipv6IsGlobal, embedded, Octets
<1>2. ASSUME InBlock(a, 16, <<100, 65435, 0, 0, 0, 0>>, 96), ~ipv4IsGlobal(Octets(a, 7))
      PROVE  ~ipv6IsGlobal(a)
  <2>1. Spare(1, 16, 96, 6) /\ \A i \in 1..5 : Spare(1, 16, 96, i)
    BY DEF Spare
  <2>2. a[1] \div 1 = 100 \div 1 /\ a[2] \div 1 = 65435 \div 1 /\ a[3] \div 1 = 0 \div 1 /\ a[4] \div 1 = 0 \div 1 /\ a[5] \div 1 = 0 \div 1 /\ a[6] \div 1 = 0 \div 1
    BY <1>2, <2>1, Prefix6
  <2> QED BY <1>2, <2>2, <1>0 DEF ipv6IsGlobal, embedded, Octets
<1>3. ASSUME InBlock(a, 16, << 8194 >>, 16), ~ipv4IsGlobal(Octets(a, 2))
      PROVE  ~ipv6IsGlobal(a)
  <2>1. Spare(1, 16, 16, 1)
    BY DEF Spare
  <2>2. a[1] \div 1 = 8194 \div 1
    BY <1>3, <2>1, Prefix1
  <2> QED BY <1>3, <2>2, <1>0 DEF ipv6IsGlobal, embedded, Octets
<1> QED BY <1>1, <1>2, <1>3 DEF Carriers

\* What two groups hold are four octets.
LEMMA OctetsAreOctets ==
    ASSUME NEW a, \A i \in 1..8 : a[i] \in Nat /\ a[i] < 65536, NEW k \in 1..7
    PROVE  \A i \in 1..4 : Octets(a, k)[i] \in Nat /\ Octets(a, k)[i] < 256
<1>1. a[k] \in Nat /\ a[k] < 65536 /\ a[k + 1] \in Nat /\ a[k + 1] < 65536
  OBVIOUS
<1>2. \A x \in Nat : x < 65536 => x \div 256 \in Nat /\ x \div 256 < 256 /\ x % 256 \in Nat /\ x % 256 < 256
  OBVIOUS
<1>3. /\ Octets(a, k)[1] = a[k] \div 256 /\ Octets(a, k)[2] = a[k] % 256
      /\ Octets(a, k)[3] = a[k + 1] \div 256 /\ Octets(a, k)[4] = a[k + 1] % 256
  BY DEF Octets
<1> QED BY <1>1, <1>2, <1>3

\* Of all the addresses there are, on either side of every block the registries reserve,
\* the code connects to one that lies in such a block, or carries one that does, only in
\* the blocks listed as overlooked (core/url.ts publicAddress).
THEOREM ReservedOnlyWhereOverlooked ==
    ASSUME NEW a, Len(a) \in {4, 8}, publicAddress(a), IsReserved(a)
    PROVE  IsOverlooked(a)
<1>1. CASE Len(a) = 4
  <2>1. ipv4IsGlobal(a) /\ \A i \in 1..4 : a[i] \in Nat /\ a[i] < 256
    BY <1>1 DEF publicAddress, ipv4IsGlobal
  <2>2. PICK b \in Reserved4 : InBlock(a, 8, b[1], b[2])
    BY <1>1 DEF IsReserved, LiesIn
  <2>3. b \in Overlooked4
    BY <2>1, <2>2, Reserved4IsNotGlobal
  <2> QED BY <1>1, <2>2, <2>3 DEF IsOverlooked, LiesIn
<1>2. CASE Len(a) = 8
  <2>1. ipv6IsGlobal(a) /\ \A i \in 1..8 : a[i] \in Nat /\ a[i] < 65536
    BY <1>2 DEF publicAddress, ipv6IsGlobal
  <2>2. \A c \in Carriers : c[3] \in 1..7
    BY DEF Carriers
  <2>3. ASSUME NEW c \in Carriers, InBlock(a, 16, c[1], c[2]),
               NEW b \in Reserved4, InBlock(Octets(a, c[3]), 8, b[1], b[2]), b \notin Overlooked4
        PROVE  FALSE
    <3>1. \A i \in 1..4 : Octets(a, c[3])[i] \in Nat /\ Octets(a, c[3])[i] < 256
      BY <2>1, <2>2, OctetsAreOctets
    <3>2. ~ipv4IsGlobal(Octets(a, c[3]))
      BY <2>3, <3>1, Reserved4IsNotGlobal
    <3> QED BY <2>1, <2>3, <3>2, CarrierIsNotGlobal
  <2>4. \A b \in Reserved6 : InBlock(a, 16, b[1], b[2]) => b \in Overlooked6
    BY <2>1, Reserved6IsNotGlobal
  <2>5. LiesIn(a, Reserved4, Reserved6) => LiesIn(a, Overlooked4, Overlooked6)
    BY <1>2, <2>3, <2>4 DEF LiesIn
  <2> QED BY <2>5 DEF IsReserved, IsOverlooked
<1> QED BY <1>1, <1>2


-----------------------------------------------------------------------------
(* A wallet of one's own *)

Events == [n: Nat, relay: Nat, method: N!Methods]
Calls == [n: Nat, method: N!Methods, relay: Nat, link: {"dialling", "open"}, left: Int]

\* One event for a call, however often it was carried, which says what was called.
Carrying ==
    /\ calls \in Nat /\ released \in BOOLEAN
    /\ call \subseteq Calls /\ \A c, d \in call : c = d
    /\ carried \subseteq Events /\ acted \subseteq carried
    /\ \A c \in call : c.n = calls /\ \A e \in carried : e.n = c.n => e = N!EventOf(c)
    /\ \A e \in carried : e.n <= calls
    /\ \A d, e \in carried : d.n = e.n => d = e

\* The wallet answers what it acted on, and does not make up a settlement.
Answering ==
    \A a \in answers :
       /\ a.event \in acted
       /\ a.event.method = "lookup_invoice" /\ a.result = "preimage" => released

NwcInv == Carrying /\ Answering /\ N!OwnAnswer

LEMMA NwcStarts ==
    ASSUME N!Init
    PROVE  NwcInv
BY DEF N!Init, NwcInv, Carrying, Answering, N!OwnAnswer

\* What becomes of a call under way leaves the call it is.
LEMMA CallGoesOn ==
    ASSUME Carrying, NEW c \in call, NEW d \in Calls, d.n = c.n, d.method = c.method, call' = {d},
           UNCHANGED <<calls, carried, acted, released>>
    PROVE  Carrying'
BY DEF Carrying, N!EventOf

LEMMA CallEnds ==
    ASSUME Carrying, call' = {}, UNCHANGED <<calls, carried, acted, released>>
    PROVE  Carrying'
BY DEF Carrying

LEMMA StepCarries ==
    ASSUME Carrying, N!Next
    PROVE  Carrying'
<1>1. ASSUME NEW m \in N!Methods, N!Ask(m)
      PROVE  Carrying'
  <2> DEFINE new == [n |-> calls + 1, method |-> m, relay |-> 1, link |-> "dialling", left |-> CallDeadline]
  <2>1. new \in Calls /\ new.n = calls + 1
    BY NwcAssumption DEF Carrying, Calls
  <2>2. call' = {new} /\ calls' = calls + 1 /\ UNCHANGED <<carried, acted, released>>
    BY <1>1 DEF N!Ask
  <2>3. \A e \in carried : e.n \in Nat /\ e.n <= calls
    BY DEF Carrying, Events
  <2> HIDE DEF new
  <2> QED BY <2>1, <2>2, <2>3 DEF Carrying
<1>2. ASSUME NEW c \in call, N!Open(c)
      PROVE  Carrying'
  <2>1. [c EXCEPT !.link = "open"] \in Calls /\ [c EXCEPT !.link = "open"].n = c.n
           /\ [c EXCEPT !.link = "open"].method = c.method
    BY DEF Carrying, Calls
  <2> QED BY <1>2, <2>1, CallGoesOn DEF N!Open
<1>3. ASSUME NEW c \in call, N!Carry(c)
      PROVE  Carrying'
  <2>1. N!EventOf(c) \in Events /\ N!EventOf(c).n = c.n
    BY DEF Carrying, Calls, Events, N!EventOf
  <2>2. carried' = carried \cup {N!EventOf(c)} /\ UNCHANGED <<call, calls, acted, released>>
    BY <1>3 DEF N!Carry
  <2> QED BY <2>1, <2>2 DEF Carrying
<1>4. ASSUME NEW c \in call, N!NextRelay(c)
      PROVE  Carrying'
  <2>1. CASE c.relay < Relays
    <3>1. [c EXCEPT !.relay = @ + 1, !.link = "dialling"] \in Calls
           /\ [c EXCEPT !.relay = @ + 1, !.link = "dialling"].n = c.n
           /\ [c EXCEPT !.relay = @ + 1, !.link = "dialling"].method = c.method
      <4>1. c \in Calls
        BY DEF Carrying
      <4>2. [c EXCEPT !.relay = @ + 1, !.link = "dialling"] \in Calls
        <5>1. [c EXCEPT !.relay = @ + 1] \in Calls
          BY <4>1 DEF Calls
        <5>2. \A d \in Calls : [d EXCEPT !.link = "dialling"] \in Calls
          BY DEF Calls
        <5>3. [c EXCEPT !.relay = @ + 1, !.link = "dialling"] = [[c EXCEPT !.relay = @ + 1] EXCEPT !.link = "dialling"]
          OBVIOUS
        <5> QED BY <5>1, <5>2, <5>3
      <4>3. /\ [c EXCEPT !.relay = @ + 1, !.link = "dialling"].n = c.n
            /\ [c EXCEPT !.relay = @ + 1, !.link = "dialling"].method = c.method
        BY <4>1 DEF Calls
      <4> QED BY <4>2, <4>3
    <3> QED BY <1>4, <2>1, <3>1, CallGoesOn DEF N!NextRelay
  <2>2. CASE ~(c.relay < Relays)
    BY <1>4, <2>2, CallEnds DEF N!NextRelay, N!Ends
  <2> QED BY <2>1, <2>2
<1>5. ASSUME NEW c \in call, N!Hear(c) \/ N!Expire(c)
      PROVE  Carrying'
  BY <1>5, CallEnds DEF N!Hear, N!Expire, N!Ends
<1>6. ASSUME NEW c \in call, N!Elapse(c)
      PROVE  Carrying'
  <2>1. [c EXCEPT !.left = @ - 1] \in Calls /\ [c EXCEPT !.left = @ - 1].n = c.n
           /\ [c EXCEPT !.left = @ - 1].method = c.method
    BY DEF Carrying, Calls
  <2> QED BY <1>6, <2>1, CallGoesOn DEF N!Elapse
<1>7. ASSUME NEW e \in carried, N!Act(e)
      PROVE  Carrying'
  BY <1>7 DEF Carrying, N!Act
<1>8. ASSUME N!Release
      PROVE  Carrying'
  BY <1>8 DEF Carrying, N!Release
<1> QED BY <1>1, <1>2, <1>3, <1>4, <1>5, <1>6, <1>7, <1>8 DEF N!Next

LEMMA StepAnswers ==
    ASSUME Carrying, Answering, N!Next
    PROVE  Answering'
<1>1. ASSUME NEW e \in carried, N!Act(e)
      PROVE  Answering'
  <2>1. PICK r \in N!Results(e.method) : answers' = answers \cup {[event |-> e, result |-> r]}
    BY <1>1 DEF N!Act
  <2>2. e.method = "lookup_invoice" /\ r = "preimage" => released
    BY <2>1 DEF N!Results
  <2>3. acted' = acted \cup {e} /\ released' = released
    BY <1>1 DEF N!Act
  <2> QED BY <2>1, <2>2, <2>3 DEF Answering
<1>2. ASSUME N!Release
      PROVE  Answering'
  BY <1>2 DEF N!Release, Answering
<1>3. ASSUME UNCHANGED <<acted, answers, released>>
      PROVE  Answering'
  BY <1>3 DEF Answering
<1> QED BY <1>1, <1>2, <1>3 DEF N!Next, N!Ask, N!Open, N!Carry, N!NextRelay, N!Hear, N!Expire, N!Elapse

\* What a verdict may say of an answer to its own call.
LEMMA JudgedAsAnswered ==
    ASSUME NEW m, NEW r
    PROVE  /\ N!Told(N!Judged(m, r)) = "pending" => r = "none"
           /\ N!Told(N!Judged(m, r)) = "settled" => r = "preimage"
           /\ N!Told("unreachable") = "502"
BY DEF N!Told, N!Judged

LEMMA StepTellsOwnAnswer ==
    ASSUME NwcInv, N!Next
    PROVE  N!OwnAnswer'
<1>1. ASSUME NEW c \in call, N!Ends(c, "unreachable", {}), UNCHANGED released
      PROVE  N!OwnAnswer'
  BY <1>1, JudgedAsAnswered DEF N!Ends, N!OwnAnswer, NwcInv
<1>2. ASSUME NEW c \in call, N!Hear(c)
      PROVE  N!OwnAnswer'
  <2>1. PICK a \in N!Answers(c) : N!Ends(c, N!Judged(c.method, a.result), {a})
    BY <1>2 DEF N!Hear
  <2>2. a \in answers /\ a.event.n = c.n
    BY DEF N!Answers
  <2>3. a.event \in carried /\ a.event.n = c.n => a.event = N!EventOf(c)
    BY <2>2 DEF NwcInv, Carrying, Answering
  <2>4. a.event.method = c.method
    BY <2>2, <2>3 DEF NwcInv, Carrying, Answering, N!EventOf
  <2>5. c.method = "lookup_invoice" /\ a.result = "preimage" => released
    BY <2>2, <2>4 DEF NwcInv, Answering
  <2>6. released' = released
    BY <1>2 DEF N!Hear
  <2> QED BY <2>1, <2>2, <2>5, <2>6, JudgedAsAnswered DEF N!Ends, N!OwnAnswer, NwcInv
<1>3. ASSUME UNCHANGED <<verdicts, released>>
      PROVE  N!OwnAnswer'
  BY <1>3 DEF NwcInv, N!OwnAnswer
<1>4. ASSUME N!Release
      PROVE  N!OwnAnswer'
  BY <1>4 DEF NwcInv, N!OwnAnswer, N!Release
<1> QED BY <1>1, <1>2, <1>3, <1>4
        DEF N!Next, N!Ask, N!Open, N!Carry, N!NextRelay, N!Expire, N!Elapse, N!Act

LEMMA NwcStep ==
    ASSUME NwcInv, N!Next
    PROVE  NwcInv'
BY StepCarries, StepAnswers, StepTellsOwnAnswer DEF NwcInv

-----------------------------------------------------------------------------
(* Requests to the outside *)

Loads == SUBSET {"body", "signature"}
Literals == {u \in Urls : "literal" \in DOMAIN u.host}
Addressed == (UNION Lookups) \cup {u.host.literal : u \in Literals}
Stages == {"lookup", "sending", "reading"}
Hops == [url: Urls, target: Urls, carried: Loads, stays: BOOLEAN, hop: Nat, at: SUBSET Addressed,
         stage: Stages, spare: Nat]

\* A hop goes where it may go, with what it may carry, to addresses that were checked.
HopIsSafe(r) ==
    /\ r.hop <= HopsFollowed
    /\ r.stays => r.target = r.url
    /\ r.carried # {} => r.stays
    /\ \A a \in r.at : publicAddress(a)

OutboundInv == request \subseteq Hops /\ (\A r \in request : HopIsSafe(r)) /\ NothingStrays

LEMMA EveryAddressHasALength ==
    \A a \in Addressed : Len(a) \in {4, 8}
<1>1. \A a \in UNION Lookups : Len(a) \in {4, 8}
  BY AddressesAssumption
<1>2. \A u \in Literals : Len(u.host.literal) \in {4, 8}
  BY AddressesAssumption DEF Literals
<1> QED BY <1>1, <1>2 DEF Addressed

LEMMA AskedIsSafe ==
    ASSUME OutboundInv, NEW url \in Urls, NEW load \in Loads, NEW stays \in BOOLEAN, Asked(url, load, stays),
           load # {} => stays
    PROVE  OutboundInv'
<1> DEFINE new == [url |-> url, target |-> url, carried |-> load, stays |-> stays,
                   hop |-> 0, at |-> {}, stage |-> "lookup", spare |-> Cap]
<1>1. request' = {new} /\ reached' = {}
  BY DEF Asked
<1>2. new \in Hops
  BY CapAssumption DEF Hops, Stages
<1>3. new.hop = 0 /\ new.target = new.url /\ new.at = {} /\ new.carried = load /\ new.stays = stays
  OBVIOUS
<1> HIDE DEF new
<1> QED BY <1>1, <1>2, <1>3, HopsAssumption DEF OutboundInv, HopIsSafe, NothingStrays

LEMMA LookupIsSafe ==
    ASSUME OutboundInv, NEW r \in request, Lookup(r)
    PROVE  OutboundInv'
<1>1. r \in Hops /\ HopIsSafe(r) /\ reached' = reached
  BY DEF OutboundInv, Lookup
<1>2. ASSUME NEW found \in Found(r.target.host), \A a \in found : publicAddress(a),
             request' = {[r EXCEPT !.at = found, !.stage = "sending"]}
      PROVE  OutboundInv'
  <2>1. found \in SUBSET Addressed
    <3>1. r.target \in Urls
      BY <1>1 DEF Hops
    <3>2. CASE "literal" \in DOMAIN r.target.host
      <4>1. r.target \in Literals /\ found = {r.target.host.literal}
        BY <1>2, <3>1, <3>2 DEF Found, Literals
      <4> QED BY <4>1 DEF Addressed
    <3>3. CASE "literal" \notin DOMAIN r.target.host
      BY <1>2, <3>3 DEF Found, Addressed
    <3> QED BY <3>2, <3>3
  <2>2. "sending" \in Stages
    BY DEF Stages
  <2>3. [r EXCEPT !.at = found, !.stage = "sending"] \in Hops
    BY <1>1, <2>1, <2>2 DEF Hops
  <2>4. HopIsSafe([r EXCEPT !.at = found, !.stage = "sending"])
    BY <1>1, <1>2 DEF Hops, HopIsSafe
  <2> QED BY <1>1, <1>2, <2>3, <2>4 DEF OutboundInv, NothingStrays
<1>3. ASSUME Failed
      PROVE  OutboundInv'
  BY <1>1, <1>3 DEF Failed, OutboundInv, NothingStrays
<1> QED BY <1>2, <1>3 DEF Lookup, MayReach

LEMMA ConnectIsSafe ==
    ASSUME OutboundInv, NEW r \in request, NEW late, Connect(r, late)
    PROVE  OutboundInv'
<1>1. r \in Hops /\ HopIsSafe(r)
  BY DEF OutboundInv
<1>2. CASE Failed /\ UNCHANGED reached
  BY <1>2 DEF Failed, OutboundInv, NothingStrays
<1>3. ASSUME NEW a \in r.at, request' = {[r EXCEPT !.stage = "reading"]},
             reached' = {[url |-> r.url, stays |-> r.stays, to |-> r.target, address |-> a,
                          carried |-> r.carried, hop |-> r.hop]}
      PROVE  OutboundInv'
  <2>1. [r EXCEPT !.stage = "reading"] \in Hops /\ HopIsSafe([r EXCEPT !.stage = "reading"])
    BY <1>1 DEF Hops, HopIsSafe, Stages
  <2>2. IsReserved(a) => IsOverlooked(a)
    BY <1>1, ReservedOnlyWhereOverlooked, EveryAddressHasALength DEF HopIsSafe, Hops
  <2>3. NothingStrays'
    BY <1>1, <1>3, <2>2 DEF NothingStrays, HopIsSafe
  <2> QED BY <1>3, <2>1, <2>3 DEF OutboundInv
<1> QED BY <1>2, <1>3 DEF Connect

LEMMA RedirectedIsSafe ==
    ASSUME OutboundInv, NEW r \in request, NEW status, NEW next \in Urls, Redirected(r, status, next)
    PROVE  OutboundInv'
<1>1. r \in Hops /\ HopIsSafe(r) /\ reached' = reached
  BY DEF OutboundInv, Redirected
<1>2. CASE Failed
  BY <1>1, <1>2 DEF Failed, OutboundInv, NothingStrays
<1>3. CASE ~Failed
  <2> DEFINE to == [r EXCEPT !.target = next, !.carried = CarriedOn(r, status),
                             !.hop = @ + 1, !.at = {}, !.stage = "lookup"]
  <2>1. request' = {to} /\ (r.stays => r.target = next) /\ r.hop # HopsFollowed
    BY <1>3 DEF Redirected, sameOrigin
  <2>2. CarriedOn(r, status) \in Loads /\ (CarriedOn(r, status) # {} => r.carried # {})
    BY <1>1 DEF CarriedOn, Hops, Loads
  <2>3. r.hop + 1 \in Nat /\ {} \in SUBSET Addressed /\ "lookup" \in Stages
    BY <1>1 DEF Hops, Stages
  <2>4. to \in Hops
    BY <1>1, <2>2, <2>3 DEF Hops
  <2>5. /\ to.hop = r.hop + 1 /\ to.carried = CarriedOn(r, status) /\ to.target = next
        /\ to.url = r.url /\ to.stays = r.stays /\ to.at = {}
    BY <1>1 DEF Hops
  <2>6. r.hop + 1 <= HopsFollowed
    BY <1>1, <2>1, HopsAssumption DEF Hops, HopIsSafe
  <2> HIDE DEF to
  <2>7. HopIsSafe(to)
    BY <1>1, <2>1, <2>2, <2>5, <2>6 DEF HopIsSafe
  <2> QED BY <1>1, <2>1, <2>4, <2>7 DEF OutboundInv, NothingStrays
<1> QED BY <1>2, <1>3

LEMMA QuietIsSafe ==
    ASSUME OutboundInv, request' \subseteq request, reached' \subseteq reached
    PROVE  OutboundInv'
BY DEF OutboundInv, NothingStrays

LEMMA ElapsedIsSafe ==
    ASSUME OutboundInv, Elapsed, reached' = reached
    PROVE  OutboundInv'
<1>1. ASSUME NEW r \in request
      PROVE  LET s == [r EXCEPT !.spare = IF @ > 0 THEN @ - 1 ELSE 0]
             IN  s \in Hops /\ HopIsSafe(s)
  <2>1. r \in Hops /\ HopIsSafe(r)
    BY DEF OutboundInv
  <2>2. (IF r.spare > 0 THEN r.spare - 1 ELSE 0) \in Nat
    BY <2>1 DEF Hops
  <2> QED BY <2>1, <2>2 DEF Hops, HopIsSafe
<1> QED BY <1>1 DEF OutboundInv, Elapsed, NothingStrays

-----------------------------------------------------------------------------
(* The walk *)

Whys == {"unreachable"} \cup {Refusal[kind] : kind \in DOMAIN Refusal}
Wallets == [url: Urls, callback: Urls, kind: Kinds]
Steps == {"turn", "payRequest", "callback", "invoice"}
Walkers == [quotes: BOOLEAN, place: Nat, step: Steps, refusals: Seq(Whys)]

\* Why the i-th on the list was passed over.
Passed(refusals, i) ==
    \/ i \in lost /\ refusals[i] = "unreachable"
    \/ list[i].kind \in DOMAIN Refusal /\ refusals[i] = Refusal[list[i].kind]

\* Everybody before the one whose turn it is was passed over for a reason.
Underway(w) ==
    /\ w \in Walkers
    /\ list \in Seq(Wallets) /\ w.place \in 1..Len(list)
    /\ Len(w.refusals) = w.place - 1
    /\ \A i \in 1..Len(w.refusals) : Passed(w.refusals, i)
    /\ w.step # "turn" => list[w.place].kind \notin AtOnce

WalkInv ==
    /\ left \in Nat
    /\ walk # {} => ended = {}
    /\ \A w \in walk : Underway(w)
    /\ FirstThatServes

LEMMA KindsAreKnown ==
    /\ AtOnce \subseteq DOMAIN Refusal /\ ByPayRequest \subseteq DOMAIN Refusal
    /\ \A kind \in DOMAIN Refusal : Refusal[kind] \in Whys
<1>2. AtOnce \subseteq DOMAIN Refusal /\ ByPayRequest \subseteq DOMAIN Refusal
  BY DEF AtOnce, ByPayRequest, Refusal
<1>3. \A kind \in DOMAIN Refusal : Refusal[kind] \in Whys
  BY DEF Whys
<1> QED BY <1>2, <1>3

LEMMA InList ==
    ASSUME WalkInv, NEW w \in walk
    PROVE  /\ Underway(w)
           /\ list[w.place].url \in Urls /\ list[w.place].callback \in Urls /\ list[w.place].kind \in Kinds
<1>1. Underway(w)
  BY DEF WalkInv
<1>2. list[w.place] \in Wallets
  BY <1>1 DEF Underway
<1> QED BY <1>1, <1>2 DEF Wallets

\* What is told of those passed over does not change when one more is.
LEMMA OneMoreRefused ==
    ASSUME NEW w, Underway(w), NEW why \in Whys, lost \subseteq lost', list' = list,
           \/ w.place \in lost' /\ why = "unreachable"
           \/ list[w.place].kind \in DOMAIN Refusal /\ why = Refusal[list[w.place].kind]
    PROVE  /\ Append(w.refusals, why) \in Seq(Whys) /\ Len(Append(w.refusals, why)) = w.place
           /\ \A i \in 1..w.place : Passed(Append(w.refusals, why), i)'
<1>1. w.refusals \in Seq(Whys) /\ w.place \in Nat /\ Len(w.refusals) = w.place - 1
  BY DEF Underway, Walkers
<1>2. /\ Append(w.refusals, why) \in Seq(Whys) /\ Len(Append(w.refusals, why)) = w.place
      /\ Append(w.refusals, why)[w.place] = why
      /\ \A i \in 1..w.place - 1 : Append(w.refusals, why)[i] = w.refusals[i]
  BY <1>1
<1>3. \A i \in 1..w.place - 1 : Passed(Append(w.refusals, why), i)'
  BY <1>1, <1>2 DEF Passed, Underway
<1>4. Passed(Append(w.refusals, why), w.place)'
  BY <1>2 DEF Passed
<1>5. \A i \in 1..w.place : i \in 1..w.place - 1 \/ i = w.place
  BY <1>1
<1> QED BY <1>2, <1>3, <1>4, <1>5

LEMMA RefusedGoesOn ==
    ASSUME WalkInv, NEW w \in walk, NEW why \in Whys, Refused(w, why),
           lost \subseteq lost', UNCHANGED <<list, left>>,
           \/ w.place \in lost' /\ why = "unreachable"
           \/ list[w.place].kind \in DOMAIN Refusal /\ why = Refusal[list[w.place].kind]
    PROVE  WalkInv'
<1>0. Underway(w) /\ ended = {}
  BY DEF WalkInv
<1>1. /\ Append(w.refusals, why) \in Seq(Whys) /\ Len(Append(w.refusals, why)) = w.place
      /\ \A i \in 1..w.place : Passed(Append(w.refusals, why), i)'
  BY <1>0, OneMoreRefused
<1>2. CASE w.place < Len(list)
  <2> DEFINE v == [w EXCEPT !.place = @ + 1, !.step = "turn", !.refusals = Append(@, why)]
  <2>1. walk' = {v} /\ ended' = ended
    BY <1>2 DEF Refused
  <2>2. w.place + 1 \in Nat /\ "turn" \in Steps /\ w \in Walkers
    BY <1>0 DEF Underway, Walkers, Steps
  <2>3. v \in Walkers
    BY <1>1, <2>2 DEF Walkers
  <2>4. v.place = w.place + 1 /\ v.refusals = Append(w.refusals, why) /\ v.step = "turn"
    BY <2>2 DEF Walkers
  <2> HIDE DEF v
  <2>5. v.place \in 1..Len(list) /\ Len(v.refusals) = v.place - 1
    BY <1>0, <1>1, <1>2, <2>4 DEF Underway
  <2>6. Underway(v)'
    BY <1>0, <1>1, <2>3, <2>4, <2>5 DEF Underway
  <2> QED BY <1>0, <2>1, <2>6 DEF WalkInv, FirstThatServes
<1>3. CASE ~(w.place < Len(list))
  <2>1. walk' = {}
        /\ ended' = {[quotes |-> w.quotes, how |-> "none", place |-> w.place,
                       refusals |-> Append(w.refusals, why)]}
    BY <1>3 DEF Refused, Ends
  <2>2. w.place = Len(list)
    BY <1>0, <1>3 DEF Underway
  <2> QED BY <1>1, <2>1, <2>2 DEF WalkInv, FirstThatServes, Passed
<1> QED BY <1>2, <1>3

LEMMA EndsWell ==
    ASSUME WalkInv, NEW w \in walk, NEW how \in {"none", "threw", "won"}, Ends(w, how, w.refusals),
           UNCHANGED <<list, left, lost>>,
           how = "none" => left = 0,
           how = "threw" => list[w.place].kind \in DOMAIN ThrowsAt,
           how = "won" => Serves(list[w.place].kind, w.quotes)
    PROVE  WalkInv'
<1>1. Underway(w)
  BY DEF WalkInv
<1> DEFINE e == [quotes |-> w.quotes, how |-> how, place |-> w.place, refusals |-> w.refusals]
<1>2. walk' = {} /\ ended' = {e}
  BY DEF Ends
<1>5. e.quotes = w.quotes /\ e.how = how /\ e.place = w.place /\ e.refusals = w.refusals
  OBVIOUS
<1> HIDE DEF e
<1>3. Len(w.refusals) = w.place - 1 /\ w.place \in Nat
  BY <1>1 DEF Underway, Walkers
<1>4. \A i \in 1..Len(w.refusals) : Passed(w.refusals, i)'
  BY <1>1 DEF Underway, Passed
<1>6. Len(e.refusals) + 1 = w.place
  BY <1>3, <1>5
<1>7. FirstThatServes'
  BY <1>2, <1>4, <1>5, <1>6 DEF FirstThatServes, Passed
<1> QED BY <1>2, <1>7 DEF WalkInv

\* The next request of the one whose turn it is.
LEMMA StepsOn ==
    ASSUME WalkInv, NEW w \in walk, NEW step \in Steps, walk' = {[w EXCEPT !.step = step]},
           UNCHANGED <<list, left, lost, ended>>, list[w.place].kind \notin AtOnce
    PROVE  WalkInv'
<1> DEFINE v == [w EXCEPT !.step = step]
<1>1. Underway(w)
  BY DEF WalkInv
<1>2. v \in Walkers /\ v.place = w.place /\ v.refusals = w.refusals
  BY <1>1 DEF Underway, Walkers
<1>3. walk' = {v}
  OBVIOUS
<1> HIDE DEF v
<1>4. Underway(v)'
  BY <1>1, <1>2 DEF Underway, Passed
<1> QED BY <1>3, <1>4 DEF WalkInv, FirstThatServes

LEMMA WalkStays ==
    ASSUME WalkInv, UNCHANGED <<list, walk, ended, lost>>, left' \in Nat, left = 0 => left' = 0
    PROVE  WalkInv'
BY DEF WalkInv, Underway, Passed, FirstThatServes

\* The requests and the walk that makes them.
LEMMA WalkStarts ==
    ASSUME WalkInit
    PROVE  OutboundInv /\ WalkInv
BY DEF WalkInit, Init, OutboundInv, NothingStrays, WalkInv, FirstThatServes

LEMMA Begins ==
    ASSUME OutboundInv, WalkInv, NEW addresses \in Lists, NEW quotes \in BOOLEAN, Walks(addresses, quotes)
    PROVE  OutboundInv' /\ WalkInv'
<1> DEFINE v == [quotes |-> quotes, place |-> 1, step |-> "turn", refusals |-> <<>>]
<1>1. walk' = {v} /\ list' = addresses /\ left' = Deadline /\ ended' = {} /\ UNCHANGED <<request, reached>>
  BY DEF Walks, ask
<1>2. addresses \in Seq(Wallets) /\ addresses # <<>>
  BY ListsAssumption DEF Wallets
<1>3. Len(addresses) \in Nat /\ Len(addresses) # 0
  BY <1>2
<1>4. v \in Walkers /\ v.place = 1 /\ v.refusals = <<>> /\ v.step = "turn"
  BY DEF Walkers, Steps
<1> HIDE DEF v
<1>5. v.place \in 1..Len(addresses) /\ Len(v.refusals) = 0
  BY <1>3, <1>4
<1>6. Underway(v)'
  BY <1>1, <1>2, <1>4, <1>5 DEF Underway
<1>7. WalkInv'
  BY <1>1, <1>6, DeadlineAssumption DEF WalkInv, FirstThatServes
<1> QED BY <1>1, <1>7, QuietIsSafe

LEMMA TurnKeeps ==
    ASSUME OutboundInv, WalkInv, NEW w \in walk, Turn(w)
    PROVE  OutboundInv' /\ WalkInv'
<1>0. UNCHANGED <<list, left, lost>> /\ list[w.place].url \in Urls
  BY InList DEF Turn
<1>1. CASE left = 0 /\ Ends(w, "none", w.refusals) /\ UNCHANGED ask
  BY <1>0, <1>1, EndsWell, QuietIsSafe DEF ask
<1>2. CASE list[w.place].kind \in AtOnce /\ Refused(w, Refusal[list[w.place].kind]) /\ UNCHANGED ask
  <2>1. list[w.place].kind \in DOMAIN Refusal /\ Refusal[list[w.place].kind] \in Whys
    BY <1>2, KindsAreKnown
  <2> QED BY <1>0, <1>2, <2>1, RefusedGoesOn, QuietIsSafe DEF ask
<1>3. CASE /\ list[w.place].kind \notin AtOnce /\ Asked(list[w.place].url, {}, FALSE)
           /\ walk' = {[w EXCEPT !.step = "payRequest"]} /\ UNCHANGED ended
  <2>1. {} \in Loads /\ "payRequest" \in Steps
    BY DEF Loads, Steps
  <2> QED BY <1>0, <1>3, <2>1, AskedIsSafe, StepsOn
<1> QED BY <1>1, <1>2, <1>3 DEF Turn

LEMMA HeardKeeps ==
    ASSUME OutboundInv, WalkInv, NEW w \in walk,
           HeardNothing(w) \/ HeardPayRequest(w) \/ HeardInvoice(w)
    PROVE  OutboundInv' /\ WalkInv'
<1>0. list' = list /\ left' = left /\ lost \subseteq lost' /\ Underway(w)
  BY InList DEF HeardNothing, HeardPayRequest, HeardInvoice
<1>1. OutboundInv'
  BY QuietIsSafe DEF HeardNothing, HeardPayRequest, HeardInvoice, Taken
<1>2. CASE HeardNothing(w)
  <2>1. Refused(w, "unreachable") /\ w.place \in lost'
    BY <1>2 DEF HeardNothing
  <2>2. "unreachable" \in Whys
    BY DEF Whys
  <2> QED BY <1>0, <1>1, <2>1, <2>2, RefusedGoesOn
<1>3. ASSUME NEW kind \in DOMAIN Refusal, kind = list[w.place].kind, Refused(w, Refusal[kind])
      PROVE  WalkInv'
  <2>1. Refusal[kind] \in Whys
    BY KindsAreKnown
  <2> QED BY <1>0, <1>3, <2>1, RefusedGoesOn
<1>4. CASE HeardPayRequest(w)
  <2>0. lost' = lost /\ list[w.place].kind \notin AtOnce
    BY <1>0, <1>4 DEF HeardPayRequest, Underway
  <2>1. CASE Throws(list[w.place].kind, w.step) /\ Ends(w, "threw", w.refusals)
    BY <1>1, <1>0, <2>0, <2>1, EndsWell DEF Throws
  <2>2. CASE list[w.place].kind \in ByPayRequest /\ Refused(w, Refusal[list[w.place].kind])
    BY <1>1, <1>3, <2>2, KindsAreKnown
  <2>3. CASE /\ ~Throws(list[w.place].kind, w.step) /\ list[w.place].kind \notin ByPayRequest
             /\ w.quotes /\ Ends(w, "won", w.refusals)
    <3>1. list[w.place].kind # "throws"
      BY <1>4, <2>3 DEF Throws, ThrowsAt, HeardPayRequest
    <3>2. Serves(list[w.place].kind, w.quotes)
      BY <2>0, <2>3, <3>1 DEF Serves
    <3> QED BY <1>1, <1>0, <2>0, <2>3, <3>2, EndsWell
  <2>4. CASE walk' = {[w EXCEPT !.step = "callback"]} /\ UNCHANGED ended
    BY <1>1, <1>0, <2>0, <2>4, StepsOn DEF Steps
  <2> QED BY <1>1, <1>4, <2>1, <2>2, <2>3, <2>4 DEF HeardPayRequest
<1>5. CASE HeardInvoice(w)
  <2>0. lost' = lost /\ w.step = "invoice"
    BY <1>5 DEF HeardInvoice
  <2>1. CASE Throws(list[w.place].kind, w.step) /\ Ends(w, "threw", w.refusals)
    BY <1>1, <1>0, <2>0, <2>1, EndsWell DEF Throws
  <2>2. CASE Proves(list[w.place].kind) /\ Ends(w, "won", w.refusals)
    <3>1. Serves(list[w.place].kind, w.quotes)
      BY <2>2 DEF Serves, Proves
    <3> QED BY <1>1, <1>0, <2>0, <2>2, <3>1, EndsWell
  <2>3. CASE list[w.place].kind \in DOMAIN Refusal /\ Refused(w, Refusal[list[w.place].kind])
    BY <1>1, <1>0, <1>3, <2>0, <2>3, KindsAreKnown
  <2> QED BY <1>1, <1>5, <2>1, <2>2, <2>3 DEF HeardInvoice
<1> QED BY <1>1, <1>2, <1>4, <1>5

LEMMA CallbackKeeps ==
    ASSUME OutboundInv, WalkInv, NEW w \in walk, Callback(w)
    PROVE  OutboundInv' /\ WalkInv'
<1>1. list[w.place].callback \in Urls /\ {} \in Loads /\ "invoice" \in Steps
  BY InList DEF Loads, Steps
<1>2. UNCHANGED <<list, left, lost>> /\ list[w.place].kind \notin AtOnce
  BY InList DEF Callback, Underway
<1>3. CASE Throws(list[w.place].kind, w.step) /\ Ends(w, "threw", w.refusals) /\ UNCHANGED ask
  BY <1>2, <1>3, EndsWell, QuietIsSafe DEF Throws, ask
<1>4. CASE /\ Asked(list[w.place].callback, {}, FALSE)
           /\ walk' = {[w EXCEPT !.step = "invoice"]} /\ UNCHANGED ended
  BY <1>1, <1>2, <1>4, AskedIsSafe, StepsOn
<1> QED BY <1>3, <1>4 DEF Callback

LEMMA AsksKeep ==
    ASSUME OutboundInv, WalkInv, NEW what, NEW url \in Urls, Asks(what, url)
    PROVE  OutboundInv' /\ WalkInv'
<1>1. UNCHANGED <<list, walk, left, ended, lost>>
  BY DEF Asks, walking
<1>2. {} \in Loads /\ {"body", "signature"} \in Loads
  BY DEF Loads
<1>3. OutboundInv'
  BY <1>2, AskedIsSafe DEF Asks
<1>4. WalkInv'
  BY <1>1, WalkStays DEF WalkInv
<1> QED BY <1>3, <1>4

LEMMA OnwardKeeps ==
    ASSUME OutboundInv, WalkInv, NEW r \in request, Onward(r)
    PROVE  OutboundInv' /\ WalkInv'
<1>1. UNCHANGED <<list, walk, left, ended, lost>>
  BY DEF Onward, walking
<1>2. WalkInv'
  BY <1>1, WalkStays DEF WalkInv
<1>3. ASSUME NEW said, Answered(r, said)
      PROVE  OutboundInv'
  BY <1>3, QuietIsSafe DEF Answered
<1>4. ASSUME Breaks(r)
      PROVE  OutboundInv'
  BY <1>4, QuietIsSafe DEF Breaks, Failed
<1> QED BY <1>2, <1>3, <1>4, LookupIsSafe, ConnectIsSafe, RedirectedIsSafe DEF Onward

LEMMA WalkStep ==
    ASSUME OutboundInv, WalkInv, WalkNext
    PROVE  OutboundInv' /\ WalkInv'
<1>1. ASSUME NEW addresses \in Lists, Resolves(addresses) \/ Quotes(addresses)
      PROVE  OutboundInv' /\ WalkInv'
  BY <1>1, Begins DEF Resolves, Quotes
<1>2. ASSUME NEW what \in purpose, Concludes(what)
      PROVE  OutboundInv' /\ WalkInv'
  <2>1. request' = request /\ reached' = {} /\ UNCHANGED <<list, walk, left, ended, lost>>
    BY <1>2 DEF Concludes, Taken, walking
  <2> QED BY <2>1, QuietIsSafe, WalkStays DEF WalkInv
<1>3. ASSUME Elapse
      PROVE  OutboundInv' /\ WalkInv'
  <2>1. left' \in Nat /\ (left = 0 => left' = 0)
    BY <1>3 DEF Elapse, WalkInv
  <2> QED BY <1>3, <2>1, ElapsedIsSafe, WalkStays DEF Elapse
<1> QED BY <1>1, <1>2, <1>3, TurnKeeps, HeardKeeps, CallbackKeeps, AsksKeep, OnwardKeeps DEF WalkNext

-----------------------------------------------------------------------------
(* Minting *)

\* An invoice is told by its number.
Numbered ==
    /\ now \in Nat /\ minted \in Nat /\ IsFiniteSet(invoices)
    /\ \A i \in invoices : i.n \in Nat /\ i.n <= Cardinality(invoices) /\ i.at \in Nat
    /\ \A i \in invoices : i.by = i.commits /\ i.by \in Accounts
    /\ \A i, j \in invoices : i.n = j.n => i = j
    /\ \A n \in known \cup paid : n \in Nat /\ n <= Cardinality(invoices)

MintStages == {"asked", "payRequest", "verify", "proved", "watching"}
IsMint(m) ==
    /\ m \in [id: Nat, order: {m.order}, askedAt: Nat, paidThen: {m.paidThen}, stage: MintStages, said: {m.said}]
    /\ m.paidThen \subseteq paid

\* The invoice is for this order, and not from before it was asked for.
Suits(i, m) == i.amount = m.order.amount /\ i.at >= m.askedAt - Skew
ForOrder(i, m) == i \in invoices /\ Suits(i, m)

\* A gateway's answer as far as it has been proved.
Proving(m) ==
    \A s \in m.said :
       /\ Suits(s.invoice, m)
       /\ s.invoice.by = Forger \/ (s.invoice \in invoices /\ s.invoice.n \in known)
       /\ s.lnAddress \in m.order.paidTo \cap Accounts
       /\ m.stage \in {"verify", "proved"} =>
             s.invoice.commits = s.lnAddress /\ s.verify[1] = OriginOf[s.lnAddress]
       /\ m.stage = "proved" => s.invoice \in invoices /\ s.invoice.n \notin m.paidThen

\* An invoice minted here is known to nobody, paid by nobody and nobody else's.
Hidden(m) ==
    \A s \in m.said :
       /\ ForOrder(s.invoice, m) /\ s.invoice.by \in m.order.paidTo
       /\ s.invoice.n \notin known \cup paid
       /\ \A g \in given : g.invoice.n # s.invoice.n
       /\ \A o \in mints : o.stage = "watching" /\ o # m => \A t \in o.said : t.invoice.n # s.invoice.n

Underhand == \A m \in mints : IsMint(m) /\ IF m.stage = "watching" THEN Hidden(m) ELSE Proving(m)

\* What was given is kept apart: an invoice that came from a gateway by its entry, until
\* that lapses; one that was minted here by being nobody else's, until the gateway sees it.
GivenRight(g) ==
    /\ g.invoice \in invoices /\ g.at \in Nat /\ g.at <= now /\ g.here \in BOOLEAN
    /\ g.invoice.by \in g.order.paidTo /\ g.invoice.amount = g.order.amount
    /\ g.invoice.at >= g.askedAt - Skew /\ ~g.wasPaid
    /\ ~g.here => g.until \in Nat /\ g.invoice.n \in known
Remembered(p) == [hash |-> p.invoice.n, key |-> p.order.key, until |-> p.until] \in handedOut
Entered(g) ==
    ~g.here =>
       \E p \in given :
          /\ p.invoice.n = g.invoice.n /\ ~p.here /\ g.at <= p.at
          /\ p.until <= now \/ (p.order.key = g.order.key /\ Remembered(p))
Sole(g) == g.here => \A h \in given : h.here /\ h.invoice.n = g.invoice.n => h = g
Apart(g, h) ==
    h.invoice.n = g.invoice.n /\ h # g =>
       \/ h.order.key = g.order.key /\ h.order.key # NoKey
       \/ M!Forgotten(g, h)
       \/ M!MintedHere(g, h)

HandedInv ==
    /\ \A g \in given : GivenRight(g) /\ Entered(g) /\ Sole(g)
    /\ \A g, h \in given : Apart(g, h)

MintInv == Numbered /\ Underhand /\ HandedInv

LEMMA MintInvSuffices ==
    ASSUME MintInv
    PROVE  M!EachOrderItsOwnInvoice
BY DEF MintInv, HandedInv, GivenRight, Apart, M!EachOrderItsOwnInvoice

LEMMA MintStarts ==
    ASSUME M!MintInit
    PROVE  MintInv
<1>1. IsFiniteSet(invoices)
  BY FS_EmptySet DEF M!MintInit
<1> QED BY <1>1 DEF M!MintInit, MintInv, Numbered, Underhand, HandedInv

\* What was given keeps standing when invoices are issued and seen.
LEMMA GivenStands ==
    ASSUME MintInv, invoices \subseteq invoices', known \subseteq known', UNCHANGED <<now, handedOut, given>>
    PROVE  HandedInv'
<1>1. \A g \in given : GivenRight(g)'
  BY DEF MintInv, HandedInv, GivenRight
<1>2. \A g \in given : Entered(g)'
  <2>1. \A p \in given : Remembered(p) => Remembered(p)'
    BY DEF Remembered
  <2> QED BY <2>1 DEF MintInv, HandedInv, Entered
<1>3. \A g \in given : Sole(g)'
  BY DEF MintInv, HandedInv, Sole
<1>4. \A g, h \in given : Apart(g, h)'
  BY DEF MintInv, HandedInv, Apart, M!Forgotten, M!MintedHere
<1> QED BY <1>1, <1>2, <1>3, <1>4 DEF HandedInv

\* A mint that begins, or goes on, and those that are thrown.
LEMMA MintsGoOn ==
    ASSUME MintInv, NEW q, IsMint(q), q.stage # "watching", Proving(q), mints' \subseteq mints \cup {q},
           minted' \in Nat, UNCHANGED <<now, invoices, paid, known, handedOut, given>>
    PROVE  MintInv'
<1>1. Numbered'
  BY DEF MintInv, Numbered
<1>2. HandedInv'
  BY GivenStands
<1>3. Underhand'
  <2>1. ASSUME NEW m \in mints', m.stage = "watching"
        PROVE  IsMint(m)' /\ Hidden(m)'
    BY <2>1 DEF MintInv, Underhand, Hidden, ForOrder, Suits, IsMint
  <2>2. ASSUME NEW m \in mints', m.stage # "watching"
        PROVE  IsMint(m)' /\ Proving(m)'
    BY <2>2 DEF MintInv, Underhand, Proving, ForOrder, Suits, IsMint
  <2> QED BY <2>1, <2>2 DEF Underhand
<1> QED BY <1>1, <1>2, <1>3 DEF MintInv

LEMMA MintsAreThrown ==
    ASSUME MintInv, mints' \subseteq mints, UNCHANGED <<now, invoices, paid, known, handedOut, given, minted>>
    PROVE  MintInv'
<1>1. Numbered'
  BY DEF MintInv, Numbered
<1>2. HandedInv'
  BY GivenStands
<1>3. Underhand'
  BY DEF MintInv, Underhand, Hidden, Proving, ForOrder, Suits, IsMint
<1> QED BY <1>1, <1>2, <1>3 DEF MintInv

\* Cardinality is the same there as here.
LEMMA SameCardinality ==
    ASSUME NEW S
    PROVE  M!Cardinality(S) = Cardinality(S)
BY DEF M!Cardinality, Cardinality, M!IsFiniteSet, IsFiniteSet

\* A fresh invoice has a number of its own.
LEMMA FreshIsNumbered ==
    ASSUME Numbered, NEW i, i.n = Cardinality(invoices) + 1, i.at \in Nat, i.by = i.commits, i.by \in Accounts,
           invoices' = invoices \cup {i},
           known' \subseteq known \cup {i.n}, paid' = paid, now' = now, minted' \in Nat
    PROVE  Numbered' /\ (\A j \in invoices : j.n # i.n) /\ i.n \notin known \cup paid
<1>1. Cardinality(invoices) \in Nat
  BY FS_CardinalityType DEF Numbered
<1>2. (\A j \in invoices : j.n # i.n) /\ i.n \notin known \cup paid
  BY <1>1 DEF Numbered
<1>3. IsFiniteSet(invoices') /\ Cardinality(invoices') = Cardinality(invoices) + 1
  BY <1>2, FS_AddElement DEF Numbered
<1>4. \A j \in invoices' : j.n \in Nat /\ j.n <= Cardinality(invoices') /\ j.at \in Nat
  BY <1>1, <1>3 DEF Numbered
<1>5. \A j, k \in invoices' : j.n = k.n => j = k
  BY <1>2 DEF Numbered
<1>6. \A n \in known' \cup paid' : n \in Nat /\ n <= Cardinality(invoices')
  BY <1>1, <1>3 DEF Numbered
<1>7. Numbered'
  BY <1>3, <1>4, <1>5, <1>6 DEF Numbered
<1> QED BY <1>2, <1>7

\* A fresh invoice is its address's.
LEMMA FreshIsGenuine ==
    ASSUME NEW a, NEW v, NEW i, i = M!Fresh(a, v)
    PROVE  i.n = Cardinality(invoices) + 1 /\ i.by = a /\ i.commits = a /\ i.amount = v /\ i.at = now
<1>1. i = [n |-> Cardinality(invoices) + 1, by |-> a, commits |-> a, amount |-> v, at |-> now]
  BY SameCardinality DEF M!Fresh
<1> QED BY <1>1

LEMMA IssueKeeps ==
    ASSUME MintInv, NEW a \in Accounts, NEW v, M!Issue(a, v)
    PROVE  MintInv'
<1> DEFINE i == M!Fresh(a, v)
<1>1. i.n = Cardinality(invoices) + 1 /\ i.at = now /\ i.by = a /\ i.commits = a
  BY FreshIsGenuine
<1>2. /\ invoices' = invoices \cup {i} /\ known' = known \cup {i.n}
      /\ UNCHANGED <<now, paid, mints, handedOut, given, minted>>
  BY DEF M!Issue
<1> HIDE DEF i
<1>3. Numbered' /\ (\A j \in invoices : j.n # i.n) /\ i.n \notin known \cup paid
  BY <1>1, <1>2, FreshIsNumbered DEF MintInv, Numbered
<1>4. HandedInv'
  BY <1>2, <1>3, GivenStands
<1>5. Underhand'
  BY <1>2, <1>3 DEF MintInv, Underhand, Hidden, Proving, ForOrder, Suits, IsMint
<1> QED BY <1>3, <1>4, <1>5 DEF MintInv

LEMMA PayKeeps ==
    ASSUME MintInv, NEW i \in invoices, M!Pay(i)
    PROVE  MintInv'
<1>1. /\ i.n \in known \/ \E g \in given : g.invoice = i
      /\ paid' = paid \cup {i.n} /\ UNCHANGED <<now, invoices, known, mints, handedOut, given, minted>>
  BY DEF M!Pay
<1>2. Numbered'
  BY <1>1 DEF MintInv, Numbered
<1>3. HandedInv'
  BY <1>1, GivenStands
<1>4. ASSUME NEW m \in mints, m.stage = "watching", NEW s \in m.said
      PROVE  s.invoice.n # i.n
  BY <1>1, <1>4 DEF MintInv, Underhand, Hidden
<1>5. Underhand'
  BY <1>1, <1>4 DEF MintInv, Underhand, Hidden, Proving, ForOrder, Suits, IsMint
<1> QED BY <1>2, <1>3, <1>5 DEF MintInv

LEMMA TickKeeps ==
    ASSUME MintInv, M!Tick
    PROVE  MintInv'
<1>1. now' = now + 1 /\ UNCHANGED <<invoices, paid, known, mints, handedOut, given, minted>>
  BY DEF M!Tick
<1>2. Numbered'
  BY <1>1 DEF MintInv, Numbered
<1>3. Underhand'
  BY <1>1 DEF MintInv, Underhand, Hidden, Proving, ForOrder, Suits, IsMint
<1>4. \A g \in given : GivenRight(g)' /\ Sole(g)'
  BY <1>1 DEF MintInv, Numbered, HandedInv, GivenRight, Sole
<1>5. \A p \in given : ~p.here /\ p.until <= now => p.until <= now'
  BY <1>1 DEF MintInv, Numbered, HandedInv, GivenRight
<1>6. \A g \in given : Entered(g)'
  BY <1>1, <1>5 DEF MintInv, HandedInv, Entered, Remembered
<1>7. \A g, h \in given : Apart(g, h)'
  BY <1>1 DEF MintInv, HandedInv, Apart, M!Forgotten, M!MintedHere
<1> QED BY <1>1, <1>2, <1>3, <1>4, <1>6, <1>7 DEF MintInv, HandedInv

\* What the gateway sees then was given already.
LEMMA ShowKeeps ==
    ASSUME MintInv, NEW x \in given, M!Show(x)
    PROVE  MintInv'
<1>1. known' = known \cup {x.invoice.n} /\ UNCHANGED <<now, invoices, paid, mints, handedOut, given, minted>>
  BY DEF M!Show
<1>2. x.invoice \in invoices
  BY DEF MintInv, HandedInv, GivenRight
<1>3. Numbered'
  BY <1>1, <1>2 DEF MintInv, Numbered
<1>4. HandedInv'
  BY <1>1, GivenStands
<1>5. ASSUME NEW m \in mints, m.stage = "watching", NEW s \in m.said
      PROVE  s.invoice.n # x.invoice.n
  BY <1>5 DEF MintInv, Underhand, Hidden
<1>6. Underhand'
  BY <1>1, <1>5 DEF MintInv, Underhand, Hidden, Proving, ForOrder, Suits, IsMint
<1> QED BY <1>3, <1>4, <1>6 DEF MintInv

LEMMA MintKeeps ==
    ASSUME MintInv, NEW o, M!Mint(o)
    PROVE  MintInv'
<1> DEFINE q == [id |-> minted, order |-> o, askedAt |-> now, paidThen |-> paid, stage |-> "asked", said |-> {}]
<1>1. /\ mints' = mints \cup {q} /\ minted' = minted + 1
      /\ UNCHANGED <<now, invoices, paid, known, handedOut, given>>
  BY DEF M!Mint, M!Begun
<1>2. IsMint(q) /\ q.stage = "asked" /\ q.said = {}
  BY DEF IsMint, MintStages, MintInv, Numbered
<1> HIDE DEF q
<1>3. Proving(q) /\ minted' \in Nat
  BY <1>1, <1>2 DEF Proving, MintInv, Numbered
<1> QED BY <1>1, <1>2, <1>3, MintsGoOn

LEMMA AnswerKeeps ==
    ASSUME MintInv, NEW m \in mints, NEW i \in M!Presented, NEW a \in Accounts, NEW verify, M!Answer(m, i, a, verify)
    PROVE  MintInv'
<1> DEFINE s == [invoice |-> i, lnAddress |-> a, verify |-> verify]
<1> DEFINE q == [m EXCEPT !.stage = "payRequest", !.said = {s}]
<1>1. /\ m.stage = "asked" /\ M!Agrees(m, i, a) /\ mints' = (mints \ {m}) \cup {q}
      /\ UNCHANGED <<now, invoices, paid, known, handedOut, given, minted>>
  BY DEF M!Answer
<1>2. IsMint(m)
  BY DEF MintInv, Underhand
<1>3. "payRequest" \in MintStages
  BY DEF MintStages
<1>4. /\ q \in [id: Nat, order: {m.order}, askedAt: Nat, paidThen: {m.paidThen}, stage: MintStages, said: {{s}}]
      /\ q.stage = "payRequest" /\ q.said = {s}
      /\ q.order = m.order /\ q.askedAt = m.askedAt /\ q.paidThen = m.paidThen
  BY <1>2, <1>3 DEF IsMint
<1>7. s.invoice = i /\ s.lnAddress = a
  OBVIOUS
<1> HIDE DEF q, s
<1>5. IsMint(q)
  BY <1>2, <1>4 DEF IsMint
<1>8. i.by = Forger \/ (i \in invoices /\ i.n \in known)
  BY DEF M!Presented, M!Forged
<1>6. Proving(q)
  BY <1>1, <1>4, <1>7, <1>8 DEF Proving, Suits, M!Agrees
<1> QED BY <1>1, <1>4, <1>5, <1>6, MintsGoOn DEF MintInv, Numbered

LEMMA PayRequestKeeps ==
    ASSUME MintInv, NEW m \in mints, M!PayRequest(m)
    PROVE  MintInv'
<1> DEFINE q == [m EXCEPT !.stage = "verify"]
<1>1. /\ m.stage = "payRequest" /\ M!Bound(m) /\ mints' = (mints \ {m}) \cup {q}
      /\ UNCHANGED <<now, invoices, paid, known, handedOut, given, minted>>
  BY DEF M!PayRequest
<1>2. IsMint(m) /\ Proving(m)
  BY <1>1 DEF MintInv, Underhand
<1>3. "verify" \in MintStages
  BY DEF MintStages
<1>4. /\ q \in [id: Nat, order: {m.order}, askedAt: Nat, paidThen: {m.paidThen}, stage: MintStages, said: {m.said}]
      /\ q.stage = "verify" /\ q.said = m.said
      /\ q.order = m.order /\ q.askedAt = m.askedAt /\ q.paidThen = m.paidThen
  BY <1>2, <1>3 DEF IsMint
<1> HIDE DEF q
<1>5. IsMint(q)
  BY <1>2, <1>4 DEF IsMint
<1>6. Proving(q)
  BY <1>1, <1>2, <1>4 DEF Proving, Suits, M!Bound
<1> QED BY <1>1, <1>4, <1>5, <1>6, MintsGoOn DEF MintInv, Numbered

\* An origin that is a recipient's own echoes what was issued there and nothing else.
LEMMA VerifyKeeps ==
    ASSUME MintInv, NEW m \in mints, M!Verify(m)
    PROVE  MintInv'
<1> DEFINE q == [m EXCEPT !.stage = "proved"]
<1>1. /\ m.stage = "verify" /\ mints' = (mints \ {m}) \cup {q}
      /\ \A s \in m.said : M!Echoes(s.verify, s.invoice) /\ s.invoice.n \notin paid
      /\ UNCHANGED <<now, invoices, paid, known, handedOut, given, minted>>
  BY DEF M!Verify
<1>2. IsMint(m) /\ Proving(m)
  BY <1>1 DEF MintInv, Underhand
<1>3. "proved" \in MintStages
  BY DEF MintStages
<1>4. /\ q \in [id: Nat, order: {m.order}, askedAt: Nat, paidThen: {m.paidThen}, stage: MintStages, said: {m.said}]
      /\ q.stage = "proved" /\ q.said = m.said
      /\ q.order = m.order /\ q.askedAt = m.askedAt /\ q.paidThen = m.paidThen
  BY <1>2, <1>3 DEF IsMint
<1> HIDE DEF q
<1>5. IsMint(q)
  BY <1>2, <1>4 DEF IsMint
<1>6. ASSUME NEW s \in m.said
      PROVE  s.invoice \in invoices /\ s.invoice.n \notin m.paidThen
  <2>1. s.lnAddress \in Accounts /\ s.verify[1] = OriginOf[s.lnAddress]
    BY <1>1, <1>2 DEF Proving
  <2>2. s.verify[1] # Foreign
    BY <2>1, MintingAssumption
  <2>3. s.invoice \in invoices
    BY <1>1, <2>2 DEF M!Echoes
  <2> QED BY <1>1, <1>2, <2>3 DEF IsMint
<1>7. Proving(q)
  BY <1>1, <1>2, <1>4, <1>6 DEF Proving, Suits
<1> QED BY <1>1, <1>4, <1>5, <1>7, MintsGoOn DEF MintInv, Numbered

\* What another order, or one that cannot be told from another, holds is not given.
LEMMA HandOutKeeps ==
    ASSUME MintInv, NEW m \in mints, M!HandOut(m)
    PROVE  MintInv'
<1>1. PICK s \in m.said, until \in Stated :
         /\ m.stage = "proved" /\ ~M!HandedBefore(s.invoice, m.order.key)
         /\ handedOut' = {h \in handedOut : h.until > now /\ h.hash # s.invoice.n}
                            \cup {[hash |-> s.invoice.n, key |-> m.order.key, until |-> until]}
         /\ M!Give(m, s.invoice, until, FALSE)
         /\ UNCHANGED <<now, invoices, paid, known, minted>>
  BY DEF M!HandOut
<1>i. PICK i : i = s.invoice
  OBVIOUS
<1>n. PICK new : new = [id |-> m.id, order |-> m.order, invoice |-> i, askedAt |-> m.askedAt, at |-> now,
                        until |-> until, here |-> FALSE, wasPaid |-> i.n \in m.paidThen]
  OBVIOUS
<1>e. PICK entry : entry = [hash |-> i.n, key |-> m.order.key, until |-> until]
  OBVIOUS
<1>2. mints' = mints \ {m} /\ given' = given \cup {new}
  BY <1>1, <1>i, <1>n DEF M!Give
<1>3. ForOrder(i, m) /\ i.n \in known /\ i.by \in m.order.paidTo /\ i.n \notin m.paidThen
  <2>1. Proving(m) /\ Numbered
    BY <1>1 DEF MintInv, Underhand
  <2>2. /\ i \in invoices /\ Suits(i, m) /\ i.n \notin m.paidThen
        /\ i.commits \in m.order.paidTo
        /\ i.by = Forger \/ i.n \in known
    BY <1>1, <1>i, <2>1 DEF Proving
  <2>3. i.by = i.commits /\ i.by # Forger
    BY <2>1, <2>2, MintingAssumption DEF Numbered
  <2> QED BY <2>2, <2>3 DEF ForOrder
<1>4. /\ new.invoice = i /\ new.order = m.order /\ new.askedAt = m.askedAt /\ new.at = now
      /\ ~new.here /\ ~new.wasPaid /\ new.until = until /\ new.here \in BOOLEAN
      /\ entry.hash = i.n /\ entry.key = m.order.key /\ entry.until = until
  BY <1>3, <1>n, <1>e
<1>u. until \in Nat /\ now \in Nat
  BY MintingAssumption DEF MintInv, Numbered
<1>5. handedOut' = {h \in handedOut : h.until > now /\ h.hash # i.n} \cup {entry}
  BY <1>1, <1>i, <1>e
<1>6. ASSUME NEW g \in given, ~g.here, g.invoice.n = i.n
      PROVE  \/ \E p \in given : p.invoice.n = i.n /\ ~p.here /\ g.at <= p.at /\ p.until <= now
             \/ g.order.key = m.order.key /\ m.order.key # NoKey
  <2>1. PICK p \in given :
           /\ p.invoice.n = g.invoice.n /\ ~p.here /\ g.at <= p.at
           /\ p.until <= now \/ (p.order.key = g.order.key /\ Remembered(p))
    BY <1>6 DEF MintInv, HandedInv, Entered
  <2>2. CASE p.until <= now
    BY <1>6, <2>1, <2>2
  <2>3. CASE ~(p.until <= now)
    <3>1. PICK e \in handedOut : e.hash = i.n /\ e.key = g.order.key /\ e.until = p.until
      BY <1>6, <2>1, <2>3 DEF Remembered
    <3>2. p.until \in Nat
      BY <2>1 DEF MintInv, HandedInv, GivenRight
    <3>3. e.until > now
      BY <1>u, <2>3, <3>1, <3>2
    <3> QED BY <1>1, <1>i, <3>1, <3>3 DEF M!HandedBefore
  <2> QED BY <2>2, <2>3
<1>7. Numbered'
  BY <1>1 DEF MintInv, Numbered
<1>8. Underhand'
  <2>1. ASSUME NEW o \in mints, o.stage = "watching", NEW t \in o.said
        PROVE  t.invoice.n # i.n
    BY <1>3, <2>1 DEF MintInv, Underhand, Hidden
  <2> QED BY <1>1, <1>2, <1>4, <2>1 DEF MintInv, Underhand, Hidden, Proving, ForOrder, Suits, IsMint
<1>9. \A g \in given' : GivenRight(g)'
  <2>1. GivenRight(new)'
    BY <1>1, <1>3, <1>4, <1>u DEF GivenRight, ForOrder, Suits
  <2>2. \A g \in given : GivenRight(g)'
    BY <1>1 DEF MintInv, HandedInv, GivenRight
  <2> QED BY <1>2, <2>1, <2>2
<1>r. Remembered(new)'
  BY <1>4, <1>5, <1>e DEF Remembered
<1>10. \A g \in given' : Entered(g)'
  <2>1. Entered(new)'
    BY <1>2, <1>4, <1>u, <1>r DEF Entered
  <2>2. ASSUME NEW g \in given, ~g.here, g.invoice.n = i.n
        PROVE  Entered(g)'
    <3>1. g.at <= new.at
      BY <1>4 DEF MintInv, HandedInv, GivenRight
    <3>2. CASE g.order.key = m.order.key
      BY <1>2, <1>4, <1>r, <2>2, <3>1, <3>2 DEF Entered
    <3>3. CASE \E p \in given : p.invoice.n = i.n /\ ~p.here /\ g.at <= p.at /\ p.until <= now
      BY <1>1, <1>2, <2>2, <3>3 DEF Entered
    <3> QED BY <1>6, <2>2, <3>2, <3>3
  <2>3. ASSUME NEW g \in given, ~g.here, g.invoice.n # i.n
        PROVE  Entered(g)'
    <3>1. PICK p \in given :
             /\ p.invoice.n = g.invoice.n /\ ~p.here /\ g.at <= p.at
             /\ p.until <= now \/ (p.order.key = g.order.key /\ Remembered(p))
      BY <2>3 DEF MintInv, HandedInv, Entered
    <3>2. CASE p.until <= now
      BY <1>1, <1>2, <2>3, <3>1, <3>2 DEF Entered
    <3>3. CASE ~(p.until <= now)
      <4>1. PICK e \in handedOut : e = [hash |-> p.invoice.n, key |-> p.order.key, until |-> p.until]
        BY <3>1, <3>3 DEF Remembered
      <4>2. p.until \in Nat
        BY <3>1 DEF MintInv, HandedInv, GivenRight
      <4>3. e.until > now /\ e.hash # i.n
        BY <1>u, <2>3, <3>1, <3>3, <4>1, <4>2
      <4>4. Remembered(p)'
        BY <1>5, <4>1, <4>3 DEF Remembered
      <4> QED BY <1>2, <2>3, <3>1, <3>3, <4>4 DEF Entered
    <3> QED BY <3>2, <3>3
  <2>4. \A g \in given : g.here => Entered(g)'
    BY DEF Entered
  <2> QED BY <1>2, <2>1, <2>2, <2>3, <2>4
<1>11. \A g \in given' : Sole(g)'
  BY <1>2, <1>4 DEF MintInv, HandedInv, Sole
<1>12. \A g, h \in given' : Apart(g, h)'
  <2>1. ASSUME NEW h \in given, h.invoice.n = i.n
        PROVE  Apart(new, h)' /\ Apart(h, new)'
    <3>1. h.at \in Nat /\ h.at <= now /\ h.here \in BOOLEAN
      BY DEF MintInv, HandedInv, GivenRight
    <3>2. /\ M!Later(new, h) = now /\ M!Later(h, new) = now
          /\ M!Earlier(new, h) = h.at /\ M!Earlier(h, new) = h.at
      BY <1>4, <1>u, <3>1 DEF M!Later, M!Earlier
    <3>3. CASE h.here
      <4>1. M!MintedHere(new, h)' /\ M!MintedHere(h, new)'
        BY <1>1, <1>3, <1>4, <2>1, <3>1, <3>3 DEF M!MintedHere
      <4> QED BY <4>1 DEF Apart
    <3>4. CASE ~h.here /\ h.order.key = m.order.key /\ m.order.key # NoKey
      BY <1>4, <3>4 DEF Apart
    <3>5. CASE \E p \in given : p.invoice.n = i.n /\ ~p.here /\ h.at <= p.at /\ p.until <= now
      <4>1. M!Forgotten(new, h)' /\ M!Forgotten(h, new)'
        BY <1>2, <1>4, <2>1, <3>2, <3>5 DEF M!Forgotten
      <4> QED BY <4>1 DEF Apart
    <3> QED BY <1>6, <2>1, <3>3, <3>4, <3>5
  <2>2. ASSUME NEW g \in given, NEW h \in given
        PROVE  Apart(g, h)'
    <3>1. Apart(g, h)
      BY DEF MintInv, HandedInv
    <3> QED BY <1>1, <1>2, <3>1 DEF Apart, M!Forgotten, M!MintedHere
  <2>3. Apart(new, new)'
    BY DEF Apart
  <2>4. \A h \in given : h.invoice.n # i.n => Apart(new, h)' /\ Apart(h, new)'
    BY <1>4 DEF Apart
  <2> QED BY <1>2, <2>1, <2>2, <2>3, <2>4
<1> QED BY <1>7, <1>8, <1>9, <1>10, <1>11, <1>12 DEF MintInv, HandedInv

LEMMA ResolveKeeps ==
    ASSUME MintInv, NEW o, NEW a, M!Resolve(o, a)
    PROVE  MintInv'
<1>i. PICK i : i = M!Fresh(a, o.amount)
  OBVIOUS
<1>q. PICK q : q = [id |-> minted, order |-> o, askedAt |-> now, paidThen |-> paid, stage |-> "watching",
                    said |-> {[invoice |-> i]}]
  OBVIOUS
<1>1. i.n = Cardinality(invoices) + 1 /\ i.at = now /\ i.by = a /\ i.commits = a /\ i.amount = o.amount
  BY <1>i, FreshIsGenuine
<1>2. /\ a \in o.paidTo /\ a \in Accounts /\ invoices' = invoices \cup {i} /\ mints' = mints \cup {q} /\ minted' = minted + 1
      /\ UNCHANGED <<now, paid, known, handedOut, given>>
  BY <1>i, <1>q DEF M!Resolve, M!Begun
<1>3. Numbered' /\ (\A j \in invoices : j.n # i.n) /\ i.n \notin known \cup paid
  <2>1. Numbered /\ i.at \in Nat /\ minted' \in Nat /\ known' \subseteq known \cup {i.n}
    BY <1>1, <1>2 DEF MintInv, Numbered
  <2> QED BY <1>1, <1>2, <2>1, FreshIsNumbered
<1>4. HandedInv'
  BY <1>2, <1>3, GivenStands
<1>5. /\ q \in [id: Nat, order: {o}, askedAt: Nat, paidThen: {paid}, stage: MintStages, said: {{[invoice |-> i]}}]
      /\ q.stage = "watching" /\ q.said = {[invoice |-> i]} /\ q.order = o /\ q.askedAt = now
      /\ q.paidThen = paid
  BY <1>q DEF MintStages, MintInv, Numbered
<1>6. ASSUME NEW m \in mints, m.stage = "watching", NEW s \in m.said
      PROVE  s.invoice.n # i.n
  BY <1>3, <1>6 DEF MintInv, Underhand, Hidden, ForOrder
<1>7. IsMint(q)' /\ Hidden(q)'
  <2>1. \A s \in q.said : s.invoice = i
    BY <1>5
  <2>2. ForOrder(i, q)'
    BY <1>1, <1>2, <1>5, MintingAssumption DEF ForOrder, Suits, MintInv, Numbered
  <2>3. \A g \in given : g.invoice.n # i.n
    BY <1>3 DEF MintInv, HandedInv, GivenRight
  <2>4. Hidden(q)'
    BY <1>1, <1>2, <1>3, <1>5, <1>6, <2>1, <2>2, <2>3 DEF Hidden
  <2> QED BY <1>2, <1>5, <2>4 DEF IsMint
<1>8. ASSUME NEW m \in mints, m.stage = "watching"
      PROVE  IsMint(m)' /\ Hidden(m)'
  <2>1. \A t \in q.said : t.invoice = i
    BY <1>5
  <2> QED BY <1>2, <1>5, <1>6, <1>8, <2>1 DEF MintInv, Underhand, Hidden, ForOrder, Suits, IsMint
<1>9. ASSUME NEW m \in mints, m.stage # "watching"
      PROVE  IsMint(m)' /\ Proving(m)'
  BY <1>2, <1>9 DEF MintInv, Underhand, Proving, ForOrder, Suits, IsMint
<1>10. Underhand'
  BY <1>2, <1>5, <1>7, <1>8, <1>9 DEF Underhand
<1> QED BY <1>3, <1>4, <1>10 DEF MintInv

LEMMA WatchedKeeps ==
    ASSUME MintInv, NEW m \in mints, M!Watched(m)
    PROVE  MintInv'
<1>1. PICK s \in m.said : m.stage = "watching" /\ M!Give(m, s.invoice, M!Until(s.invoice), TRUE)
  BY DEF M!Watched
<1>i. PICK i : i = s.invoice
  OBVIOUS
<1>n. PICK new : new = [id |-> m.id, order |-> m.order, invoice |-> i, askedAt |-> m.askedAt, at |-> now,
                        until |-> M!Until(i), here |-> TRUE, wasPaid |-> i.n \in m.paidThen]
  OBVIOUS
<1>2. /\ mints' = mints \ {m} /\ given' = given \cup {new}
      /\ UNCHANGED <<now, invoices, paid, known, handedOut, minted>>
  BY <1>1, <1>i, <1>n DEF M!Give, M!Watched
<1>3. /\ ForOrder(i, m) /\ i.by \in m.order.paidTo /\ i.n \notin known /\ i.n \notin m.paidThen
      /\ \A g \in given : g.invoice.n # i.n
      /\ \A o \in mints : o.stage = "watching" /\ o # m => \A t \in o.said : t.invoice.n # i.n
  BY <1>1, <1>i DEF MintInv, Underhand, Hidden, IsMint
<1>4. /\ new.invoice = i /\ new.order = m.order /\ new.askedAt = m.askedAt /\ new.at = now /\ ~new.wasPaid
      /\ new.here /\ new.here \in BOOLEAN
  BY <1>3, <1>n
<1>5. Numbered'
  BY <1>2 DEF MintInv, Numbered
<1>6. Underhand'
  BY <1>2, <1>3, <1>4 DEF MintInv, Underhand, Hidden, Proving, ForOrder, Suits, IsMint
<1>7. GivenRight(new)' /\ Entered(new)' /\ Sole(new)'
  <2>1. GivenRight(new)'
    BY <1>2, <1>3, <1>4 DEF GivenRight, ForOrder, Suits, MintInv, Numbered
  <2>2. Entered(new)' /\ Sole(new)'
    BY <1>2, <1>3, <1>4 DEF Entered, Sole
  <2> QED BY <2>1, <2>2
<1>8. \A g \in given : GivenRight(g)' /\ Entered(g)' /\ Sole(g)'
  BY <1>2, <1>3, <1>4 DEF MintInv, HandedInv, GivenRight, Entered, Remembered, Sole
<1>9. \A g, h \in given' : Apart(g, h)'
  BY <1>2, <1>3, <1>4 DEF MintInv, HandedInv, Apart, M!Forgotten, M!MintedHere
<1> QED BY <1>2, <1>5, <1>6, <1>7, <1>8, <1>9 DEF MintInv, HandedInv

LEMMA MintStep ==
    ASSUME MintInv, M!MintNext
    PROVE  MintInv'
<1>1. ASSUME NEW m \in mints, M!Thrown(m)
      PROVE  MintInv'
  BY <1>1, MintsAreThrown DEF M!Thrown
<1>2. ASSUME NEW o \in Offers, NEW a \in Accounts, M!Offer(o, a)
      PROVE  MintInv'
  BY <1>2, MintsAreThrown DEF M!Offer
<1>3. ASSUME NEW f \in offered, NEW v \in Amounts, M!Callback(f, v)
      PROVE  MintInv'
  BY <1>3, MintKeeps, ResolveKeeps DEF M!Callback
<1> QED BY <1>1, <1>2, <1>3, IssueKeeps, PayKeeps, ShowKeeps, TickKeeps, MintKeeps, ResolveKeeps, AnswerKeeps,
           PayRequestKeeps, VerifyKeeps, HandOutKeeps, WatchedKeeps DEF M!MintNext

-----------------------------------------------------------------------------
(* Together *)

Inv == OutboundInv /\ WalkInv /\ NwcInv /\ MintInv

\* They share no state: a part stays as it is while another takes a step.
LEMMA WalkIsLeft ==
    ASSUME OutboundInv, WalkInv, UNCHANGED walkVars
    PROVE  OutboundInv' /\ WalkInv'
<1>1. UNCHANGED <<request, reached, list, walk, left, ended, lost>>
  BY DEF walkVars, ask, walking
<1> QED BY <1>1, QuietIsSafe, WalkStays DEF WalkInv

LEMMA NwcIsLeft ==
    ASSUME NwcInv, UNCHANGED nwc
    PROVE  NwcInv'
BY DEF nwc, NwcInv, Carrying, Answering, N!OwnAnswer

LEMMA MintingIsLeft ==
    ASSUME MintInv, UNCHANGED minting
    PROVE  MintInv'
<1>1. mints' \subseteq mints /\ UNCHANGED <<now, invoices, paid, known, handedOut, given, minted>>
  BY DEF minting
<1> QED BY <1>1, MintsAreThrown

LEMMA Invariant == Spec => []Inv
<1>1. OutwardInit => Inv
  BY WalkStarts, NwcStarts, MintStarts DEF OutwardInit, Inv
<1>2. ASSUME Inv, [OutwardNext]_vars
      PROVE  Inv'
  <2>1. CASE WalkNext /\ UNCHANGED <<part, nwc, minting>>
    BY <1>2, <2>1, WalkStep, NwcIsLeft, MintingIsLeft DEF Inv
  <2>2. CASE N!Next /\ UNCHANGED <<part, walkVars, minting>>
    BY <1>2, <2>2, NwcStep, WalkIsLeft, MintingIsLeft DEF Inv
  <2>3. CASE M!MintNext /\ UNCHANGED <<part, walkVars, nwc>>
    BY <1>2, <2>3, MintStep, WalkIsLeft, NwcIsLeft DEF Inv
  <2>4. CASE UNCHANGED vars
    BY <1>2, <2>4, WalkIsLeft, NwcIsLeft, MintingIsLeft DEF Inv, vars
  <2> QED BY <1>2, <2>1, <2>2, <2>3, <2>4 DEF OutwardNext
<1> QED BY <1>1, <1>2, PTL DEF Spec

\* Whatever names resolve to and wherever redirects lead, nothing is connected to that a
\* registry reserves and the code does not overlook, a poll and what a webhook carries
\* stay on their origin, and no more than HopsFollowed redirects are followed
\* (core/outbound.ts ask).
THEOREM NothingEverStrays == Spec => []NothingStrays
<1>1. Inv => NothingStrays
  BY DEF Inv, OutboundInv
<1> QED BY <1>1, Invariant, PTL

\* However long the list, the walk ends with the first address that serves, and with one
\* that does (core/lnurl.ts firstThatServes, resolveAddress).
THEOREM TheFirstServes == Spec => []FirstThatServes
<1>1. Inv => FirstThatServes
  BY DEF Inv, WalkInv
<1> QED BY <1>1, Invariant, PTL

\* A call spends once over however many relays (sdk/src/nwc.ts askWallet).
THEOREM ACallPaysOnce == Spec => []PaysOnce
<1>1. Inv => PaysOnce
  BY DEF Inv, NwcInv, Carrying, PaysOnce, N!PaysOnce
<1> QED BY <1>1, Invariant, PTL

\* However many calls were given up on, a call says what the wallet answered to it
\* (sdk/src/nwc.ts answeredEvent, nwcVerifyEndpoint).
THEOREM ACallHasItsOwnAnswer == Spec => []OwnAnswer
<1>1. Inv => OwnAnswer
  BY DEF Inv, NwcInv, OwnAnswer
<1> QED BY <1>1, Invariant, PTL

\* Whatever a gateway answers to however many mints, an invoice given is a recipient's
\* own and this order's, and another order's only in the ways that are named
\* (sdk/src/verify.ts proveOrigin, sdk/src/client.ts handOut, sdk/src/trigger.ts mintHere).
THEOREM InvoicesAreTheOrdersOwn == Spec => []EachOrderItsOwnInvoice
<1>1. Inv => EachOrderItsOwnInvoice
  BY MintInvSuffices DEF Inv, EachOrderItsOwnInvoice
<1> QED BY <1>1, Invariant, PTL

=============================================================================
