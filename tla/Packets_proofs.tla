--------------------------- MODULE Packets_proofs ---------------------------
(***************************************************************************)
(* Proofs about single packets: Checksum, for every word size, and         *)
(* Neighbour, for any configurations and frames.                           *)
(***************************************************************************)
EXTENDS Neighbour, Checksum, TLAPS

-----------------------------------------------------------------------------
(***************************************************************************)
(* Checksums.  Sums are compared modulo M = B - 1, the modulus of one's    *)
(* complement addition; a fold takes a multiple of M away, and nothing     *)
(* else.                                                                   *)
(***************************************************************************)

\* Division with remainder.
LEMMA DivMod ==
  ASSUME NEW a \in Nat, NEW b \in Nat \ {0}
  PROVE  a \div b \in Nat /\ a % b \in 0 .. b - 1 /\ a = b * (a \div b) + (a % b)
  BY SMT

\* Quotient and remainder are unique.
LEMMA ModUnique ==
  ASSUME NEW b \in Nat \ {0}, NEW q \in Nat, NEW r \in 0 .. b - 1
  PROVE  (b * q + r) % b = r
  BY SMT

M == B - 1

LEMMA MNat == M \in Nat \ {0} /\ B \in Nat \ {0} /\ M > 2 /\ B = M + 1
  BY BAssumption, SMT DEF M

\* Division by the word size.
LEMMA DivWord ==
  ASSUME NEW a \in Nat
  PROVE  (a \div B) \in Nat /\ (a % B) \in 0 .. M /\ a = B * (a \div B) + (a % B)
<1>1. (a \div B) \in Nat /\ (a % B) \in 0 .. B - 1 /\ a = B * (a \div B) + (a % B)
  BY DivMod, MNat
<1> QED BY <1>1 DEF M

\* The halves of a sum that is below 4 * M, and what is left when they are added.
LEMMA Halves ==
  ASSUME NEW l \in Nat
  PROVE  \E k \in Nat : k = l \div B /\ (l % B) \in 0 .. M /\ (l % B) + (l \div B) = l - M * k
<1>1. (l \div B) \in Nat /\ (l % B) \in 0 .. B - 1 /\ l = B * (l \div B) + (l % B)
  BY DivMod, MNat
<1> DEFINE k == l \div B
           r == l % B
<1>2. B * k = M * k + k
  <2>1. B = M + 1 /\ k \in Nat /\ M \in Nat
    BY <1>1, MNat
  <2> HIDE DEF k
  <2> QED BY <2>1
<1>3. k \in Nat /\ r \in 0 .. M /\ l = M * k + k + r
  BY <1>1, <1>2, MNat
<1>4. M * k \in Nat
  BY <1>3, MNat, SMT
<1> HIDE DEF k, r
<1>5. r + k = l - M * k
  BY <1>3, <1>4, MNat
<1> QED BY <1>1, <1>3, <1>5 DEF k, r

\* A sum of four words folds into a word.
LEMMA FoldWord ==
  ASSUME NEW l \in Nat, l <= 4 * M
  PROVE  Fold(l) \in Word /\ \E j \in Nat : Fold(l) = l - M * j
<1>1. PICK k \in Nat : k = l \div B /\ (l % B) \in 0 .. M /\ (l % B) + (l \div B) = l - M * k
  BY Halves
<1> DEFINE x == (l % B) + (l \div B)
<1>2. k <= 3
  <2>1. (l % B) + k \in Nat /\ M * k \in Nat /\ M * k <= l - k
    BY <1>1, MNat, SMT
  <2>2. CASE k >= 4
    <3>1. M * k >= M * 4
      BY <2>2, MNat, SMT
    <3> QED BY <3>1, <2>1, <2>2, MNat
  <2> QED BY <2>2
<1>3. x = (l % B) + k /\ x \in 0 .. M + 3
  BY <1>1, <1>2, MNat
<1>4. x = l - M * k
  BY <1>1
<1>5. Fold(l) = IF x > M THEN x - M ELSE x
  BY DEF Fold, AddCarry, M
<1> HIDE DEF x
<1>6. CASE x > M
  <2>1. Fold(l) = x - M /\ x - M \in 0 .. 3
    BY <1>3, <1>5, <1>6, MNat
  <2>2. M * (k + 1) = M * k + M
    BY MNat
  <2>3. Fold(l) = l - M * (k + 1)
    <3>1. M * k \in Int
      BY MNat
    <3> QED BY <2>1, <2>2, <1>4, <3>1, MNat
  <2>4. k + 1 \in Nat
    OBVIOUS
  <2> QED BY <2>1, <2>3, <2>4, MNat DEF Word
<1>7. CASE ~ (x > M)
  <2>1. Fold(l) = x /\ x \in 0 .. M
    BY <1>3, <1>5, <1>7, MNat
  <2> QED BY <2>1, <1>4, MNat DEF Word
<1> QED BY <1>6, <1>7

\* The addition of two words with the carry around.
LEMMA Add16Word ==
  ASSUME NEW a \in Word, NEW b \in Word
  PROVE  Add16(a, b) \in Word /\ \E j \in Nat : Add16(a, b) = (a + b) - M * j
<1>1. a + b \in Nat /\ a + b <= 2 * M
  BY MNat DEF Word
<1>2. PICK k \in Nat : k = (a + b) \div B /\ ((a + b) % B) \in 0 .. M
                       /\ ((a + b) % B) + ((a + b) \div B) = (a + b) - M * k
  BY <1>1, Halves
<1> DEFINE r == (a + b) % B
           s == Add16(a, b)
<1>3. s = k + r /\ s = (a + b) - M * k /\ r \in 0 .. M
  BY <1>1, <1>2 DEF Add16
<1> HIDE DEF r, s
<1>4. s \in Word
  <2>1. M * k \in Nat
    BY MNat
  <2>2. CASE k = 0
    BY <2>2, <1>3, MNat DEF Word
  <2>3. CASE k >= 1
    <3>1. M * k >= M
      BY <2>3, MNat, SMT
    <3> QED BY <3>1, <2>1, <1>1, <1>3, MNat DEF Word
  <2> QED BY <2>2, <2>3
<1> QED BY <1>3, <1>4, Zenon DEF s

\* The delta is old - new.
LEMMA DeltaWord ==
  ASSUME NEW old \in Addr, NEW new \in Addr
  PROVE  /\ CalcChksumDelta(old, new) \in Word
         /\ \E j \in Int : CalcChksumDelta(old, new)
                              = old[1] + old[2] - new[1] - new[2] + M * j
<1> DEFINE l == (B - 1 - old[1]) + (B - 1 - old[2]) + new[1] + new[2]
<1>1. old[1] \in 0 .. M /\ old[2] \in 0 .. M /\ new[1] \in 0 .. M /\ new[2] \in 0 .. M
  BY MNat DEF Addr, Word
<1>2. l \in Nat /\ l <= 4 * M /\ l = 2 * M - old[1] - old[2] + new[1] + new[2]
  BY <1>1, MNat
<1>3. CalcChksumDelta(old, new) = M - Fold(l)
  BY DEF CalcChksumDelta, M
<1> HIDE DEF l
<1>4. Fold(l) \in Word /\ \E j \in Nat : Fold(l) = l - M * j
  BY <1>2, FoldWord
<1>5. PICK j \in Nat : Fold(l) = l - M * j
  BY <1>4
<1>6. M * j \in Nat /\ M * (j - 1) = M * j - M
  BY MNat
<1>7. CalcChksumDelta(old, new) = old[1] + old[2] - new[1] - new[2] + M * (j - 1)
  BY <1>1, <1>2, <1>3, <1>5, <1>6, MNat
<1>8. CalcChksumDelta(old, new) \in Word
  BY <1>3, <1>4, MNat DEF Word
<1> QED BY <1>7, <1>8

\* The receiver's test, as divisibility.
LEMMA VerifiedMultiple ==
  ASSUME NEW t \in Nat
  PROVE  Verified(t) <=> (t > 0 /\ \E q \in Int : t = M * q)
<1>1. ASSUME Verified(t)
      PROVE  t > 0 /\ \E q \in Int : t = M * q
  <2>1. t > 0 /\ (t % M) = 0
    BY <1>1 DEF Verified, M
  <2>2. (t \div M) \in Nat /\ t = M * (t \div M) + (t % M)
    BY DivMod, MNat
  <2>3. t = M * (t \div M)
    <3>1. M * (t \div M) \in Int
      BY <2>2, MNat
    <3> QED BY <2>1, <2>2, <3>1
  <2> QED BY <2>1, <2>2, <2>3
<1>2. ASSUME t > 0, NEW q \in Int, t = M * q
      PROVE  Verified(t)
  <2>1. q \in Nat
    BY <1>2, MNat, SMT
  <2>2. (M * q + 0) % M = 0
    <3>1. 0 \in 0 .. M - 1 /\ M \in Nat \ {0}
      BY MNat
    <3> QED BY <2>1, <3>1, ModUnique
  <2>3. M * q + 0 = t
    BY <1>2
  <2>4. (t % M) = 0
    BY <2>2, <2>3, Zenon
  <2> QED BY <1>2, <2>4 DEF Verified, M
<1> QED BY <1>1, <1>2

\* The four words of a 64-bit sum add up to it, but for a multiple of M.
LEMMA WordsOf ==
  ASSUME NEW q \in Nat, q < B * B * B * B
  PROVE  Words(q) \in Nat /\ Words(q) <= 4 * M /\ \E k \in Nat : Words(q) = q - M * k
<1> DEFINE q1 == q \div B
           q2 == q1 \div B
           q3 == q2 \div B
<1>1. q1 \in Nat /\ (q % B) \in 0 .. M /\ q = B * q1 + (q % B)
  BY DivWord
<1>2. PICK k0 \in Nat : (q % B) + q1 = q - M * k0
  BY Halves
<1> HIDE DEF q1
<1>3. q2 \in Nat /\ (q1 % B) \in 0 .. M /\ q1 = B * q2 + (q1 % B)
  BY <1>1, DivWord
<1>4. PICK k1 \in Nat : (q1 % B) + q2 = q1 - M * k1
  BY <1>1, Halves
<1> HIDE DEF q2
<1>5. q3 \in Nat /\ (q2 % B) \in 0 .. M /\ q2 = B * q3 + (q2 % B)
  BY <1>3, DivWord
<1>6. PICK k2 \in Nat : (q2 % B) + q3 = q2 - M * k2
  BY <1>3, Halves
<1> HIDE DEF q3
<1>7. q3 <= M
  <2>1. SUFFICES ASSUME q3 >= B PROVE FALSE
    BY <1>5, MNat
  <2>2. q2 >= B * B
    <3>1. B * q3 >= B * B
      BY <2>1, <1>5, MNat, SMT
    <3>2. B * q3 \in Nat /\ B * B \in Nat
      BY <1>5, MNat
    <3> QED BY <3>1, <3>2, <1>5, MNat
  <2>3. q1 >= B * (B * B)
    <3>1. B * q2 >= B * (B * B)
      <4> DEFINE c == B * B
      <4>1. c \in Nat /\ q2 >= c
        BY <2>2, MNat
      <4> HIDE DEF c
      <4>2. B * q2 >= B * c
        BY <4>1, <1>3, MNat, SMT
      <4> QED BY <4>2 DEF c
    <3>2. B * q2 \in Nat /\ B * (B * B) \in Nat
      BY <1>3, MNat
    <3> QED BY <3>1, <3>2, <1>3, MNat
  <2>4. q >= B * (B * (B * B))
    <3>1. B * q1 >= B * (B * (B * B))
      <4> DEFINE c == B * (B * B)
      <4>1. c \in Nat /\ q1 >= c
        BY <2>3, MNat
      <4> HIDE DEF c
      <4>2. B * q1 >= B * c
        BY <4>1, <1>1, MNat, SMT
      <4> QED BY <4>2 DEF c
    <3>2. B * q1 \in Nat /\ B * (B * (B * B)) \in Nat
      BY <1>1, MNat
    <3> QED BY <3>1, <3>2, <1>1, MNat
  <2>5. B * (B * (B * B)) = B * B * B * B
    BY MNat
  <2> QED BY <2>4, <2>5, MNat
<1> DEFINE w == (q % B) + (q1 % B) + (q2 % B) + q3
<1>8. Words(q) = w
  BY DEF Words, q1, q2, q3
<1>9. w \in Nat /\ w <= 4 * M
  BY <1>1, <1>3, <1>5, <1>7, MNat
<1>10. w = q - M * (k0 + k1 + k2)
  <2>1. M * (k0 + k1 + k2) = M * k0 + M * k1 + M * k2
    BY MNat
  <2>2. M * k0 \in Nat /\ M * k1 \in Nat /\ M * k2 \in Nat
    BY MNat
  <2> QED BY <2>1, <2>2, <1>1, <1>2, <1>3, <1>4, <1>5, <1>6
<1> HIDE DEF w
<1>11. k0 + k1 + k2 \in Nat
  OBVIOUS
<1> QED BY <1>8, <1>9, <1>10, <1>11, Zenon

-----------------------------------------------------------------------------
(* The invariant: the packet's words are words, and both sums verify.         *)

SumTypeOK == rest \in Nat /\ dst \in Addr /\ csum \in Word /\ na \in Nat

SumInv == SumTypeOK /\ HeaderVerifies /\ NaVerifies

LEMMA SumInitInv == SumInit => SumInv
  BY MNat DEF SumInit, SumInv, SumTypeOK, HeaderVerifies, NaVerifies, Addr, Word

LEMMA ArriveInv == SumInv /\ Arrive => SumInv'
<1> SUFFICES ASSUME SumInv, Arrive PROVE SumInv'
  OBVIOUS
<1>1. rest' \in Nat /\ dst' \in Addr /\ csum' \in Word /\ na' = na
  BY ChecksumBounds DEF Arrive
<1>2. Verified(rest' + dst'[1] + dst'[2] + csum')
  BY DEF Arrive
<1> QED BY <1>1, <1>2 DEF SumInv, SumTypeOK, HeaderVerifies, NaVerifies

LEMMA ForwardInv ==
  ASSUME SumInv, NEW new \in Addr, Forward(new)
  PROVE  SumInv'
<1>1. rest \in Nat /\ rest > 0 /\ rest' = rest /\ na' = na /\ dst' = new
  BY DEF Forward, SumInv, SumTypeOK
<1> DEFINE d == CalcChksumDelta(dst, new)
<1>2. dst \in Addr /\ csum \in Word /\ csum' = Add16(csum, d)
  BY DEF Forward, SumInv, SumTypeOK
<1>3. d \in Word /\ \E j \in Int : d = dst[1] + dst[2] - new[1] - new[2] + M * j
  BY <1>2, DeltaWord
<1> HIDE DEF d
<1>4. Add16(csum, d) \in Word /\ \E j \in Nat : Add16(csum, d) = (csum + d) - M * j
  BY <1>2, <1>3, Add16Word
<1>5. PICK j1 \in Int : d = dst[1] + dst[2] - new[1] - new[2] + M * j1
  BY <1>3
<1>6. PICK j2 \in Nat : Add16(csum, d) = (csum + d) - M * j2
  BY <1>4
<1>7. csum' \in Word /\ csum' = (csum + d) - M * j2
  BY <1>2, <1>4, <1>6
<1>8. /\ dst[1] \in Nat /\ dst[2] \in Nat /\ new[1] \in Nat /\ new[2] \in Nat
      /\ csum \in Nat /\ csum' \in Nat /\ d \in Nat
  BY <1>2, <1>3, <1>7, MNat DEF Addr, Word
<1>9. PICK k \in Int : rest + dst[1] + dst[2] + csum = M * k
  <2>1. Verified(rest + dst[1] + dst[2] + csum)
    BY <1>1 DEF SumInv, HeaderVerifies
  <2>2. rest + dst[1] + dst[2] + csum \in Nat
    BY <1>1, <1>8
  <2> QED BY <2>1, <2>2, VerifiedMultiple
<1>10. rest + new[1] + new[2] + csum' = M * (k + j1 - j2)
  <2>1. M * (k + j1 - j2) = M * k + M * j1 - M * j2
    BY MNat
  <2>2. M * k \in Int /\ M * j1 \in Int /\ M * j2 \in Int
    BY MNat
  <2> QED BY <2>1, <2>2, <1>1, <1>5, <1>7, <1>8, <1>9
<1>11. Verified(rest' + dst'[1] + dst'[2] + csum')
  <2>1. rest + new[1] + new[2] + csum' \in Nat /\ rest + new[1] + new[2] + csum' > 0
    BY <1>1, <1>8
  <2>2. k + j1 - j2 \in Int
    OBVIOUS
  <2>3. Verified(rest + new[1] + new[2] + csum')
    BY <2>1, <2>2, <1>10, VerifiedMultiple
  <2> QED BY <2>3, <1>1
<1> QED BY <1>1, <1>7, <1>11 DEF SumInv, SumTypeOK, HeaderVerifies, NaVerifies

LEMMA AdvertiseInv ==
  ASSUME SumInv, NEW q \in 1 .. B * B * B * B - 1, Advertise(q)
  PROVE  SumInv'
<1>1. rest' = rest /\ dst' = dst /\ csum' = csum /\ na' = q + ((B - 1) - Icmpv6Sum(q))
  BY DEF Advertise
<1>2. q \in Nat /\ q > 0 /\ q < B * B * B * B
  <2>1. B * B * B * B \in Nat
    BY MNat
  <2> QED BY <2>1
<1> DEFINE s == Icmpv6Sum(q)
           w == Words(q)
<1>3. w \in Nat /\ w <= 4 * M /\ \E k \in Nat : w = q - M * k
  BY <1>2, WordsOf
<1> HIDE DEF w
<1>4. Fold(w) \in Word /\ \E j \in Nat : Fold(w) = w - M * j
  BY <1>3, FoldWord
<1>5. s = Fold(w)
  BY DEF Icmpv6Sum, w
<1> HIDE DEF s
<1>6. PICK k \in Nat, j \in Nat : w = q - M * k /\ s = w - M * j
  BY <1>3, <1>4, <1>5
<1>7. s \in 0 .. M
  BY <1>4, <1>5, MNat DEF Word
<1>8. na' = q + (M - s)
  BY <1>1 DEF M, s
<1>9. na' \in Nat /\ na' > 0
  BY <1>2, <1>7, <1>8, MNat
<1>10. na' = M * (1 + k + j)
  <2>1. M * (1 + k + j) = M + M * k + M * j /\ M * k \in Nat /\ M * j \in Nat
    BY MNat
  <2> QED BY <2>1, <1>2, <1>3, <1>6, <1>7, <1>8, MNat
<1>11. Verified(na')
  <2>1. 1 + k + j \in Int
    OBVIOUS
  <2> QED BY <2>1, <1>9, <1>10, VerifiedMultiple
<1> QED BY <1>1, <1>9, <1>11 DEF SumInv, SumTypeOK, HeaderVerifies, NaVerifies

LEMMA SumInvariant == SumSpec => []SumInv
<1>1. SumInv /\ [SumNext]_sumVars => SumInv'
  <2> SUFFICES ASSUME SumInv, [SumNext]_sumVars PROVE SumInv'
    OBVIOUS
  <2>1. CASE Arrive
    BY <2>1, ArriveInv
  <2>2. ASSUME NEW new \in Addr, Forward(new) PROVE SumInv'
    BY <2>2, ForwardInv
  <2>3. ASSUME NEW q \in 1 .. B * B * B * B - 1, Advertise(q) PROVE SumInv'
    BY <2>3, AdvertiseInv
  <2>4. CASE UNCHANGED sumVars
    BY <2>4 DEF sumVars, SumInv, SumTypeOK, HeaderVerifies, NaVerifies
  <2> QED BY <2>1, <2>2, <2>3, <2>4 DEF SumNext
<1> QED BY <1>1, SumInitInv, PTL DEF SumSpec

\* Whatever the addresses and however many translators forward it, a packet
\* whose header verified verifies at its receiver: calc_chksum_delta and
\* add16forCheckSum (checksum.h) lose no carry.
THEOREM ForwardedVerifies == SumSpec => []HeaderVerifies
<1>1. SumInv => HeaderVerifies
  BY DEF SumInv
<1> QED BY <1>1, SumInvariant, PTL

\* An advertisement verifies at its receiver, whatever it says: icmpv6_sum
\* (checksum.h) folds a 64-bit sum without loss.
THEOREM AdvertisedVerifies == SumSpec => []NaVerifies
<1>1. SumInv => NaVerifies
  BY DEF SumInv
<1> QED BY <1>1, SumInvariant, PTL

-----------------------------------------------------------------------------
(***************************************************************************)
(* The answers to ARP requests and neighbour solicitations.                *)
(***************************************************************************)

\* What the three properties say of a frame f and what was done with it, a.
Echoes(a, f) ==
    a.do \in {"arp", "na"} =>
       LET theMac == IF cf.side = "egress" THEN {cf.gw_mac, cf.found} \ {Unknown, OwnMac}
                     ELSE {OwnMac}
       IN  /\ a.sent.h_source \in theMac
           /\ a.do = "arp" =>
                 /\ a.sent.h_dest = f.sha /\ a.sent.tha = f.sha /\ a.sent.tpa = f.spa
                 /\ a.sent.sha = a.sent.h_source /\ a.sent.spa = f.tpa
                 /\ cf.side # "egress" => a.sent.spa = cf.vip4
           /\ a.do = "na" =>
                 /\ a.sent.h_dest = f.h_source /\ a.sent.ip_dst = f.ip_src
                 /\ a.sent.target = f.target /\ a.sent.ip_src = f.target
                 /\ cf.side # "egress" => a.sent.target = cf.vip6

Spares(a, f) ==
    /\ a.do = "na" => f.ip_src # Zero6
    /\ cf.side = "egress" =>
          /\ a.do = "arp" => f.tpa \notin {cf.sip4, cf.svr_ip4}
          /\ a.do = "na" /\ f.to = "group" => f.target # cf.sip6

\* The ARP reply is the request turned round, although it is written over it.
LEMMA ArpTurned ==
  ASSUME NEW f \in Frames, f.prot = "ARP", NEW mac
  PROVE  LET s == ArpBody(f, mac)
         IN  /\ s.h_dest = f.sha /\ s.h_source = mac /\ s.tha = f.sha /\ s.tpa = f.spa
             /\ s.sha = mac /\ s.spa = f.tpa
<1>1. {"h_dest", "h_source", "sha", "spa", "tha", "tpa"} \subseteq DOMAIN f
  BY NeighbourAssumption
<1> QED BY <1>1 DEF ArpBody, Set

\* An answer of either kind with a MAC that may be said is one that echoes.
LEMMA ArpEchoes ==
  ASSUME NEW f \in Frames, f.prot = "ARP", NEW mac,
         mac \in (IF cf.side = "egress" THEN {cf.gw_mac, cf.found} \ {Unknown, OwnMac}
                  ELSE {OwnMac}),
         cf.side # "egress" => f.tpa = cf.vip4,
         cf.side = "egress" => f.tpa \notin {cf.sip4, cf.svr_ip4}
  PROVE  Echoes(ArpAnswer(f, mac), f) /\ Spares(ArpAnswer(f, mac), f)
<1>1. CASE f.template
  <2> DEFINE s == ArpBody(f, mac)
  <2>1. /\ s.h_dest = f.sha /\ s.h_source = mac /\ s.tha = f.sha /\ s.tpa = f.spa
        /\ s.sha = mac /\ s.spa = f.tpa
    BY ArpTurned
  <2>2. ArpAnswer(f, mac).do = "arp" /\ ArpAnswer(f, mac).sent = s
    BY <1>1 DEF ArpAnswer
  <2> HIDE DEF s
  <2> QED BY <2>1, <2>2 DEF Echoes, Spares
<1>2. CASE ~f.template
  BY <1>2 DEF ArpAnswer, Nothing, Echoes, Spares
<1> QED BY <1>1, <1>2

LEMMA NaEchoes ==
  ASSUME NEW f, NEW mac, NEW mcast, f.ip_src # Zero6,
         mac \in (IF cf.side = "egress" THEN {cf.gw_mac, cf.found} \ {Unknown, OwnMac}
                  ELSE {OwnMac}),
         cf.side # "egress" => f.target = cf.vip6,
         cf.side = "egress" /\ f.to = "group" => f.target # cf.sip6
  PROVE  LET a == NaAnswer(f, f.target, mac, mcast)
         IN  Echoes(a, f) /\ Spares(a, f) /\ a.do = "na"
<1> DEFINE a == NaAnswer(f, f.target, mac, mcast)
<1>1. /\ a.do = "na" /\ a.sent.h_source = mac /\ a.sent.h_dest = f.h_source
      /\ a.sent.ip_dst = f.ip_src /\ a.sent.target = f.target /\ a.sent.ip_src = f.target
  BY DEF NaAnswer, NaMessage
<1> HIDE DEF a
<1>2. Echoes(a, f) /\ Spares(a, f)
  BY <1>1 DEF Echoes, Spares
<1> QED BY <1>1, <1>2 DEF a

\* What is nothing or passed on says nothing.
LEMMA SilentEchoes ==
  ASSUME NEW a, NEW f, a.do \notin {"arp", "na"}
  PROVE  Echoes(a, f) /\ Spares(a, f)
  BY DEF Echoes, Spares

LEMMA Silent == Nothing.do = "nothing" /\ Pass("v4").do = "pass" /\ Pass("v6").do = "pass"
  BY DEF Nothing, Pass

\* The clients' side.
LEMMA ArpReplyOK ==
  ASSUME cf.side # "egress", NEW f \in Frames, f.prot = "ARP"
  PROVE  Echoes(ArpReply(f), f) /\ Spares(ArpReply(f), f)
<1>1. CASE f.tpa = cf.vip4
  BY <1>1, ArpEchoes DEF ArpReply
<1>2. CASE f.tpa # cf.vip4
  BY <1>2, Silent, SilentEchoes DEF ArpReply
<1> QED BY <1>1, <1>2

LEMMA NaVipOK ==
  ASSUME cf.side # "egress", NEW f, NEW mcast, ValidNs(f, cf.vip6, FALSE)
  PROVE  LET a == NaAnswer(f, cf.vip6, OwnMac, mcast)
         IN  Echoes(a, f) /\ Spares(a, f) /\ a.do = "na"
<1>1. f.ip_src # Zero6 /\ f.target = cf.vip6
  BY DEF ValidNs
<1>2. LET a == NaAnswer(f, f.target, OwnMac, mcast)
      IN  Echoes(a, f) /\ Spares(a, f) /\ a.do = "na"
  BY <1>1, NaEchoes
<1> QED BY <1>1, <1>2

LEMMA MacResolveOK ==
  ASSUME cf.side # "egress", NEW f \in Frames
  PROVE  Echoes(MacResolve(f), f) /\ Spares(MacResolve(f), f)
<1> DEFINE arp == f.to = "broadcast" /\ f.prot = "ARP" /\ cf.v4_enable
           ns == /\ f.to = "group" /\ f.prot = "IPV6" /\ cf.v6_enable
                 /\ f.group = Group[cf.vip6] /\ IsNs(f) /\ ValidNs(f, cf.vip6, FALSE)
<1>1. CASE arp
  <2>1. MacResolve(f) = ArpReply(f)
    BY <1>1 DEF MacResolve
  <2> QED BY <1>1, <2>1, ArpReplyOK
<1>2. CASE ns
  <2>1. MacResolve(f) = NaAnswer(f, cf.vip6, OwnMac, TRUE)
    BY <1>2 DEF MacResolve
  <2> QED BY <1>2, <2>1, NaVipOK
<1>3. CASE ~arp /\ ~ns
  <2>1. MacResolve(f) = Nothing
    BY <1>3 DEF MacResolve
  <2> QED BY <2>1, Silent, SilentEchoes
<1> QED BY <1>1, <1>2, <1>3

LEMMA MacResolveUc6OK ==
  ASSUME cf.side # "egress", NEW f \in Frames
  PROVE  Echoes(MacResolveUc6(f), f) /\ Spares(MacResolveUc6(f), f)
<1>1. CASE cf.v6_enable /\ f.ip_dst = cf.vip6 /\ ValidNs(f, cf.vip6, FALSE)
  <2>1. MacResolveUc6(f) = NaAnswer(f, cf.vip6, OwnMac, FALSE)
    BY <1>1 DEF MacResolveUc6
  <2> QED BY <1>1, <2>1, NaVipOK
<1>2. CASE ~(cf.v6_enable /\ f.ip_dst = cf.vip6 /\ ValidNs(f, cf.vip6, FALSE))
  <2>1. MacResolveUc6(f) = Nothing
    BY <1>2 DEF MacResolveUc6
  <2> QED BY <2>1, Silent, SilentEchoes
<1> QED BY <1>1, <1>2

\* A frame to one host, given its answers as ARP and as a solicitation.
LEMMA UnicastOK ==
  ASSUME NEW f, NEW arp, NEW ns,
         f.prot = "ARP" => Echoes(arp, f) /\ Spares(arp, f),
         Echoes(ns, f) /\ Spares(ns, f)
  PROVE  Echoes(Unicast(f, arp, ns), f) /\ Spares(Unicast(f, arp, ns), f)
<1>1. \/ f.prot = "ARP" /\ Unicast(f, arp, ns) = arp
      \/ Unicast(f, arp, ns) \in {ns, Pass("v4"), Pass("v6"), Nothing}
  BY DEF Unicast
<1> QED BY <1>1, Silent, SilentEchoes

LEMMA ProcRecvDataOK ==
  ASSUME cf.side # "egress", NEW f \in Frames
  PROVE  /\ Echoes(ProcRecvData(f), f) /\ Spares(ProcRecvData(f), f)
         /\ Echoes(ProcIngressData(f), f) /\ Spares(ProcIngressData(f), f)
<1> DEFINE uc == Unicast(f, ArpReply(f), IF cf.vip_mode THEN MacResolveUc6(f) ELSE Nothing)
<1>1. Echoes(uc, f) /\ Spares(uc, f)
  <2> DEFINE ns == IF cf.vip_mode THEN MacResolveUc6(f) ELSE Nothing
  <2>1. Echoes(ns, f) /\ Spares(ns, f)
    BY MacResolveUc6OK, Silent, SilentEchoes
  <2> HIDE DEF ns
  <2>2. f.prot = "ARP" => Echoes(ArpReply(f), f) /\ Spares(ArpReply(f), f)
    BY ArpReplyOK
  <2>3. Echoes(Unicast(f, ArpReply(f), ns), f) /\ Spares(Unicast(f, ArpReply(f), ns), f)
    BY <2>1, <2>2, UnicastOK
  <2> QED BY <2>3 DEF ns
<1> HIDE DEF uc
<1>2. /\ ProcRecvData(f) \in {Nothing, MacResolve(f), uc}
      /\ ProcIngressData(f) \in {Nothing, MacResolve(f), uc}
  BY DEF ProcRecvData, ProcIngressData, uc
<1> QED BY <1>1, <1>2, MacResolveOK, Silent, SilentEchoes

\* The server's side.
LEMMA GwOrProxyKnown ==
  ASSUME cf \in Configs, cf.side = "egress"
  PROVE  /\ GwMac # Unknown => GwMac \in {cf.gw_mac, cf.found} \ {Unknown, OwnMac}
         /\ GwOrProxyMac # Unknown => GwOrProxyMac \in {cf.gw_mac, cf.found} \ {Unknown, OwnMac}
  BY NeighbourAssumption DEF GwMac, GwOrProxyMac

LEMMA NaWithOK ==
  ASSUME cf \in Configs, cf.side = "egress", NEW f, NEW mac \in {GwMac, GwOrProxyMac}, NEW mcast,
         f.ip_src # Zero6, f.to = "group" => mcast,
         f.to = "group" /\ f.group = Group[f.target] => f.target # cf.sip6
  PROVE  Echoes(NaWith(f, mac, mcast), f) /\ Spares(NaWith(f, mac, mcast), f)
<1> DEFINE a == NaAnswer(f, f.target, mac, mcast)
<1>1. NaWith(f, mac, mcast) = Nothing \/
        (/\ NaWith(f, mac, mcast) = a /\ mac # Unknown
         /\ mcast => f.group = Group[f.target])
  BY DEF NaWith, NaBody
<1>2. ASSUME mac # Unknown, mcast => f.group = Group[f.target]
      PROVE  Echoes(a, f) /\ Spares(a, f)
  <2>1. mac \in {cf.gw_mac, cf.found} \ {Unknown, OwnMac}
    BY <1>2, GwOrProxyKnown
  <2>2. f.to = "group" => f.target # cf.sip6
    BY <1>2
  <2> QED BY <2>1, <2>2, NaEchoes
<1> HIDE DEF a
<1> QED BY <1>1, <1>2, Silent, SilentEchoes

LEMMA ArpEgressOK ==
  ASSUME cf \in Configs, cf.side = "egress", NEW f \in Frames, f.prot = "ARP"
  PROVE  Echoes(ArpEgressReply(f), f) /\ Spares(ArpEgressReply(f), f)
<1>1. CASE f.tpa \notin {cf.sip4, cf.svr_ip4} /\ GwOrProxyMac # Unknown
  <2>1. GwOrProxyMac \in {cf.gw_mac, cf.found} \ {Unknown, OwnMac}
    BY <1>1, GwOrProxyKnown
  <2>2. ArpEgressReply(f) = ArpAnswer(f, GwOrProxyMac)
    BY <1>1 DEF ArpEgressReply
  <2> QED BY <1>1, <2>1, <2>2, ArpEchoes
<1>2. CASE ~(f.tpa \notin {cf.sip4, cf.svr_ip4} /\ GwOrProxyMac # Unknown)
  <2>1. ArpEgressReply(f) = Nothing
    BY <1>2 DEF ArpEgressReply
  <2> QED BY <2>1, Silent, SilentEchoes
<1> QED BY <1>1, <1>2

LEMMA NsEgressOK ==
  ASSUME cf \in Configs, cf.side = "egress", NEW f \in Frames
  PROVE  Echoes(NsEgress(f), f) /\ Spares(NsEgress(f), f)
<1> DEFINE vip == cf.vip_mode /\ f.to = "group" /\ f.group = Group[cf.vip6]
           proxy == /\ ~(cf.vip_mode /\ f.group = Group[cf.vip6])
                    /\ f.to = "group" /\ f.group # Group[cf.sip6]
<1>1. CASE vip
  <2>1. CASE ValidNs(f, cf.vip6, FALSE)
    <3>1. NsEgress(f) = NaWith(f, GwMac, TRUE)
      BY <1>1, <2>1 DEF NsEgress
    <3>2. f.ip_src # Zero6 /\ f.target # cf.sip6
      BY <1>1, <2>1, NeighbourAssumption DEF ValidNs
    <3> QED BY <3>1, <3>2, NaWithOK
  <2>2. CASE ~ValidNs(f, cf.vip6, FALSE)
    <3>1. NsEgress(f) = Nothing
      BY <1>1, <2>2 DEF NsEgress
    <3> QED BY <3>1, Silent, SilentEchoes
  <2> QED BY <2>1, <2>2
<1>2. CASE proxy
  <2>1. CASE ValidNs(f, Zero6, TRUE)
    <3>1. NsEgress(f) = NaWith(f, GwOrProxyMac, TRUE)
      BY <1>2, <2>1 DEF NsEgress
    <3>2. f.ip_src # Zero6 /\ (f.group = Group[f.target] => f.target # cf.sip6)
      BY <1>2, <2>1 DEF ValidNs
    <3> QED BY <3>1, <3>2, NaWithOK
  <2>2. CASE ~ValidNs(f, Zero6, TRUE)
    <3>1. NsEgress(f) = Nothing
      BY <1>2, <2>2 DEF NsEgress
    <3> QED BY <3>1, Silent, SilentEchoes
  <2> QED BY <2>1, <2>2
<1>3. CASE ~vip /\ ~proxy
  <2>1. NsEgress(f) = Nothing
    BY <1>3 DEF NsEgress
  <2> QED BY <2>1, Silent, SilentEchoes
<1> QED BY <1>1, <1>2, <1>3

LEMMA Uc6EgressOK ==
  ASSUME cf \in Configs, cf.side = "egress", NEW f \in Frames, f.to # "group"
  PROVE  Echoes(MacResolveUc6Egress(f), f) /\ Spares(MacResolveUc6Egress(f), f)
<1>1. \/ MacResolveUc6Egress(f) = Nothing
      \/ MacResolveUc6Egress(f) = NaWith(f, GwMac, FALSE) /\ f.ip_src # Zero6
      \/ MacResolveUc6Egress(f) = NaWith(f, GwOrProxyMac, FALSE) /\ f.ip_src # Zero6
  BY DEF MacResolveUc6Egress, ValidNs
<1>2. ASSUME f.ip_src # Zero6, NEW mac \in {GwMac, GwOrProxyMac}
      PROVE  Echoes(NaWith(f, mac, FALSE), f) /\ Spares(NaWith(f, mac, FALSE), f)
  BY <1>2, NaWithOK
<1> QED BY <1>1, <1>2, Silent, SilentEchoes

LEMMA ProcEgressDataOK ==
  ASSUME cf \in Configs, cf.side = "egress", NEW f \in Frames
  PROVE  Echoes(ProcEgressData(f), f) /\ Spares(ProcEgressData(f), f)
<1>1. CASE Multicast(f)
  <2>1. \/ ProcEgressData(f) = Nothing
        \/ ProcEgressData(f) = ArpEgressReply(f) /\ f.prot = "ARP"
        \/ ProcEgressData(f) = NsEgress(f)
    BY <1>1 DEF ProcEgressData, MacResolveEgress
  <2> QED BY <2>1, ArpEgressOK, NsEgressOK, Silent, SilentEchoes
<1>2. CASE ~Multicast(f)
  <2> DEFINE uc == Unicast(f, ArpEgressReply(f), MacResolveUc6Egress(f))
  <2>1. f.to # "group"
    BY <1>2 DEF Multicast
  <2>2. Echoes(uc, f) /\ Spares(uc, f)
    BY <2>1, ArpEgressOK, Uc6EgressOK, UnicastOK
  <2> HIDE DEF uc
  <2>3. ProcEgressData(f) \in {Nothing, uc}
    BY <1>2 DEF ProcEgressData, uc
  <2> QED BY <2>2, <2>3, Silent, SilentEchoes
<1> QED BY <1>1, <1>2

\* A well-formed request for the virtual address.
AsksArp(f) ==
    /\ f.prot = "ARP" /\ cf.v4_enable /\ f.template /\ f.tpa = cf.vip4
    /\ f.to \in {"broadcast", "own"}

AsksNs(f) ==
    /\ f.prot = "IPV6" /\ f.type = "NS" /\ cf.v6_enable
    /\ f.flaw = "none" /\ f.ip_src # Zero6 /\ f.target = cf.vip6
    /\ f.plen \in NS_SIZE .. 255 /\ f.optlen >= 0 /\ OptionsOk(f.opts, f.optlen)
    /\ \/ f.to = "group" /\ f.group = Group[cf.vip6]
       \/ f.to = "own" /\ f.ip_dst = cf.vip6

LEMMA ArpReplied ==
  ASSUME NEW f, AsksArp(f)
  PROVE  ArpReply(f).do = "arp"
  BY DEF AsksArp, ArpReply, ArpAnswer

\* The payload length in network order is not small for a length of one byte.
LEMMA NsSeen ==
  ASSUME NEW f, AsksNs(f)
  PROVE  IsNs(f)
<1>1. f.plen \in 24 .. 255
  BY DEF AsksNs, NS_SIZE
<1>2. \A n \in 24 .. 255 : Swap(n) >= 24
  <2> SUFFICES ASSUME NEW n \in 24 .. 255 PROVE Swap(n) >= 24
    OBVIOUS
  <2>1. n % 256 = n /\ n \div 256 = 0
    OBVIOUS
  <2> QED BY <2>1 DEF Swap
<1> QED BY <1>1, <1>2 DEF AsksNs, IsNs, NS_SIZE

LEMMA NsOk ==
  ASSUME NEW f, AsksNs(f), cf.vip6 \notin Multi6
  PROVE  ValidNs(f, cf.vip6, FALSE)
  BY DEF AsksNs, ValidNs

LEMMA VipReplied ==
  ASSUME cf \in Configs, cf.side # "egress", cf.vip_mode, NEW f \in Frames, f.h_source # OwnMac
  PROVE  /\ AsksArp(f) => ProcRecvData(f).do = "arp" /\ ProcIngressData(f).do = "arp"
         /\ AsksNs(f) => ProcRecvData(f).do = "na" /\ ProcIngressData(f).do = "na"
<1>1. ASSUME AsksArp(f)
      PROVE  ProcRecvData(f) = ArpReply(f) /\ ProcIngressData(f) = ArpReply(f)
  <2>1. f.prot = "ARP" /\ cf.v4_enable /\ f.to \in {"broadcast", "own"}
    BY <1>1 DEF AsksArp
  <2>2. CASE f.to = "broadcast"
    <3>1. MacResolve(f) = ArpReply(f)
      BY <2>1, <2>2 DEF MacResolve
    <3> QED BY <2>2, <3>1 DEF ProcRecvData, ProcIngressData, Multicast
  <2>3. CASE f.to = "own"
    <3>1. \A ns : Unicast(f, ArpReply(f), ns) = ArpReply(f)
      BY <2>1 DEF Unicast
    <3> QED BY <2>3, <3>1 DEF ProcRecvData, ProcIngressData, Multicast
  <2> QED BY <2>1, <2>2, <2>3
<1>2. ASSUME AsksNs(f)
      PROVE  \E m \in BOOLEAN : /\ ProcRecvData(f) = NaAnswer(f, cf.vip6, OwnMac, m)
                                /\ ProcIngressData(f) = NaAnswer(f, cf.vip6, OwnMac, m)
  <2>1. /\ f.prot = "IPV6" /\ cf.v6_enable /\ IsNs(f) /\ ValidNs(f, cf.vip6, FALSE)
        /\ \/ f.to = "group" /\ f.group = Group[cf.vip6]
           \/ f.to = "own" /\ f.ip_dst = cf.vip6
    BY <1>2, NsSeen, NsOk, NeighbourAssumption DEF AsksNs
  <2>2. CASE f.to = "group"
    <3>1. MacResolve(f) = NaAnswer(f, cf.vip6, OwnMac, TRUE)
      BY <2>1, <2>2 DEF MacResolve
    <3> QED BY <2>2, <3>1 DEF ProcRecvData, ProcIngressData, Multicast
  <2>3. CASE f.to = "own"
    <3>1. MacResolveUc6(f) = NaAnswer(f, cf.vip6, OwnMac, FALSE)
      BY <2>1, <2>3 DEF MacResolveUc6
    <3>2. \A arp, ns : Unicast(f, arp, ns) = ns
      BY <2>1 DEF Unicast
    <3> QED BY <2>3, <3>1, <3>2 DEF ProcRecvData, ProcIngressData, Multicast
  <2> QED BY <2>1, <2>2, <2>3
<1> QED BY <1>1, <1>2, ArpReplied DEF NaAnswer

\* What has been configured and handled; the three properties are inductive
\* with it.
FrameInv ==
    /\ cf = Nothing => frame = Nothing /\ answer = Nothing
    /\ cf # Nothing => cf \in Configs
    /\ AnswerEchoes /\ NoAddressTaken /\ VipAnswered

LEMMA FrameInitInv == FrameInit => FrameInv
  BY DEF FrameInit, FrameInv, Nothing, AnswerEchoes, NoAddressTaken, VipAnswered

LEMMA FrameStep == FrameInv /\ [FrameNext]_frameVars => FrameInv'
<1> SUFFICES ASSUME FrameInv, [FrameNext]_frameVars PROVE FrameInv'
  OBVIOUS
<1>1. CASE UNCHANGED frameVars
  BY <1>1 DEF frameVars, FrameInv, AnswerEchoes, NoAddressTaken, VipAnswered
<1>2. CASE Configure
  <2>1. frame' = Nothing /\ answer' = Nothing /\ cf' \in Configs
    BY <1>2 DEF Configure, FrameInv
  <2>2. answer'.do = "nothing"
    BY <2>1 DEF Nothing
  <2>3. AnswerEchoes' /\ NoAddressTaken' /\ VipAnswered'
    BY <2>1, <2>2 DEF AnswerEchoes, NoAddressTaken, VipAnswered
  <2> QED BY <2>1, <2>3 DEF FrameInv
\* The properties follow from what was shown of the handlers.
<1>3. ASSUME NEW f \in Frames, NEW a, cf \in Configs, cf # Nothing, cf' = cf, frame' = f,
             answer' = a, Echoes(a, f), Spares(a, f),
             cf.side # "egress" /\ cf.vip_mode /\ f.h_source # OwnMac =>
                /\ AsksArp(f) => a.do = "arp"
                /\ AsksNs(f) => a.do = "na"
      PROVE  FrameInv'
  <2>1. AnswerEchoes'
    BY <1>3 DEF AnswerEchoes, Echoes
  <2>2. NoAddressTaken'
    BY <1>3 DEF NoAddressTaken, Spares
  <2>3. VipAnswered'
    BY <1>3 DEF VipAnswered, AsksArp, AsksNs
  <2> QED BY <1>3, <2>1, <2>2, <2>3 DEF FrameInv
<1>4. ASSUME NEW side, Receive(side)
      PROVE  cf \in Configs /\ cf # Nothing /\ cf' = cf /\ cf.side = side /\ frame' \in Frames
  BY <1>4 DEF Receive, FrameInv
<1>5. CASE Receive("front") /\ answer' = ProcRecvData(frame')
  BY <1>3, <1>4, <1>5, ProcRecvDataOK, VipReplied
<1>6. CASE Receive("ingress") /\ answer' = ProcIngressData(frame')
  BY <1>3, <1>4, <1>6, ProcRecvDataOK, VipReplied
<1>7. CASE Receive("egress") /\ answer' = ProcEgressData(frame')
  BY <1>3, <1>4, <1>7, ProcEgressDataOK
<1> QED BY <1>1, <1>2, <1>5, <1>6, <1>7 DEF FrameNext

LEMMA FrameInvariant == FrameSpec => []FrameInv
  BY FrameInitInv, FrameStep, PTL DEF FrameSpec

\* Whatever frame arrives at whatever configuration, an answer goes back to who
\* asked and says what was asked for (arp_reply, arp_proxy_body, send_icmp6_na,
\* send_na_body).
THEOREM AnswersEcho == FrameSpec => []AnswerEchoes
<1>1. FrameInv => AnswerEchoes
  BY DEF FrameInv
<1> QED BY <1>1, FrameInvariant, PTL

\* No host is told that its address is taken, as long as the virtual address is
\* not the translator's own (check_valid_ns, arp_egress_reply,
\* mac_resolve_egress).
THEOREM AddressesSpared == FrameSpec => []NoAddressTaken
<1>1. FrameInv => NoAddressTaken
  BY DEF FrameInv
<1> QED BY <1>1, FrameInvariant, PTL

\* Every well-formed request for the virtual address is answered (mac_resolve,
\* mac_resolve_uc6), of a payload up to 255 bytes.
THEOREM VipFound == FrameSpec => []VipAnswered
<1>1. FrameInv => VipAnswered
  BY DEF FrameInv
<1> QED BY <1>1, FrameInvariant, PTL
=============================================================================
