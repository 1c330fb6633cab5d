------------------------------ MODULE Checksum ------------------------------
(***************************************************************************)
(* The checksums a translator writes: the incremental update of the IPv4   *)
(* header checksum of a packet it forwards (proc_v4, proc_v4_in), and the  *)
(* ICMPv6 checksum of an advertisement it sends (common/checksum.h).       *)
(* A packet is what the arithmetic sees of it: the two halves of its       *)
(* destination, its checksum and the sum of all its other words.           *)
(***************************************************************************)
EXTENDS Integers

CONSTANTS
    B,         \* number of values of a 16-bit word: 65536
    MaxRest,   \* bound: sum of the words that stay as they are
    MaxHops    \* bound: translators on the way

ASSUME BAssumption == B \in Nat /\ B > 3
ASSUME ChecksumBounds == MaxRest \in Nat /\ MaxHops \in Nat

VARIABLES
    rest,    \* sum of the header's other words; 0 when there is no packet
    dst,     \* halves of the destination address
    csum,    \* the checksum field
    na,      \* sum of the words of an advertisement, checksum included; or 0
    hops     \* forwardings, bounded by MaxHops

sumVars == <<rest, dst, csum, na, hops>>

Word == 0 .. B - 1
Addr == Word \X Word

\* The receiver's test (RFC 1071): the folded sum is all ones.
Verified(total) == total > 0 /\ (total % (B - 1)) = 0

\* add16forCheckSum
Add16(olddata, newdata) ==
    ((olddata + newdata) \div B) + ((olddata + newdata) % B)

AddCarry(x) == IF x > B - 1 THEN x - (B - 1) ELSE x

\* A 32-bit sum, by its halves: l_util.
Fold(l) == AddCarry((l % B) + (l \div B))

\* The upper half of the sum is cut off.
WordsLow(q) == (q % B) + ((q \div B) % B)

\* icmpv6_sum, of the 64-bit sum that soft_checksum and pseudo_sum_v6 give:
\* the sum of its four words (q_util), folded.
Words(q) == LET q1 == q \div B
                q2 == q1 \div B
            IN  (q % B) + (q1 % B) + (q2 % B) + (q2 \div B)
Icmpv6Sum(q) == Fold(Words(q))

\* The complement forgotten.
CalcChksumDeltaPlain(old, new) ==
    Fold((B - 1 - old[1]) + (B - 1 - old[2]) + new[1] + new[2])

\* calc_chksum_delta: the complement of ~old + new.
CalcChksumDelta(old, new) ==
    (B - 1) - Fold((B - 1 - old[1]) + (B - 1 - old[2]) + new[1] + new[2])

SumInit == rest = 0 /\ dst = <<0, 0>> /\ csum = 0 /\ na = 0 /\ hops = 0

\* A packet arrives that its receiver would accept.
Arrive ==
    /\ rest = 0 /\ na = 0
    /\ rest' \in 1 .. MaxRest /\ dst' \in Addr /\ csum' \in Word
    /\ Verified(rest' + dst'[1] + dst'[2] + csum')
    /\ UNCHANGED <<na, hops>>

\* proc_v4, proc_v4_in: from the virtual address to the server's.
Forward(new) ==
    /\ rest > 0 /\ hops < MaxHops
    /\ csum' = Add16(csum, CalcChksumDelta(dst, new))
    /\ dst' = new
    /\ hops' = hops + 1
    /\ UNCHANGED <<rest, na>>

\* send_icmp6_na, send_na_body: q is the sum of the pseudo header and of the
\* message with checksum 0, in which not every word is 0.
Advertise(q) ==
    /\ rest = 0 /\ na = 0
    /\ na' = q + ((B - 1) - Icmpv6Sum(q))
    /\ UNCHANGED <<rest, dst, csum, hops>>

SumNext == Arrive \/ (\E new \in Addr : Forward(new))
                  \/ (\E q \in 1 .. B * B * B * B - 1 : Advertise(q))

SumSpec == SumInit /\ [][SumNext]_sumVars

(***************************************************************************)
(* Properties                                                              *)
(***************************************************************************)

\* A packet that verified when it came verifies after every forwarding, the
\* front's and the backend's: the carries, and both representations of zero,
\* included.
HeaderVerifies == rest > 0 => Verified(rest + dst[1] + dst[2] + csum)

\* What the checksum field of an advertisement makes of its sum verifies.
NaVerifies == na > 0 => Verified(na)
=============================================================================
