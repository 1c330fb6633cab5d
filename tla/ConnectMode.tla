---------------------------- MODULE ConnectMode ----------------------------
(***************************************************************************)
(* Whether the backend joins two halves of one network or two networks:    *)
(* get_connect_mode and is_same_net (back/back_init.c).  An address is a   *)
(* sequence of words, the first bit of the address the highest of the      *)
(* first word, a word the set of its one bits, so that "s & mask" is \cap.  *)
(***************************************************************************)
EXTENDS Integers

CONSTANTS
    W,          \* bits of a word: 32
    Words4,     \* words of an IPv4 address: 1
    Words6      \* words of an IPv6 address: 4

ASSUME ConnectModeAssumption == W \in Nat \ {0} /\ Words4 \in Nat /\ Words6 \in Nat

VARIABLES
    compared,   \* history: the addresses and mask lengths the mode comes from
    l_mode      \* "unset", "L2_MODE", "L3_MODE"

modeVars == <<compared, l_mode>>

NoFamily == [s1 |-> <<>>, s2 |-> <<>>, mask_in |-> 0, mask_eg |-> 0]
ModeInit == compared = NoFamily /\ l_mode = "unset"

Addresses(words) == [1 .. words -> SUBSET (0 .. W - 1)]

\* The mask without htonl.
TopLow(word, m) == word \cap (W - m .. W - 1)

\* A word under a mask of m bits, m < W.
Top(word, m) == word \cap (0 .. m - 1)

\* is_same_net: word by word, while the mask lasts.
IsSameNet(s1, s2, mlen) ==
    \A i \in DOMAIN s1 :
       LET m == mlen - W * (i - 1)
       IN  /\ m >= W => s1[i] = s2[i]
           /\ m \in 1 .. W - 1 => Top(s1[i], m) = Top(s2[i], m)

\* get_mask: what the kernel says of an address; 0 if it knows none, -1 if
\* it cannot be asked.
Masks(words) == -1 .. words * W

Decide(s1, s2, mask_in, mask_eg) ==
    /\ mask_in > 0 /\ mask_eg > 0
    /\ compared' = [s1 |-> s1, s2 |-> s2, mask_in |-> mask_in, mask_eg |-> mask_eg]
    /\ l_mode' = IF mask_in = mask_eg /\ IsSameNet(s1, s2, mask_in)
                 THEN "L2_MODE" ELSE "L3_MODE"

\* Both interfaces have an IPv4 address with a mask.
ConnectMode4 ==
    /\ l_mode = "unset"
    /\ \E s1, s2 \in Addresses(Words4), mask_in, mask_eg \in Masks(Words4) :
          Decide(s1, s2, mask_in, mask_eg)

\* They do not, and have an IPv6 address.  The egress mask is asked for with
\* family AF_INET (back_init.c:270): it is that of some IPv4 address, or none.
ConnectMode6 ==
    /\ l_mode = "unset"
    /\ \E s1, s2 \in Addresses(Words6), mask_in \in Masks(Words6), mask_eg \in Masks(Words4) :
          Decide(s1, s2, mask_in, mask_eg)

\* No family decides.
ConnectModeDefault ==
    /\ l_mode = "unset"
    /\ l_mode' = "L2_MODE"
    /\ UNCHANGED compared

ModeNext == ConnectMode4 \/ ConnectMode6 \/ ConnectModeDefault

ModeSpec == ModeInit /\ [][ModeNext]_modeVars

(***************************************************************************)
(* Properties                                                              *)
(***************************************************************************)

\* The bit of an address, counted from 0.
Bit(s, b) == (b % W) \in s[1 + (b \div W)]

\* The mode is what the masks and addresses that were compared say: one network
\* if and only if the masks are equal and so are all the bits under them.
ModeIsNet ==
    compared # NoFamily =>
        (l_mode = "L2_MODE" <=>
            /\ compared.mask_in = compared.mask_eg
            /\ \A b \in 0 .. compared.mask_in - 1 : Bit(compared.s1, b) = Bit(compared.s2, b))
=============================================================================
