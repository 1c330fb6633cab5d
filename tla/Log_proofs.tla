----------------------------- MODULE Log_proofs -----------------------------
(***************************************************************************)
(* Proofs about the logs: EventLog, for any number of threads, calls and   *)
(* slots, and LogDump, for any size of the work buffer and of the tables.  *)
(***************************************************************************)
EXTENDS EventLog, LogDump, Integers, TLAPS

-----------------------------------------------------------------------------
(***************************************************************************)
(* Facts about % that the solvers do not know.                             *)
(***************************************************************************)

\* Division with remainder.
LEMMA DivMod ==
  ASSUME NEW a \in Nat, NEW b \in Nat \ {0}
  PROVE  a \div b \in Nat /\ a % b \in 0 .. b - 1 /\ a = b * (a \div b) + (a % b)
  BY SMT

\* Quotient and remainder are unique.
LEMMA ModUnique ==
  ASSUME NEW b \in Nat \ {0}, NEW q \in Nat, NEW r \in 0 .. b - 1
  PROVE  (b * q + r) % b = r
  BY SMT

\* The remainder of a successor.
LEMMA ModNext ==
  ASSUME NEW a \in Nat, NEW b \in Nat \ {0}
  PROVE  (a + 1) % b = IF (a % b) + 1 >= b THEN 0 ELSE (a % b) + 1
<1> DEFINE q == a \div b
           r == a % b
<1>1. q \in Nat /\ r \in 0 .. b - 1 /\ a = b * q + r
  BY DivMod
<1> HIDE DEF q, r
<1>2. CASE r + 1 < b
  <2>1. a + 1 = b * q + (r + 1) /\ r + 1 \in 0 .. b - 1
    BY <1>1, <1>2
  <2>2. (b * q + (r + 1)) % b = r + 1
    BY <1>1, <2>1, ModUnique
  <2> QED BY <1>1, <1>2, <2>1, <2>2 DEF r
<1>3. CASE r + 1 >= b
  <2>1. a + 1 = b * (q + 1) + 0
    BY <1>1, <1>3
  <2>2. (b * (q + 1) + 0) % b = 0
    <3>1. q + 1 \in Nat /\ 0 \in 0 .. b - 1
      BY <1>1
    <3> QED BY <3>1, ModUnique
  <2> QED BY <1>1, <1>3, <2>1, <2>2 DEF r
<1> QED BY <1>1, <1>2, <1>3

\* A counter that is kept modulo b.
LEMMA ModCount ==
  ASSUME NEW a \in Nat, NEW b \in Nat \ {0}
  PROVE  ((a % b) + 1) % b = (a + 1) % b
<1> DEFINE m == (a % b) + 1
<1>1. m \in 1 .. b
  BY DivMod
<1>2. (a + 1) % b = IF m >= b THEN 0 ELSE m
  BY ModNext
<1> HIDE DEF m
<1>3. CASE m < b
  <2>1. (b * 0 + m) % b = m
    <3>1. m \in 0 .. b - 1 /\ 0 \in Nat
      BY <1>1, <1>3
    <3> QED BY <3>1, ModUnique
  <2>2. b * 0 + m = m
    BY <1>1
  <2>3. m % b = m
    BY <2>1, <2>2, Zenon
  <2>4. (a + 1) % b = m
    BY <1>1, <1>2, <1>3
  <2> QED BY <2>3, <2>4, Zenon DEF m
<1>4. CASE m = b
  <2>1. (b * 1 + 0) % b = 0
    <3>1. 0 \in 0 .. b - 1 /\ 1 \in Nat
      OBVIOUS
    <3> QED BY <3>1, ModUnique
  <2>2. b * 1 + 0 = m
    BY <1>4
  <2>3. m % b = 0
    BY <2>1, <2>2, Zenon
  <2>4. (a + 1) % b = 0
    BY <1>1, <1>2, <1>4
  <2> QED BY <2>3, <2>4, Zenon DEF m
<1> QED BY <1>1, <1>3, <1>4

\* A sum with less than the modulus.
LEMMA ModAdd ==
  ASSUME NEW a \in Nat, NEW b \in Nat \ {0}, NEW k \in 0 .. b - 1
  PROVE  (a + k) % b = IF (a % b) + k < b THEN (a % b) + k ELSE (a % b) + k - b
<1> DEFINE q == a \div b
           r == a % b
<1>1. q \in Nat /\ r \in 0 .. b - 1 /\ a = b * q + r
  BY DivMod
<1> HIDE DEF q, r
<1>2. CASE r + k < b
  <2>1. a + k = b * q + (r + k) /\ r + k \in 0 .. b - 1
    BY <1>1, <1>2
  <2>2. (b * q + (r + k)) % b = r + k
    BY <1>1, <2>1, ModUnique
  <2> QED BY <1>2, <2>1, <2>2 DEF r
<1>3. CASE r + k >= b
  <2> DEFINE s == r + k - b
  <2>1. s \in 0 .. b - 1 /\ q + 1 \in Nat
    BY <1>1, <1>3
  <2>2. b * (q + 1) = b * q + b /\ b * q \in Nat
    BY <1>1
  <2>3. a + k = b * (q + 1) + s
    BY <1>1, <2>2
  <2> HIDE DEF s
  <2>4. (b * (q + 1) + s) % b = s
    BY <2>1, ModUnique
  <2> QED BY <1>1, <1>3, <2>3, <2>4 DEF r, s
<1> QED BY <1>1, <1>2, <1>3

\* Numbers less than the modulus apart have different remainders.
LEMMA ModDistinct ==
  ASSUME NEW a \in Nat, NEW b \in Nat \ {0}, NEW k \in 1 .. b - 1
  PROVE  (a + k) % b # a % b
<1>1. (a + k) % b = IF (a % b) + k < b THEN (a % b) + k ELSE (a % b) + k - b
  <2>1. k \in 0 .. b - 1
    OBVIOUS
  <2> QED BY <2>1, ModAdd
<1>2. a % b \in 0 .. b - 1
  BY DivMod
<1> QED BY <1>1, <1>2

\* The modulus itself makes no difference.
LEMMA ModPeriod ==
  ASSUME NEW a \in Nat, NEW b \in Nat \ {0}
  PROVE  (a + b) % b = a % b
<1> DEFINE q == a \div b
           r == a % b
<1>1. q \in Nat /\ r \in 0 .. b - 1 /\ a = b * q + r
  BY DivMod
<1> HIDE DEF q, r
<1>2. a + b = b * (q + 1) + r /\ q + 1 \in Nat
  BY <1>1
<1>3. (b * (q + 1) + r) % b = r
  BY <1>1, <1>2, ModUnique
<1> QED BY <1>2, <1>3 DEF r

-----------------------------------------------------------------------------
(***************************************************************************)
(* The position.                                                           *)
(***************************************************************************)

\* What PosHeals needs of the types.
PosType ==
    /\ pos \in Nat
    /\ reg \in [Writers -> Nat] /\ tr \in [Writers -> Nat]
    /\ DOMAIN pc = Writers

IInv == PosType /\ PosHeals

LEMMA InitOK == Init => IInv
  BY EventLogAssumption DEF Init, IInv, PosType, PosHeals

\* A step of a call.
LEMMA WriteOK ==
  ASSUME IInv, NEW t \in Writers, Write(t)
  PROVE  IInv'
<1> USE EventLogAssumption
<1>1. CASE Enter(t)
  BY <1>1 DEF Enter, IInv, PosType, PosHeals, ring
<1>2. CASE LoadSeqno(t)
  BY <1>2 DEF LoadSeqno, IInv, PosType, PosHeals, ring
<1>3. CASE StoreSeqno(t)
  BY <1>3 DEF StoreSeqno, IInv, PosType, PosHeals
<1>4. ASSUME NEW f \in Fields, Fill(t, f) PROVE IInv'
  BY <1>4 DEF Fill, IInv, PosType, PosHeals
<1>5. CASE LoadPos(t)
  <2>1. PosType'
    BY <1>5 DEF LoadPos, IInv, PosType, ring
  <2>2. PosHeals'
    BY <1>5 DEF LoadPos, IInv, PosType, PosHeals, ring
  <2> QED BY <2>1, <2>2 DEF IInv
<1>6. CASE StorePos(t)
  \* The thread that stores a position past the ring is the one that wraps it.
  <2>1. PosType'
    BY <1>6 DEF StorePos, IInv, PosType
  <2>2. pc'[t] = "wrap" /\ reg'[t] = reg[t] /\ pos' = reg[t] + 1
    BY <1>6 DEF StorePos, IInv, PosType
  <2>3. PosHeals'
    BY <2>2 DEF PosHeals
  <2> QED BY <2>1, <2>3 DEF IInv
<1>7. CASE Wrap(t)
  <2>1. PICK v \in {pos, reg[t] + 1} : pos' = IF v >= MAX THEN 0 ELSE pos
    BY <1>7 DEF Wrap
  <2>2. PosType'
    BY <1>7, <2>1 DEF Wrap, Return, IInv, PosType
  \* If the position stays past the ring, it is not this thread that had to
  \* set it back, and the one that has is still at its test.
  <2>3. PosHeals'
    <3> SUFFICES ASSUME pos' >= MAX
                 PROVE  \E u \in Writers : pc'[u] = "wrap" /\ reg'[u] + 1 >= MAX
      BY DEF PosHeals
    <3>1. pos \in Nat /\ reg[t] \in Nat /\ MAX \in Nat \ {0}
      BY DEF IInv, PosType
    <3>2. ~(v >= MAX) /\ pos' = pos
      BY <2>1, <3>1
    <3>3. pos >= MAX /\ reg[t] + 1 < MAX
      BY <2>1, <3>1, <3>2
    <3>4. PICK u \in Writers : pc[u] = "wrap" /\ reg[u] + 1 >= MAX
      BY <3>3 DEF IInv, PosHeals
    <3>5. u # t /\ reg[u] \in Nat
      BY <3>1, <3>3, <3>4 DEF IInv, PosType
    <3> QED BY <1>7, <3>4, <3>5 DEF Wrap, Return, IInv, PosType
  <2> QED BY <2>2, <2>3 DEF IInv
<1> QED BY <1>1, <1>2, <1>3, <1>4, <1>5, <1>6, <1>7 DEF Write

LEMMA StepOK == IInv /\ [Next]_vars => IInv'
<1> SUFFICES ASSUME IInv, [Next]_vars PROVE IInv'
  OBVIOUS
<1>1. CASE \E t \in Writers : Write(t)
  BY <1>1, WriteOK
<1>2. CASE UNCHANGED <<ring, locals>>
  BY <1>2 DEF IInv, PosType, PosHeals, ring, locals
<1>3. (\E on \in BOOLEAN : TraceControl(on)) \/ DumpBegin \/ DumpCopy \/ DumpEnd
        => UNCHANGED <<ring, locals>>
  BY DEF TraceControl, DumpBegin, DumpCopy, DumpEnd
<1>4. UNCHANGED vars => UNCHANGED <<ring, locals>>
  BY DEF vars
<1> QED BY <1>1, <1>2, <1>3, <1>4 DEF Next

\* However the calls of any number of threads interleave, a position past the
\* ring (mlog and evtlog, log_body.c:48-109) is on its way back.
THEOREM PositionHeals == Spec => []PosHeals
<1>1. IInv => PosHeals
  BY DEF IInv
<1> QED BY InitOK, StepOK, <1>1, PTL DEF Spec

-----------------------------------------------------------------------------
(***************************************************************************)
(* Calls that do not overlap.                                              *)
(***************************************************************************)

LogType ==
    /\ pos \in Nat /\ seqno \in Nat /\ logged \in Nat
    /\ slot \in [Slots -> [seqno : Nat, time : BOOLEAN]]
    /\ pc \in [Writers -> {"idle", "load", "store", "fill", "next", "wrap"}]
    /\ tr \in [Writers -> Nat] /\ reg \in [Writers -> Nat]
    /\ number \in [Writers -> Nat]
    /\ left \in [Writers -> SUBSET Fields]

Stored(t, f) == pc[t] \in {"next", "wrap"} \/ (pc[t] = "fill" /\ f \notin left[t])

\* What the one call under way has done so far.
InCall(t) ==
    /\ logged > 0
    /\ tr[t] = (logged - 1) % MAX
    /\ pos = IF pc[t] = "wrap" THEN tr[t] + 1 ELSE tr[t]
    /\ seqno = IF pc[t] \in {"load", "store"} THEN (logged - 1) % SeqMod ELSE logged % SeqMod
    /\ pc[t] \in {"store", "fill"} => number[t] = logged % SeqMod
    /\ pc[t] = "wrap" => reg[t] = tr[t]
    /\ pc[t] = "next" => reg[t] = tr[t]
    /\ \A s \in Slots \ {tr[t]} : slot[s] = Kept(logged, s)
    /\ Stored(t, "seqno") => slot[tr[t]].seqno = logged % SeqMod
    /\ Stored(t, "time") => slot[tr[t]].time = TRUE

OneCall == \A t, u \in Writers : pc[t] # "idle" /\ pc[u] # "idle" => t = u

AtRest ==
    Idle => /\ pos = logged % MAX /\ seqno = logged % SeqMod
            /\ \A s \in Slots : slot[s] = Kept(logged, s)

SInv ==
    /\ LogType
    /\ serial => /\ OneCall
                 /\ AtRest
                 /\ \A t \in Writers : pc[t] # "idle" => InCall(t)

\* Record n goes to slot (n - 1) % MAX, and it is the last one that does.
LEMMA DueThere ==
  ASSUME NEW n \in Nat \ {0}
  PROVE  Due(n, (n - 1) % MAX) = n
<1> DEFINE due == {m \in 1 .. n : (m - 1) % MAX = (n - 1) % MAX}
<1>1. n \in due
  OBVIOUS
<1>2. \A m \in due : m <= n /\ m \in Nat
  OBVIOUS
<1> DEFINE last == CHOOSE m \in due : \A k \in due : m >= k
<1>3. last \in due /\ \A k \in due : last >= k
  <2>1. \A k \in due : n >= k
    BY <1>2
  <2> HIDE DEF due
  <2> QED BY <1>1, <2>1, Zenon
<1>4. last = n
  BY <1>1, <1>2, <1>3
<1> QED BY <1>1, <1>4, Zenon DEF Due, LastOf

\* No other slot is due anything by it.
LEMMA DueElsewhere ==
  ASSUME NEW n \in Nat \ {0}, NEW s \in Slots, s # (n - 1) % MAX
  PROVE  Due(n, s) = Due(n - 1, s)
<1>1. {m \in 1 .. n : (m - 1) % MAX = s} = {m \in 1 .. (n - 1) : (m - 1) % MAX = s}
  OBVIOUS
<1> QED BY <1>1, Zenon DEF Due

LEMMA DueNone == ASSUME NEW s \in Slots PROVE Due(0, s) = 0
<1>1. {m \in 1 .. 0 : (m - 1) % MAX = s} = {}
  OBVIOUS
<1> QED BY <1>1, Zenon DEF Due, LastOf

\* The slots after record n: the one it went to, and the others.
LEMMA KeptThere ==
  ASSUME NEW n \in Nat \ {0}
  PROVE  Kept(n, (n - 1) % MAX) = [seqno |-> n % SeqMod, time |-> TRUE]
<1>1. n > 0
  OBVIOUS
<1> QED BY DueThere, <1>1 DEF Kept

LEMMA KeptElsewhere ==
  ASSUME NEW n \in Nat \ {0}, NEW s \in Slots, s # (n - 1) % MAX
  PROVE  Kept(n, s) = Kept(n - 1, s)
  BY DueElsewhere, Zenon DEF Kept

LEMMA SInit == Init => SInv
<1> SUFFICES ASSUME Init PROVE SInv
  OBVIOUS
<1> USE EventLogAssumption DEF Init
<1>1. LogType
  BY DEF LogType, Empty, Fields
<1>2. OneCall /\ \A t \in Writers : pc[t] = "idle"
  BY DEF OneCall
<1>3. 0 % MAX = 0 /\ 0 % SeqMod = 0
  <2>1. (MAX * 0 + 0) % MAX = 0 /\ (SeqMod * 0 + 0) % SeqMod = 0
    <3>1. MAX \in Nat \ {0} /\ SeqMod \in Nat \ {0} /\ 0 \in 0 .. MAX - 1 /\ 0 \in 0 .. SeqMod - 1
      OBVIOUS
    <3> QED BY <3>1, ModUnique
  <2>2. MAX * 0 + 0 = 0 /\ SeqMod * 0 + 0 = 0
    OBVIOUS
  <2> QED BY <2>1, <2>2, Zenon
<1>4. \A s \in Slots : slot[s] = Kept(0, s)
  <2> SUFFICES ASSUME NEW s \in Slots PROVE slot[s] = Kept(0, s)
    OBVIOUS
  <2>1. Due(0, s) = 0
    BY DueNone
  <2>2. Kept(0, s) = [seqno |-> 0 % SeqMod, time |-> 0 > 0]
    BY <2>1, Zenon DEF Kept
  <2>3. (0 > 0) = FALSE
    OBVIOUS
  <2> QED BY <2>2, <2>3, <1>3, Zenon DEF Empty
<1>5. AtRest
  BY <1>3, <1>4 DEF AtRest
<1> QED BY <1>1, <1>2, <1>5 DEF SInv

\* A step of a call, when no calls overlap.
LEMMA SWriteOK ==
  ASSUME SInv, NEW t \in Writers, Write(t)
  PROVE  SInv'
<1> USE EventLogAssumption DEF SInv
<1>1. CASE Enter(t)
  <2>1. LogType'
    BY <1>1 DEF Enter, LogType, ring
  <2> SUFFICES ASSUME serial'
               PROVE  (OneCall /\ AtRest /\ \A u \in Writers : pc[u] # "idle" => InCall(u))'
    BY <2>1
  <2>2. serial /\ Idle
    BY <1>1 DEF Enter
  <2>3. pc'[t] = "load" /\ \A u \in Writers : u # t => pc'[u] = "idle"
    BY <1>1, <2>2 DEF Enter, Idle, LogType
  <2>4. OneCall' /\ AtRest'
    BY <2>3 DEF OneCall, AtRest, Idle
  <2>5. InCall(t)'
    <3> DEFINE n == logged + 1
    <3>1. logged' = n /\ n \in Nat \ {0} /\ n - 1 = logged
      BY <1>1 DEF Enter, LogType
    <3>2. tr'[t] = pos /\ pos' = pos /\ seqno' = seqno /\ slot' = slot
      BY <1>1 DEF Enter, LogType, ring
    <3>3. pos = logged % MAX /\ seqno = logged % SeqMod /\ \A s \in Slots : slot[s] = Kept(logged, s)
      BY <2>2 DEF AtRest
    <3>4. \A s \in Slots \ {pos} : Kept(n, s) = Kept(logged, s)
      <4> SUFFICES ASSUME NEW s \in Slots, s # pos PROVE Kept(n, s) = Kept(logged, s)
        OBVIOUS
      <4>1. s # (n - 1) % MAX
        BY <3>1, <3>3, Zenon
      <4>2. Kept(n, s) = Kept(n - 1, s)
        BY <3>1, <4>1, KeptElsewhere, Zenon
      <4> QED BY <3>1, <4>2, Zenon
    <3>5. \A s \in Slots \ {pos} : slot[s] = Kept(n, s)
      BY <3>3, <3>4, Zenon
    <3> HIDE DEF n
    <3>6. logged' > 0 /\ logged' - 1 = logged
      BY <3>1
    <3>7. \A s \in Slots : Kept(logged, s)' = Kept(n, s)
      BY <3>1, Zenon DEF Kept, Due
    <3>8. (\A s \in Slots \ {tr[t]} : slot[s] = Kept(logged, s))'
      BY <3>2, <3>5, <3>7, Zenon
    <3>9. ~Stored(t, "seqno")' /\ ~Stored(t, "time")'
      BY <2>3 DEF Stored
    <3> QED BY <2>3, <3>2, <3>3, <3>6, <3>8, <3>9 DEF InCall
  <2> QED BY <2>3, <2>4, <2>5
\* In all other steps t is the one call under way, and logged stays.
<1>2. ASSUME pc[t] # "idle", serial, serial' PROVE InCall(t) /\ OneCall
  BY <1>2
<1>3. ASSUME pc[t] # "idle", LogType', InCall(t)', UNCHANGED <<logged, serial>>,
             pc'[t] # "idle", \A u \in Writers : u # t => pc'[u] = pc[u]
      PROVE  SInv'
  <2> SUFFICES ASSUME serial
               PROVE  (OneCall /\ AtRest /\ \A u \in Writers : pc[u] # "idle" => InCall(u))'
    BY <1>3
  <2>1. \A u \in Writers : u # t => pc[u] = "idle" /\ pc'[u] = "idle"
    BY <1>3 DEF OneCall
  <2> QED BY <1>3, <2>1 DEF OneCall, AtRest, Idle
<1>4. CASE LoadSeqno(t)
  <2>1. LogType'
    <3>1. seqno + 1 \in Nat
      BY DEF LogType
    <3>2. (seqno + 1) % SeqMod \in Nat
      BY <3>1, DivMod
    <3> HIDE DEF SInv
    <3>3. LogType
      BY DEF SInv
    <3>4. number' \in [Writers -> Nat]
      BY <1>4, <3>2, <3>3 DEF LoadSeqno, LogType
    <3> QED BY <1>4, <3>3, <3>4 DEF LoadSeqno, LogType, ring, history
  <2>2. pc[t] # "idle" /\ pc'[t] = "store" /\ UNCHANGED <<logged, serial>>
        /\ \A u \in Writers : u # t => pc'[u] = pc[u]
    BY <1>4 DEF LoadSeqno, LogType, history
  <2>3. ASSUME serial PROVE InCall(t)'
    <3>1. InCall(t) /\ pc[t] = "load"
      BY <1>4, <2>3 DEF LoadSeqno
    <3>2. number'[t] = logged % SeqMod
      <4>1. number'[t] = (seqno + 1) % SeqMod /\ seqno = (logged - 1) % SeqMod
        BY <1>4, <3>1 DEF LoadSeqno, LogType, InCall
      <4>2. logged - 1 \in Nat /\ (logged - 1) + 1 = logged
        BY <3>1 DEF InCall, LogType
      <4>3. (((logged - 1) % SeqMod) + 1) % SeqMod = ((logged - 1) + 1) % SeqMod
        BY <4>2, ModCount
      <4> QED BY <4>1, <4>2, <4>3, Zenon
    <3>3. (\A s \in Slots \ {tr[t]} : slot[s] = Kept(logged, s))'
      BY <1>4, <3>1, Zenon DEF LoadSeqno, InCall, ring, history, Kept, Due
    <3> QED BY <1>4, <2>2, <3>1, <3>2, <3>3 DEF LoadSeqno, InCall, Stored, ring, history
  <2> QED BY <1>3, <2>1, <2>2, <2>3
<1>5. CASE StoreSeqno(t)
  <2>1. LogType'
    BY <1>5 DEF StoreSeqno, LogType, history
  <2>2. pc[t] # "idle" /\ pc'[t] = "fill" /\ UNCHANGED <<logged, serial>>
        /\ \A u \in Writers : u # t => pc'[u] = pc[u]
    BY <1>5 DEF StoreSeqno, LogType, history
  <2>3. ASSUME serial PROVE InCall(t)'
    <3>1. InCall(t) /\ pc[t] = "store"
      BY <1>5, <2>3 DEF StoreSeqno
    <3>2. left'[t] = Fields
      BY <1>5 DEF StoreSeqno, LogType
    <3>3. (\A s \in Slots \ {tr[t]} : slot[s] = Kept(logged, s))'
      BY <1>5, <3>1, Zenon DEF StoreSeqno, InCall, history, Kept, Due
    <3> QED BY <1>5, <2>2, <3>1, <3>2, <3>3 DEF StoreSeqno, InCall, Stored, Fields, history
  <2> QED BY <1>3, <2>1, <2>2, <2>3
<1>6. ASSUME NEW f \in Fields, Fill(t, f) PROVE SInv'
  <2>1. LogType'
    <3>1. slot' \in [Slots -> [seqno : Nat, time : BOOLEAN]]
      BY <1>6 DEF Fill, LogType
    <3>2. left' \in [Writers -> SUBSET Fields]
      BY <1>6 DEF Fill, LogType
    <3> QED BY <1>6, <3>1, <3>2 DEF Fill, LogType, history
  <2>2. pc[t] = "fill" /\ pc' = pc /\ UNCHANGED <<logged, serial>>
    BY <1>6 DEF Fill, history
  <2>3. ASSUME serial PROVE InCall(t)'
    <3>1. InCall(t)
      BY <2>2, <2>3
    <3>2. tr[t] \in Slots
      BY <3>1, DivMod DEF InCall, LogType, Slots
    <3>3. (\A s \in Slots \ {tr[t]} : slot[s] = Kept(logged, s))'
      <4>1. \A s \in Slots \ {tr[t]} : slot'[s] = slot[s]
        BY <1>6, <3>2 DEF Fill, LogType
      <4>2. \A s \in Slots : Kept(logged, s)' = Kept(logged, s)
        BY <2>2, Zenon DEF Kept, Due
      <4>3. tr'[t] = tr[t]
        BY <1>6 DEF Fill
      <4>4. \A s \in Slots \ {tr[t]} : slot[s] = Kept(logged, s)
        BY <3>1 DEF InCall
      <4> QED BY <4>1, <4>2, <4>3, <4>4, Zenon
    <3>4. left'[t] = left[t] \ {f}
      BY <1>6 DEF Fill, LogType
    <3>5. f = "seqno" => slot'[tr[t]].seqno = number[t] /\ slot'[tr[t]].time = slot[tr[t]].time
      BY <1>6, <3>2 DEF Fill, LogType
    <3>6. f = "time" => slot'[tr[t]].time = TRUE /\ slot'[tr[t]].seqno = slot[tr[t]].seqno
      BY <1>6, <3>2 DEF Fill, LogType
    <3>7. f = "seqno" \/ f = "time"
      BY DEF Fields
    <3>8. tr'[t] = tr[t] /\ number'[t] = number[t] /\ pos' = pos /\ seqno' = seqno /\ reg' = reg
      BY <1>6 DEF Fill
    <3>9. (Stored(t, "seqno") => slot[tr[t]].seqno = logged % SeqMod)'
      BY <2>2, <3>1, <3>4, <3>5, <3>6, <3>7, <3>8 DEF InCall, Stored
    <3>10. (Stored(t, "time") => slot[tr[t]].time = TRUE)'
      BY <2>2, <3>1, <3>4, <3>5, <3>6, <3>7, <3>8 DEF InCall, Stored
    <3> QED BY <2>2, <3>1, <3>3, <3>8, <3>9, <3>10 DEF InCall
  <2> QED BY <1>3, <2>1, <2>2, <2>3
<1>7. CASE LoadPos(t)
  <2>1. LogType'
    BY <1>7 DEF LoadPos, LogType, ring, history
  <2>2. pc[t] = "fill" /\ left[t] = {} /\ pc'[t] = "next" /\ UNCHANGED <<logged, serial>>
        /\ \A u \in Writers : u # t => pc'[u] = pc[u]
    BY <1>7 DEF LoadPos, LogType, history
  <2>3. ASSUME serial PROVE InCall(t)'
    <3>1. InCall(t)
      BY <2>2, <2>3
    <3>2. reg'[t] = tr[t]
      BY <1>7, <2>2, <3>1 DEF LoadPos, LogType, InCall
    <3>3. (\A s \in Slots \ {tr[t]} : slot[s] = Kept(logged, s))'
      BY <1>7, <3>1, Zenon DEF LoadPos, InCall, ring, history, Kept, Due
    <3>4. slot[tr[t]].seqno = logged % SeqMod /\ slot[tr[t]].time = TRUE
      BY <2>2, <3>1 DEF InCall, Stored
    <3> QED BY <1>7, <2>2, <3>1, <3>2, <3>3, <3>4 DEF LoadPos, InCall, Stored, ring, history
  <2> QED BY <1>3, <2>1, <2>2, <2>3
<1>8. CASE StorePos(t)
  <2>1. LogType'
    BY <1>8 DEF StorePos, LogType, history
  <2>2. pc[t] = "next" /\ pc'[t] = "wrap" /\ UNCHANGED <<logged, serial>>
        /\ \A u \in Writers : u # t => pc'[u] = pc[u]
    BY <1>8 DEF StorePos, LogType, history
  <2>3. ASSUME serial PROVE InCall(t)'
    <3>1. InCall(t)
      BY <2>2, <2>3
    <3>2. pos' = tr[t] + 1 /\ reg[t] = tr[t]
      BY <1>8, <2>2, <3>1 DEF StorePos, InCall
    <3>3. (\A s \in Slots \ {tr[t]} : slot[s] = Kept(logged, s))'
      BY <1>8, <3>1, Zenon DEF StorePos, InCall, history, Kept, Due
    <3>4. slot[tr[t]].seqno = logged % SeqMod /\ slot[tr[t]].time = TRUE
      BY <2>2, <3>1 DEF InCall, Stored
    <3> QED BY <1>8, <2>2, <3>1, <3>2, <3>3, <3>4 DEF StorePos, InCall, Stored, history
  <2> QED BY <1>3, <2>1, <2>2, <2>3
<1>9. CASE Wrap(t)
  <2>1. LogType'
    BY <1>9 DEF Wrap, Return, LogType, history
  <2>2. pc[t] = "wrap" /\ pc'[t] = "idle" /\ UNCHANGED <<logged, serial, seqno, slot>>
        /\ \A u \in Writers : u # t => pc'[u] = pc[u]
    BY <1>9 DEF Wrap, Return, LogType, history
  <2> SUFFICES ASSUME serial
               PROVE  (OneCall /\ AtRest /\ \A u \in Writers : pc[u] # "idle" => InCall(u))'
    BY <2>1, <2>2
  <2>3. \A u \in Writers : pc'[u] = "idle"
    BY <2>2 DEF OneCall
  <2>4. InCall(t)
    BY <2>2
  <2>5. pos' = logged % MAX
    <3>1. pos = tr[t] + 1 /\ reg[t] + 1 = pos /\ tr[t] = (logged - 1) % MAX
      BY <2>2, <2>4 DEF InCall
    <3>2. pos' = IF pos >= MAX THEN 0 ELSE pos
      BY <1>9, <3>1 DEF Wrap
    <3>3. logged - 1 \in Nat /\ (logged - 1) + 1 = logged
      BY <2>4 DEF InCall, LogType
    <3>4. ((logged - 1) + 1) % MAX =
             IF ((logged - 1) % MAX) + 1 >= MAX THEN 0 ELSE ((logged - 1) % MAX) + 1
      BY <3>3, ModNext
    <3> QED BY <3>1, <3>2, <3>3, <3>4, Zenon
  <2>6. seqno' = logged % SeqMod
    BY <2>2, <2>4 DEF InCall
  <2>7. \A s \in Slots : slot[s] = Kept(logged, s)
    <3>1. logged \in Nat \ {0} /\ tr[t] = (logged - 1) % MAX
      BY <2>4 DEF InCall, LogType
    <3>2. tr[t] \in Slots
      <4>1. logged - 1 \in Nat
        BY <3>1
      <4>2. (logged - 1) % MAX \in 0 .. MAX - 1
        BY <4>1, DivMod
      <4> QED BY <3>1, <4>2 DEF Slots
    <3>3. slot[tr[t]] = [seqno |-> logged % SeqMod, time |-> TRUE]
      BY <2>2, <2>4, <3>2 DEF InCall, Stored, LogType
    <3>4. Kept(logged, tr[t]) = [seqno |-> logged % SeqMod, time |-> TRUE]
      BY <3>1, KeptThere, Zenon
    <3> QED BY <2>4, <3>3, <3>4, Zenon DEF InCall
  <2>8. (\A s \in Slots : slot[s] = Kept(logged, s))'
    BY <2>2, <2>7, Zenon DEF Kept, Due
  <2> QED BY <2>2, <2>3, <2>5, <2>6, <2>8 DEF OneCall, AtRest
<1> QED BY <1>1, <1>4, <1>5, <1>6, <1>7, <1>8, <1>9 DEF Write

\* The other steps change nothing the invariant speaks of.
LEMMA SStepOK == SInv /\ [Next]_vars => SInv'
<1> SUFFICES ASSUME SInv, [Next]_vars PROVE SInv'
  OBVIOUS
<1>1. CASE \E t \in Writers : Write(t)
  BY <1>1, SWriteOK
<1>2. CASE UNCHANGED <<ring, locals, logged, serial>>
  <2>1. Idle' = Idle /\ OneCall' = OneCall /\ LogType' = LogType
    BY <1>2 DEF Idle, OneCall, LogType, ring, locals
  <2>2. AtRest' = AtRest
    BY <1>2, <2>1, Zenon DEF AtRest, Kept, Due, ring
  <2>3. \A t \in Writers : InCall(t)' = InCall(t)
    BY <1>2, Zenon DEF InCall, Stored, Kept, Due, ring, locals
  <2> QED BY <1>2, <2>1, <2>2, <2>3 DEF SInv, locals
<1>3. (\E on \in BOOLEAN : TraceControl(on)) \/ DumpBegin \/ DumpCopy \/ DumpEnd
        => UNCHANGED <<ring, locals, logged, serial>>
  BY DEF TraceControl, DumpBegin, DumpCopy, DumpEnd, history
<1>4. UNCHANGED vars => UNCHANGED <<ring, locals, logged, serial>>
  BY DEF vars, history
<1> QED BY <1>1, <1>2, <1>3, <1>4 DEF Next

\* As long as the calls of mlog or evtlog do not overlap, for any sizes of
\* the ring and of the numbers, each slot has the newest record
\* that was due to it.
THEOREM SerialKept == Spec => []SerialCallsKept
<1>1. SInv => SerialCallsKept
  BY DEF SInv, AtRest, SerialCallsKept
<1> QED BY SInit, SStepOK, <1>1, PTL DEF Spec

-----------------------------------------------------------------------------
(***************************************************************************)
(* A dump that nobody disturbs.                                            *)
(***************************************************************************)

\* The slots behind the position, in the order of their records: place i of
\* the last MAX of n has record n - (MAX - i), if there is one.
LEMMA DueAt ==
  ASSUME NEW n \in Nat, NEW i \in 1 .. MAX
  PROVE  Due(n, (n + i - 1) % MAX) = IF n + i > MAX THEN n + i - MAX ELSE 0
<1> USE EventLogAssumption
<1> DEFINE s == (n + i - 1) % MAX
           x == n + i - MAX
           due == {m \in 1 .. n : (m - 1) % MAX = s}
<1>1. n + i - 1 \in Nat
  OBVIOUS
<1>2. ASSUME NEW m \in due, m > x
      PROVE  FALSE
  <2> DEFINE a == m - 1
  <2>1. m \in 1 .. n /\ a \in Nat /\ a % MAX = s
    OBVIOUS
  <2> DEFINE k == n + i - m
  <2>2. k \in 1 .. MAX - 1 /\ n + i - 1 = a + k
    BY <1>2, <2>1
  <2> HIDE DEF a, k
  <2>3. (a + k) % MAX # a % MAX
    BY <2>1, <2>2, ModDistinct
  <2> QED BY <2>1, <2>2, <2>3 DEF s
<1>3. CASE n + i > MAX
  <2>1. x \in 1 .. n
    BY <1>3
  <2>2. (x - 1) % MAX = s
    <3> DEFINE a == x - 1
    <3>1. a \in Nat /\ a + MAX = n + i - 1
      BY <2>1
    <3> HIDE DEF a
    <3>2. (a + MAX) % MAX = a % MAX
      BY <3>1, ModPeriod
    <3> QED BY <3>1, <3>2 DEF a, s
  <2>3. x \in due
    BY <2>1, <2>2
  <2>4. \A m \in due : m \in Nat /\ m <= x
    BY <1>2, <2>1
  <2> DEFINE last == CHOOSE m \in due : \A k \in due : m >= k
  <2> HIDE DEF due
  <2>5. \A k \in due : x >= k
    BY <2>1, <2>4
  <2>6. last \in due /\ \A k \in due : last >= k
    BY <2>3, <2>5, Zenon
  <2>7. last = x
    BY <2>1, <2>3, <2>4, <2>6
  <2>8. Due(n, s) = last
    BY <2>3, Zenon DEF Due, LastOf, due
  <2> QED BY <1>3, <2>7, <2>8
<1>4. CASE ~ (n + i > MAX)
  <2>1. due = {}
    BY <1>2, <1>4
  <2>2. Due(n, s) = 0
    BY <2>1, Zenon DEF Due, LastOf
  <2> QED BY <1>4, <2>2
<1> QED BY <1>3, <1>4

\* Every slot has a place.
LEMMA PlaceOf ==
  ASSUME NEW n \in Nat, NEW s \in Slots
  PROVE  \E i \in 1 .. MAX : s = (n + i - 1) % MAX
<1> USE EventLogAssumption
<1> DEFINE r == n % MAX
<1>1. r \in 0 .. MAX - 1 /\ s \in 0 .. MAX - 1
  BY DivMod DEF Slots
<1> DEFINE k == IF s >= r THEN s - r ELSE s - r + MAX
<1> HIDE DEF r
<1>2. k \in 0 .. MAX - 1
  BY <1>1
<1>3. s = IF r + k < MAX THEN r + k ELSE r + k - MAX
  BY <1>1
<1> HIDE DEF k
<1>4. (n + k) % MAX = IF r + k < MAX THEN r + k ELSE r + k - MAX
  BY <1>2, ModAdd DEF r
<1>5. k + 1 \in 1 .. MAX /\ n + (k + 1) - 1 = n + k
  BY <1>2
<1> QED BY <1>3, <1>4, <1>5

\* Of the slots of a ring that lost nothing, only the last record's has its
\* number.
LEMMA NewestOnly ==
  ASSUME NEW n \in Nat \ {0}, NEW s \in Slots, Kept(n, s).seqno = n % SeqMod
  PROVE  s = (n - 1) % MAX
<1> USE EventLogAssumption
<1>1. PICK i \in 1 .. MAX : s = (n + i - 1) % MAX
  BY PlaceOf
<1> DEFINE d == IF n + i > MAX THEN n + i - MAX ELSE 0
<1>2. Due(n, s) = d
  BY <1>1, DueAt
<1>3. d % SeqMod = n % SeqMod
  BY <1>2 DEF Kept
<1> DEFINE k == n - d
<1>4. d \in Nat /\ k \in 0 .. MAX - 1 /\ n = d + k
  BY <1>1
<1> HIDE DEF d, k
<1>5. k = 0
  <2> SUFFICES ASSUME k # 0 PROVE FALSE
    OBVIOUS
  <2>1. k \in 1 .. SeqMod - 1
    BY <1>4
  <2>2. (d + k) % SeqMod # d % SeqMod
    BY <1>4, <2>1, ModDistinct
  <2> QED BY <1>3, <1>4, <2>2
<1>6. i = MAX
  BY <1>1, <1>4, <1>5 DEF d
<1>7. (n - 1) + MAX = n + i - 1 /\ n - 1 \in Nat
  BY <1>6
<1>8. ((n - 1) + MAX) % MAX = (n - 1) % MAX
  BY <1>7, ModPeriod
<1> QED BY <1>1, <1>7, <1>8

\* While nobody has logged since the dump began, the copy is that of the ring.
DInv ==
    /\ dump.at \in {"none", "copy", "list"}
    /\ dump.copy \in Seq([seqno : Nat, time : BOOLEAN])
    /\ dump.at = "copy" => Len(dump.copy) < MAX
    /\ dump.at = "list" => Len(dump.copy) = MAX
    /\ quiet => /\ Idle /\ dump.at # "none" /\ dump.seqno = seqno
                /\ \A k \in 1 .. Len(dump.copy) : dump.copy[k] = slot[k - 1]

LEMMA DInit == Init => DInv
  BY EventLogAssumption DEF Init, DInv

LEMMA DStep == LogType /\ DInv /\ [Next]_vars => DInv'
<1> SUFFICES ASSUME LogType, DInv, [Next]_vars PROVE DInv'
  OBVIOUS
<1> USE EventLogAssumption
<1>1. ASSUME NEW t \in Writers, Write(t) PROVE DInv'
  <2>1. dump' = dump
    BY <1>1 DEF Write, Enter, LoadSeqno, StoreSeqno, Fill, LoadPos, StorePos, Wrap
  <2>2. ~quiet'
    <3>1. CASE Enter(t)
      BY <3>1 DEF Enter
    <3>2. CASE ~Enter(t)
      <4>1. pc[t] # "idle" /\ quiet' = quiet
        BY <1>1, <3>2 DEF Write, LoadSeqno, StoreSeqno, Fill, LoadPos, StorePos, Wrap, history
      <4> QED BY <4>1 DEF DInv, Idle
    <3> QED BY <3>1, <3>2
  <2> QED BY <2>1, <2>2 DEF DInv
<1>2. CASE (\E on \in BOOLEAN : TraceControl(on)) \/ UNCHANGED vars
  <2>1. UNCHANGED <<ring, locals, dump, quiet>>
    BY <1>2 DEF TraceControl, vars, history
  <2> QED BY <2>1 DEF DInv, Idle, ring, locals
<1>3. CASE DumpBegin
  <2>1. /\ dump' = [at |-> "copy", seqno |-> seqno, copy |-> <<>>]
        /\ quiet' = Idle /\ seqno' = seqno /\ Idle' = Idle
    BY <1>3 DEF DumpBegin, Idle, ring, locals
  <2> QED BY <2>1 DEF DInv
<1>4. CASE DumpCopy
  <2> DEFINE n == Len(dump.copy)
             c == Append(dump.copy, slot[n])
  <2>1. /\ dump.at = "copy" /\ n \in Nat /\ n < MAX
        /\ dump'.at = IF n + 1 = MAX THEN "list" ELSE "copy"
        /\ dump'.seqno = dump.seqno /\ dump'.copy = c
        /\ UNCHANGED <<slot, seqno, quiet>> /\ Idle' = Idle
    BY <1>4 DEF DumpCopy, DInv, Idle, ring, locals, history
  <2>2. slot[n] \in [seqno : Nat, time : BOOLEAN]
    BY <2>1 DEF LogType, Slots
  <2>3. /\ c \in Seq([seqno : Nat, time : BOOLEAN]) /\ Len(c) = n + 1
        /\ c[n + 1] = slot[n] /\ \A k \in 1 .. n : c[k] = dump.copy[k]
    BY <2>2 DEF DInv
  <2> HIDE DEF c
  <2>4. ASSUME quiet', NEW k \in 1 .. n + 1 PROVE c[k] = slot[k - 1]
    <3>1. CASE k \in 1 .. n
      BY <2>1, <2>3, <2>4, <3>1 DEF DInv
    <3>2. CASE k = n + 1
      <4>1. k - 1 = n
        BY <2>1, <3>2
      <4> QED BY <2>3, <3>2, <4>1
    <3> QED BY <2>1, <3>1, <3>2
  <2> HIDE DEF n
  <2> QED BY <2>1, <2>3, <2>4 DEF DInv
<1>5. CASE DumpEnd
  BY <1>5 DEF DumpEnd, DInv
<1> QED BY <1>1, <1>2, <1>3, <1>4, <1>5 DEF Next

\* The search finds the slot of the last record, and the listing begins behind
\* it.
LEMMA ListedInOrder == SInv /\ DInv => DumpInOrder
<1> SUFFICES ASSUME SInv, DInv, dump.at = "list", serial, quiet, NEW i \in 1 .. MAX
             PROVE  LET n == logged - (MAX - i)
                    IN  /\ Listing[i].time <=> n > 0
                        /\ n > 0 => Listing[i].seqno = n % SeqMod
  BY DEF DumpInOrder
<1> USE EventLogAssumption
<1>1. /\ logged \in Nat /\ seqno = logged % SeqMod
      /\ \A s \in Slots : slot[s] = Kept(logged, s)
  BY DEF SInv, LogType, DInv, AtRest
<1>2. \A s \in Slots : dump.copy[s + 1] = Kept(logged, s)
  <2> SUFFICES ASSUME NEW s \in Slots PROVE dump.copy[s + 1] = Kept(logged, s)
    OBVIOUS
  <2>1. s \in Nat /\ s + 1 \in 1 .. MAX /\ (s + 1) - 1 = s
    BY DEF Slots
  <2>2. dump.copy[s + 1] = slot[s]
    BY <2>1 DEF DInv
  <2> QED BY <1>1, <2>2
<1>3. Listing[i] = dump.copy[((FirstListed + i - 1) % MAX) + 1]
  BY DEF Listing
<1>4. CASE logged = 0
  <2>1. \A s \in Slots : Kept(logged, s).time = FALSE /\ Kept(logged, s).seqno = 0 % SeqMod
    <3> SUFFICES ASSUME NEW s \in Slots
                 PROVE  Kept(logged, s).time = FALSE /\ Kept(logged, s).seqno = 0 % SeqMod
      OBVIOUS
    <3>1. Due(logged, s) = 0
      BY <1>4, DueNone
    <3>2. (0 > 0) = FALSE
      OBVIOUS
    <3>3. Kept(logged, s) = [seqno |-> 0 % SeqMod, time |-> FALSE]
      BY <3>1, <3>2, Zenon DEF Kept
    <3> QED BY <3>3
  <2>2. FirstListed \in Nat
    <3>1. \A s \in Slots : s \in Nat
      BY DEF Slots
    <3>2. CASE Newest = {}
      BY <3>2 DEF FirstListed
    <3>3. CASE Newest # {}
      <4>1. \A s \in Slots : dump.copy[s + 1].seqno = 0 % SeqMod
        BY <1>2, <2>1
      <4>2. Newest = Slots
        BY <1>1, <1>4, <4>1 DEF Newest, DInv
      <4> DEFINE first == CHOOSE s \in Newest : \A u \in Newest : s <= u
      <4>3. 0 \in Newest /\ \A u \in Newest : 0 <= u
        BY <4>2 DEF Slots
      <4>4. first \in Newest
        BY <4>3, Zenon
      <4>5. first + 1 \in Nat
        BY <3>1, <4>2, <4>4
      <4>6. (first + 1) % MAX \in Nat
        BY <4>5, DivMod
      <4> QED BY <3>3, <4>6, Zenon DEF FirstListed
    <3> QED BY <3>2, <3>3
  <2>3. (FirstListed + i - 1) % MAX \in Slots
    <3>1. FirstListed + i - 1 \in Nat
      BY <2>2
    <3> QED BY <3>1, DivMod DEF Slots
  <2>4. Listing[i].time = FALSE
    BY <1>2, <1>3, <2>1, <2>3
  <2>5. ~ (logged - (MAX - i) > 0)
    BY <1>4
  <2> QED BY <2>4, <2>5
<1>5. CASE logged # 0
  <2> DEFINE last == (logged - 1) % MAX
  <2>1. logged \in Nat \ {0} /\ logged - 1 \in Nat
    BY <1>1, <1>5
  <2>2. last \in 0 .. MAX - 1 /\ last \in Slots
    BY <2>1, DivMod DEF Slots
  <2>3. Kept(logged, last).seqno = logged % SeqMod
    <3>1. Kept(logged, last) = [seqno |-> logged % SeqMod, time |-> TRUE]
      BY <2>1, KeptThere
    <3> QED BY <3>1
  <2>4. Newest = {last}
    <3>1. Newest = {s \in Slots : Kept(logged, s).seqno = logged % SeqMod}
      BY <1>1, <1>2 DEF Newest, DInv
    <3>2. \A s \in Slots : Kept(logged, s).seqno = logged % SeqMod => s = last
      BY <2>1, NewestOnly
    <3> HIDE DEF last
    <3> QED BY <2>2, <2>3, <3>1, <3>2
  <2>5. FirstListed = (last + 1) % MAX
    <3> DEFINE first == CHOOSE s \in Newest : \A u \in Newest : s <= u
    <3> HIDE DEF last
    <3>1. last \in Newest /\ \A u \in Newest : last <= u
      BY <2>2, <2>4
    <3>2. first \in Newest
      BY <3>1, Zenon
    <3>3. first = last
      BY <2>4, <3>2
    <3>4. FirstListed = (first + 1) % MAX
      BY <3>1, Zenon DEF FirstListed
    <3> QED BY <3>3, <3>4
  <2>6. FirstListed = logged % MAX
    <3>1. (((logged - 1) % MAX) + 1) % MAX = ((logged - 1) + 1) % MAX
      BY <2>1, ModCount
    <3>2. (logged - 1) + 1 = logged
      BY <2>1
    <3> QED BY <2>5, <3>1, <3>2
  <2> DEFINE k == i - 1
             s == (logged + i - 1) % MAX
  <2>7. (FirstListed + i - 1) % MAX = s
    <3>1. k \in 0 .. MAX - 1 /\ FirstListed + i - 1 = FirstListed + k
          /\ logged + i - 1 = logged + k
      BY <2>1
    <3> DEFINE r == logged % MAX
    <3>2. r \in 0 .. MAX - 1
      BY <1>1, DivMod
    <3> HIDE DEF k, r
    <3>3. (logged + k) % MAX = IF r + k < MAX THEN r + k ELSE r + k - MAX
      BY <1>1, <3>1, ModAdd DEF r
    <3>4. (r + k) % MAX = IF (r % MAX) + k < MAX THEN (r % MAX) + k ELSE (r % MAX) + k - MAX
      <4>1. r \in Nat /\ k \in 0 .. MAX - 1
        BY <3>1, <3>2
      <4> HIDE DEF r
      <4> QED BY <4>1, ModAdd
    <3>5. r % MAX = r
      <4>1. (MAX * 0 + r) % MAX = r
        <5>1. 0 \in Nat
          OBVIOUS
        <5> QED BY <3>2, <5>1, ModUnique
      <4>2. MAX * 0 + r = r
        BY <3>2
      <4> QED BY <4>1, <4>2, Zenon
    <3>6. FirstListed + k = r + k
      BY <2>6 DEF r
    <3> QED BY <3>1, <3>3, <3>4, <3>5, <3>6, Zenon
  <2>8. s \in Slots
    <3>1. logged + i - 1 \in Nat
      BY <2>1
    <3> QED BY <3>1, DivMod DEF Slots
  <2>9. Listing[i] = Kept(logged, s)
    BY <1>2, <1>3, <2>7, <2>8
  <2>10. Due(logged, s) = IF logged + i > MAX THEN logged + i - MAX ELSE 0
    BY <1>1, DueAt
  <2>11. logged - (MAX - i) = logged + i - MAX
    BY <1>1
  <2> HIDE DEF s, last
  <2>12. Listing[i].seqno = Due(logged, s) % SeqMod /\ (Listing[i].time <=> Due(logged, s) > 0)
    <3> DEFINE d == Due(logged, s)
               yes == d > 0
    <3>1. Listing[i] = [seqno |-> d % SeqMod, time |-> yes]
      BY <2>9, Zenon DEF Kept
    <3> HIDE DEF d, yes
    <3>2. Listing[i].seqno = d % SeqMod /\ Listing[i].time = yes
      BY <3>1
    <3> QED BY <3>2, Zenon DEF d, yes
  <2>13. CASE logged + i > MAX
    <3>1. Due(logged, s) = logged + i - MAX /\ logged + i - MAX > 0
      BY <1>1, <2>10, <2>13
    <3> QED BY <2>11, <2>12, <3>1
  <2>14. CASE ~ (logged + i > MAX)
    <3>1. Due(logged, s) = 0 /\ ~ (logged + i - MAX > 0)
      BY <1>1, <2>10, <2>14
    <3> QED BY <2>11, <2>12, <3>1
  <2> QED BY <2>13, <2>14
<1> QED BY <1>4, <1>5

\* A dump that no call disturbs, of a ring whose calls did not overlap, lists
\* the newest records in the order they were logged (write_log_mlog,
\* write_log_evtlog), for any size of the ring that the numbers can tell apart.
THEOREM DumpOrdered == Spec => []DumpInOrder
<1>1. SInv => LogType
  BY DEF SInv
<1> QED BY SInit, SStepOK, DInit, DStep, ListedInOrder, <1>1, PTL DEF Spec

-----------------------------------------------------------------------------
(***************************************************************************)
(* The log file.                                                           *)
(***************************************************************************)

IsTable(T, room) ==
    /\ T.reserve \in Nat /\ T.lens \subseteq Nat /\ T.lens # {}
    /\ \A n \in T.lens : room + n < TMP_SIZE

IsSection(S) ==
    /\ S.title \in Nat /\ S.lead \in Nat /\ S.most \in Nat
    /\ Len(S.tables) \in Nat \ {0} /\ DOMAIN S.tables = 1 .. Len(S.tables)
    /\ \A i \in DOMAIN S.tables : IsTable(S.tables[i], S.title + Len(S.tables) * S.lead)

LEMMA TableType ==
  ASSUME NEW short \in Nat, NEW long \in Nat, NEW reserve \in Nat, NEW room \in Nat,
         short <= long, room + long < 512
  PROVE  IsTable(Table(short, long, reserve), room)
  BY LogDumpAssumption DEF IsTable, Table

\* A section of one, two and four tables.
LEMMA SectionOne ==
  ASSUME NEW title \in Nat, NEW most \in Nat, NEW copies, NEW A,
         IsTable(A, title)
  PROVE  IsSection(Section(title, 0, <<A>>, most, copies))
<1>1. Len(<<A>>) = 1 /\ DOMAIN <<A>> = 1 .. 1 /\ <<A>>[1] = A
  OBVIOUS
<1>2. title + 1 * 0 = title /\ 0 \in Nat
  OBVIOUS
<1> QED BY <1>1, <1>2 DEF IsSection, Section

LEMMA SectionTwo ==
  ASSUME NEW title \in Nat, NEW lead \in Nat, NEW most \in Nat, NEW copies, NEW A, NEW B,
         IsTable(A, title + 2 * lead), IsTable(B, title + 2 * lead)
  PROVE  IsSection(Section(title, lead, <<A, B>>, most, copies))
<1>1. /\ Len(<<A, B>>) = 2 /\ DOMAIN <<A, B>> = 1 .. 2
      /\ <<A, B>>[1] = A /\ <<A, B>>[2] = B
  OBVIOUS
<1> QED BY <1>1 DEF IsSection, Section

LEMMA SectionFour ==
  ASSUME NEW title \in Nat, NEW lead \in Nat, NEW most \in Nat, NEW copies,
         NEW A, NEW B, NEW C, NEW D,
         IsTable(A, title + 4 * lead), IsTable(B, title + 4 * lead),
         IsTable(C, title + 4 * lead), IsTable(D, title + 4 * lead)
  PROVE  IsSection(Section(title, lead, <<A, B, C, D>>, most, copies))
<1>1. /\ Len(<<A, B, C, D>>) = 4 /\ DOMAIN <<A, B, C, D>> = 1 .. 4
      /\ <<A, B, C, D>>[1] = A /\ <<A, B, C, D>>[2] = B
      /\ <<A, B, C, D>>[3] = C /\ <<A, B, C, D>>[4] = D
  OBVIOUS
<1> QED BY <1>1 DEF IsSection, Section

LEMMA SectionType == \A s \in DOMAIN Sections : s \in 1 .. 7 /\ IsSection(Sections[s])
<1> USE LogDumpAssumption
<1>1. IsSection(StatSection)
  <2>1. IsTable(Table(18, 38, 10), 30)
    BY TableType
  <2> QED BY <2>1, SectionOne DEF StatSection
<1>2. IsSection(MlogSection)
  <2>1. IsTable(Table(43, 163, 256), 49)
    BY TableType
  <2> QED BY <2>1, SectionOne DEF MlogSection
<1>3. IsSection(EvtlogSection)
  <2>1. IsTable(Table(259, 290, 296), 53)
    BY TableType
  <2> QED BY <2>1, SectionOne DEF EvtlogSection
<1>4. IsSection(FrontCliSection)
  <2>1. IsTable(Table(53, 99, 128), 31 + 2 * 5) /\ IsTable(Table(58, 75, 128), 31 + 2 * 5)
    BY TableType
  <2> QED BY <2>1, SectionTwo DEF FrontCliSection
<1>5. IsSection(BackCliSection)
  <2> DEFINE A == Table(58, 104, 78)
             B == Table(63, 80, 48)
  <2>1. IsTable(A, 31 + 4 * 37) /\ IsTable(B, 31 + 4 * 37)
    BY TableType
  <2> HIDE DEF A, B
  <2>2. IsSection(Section(31, 37, <<A, A, B, B>>, CLI_CACHE, FALSE))
    BY <2>1, SectionFour
  <2>3. BackCliSection = Section(31, 37, <<A, A, B, B>>, CLI_CACHE, FALSE)
    BY Zenon DEF BackCliSection, A, B
  <2> QED BY <2>2, <2>3, Zenon
<1>6. IsSection(Stat2Section)
  <2>1. IsTable(Table(40, 169, 128), 33 + 2 * 5) /\ IsTable(Table(40, 105, 128), 33 + 2 * 5)
    BY TableType
  <2> QED BY <2>1, SectionTwo DEF Stat2Section
<1>7. IsSection(SvrSection)
  <2>1. IsTable(Table(21, 111, 128), 43 + 2 * 5) /\ IsTable(Table(26, 63, 128), 43 + 2 * 5)
    BY TableType
  <2> QED BY <2>1, SectionTwo DEF SvrSection
<1>8. DOMAIN Sections = 1 .. 7
  BY DEF Sections
<1>9. /\ Sections[1] = StatSection /\ Sections[2] = MlogSection /\ Sections[3] = EvtlogSection
      /\ Sections[4] = FrontCliSection /\ Sections[5] = BackCliSection
      /\ Sections[6] = Stat2Section /\ Sections[7] = SvrSection
  BY DEF Sections
<1> QED BY <1>1, <1>2, <1>3, <1>4, <1>5, <1>6, <1>7, <1>8, <1>9

\* Each section has a longest entry.
LEMMA LongestEntry ==
  ASSUME NEW s \in DOMAIN Sections
  PROVE  /\ Longest(s) \in Nat
         /\ \A i \in DOMAIN Sections[s].tables : \A n \in Sections[s].tables[i].lens : n <= Longest(s)
<1>1. s \in 1 .. 7
  BY DEF Sections
<1>2. \E n \in Lens(s) : n \in Nat /\ \A m \in Lens(s) : m <= n
  <2>1. CASE s = 1
    <3>1. Lens(s) = {18, 38}
      BY <2>1 DEF Lens, Sections, StatSection, Section, Table
    <3> QED BY <3>1
  <2>2. CASE s = 2
    <3>1. Lens(s) = {43, 163}
      BY <2>2 DEF Lens, Sections, MlogSection, Section, Table
    <3> QED BY <3>1
  <2>3. CASE s = 3
    <3>1. Lens(s) = {259, 290}
      BY <2>3 DEF Lens, Sections, EvtlogSection, Section, Table
    <3> QED BY <3>1
  <2>4. CASE s = 4
    <3>1. Lens(s) = {53, 99, 58, 75}
      BY <2>4 DEF Lens, Sections, FrontCliSection, Section, Table
    <3> QED BY <3>1
  <2>5. CASE s = 5
    <3>1. Lens(s) = {58, 104, 63, 80}
      BY <2>5 DEF Lens, Sections, BackCliSection, Section, Table
    <3> QED BY <3>1
  <2>6. CASE s = 6
    <3>1. Lens(s) = {40, 169, 105}
      BY <2>6 DEF Lens, Sections, Stat2Section, Section, Table
    <3> QED BY <3>1
  <2>7. CASE s = 7
    <3>1. Lens(s) = {21, 111, 26, 63}
      BY <2>7 DEF Lens, Sections, SvrSection, Section, Table
    <3> QED BY <3>1
  <2> QED BY <1>1, <2>1, <2>2, <2>3, <2>4, <2>5, <2>6, <2>7
<1>3. Longest(s) \in Lens(s) /\ \A m \in Lens(s) : m <= Longest(s)
  BY <1>2, Zenon DEF Longest
<1>4. Longest(s) \in Nat
  <2>1. \A i \in DOMAIN Sections[s].tables : Sections[s].tables[i].lens \subseteq Nat
    BY SectionType DEF IsSection, IsTable
  <2> QED BY <1>3, <2>1 DEF Lens
<1> QED BY <1>3, <1>4 DEF Lens

FileType ==
    /\ sec \in Nat \ {0} /\ table \in Nat \ {0} /\ num \in Nat
    /\ tlen \in Nat /\ said \in Nat /\ filed \in Nat /\ extent \in Nat
    /\ at = "entry" => sec \in DOMAIN Sections /\ table \in DOMAIN Sections[sec].tables
                       /\ num <= Sections[sec].most

\* The buffer holds the title and the headings, or what some table up to now
\* has left in it without a flush, and the headings since.
Level ==
    \/ tlen <= Sec.title + table * Sec.lead
    \/ \E j \in 1 .. table : tlen <= TMP_SIZE - Sec.tables[j].reserve + (table - j) * Sec.lead

\* What is written is in the buffer, or as far past it as may be.
Reached == extent <= TMP_SIZE \/ \E e \in Reach(sec, table) : extent <= e

\* There is room for all that is left of a short section.
ShortRoom ==
    LET tables == Len(Sec.tables) - table
    IN  tlen + tables * Sec.lead + (tables * Sec.most + (Sec.most - num)) * Longest(sec)
          < TMP_SIZE

FileInv ==
    /\ FileType
    /\ filed + tlen = said
    /\ at = "entry" => Level /\ Reached
    /\ at = "entry" /\ Short(sec) => ShortRoom /\ extent <= TMP_SIZE

LEMMA FileInitInv == FileInit => FileInv
  BY DEF FileInit, FileInv, FileType

\* The steps between two sections.
LEMMA FileBetween ==
  ASSUME FileInv, OpenLog \/ SkipSection \/ NoMemory \/ EndSection \/ CloseLog \/ UNCHANGED fileVars
  PROVE  FileInv'
<1>1. CASE UNCHANGED fileVars
  BY <1>1 DEF fileVars, FileInv, FileType, Level, Reached, ShortRoom, Sec
<1>2. CASE OpenLog
  <2>1. at' # "entry" /\ UNCHANGED <<sec, table, num, tlen, said, filed, extent>>
    BY <1>2 DEF OpenLog
  <2> QED BY <2>1 DEF FileInv, FileType
<1>3. CASE SkipSection \/ NoMemory \/ EndSection \/ CloseLog
  <2>1. at' # "entry"
    BY <1>3 DEF SkipSection, NoMemory, EndSection, CloseLog
  <2>2. /\ sec' \in {sec, sec + 1} /\ UNCHANGED <<table, num, extent>>
        /\ \/ UNCHANGED <<tlen, said, filed>>
           \/ tlen' = 0 /\ said' = 0 /\ filed' = 0
           \/ tlen' = 0 /\ said' = said /\ filed' = filed + tlen
    BY <1>3 DEF SkipSection, NoMemory, EndSection, CloseLog
  <2>3. FileType /\ filed + tlen = said
    BY DEF FileInv
  <2>4. filed' + tlen' = said' /\ tlen' \in Nat /\ said' \in Nat /\ filed' \in Nat
    BY <2>2, <2>3 DEF FileType
  <2>5. FileType'
    BY <2>1, <2>2, <2>3, <2>4 DEF FileType
  <2> QED BY <2>1, <2>4, <2>5, Zenon DEF FileInv
<1> QED BY <1>1, <1>2, <1>3

\* What the room of a short section is at the first heading.
LEMMA ShortRoomAtFirst ==
  ASSUME NEW title \in Nat, NEW h \in Nat, NEW T \in Nat, NEW M \in Nat, NEW L \in Nat,
         title + T * h + (T * M) * L < TMP_SIZE
  PROVE  title + h + (T - 1) * h + ((T - 1) * M + (M - 0)) * L < TMP_SIZE
<1> DEFINE all == T * M
           part == (T - 1) * M + (M - 0)
           e == all * L
<1>1. part = all /\ all \in Nat
  OBVIOUS
<1>2. title + T * h + e < TMP_SIZE
  OBVIOUS
<1> HIDE DEF all, part
<1>3. e \in Nat /\ part * L = e
  BY <1>1
<1> HIDE DEF e
<1>4. title + h + (T - 1) * h + e < TMP_SIZE
  <2> DEFINE a == T * h
             b == (T - 1) * h
  <2>1. b = a - h /\ a \in Nat
    OBVIOUS
  <2> HIDE DEF a, b
  <2>2. title + a + e < TMP_SIZE
    BY <1>2 DEF a
  <2>3. title + h + b + e < TMP_SIZE
    BY <1>3, <2>1, <2>2, LogDumpAssumption
  <2> QED BY <2>3 DEF b
<1>5. title + h + (T - 1) * h + part * L < TMP_SIZE
  BY <1>3, <1>4, Zenon
<1> QED BY <1>5 DEF part

\* A part of a product.
LEMMA Less ==
  ASSUME NEW a \in Nat, NEW b \in Nat, NEW c \in Nat, a <= b
  PROVE  a * c \in Nat /\ b * c \in Nat /\ a * c <= b * c
<1> DEFINE d == b - a
<1>1. d \in Nat /\ b = a + d
  OBVIOUS
<1> HIDE DEF d
<1>2. b * c = a * c + d * c
  BY <1>1
<1>3. a * c \in Nat /\ d * c \in Nat
  BY <1>1
<1> QED BY <1>2, <1>3

\* The title, the headings up to a table and one of its entries fit in the
\* buffer.
LEMMA TitleFits ==
  ASSUME NEW s \in DOMAIN Sections
  PROVE  LET S == Sections[s]
         IN  /\ S.title + S.lead + 1 <= TMP_SIZE
             /\ \A i \in DOMAIN S.tables : S.title + i * S.lead + 1 <= TMP_SIZE
             /\ \A i \in DOMAIN S.tables : \A n \in S.tables[i].lens :
                   S.title + i * S.lead + n + 1 <= TMP_SIZE
<1> DEFINE S == Sections[s]
           T == Len(S.tables)
           title == S.title
           lead == S.lead
<1>1. /\ title \in Nat /\ lead \in Nat /\ T \in Nat \ {0} /\ DOMAIN S.tables = 1 .. T
      /\ TMP_SIZE \in Nat
  BY SectionType, LogDumpAssumption DEF IsSection
<1>2. \A i \in DOMAIN S.tables : \A n \in S.tables[i].lens :
         n \in Nat /\ title + T * lead + n < TMP_SIZE
  BY SectionType DEF IsSection, IsTable
<1>3. \A i \in DOMAIN S.tables : S.tables[i].lens # {}
  BY SectionType DEF IsSection, IsTable
<1>4. ASSUME NEW i \in DOMAIN S.tables, NEW n \in S.tables[i].lens
      PROVE  title + i * lead + n + 1 <= TMP_SIZE /\ title + i * lead + 1 <= TMP_SIZE
  <2>1. n \in Nat /\ title + T * lead + n < TMP_SIZE
    BY <1>2
  <2>2. i \in Nat /\ i <= T
    BY <1>1
  <2> HIDE DEF title, lead, T, S
  <2>3. i * lead \in Nat /\ T * lead \in Nat /\ i * lead <= T * lead
    BY <1>1, <2>2, Less
  <2> DEFINE x == i * lead
             y == T * lead
  <2>4. x \in Nat /\ y \in Nat /\ x <= y /\ title + y + n < TMP_SIZE
    BY <2>1, <2>3
  <2> HIDE DEF x, y
  <2>5. title + x + n + 1 <= TMP_SIZE /\ title + x + 1 <= TMP_SIZE
    BY <1>1, <2>1, <2>4
  <2> QED BY <2>5 DEF x
<1>5. title + lead + 1 <= TMP_SIZE
  <2>1. 1 \in DOMAIN S.tables
    BY <1>1
  <2>2. \E n \in S.tables[1].lens : TRUE
    BY <1>3, <2>1
  <2>3. title + 1 * lead + 1 <= TMP_SIZE
    BY <1>4, <2>1, <2>2
  <2>4. 1 * lead = lead
    BY <1>1
  <2> QED BY <2>3, <2>4
<1>6. \A i \in DOMAIN S.tables : title + i * lead + 1 <= TMP_SIZE
  <2> SUFFICES ASSUME NEW i \in DOMAIN S.tables PROVE title + i * lead + 1 <= TMP_SIZE
    OBVIOUS
  <2>1. \E n \in S.tables[i].lens : TRUE
    BY <1>3
  <2> QED BY <1>4, <2>1
<1> QED BY <1>4, <1>5, <1>6

\* The title and the first heading.
LEMMA FileBegin ==
  ASSUME FileInv, BeginSection
  PROVE  FileInv'
<1> DEFINE S == Sections[sec]
           T == Len(S.tables)
<1>1. sec \in DOMAIN Sections /\ sec' = sec
  BY DEF BeginSection
<1>2. IsSection(S)
  BY <1>1, SectionType
<1>3. /\ S.title \in Nat /\ S.lead \in Nat /\ S.most \in Nat /\ T \in Nat \ {0}
      /\ DOMAIN S.tables = 1 .. T
  BY <1>2 DEF IsSection
<1>4. /\ tlen' = S.title + S.lead /\ said' = tlen' /\ extent' = tlen' + 1 /\ filed' = 0
      /\ table' = 1 /\ num' = 0 /\ at' = "entry"
  BY DEF BeginSection, Sec
<1>5. Sec' = S
  BY <1>1 DEF Sec
<1>6. FileType'
  <2>1. 1 \in 1 .. T /\ 0 <= S.most /\ tlen' \in Nat /\ extent' \in Nat
    BY <1>3, <1>4
  <2>2. sec \in Nat \ {0}
    BY DEF FileInv, FileType
  <2> QED BY <1>1, <1>3, <1>4, <2>1, <2>2 DEF FileType
<1>7. Level' /\ Reached'
  <2>1. 1 * S.lead = S.lead
    BY <1>3
  <2>2. Level'
    BY <1>3, <1>4, <1>5, <2>1 DEF Level
  <2>3. S.title + S.lead + 1 <= TMP_SIZE
    BY <1>1, TitleFits
  <2> QED BY <1>3, <1>4, <2>2, <2>3 DEF Reached
<1>8. ASSUME Short(sec) PROVE ShortRoom' /\ extent' <= TMP_SIZE
  <2>1. Longest(sec) \in Nat
    BY <1>1, LongestEntry
  <2>2. S.title + T * S.lead + (T * S.most) * Longest(sec) < TMP_SIZE
    BY <1>8 DEF Short
  <2>3. tlen' + (T - 1) * S.lead + ((T - 1) * S.most + (S.most - 0)) * Longest(sec) < TMP_SIZE
    <3>1. T \in Nat
      BY <1>3
    <3> HIDE DEF S, T
    <3> QED BY <1>3, <1>4, <2>1, <2>2, <3>1, ShortRoomAtFirst
  <2>4. Longest(sec)' = Longest(sec)
    BY <1>1 DEF Longest
  <2>5. ShortRoom'
    BY <1>1, <1>4, <1>5, <2>3, <2>4 DEF ShortRoom
  <2>6. extent' <= TMP_SIZE
    <3> DEFINE x == (T - 1) * S.lead
               y == ((T - 1) * S.most + (S.most - 0)) * Longest(sec)
    <3>1. x \in Nat
      BY <1>3
    <3>2. y \in Nat
      <4> DEFINE z == (T - 1) * S.most + (S.most - 0)
      <4>1. z \in Nat
        BY <1>3
      <4> HIDE DEF z
      <4>2. z * Longest(sec) \in Nat
        BY <2>1, <4>1
      <4> QED BY <4>2 DEF z
    <3>3. tlen' + x + y < TMP_SIZE
      BY <2>3, Zenon
    <3>4. tlen' \in Nat
      BY <1>3, <1>4
    <3> HIDE DEF x, y
    <3> QED BY <1>4, <3>1, <3>2, <3>3, <3>4, LogDumpAssumption
  <2> QED BY <2>5, <2>6
<1>9. Short(sec)' = Short(sec)
  BY <1>1 DEF Short, Longest
<1>10. filed' + tlen' = said'
  BY <1>3, <1>4
<1> HIDE DEF S, T
<1> QED BY <1>6, <1>7, <1>8, <1>9, <1>10 DEF FileInv

\* One entry of a table.
LEMMA FileEntry ==
  ASSUME FileInv, NEW n, Entry(n)
  PROVE  FileInv'
<1> USE LogDumpAssumption
<1> DEFINE S == Sections[sec]
           T == Len(S.tables)
           title == S.title
           lead == S.lead
           most == S.most
           res == S.tables[table].reserve
           lens == S.tables[table].lens
<1>1. /\ at = "entry" /\ at' = "entry" /\ sec' = sec /\ table' = table /\ num' = num + 1
      /\ num < most /\ n \in lens
      /\ extent' = tlen + n + 1 /\ said' = said + n
      /\ \/ tlen' = 0 /\ filed' = filed + (tlen + n)
         \/ tlen + n <= TMP_SIZE - res /\ tlen' = tlen + n /\ filed' = filed
  <2>1. res \in Nat /\ tlen \in Nat /\ lens \subseteq Nat
    BY SectionType DEF Entry, More, FileInv, FileType, IsSection, IsTable
  <2> QED BY <2>1 DEF Entry, More, Format, Flush, Sec
<1>2. /\ sec \in DOMAIN Sections /\ table \in 1 .. T /\ num \in Nat
      /\ tlen \in Nat /\ said \in Nat /\ filed \in Nat /\ filed + tlen = said
      /\ title \in Nat /\ lead \in Nat /\ most \in Nat /\ T \in Nat \ {0}
      /\ lens \subseteq Nat /\ DOMAIN S.tables = 1 .. T /\ res \in Nat
      /\ n \in Nat /\ sec \in Nat \ {0} /\ table \in Nat \ {0}
  BY <1>1, SectionType DEF FileInv, FileType, IsSection, IsTable
<1>3. Sec = S /\ Sec' = S
  BY <1>1 DEF Sec
<1> HIDE DEF title, lead, most, res, lens
<1>4. tlen' \in Nat /\ tlen' <= tlen + n /\ filed' \in Nat /\ filed' + tlen' = said'
  <2>1. tlen \in Nat /\ n \in Nat /\ filed \in Nat /\ filed + tlen = said
    BY <1>2
  <2>2. /\ said' = said + n
        /\ \/ tlen' = 0 /\ filed' = filed + (tlen + n)
           \/ tlen' = tlen + n /\ filed' = filed
    BY <1>1, Zenon
  <2> QED BY <2>1, <2>2
<1>5. FileType'
  <2>1. num \in Nat /\ most \in Nat /\ num < most /\ tlen \in Nat /\ n \in Nat /\ said \in Nat
    BY <1>1, <1>2, Zenon
  <2>2. num + 1 \in Nat /\ num + 1 <= most /\ tlen + n + 1 \in Nat /\ said + n \in Nat
    BY <2>1
  <2>3. sec' \in DOMAIN Sections /\ table' \in DOMAIN Sections[sec'].tables
        /\ num' <= Sections[sec'].most
    BY <1>1, <1>2, <2>2, Zenon DEF most
  <2>4. /\ sec' \in Nat \ {0} /\ table' \in Nat \ {0} /\ num' \in Nat /\ extent' \in Nat
        /\ tlen' \in Nat /\ said' \in Nat /\ filed' \in Nat
    BY <1>1, <1>2, <1>4, <2>2, Zenon
  <2> QED BY <2>3, <2>4, Zenon DEF FileType
<1>6. Level' /\ Reached'
  <2>1. (table - table) * lead = 0
    BY <1>2
  <2>2. Level'
    <3>1. CASE tlen' = 0
      <4>1. table * lead \in Nat
        BY <1>2
      <4> DEFINE x == table * lead
      <4> HIDE DEF x
      <4>2. 0 <= title + x
        BY <1>2, <4>1 DEF x
      <4>3. tlen' <= Sec'.title + table' * Sec'.lead
        BY <1>1, <1>3, <3>1, <4>2, Zenon DEF x, title, lead
      <4> QED BY <4>3, Zenon DEF Level
    <3>2. CASE tlen' # 0
      <4>1. tlen' <= TMP_SIZE - res + (table - table) * lead
        BY <1>1, <1>2, <2>1, <3>2
      <4>2. table \in 1 .. table'
        BY <1>1, <1>2
      <4> QED BY <1>3, <1>1, <4>1, <4>2, Zenon DEF Level, res, lead
    <3> QED BY <3>1, <3>2
  <2>3. Level
    BY <1>1 DEF FileInv
  <2>4. CASE tlen <= title + table * lead
    <3> DEFINE x == table * lead
    <3>1. x \in Nat
      BY <1>2
    <3>2. title + x + n + 1 <= TMP_SIZE
      BY <1>1, <1>2, TitleFits DEF title, lead, lens
    <3> HIDE DEF x
    <3>3. tlen <= title + x
      BY <2>4 DEF x
    <3>4. extent' <= TMP_SIZE
      BY <1>1, <1>2, <3>1, <3>2, <3>3
    <3> QED BY <2>2, <3>4 DEF Reached
  <2>5. CASE \E j \in 1 .. table : tlen <= TMP_SIZE - S.tables[j].reserve + (table - j) * lead
    <3>1. PICK j \in 1 .. table : tlen <= TMP_SIZE - S.tables[j].reserve + (table - j) * lead
      BY <2>5
    <3> DEFINE k == S.tables[j].reserve
               x == (table - j) * lead
               reach == TMP_SIZE - k + x + n + 1
    <3>2. k \in Nat /\ x \in Nat
      <4>1. j \in DOMAIN S.tables /\ table - j \in Nat
        BY <1>2
      <4> QED BY <1>2, <4>1, SectionType DEF IsSection, IsTable
    <3>3. reach \in Reach(sec, table)
      <4>1. Reach(sec, table) =
              {TMP_SIZE - S.tables[i].reserve + (table - i) * S.lead + m + 1 :
                  i \in 1 .. table, m \in S.tables[table].lens}
        BY DEF Reach
      <4>2. j \in 1 .. table /\ n \in S.tables[table].lens
        BY <1>1 DEF lens
      <4>3. reach = TMP_SIZE - S.tables[j].reserve + (table - j) * S.lead + n + 1
        BY DEF lead
      <4> HIDE DEF S, reach
      <4> QED BY <4>1, <4>2, <4>3
    <3>4. tlen <= TMP_SIZE - k + x
      BY <3>1
    <3> HIDE DEF k, x
    <3>5. extent' <= reach
      BY <1>1, <1>2, <3>2, <3>4
    <3> HIDE DEF reach
    <3>6. Reach(sec, table)' = Reach(sec, table)
      BY <1>1 DEF Reach
    <3>7. Reached'
      BY <3>3, <3>5, <3>6, Zenon DEF Reached
    <3> QED BY <2>2, <3>7
  <2>6. \/ tlen <= title + table * lead
        \/ \E j \in 1 .. table : tlen <= TMP_SIZE - S.tables[j].reserve + (table - j) * lead
    BY <1>3, <2>3, Zenon DEF Level, title, lead
  <2> QED BY <2>4, <2>5, <2>6
<1>7. ASSUME Short(sec) PROVE ShortRoom' /\ extent' <= TMP_SIZE
  <2> DEFINE L == Longest(sec)
             heads == (T - table) * lead
             b == (T - table) * most
             c == b + (most - num)
             d == b + (most - (num + 1))
             rest == d * L
  <2>1. L \in Nat /\ n <= L
    BY <1>1, <1>2, LongestEntry DEF lens
  <2>2. T - table \in Nat
    BY <1>2
  <2>3. heads \in Nat /\ b \in Nat
    BY <1>2, <2>2
  <2>4. tlen + heads + c * L < TMP_SIZE
    BY <1>1, <1>3, <1>7 DEF FileInv, ShortRoom, lead, most
  <2> HIDE DEF heads, b, L
  <2>5. c = d + 1 /\ d \in Nat
    BY <1>1, <1>2, <2>3
  <2> HIDE DEF c, d
  <2>6. c * L = rest + L /\ rest \in Nat
    BY <2>1, <2>5
  <2> HIDE DEF rest
  <2>7. tlen + heads + (rest + L) < TMP_SIZE
    BY <2>4, <2>6, Zenon
  <2>8. tlen' + heads + rest < TMP_SIZE /\ extent' <= TMP_SIZE
    <3>1. rest \in Nat
      BY <2>6
    <3>2. tlen' + heads + rest < TMP_SIZE
      <4>1. CASE tlen' = 0
        BY <4>1, <1>2, <2>1, <2>3, <2>7, <3>1
      <4>2. CASE tlen' = tlen + n
        BY <4>2, <1>2, <2>1, <2>3, <2>7, <3>1
      <4> QED BY <1>1, <4>1, <4>2
    <3>3. extent' <= TMP_SIZE
      BY <1>1, <1>2, <2>1, <2>3, <2>7, <3>1
    <3> QED BY <3>2, <3>3
  <2>9. L' = L
    BY <1>1 DEF L, Longest
  <2>10. ShortRoom'
    BY <1>1, <1>3, <2>8, <2>9, Zenon DEF ShortRoom, L, heads, b, d, rest, lead, most
  <2> QED BY <2>8, <2>10
<1>8. Short(sec)' = Short(sec)
  BY <1>1 DEF Short, Longest
<1> HIDE DEF S, T
<1> QED BY <1>4, <1>5, <1>6, <1>7, <1>8 DEF FileInv

\* The next heading.
LEMMA FileTable ==
  ASSUME FileInv, NextTable
  PROVE  FileInv'
<1> USE LogDumpAssumption
<1> DEFINE S == Sections[sec]
           T == Len(S.tables)
           title == S.title
           lead == S.lead
           most == S.most
           next == S.tables[table + 1].lens
<1>1. /\ at = "entry" /\ at' = "entry" /\ sec' = sec /\ table' = table + 1 /\ num' = 0
      /\ table < T /\ extent' = tlen + lead + 1 /\ said' = said + lead
      /\ tlen' = tlen + lead /\ filed' = filed
  BY DEF NextTable, Format, Sec
<1>2. /\ sec \in DOMAIN Sections /\ table \in 1 .. T /\ num \in Nat /\ num <= most
      /\ tlen \in Nat /\ said \in Nat /\ filed \in Nat /\ filed + tlen = said
      /\ title \in Nat /\ lead \in Nat /\ most \in Nat /\ T \in Nat \ {0}
      /\ DOMAIN S.tables = 1 .. T
      /\ sec \in Nat \ {0} /\ table \in Nat \ {0}
  BY <1>1, SectionType DEF FileInv, FileType, IsSection
<1>3. Sec = S /\ Sec' = S
  BY <1>1 DEF Sec
<1> HIDE DEF title, lead, most
<1>4. table + 1 \in 1 .. T /\ tlen' \in Nat /\ filed' + tlen' = said' /\ extent' \in Nat
  <2>1. /\ tlen \in Nat /\ lead \in Nat /\ filed \in Nat /\ filed + tlen = said
        /\ tlen' = tlen + lead /\ filed' = filed /\ said' = said + lead
        /\ extent' = tlen + lead + 1
    BY <1>1, <1>2, Zenon
  <2>2. tlen' \in Nat /\ filed' + tlen' = said' /\ extent' \in Nat
    BY <2>1
  <2>3. T \in Nat /\ table \in 1 .. T /\ table < T
    BY <1>1, <1>2, Zenon
  <2> HIDE DEF T
  <2>4. table + 1 \in 1 .. T
    BY <2>3
  <2> QED BY <2>2, <2>4, Zenon
<1>5. FileType'
  <2>1. said + lead \in Nat /\ 0 \in Nat /\ 0 <= most /\ table + 1 \in Nat \ {0}
    BY <1>2
  <2>2. sec' \in DOMAIN Sections /\ table' \in DOMAIN Sections[sec'].tables
        /\ num' <= Sections[sec'].most
    BY <1>1, <1>2, <1>4, <2>1, Zenon DEF most
  <2>3. /\ sec' \in Nat \ {0} /\ table' \in Nat \ {0} /\ num' \in Nat /\ extent' \in Nat
        /\ tlen' \in Nat /\ said' \in Nat /\ filed' \in Nat
    BY <1>1, <1>2, <1>4, <2>1, Zenon
  <2> QED BY <2>2, <2>3, Zenon DEF FileType
<1>6. Level' /\ Reached'
  <2>1. Level
    BY <1>1 DEF FileInv
  <2>2. next \subseteq Nat /\ next # {}
    BY <1>2, <1>4, SectionType DEF IsSection, IsTable
  <2> HIDE DEF next
  <2>3. CASE tlen <= title + table * lead
    <3> DEFINE x == table * lead
               y == (table + 1) * lead
    <3>1. x \in Nat /\ y = x + lead
      BY <1>2
    <3>2. title + y + 1 <= TMP_SIZE
      BY <1>2, <1>4, TitleFits DEF title, lead
    <3>3. tlen <= title + x
      BY <2>3
    <3> HIDE DEF x, y
    <3>4. tlen' <= title + y /\ extent' <= TMP_SIZE
      <4>1. /\ tlen' = tlen + lead /\ extent' = tlen + lead + 1
            /\ tlen \in Nat /\ lead \in Nat /\ title \in Nat
        BY <1>1, <1>2, Zenon
      <4> HIDE DEF S, T
      <4> QED BY <3>1, <3>2, <3>3, <4>1
    <3>5. tlen' <= Sec'.title + table' * Sec'.lead
      BY <1>1, <1>3, <3>4, Zenon DEF y, title, lead
    <3> QED BY <3>4, <3>5, Zenon DEF Level, Reached
  <2>4. CASE \E j \in 1 .. table : tlen <= TMP_SIZE - S.tables[j].reserve + (table - j) * lead
    <3>1. PICK j \in 1 .. table : tlen <= TMP_SIZE - S.tables[j].reserve + (table - j) * lead
      BY <2>4
    <3> DEFINE k == S.tables[j].reserve
               d == table - j
               d1 == (table + 1) - j
               x == d * lead
               y == d1 * lead
    <3>2. k \in Nat /\ j \in 1 .. table + 1
      <4>1. j \in DOMAIN S.tables
        BY <1>2
      <4> QED BY <1>2, <4>1, SectionType DEF IsSection, IsTable
    <3>3. d \in Nat /\ d1 = d + 1
      BY <1>2
    <3>4. tlen <= TMP_SIZE - k + x
      BY <3>1
    <3> HIDE DEF d, d1, k
    <3>5. x \in Nat /\ y = x + lead
      BY <1>2, <3>3
    <3> HIDE DEF x, y
    <3>6. tlen' <= TMP_SIZE - k + y
      BY <1>1, <1>2, <3>2, <3>4, <3>5
    <3>7. Level'
      BY <1>1, <1>3, <3>2, <3>6, Zenon DEF Level, k, d1, y, lead
    <3>8. PICK n \in next : n \in Nat
      BY <2>2
    <3> DEFINE reach == TMP_SIZE - k + y + n + 1
    <3>9. extent' <= reach
      BY <1>1, <1>2, <3>2, <3>4, <3>5, <3>8
    <3>10. reach \in Reach(sec, table + 1)
      <4>1. Reach(sec, table + 1) =
              {TMP_SIZE - S.tables[i].reserve + ((table + 1) - i) * S.lead + m + 1 :
                  i \in 1 .. table + 1, m \in S.tables[table + 1].lens}
        BY DEF Reach
      <4>2. j \in 1 .. table + 1 /\ n \in S.tables[table + 1].lens
        BY <3>2, <3>8 DEF next
      <4>3. reach = TMP_SIZE - S.tables[j].reserve + ((table + 1) - j) * S.lead + n + 1
        BY DEF lead, k, d1, y
      <4> HIDE DEF S, reach
      <4> QED BY <4>1, <4>2, <4>3
    <3> HIDE DEF reach
    <3>11. Reach(sec, table)' = Reach(sec, table + 1)
      BY <1>1 DEF Reach
    <3>12. Reached'
      BY <3>9, <3>10, <3>11, Zenon DEF Reached
    <3> QED BY <3>7, <3>12
  <2>5. \/ tlen <= title + table * lead
        \/ \E j \in 1 .. table : tlen <= TMP_SIZE - S.tables[j].reserve + (table - j) * lead
    BY <1>3, <2>1, Zenon DEF Level, title, lead
  <2> QED BY <2>3, <2>4, <2>5
<1>7. ASSUME Short(sec) PROVE ShortRoom' /\ extent' <= TMP_SIZE
  <2> DEFINE L == Longest(sec)
             t == T - table
             t1 == T - (table + 1)
             h == t * lead
             h1 == t1 * lead
             c == t * most + (most - num)
             c1 == t1 * most + (most - 0)
             e == c * L
             e1 == c1 * L
  <2>1. L \in Nat
    BY <1>2, LongestEntry
  <2>2. tlen + h + e < TMP_SIZE
    BY <1>1, <1>3, <1>7, Zenon DEF FileInv, ShortRoom, lead, most
  <2>3. t = t1 + 1 /\ t1 \in Nat
    BY <1>1, <1>2
  <2> HIDE DEF t, t1, L
  <2>4. h = h1 + lead /\ h1 \in Nat
    BY <1>2, <2>3
  <2>5. c1 <= c /\ c1 \in Nat /\ c \in Nat
    <3>1. t * most = t1 * most + most /\ t1 * most \in Nat
      BY <1>2, <2>3
    <3> QED BY <1>2, <3>1
  <2> HIDE DEF h, h1, c, c1
  <2>6. e1 <= e /\ e1 \in Nat /\ e \in Nat
    BY <2>1, <2>5, Less
  <2> HIDE DEF e, e1
  <2>7. tlen' + h1 + e1 < TMP_SIZE /\ extent' <= TMP_SIZE
    BY <1>1, <1>2, <2>2, <2>4, <2>6
  <2>8. L' = L
    BY <1>1 DEF L, Longest
  <2>9. ShortRoom'
    BY <1>1, <1>3, <2>7, <2>8, Zenon DEF ShortRoom, t1, h1, c1, e1, L, lead, most
  <2> QED BY <2>7, <2>9
<1>8. Short(sec)' = Short(sec)
  BY <1>1 DEF Short, Longest
<1> HIDE DEF S, T
<1> QED BY <1>4, <1>5, <1>6, <1>7, <1>8 DEF FileInv

LEMMA FileInvariant == FileSpec => []FileInv
<1>1. FileInv /\ [FileNext]_fileVars => FileInv'
  BY FileBetween, FileBegin, FileEntry, FileTable DEF FileNext
<1> QED BY <1>1, FileInitInv, PTL DEF FileSpec

\* No section of the log file, whatever its entries, loses or repeats a byte
\* between the work buffer and the file (WRITE_LOG_MIDDLE, log_body.c:165).
THEOREM FileKept == FileSpec => []FileComplete
<1>1. FileInv => FileComplete
  BY DEF FileInv, FileComplete
<1> QED BY <1>1, FileInvariant, PTL

\* For any size of the work buffer from 512 bytes and of the tables, a dump
\* leaves the work buffer by no more than what a section's reserves fall short
\* of its headings and one entry, and not at all in a section that fits in it.
THEOREM BufferKept == FileSpec => []OverrunBounded
<1>1. FileInv => OverrunBounded
  BY DEF FileInv, OverrunBounded, Reached
<1> QED BY <1>1, FileInvariant, PTL

\* The sections whose reserve holds the headings and the longest entry.
Reserved == {2, 3, 4, 7}

\* A section whose tables all reserve as much as the headings and an entry take.
LEMMA EnoughReserved ==
  ASSUME NEW s \in DOMAIN Sections, NEW most \in Nat, NEW i \in DOMAIN Sections[s].tables,
         \A j \in DOMAIN Sections[s].tables :
            /\ (i - j) * Sections[s].lead <= 5
            /\ Sections[s].tables[j].reserve >= 5 + most + 1
            /\ \A n \in Sections[s].tables[j].lens : n <= most
  PROVE  \A e \in Reach(s, i) : e \in Int /\ e <= TMP_SIZE
<1> DEFINE S == Sections[s]
<1>1. /\ S.lead \in Nat /\ DOMAIN S.tables = 1 .. Len(S.tables) /\ Len(S.tables) \in Nat
      /\ \A j \in DOMAIN S.tables : S.tables[j].reserve \in Nat /\ S.tables[j].lens \subseteq Nat
  BY SectionType DEF IsSection, IsTable
<1>2. Reach(s, i) = {TMP_SIZE - S.tables[j].reserve + (i - j) * S.lead + n + 1 :
                        j \in 1 .. i, n \in S.tables[i].lens}
  BY DEF Reach
<1> SUFFICES ASSUME NEW j \in 1 .. i, NEW n \in S.tables[i].lens
             PROVE  LET e == TMP_SIZE - S.tables[j].reserve + (i - j) * S.lead + n + 1
                    IN  e \in Int /\ e <= TMP_SIZE
  <2> HIDE DEF S
  <2> QED BY <1>2
<1> DEFINE x == (i - j) * S.lead
           k == S.tables[j].reserve
<1>3. j \in DOMAIN S.tables /\ i - j \in Nat
  <2> DEFINE T == Len(S.tables)
  <2>1. T \in Nat /\ DOMAIN S.tables = 1 .. T
    BY <1>1, Zenon
  <2>2. i \in 1 .. T
    BY <2>1, Zenon
  <2> HIDE DEF S, T
  <2>3. j \in 1 .. T /\ i - j \in Nat
    BY <2>1, <2>2
  <2> QED BY <2>1, <2>3, Zenon
<1>4. x \in Nat /\ x <= 5
  <2>1. x <= 5
    BY <1>3, Zenon
  <2> DEFINE d == i - j
  <2> HIDE DEF S
  <2>2. S.lead \in Nat /\ d \in Nat
    BY <1>1, <1>3
  <2> HIDE DEF d
  <2>3. d * S.lead \in Nat
    BY <2>2
  <2> QED BY <2>1, <2>3 DEF d
<1>5. k \in Nat /\ k >= 5 + most + 1 /\ n \in Nat /\ n <= most
  <2>1. k \in Nat /\ S.tables[i].lens \subseteq Nat
    BY <1>1, <1>3, Zenon
  <2>2. k >= 5 + most + 1 /\ n <= most
    BY <1>3, Zenon
  <2> HIDE DEF S, k
  <2> QED BY <2>1, <2>2
<1> HIDE DEF x, k
<1>6. TMP_SIZE - k + x + n + 1 \in Int /\ TMP_SIZE - k + x + n + 1 <= TMP_SIZE
  BY <1>4, <1>5, LogDumpAssumption
<1> QED BY <1>6 DEF x, k

\* In these no table lets a sprintf out of the buffer.
LEMMA ReservedReach ==
  ASSUME NEW s \in Reserved, NEW i \in DOMAIN Sections[s].tables
  PROVE  \A e \in Reach(s, i) : e \in Int /\ e <= TMP_SIZE
<1>1. s \in DOMAIN Sections
  BY DEF Reserved, Sections
<1>2. CASE s = 2
  <2>1. /\ DOMAIN Sections[s].tables = {1} /\ Sections[s].lead = 0
        /\ Sections[s].tables[1].lens = {43, 163} /\ Sections[s].tables[1].reserve = 256
    BY <1>2 DEF Sections, MlogSection, Section, Table
  <2> QED BY <1>1, <2>1, EnoughReserved, 163 \in Nat
<1>3. CASE s = 3
  <2>1. /\ DOMAIN Sections[s].tables = {1} /\ Sections[s].lead = 0
        /\ Sections[s].tables[1].lens = {259, 290} /\ Sections[s].tables[1].reserve = 296
    BY <1>3 DEF Sections, EvtlogSection, Section, Table
  <2> QED BY <1>1, <2>1, EnoughReserved, 290 \in Nat
<1>4. CASE s = 4
  <2>1. /\ DOMAIN Sections[s].tables = {1, 2} /\ Sections[s].lead = 5
        /\ Sections[s].tables[1].lens = {53, 99} /\ Sections[s].tables[1].reserve = 128
        /\ Sections[s].tables[2].lens = {58, 75} /\ Sections[s].tables[2].reserve = 128
    BY <1>4 DEF Sections, FrontCliSection, Section, Table
  <2> QED BY <1>1, <2>1, EnoughReserved, 99 \in Nat
<1>5. CASE s = 7
  <2>1. /\ DOMAIN Sections[s].tables = {1, 2} /\ Sections[s].lead = 5
        /\ Sections[s].tables[1].lens = {21, 111} /\ Sections[s].tables[1].reserve = 128
        /\ Sections[s].tables[2].lens = {26, 63} /\ Sections[s].tables[2].reserve = 128
    BY <1>5 DEF Sections, SvrSection, Section, Table
  <2> QED BY <1>1, <2>1, EnoughReserved, 111 \in Nat
<1> QED BY <1>2, <1>3, <1>4, <1>5 DEF Reserved

\* The messages, the events, the cache of the frontend and the servers never
\* leave the work buffer, however many entries there are (write_log_mlog,
\* write_log_evtlog, write_log_cli of the frontend, write_log_svr).
THEOREM ReservesSuffice ==
  FileSpec => [](at = "entry" /\ sec \in Reserved => extent <= TMP_SIZE)
<1>1. FileInv => (at = "entry" /\ sec \in Reserved => extent <= TMP_SIZE)
  <2> SUFFICES ASSUME FileInv, at = "entry", sec \in Reserved
               PROVE  extent <= TMP_SIZE
    OBVIOUS
  <2>1. Reached /\ table \in DOMAIN Sections[sec].tables /\ extent \in Nat /\ TMP_SIZE \in Nat
    BY LogDumpAssumption DEF FileInv, FileType
  <2>2. CASE \E e \in Reach(sec, table) : extent <= e
    <3>1. PICK e \in Reach(sec, table) : extent <= e
      BY <2>2
    <3>2. e \in Int /\ e <= TMP_SIZE
      BY <2>1, ReservedReach
    <3> QED BY <2>1, <3>1, <3>2
  <2> QED BY <2>1, <2>2 DEF Reached
<1> QED BY <1>1, FileInvariant, PTL
=============================================================================
