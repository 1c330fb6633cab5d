------------------------------ MODULE EventLog ------------------------------
(***************************************************************************)
(* One log ring of a translator (common/log_body.c) and the dump of it.    *)
(* There are two, equal but for the contents of a record: mlog, the        *)
(* messages, and evtlog, the trace, which can be switched off.  All        *)
(* threads log, the command thread dumps, and nothing is locked: a call is *)
(* the loads and stores of pos, seqno and the record that it makes.        *)
(*                                                                         *)
(* The loads and stores are plain C, so the build decides some of it: the  *)
(* order in which the fields of a record are stored, whether the second    *)
(* load of pos is made, and whether the test for the end of the ring uses  *)
(* the value just stored or loads pos again.                               *)
(***************************************************************************)
EXTENDS Naturals, FiniteSets, Sequences

CONSTANTS Writers,      \* threads that log
          MAX,          \* MAX_MLOG, MAX_ELOG: slots of the ring
          SeqMod,       \* seqno is unsigned, modulo this
          HasSwitch,    \* whether this ring is evtlog, which looks at tr_on
          MaxCalls      \* bound: calls that are logged

ASSUME EventLogAssumption ==
    /\ MAX \in Nat \ {0} /\ SeqMod \in Nat \ {0} /\ MaxCalls \in Nat
    /\ SeqMod >= MAX
    /\ HasSwitch \in BOOLEAN
    /\ IsFiniteSet(Writers)

Slots  == 0 .. MAX - 1
Fields == {"seqno", "time"}
Empty  == [seqno |-> 0, time |-> FALSE]

VARIABLES
    pos,      \* slot the next record goes to
    seqno,    \* number of the last record
    slot,     \* slot[s]: the record; time is whether one was stored
    tr_on,    \* the trace switch
    pc,       \* pc[t]: where thread t is in the call
    tr,       \* tr[t]: the slot thread t took
    number,      \* number[t]: the number it took
    reg,      \* reg[t]: pos as it loaded it for the increment
    left,     \* left[t]: fields of the record not stored yet
    dump,     \* the dump: its step, the seqno it read, the copy it makes
    logged,   \* number of calls that began, bounded by MaxCalls
    serial,   \* history: no call has begun while another was under way
    quiet     \* history: no call was under way since the dump began

ring    == <<pos, seqno, slot>>
locals  == <<pc, tr, number, reg, left>>
history == <<logged, serial, quiet>>
vars    == <<ring, tr_on, locals, dump, history>>

\* mlog_init, evtlog_init.
Init ==
    /\ pos = 0 /\ seqno = 0
    /\ slot = [s \in Slots |-> Empty]
    /\ tr_on = TRUE
    /\ pc = [t \in Writers |-> "idle"]
    /\ tr = [t \in Writers |-> 0]
    /\ number = [t \in Writers |-> 0]
    /\ reg = [t \in Writers |-> 0]
    /\ left = [t \in Writers |-> {}]
    /\ dump = [at |-> "none", seqno |-> 0, copy |-> <<>>]
    /\ logged = 0 /\ serial = TRUE /\ quiet = FALSE

Idle == \A t \in Writers : pc[t] = "idle"

\* tr = &data[pos].
Enter(t) ==
    /\ pc[t] = "idle" /\ logged < MaxCalls
    /\ HasSwitch => tr_on
    /\ tr' = [tr EXCEPT ![t] = pos]
    /\ pc' = [pc EXCEPT ![t] = "load"]
    /\ logged' = logged + 1
    /\ serial' = (serial /\ Idle)
    /\ quiet' = FALSE
    /\ UNCHANGED <<ring, tr_on, number, reg, left, dump>>

\* ++seqno, the load.
LoadSeqno(t) ==
    /\ pc[t] = "load"
    /\ number' = [number EXCEPT ![t] = (seqno + 1) % SeqMod]
    /\ pc' = [pc EXCEPT ![t] = "store"]
    /\ UNCHANGED <<ring, tr_on, tr, reg, left, dump, history>>

\* ++seqno, the store.
StoreSeqno(t) ==
    /\ pc[t] = "store"
    /\ seqno' = number[t]
    /\ left' = [left EXCEPT ![t] = Fields]
    /\ pc' = [pc EXCEPT ![t] = "fill"]
    /\ UNCHANGED <<pos, slot, tr_on, tr, number, reg, dump, history>>

\* One field of the record.  A store past the ring changes none of its slots.
Fill(t, f) ==
    /\ pc[t] = "fill" /\ f \in left[t]
    /\ left' = [left EXCEPT ![t] = @ \ {f}]
    /\ slot' = IF tr[t] \notin Slots THEN slot
               ELSE IF f = "seqno" THEN [slot EXCEPT ![tr[t]].seqno = number[t]]
               ELSE [slot EXCEPT ![tr[t]].time = TRUE]
    /\ UNCHANGED <<pos, seqno, tr_on, pc, tr, number, reg, dump, history>>

\* pos++, the load: of pos, or of the register that holds it from Enter.
LoadPos(t) ==
    /\ pc[t] = "fill" /\ left[t] = {}
    /\ \E v \in {pos, tr[t]} : reg' = [reg EXCEPT ![t] = v]
    /\ pc' = [pc EXCEPT ![t] = "next"]
    /\ UNCHANGED <<ring, tr_on, tr, number, left, dump, history>>

\* pos++, the store.
StorePos(t) ==
    /\ pc[t] = "next"
    /\ pos' = reg[t] + 1
    /\ pc' = [pc EXCEPT ![t] = "wrap"]
    /\ UNCHANGED <<seqno, slot, tr_on, tr, number, reg, left, dump, history>>

\* The call returns, and its locals are gone.
Return(t) ==
    /\ pc' = [pc EXCEPT ![t] = "idle"]
    /\ tr' = [tr EXCEPT ![t] = 0]
    /\ number' = [number EXCEPT ![t] = 0]
    /\ reg' = [reg EXCEPT ![t] = 0]

\* A test that misses the first position past the ring.
WrapLate(t) ==
    /\ pc[t] = "wrap"
    /\ \E v \in {pos, reg[t] + 1} : pos' = IF v > MAX THEN 0 ELSE pos
    /\ Return(t)
    /\ UNCHANGED <<seqno, slot, tr_on, left, dump, history>>

\* A test for exactly the end of the ring.
WrapEqual(t) ==
    /\ pc[t] = "wrap"
    /\ \E v \in {pos, reg[t] + 1} : pos' = IF v = MAX THEN 0 ELSE pos
    /\ Return(t)
    /\ UNCHANGED <<seqno, slot, tr_on, left, dump, history>>

\* if (pos >= MAX) pos = 0.
Wrap(t) ==
    /\ pc[t] = "wrap"
    /\ \E v \in {pos, reg[t] + 1} : pos' = IF v >= MAX THEN 0 ELSE pos
    /\ Return(t)
    /\ UNCHANGED <<seqno, slot, tr_on, left, dump, history>>

\* trace_control, the request of sasat -t: evtlog only.
TraceControl(on) ==
    /\ HasSwitch /\ tr_on # on
    /\ tr_on' = on
    /\ UNCHANGED <<ring, locals, dump, history>>

(***************************************************************************)
(* The dump: write_log_mlog, write_log_evtlog.                             *)
(***************************************************************************)

DumpBegin ==
    /\ dump.at = "none"
    /\ dump' = [at |-> "copy", seqno |-> seqno, copy |-> <<>>]
    /\ quiet' = Idle
    /\ UNCHANGED <<ring, tr_on, locals, logged, serial>>

\* memcpy of the ring: the next slot.
DumpCopy ==
    /\ dump.at = "copy"
    /\ dump' = [at    |-> IF Len(dump.copy) + 1 = MAX THEN "list" ELSE "copy",
                seqno |-> dump.seqno,
                copy  |-> Append(dump.copy, slot[Len(dump.copy)])]
    /\ UNCHANGED <<ring, tr_on, locals, history>>

\* The listing is written, and the copy freed.
DumpEnd ==
    /\ dump.at = "list"
    /\ dump' = [at |-> "none", seqno |-> 0, copy |-> <<>>]
    /\ quiet' = FALSE
    /\ UNCHANGED <<ring, tr_on, locals, logged, serial>>

\* Slots of the copy, from 0, that hold the number the dump read.
Newest == {s \in Slots : dump.copy[s + 1].seqno = dump.seqno}

\* The search begins the listing at the newest record itself.
FirstListedNewest ==
    IF Newest = {} THEN MAX
    ELSE CHOOSE s \in Newest : \A u \in Newest : s <= u

\* The search leaves the slot after the first of them, and MAX, one past the
\* copy, when there is none.
FirstListed ==
    IF Newest = {} THEN MAX
    ELSE ((CHOOSE s \in Newest : \A u \in Newest : s <= u) + 1) % MAX

\* The records listed: MAX slots from the first.  (What has no time is an
\* empty slot, and is left out of the text.)
Listing == [i \in 1 .. MAX |-> dump.copy[((FirstListed + i - 1) % MAX) + 1]]

Write(t) == \/ Enter(t) \/ LoadSeqno(t) \/ StoreSeqno(t)
            \/ (\E f \in Fields : Fill(t, f))
            \/ LoadPos(t) \/ StorePos(t) \/ Wrap(t)

Next == \/ (\E t \in Writers : Write(t))
        \/ (\E on \in BOOLEAN : TraceControl(on))
        \/ DumpBegin \/ DumpCopy \/ DumpEnd

Spec == Init /\ [][Next]_vars

(***************************************************************************)
(* Properties                                                              *)
(***************************************************************************)

\* The type of the state.
TypeOK ==
    /\ pos \in Nat /\ seqno \in 0 .. SeqMod - 1
    /\ slot \in [Slots -> [seqno : 0 .. SeqMod - 1, time : BOOLEAN]]
    /\ tr_on \in BOOLEAN
    /\ pc \in [Writers -> {"idle", "load", "store", "fill", "next", "wrap"}]
    /\ tr \in [Writers -> Nat] /\ reg \in [Writers -> Nat]
    /\ number \in [Writers -> 0 .. SeqMod - 1]
    /\ left \in [Writers -> SUBSET Fields]
    /\ dump.at \in {"none", "copy", "list"} /\ dump.seqno \in 0 .. SeqMod - 1
    /\ dump.copy \in Seq([seqno : 0 .. SeqMod - 1, time : BOOLEAN])
    /\ Len(dump.copy) <= MAX
    /\ logged \in 0 .. MaxCalls /\ serial \in BOOLEAN /\ quiet \in BOOLEAN

\* The position leaves the ring for the moment of an increment only: whatever
\* the threads do to each other, it is past the ring only while a thread that
\* carried it there has still to set it back, so a ring at rest is in order.
PosHeals ==
    pos >= MAX => \E t \in Writers : pc[t] = "wrap" /\ reg[t] + 1 >= MAX

\* Of n records, the number of the last that slot s was due, 0 if none.
LastOf(due) == IF due = {} THEN 0 ELSE CHOOSE m \in due : \A k \in due : m >= k
Due(n, s) == LastOf({m \in 1 .. n : (m - 1) % MAX = s})

\* What slot s holds after n records.
Kept(n, s) == [seqno |-> Due(n, s) % SeqMod, time |-> Due(n, s) > 0]

\* Calls that never overlap lose nothing: at rest, each slot has the newest
\* record that was due to it, also after the numbers have wrapped around.
SerialCallsKept ==
    serial /\ Idle =>
        /\ pos = logged % MAX /\ seqno = logged % SeqMod
        /\ \A s \in Slots : slot[s] = Kept(logged, s)

\* A dump of such a ring, when nobody logs during it, lists the newest records
\* in the order they were logged, and all that the ring can hold: the last
\* place has the last record, and only what was never logged is left out.
DumpInOrder ==
    dump.at = "list" /\ serial /\ quiet =>
        \A i \in 1 .. MAX :
           LET n == logged - (MAX - i)
           IN  /\ Listing[i].time <=> n > 0
               /\ n > 0 => Listing[i].seqno = n % SeqMod

=============================================================================
