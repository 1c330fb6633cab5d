------------------------- MODULE PolicyCache_proofs -------------------------
(***************************************************************************)
(* The distribution cache of the front translator, for any addresses,      *)
(* backends, policy files, hash function and number of entries.            *)
(*                                                                         *)
(* TypeCorrect and PartitionKept are inductive on their own.  CacheInv,    *)
(* inductive on top of them, says what the cache owes to the table; the    *)
(* properties of the entries and the refinement of Distribution follow.    *)
(***************************************************************************)
EXTENDS PolicyCache, SequenceTheorems, WellFoundedInduction, TLAPS

\* Least does return the least element: sets of numbers are well-founded.
LEMMA LeastMember ==
    ASSUME NEW S \in SUBSET Nat, S # {}
    PROVE  Least(S) \in S /\ \A j \in S : Least(S) <= j
<1>1. PICK i \in S : \A j \in S : <<j, i>> \notin OpToRel(<, Nat)
  BY WFMin, NatLessThanWellFounded, Zenon
<1>2. \A j \in S : ~(j < i)
  BY <1>1, Zenon DEF OpToRel
<1>3. \A j \in S : i <= j
  BY <1>2
<1> QED
  BY <1>3 DEF Least

\* A function on 1 .. n is a sequence.
LEMMA SeqOfFunction ==
    ASSUME NEW S, NEW n \in Nat, NEW g \in [1 .. n -> S]
    PROVE  g \in Seq(S)
  OBVIOUS

\* A policy file becomes a sequence of policies.
LEMMA CreatePoliciesType ==
    ASSUME NEW lines \in Seq(Line)
    PROVE  CreatePolicies(lines) \in Seq(Policy)
<1>1. /\ Len(lines) \in Nat
      /\ lines \in [1 .. Len(lines) -> Line]
  BY LenProperties
<1>2. 0 \in Counter
  BY ConstantAssumption DEF Counter
<1>3. CreatePolicies(lines) \in [1 .. Len(lines) -> Policy]
  BY <1>1, <1>2 DEF CreatePolicies, Line, Policy, Addr
<1> QED
  BY <1>1, <1>3, SeqOfFunction

\* ... and a server table.
LEMMA CreateServersType ==
    ASSUME NEW lines, NEW m \in [Servers -> Mac]
    PROVE  CreateServers(lines, m) \in [Servers -> Server]
<1>1. 0 \in Counter
  BY ConstantAssumption DEF Counter
<1> QED
  BY <1>1 DEF CreateServers, Server, Status, Mac

\* The counters wrap round.
LEMMA IncType == \A n \in Counter : Inc(n) \in Counter
BY ConstantAssumption DEF Inc, Counter

\* ip_hash_code4/6 names a bucket.
LEMMA HashType == \A src \in Addr : HashCode[src] \in Buckets
BY ConstantAssumption

\* An update of a sequence, at an index it may not have.
LEMMA SeqUpdate ==
    ASSUME NEW S, NEW s \in Seq(S), NEW i, NEW v, i \in 1 .. Len(s) => v \in S
    PROVE  [s EXCEPT ![i] = v] \in Seq(S)
<1>1. Len(s) \in Nat /\ s \in [1 .. Len(s) -> S]
  BY LenProperties
<1>2. [s EXCEPT ![i] = v] \in [1 .. Len(s) -> S]
  BY <1>1
<1> QED
  BY <1>1, <1>2, SeqOfFunction

-----------------------------------------------------------------------------
(* Types *)

TablesType ==
    /\ pol \in [Families -> Seq(Policy)]
    /\ svrs \in [Families -> [Servers -> Server]]

EntriesType ==
    /\ cache \in [Families -> [Entries -> CacheEntry]]
    /\ fix \in [Families -> CacheEntry]

ListsType ==
    /\ free \in [Families -> Seq(Entries)]
    /\ hash \in [Families -> [Buckets -> Seq(Entries)]]

LoopType ==
    /\ patrol_flag \in SUBSET Families
    /\ ptr \in [Families -> Buckets]
    /\ recvd \in 0 .. MAX_RECV
    /\ out \in Outcome

\* The entry a hit finds.
HitEntry(f, src) == hash[f][HashCode[src]][Least(HitsIn(f, src))]

\* It is an entry: the search stops at a position of the bucket.
LEMMA HitEntryType ==
    ASSUME ListsType, NEW f \in Families, NEW src \in Addr, HitsIn(f, src) # {}
    PROVE  /\ Least(HitsIn(f, src)) \in HitsIn(f, src)
           /\ HitEntry(f, src) \in Entries
<1> DEFINE bucket == hash[f][HashCode[src]]
<1>1. bucket \in Seq(Entries)
  BY HashType DEF ListsType
<1>2. DOMAIN bucket = 1 .. Len(bucket) /\ Len(bucket) \in Nat
  BY <1>1, LenProperties
<1>3. HitsIn(f, src) \subseteq 1 .. Len(bucket)
  BY <1>2 DEF HitsIn
<1>4. Least(HitsIn(f, src)) \in HitsIn(f, src)
  BY <1>2, <1>3, LeastMember
<1> QED
  BY <1>1, <1>3, <1>4, ElementOfSeq DEF HitEntry

\* The policy that decides for a source.
LEMMA LookupType ==
    ASSUME TablesType, NEW f \in Families, NEW src \in Addr, Matches(f, src) # {}
    PROVE  /\ PolicyLookup(f, src) \in Matches(f, src)
           /\ \A i \in Matches(f, src) : PolicyLookup(f, src) <= i
           /\ PolicyLookup(f, src) \in Nat
           /\ pol[f][PolicyLookup(f, src)] \in Policy
<1>1. pol[f] \in Seq(Policy)
  BY DEF TablesType
<1>2. DOMAIN pol[f] = 1 .. Len(pol[f]) /\ Len(pol[f]) \in Nat
  BY <1>1, LenProperties
<1>3. Matches(f, src) \subseteq 1 .. Len(pol[f])
  BY <1>2 DEF Matches
<1>4. /\ PolicyLookup(f, src) \in Matches(f, src)
      /\ \A i \in Matches(f, src) : PolicyLookup(f, src) <= i
  BY <1>2, <1>3, LeastMember DEF PolicyLookup
<1> QED
  BY <1>1, <1>2, <1>3, <1>4, ElementOfSeq

\* A backend stays one, whatever the kernel answers.
LEMMA ResolvedType ==
    \A svr \in Server, r \in Resolution : Resolved(svr, r) \in Server
<1> SUFFICES ASSUME NEW svr \in Server, NEW r \in Resolution
             PROVE  Resolved(svr, r) \in Server
  OBVIOUS
<1>1. r.mac \in Mac
  <2>1. CASE r \in [when : {"in_time", "late"}, mac : Macs]
    BY <2>1 DEF Mac
  <2>2. CASE r = [when |-> "never", mac |-> NoMac]
    BY <2>2 DEF Mac
  <2> QED
    BY <2>1, <2>2 DEF Resolution
<1>2. NoMac \in Mac /\ "SVR_OK" \in Status
  BY DEF Mac, Status
<1>3. \A st \in Status, m \in Mac :
         /\ [svr EXCEPT !.mac = m] \in Server
         /\ [svr EXCEPT !.status = st, !.mac = m] \in Server
  BY DEF Server
<1> QED
  BY <1>1, <1>2, <1>3 DEF Resolved

\* What policy_lookup may return is a backend.
LEMMA UsableType ==
    ASSUME TablesType, NEW f \in Families, NEW i, pol[f][i] \in Policy
    PROVE  UsableServers(f, i) \subseteq Server
<1>1. svrs[f][pol[f][i].svr] \in Server
  BY DEF TablesType, Policy
<1> QED
  BY <1>1, ResolvedType DEF UsableServers

\* The types hold after the first load of the policy file.
LEMMA InitTypes == Init => TypeOK
<1> SUFFICES ASSUME Init PROVE TypeOK
  OBVIOUS
<1>1. PICK file \in PolicyFiles, m \in [Families -> [Servers -> Mac]] :
          /\ pol  = [f \in Families |-> CreatePolicies(file[f])]
          /\ svrs = [f \in Families |-> CreateServers(file[f], m[f])]
  BY DEF Init
<1>2. \A f \in Families : file[f] \in Seq(Line) /\ m[f] \in [Servers -> Mac]
  BY <1>1, ConstantAssumption
<1>3. pol \in [Families -> Seq(Policy)] /\ svrs \in [Families -> [Servers -> Server]]
  BY <1>1, <1>2, CreatePoliciesType, CreateServersType
<1>4. 0 \in Counter /\ Blank \in CacheEntry
  BY ConstantAssumption DEF Counter, Blank, CacheEntry, Addr, Mac, Status
<1>5. FreeList \in Seq(Entries)
  BY ConstantAssumption, SeqOfFunction DEF FreeList, Entries
<1>6. NoBuckets \in [Buckets -> Seq(Entries)]
  BY DEF NoBuckets
<1>7. NoPacket \in Outcome
  BY DEF NoPacket, Outcome, Addr, Mac
<1>8. 0 \in Buckets /\ 0 \in 0 .. MAX_RECV
  BY ConstantAssumption DEF Buckets
<1> QED
  BY <1>3, <1>4, <1>5, <1>6, <1>7, <1>8 DEF Init, TypeOK

\* Every step keeps the types of the policy and the server tables.
LEMMA TablesStep ==
    ASSUME TypeOK, [Next]_vars
    PROVE  TablesType'
<1> USE DEF TablesType
<1>0. TablesType /\ EntriesType /\ ListsType
  BY DEF TypeOK, EntriesType, ListsType
<1>1. ASSUME NEW f \in Families, NEW src \in Addr, GetPolHit(f, src)
      PROVE  TablesType'
  <2> DEFINE c == cache[f][HitEntry(f, src)]
  <2>1. c \in CacheEntry
    BY <1>0, <1>1, HitEntryType DEF EntriesType, GetPolHit
  <2>2. /\ pol'  = [pol EXCEPT ![f][c.pol].hit_count = Inc(@)]
        /\ svrs' = [svrs EXCEPT ![f][c.dst].hit = Inc(@)]
    BY <1>1 DEF GetPolHit, HitEntry
  <2>3. svrs' \in [Families -> [Servers -> Server]]
    <3>1. c.dst \in Servers /\ svrs[f][c.dst] \in Server
      BY <1>0, <2>1 DEF CacheEntry
    <3>2. [svrs[f][c.dst] EXCEPT !.hit = Inc(@)] \in Server
      BY <3>1, IncType DEF Server
    <3> QED
      BY <1>0, <2>2, <3>1, <3>2
  <2> DEFINE v == [pol[f][c.pol] EXCEPT !.hit_count = Inc(@)]
  <2>4. pol[f] \in Seq(Policy)
    BY <1>0
  <2>5. ASSUME c.pol \in 1 .. Len(pol[f]) PROVE v \in Policy
    <3>1. pol[f][c.pol] \in Policy
      BY <2>4, <2>5, ElementOfSeq
    <3> QED
      BY <3>1, IncType DEF Policy
  <2>6. [pol[f] EXCEPT ![c.pol] = v] \in Seq(Policy)
    BY <2>4, <2>5, SeqUpdate
  <2>7. pol' = [pol EXCEPT ![f] = [pol[f] EXCEPT ![c.pol] = v]]
    BY <2>2
  <2>8. pol' \in [Families -> Seq(Policy)]
    BY <1>0, <2>6, <2>7
  <2> QED
    BY <2>3, <2>8
<1>2. ASSUME NEW f \in Families, NEW src \in Addr, GetPolNone(f, src)
      PROVE  TablesType'
  <2>1. CASE UNCHANGED svrs
    BY <1>0, <1>2, <2>1 DEF GetPolNone
  <2>2. CASE Matches(f, src) # {} /\ ~UNCHANGED svrs
    <3> DEFINE s == pol[f][PolicyLookup(f, src)].svr
    <3>1. s \in Servers
      BY <1>0, <2>2, LookupType DEF Policy
    <3>2. PICK r \in Resolution : svrs' = [svrs EXCEPT ![f][s] = Resolved(@, r)]
      BY <1>2, <2>2 DEF GetPolNone
    <3>3. svrs' \in [Families -> [Servers -> Server]]
      BY <3>1, <3>2, <1>0, ResolvedType
    <3> QED
      BY <1>2, <1>0, <3>3 DEF GetPolNone
  <2> QED
    BY <1>2, <2>1, <2>2 DEF GetPolNone
<1>3. ASSUME NEW f \in Families, NEW src \in Addr, Matches(f, src) # {},
             NEW svr \in UsableServers(f, PolicyLookup(f, src)),
             CountMiss(f, PolicyLookup(f, src), svr)
      PROVE  TablesType'
  <2> DEFINE i == PolicyLookup(f, src)
  <2>1. pol[f][i] \in Policy /\ svr \in Server
    BY <1>0, <1>3, LookupType, UsableType
  <2>2. [svr EXCEPT !.hit = Inc(@)] \in Server
    BY <2>1, IncType DEF Server
  <2>3. [pol[f][i] EXCEPT !.use_count = Inc(@), !.hit_count = Inc(@)] \in Policy
    BY <2>1, IncType DEF Policy
  <2>4. [pol[f] EXCEPT ![i] = [pol[f][i] EXCEPT !.use_count = Inc(@), !.hit_count = Inc(@)]]
            \in Seq(Policy)
    BY <1>0, <2>3, SeqUpdate
  <2>5. pol' = [pol EXCEPT ![f] =
            [pol[f] EXCEPT ![i] = [pol[f][i] EXCEPT !.use_count = Inc(@), !.hit_count = Inc(@)]]]
    BY <1>3 DEF CountMiss
  <2>6. svrs' \in [Families -> [Servers -> Server]]
    BY <1>0, <1>3, <2>1, <2>2 DEF CountMiss, Policy
  <2> QED
    BY <1>0, <2>4, <2>5, <2>6
<1>4. ASSUME NEW file \in PolicyFiles, UpdatePolicy(file)
      PROVE  TablesType'
  <2>1. file \in [Families -> Seq(Line)]
    BY ConstantAssumption
  <2> QED
    BY <1>4, <2>1, CreatePoliciesType, CreateServersType DEF UpdatePolicy
<1>5. CASE UNCHANGED <<pol, svrs>>
  BY <1>0, <1>5
<1>6. ASSUME NEW f \in Families, NEW src \in Addr, GetPolFill(f, src) \/ GetPolFix(f, src)
      PROVE  TablesType'
  BY <1>3, <1>6 DEF GetPolFill, GetPolFix
<1>7. ASSUME ProcPatrol \/ UNCHANGED vars \/ \E f \in Families, src \in Addr : DropAddr(f, src)
      PROVE  TablesType'
  BY <1>5, <1>7 DEF ProcPatrol, vars, DropAddr
<1> QED
  BY <1>1, <1>2, <1>4, <1>6, <1>7 DEF Next

\* A filled entry is an entry.
LEMMA FilledType ==
    ASSUME NEW f, NEW src \in Addr, NEW i \in Nat, NEW svr \in Server, NEW hit \in Counter,
           pol[f][i] \in Policy
    PROVE  Filled(f, src, i, svr, hit) \in CacheEntry
BY DEF Filled, Policy, Server, CacheEntry

\* Every step keeps the types of the cache entries.
LEMMA EntriesStep ==
    ASSUME TypeOK, [Next]_vars
    PROVE  EntriesType'
<1> USE DEF EntriesType
<1>0. TablesType /\ EntriesType /\ ListsType
  BY DEF TypeOK, TablesType, ListsType
<1>1. ASSUME NEW f \in Families, NEW src \in Addr, GetPolHit(f, src)
      PROVE  EntriesType'
  <2>1. HitEntry(f, src) \in Entries
    BY <1>0, <1>1, HitEntryType DEF GetPolHit
  <2>2. /\ cache' = [cache EXCEPT ![f][HitEntry(f, src)].hit = Inc(@)]
        /\ UNCHANGED fix
    BY <1>1 DEF GetPolHit, HitEntry
  <2>3. [cache[f][HitEntry(f, src)] EXCEPT !.hit = Inc(@)] \in CacheEntry
    <3>1. cache[f][HitEntry(f, src)] \in CacheEntry
      BY <1>0, <2>1
    <3> QED
      BY <3>1, IncType DEF CacheEntry
  <2> QED
    BY <1>0, <2>1, <2>2, <2>3
<1>2. ASSUME NEW f \in Families, NEW src \in Addr, GetPolFill(f, src)
      PROVE  EntriesType'
  <2> DEFINE i == PolicyLookup(f, src)
  <2>1. PICK svr \in UsableServers(f, i) :
           cache' = [cache EXCEPT ![f][Head(free[f])] = Filled(f, src, i, svr, Inc(0))]
    BY <1>2 DEF GetPolFill
  <2>2. i \in Nat /\ pol[f][i] \in Policy /\ svr \in Server
    BY <1>0, <1>2, LookupType, UsableType DEF GetPolFill
  <2>3. Inc(0) \in Counter
    BY ConstantAssumption, IncType DEF Counter
  <2>4. Filled(f, src, i, svr, Inc(0)) \in CacheEntry
    BY <2>2, <2>3, FilledType
  <2>5. Head(free[f]) \in Entries
    BY <1>0, <1>2, HeadTailProperties DEF ListsType, GetPolFill
  <2> QED
    BY <1>0, <1>2, <2>1, <2>4, <2>5 DEF GetPolFill
<1>3. ASSUME NEW f \in Families, NEW src \in Addr, GetPolFix(f, src)
      PROVE  EntriesType'
  <2> DEFINE i == PolicyLookup(f, src)
  <2>1. PICK svr \in UsableServers(f, i) :
           fix' = [fix EXCEPT ![f] = Filled(f, src, i, svr, Inc(fix[f].hit))]
    BY <1>3 DEF GetPolFix
  <2>2. i \in Nat /\ pol[f][i] \in Policy /\ svr \in Server
    BY <1>0, <1>3, LookupType, UsableType DEF GetPolFix
  <2>3. Inc(fix[f].hit) \in Counter
    BY <1>0, IncType DEF CacheEntry
  <2>4. Filled(f, src, i, svr, Inc(fix[f].hit)) \in CacheEntry
    BY <2>2, <2>3, FilledType
  <2> QED
    BY <1>0, <1>3, <2>1, <2>4 DEF GetPolFix
<1>4. \A c \in CacheEntry : [c EXCEPT !.stat = "SVR_INIT"] \in CacheEntry
  BY DEF CacheEntry, Status
<1>5. ASSUME NEW file \in PolicyFiles, UpdatePolicy(file)
      PROVE  EntriesType'
  BY <1>0, <1>4, <1>5 DEF UpdatePolicy, InitPolicyTable
<1>6. CASE ProcPatrol
  BY <1>0, <1>4, <1>6 DEF ProcPatrol, FreePolCache
<1>7. ASSUME \/ UNCHANGED vars
             \/ \E f \in Families, src \in Addr : DropAddr(f, src) \/ GetPolNone(f, src)
      PROVE  EntriesType'
  BY <1>0, <1>7 DEF vars, DropAddr, GetPolNone
<1> QED
  BY <1>1, <1>2, <1>3, <1>5, <1>6, <1>7 DEF Next

\* The bucket a patrol empties.
Victim(f) == Least(Swept(f, ptr[f]))

\* A sweep that finds a bucket in use empties one.
LEMMA VictimType ==
    ASSUME NEW f, Swept(f, ptr[f]) # {}
    PROVE  Victim(f) \in Swept(f, ptr[f]) /\ Victim(f) \in Buckets
<1>1. Swept(f, ptr[f]) \subseteq Nat /\ Swept(f, ptr[f]) \subseteq Buckets
  BY ConstantAssumption DEF Swept, Buckets
<1> QED
  BY <1>1, LeastMember DEF Victim

\* The other steps leave the lists alone.
LEMMA ListsUnchanged ==
    ASSUME [Next]_vars
    PROVE  \/ UNCHANGED <<free, hash>>
           \/ ProcPatrol
           \/ \E f \in Families, src \in Addr : GetPolFill(f, src)
           \/ \E file \in PolicyFiles : UpdatePolicy(file)
<1>1. CASE UNCHANGED vars
  BY <1>1 DEF vars
<1>2. ASSUME NEW f \in Families, NEW src \in Addr, DropAddr(f, src) \/ GetPolNone(f, src)
      PROVE  UNCHANGED <<free, hash>>
  BY <1>2 DEF DropAddr, GetPolNone
<1>3. ASSUME NEW f \in Families, NEW src \in Addr, GetPolHit(f, src)
      PROVE  UNCHANGED <<free, hash>>
  BY <1>3, Zenon DEF GetPolHit
<1>4. ASSUME NEW f \in Families, NEW src \in Addr, GetPolFix(f, src)
      PROVE  UNCHANGED <<free, hash>>
  BY <1>4, Zenon DEF GetPolFix
<1> QED
  BY <1>1, <1>2, <1>3, <1>4 DEF Next

\* Every step keeps the types of the free list and of the buckets.
LEMMA ListsStep ==
    ASSUME TypeOK, [Next]_vars
    PROVE  ListsType'
<1> USE DEF ListsType
<1>0. ListsType
  BY DEF TypeOK
<1>1. ASSUME NEW f \in Families, NEW src \in Addr, GetPolFill(f, src)
      PROVE  ListsType'
  <2> DEFINE e == Head(free[f])
             b == HashCode[src]
  <2>1. /\ free' = [free EXCEPT ![f] = Tail(@)]
        /\ hash' = [hash EXCEPT ![f][b] = <<e>> \o @]
        /\ free[f] # <<>>
    BY <1>1 DEF GetPolFill
  <2>2. free[f] \in Seq(Entries) /\ hash[f][b] \in Seq(Entries) /\ b \in Buckets
    BY <1>0, HashType
  <2>3. e \in Entries /\ Tail(free[f]) \in Seq(Entries)
    BY <2>1, <2>2, HeadTailProperties
  <2>4. <<e>> \o hash[f][b] \in Seq(Entries)
    BY <2>2, <2>3, ConcatProperties
  <2> QED
    BY <1>0, <2>1, <2>2, <2>3, <2>4
<1>2. ASSUME NEW file \in PolicyFiles, UpdatePolicy(file)
      PROVE  ListsType'
  <2>1. FreeList \in Seq(Entries)
    BY ConstantAssumption, SeqOfFunction DEF FreeList, Entries
  <2> QED
    BY <1>2, <2>1 DEF UpdatePolicy, InitPolicyTable, NoBuckets
<1>3. CASE ProcPatrol
  <2>1. hash' \in [Families -> [Buckets -> Seq(Entries)]]
    BY <1>0, <1>3 DEF ProcPatrol
  <2>2. ASSUME NEW f \in Families, Swept(f, ptr[f]) # {}
        PROVE  free[f] \o hash[f][Victim(f)] \in Seq(Entries)
    BY <1>0, <2>2, VictimType, ConcatProperties
  <2>3. free' = [f \in Families |->
           IF f \in patrol_flag /\ Swept(f, ptr[f]) # {}
           THEN free[f] \o hash[f][Victim(f)] ELSE free[f]]
    BY <1>3 DEF ProcPatrol, Victim
  <2>4. free' \in [Families -> Seq(Entries)]
    BY <1>0, <2>2, <2>3
  <2> QED
    BY <2>1, <2>4
<1>4. ASSUME UNCHANGED <<free, hash>> PROVE ListsType'
  BY <1>0, <1>4
<1> QED
  BY <1>1, <1>2, <1>3, <1>4, ListsUnchanged

\* What becomes of a packet is an outcome.
LEMMA OutcomesType ==
    ASSUME NEW f \in Families, NEW src \in Addr, NEW c \in CacheEntry
    PROVE  Outcomes(f, src, c) \in Outcome
BY DEF Outcomes, Forward, Discard, CacheEntry, Outcome, Mac

\* Every step keeps the types of what the loop of the thread keeps.
LEMMA LoopStep ==
    ASSUME TypeOK, [Next]_vars
    PROVE  LoopType'
<1> USE DEF LoopType
<1>0. TablesType /\ EntriesType /\ ListsType /\ LoopType
  BY DEF TypeOK, TablesType, EntriesType, ListsType
<1>1. EntriesType'
  BY EntriesStep
<1>2. ASSUME Receive PROVE recvd' \in 0 .. MAX_RECV
  BY <1>0, <1>2, ConstantAssumption DEF Receive
<1>3. ASSUME NEW f \in Families, NEW src \in Addr, GetPolHit(f, src)
      PROVE  LoopType'
  <2>1. cache[f][HitEntry(f, src)] \in CacheEntry
    BY <1>0, <1>3, HitEntryType DEF EntriesType, GetPolHit
  <2>2. out' = Outcomes(f, src, cache[f][HitEntry(f, src)])
    BY <1>3 DEF GetPolHit, HitEntry
  <2> QED
    BY <1>0, <1>2, <1>3, <2>1, <2>2, OutcomesType DEF GetPolHit
<1>4. ASSUME NEW f \in Families, NEW src \in Addr, GetPolFill(f, src)
      PROVE  LoopType'
  <2> DEFINE i == PolicyLookup(f, src)
  <2>1. PICK svr \in UsableServers(f, i) : out' = Outcomes(f, src, Filled(f, src, i, svr, Inc(0)))
    BY <1>4 DEF GetPolFill
  <2>2. i \in Nat /\ pol[f][i] \in Policy /\ svr \in Server
    BY <1>0, <1>4, LookupType, UsableType DEF GetPolFill
  <2>3. Inc(0) \in Counter
    BY ConstantAssumption, IncType DEF Counter
  <2>4. out' \in Outcome
    BY <2>1, <2>2, <2>3, FilledType, OutcomesType
  <2> QED
    BY <1>0, <1>2, <1>4, <2>4 DEF GetPolFill
<1>5. ASSUME NEW f \in Families, NEW src \in Addr, GetPolFix(f, src)
      PROVE  LoopType'
  <2>1. fix'[f] \in CacheEntry
    BY <1>1 DEF EntriesType
  <2>2. out' = Outcomes(f, src, fix'[f])
    BY <1>5 DEF GetPolFix
  <2>3. out' \in Outcome
    BY <2>1, <2>2, OutcomesType
  <2> QED
    BY <1>0, <1>2, <1>5, <2>3 DEF GetPolFix
<1>6. ASSUME NEW f \in Families, NEW src \in Addr, DropAddr(f, src) \/ GetPolNone(f, src)
      PROVE  LoopType'
  <2>1. \A vip \in BOOLEAN : Discard(f, src, vip) \in Outcome
    BY DEF Discard, Outcome, Mac
  <2> QED
    BY <1>0, <1>2, <1>6, <2>1 DEF DropAddr, GetPolNone
<1>7. ASSUME NEW file \in PolicyFiles, UpdatePolicy(file)
      PROVE  LoopType'
  <2>1. NoPacket \in Outcome /\ 0 \in 0 .. MAX_RECV
    BY ConstantAssumption DEF NoPacket, Outcome, Addr, Mac
  <2> QED
    BY <1>0, <1>7, <2>1 DEF UpdatePolicy
<1>8. CASE ProcPatrol
  <2>1. ASSUME NEW f \in Families PROVE NextPtr(f) \in Buckets
    <3>1. Swept(f, ptr[f]) # {} => Victim(f) \in Buckets
      BY VictimType
    <3> QED
      BY <1>0, <3>1, ConstantAssumption DEF NextPtr, Stop, Victim, Buckets
  <2>2. ptr' \in [Families -> Buckets]
    BY <1>8, <2>1 DEF ProcPatrol
  <2> QED
    BY <1>0, <1>8, <2>2, ConstantAssumption DEF ProcPatrol
<1>9. CASE UNCHANGED vars
  BY <1>0, <1>9 DEF vars
<1> QED
  BY <1>3, <1>4, <1>5, <1>6, <1>7, <1>8, <1>9 DEF Next

\* Every variable of the network thread's tables keeps its type: what lookup,
\* caching, the patrol and the reload write is what they may read.
THEOREM TypeCorrect == Spec => []TypeOK
<1>1. TypeOK /\ [Next]_vars => TypeOK'
  BY TablesStep, EntriesStep, ListsStep, LoopStep
     DEF TypeOK, TablesType, EntriesType, ListsType, LoopType
<1> QED
  BY InitTypes, <1>1, PTL DEF Spec

-----------------------------------------------------------------------------
(* The lists of cache entries *)

NoRepeat(s) == \A i, j \in DOMAIN s : s[i] = s[j] => i = j

\* The members of two lists put together (TAILQ inserts and moves).
LEMMA ConcatMembers ==
    ASSUME NEW S, NEW s \in Seq(S), NEW t \in Seq(S)
    PROVE  /\ Members(s \o t) = Members(s) \cup Members(t)
           /\ /\ NoRepeat(s) /\ NoRepeat(t)
              /\ Members(s) \cap Members(t) = {}
              => NoRepeat(s \o t)
<1> DEFINE u == s \o t
<1>1. /\ Len(s) \in Nat /\ DOMAIN s = 1 .. Len(s)
      /\ Len(t) \in Nat /\ DOMAIN t = 1 .. Len(t)
  BY LenProperties
<1>2. /\ u \in Seq(S)
      /\ DOMAIN u = 1 .. Len(s) + Len(t)
      /\ \A i \in 1 .. Len(s) + Len(t) : u[i] = IF i <= Len(s) THEN s[i] ELSE t[i - Len(s)]
  BY ConcatProperties, LenProperties
<1> HIDE DEF u
<1>3. Members(u) \subseteq Members(s) \cup Members(t)
  <2> SUFFICES ASSUME NEW i \in DOMAIN u PROVE u[i] \in Members(s) \cup Members(t)
    BY DEF Members
  <2>1. CASE i <= Len(s)
    BY <1>1, <1>2, <2>1 DEF Members
  <2>2. CASE ~(i <= Len(s))
    <3>1. i - Len(s) \in DOMAIN t /\ u[i] = t[i - Len(s)]
      BY <1>1, <1>2, <2>2
    <3> QED
      BY <3>1 DEF Members
  <2> QED
    BY <2>1, <2>2
<1>4. Members(s) \subseteq Members(u)
  <2> SUFFICES ASSUME NEW i \in DOMAIN s PROVE s[i] \in Members(u)
    BY DEF Members
  <2>1. i \in DOMAIN u /\ u[i] = s[i]
    BY <1>1, <1>2
  <2> QED
    BY <2>1 DEF Members
<1>5. Members(t) \subseteq Members(u)
  <2> SUFFICES ASSUME NEW i \in DOMAIN t PROVE t[i] \in Members(u)
    BY DEF Members
  <2>1. i + Len(s) \in DOMAIN u /\ u[i + Len(s)] = t[i]
    BY <1>1, <1>2
  <2> QED
    BY <2>1 DEF Members
<1>6. ASSUME NoRepeat(s), NoRepeat(t), Members(s) \cap Members(t) = {}
      PROVE  NoRepeat(u)
  <2> SUFFICES ASSUME NEW i \in DOMAIN u, NEW j \in DOMAIN u, u[i] = u[j]
               PROVE  i = j
    BY DEF NoRepeat
  <2>1. i \in Nat /\ j \in Nat
    BY <1>1, <1>2
  <2>2. \A k \in DOMAIN u :
           \/ k <= Len(s) /\ k \in DOMAIN s /\ u[k] = s[k] /\ u[k] \in Members(s)
           \/ /\ ~(k <= Len(s)) /\ k - Len(s) \in DOMAIN t
              /\ u[k] = t[k - Len(s)] /\ u[k] \in Members(t)
    BY <1>1, <1>2 DEF Members
  <2>3. CASE i <= Len(s) /\ j <= Len(s)
    BY <1>6, <2>2, <2>3 DEF NoRepeat
  <2>4. CASE ~(i <= Len(s)) /\ ~(j <= Len(s))
    <3>1. i - Len(s) = j - Len(s)
      BY <1>6, <2>2, <2>4 DEF NoRepeat
    <3> QED
      BY <1>1, <2>1, <3>1
  <2>5. CASE (i <= Len(s)) # (j <= Len(s))
    BY <1>6, <2>2, <2>5
  <2> QED
    BY <2>3, <2>4, <2>5
<1> QED
  BY <1>3, <1>4, <1>5, <1>6 DEF u

\* The members that are left when the first is taken.
LEMMA TailMembers ==
    ASSUME NEW S, NEW s \in Seq(S), s # <<>>, NoRepeat(s)
    PROVE  /\ Head(s) \in Members(s)
           /\ Members(Tail(s)) = Members(s) \ {Head(s)}
           /\ NoRepeat(Tail(s))
<1> DEFINE u == Tail(s)
<1>1. /\ Len(s) \in Nat \ {0} /\ DOMAIN s = 1 .. Len(s)
      /\ Head(s) = s[1]
  BY EmptySeq, LenProperties
<1>2. /\ DOMAIN u = 1 .. Len(s) - 1
      /\ \A i \in 1 .. Len(s) - 1 : u[i] = s[i + 1]
  BY HeadTailProperties, LenProperties
<1> HIDE DEF u
<1>3. Head(s) \in Members(s)
  BY <1>1 DEF Members
<1>4. Members(u) \subseteq Members(s) \ {Head(s)}
  <2> SUFFICES ASSUME NEW i \in DOMAIN u PROVE u[i] \in Members(s) \ {Head(s)}
    BY DEF Members
  <2>1. i + 1 \in DOMAIN s /\ 1 \in DOMAIN s /\ i + 1 # 1 /\ u[i] = s[i + 1]
    BY <1>1, <1>2
  <2> QED
    BY <1>1, <2>1 DEF Members, NoRepeat
<1>5. Members(s) \ {Head(s)} \subseteq Members(u)
  <2> SUFFICES ASSUME NEW i \in DOMAIN s, s[i] # s[1] PROVE s[i] \in Members(u)
    BY <1>1 DEF Members
  <2>1. i - 1 \in DOMAIN u /\ u[i - 1] = s[i]
    BY <1>1, <1>2
  <2> QED
    BY <2>1 DEF Members
<1>6. NoRepeat(u)
  <2> SUFFICES ASSUME NEW i \in DOMAIN u, NEW j \in DOMAIN u, u[i] = u[j]
               PROVE  i = j
    BY DEF NoRepeat
  <2>1. i + 1 \in DOMAIN s /\ j + 1 \in DOMAIN s /\ s[i + 1] = s[j + 1]
    BY <1>1, <1>2
  <2>2. i + 1 = j + 1
    BY <2>1 DEF NoRepeat
  <2> QED
    BY <1>1, <1>2, <2>2
<1> QED
  BY <1>3, <1>4, <1>5, <1>6 DEF u

\* CachePartition for one family: a free list and buckets.
Partition(list, buckets) ==
    /\ \A e \in Entries :
          e \in Members(list) \/ \E b \in Buckets : e \in Members(buckets[b])
    /\ NoRepeat(list)
    /\ \A b \in Buckets : Members(buckets[b]) \cap Members(list) = {}
    /\ \A b, c \in Buckets : b # c => Members(buckets[b]) \cap Members(buckets[c]) = {}
    /\ \A b \in Buckets : NoRepeat(buckets[b])

\* CachePartition, family by family.
LEMMA PartitionOfFamily == CachePartition <=> \A f \in Families : Partition(free[f], hash[f])
BY DEF CachePartition, Partition, NoRepeat

\* After an initialisation all entries are free.
LEMMA PartitionInit == Partition(FreeList, NoBuckets)
<1>1. Members(FreeList) = Entries /\ NoRepeat(FreeList)
  BY DEF Members, FreeList, NoRepeat
<1>2. \A b \in Buckets : NoBuckets[b] = <<>>
  BY DEF NoBuckets
<1>3. Members(<<>>) = {} /\ NoRepeat(<<>>)
  BY DEF Members, NoRepeat
<1> QED
  BY <1>1, <1>2, <1>3 DEF Partition

\* What a fill does to the sets of entries: e moves from the list to bucket b.
LEMMA PartitionMove ==
    ASSUME NEW list, NEW buckets, NEW list2, NEW buckets2, NEW b \in Buckets, NEW e,
           Partition(list, buckets),
           e \in Members(list),
           Members(list2) = Members(list) \ {e},
           NoRepeat(list2),
           Members(buckets2[b]) = {e} \cup Members(buckets[b]),
           \A c \in Buckets \ {b} : Members(buckets2[c]) = Members(buckets[c]),
           \A c \in Buckets : NoRepeat(buckets2[c])
    PROVE  Partition(list2, buckets2)
<1>1. ASSUME NEW x \in Entries
      PROVE  x \in Members(list2) \/ \E c \in Buckets : x \in Members(buckets2[c])
  BY DEF Partition
<1>2. ASSUME NEW c \in Buckets
      PROVE  Members(buckets2[c]) \cap Members(list2) = {}
  BY DEF Partition
<1>3. ASSUME NEW c \in Buckets, NEW d \in Buckets, c # d
      PROVE  Members(buckets2[c]) \cap Members(buckets2[d]) = {}
  BY <1>3 DEF Partition
<1> QED
  BY <1>1, <1>2, <1>3 DEF Partition

\* Taking the first free entry into a bucket.
LEMMA PartitionFill ==
    ASSUME NEW list \in Seq(Entries), NEW buckets \in [Buckets -> Seq(Entries)],
           Partition(list, buckets), list # <<>>, NEW b \in Buckets
    PROVE  Partition(Tail(list), [buckets EXCEPT ![b] = <<Head(list)>> \o @])
<1> DEFINE e == Head(list)
           new == [buckets EXCEPT ![b] = <<e>> \o @]
<1>1. /\ e \in Entries
      /\ e \in Members(list)
      /\ Members(Tail(list)) = Members(list) \ {e}
      /\ NoRepeat(Tail(list))
  BY TailMembers, HeadTailProperties DEF Partition
<1>2. <<e>> \in Seq(Entries) /\ Members(<<e>>) = {e} /\ NoRepeat(<<e>>)
  BY <1>1 DEF Members, NoRepeat
<1> HIDE DEF e
<1>3. /\ Members(<<e>> \o buckets[b]) = {e} \cup Members(buckets[b])
      /\ NoRepeat(<<e>> \o buckets[b])
  <2>1. buckets[b] \in Seq(Entries) /\ NoRepeat(buckets[b])
    BY DEF Partition
  <2> DEFINE one == <<e>>
  <2>2. one \in Seq(Entries) /\ Members(one) = {e} /\ NoRepeat(one)
    BY <1>2
  <2>3. Members(one) \cap Members(buckets[b]) = {}
    BY <1>1, <2>2 DEF Partition
  <2> HIDE DEF one
  <2>4. /\ Members(one \o buckets[b]) = {e} \cup Members(buckets[b])
        /\ NoRepeat(one \o buckets[b])
    BY <2>1, <2>2, <2>3, ConcatMembers
  <2> QED
    BY <2>4 DEF one
<1>4. \A c \in Buckets : new[c] = IF c = b THEN <<e>> \o buckets[b] ELSE buckets[c]
  OBVIOUS
<1> HIDE DEF new
<1>5. \A c \in Buckets : NoRepeat(new[c])
  BY <1>3, <1>4 DEF Partition
<1>6. Members(new[b]) = {e} \cup Members(buckets[b])
  BY <1>3, <1>4
<1>7. \A c \in Buckets \ {b} : Members(new[c]) = Members(buckets[c])
  BY <1>4
<1>8. Partition(Tail(list), new)
  BY <1>1, <1>5, <1>6, <1>7, PartitionMove
<1> QED
  BY <1>8 DEF e, new

\* Giving the entries of one bucket back.
LEMMA PartitionSweep ==
    ASSUME NEW list \in Seq(Entries), NEW buckets \in [Buckets -> Seq(Entries)],
           Partition(list, buckets), NEW v \in Buckets
    PROVE  Partition(list \o buckets[v], [b \in Buckets |-> IF b = v THEN <<>> ELSE buckets[b]])
<1> DEFINE all == list \o buckets[v]
           new == [b \in Buckets |-> IF b = v THEN <<>> ELSE buckets[b]]
<1>1. /\ Members(all) = Members(list) \cup Members(buckets[v])
      /\ NoRepeat(all)
  BY ConcatMembers DEF Partition
<1>2. Members(<<>>) = {} /\ NoRepeat(<<>>)
  BY DEF Members, NoRepeat
<1>3. new[v] = <<>> /\ \A b \in Buckets \ {v} : new[b] = buckets[b]
  OBVIOUS
<1> HIDE DEF all, new
<1>4. \A b \in Buckets : NoRepeat(new[b])
  BY <1>2, <1>3 DEF Partition
<1>5. Members(new[v]) = {} /\ \A b \in Buckets \ {v} : Members(new[b]) = Members(buckets[b])
  BY <1>2, <1>3
<1>6. ASSUME NEW x \in Entries
      PROVE  x \in Members(all) \/ \E c \in Buckets : x \in Members(new[c])
  BY <1>1, <1>5 DEF Partition
<1>7. ASSUME NEW c \in Buckets
      PROVE  Members(new[c]) \cap Members(all) = {}
  BY <1>1, <1>5 DEF Partition
<1>8. ASSUME NEW c \in Buckets, NEW d \in Buckets, c # d
      PROVE  Members(new[c]) \cap Members(new[d]) = {}
  BY <1>5, <1>8 DEF Partition
<1>9. Partition(all, new)
  BY <1>1, <1>4, <1>6, <1>7, <1>8 DEF Partition
<1> QED
  BY <1>9 DEF all, new

\* Every step keeps the partition: fills, sweeps and reloads change the lists.
LEMMA PartitionStep ==
    ASSUME TypeOK, CachePartition, [Next]_vars
    PROVE  CachePartition'
<1>0. /\ ListsType
      /\ \A f \in Families : Partition(free[f], hash[f])
  BY PartitionOfFamily DEF TypeOK, ListsType
<1> SUFFICES ASSUME NEW g \in Families PROVE Partition(free'[g], hash'[g])
  BY DEF CachePartition, Partition, NoRepeat
<1>1. ASSUME NEW f \in Families, NEW src \in Addr, GetPolFill(f, src)
      PROVE  Partition(free'[g], hash'[g])
  <2> DEFINE b == HashCode[src]
             e == Head(free[f])
  <2>1. /\ free' = [free EXCEPT ![f] = Tail(@)]
        /\ hash' = [hash EXCEPT ![f][b] = <<e>> \o @]
        /\ free[f] # <<>>
    BY <1>1 DEF GetPolFill
  <2>2. b \in Buckets
    BY HashType
  <2>3. CASE g = f
    <3>1. free'[g] = Tail(free[f]) /\ hash'[g] = [hash[f] EXCEPT ![b] = <<e>> \o @]
      BY <1>0, <2>1, <2>3 DEF ListsType
    <3>2. free[f] \in Seq(Entries) /\ hash[f] \in [Buckets -> Seq(Entries)]
      BY <1>0 DEF ListsType
    <3> QED
      <4>1. Partition(free[f], hash[f])
        BY <1>0
      <4>2. Partition(Tail(free[f]), [hash[f] EXCEPT ![b] = <<Head(free[f])>> \o @])
        BY <2>1, <2>2, <3>2, <4>1, PartitionFill
      <4> QED
        BY <3>1, <4>2
  <2>4. CASE g # f
    BY <1>0, <2>1, <2>4 DEF ListsType
  <2> QED
    BY <2>3, <2>4
<1>2. ASSUME NEW file \in PolicyFiles, UpdatePolicy(file)
      PROVE  Partition(free'[g], hash'[g])
  BY <1>2, PartitionInit DEF UpdatePolicy, InitPolicyTable
<1>3. CASE ProcPatrol
  <2>1. CASE g \in patrol_flag /\ Swept(g, ptr[g]) # {}
    <3>1. Victim(g) \in Swept(g, ptr[g]) /\ Victim(g) \in Buckets
      BY <2>1, VictimType
    <3>2. free'[g] = free[g] \o hash[g][Victim(g)]
      BY <1>3, <2>1 DEF ProcPatrol, Victim
    <3>3. hash'[g] = [b \in Buckets |-> IF b = Victim(g) THEN <<>> ELSE hash[g][b]]
      BY <1>3, <2>1, <3>1 DEF ProcPatrol, Victim
    <3>4. free[g] \in Seq(Entries) /\ hash[g] \in [Buckets -> Seq(Entries)]
      BY <1>0 DEF ListsType
    <3> QED
      BY <1>0, <3>1, <3>2, <3>3, <3>4, PartitionSweep
  <2>2. CASE ~(g \in patrol_flag /\ Swept(g, ptr[g]) # {})
    <3>1. free'[g] = free[g]
      BY <1>3, <2>2 DEF ProcPatrol
    <3>2. hash'[g] = hash[g]
      BY <1>0, <1>3, <2>2 DEF ProcPatrol, ListsType
    <3> QED
      BY <1>0, <3>1, <3>2
  <2> QED
    BY <2>1, <2>2
<1>4. ASSUME UNCHANGED <<free, hash>>
      PROVE  Partition(free'[g], hash'[g])
  BY <1>0, <1>4
<1> QED
  BY <1>1, <1>2, <1>3, <1>4, ListsUnchanged

\* Every cache entry is on exactly one list, once, whatever packets, patrols
\* and reloads come: taking an entry, sweeping a bucket and rebuilding the
\* lists at a reload leak none and share none.
THEOREM PartitionKept == Spec => []CachePartition
<1>1. Init => CachePartition
  BY PartitionInit, PartitionOfFamily DEF Init
<1>2. TypeOK /\ CachePartition /\ [Next]_vars => CachePartition'
  BY PartitionStep
<1> QED
  BY TypeCorrect, <1>1, <1>2, PTL DEF Spec

-----------------------------------------------------------------------------
(* What a decision depends on *)

\* A step that counts, resolves or sweeps leaves the policies' patterns and
\* backends alone, and of the backends only those not yet resolved change.
SameDecisions ==
    \A f \in Families :
       /\ DOMAIN pol'[f] = DOMAIN pol[f]
       /\ \A i \in DOMAIN pol[f] : /\ pol'[f][i].addr = pol[f][i].addr
                                   /\ pol'[f][i].mask = pol[f][i].mask
                                   /\ pol'[f][i].svr = pol[f][i].svr
       /\ \A s \in Servers :
             /\ svrs[f][s].status # "SVR_INIT" =>
                   svrs'[f][s].status = svrs[f][s].status /\ svrs'[f][s].mac = svrs[f][s].mac
             /\ svrs[f][s].status # "NONE" => svrs'[f][s].status # "NONE"

\* policy_lookup returns a resolved backend unchanged, an unresolved one resolved.
LEMMA UsableKeeps ==
    ASSUME TablesType, NEW f \in Families, NEW i, pol[f][i] \in Policy,
           NEW svr \in UsableServers(f, i)
    PROVE  LET old == svrs[f][pol[f][i].svr]
           IN  /\ svr.status # "SVR_INIT"
               /\ old.status # "SVR_INIT" => svr = old
               /\ old.status = "SVR_INIT" => svr.status = "SVR_OK"
<1> DEFINE old == svrs[f][pol[f][i].svr]
<1>1. old \in Server
  BY DEF TablesType, Policy
<1>2. CASE old.status # "SVR_INIT"
  BY <1>2 DEF UsableServers
<1>3. CASE old.status = "SVR_INIT"
  <2>1. PICK r \in Resolution : r.when = "in_time" /\ svr = Resolved(old, r)
    BY <1>3 DEF UsableServers
  <2>2. svr.status = "SVR_OK"
    BY <1>1, <2>1 DEF Resolved, Server
  <2> QED
    BY <1>3, <2>2
<1> QED
  BY <1>2, <1>3

\* The steps of the network thread: all but the reload.
NetStep ==
    \/ \E f \in Families, src \in Addr :
          \/ DropAddr(f, src)
          \/ GetPolHit(f, src)
          \/ GetPolNone(f, src)
          \/ GetPolFill(f, src)
          \/ GetPolFix(f, src)
    \/ ProcPatrol

\* No step of the network thread changes what the table decides.
LEMMA DecisionsKept ==
    ASSUME TypeOK, NetStep \/ UNCHANGED vars
    PROVE  SameDecisions
<1>0. TablesType /\ EntriesType /\ ListsType
  BY DEF TypeOK, TablesType, EntriesType, ListsType
<1>1. ASSUME NEW f \in Families, NEW src \in Addr, GetPolHit(f, src)
      PROVE  SameDecisions
  <2> DEFINE c == cache[f][HitEntry(f, src)]
             v == [pol[f][c.pol] EXCEPT !.hit_count = Inc(@)]
             w == [svrs[f][c.dst] EXCEPT !.hit = Inc(@)]
  <2>1. c \in CacheEntry
    BY <1>0, <1>1, HitEntryType DEF EntriesType, GetPolHit
  <2>2. /\ pol'  = [pol EXCEPT ![f][c.pol].hit_count = Inc(@)]
        /\ svrs' = [svrs EXCEPT ![f][c.dst].hit = Inc(@)]
    BY <1>1 DEF GetPolHit, HitEntry
  <2>3. /\ pol'  = [pol EXCEPT ![f] = [pol[f] EXCEPT ![c.pol] = v]]
        /\ svrs' = [svrs EXCEPT ![f] = [svrs[f] EXCEPT ![c.dst] = w]]
    BY <2>2
  <2>4. c.dst \in Servers /\ svrs[f][c.dst] \in Server
    BY <1>0, <2>1 DEF CacheEntry, TablesType
  <2>5. w.status = svrs[f][c.dst].status /\ w.mac = svrs[f][c.dst].mac
    BY <2>4 DEF Server
  <2>6. c.pol \in DOMAIN pol[f] =>
           v.addr = pol[f][c.pol].addr /\ v.mask = pol[f][c.pol].mask /\ v.svr = pol[f][c.pol].svr
    <3>1. c.pol \in DOMAIN pol[f] => pol[f][c.pol] \in Policy
      BY <1>0, ElementOfSeq, LenProperties DEF TablesType
    <3> QED
      BY <3>1 DEF Policy
  <2> HIDE DEF c, v, w
  <2> QED
    BY <1>0, <2>3, <2>4, <2>5, <2>6 DEF SameDecisions, TablesType
<1>2. ASSUME NEW f \in Families, NEW src \in Addr, GetPolNone(f, src)
      PROVE  SameDecisions
  <2>1. pol' = pol
    BY <1>2 DEF GetPolNone
  <2>2. CASE UNCHANGED svrs
    BY <1>0, <2>1, <2>2 DEF SameDecisions
  <2>3. CASE Matches(f, src) # {} /\ ~UNCHANGED svrs
    <3> DEFINE s == pol[f][PolicyLookup(f, src)].svr
    <3>1. s \in Servers
      BY <1>0, <2>3, LookupType DEF Policy
    <3>2. PICK r \in Resolution : svrs' = [svrs EXCEPT ![f][s] = Resolved(@, r)]
      BY <1>2, <2>3 DEF GetPolNone
    <3>3. svrs[f][s].status = "SVR_INIT"
      BY <1>2, <2>3 DEF GetPolNone
    <3>4. svrs[f][s] \in Server
      BY <1>0, <3>1 DEF TablesType
    <3>5. Resolved(svrs[f][s], r).status \in {"SVR_INIT", "SVR_OK"}
      BY <3>3, <3>4 DEF Resolved, Server
    <3> HIDE DEF s
    <3> QED
      BY <1>0, <2>1, <3>1, <3>2, <3>3, <3>5 DEF SameDecisions, TablesType
  <2> QED
    BY <1>2, <2>2, <2>3 DEF GetPolNone
<1>3. ASSUME NEW f \in Families, NEW src \in Addr, Matches(f, src) # {},
             NEW svr \in UsableServers(f, PolicyLookup(f, src)),
             CountMiss(f, PolicyLookup(f, src), svr)
      PROVE  SameDecisions
  <2> DEFINE i == PolicyLookup(f, src)
             s == pol[f][i].svr
             v == [pol[f][i] EXCEPT !.use_count = Inc(@), !.hit_count = Inc(@)]
             w == [svr EXCEPT !.hit = Inc(@)]
  <2>1. pol[f][i] \in Policy /\ svr \in Server
    BY <1>0, <1>3, LookupType, UsableType
  <2>2. /\ pol'  = [pol EXCEPT ![f] = [pol[f] EXCEPT ![i] = v]]
        /\ svrs' = [svrs EXCEPT ![f] = [svrs[f] EXCEPT ![s] = w]]
    BY <1>3 DEF CountMiss
  <2>3. s \in Servers /\ svrs[f][s] \in Server
    BY <1>0, <2>1 DEF Policy, TablesType
  <2>4. v.addr = pol[f][i].addr /\ v.mask = pol[f][i].mask /\ v.svr = pol[f][i].svr
    BY <2>1 DEF Policy
  <2>5. w.status = svr.status /\ w.mac = svr.mac
    BY <2>1 DEF Server
  <2>6. /\ svrs[f][s].status # "SVR_INIT" => svr = svrs[f][s]
        /\ svrs[f][s].status = "SVR_INIT" => svr.status = "SVR_OK"
    BY <1>0, <2>1, UsableKeeps
  <2> HIDE DEF i, s, v, w
  <2> QED
    BY <1>0, <2>2, <2>3, <2>4, <2>5, <2>6 DEF SameDecisions, TablesType
<1>4. ASSUME UNCHANGED <<pol, svrs>>
      PROVE  SameDecisions
  BY <1>4 DEF SameDecisions
<1>5. ASSUME NEW f \in Families, NEW src \in Addr, GetPolFill(f, src) \/ GetPolFix(f, src)
      PROVE  SameDecisions
  BY <1>3, <1>5 DEF GetPolFill, GetPolFix
<1>6. ASSUME ProcPatrol \/ UNCHANGED vars \/ \E f \in Families, src \in Addr : DropAddr(f, src)
      PROVE  SameDecisions
  BY <1>4, <1>6 DEF ProcPatrol, vars, DropAddr
<1> QED
  BY <1>1, <1>2, <1>5, <1>6 DEF NetStep

\* CacheCoherent for the contents c of an entry of bucket b.
Coherent(f, b, c) ==
    /\ HashCode[c.src] = b
    /\ Matches(f, c.src) # {}
    /\ c.pol = Least(Matches(f, c.src))
    /\ c.dst = pol[f][c.pol].svr
    /\ c.mac = svrs[f][c.dst].mac
    /\ c.stat = svrs[f][c.dst].status
    /\ c.stat \in {"SVR_OK", "SVR_DROP"}
    /\ c.op <=> c.stat = "SVR_OK"

\* Every backend that a policy names has an entry in the server table.
BackendsListed ==
    \A f \in Families : \A i \in DOMAIN pol[f] : svrs[f][pol[f][i].svr].status # "NONE"

\* Both in one bucket and of one source: the same entry.
OneSource ==
    \A f \in Families, b \in Buckets : \A e, d \in Members(hash[f][b]) :
       cache[f][e].src = cache[f][d].src => e = d

\* The same policies match.
LEMMA MatchesKept ==
    ASSUME SameDecisions, NEW f \in Families, NEW src
    PROVE  Matches(f, src)' = Matches(f, src)
BY DEF SameDecisions, Matches

\* An entry that agrees with the table agrees with it after the step.
LEMMA CoherentKept ==
    ASSUME TablesType, SameDecisions, NEW f \in Families, NEW b
    PROVE  \A c \in CacheEntry : Coherent(f, b, c) => Coherent(f, b, c)'
<1> SUFFICES ASSUME NEW c \in CacheEntry, Coherent(f, b, c)
             PROVE  Coherent(f, b, c)'
  OBVIOUS
<1>1. Matches(f, c.src)' = Matches(f, c.src)
  BY MatchesKept
<1>2. c.src \in Addr /\ c.dst \in Servers
  BY DEF CacheEntry
<1>3. c.pol \in DOMAIN pol[f]
  <2>1. c.pol \in Matches(f, c.src)
    BY <1>2, LookupType DEF Coherent, PolicyLookup
  <2> QED
    BY <2>1 DEF Matches
<1>4. /\ pol'[f][c.pol].svr = pol[f][c.pol].svr
      /\ svrs'[f][c.dst].status = svrs[f][c.dst].status
      /\ svrs'[f][c.dst].mac = svrs[f][c.dst].mac
  BY <1>2, <1>3 DEF SameDecisions, Coherent
<1> QED
  BY <1>1, <1>4 DEF Coherent

\* The hit counter of an entry is no part of the decision.
LEMMA CoherentHit ==
    \A f, b : \A c \in CacheEntry, n \in Counter :
       Coherent(f, b, c) => Coherent(f, b, [c EXCEPT !.hit = n])
BY DEF Coherent, CacheEntry

\* A load enters every backend that it reads a policy for.
LEMMA CreateListed ==
    ASSUME NEW lines \in Seq(Line), NEW m \in [Servers -> Mac]
    PROVE  \A i \in DOMAIN CreatePolicies(lines) :
              CreateServers(lines, m)[CreatePolicies(lines)[i].svr].status # "NONE"
<1> SUFFICES ASSUME NEW i \in DOMAIN lines
             PROVE  CreateServers(lines, m)[lines[i].svr].status # "NONE"
  BY DEF CreatePolicies
<1> DEFINE s == lines[i].svr
<1>1. s \in Servers
  <2>1. lines[i] \in Line
    BY ElementOfSeq, LenProperties
  <2> QED
    BY <2>1 DEF Line
<1>2. s \in {lines[j].svr : j \in DOMAIN lines}
  OBVIOUS
<1> HIDE DEF s
<1>3. CreateServers(lines, m)[s].status # "NONE"
  <2>1. CASE s = ZeroIP
    BY <1>1, <1>2, <2>1 DEF CreateServers
  <2>2. CASE s # ZeroIP
    BY <1>1, <1>2, <2>2 DEF CreateServers
  <2> QED
    BY <2>1, <2>2
<1> QED
  BY <1>3 DEF s

\* Every step keeps the backends listed.
LEMMA BackendsStep ==
    ASSUME TypeOK, BackendsListed, [Next]_vars
    PROVE  BackendsListed'
<1>1. ASSUME NEW file \in PolicyFiles, UpdatePolicy(file)
      PROVE  BackendsListed'
  <2>1. PICK m \in [Families -> [Servers -> Mac]] :
           /\ pol'  = [f \in Families |-> CreatePolicies(file[f])]
           /\ svrs' = [f \in Families |-> CreateServers(file[f], m[f])]
    BY <1>1 DEF UpdatePolicy
  <2>2. ASSUME NEW f \in Families
        PROVE  file[f] \in Seq(Line)
    BY ConstantAssumption
  <2> QED
    BY <2>1, <2>2, CreateListed DEF BackendsListed
<1>2. ASSUME NetStep \/ UNCHANGED vars
      PROVE  BackendsListed'
  <2>1. SameDecisions
    BY <1>2, DecisionsKept
  <2>2. pol \in [Families -> Seq(Policy)]
    BY DEF TypeOK
  <2>3. ASSUME NEW f \in Families, NEW i \in DOMAIN pol[f]
        PROVE  pol[f][i].svr \in Servers
    <3>1. pol[f][i] \in Policy
      BY <2>2, ElementOfSeq, LenProperties
    <3> QED
      BY <3>1 DEF Policy
  <2> QED
    BY <2>1, <2>3 DEF BackendsListed, SameDecisions
<1> QED
  BY <1>1, <1>2 DEF Next, NetStep

\* What holds of the entries in use of a family, entry by entry.
EntriesCoherent ==
    \A f \in Families, b \in Buckets : \A e \in Members(hash[f][b]) :
       Coherent(f, b, cache[f][e])

\* CacheCoherent, entry by entry.
LEMMA CoherentEntries == CacheCoherent <=> EntriesCoherent
BY DEF CacheCoherent, EntriesCoherent, Coherent

CacheInv == BackendsListed /\ EntriesCoherent /\ OneSource /\ StatTellsUse

\* The entries of the lists.
LEMMA MembersType ==
    ASSUME ListsType, NEW f \in Families
    PROVE  /\ Members(free[f]) \subseteq Entries
           /\ \A b \in Buckets : Members(hash[f][b]) \subseteq Entries
<1>1. \A s \in Seq(Entries) : Members(s) \subseteq Entries
  BY ElementOfSeq, LenProperties DEF Members
<1> QED
  BY <1>1 DEF ListsType

\* A step that changes no entry but its hit counter, and no list.
LEMMA CacheInvCount ==
    ASSUME TypeOK, CacheInv, SameDecisions, BackendsListed', UNCHANGED <<free, hash>>,
           cache' \in [Families -> [Entries -> CacheEntry]],
           \A f \in Families, e \in Entries :
              cache'[f][e] \in {[cache[f][e] EXCEPT !.hit = n] : n \in Counter}
    PROVE  CacheInv'
<1>0. TablesType /\ EntriesType /\ ListsType
  BY DEF TypeOK, TablesType, EntriesType, ListsType
<1>1. ASSUME NEW f \in Families, NEW e \in Entries
      PROVE  /\ cache[f][e] \in CacheEntry
             /\ cache'[f][e] \in CacheEntry
             /\ cache'[f][e].src = cache[f][e].src
             /\ cache'[f][e].stat = cache[f][e].stat
             /\ \A b : Coherent(f, b, cache[f][e]) => Coherent(f, b, cache'[f][e])
  <2>1. cache[f][e] \in CacheEntry
    BY <1>0 DEF EntriesType
  <2>2. PICK n \in Counter : cache'[f][e] = [cache[f][e] EXCEPT !.hit = n]
    OBVIOUS
  <2> QED
    BY <2>1, <2>2, CoherentHit DEF CacheEntry
<1>2. EntriesCoherent'
  <2> SUFFICES ASSUME NEW f \in Families, NEW b \in Buckets, NEW e \in Members(hash[f][b])
               PROVE  Coherent(f, b, cache[f][e])'
    BY DEF EntriesCoherent
  <2>1. e \in Entries
    BY <1>0, MembersType
  <2>2. Coherent(f, b, cache'[f][e])
    BY <1>1, <2>1 DEF CacheInv, EntriesCoherent
  <2> DEFINE c == cache'[f][e]
  <2>3. c \in CacheEntry /\ Coherent(f, b, c)
    BY <1>1, <2>1, <2>2
  <2>4. \A d \in CacheEntry : Coherent(f, b, d) => Coherent(f, b, d)'
    BY <1>0, CoherentKept
  <2> QED
    BY <2>3, <2>4 DEF Coherent
<1>3. OneSource'
  BY <1>0, <1>1, MembersType DEF CacheInv, OneSource
<1>4. StatTellsUse'
  BY <1>1 DEF CacheInv, StatTellsUse
<1> QED
  BY <1>2, <1>3, <1>4 DEF CacheInv

\* What a fill does to the members of the lists: the first free entry moves.
LEMMA FillLists ==
    ASSUME TypeOK, CachePartition, NEW f \in Families, NEW src \in Addr, GetPolFill(f, src)
    PROVE  LET e == Head(free[f])
               b == HashCode[src]
           IN  /\ e \in Entries /\ e \in Members(free[f])
               /\ \A g \in Families :
                     Members(free'[g]) = IF g = f THEN Members(free[g]) \ {e} ELSE Members(free[g])
               /\ \A g \in Families, c \in Buckets :
                     Members(hash'[g][c]) = IF g = f /\ c = b THEN {e} \cup Members(hash[g][c])
                                                              ELSE Members(hash[g][c])
               /\ \A c \in Buckets : e \notin Members(hash[f][c])
<1> DEFINE e == Head(free[f])
           b == HashCode[src]
<1>1. /\ free' = [free EXCEPT ![f] = Tail(@)]
      /\ hash' = [hash EXCEPT ![f][b] = <<e>> \o @]
      /\ free[f] # <<>>
  BY DEF GetPolFill
<1>2. /\ free \in [Families -> Seq(Entries)] /\ hash \in [Families -> [Buckets -> Seq(Entries)]]
      /\ b \in Buckets
  BY HashType DEF TypeOK
<1>3. Partition(free[f], hash[f])
  BY PartitionOfFamily
<1>4. /\ e \in Members(free[f]) /\ e \in Entries
      /\ Members(Tail(free[f])) = Members(free[f]) \ {e}
  BY <1>1, <1>2, <1>3, TailMembers, HeadTailProperties DEF Partition
<1>5. Members(<<e>> \o hash[f][b]) = {e} \cup Members(hash[f][b])
  <2> DEFINE one == <<e>>
  <2>1. one \in Seq(Entries) /\ Members(one) = {e} /\ hash[f][b] \in Seq(Entries)
    BY <1>2, <1>4 DEF Members
  <2> HIDE DEF one
  <2>2. Members(one \o hash[f][b]) = {e} \cup Members(hash[f][b])
    BY <2>1, ConcatMembers
  <2> QED
    BY <2>2 DEF one
<1>6. \A g \in Families :
         Members(free'[g]) = IF g = f THEN Members(free[g]) \ {e} ELSE Members(free[g])
  BY <1>1, <1>2, <1>4
<1> HIDE DEF e, b
<1>7. \A g \in Families, c \in Buckets :
         hash'[g][c] = IF g = f /\ c = b THEN <<e>> \o hash[g][c] ELSE hash[g][c]
  BY <1>1, <1>2
<1>8. \A g \in Families, c \in Buckets :
         Members(hash'[g][c]) = IF g = f /\ c = b THEN {e} \cup Members(hash[g][c])
                                                  ELSE Members(hash[g][c])
  BY <1>5, <1>7
<1>9. \A c \in Buckets : e \notin Members(hash[f][c])
  BY <1>3, <1>4 DEF Partition
<1> QED
  BY <1>4, <1>6, <1>8, <1>9 DEF e, b

\* The entry that a fill makes.
LEMMA FillEntry ==
    ASSUME TypeOK, BackendsListed, NEW f \in Families, NEW src \in Addr, GetPolFill(f, src)
    PROVE  \E new \in CacheEntry :
              /\ cache' = [cache EXCEPT ![f][Head(free[f])] = new]
              /\ new.src = src
              /\ new.stat \in {"SVR_OK", "SVR_DROP"}
              /\ Coherent(f, HashCode[src], new)'
<1> DEFINE i == PolicyLookup(f, src)
<1>1. PICK svr \in UsableServers(f, i) :
         /\ CountMiss(f, i, svr)
         /\ cache' = [cache EXCEPT ![f][Head(free[f])] = Filled(f, src, i, svr, Inc(0))]
  BY DEF GetPolFill
<1> DEFINE new == Filled(f, src, i, svr, Inc(0))
           s == pol[f][i].svr
<1>2. Matches(f, src) # {}
  BY DEF GetPolFill
<1>3. TablesType
  BY DEF TypeOK, TablesType
<1>4. /\ i \in Matches(f, src) /\ i \in Nat /\ i \in DOMAIN pol[f]
      /\ pol[f][i] \in Policy /\ svr \in Server /\ s \in Servers
  BY <1>2, <1>3, LookupType, UsableType DEF Matches, Policy
<1>5. Inc(0) \in Counter
  BY ConstantAssumption, IncType DEF Counter
<1>6. new \in CacheEntry
  BY <1>4, <1>5, FilledType
<1>7. svr.status \in {"SVR_OK", "SVR_DROP"}
  <2>1. svrs[f][s].status # "NONE"
    BY <1>4 DEF BackendsListed
  <2>2. /\ svr.status # "SVR_INIT"
        /\ svrs[f][s].status # "SVR_INIT" => svr = svrs[f][s]
        /\ svrs[f][s].status = "SVR_INIT" => svr.status = "SVR_OK"
    BY <1>3, <1>4, UsableKeeps
  <2>3. svr.status \in Status
    BY <1>4 DEF Server
  <2> QED
    BY <2>1, <2>2, <2>3 DEF Status
<1>8. SameDecisions
  BY DecisionsKept DEF NetStep
<1>9. Matches(f, src)' = Matches(f, src)
  BY <1>8, MatchesKept
<1>10. pol'[f][i].svr = s
  BY <1>4, <1>8 DEF SameDecisions
<1>11. svrs'[f][s].mac = svr.mac /\ svrs'[f][s].status = svr.status
  <2> DEFINE w == [svr EXCEPT !.hit = Inc(@)]
  <2>1. svrs' = [svrs EXCEPT ![f][s] = w]
    BY <1>1 DEF CountMiss
  <2>2. w.mac = svr.mac /\ w.status = svr.status
    BY <1>4 DEF Server
  <2> HIDE DEF w, s
  <2>3. svrs'[f][s] = w
    BY <1>3, <1>4, <2>1 DEF TablesType
  <2> QED
    BY <2>2, <2>3
<1>12. /\ new.src = src /\ new.dst = s /\ new.mac = svr.mac /\ new.stat = svr.status
       /\ new.op = (svr.status # "SVR_DROP") /\ new.pol = i
  BY DEF Filled
<1> HIDE DEF new, s
<1>13. PICK c \in CacheEntry : c = new
  BY <1>6
<1>14. Coherent(f, HashCode[src], c)'
  <2>1. c.op <=> c.stat = "SVR_OK"
    BY <1>7, <1>12, <1>13
  <2>2. i = Least(Matches(f, src))
    BY DEF PolicyLookup
  <2>3. /\ Matches(f, src)' # {} /\ c.pol = Least(Matches(f, src))' /\ c.src = src
    BY <1>2, <1>9, <1>12, <1>13, <2>2 DEF Least
  <2> QED
    BY <1>7, <1>10, <1>11, <1>12, <1>13, <2>1, <2>3 DEF Coherent
<1> QED
  BY <1>1, <1>7, <1>12, <1>13, <1>14 DEF new

\* A fill keeps CacheInv: the new entry is coherent, and the only one of its source.
LEMMA CacheInvFill ==
    ASSUME TypeOK, CachePartition, CacheInv, BackendsListed',
           NEW f \in Families, NEW src \in Addr, GetPolFill(f, src)
    PROVE  CacheInv'
<1> DEFINE e == Head(free[f])
           b == HashCode[src]
<1>0. TablesType /\ EntriesType /\ ListsType
  BY DEF TypeOK, TablesType, EntriesType, ListsType
<1>1. /\ e \in Entries /\ e \in Members(free[f])
      /\ \A g \in Families :
            Members(free'[g]) = IF g = f THEN Members(free[g]) \ {e} ELSE Members(free[g])
      /\ \A g \in Families, c \in Buckets :
            Members(hash'[g][c]) = IF g = f /\ c = b THEN {e} \cup Members(hash[g][c])
                                                     ELSE Members(hash[g][c])
      /\ \A c \in Buckets : e \notin Members(hash[f][c])
  BY FillLists
<1>2. PICK new \in CacheEntry :
         /\ cache' = [cache EXCEPT ![f][e] = new]
         /\ new.src = src
         /\ new.stat \in {"SVR_OK", "SVR_DROP"}
         /\ Coherent(f, b, new)'
  BY FillEntry DEF CacheInv
<1>3. SameDecisions
  BY DecisionsKept DEF NetStep
<1>4. b \in Buckets
  BY HashType
<1>5. \A x \in Members(hash[f][b]) : cache[f][x].src # src
  <2>1. HitsIn(f, src) = {}
    BY DEF GetPolFill
  <2> QED
    BY <2>1 DEF HitsIn, Members
<1> HIDE DEF e, b
<1>6. \A g \in Families, x \in Entries :
         cache'[g][x] = IF g = f /\ x = e THEN new ELSE cache[g][x]
  BY <1>0, <1>1, <1>2 DEF EntriesType
<1>7. \A g \in Families, c \in Buckets : Members(hash[g][c]) \subseteq Entries
  BY <1>0, MembersType
<1>8. \A g \in Families, c \in Buckets : \A x \in Members(hash[g][c]) :
         cache'[g][x] = cache[g][x]
  BY <1>1, <1>6, <1>7
<1>9. EntriesCoherent'
  <2> SUFFICES ASSUME NEW g \in Families, NEW c \in Buckets, NEW x \in Members(hash'[g][c])
               PROVE  Coherent(g, c, cache[g][x])'
    BY DEF EntriesCoherent
  <2>1. CASE g = f /\ c = b /\ x = e
    <3>1. cache'[g][x] = new
      BY <1>1, <1>6, <2>1
    <3> QED
      BY <1>2, <2>1, <3>1 DEF Coherent
  <2>2. CASE x \in Members(hash[g][c])
    <3>1. cache'[g][x] = cache[g][x] /\ cache[g][x] \in CacheEntry
      BY <1>0, <1>7, <1>8, <2>2 DEF EntriesType
    <3>2. Coherent(g, c, cache[g][x])
      BY <2>2 DEF CacheInv, EntriesCoherent
    <3>3. \A d \in CacheEntry : Coherent(g, c, d) => Coherent(g, c, d)'
      BY <1>0, <1>3, CoherentKept
    <3> QED
      BY <3>1, <3>2, <3>3 DEF Coherent
  <2> QED
    BY <1>1, <2>1, <2>2
<1>10. OneSource'
  <2> SUFFICES ASSUME NEW g \in Families, NEW c \in Buckets,
                      NEW x \in Members(hash'[g][c]), NEW y \in Members(hash'[g][c]),
                      cache'[g][x].src = cache'[g][y].src
               PROVE  x = y
    BY DEF OneSource
  <2>1. CASE x \in Members(hash[g][c]) /\ y \in Members(hash[g][c])
    BY <1>8, <2>1 DEF CacheInv, OneSource
  <2>2. CASE g = f /\ c = b /\ (x = e \/ y = e)
    <3>1. cache'[f][e].src = src
      BY <1>1, <1>2, <1>6
    <3>2. \A z \in Members(hash[f][b]) : cache'[f][z].src # src
      BY <1>4, <1>5, <1>8
    <3> QED
      BY <1>1, <2>2, <3>1, <3>2
  <2> QED
    BY <1>1, <2>1, <2>2
<1>11. StatTellsUse'
  <2> SUFFICES ASSUME NEW g \in Families, NEW x \in Entries
               PROVE  cache'[g][x].stat = "SVR_INIT" <=> x \in Members(free'[g])
    BY DEF StatTellsUse
  <2>1. cache[g][x].stat = "SVR_INIT" <=> x \in Members(free[g])
    BY DEF CacheInv, StatTellsUse
  <2>2. CASE g = f /\ x = e
    <3>1. cache'[g][x].stat # "SVR_INIT"
      BY <1>2, <1>6, <2>2
    <3>2. x \notin Members(free'[g])
      BY <1>1, <2>2
    <3> QED
      BY <3>1, <3>2
  <2>3. CASE ~(g = f /\ x = e)
    <3>1. cache'[g][x] = cache[g][x]
      BY <1>6, <2>3
    <3>2. x \in Members(free'[g]) <=> x \in Members(free[g])
      BY <1>1, <2>3
    <3> QED
      BY <2>1, <3>1, <3>2
  <2> QED
    BY <2>2, <2>3
<1> QED
  BY <1>9, <1>10, <1>11 DEF CacheInv

\* A patrol keeps CacheInv: only the entries of the bucket it empties change.
LEMMA CacheInvPatrol ==
    ASSUME TypeOK, CachePartition, CacheInv, BackendsListed', ProcPatrol
    PROVE  CacheInv'
<1>0. TablesType /\ EntriesType /\ ListsType
  BY DEF TypeOK, TablesType, EntriesType, ListsType
<1> DEFINE Sweeps(g) == g \in patrol_flag /\ Swept(g, ptr[g]) # {}
<1>1. ASSUME NEW g \in Families
      PROVE  /\ ~Sweeps(g) => /\ free'[g] = free[g]
                              /\ \A c \in Buckets : hash'[g][c] = hash[g][c]
                              /\ \A x \in Entries : cache'[g][x] = cache[g][x]
             /\ Sweeps(g) =>
                   /\ Victim(g) \in Buckets
                   /\ Members(free'[g]) = Members(free[g]) \cup Members(hash[g][Victim(g)])
                   /\ \A c \in Buckets :
                         Members(hash'[g][c]) = IF c = Victim(g) THEN {} ELSE Members(hash[g][c])
                   /\ \A x \in Entries :
                         cache'[g][x] = IF x \in Members(hash[g][Victim(g)])
                                        THEN FreePolCache(cache[g][x]) ELSE cache[g][x]
  <2>1. CASE ~Sweeps(g)
    BY <2>1 DEF ProcPatrol
  <2>2. CASE Sweeps(g)
    <3>1. Victim(g) \in Swept(g, ptr[g]) /\ Victim(g) \in Buckets
      BY <2>2, VictimType
    <3>2. free'[g] = free[g] \o hash[g][Victim(g)]
      BY <2>2 DEF ProcPatrol, Victim
    <3>3. \A c \in Buckets : hash'[g][c] = IF c = Victim(g) THEN <<>> ELSE hash[g][c]
      BY <2>2, <3>1 DEF ProcPatrol, Victim
    <3>4. \A x \in Entries :
             cache'[g][x] = IF x \in Members(hash[g][Victim(g)])
                            THEN FreePolCache(cache[g][x]) ELSE cache[g][x]
      BY <2>2 DEF ProcPatrol, Victim
    <3>5. Members(<<>>) = {}
      BY DEF Members
    <3>6. free[g] \in Seq(Entries) /\ hash[g][Victim(g)] \in Seq(Entries)
      BY <1>0, <3>1 DEF ListsType
    <3>7. Members(free'[g]) = Members(free[g]) \cup Members(hash[g][Victim(g)])
      BY <3>2, <3>6, ConcatMembers
    <3>8. \A c \in Buckets :
             Members(hash'[g][c]) = IF c = Victim(g) THEN {} ELSE Members(hash[g][c])
      BY <3>3, <3>5
    <3> QED
      BY <2>2, <3>1, <3>4, <3>7, <3>8
  <2> QED
    BY <2>1, <2>2
<1> HIDE DEF Sweeps
<1>2. \A g \in Families, c \in Buckets : Members(hash[g][c]) \subseteq Entries
  BY <1>0, MembersType
<1>3. ASSUME NEW g \in Families, NEW c \in Buckets, NEW x \in Members(hash'[g][c])
      PROVE  x \in Members(hash[g][c]) /\ cache'[g][x] = cache[g][x]
  <2>1. CASE ~Sweeps(g)
    BY <1>1, <1>2, <1>3, <2>1
  <2>2. CASE Sweeps(g)
    <3>1. c # Victim(g) /\ x \in Members(hash[g][c]) /\ Victim(g) \in Buckets
      BY <1>1, <1>3, <2>2
    <3>2. x \notin Members(hash[g][Victim(g)])
      BY <3>1 DEF CachePartition
    <3> QED
      BY <1>1, <1>2, <2>2, <3>1, <3>2
  <2> QED
    BY <2>1, <2>2
<1>4. EntriesCoherent'
  <2> SUFFICES ASSUME NEW g \in Families, NEW c \in Buckets, NEW x \in Members(hash'[g][c])
               PROVE  Coherent(g, c, cache[g][x])'
    BY DEF EntriesCoherent
  <2>1. cache'[g][x] = cache[g][x] /\ x \in Members(hash[g][c])
    BY <1>3
  <2>2. pol' = pol /\ svrs' = svrs
    BY DEF ProcPatrol
  <2>3. Coherent(g, c, cache[g][x])
    BY <2>1 DEF CacheInv, EntriesCoherent
  <2> QED
    BY <2>1, <2>2, <2>3 DEF Coherent, Matches
<1>5. OneSource'
  BY <1>3 DEF CacheInv, OneSource
<1>6. StatTellsUse'
  <2> SUFFICES ASSUME NEW g \in Families, NEW x \in Entries
               PROVE  cache'[g][x].stat = "SVR_INIT" <=> x \in Members(free'[g])
    BY DEF StatTellsUse
  <2>1. cache[g][x].stat = "SVR_INIT" <=> x \in Members(free[g])
    BY DEF CacheInv, StatTellsUse
  <2>2. FreePolCache(cache[g][x]).stat = "SVR_INIT"
    <3>1. cache[g][x] \in CacheEntry
      BY <1>0 DEF EntriesType
    <3> QED
      BY <3>1 DEF FreePolCache, CacheEntry
  <2>3. CASE ~Sweeps(g)
    BY <1>1, <2>1, <2>3
  <2>4. CASE Sweeps(g) /\ x \in Members(hash[g][Victim(g)])
    <3>1. cache'[g][x] = FreePolCache(cache[g][x]) /\ x \in Members(free'[g])
      BY <1>1, <2>4
    <3> QED
      BY <2>2, <3>1
  <2>5. CASE Sweeps(g) /\ x \notin Members(hash[g][Victim(g)])
    <3>1. cache'[g][x] = cache[g][x]
      BY <1>1, <2>5
    <3>2. x \in Members(free'[g]) <=> x \in Members(free[g])
      BY <1>1, <2>5
    <3> QED
      BY <2>1, <3>1, <3>2
  <2> QED
    BY <2>3, <2>4, <2>5
<1> QED
  BY <1>4, <1>5, <1>6 DEF CacheInv

\* A table that nothing is cached in.
LEMMA CacheInvEmpty ==
    ASSUME BackendsListed,
           free = [f \in Families |-> FreeList],
           hash = [f \in Families |-> NoBuckets],
           \A f \in Families, e \in Entries : cache[f][e].stat = "SVR_INIT"
    PROVE  CacheInv
<1>1. \A f \in Families, b \in Buckets : Members(hash[f][b]) = {}
  BY DEF NoBuckets, Members
<1>2. \A f \in Families : Members(free[f]) = Entries
  BY DEF FreeList, Members
<1> QED
  BY <1>1, <1>2 DEF CacheInv, EntriesCoherent, OneSource, StatTellsUse

\* The same of the state after a reload.
LEMMA CacheInvEmptyNext ==
    ASSUME BackendsListed',
           free' = [f \in Families |-> FreeList],
           hash' = [f \in Families |-> NoBuckets],
           \A f \in Families, e \in Entries : cache'[f][e].stat = "SVR_INIT"
    PROVE  CacheInv'
<1>1. \A f \in Families, b \in Buckets : Members(hash'[f][b]) = {}
  BY DEF NoBuckets, Members
<1>2. \A f \in Families : Members(free'[f]) = Entries
  BY DEF FreeList, Members
<1> QED
  BY <1>1, <1>2 DEF CacheInv, EntriesCoherent, OneSource, StatTellsUse

\* Nothing is cached at first.
LEMMA CacheInvInit == Init => CacheInv
<1> SUFFICES ASSUME Init PROVE CacheInv
  OBVIOUS
<1>1. BackendsListed
  <2>1. PICK file \in PolicyFiles, m \in [Families -> [Servers -> Mac]] :
           /\ pol  = [f \in Families |-> CreatePolicies(file[f])]
           /\ svrs = [f \in Families |-> CreateServers(file[f], m[f])]
    BY DEF Init
  <2>2. ASSUME NEW f \in Families
        PROVE  file[f] \in Seq(Line)
    BY ConstantAssumption
  <2> QED
    BY <2>1, <2>2, CreateListed DEF BackendsListed
<1>2. \A f \in Families, e \in Entries : cache[f][e].stat = "SVR_INIT"
  BY DEF Init, Blank
<1> QED
  BY <1>1, <1>2, CacheInvEmpty DEF Init

\* Every step keeps CacheInv.
LEMMA CacheInvStep ==
    ASSUME TypeOK, CachePartition, CacheInv, [Next]_vars
    PROVE  CacheInv'
<1>0. TablesType /\ EntriesType /\ ListsType
  BY DEF TypeOK, TablesType, EntriesType, ListsType
<1>1. BackendsListed'
  BY BackendsStep DEF CacheInv
<1>2. EntriesType'
  BY EntriesStep
<1>3. ASSUME NEW f \in Families, NEW e \in Entries
      PROVE  /\ cache[f][e] \in CacheEntry
             /\ cache[f][e] = [cache[f][e] EXCEPT !.hit = cache[f][e].hit]
             /\ cache[f][e].hit \in Counter /\ Inc(cache[f][e].hit) \in Counter
  <2>1. cache[f][e] \in CacheEntry
    BY <1>0 DEF EntriesType
  <2> QED
    BY <2>1, IncType DEF CacheEntry
<1>4. ASSUME NEW f \in Families, NEW src \in Addr, GetPolHit(f, src)
      PROVE  CacheInv'
  <2> DEFINE h == HitEntry(f, src)
  <2>1. h \in Entries
    BY <1>0, <1>4, HitEntryType DEF GetPolHit
  <2>2. /\ cache' = [cache EXCEPT ![f][h].hit = Inc(@)]
        /\ UNCHANGED <<free, hash>>
    BY <1>4 DEF GetPolHit, HitEntry
  <2> DEFINE new == [cache[f][h] EXCEPT !.hit = Inc(cache[f][h].hit)]
  <2>3. cache' = [cache EXCEPT ![f][h] = new]
    BY <2>2
  <2> HIDE DEF h
  <2>4. ASSUME NEW g \in Families, NEW e \in Entries
        PROVE  cache'[g][e] = IF g = f /\ e = h THEN new ELSE cache[g][e]
    BY <1>0, <2>1, <2>3 DEF EntriesType
  <2>5. ASSUME NEW g \in Families, NEW e \in Entries
        PROVE  cache'[g][e] \in {[cache[g][e] EXCEPT !.hit = n] : n \in Counter}
    <3>1. CASE g = f /\ e = h
      BY <1>3, <2>4, <3>1
    <3>2. CASE ~(g = f /\ e = h)
      <4>1. cache'[g][e] = cache[g][e]
        BY <2>4, <3>2
      <4> QED
        BY <1>3, <4>1
    <3> QED
      BY <3>1, <3>2
  <2>6. SameDecisions
    BY <1>4, DecisionsKept DEF NetStep
  <2> QED
    BY <1>1, <1>2, <2>2, <2>5, <2>6, CacheInvCount DEF EntriesType
<1>5. ASSUME UNCHANGED <<cache, free, hash>>, NetStep \/ UNCHANGED vars
      PROVE  CacheInv'
  <2>1. ASSUME NEW g \in Families, NEW e \in Entries
        PROVE  cache'[g][e] \in {[cache[g][e] EXCEPT !.hit = n] : n \in Counter}
    BY <1>3, <1>5
  <2>2. SameDecisions
    BY <1>5, DecisionsKept
  <2> QED
    BY <1>1, <1>2, <1>5, <2>1, <2>2, CacheInvCount DEF EntriesType
<1>6. ASSUME NEW f \in Families, NEW src \in Addr, GetPolFill(f, src)
      PROVE  CacheInv'
  BY <1>1, <1>6, CacheInvFill
<1>7. CASE ProcPatrol
  BY <1>1, <1>7, CacheInvPatrol
<1>8. ASSUME NEW file \in PolicyFiles, UpdatePolicy(file)
      PROVE  CacheInv'
  <2>1. /\ free' = [f \in Families |-> FreeList]
        /\ hash' = [f \in Families |-> NoBuckets]
        /\ cache' = [f \in Families |->
                        [e \in Entries |-> [cache[f][e] EXCEPT !.stat = "SVR_INIT"]]]
    BY <1>8 DEF UpdatePolicy, InitPolicyTable
  <2>2. ASSUME NEW f \in Families, NEW e \in Entries
        PROVE  cache'[f][e].stat = "SVR_INIT"
    BY <1>3, <2>1 DEF CacheEntry
  <2>3. FreeList' = FreeList /\ NoBuckets' = NoBuckets
    BY DEF FreeList, NoBuckets
  <2> QED
    BY <1>1, <2>1, <2>2, <2>3, CacheInvEmptyNext
<1>9. ASSUME NEW f \in Families, NEW src \in Addr,
             DropAddr(f, src) \/ GetPolNone(f, src) \/ GetPolFix(f, src)
      PROVE  CacheInv'
  <2>1. UNCHANGED <<cache, free, hash>>
    <3>1. CASE DropAddr(f, src) \/ GetPolNone(f, src)
      BY <3>1 DEF DropAddr, GetPolNone
    <3>2. CASE GetPolFix(f, src)
      BY <3>2, Zenon DEF GetPolFix
    <3> QED
      BY <1>9, <3>1, <3>2
  <2> QED
    BY <1>5, <1>9, <2>1 DEF NetStep
<1>10. CASE UNCHANGED vars
  BY <1>5, <1>10 DEF vars
<1> QED
  BY <1>4, <1>6, <1>7, <1>8, <1>9, <1>10 DEF Next

\* The cache never disagrees with the table: its invariant is inductive with
\* the types and the partition of the entries.
THEOREM CacheInvariant == Spec => []CacheInv
<1>1. TypeOK /\ CachePartition /\ CacheInv /\ [Next]_vars => CacheInv'
  BY CacheInvStep
<1> QED
  BY TypeCorrect, PartitionKept, CacheInvInit, <1>1, PTL DEF Spec

\* A cached decision is the decision a fresh lookup would take now, whatever
\* was cached, swept, resolved or reloaded before.
THEOREM CachedAsLookedUp == Spec => []CacheCoherent
<1>1. CacheInv => CacheCoherent
  BY CoherentEntries DEF CacheInv
<1> QED
  BY CacheInvariant, <1>1, PTL

\* A client has one cache entry: get_pol never caches a source that its bucket
\* already holds.
THEOREM OneEntryEach == Spec => []OneEntryPerSource
<1>1. TypeOK /\ CachePartition /\ CacheInv => OneEntryPerSource
  BY DEF CachePartition, CacheInv, OneSource, OneEntryPerSource, Members
<1> QED
  BY TypeCorrect, PartitionKept, CacheInvariant, <1>1, PTL

\* The dump of the cache takes lb_stat = 0 for "not in use", and it is.
THEOREM StatShowsUse == Spec => []StatTellsUse
<1>1. CacheInv => StatTellsUse
  BY DEF CacheInv
<1> QED
  BY CacheInvariant, <1>1, PTL

-----------------------------------------------------------------------------
(* The statistics *)

\* The sum of two counter values, less than twice the modulus.
LEMMA ModSum ==
    ASSUME NEW b \in Nat \ {0}, NEW a \in 0 .. 2 * b - 1
    PROVE  a % b = IF a < b THEN a ELSE a - b
<1>1. CASE a < b
  BY <1>1
<1>2. CASE a >= b
  BY <1>2
<1> QED
  BY <1>1, <1>2

\* Counting and adding up commute.
LEMMA IncSum ==
    ASSUME NEW a \in Counter, NEW c \in Counter
    PROVE  /\ (Inc(a) + c) % CounterMod = Inc((a + c) % CounterMod)
           /\ (a + Inc(c)) % CounterMod = Inc((a + c) % CounterMod)
<1>1. /\ CounterMod \in Nat \ {0} /\ Counter = 0 .. CounterMod - 1
  BY ConstantAssumption DEF Counter
<1> DEFINE M == CounterMod
           Sum(x) == IF x < M THEN x ELSE x - M
<1>2. \A x \in 0 .. 2 * M - 1 : x % M = Sum(x)
  BY <1>1, ModSum
<1>3. Inc(a) = Sum(a + 1) /\ Inc(c) = Sum(c + 1) /\ (a + c) % M = Sum(a + c)
  <2>1. a + 1 \in 0 .. 2 * M - 1 /\ c + 1 \in 0 .. 2 * M - 1 /\ a + c \in 0 .. 2 * M - 1
    BY <1>1
  <2> QED
    BY <1>2, <2>1 DEF Inc
<1>4. M \in Nat \ {0} /\ a \in 0 .. M - 1 /\ c \in 0 .. M - 1
  BY <1>1
<1>5. \A x, y \in 0 .. M - 1 : Sum(x + y) \in 0 .. M - 1 /\ Sum(x + 1) \in 0 .. M - 1
                                /\ x + y \in 0 .. 2 * M - 1 /\ x + 1 \in 0 .. 2 * M - 1
  BY <1>4
<1> HIDE DEF M
<1>6. \A x \in 0 .. M - 1 : Inc(x) = (x + 1) % M
  BY DEF Inc, M
<1>7. (a + c) % M \in 0 .. M - 1 /\ Inc(a) \in 0 .. M - 1 /\ Inc(c) \in 0 .. M - 1
  BY <1>3, <1>4, <1>5
<1>8. Inc((a + c) % M) = Sum(Sum(a + c) + 1)
  BY <1>2, <1>3, <1>5, <1>6, <1>7
<1>9. (Inc(a) + c) % M = Sum(Sum(a + 1) + c) /\ (a + Inc(c)) % M = Sum(a + Sum(c + 1))
  <2>1. Inc(a) + c \in 0 .. 2 * M - 1 /\ a + Inc(c) \in 0 .. 2 * M - 1
    BY <1>4, <1>5, <1>7
  <2>2. (Inc(a) + c) % M = Sum(Inc(a) + c) /\ (a + Inc(c)) % M = Sum(a + Inc(c))
    BY <1>2, <2>1
  <2> QED
    BY <1>3, <2>2
<1>10. Sum(Sum(a + 1) + c) = Sum(Sum(a + c) + 1) /\ Sum(a + Sum(c + 1)) = Sum(Sum(a + c) + 1)
  BY <1>4
<1> QED
  BY <1>8, <1>9, <1>10 DEF M

\* HitsAgree for one list of policies and one counter of a server.
Agrees(policies, s, n) ==
    \E t \in [0 .. Len(policies) -> Counter] :
       AddsUp(t, policies, s) /\ t[Len(policies)] = n

\* A list that has counted nothing.
LEMMA AgreesZero ==
    ASSUME NEW p \in Seq(Policy), NEW s, \A i \in DOMAIN p : p[i].hit_count = 0
    PROVE  Agrees(p, s, 0)
<1> DEFINE t == [i \in 0 .. Len(p) |-> 0]
<1>1. Len(p) \in Nat /\ DOMAIN p = 1 .. Len(p) /\ 0 \in Counter /\ (0 + 0) % CounterMod = 0
  BY LenProperties, ConstantAssumption DEF Counter
<1>2. t \in [0 .. Len(p) -> Counter]
  BY <1>1
<1>3. \A i \in 1 .. Len(p) : t[i] = 0 /\ t[i - 1] = 0 /\ t[0] = 0 /\ t[Len(p)] = 0
  BY <1>1
<1>4. t[0] = 0 /\ t[Len(p)] = 0
  BY <1>1
<1> HIDE DEF t
<1>5. AddsUp(t, p, s)
  BY <1>1, <1>3, <1>4 DEF AddsUp
<1> QED
  BY <1>2, <1>4, <1>5 DEF Agrees

\* A policy and its server count the same packet.
LEMMA AgreesCount ==
    ASSUME NEW p \in Seq(Policy), NEW k \in DOMAIN p, NEW v \in Policy, NEW s,
           NEW n \in Counter, Agrees(p, s, n),
           v.svr = p[k].svr, v.hit_count = Inc(p[k].hit_count)
    PROVE  Agrees([p EXCEPT ![k] = v], s, IF s = p[k].svr THEN Inc(n) ELSE n)
<1> DEFINE q == [p EXCEPT ![k] = v]
<1>1. PICK t \in [0 .. Len(p) -> Counter] : AddsUp(t, p, s) /\ t[Len(p)] = n
  BY DEF Agrees
<1>2. /\ Len(p) \in Nat /\ DOMAIN p = 1 .. Len(p)
      /\ q \in Seq(Policy) /\ Len(q) = Len(p) /\ DOMAIN q = DOMAIN p
      /\ q[k] = v /\ \A i \in DOMAIN p : i # k => q[i] = p[i]
  BY LenProperties, SeqUpdate
<1>3. \A i \in 1 .. Len(p) : p[i].hit_count \in Counter
  <2>1. \A e \in Policy : e.hit_count \in Counter
    BY DEF Policy
  <2> QED
    BY <1>2, <2>1, ElementOfSeq
<1>4. \A i \in 1 .. Len(p) : q[i].svr = p[i].svr
  BY <1>2
<1>5. \A i \in 1 .. Len(p) : i # k => q[i].hit_count = p[i].hit_count
  BY <1>2
<1>6. q[k].hit_count = Inc(p[k].hit_count)
  BY <1>2
<1> HIDE DEF q
<1>7. CASE s # p[k].svr
  <2>1. AddsUp(t, q, s)
    BY <1>1, <1>2, <1>4, <1>5, <1>7 DEF AddsUp
  <2> QED
    BY <1>1, <1>2, <1>7, <2>1 DEF Agrees, q
<1>8. CASE s = p[k].svr
  <2> DEFINE u == [i \in 0 .. Len(p) |-> IF i >= k THEN Inc(t[i]) ELSE t[i]]
  <2>1. u \in [0 .. Len(p) -> Counter]
    BY <1>1, IncType
  <2>2. u[0] = 0 /\ u[Len(p)] = Inc(n)
    BY <1>1, <1>2 DEF AddsUp
  <2>3. ASSUME NEW i \in 1 .. Len(p)
        PROVE  u[i] = IF q[i].svr = s THEN (u[i - 1] + q[i].hit_count) % CounterMod ELSE u[i - 1]
    <3>1. /\ i - 1 \in 0 .. Len(p) /\ i \in 0 .. Len(p)
          /\ t[i] \in Counter /\ t[i - 1] \in Counter
          /\ t[i] = IF p[i].svr = s THEN (t[i - 1] + p[i].hit_count) % CounterMod ELSE t[i - 1]
      BY <1>1, <1>2 DEF AddsUp
    <3>2. u[i] = (IF i >= k THEN Inc(t[i]) ELSE t[i])
          /\ u[i - 1] = (IF i - 1 >= k THEN Inc(t[i - 1]) ELSE t[i - 1])
      BY <3>1
    <3> HIDE DEF u
    <3>3. CASE i < k
      BY <1>2, <1>4, <1>5, <3>1, <3>2, <3>3
    <3>4. CASE i = k
      <4>1. u[i] = Inc(t[i]) /\ u[i - 1] = t[i - 1]
        BY <1>2, <3>2, <3>4
      <4>2. Inc((t[i - 1] + p[i].hit_count) % CounterMod)
               = (t[i - 1] + Inc(p[i].hit_count)) % CounterMod
        BY <1>3, <3>1, IncSum
      <4> QED
        BY <1>4, <1>6, <1>8, <3>1, <3>4, <4>1, <4>2
    <3>5. CASE i > k
      <4>1. u[i] = Inc(t[i]) /\ u[i - 1] = Inc(t[i - 1])
        BY <1>2, <3>2, <3>5
      <4>2. Inc((t[i - 1] + p[i].hit_count) % CounterMod)
               = (Inc(t[i - 1]) + p[i].hit_count) % CounterMod
        BY <1>3, <3>1, IncSum
      <4>3. q[i].hit_count = p[i].hit_count
        BY <1>2, <1>5, <3>5
      <4> QED
        BY <1>4, <3>1, <4>1, <4>2, <4>3
    <3> QED
      BY <1>2, <3>3, <3>4, <3>5
  <2> HIDE DEF u
  <2>4. AddsUp(u, q, s)
    BY <1>2, <2>2, <2>3 DEF AddsUp
  <2> QED
    BY <1>2, <1>8, <2>1, <2>2, <2>4 DEF Agrees, q
<1> QED
  BY <1>7, <1>8

\* Of a family, by a step that counts for the server what it counts for policy
\* k, and for no other.
LEMMA HitsCount ==
    ASSUME TypeOK, HitsAgree, NEW f \in Families, NEW k \in DOMAIN pol[f], NEW v \in Policy,
           NEW w \in Server,
           v.svr = pol[f][k].svr, v.hit_count = Inc(pol[f][k].hit_count),
           w.hit = Inc(svrs[f][v.svr].hit),
           pol'  = [pol EXCEPT ![f] = [pol[f] EXCEPT ![k] = v]],
           svrs' = [svrs EXCEPT ![f] = [svrs[f] EXCEPT ![v.svr] = w]]
    PROVE  HitsAgree'
<1>1. /\ pol \in [Families -> Seq(Policy)] /\ svrs \in [Families -> [Servers -> Server]]
      /\ v.svr \in Servers
  BY DEF TypeOK, Policy
<1>2. ASSUME NEW g \in Families, NEW s \in Servers
      PROVE  Agrees(pol'[g], s, svrs'[g][s].hit)
  <2>1. Agrees(pol[g], s, svrs[g][s].hit)
    BY DEF HitsAgree, Agrees
  <2>2. CASE g # f
    BY <1>1, <2>1, <2>2
  <2>3. CASE g = f
    <3>1. pol'[g] = [pol[f] EXCEPT ![k] = v]
      BY <1>1, <2>3
    <3>2. svrs'[g][s].hit = IF s = v.svr THEN Inc(svrs[f][s].hit) ELSE svrs[f][s].hit
      BY <1>1, <2>3
    <3>3. svrs[f][s].hit \in Counter
      BY <1>1 DEF Server
    <3>4. Agrees([pol[f] EXCEPT ![k] = v], s,
                 IF s = pol[f][k].svr THEN Inc(svrs[f][s].hit) ELSE svrs[f][s].hit)
      BY <1>1, <2>1, <2>3, <3>3, AgreesCount
    <3> QED
      BY <3>1, <3>2, <3>4
  <2> QED
    BY <2>2, <2>3
<1>3. ASSUME NEW g \in Families, NEW s \in Servers
      PROVE  \E t \in [0 .. Len(pol'[g]) -> Counter'] :
                AddsUp(t, pol'[g], s) /\ t[Len(pol'[g])] = svrs'[g][s].hit
  BY <1>2 DEF Agrees, Counter
<1> QED
  BY <1>3 DEF HitsAgree, AddsUp

\* A step that counts nothing.
LEMMA HitsSame ==
    ASSUME HitsAgree, UNCHANGED pol,
           \A f \in Families, s \in Servers : svrs'[f][s].hit = svrs[f][s].hit
    PROVE  HitsAgree'
  BY DEF HitsAgree, AddsUp, Counter

\* A load starts every counter at zero.
LEMMA HitsLoaded ==
    ASSUME NEW file \in PolicyFiles, NEW m \in [Families -> [Servers -> Mac]]
    PROVE  \A f \in Families, s \in Servers :
              Agrees(CreatePolicies(file[f]), s, CreateServers(file[f], m[f])[s].hit)
<1> SUFFICES ASSUME NEW f \in Families, NEW s \in Servers
             PROVE  Agrees(CreatePolicies(file[f]), s, CreateServers(file[f], m[f])[s].hit)
  OBVIOUS
<1>1. file[f] \in Seq(Line)
  BY ConstantAssumption
<1>2. CreatePolicies(file[f]) \in Seq(Policy)
  BY <1>1, CreatePoliciesType
<1>3. \A i \in DOMAIN CreatePolicies(file[f]) : CreatePolicies(file[f])[i].hit_count = 0
  BY DEF CreatePolicies
<1>4. CreateServers(file[f], m[f])[s].hit = 0
  BY DEF CreateServers
<1> QED
  BY <1>2, <1>3, <1>4, AgreesZero

LEMMA HitsInit == Init => HitsAgree
<1> SUFFICES ASSUME Init PROVE HitsAgree
  OBVIOUS
<1>1. PICK file \in PolicyFiles, m \in [Families -> [Servers -> Mac]] :
         /\ pol  = [f \in Families |-> CreatePolicies(file[f])]
         /\ svrs = [f \in Families |-> CreateServers(file[f], m[f])]
  BY DEF Init
<1>2. ASSUME NEW f \in Families, NEW s \in Servers
      PROVE  Agrees(pol[f], s, svrs[f][s].hit)
  BY <1>1, HitsLoaded
<1> QED
  BY <1>2 DEF HitsAgree, Agrees

\* Every step keeps the statistics: a hit counts for the policy and the backend
\* of the cache entry, which are those of the table.
LEMMA HitsStep ==
    ASSUME TypeOK, CachePartition, CacheInv, HitsAgree, [Next]_vars
    PROVE  HitsAgree'
<1>0. TablesType /\ EntriesType /\ ListsType
  BY DEF TypeOK, TablesType, EntriesType, ListsType
<1>1. ASSUME NEW f \in Families, NEW src \in Addr, GetPolHit(f, src)
      PROVE  HitsAgree'
  <2> DEFINE h == HitEntry(f, src)
             c == cache[f][h]
             v == [pol[f][c.pol] EXCEPT !.hit_count = Inc(@)]
             w == [svrs[f][c.dst] EXCEPT !.hit = Inc(@)]
  <2>1. h \in Members(hash[f][HashCode[src]]) /\ HashCode[src] \in Buckets
    BY <1>0, <1>1, HitEntryType, HashType DEF GetPolHit, HitEntry, HitsIn, Members
  <2>2. c \in CacheEntry
    BY <1>0, <1>1, HitEntryType DEF EntriesType, GetPolHit
  <2>3. c.pol \in DOMAIN pol[f] /\ pol[f][c.pol] \in Policy /\ c.dst = pol[f][c.pol].svr
    <3>1. Coherent(f, HashCode[src], c)
      BY <2>1 DEF CacheInv, EntriesCoherent
    <3>2. c.src \in Addr
      BY <2>2 DEF CacheEntry
    <3>3. c.pol \in Matches(f, c.src) /\ pol[f][c.pol] \in Policy
      BY <1>0, <3>1, <3>2, LookupType DEF Coherent, PolicyLookup
    <3> QED
      BY <3>1, <3>3 DEF Coherent, Matches
  <2>4. c.dst \in Servers /\ svrs[f][c.dst] \in Server
    BY <1>0, <2>2 DEF CacheEntry, TablesType
  <2>5. /\ v \in Policy /\ v.svr = pol[f][c.pol].svr
        /\ v.hit_count = Inc(pol[f][c.pol].hit_count)
    BY <2>3, IncType DEF Policy
  <2>6. w \in Server /\ w.hit = Inc(svrs[f][c.dst].hit)
    BY <2>4, IncType DEF Server
  <2>7. /\ pol'  = [pol EXCEPT ![f] = [pol[f] EXCEPT ![c.pol] = v]]
        /\ svrs' = [svrs EXCEPT ![f] = [svrs[f] EXCEPT ![c.dst] = w]]
    BY <1>1 DEF GetPolHit, HitEntry
  <2> HIDE DEF c, v, w, h
  <2> QED
    BY <2>3, <2>5, <2>6, <2>7, HitsCount
<1>2. ASSUME NEW f \in Families, NEW src \in Addr, Matches(f, src) # {},
             NEW svr \in UsableServers(f, PolicyLookup(f, src)),
             CountMiss(f, PolicyLookup(f, src), svr)
      PROVE  HitsAgree'
  <2> DEFINE i == PolicyLookup(f, src)
             s == pol[f][i].svr
             v == [pol[f][i] EXCEPT !.use_count = Inc(@), !.hit_count = Inc(@)]
             w == [svr EXCEPT !.hit = Inc(@)]
  <2>1. i \in DOMAIN pol[f] /\ pol[f][i] \in Policy /\ svr \in Server
    BY <1>0, <1>2, LookupType, UsableType DEF Matches
  <2>2. /\ pol'  = [pol EXCEPT ![f] = [pol[f] EXCEPT ![i] = v]]
        /\ svrs' = [svrs EXCEPT ![f] = [svrs[f] EXCEPT ![s] = w]]
    BY <1>2 DEF CountMiss
  <2>3. s \in Servers /\ svrs[f][s] \in Server
    BY <1>0, <2>1 DEF Policy, TablesType
  <2>4. v \in Policy /\ v.svr = s /\ v.hit_count = Inc(pol[f][i].hit_count)
    BY <2>1, IncType DEF Policy
  <2>5. svr.hit = svrs[f][s].hit
    <3>1. svr = svrs[f][s] \/ \E r \in Resolution : svr = Resolved(svrs[f][s], r)
      BY <1>2 DEF UsableServers
    <3>2. \A r \in Resolution : Resolved(svrs[f][s], r).hit = svrs[f][s].hit
      BY <2>3 DEF Resolved, Server
    <3> QED
      BY <3>1, <3>2
  <2>6. w \in Server /\ w.hit = Inc(svrs[f][s].hit)
    BY <2>1, <2>5, IncType DEF Server
  <2> HIDE DEF i, s, v, w
  <2> QED
    BY <2>1, <2>2, <2>4, <2>6, HitsCount DEF s
<1>3. ASSUME NEW f \in Families, NEW src \in Addr, GetPolFill(f, src) \/ GetPolFix(f, src)
      PROVE  HitsAgree'
  BY <1>2, <1>3 DEF GetPolFill, GetPolFix
<1>4. ASSUME NEW f \in Families, NEW src \in Addr, GetPolNone(f, src)
      PROVE  HitsAgree'
  <2>1. UNCHANGED pol
    BY <1>4 DEF GetPolNone
  <2>2. CASE UNCHANGED svrs
    BY <2>1, <2>2, HitsSame
  <2>3. CASE Matches(f, src) # {} /\ ~UNCHANGED svrs
    <3> DEFINE s == pol[f][PolicyLookup(f, src)].svr
    <3>1. s \in Servers /\ svrs[f][s] \in Server
      BY <1>0, <2>3, LookupType DEF Policy, TablesType
    <3>2. PICK r \in Resolution : svrs' = [svrs EXCEPT ![f][s] = Resolved(@, r)]
      BY <1>4, <2>3 DEF GetPolNone
    <3>3. Resolved(svrs[f][s], r).hit = svrs[f][s].hit
      BY <3>1 DEF Resolved, Server
    <3> HIDE DEF s
    <3>4. \A g \in Families, x \in Servers : svrs'[g][x].hit = svrs[g][x].hit
      BY <1>0, <3>1, <3>2, <3>3 DEF TablesType
    <3> QED
      BY <2>1, <3>4, HitsSame
  <2> QED
    BY <1>4, <2>2, <2>3 DEF GetPolNone
<1>5. ASSUME NEW file \in PolicyFiles, UpdatePolicy(file)
      PROVE  HitsAgree'
  <2>1. PICK m \in [Families -> [Servers -> Mac]] :
           /\ pol'  = [f \in Families |-> CreatePolicies(file[f])]
           /\ svrs' = [f \in Families |-> CreateServers(file[f], m[f])]
    BY <1>5 DEF UpdatePolicy
  <2>2. ASSUME NEW f \in Families, NEW s \in Servers
        PROVE  Agrees(pol'[f], s, svrs'[f][s].hit)
    BY <2>1, HitsLoaded
  <2> QED
    BY <2>2 DEF HitsAgree, Agrees, AddsUp, Counter
<1>6. ASSUME UNCHANGED <<pol, svrs>>
      PROVE  HitsAgree'
  BY <1>6, HitsSame
<1>7. ASSUME ProcPatrol \/ UNCHANGED vars \/ \E f \in Families, src \in Addr : DropAddr(f, src)
      PROVE  HitsAgree'
  BY <1>6, <1>7 DEF ProcPatrol, vars, DropAddr
<1> QED
  BY <1>1, <1>3, <1>4, <1>5, <1>7 DEF Next

\* Whatever is hit, missed, resolved, swept or reloaded, the packets counted for
\* a backend are those counted for its policies.
THEOREM StatisticsAgree == Spec => []HitsAgree
<1>1. TypeOK /\ CachePartition /\ CacheInv /\ HitsAgree /\ [Next]_vars => HitsAgree'
  BY HitsStep
<1> QED
  BY TypeCorrect, PartitionKept, CacheInvariant, HitsInit, <1>1, PTL DEF Spec

-----------------------------------------------------------------------------
(* The translator implements Distribution *)

\* The values that the refinement gives rules and backend.
Rules == [f \in Families |-> [i \in DOMAIN pol[f] |->
            [addr |-> pol[f][i].addr, mask |-> pol[f][i].mask, svr |-> pol[f][i].svr]]]
Backends == [f \in Families |-> [s \in Servers |->
               [status |-> svrs[f][s].status, mac |-> svrs[f][s].mac]]]

\* The rules of Distribution change only at a reload.
LEMMA RulesKept == SameDecisions => Rules' = Rules
<1> SUFFICES ASSUME SameDecisions PROVE Rules' = Rules
  OBVIOUS
<1>1. ASSUME NEW f \in Families
      PROVE  [i \in DOMAIN pol'[f] |-> [addr |-> pol'[f][i].addr, mask |-> pol'[f][i].mask,
                                         svr |-> pol'[f][i].svr]]
           = [i \in DOMAIN pol[f] |-> [addr |-> pol[f][i].addr, mask |-> pol[f][i].mask,
                                         svr |-> pol[f][i].svr]]
  BY DEF SameDecisions
<1> QED
  BY <1>1 DEF Rules

\* Counting changes no backend.
LEMMA BackendsKept ==
    ASSUME TablesType, NEW f \in Families, NEW s \in Servers, NEW w,
           svrs' = [svrs EXCEPT ![f][s] = w],
           w.status = svrs[f][s].status, w.mac = svrs[f][s].mac
    PROVE  Backends' = Backends
<1>1. ASSUME NEW g \in Families, NEW t \in Servers
      PROVE  svrs'[g][t].status = svrs[g][t].status /\ svrs'[g][t].mac = svrs[g][t].mac
  BY DEF TablesType
<1> QED
  BY <1>1 DEF Backends

\* A backend that was resolved, or whose MAC was cleared.
LEMMA BackendChanged ==
    ASSUME TablesType, NEW f \in Families, NEW s \in Servers, NEW w \in Server,
           svrs' = [svrs EXCEPT ![f][s] = w]
    PROVE  Backends' = [Backends EXCEPT ![f][s] = [status |-> w.status, mac |-> w.mac]]
<1> DEFINE new == [Backends EXCEPT ![f][s] = [status |-> w.status, mac |-> w.mac]]
<1>1. ASSUME NEW g \in Families, NEW t \in Servers
      PROVE  [status |-> svrs'[g][t].status, mac |-> svrs'[g][t].mac] = new[g][t]
  BY DEF TablesType, Backends
<1>2. new \in [Families -> [Servers -> [status : Status, mac : Mac]]]
  BY DEF Backends, TablesType, Server
<1>3. Backends' = [g \in Families |-> [t \in Servers |-> new[g][t]]]
  BY <1>1 DEF Backends
<1> HIDE DEF new
<1>4. new = [g \in Families |-> [t \in Servers |-> new[g][t]]]
  BY <1>2
<1> QED
  BY <1>3, <1>4 DEF new

\* Distribution and PolicyCache match alike.
LEMMA SameMatches ==
    ASSUME NEW f \in Families, NEW src
    PROVE  D!Matches(f, src) = Matches(f, src)
BY DEF D!Matches, Matches

\* ... and choose alike.
LEMMA SameLeast == \A S : D!Least(S) = Least(S)
BY DEF D!Least, Least

\* A packet of a known backend, or of the discard address.
LEMMA KnownStep ==
    ASSUME TablesType, NEW f \in Families, NEW src \in Addr, Matches(f, src) # {},
           Rules' = Rules, Backends' = Backends,
           LET s == pol[f][PolicyLookup(f, src)].svr
           IN  \/ /\ svrs[f][s].status = "SVR_OK"
                  /\ out' = D!Forward(f, src, s, svrs[f][s].mac)
               \/ svrs[f][s].status = "SVR_DROP" /\ out' = D!Discard(f, src, TRUE)
    PROVE  D!Known(f, src)
<1> DEFINE i == PolicyLookup(f, src)
           s == pol[f][i].svr
<1>1. D!Matches(f, src) = Matches(f, src) /\ D!Least(D!Matches(f, src)) = i
  BY SameMatches, SameLeast DEF PolicyLookup
<1>2. i \in DOMAIN pol[f] /\ s \in Servers
  BY LookupType DEF Matches, Policy
<1>3. Rules[f][i].svr = s
  BY <1>2 DEF Rules
<1>4. Backends[f][s].status = svrs[f][s].status /\ Backends[f][s].mac = svrs[f][s].mac
  BY <1>2 DEF Backends
<1> HIDE DEF i, s
<1>5. Matches(f, src) # {}
  OBVIOUS
<1>6. \/ Backends[f][s].status = "SVR_OK" /\ out' = D!Forward(f, src, s, Backends[f][s].mac)
      \/ Backends[f][s].status = "SVR_DROP" /\ out' = D!Discard(f, src, TRUE)
  BY <1>4 DEF i, s
<1>7. LET t == Rules[f][D!Least(D!Matches(f, src))].svr
      IN  \/ Backends[f][t].status = "SVR_OK" /\ out' = D!Forward(f, src, t, Backends[f][t].mac)
          \/ Backends[f][t].status = "SVR_DROP" /\ out' = D!Discard(f, src, TRUE)
  BY <1>1, <1>3, <1>6
<1>8. D!Matches(f, src) # {}
  BY <1>1
<1> QED
  BY <1>7, <1>8 DEF D!Known, Rules, Backends

\* A packet whose backend was not known when it came.
LEMMA UnknownStep ==
    ASSUME TablesType, NEW f \in Families, NEW src \in Addr, Matches(f, src) # {},
           Rules' = Rules,
           NEW w \in Server,
           LET s == pol[f][PolicyLookup(f, src)].svr
           IN  /\ svrs[f][s].status = "SVR_INIT"
               /\ svrs' = [svrs EXCEPT ![f][s] = w]
               /\ \/ /\ w.status = "SVR_INIT" /\ w.mac = NoMac
                     /\ out' = D!Discard(f, src, TRUE)
                  \/ /\ w.status = "SVR_OK" /\ w.mac \in Macs
                     /\ out' \in {D!Forward(f, src, s, w.mac), D!Discard(f, src, TRUE)}
    PROVE  D!Unknown(f, src)
<1> DEFINE i == PolicyLookup(f, src)
           s == pol[f][i].svr
<1>1. D!Matches(f, src) = Matches(f, src) /\ D!Least(D!Matches(f, src)) = i
  BY SameMatches, SameLeast DEF PolicyLookup
<1>2. i \in DOMAIN pol[f] /\ s \in Servers
  BY LookupType DEF Matches, Policy
<1>3. Rules[f][i].svr = s
  BY <1>2 DEF Rules
<1>4. Backends[f][s] = [status |-> "SVR_INIT", mac |-> svrs[f][s].mac]
  BY <1>2 DEF Backends
<1>5. Backends' = [Backends EXCEPT ![f][s] = [status |-> w.status, mac |-> w.mac]]
  BY <1>2, BackendChanged
<1> HIDE DEF i, s
<1>6. \/ /\ Backends' = [Backends EXCEPT ![f][s].mac = NoMac]
         /\ out' = D!Discard(f, src, TRUE)
      \/ \E m \in Macs :
            /\ Backends' = [Backends EXCEPT ![f][s] = [status |-> "SVR_OK", mac |-> m]]
            /\ out' \in {D!Forward(f, src, s, m), D!Discard(f, src, TRUE)}
  <2>1. CASE w.status = "SVR_INIT" /\ w.mac = NoMac /\ out' = D!Discard(f, src, TRUE)
    <3>1. [Backends[f][s] EXCEPT !.mac = NoMac] = [status |-> "SVR_INIT", mac |-> NoMac]
      BY <1>4
    <3> QED
      BY <1>5, <2>1, <3>1
  <2>2. CASE /\ w.status = "SVR_OK" /\ w.mac \in Macs
             /\ out' \in {D!Forward(f, src, s, w.mac), D!Discard(f, src, TRUE)}
    BY <1>5, <2>2
  <2> QED
    BY <2>1, <2>2 DEF s, i
<1>7. LET t == Rules[f][D!Least(D!Matches(f, src))].svr
      IN  /\ Backends[f][t].status = "SVR_INIT"
          /\ \/ /\ Backends' = [Backends EXCEPT ![f][t].mac = NoMac]
                /\ out' = D!Discard(f, src, TRUE)
             \/ \E m \in Macs :
                   /\ Backends' = [Backends EXCEPT ![f][t] = [status |-> "SVR_OK", mac |-> m]]
                   /\ out' \in {D!Forward(f, src, t, m), D!Discard(f, src, TRUE)}
  <2> DEFINE t == Rules[f][D!Least(D!Matches(f, src))].svr
  <2>1. t = s
    BY <1>1, <1>3
  <2>2. Backends[f][s].status = "SVR_INIT"
    BY <1>4
  <2> HIDE DEF t
  <2>3. /\ Backends[f][t].status = "SVR_INIT"
        /\ \/ /\ Backends' = [Backends EXCEPT ![f][t].mac = NoMac]
              /\ out' = D!Discard(f, src, TRUE)
           \/ \E m \in Macs :
                 /\ Backends' = [Backends EXCEPT ![f][t] = [status |-> "SVR_OK", mac |-> m]]
                 /\ out' \in {D!Forward(f, src, t, m), D!Discard(f, src, TRUE)}
    BY <1>6, <2>1, <2>2, Zenon
  <2> QED
    BY <2>3, Zenon DEF t
<1>8. D!Matches(f, src) # {}
  BY <1>1
<1>9. Rules' = Rules
  OBVIOUS
<1> QED
  BY <1>7, <1>8, <1>9, Zenon DEF D!Unknown, Rules, Backends

\* What a reload installs is a table.
LEMMA TableRead ==
    ASSUME NEW file \in PolicyFiles, NEW m \in [Families -> [Servers -> Mac]],
           NEW r, NEW b,
           r = [f \in Families |-> [i \in DOMAIN CreatePolicies(file[f]) |->
                  [addr |-> CreatePolicies(file[f])[i].addr,
                   mask |-> CreatePolicies(file[f])[i].mask,
                   svr  |-> CreatePolicies(file[f])[i].svr]]],
           b = [f \in Families |-> [s \in Servers |->
                  [status |-> CreateServers(file[f], m[f])[s].status,
                   mac |-> CreateServers(file[f], m[f])[s].mac]]]
    PROVE  D!IsTable(r, b)
<1>1. ASSUME NEW f \in Families
      PROVE  /\ file[f] \in Seq(Line) /\ m[f] \in [Servers -> Mac]
             /\ CreatePolicies(file[f]) \in Seq(Policy)
             /\ CreateServers(file[f], m[f]) \in [Servers -> Server]
  BY ConstantAssumption, CreatePoliciesType, CreateServersType
<1>2. ASSUME NEW f \in Families
      PROVE  r[f] \in Seq(D!Rule)
  <2> DEFINE ps == CreatePolicies(file[f])
  <2>1. Len(ps) \in Nat /\ ps \in [1 .. Len(ps) -> Policy] /\ DOMAIN ps = 1 .. Len(ps)
    BY <1>1, LenProperties
  <2> HIDE DEF ps
  <2>2. [i \in DOMAIN ps |-> [addr |-> ps[i].addr, mask |-> ps[i].mask, svr |-> ps[i].svr]]
            \in [1 .. Len(ps) -> D!Rule]
    BY <2>1 DEF Policy, D!Rule, D!Addr, Addr
  <2>3. r[f] = [i \in DOMAIN ps |-> [addr |-> ps[i].addr, mask |-> ps[i].mask, svr |-> ps[i].svr]]
    BY DEF ps
  <2> QED
    BY <2>1, <2>2, <2>3, SeqOfFunction
<1>3. ASSUME NEW f \in Families
      PROVE  b[f] \in [Servers -> D!Backend]
  BY <1>1 DEF Server, D!Backend, D!Status, Status, Mac
<1>4. ASSUME NEW f \in Families, NEW i \in DOMAIN r[f]
      PROVE  LET s == r[f][i].svr
             IN  /\ s = ZeroIP <=> b[f][s].status = "SVR_DROP"
                 /\ b[f][s].status # "NONE"
  <2> DEFINE s == file[f][i].svr
             st == CreateServers(file[f], m[f])[s].status
  <2>1. i \in DOMAIN file[f] /\ r[f][i].svr = s
    BY DEF CreatePolicies
  <2>2. s \in Servers
    <3>1. file[f][i] \in Line
      BY <1>1, <2>1, ElementOfSeq, LenProperties
    <3> QED
      BY <3>1 DEF Line
  <2>3. s \in {file[f][j].svr : j \in DOMAIN file[f]}
    BY <2>1
  <2>4. b[f][s].status = st
    BY <2>2
  <2>5. (s = ZeroIP <=> st = "SVR_DROP") /\ st # "NONE"
    <3> HIDE DEF s
    <3>1. CASE s = ZeroIP
      BY <2>2, <2>3, <3>1 DEF CreateServers
    <3>2. CASE s # ZeroIP
      BY <2>2, <2>3, <3>2 DEF CreateServers
    <3> QED
      BY <3>1, <3>2
  <2> HIDE DEF s, st
  <2> QED
    BY <2>1, <2>4, <2>5
<1>5. r \in [Families -> Seq(D!Rule)] /\ b \in [Families -> [Servers -> D!Backend]]
  BY <1>2, <1>3
<1> QED
  BY <1>4, <1>5 DEF D!IsTable

\* The outcomes of PolicyCache are those of Distribution.
LEMMA SameOutcomes ==
    /\ \A f, src, c : Forward(f, src, c) = D!Forward(f, src, c.dst, c.mac)
    /\ \A f, src, vip : Discard(f, src, vip) = D!Discard(f, src, vip)
    /\ NoPacket = D!NoPacket
BY DEF Forward, Discard, NoPacket, D!Forward, D!Discard, D!NoPacket

\* A hit is a packet to a known backend: the cache says what the rules say.
LEMMA HitImplements ==
    ASSUME TypeOK, CacheInv, NEW f \in Families, NEW src \in Addr, GetPolHit(f, src)
    PROVE  D!Known(f, src)
<1> DEFINE c == cache[f][HitEntry(f, src)]
           b == HashCode[src]
<1>0. TablesType /\ EntriesType /\ ListsType
  BY DEF TypeOK, TablesType, EntriesType, ListsType
<1>1. /\ HitsIn(f, src) # {}
      /\ svrs' = [svrs EXCEPT ![f][c.dst].hit = Inc(@)]
      /\ out' = Outcomes(f, src, c)
  BY DEF GetPolHit, HitEntry
<1>2. /\ Least(HitsIn(f, src)) \in HitsIn(f, src) /\ HitEntry(f, src) \in Entries
      /\ b \in Buckets
  BY <1>0, <1>1, HitEntryType, HashType
<1>3. HitEntry(f, src) \in Members(hash[f][b]) /\ c.src = src
  BY <1>2 DEF HitsIn, HitEntry, Members
<1>4. Coherent(f, b, c)
  BY <1>2, <1>3 DEF CacheInv, EntriesCoherent
<1>5. c \in CacheEntry
  BY <1>0, <1>2 DEF EntriesType
<1> HIDE DEF c, b
<1>6. /\ Matches(f, src) # {}
      /\ c.dst = pol[f][PolicyLookup(f, src)].svr
      /\ c.mac = svrs[f][c.dst].mac /\ c.stat = svrs[f][c.dst].status
      /\ c.stat \in {"SVR_OK", "SVR_DROP"} /\ (c.op <=> c.stat = "SVR_OK")
  BY <1>3, <1>4 DEF Coherent, PolicyLookup
<1>7. c.dst \in Servers /\ svrs[f][c.dst] \in Server
  BY <1>0, <1>5 DEF CacheEntry, TablesType
<1>8. Rules' = Rules
  BY DecisionsKept, RulesKept DEF NetStep
<1>9. Backends' = Backends
  <2> DEFINE w == [svrs[f][c.dst] EXCEPT !.hit = Inc(@)]
  <2>1. w.status = svrs[f][c.dst].status /\ w.mac = svrs[f][c.dst].mac
    BY <1>7 DEF Server
  <2>2. svrs' = [svrs EXCEPT ![f][c.dst] = w]
    BY <1>1
  <2> HIDE DEF w
  <2> QED
    BY <1>0, <1>7, <2>1, <2>2, BackendsKept
<1>10. \/ c.stat = "SVR_OK" /\ out' = D!Forward(f, src, c.dst, c.mac)
       \/ c.stat = "SVR_DROP" /\ out' = D!Discard(f, src, TRUE)
  BY <1>1, <1>6, SameOutcomes DEF Outcomes
<1> QED
  BY <1>0, <1>6, <1>8, <1>9, <1>10, KnownStep

\* A packet that is not cached matches nothing, or its backend is not known in time.
LEMMA NoneImplements ==
    ASSUME TypeOK, NEW f \in Families, NEW src \in Addr, GetPolNone(f, src)
    PROVE  D!Unmatched(f, src, TRUE) \/ D!Unknown(f, src)
<1>0. TablesType
  BY DEF TypeOK, TablesType
<1>1. Rules' = Rules
  BY DecisionsKept, RulesKept DEF NetStep
<1>2. out' = D!Discard(f, src, TRUE)
  BY SameOutcomes DEF GetPolNone
<1>3. CASE Matches(f, src) = {}
  <2>1. svrs' = svrs
    BY <1>3 DEF GetPolNone
  <2>2. Backends' = Backends
    BY <2>1 DEF Backends
  <2>3. D!Matches(f, src) = {}
    BY <1>3, SameMatches
  <2> QED
    BY <1>1, <1>2, <2>2, <2>3 DEF D!Unmatched, Rules, Backends
<1>4. CASE Matches(f, src) # {}
  <2> DEFINE s == pol[f][PolicyLookup(f, src)].svr
  <2>1. svrs[f][s].status = "SVR_INIT"
    BY <1>4 DEF GetPolNone
  <2>2. PICK r \in Resolution : /\ r.when # "in_time"
                                /\ svrs' = [svrs EXCEPT ![f][s] = Resolved(@, r)]
    BY <1>4 DEF GetPolNone
  <2>3. s \in Servers
    BY <1>0, <1>4, LookupType DEF Policy
  <2>4. svrs[f][s] \in Server
    BY <1>0, <2>3 DEF TablesType
  <2> DEFINE w == Resolved(svrs[f][s], r)
  <2>5. w \in Server
    BY <2>4, ResolvedType
  <2>6. svrs' = [svrs EXCEPT ![f][s] = w]
    BY <2>2
  <2>7. \/ w.status = "SVR_INIT" /\ w.mac = NoMac
        \/ w.status = "SVR_OK" /\ w.mac \in Macs
    <3>1. CASE r.when = "never"
      BY <2>1, <2>4, <3>1 DEF Resolved, Server
    <3>2. CASE r.when # "never"
      <4>1. r.mac \in Macs
        BY <3>2 DEF Resolution
      <4> QED
        BY <2>4, <3>2, <4>1 DEF Resolved, Server
    <3> QED
      BY <3>1, <3>2
  <2> HIDE DEF w
  <2> QED
    BY <1>0, <1>1, <1>2, <1>4, <2>1, <2>5, <2>6, <2>7, UnknownStep
<1> QED
  BY <1>3, <1>4

\* A miss: the entry filled is that of the table, or the fixed one.
LEMMA MissImplements ==
    ASSUME TypeOK, BackendsListed, NEW f \in Families, NEW src \in Addr, NEW hit,
           Matches(f, src) # {}, NetStep,
           NEW svr \in UsableServers(f, PolicyLookup(f, src)),
           CountMiss(f, PolicyLookup(f, src), svr),
           out' = Outcomes(f, src, Filled(f, src, PolicyLookup(f, src), svr, hit))
    PROVE  D!Known(f, src) \/ D!Unknown(f, src)
<1> DEFINE i == PolicyLookup(f, src)
           s == pol[f][i].svr
           old == svrs[f][s]
           w == [svr EXCEPT !.hit = Inc(@)]
<1>0. TablesType
  BY DEF TypeOK, TablesType
<1>1. Rules' = Rules
  BY DecisionsKept, RulesKept
<1>2. /\ i \in DOMAIN pol[f] /\ pol[f][i] \in Policy /\ svr \in Server
      /\ s \in Servers /\ old \in Server
  <2>1. i \in Matches(f, src) /\ pol[f][i] \in Policy
    BY <1>0, LookupType
  <2>2. i \in DOMAIN pol[f]
    BY <2>1 DEF Matches
  <2>3. svr \in Server
    BY <1>0, <2>1, UsableType
  <2>4. s \in Servers /\ old \in Server
    BY <1>0, <2>1 DEF Policy, TablesType
  <2> QED
    BY <2>1, <2>2, <2>3, <2>4
<1>3. /\ svr.status # "SVR_INIT"
      /\ old.status # "SVR_INIT" => svr = old
      /\ old.status = "SVR_INIT" => svr.status = "SVR_OK"
  BY <1>0, <1>2, UsableKeeps
<1>4. svrs' = [svrs EXCEPT ![f][s] = w]
  BY DEF CountMiss
<1>5. w \in Server /\ w.status = svr.status /\ w.mac = svr.mac
  BY <1>2, IncType DEF Server
<1>6. out' = IF svr.status # "SVR_DROP" THEN D!Forward(f, src, s, svr.mac)
                                        ELSE D!Discard(f, src, TRUE)
  BY SameOutcomes DEF Outcomes, Filled
<1> HIDE DEF w
<1>7. CASE old.status # "SVR_INIT"
  <2>1. svr = old
    BY <1>3, <1>7
  <2>2. Backends' = Backends
    BY <1>0, <1>2, <1>4, <1>5, <2>1, BackendsKept
  <2>3. old.status \in {"SVR_OK", "SVR_DROP"}
    BY <1>2, <1>7 DEF BackendsListed, Server, Status
  <2>4. \/ old.status = "SVR_OK" /\ out' = D!Forward(f, src, s, old.mac)
        \/ old.status = "SVR_DROP" /\ out' = D!Discard(f, src, TRUE)
    BY <1>6, <2>1, <2>3
  <2> QED
    BY <1>0, <1>1, <2>2, <2>4, KnownStep
<1>8. CASE old.status = "SVR_INIT"
  <2>1. svr.status = "SVR_OK" /\ svr.mac \in Macs
    <3>1. PICK r \in Resolution : r.when = "in_time" /\ svr = Resolved(old, r)
      BY <1>8 DEF UsableServers
    <3>2. r.mac \in Macs
      BY <3>1 DEF Resolution
    <3> QED
      BY <1>2, <3>1, <3>2 DEF Resolved, Server
  <2>2. out' = D!Forward(f, src, s, w.mac) /\ w.status = "SVR_OK" /\ w.mac \in Macs
    BY <1>5, <1>6, <2>1
  <2> QED
    BY <1>0, <1>1, <1>4, <1>5, <1>8, <2>2, UnknownStep
<1> QED
  BY <1>7, <1>8

\* Every step is one of Distribution, or changes nothing it sees.
LEMMA StepImplements ==
    ASSUME TypeOK, CacheInv, [Next]_vars
    PROVE  D!DNext \/ UNCHANGED <<Rules, Backends, out>>
<1>1. ASSUME NEW f \in Families, NEW src \in Addr, DropAddr(f, src)
      PROVE  D!Unmatched(f, src, FALSE)
  BY <1>1, SameOutcomes DEF DropAddr, D!Unmatched
<1>2. ASSUME NEW f \in Families, NEW src \in Addr, GetPolFill(f, src)
      PROVE  D!Known(f, src) \/ D!Unknown(f, src)
  <2>1. PICK svr \in UsableServers(f, PolicyLookup(f, src)) :
           /\ CountMiss(f, PolicyLookup(f, src), svr)
           /\ out' = Outcomes(f, src, Filled(f, src, PolicyLookup(f, src), svr, Inc(0)))
    BY <1>2 DEF GetPolFill
  <2>2. Matches(f, src) # {} /\ NetStep
    BY <1>2 DEF GetPolFill, NetStep
  <2> QED
    BY <2>1, <2>2, MissImplements DEF CacheInv
<1>3. ASSUME NEW f \in Families, NEW src \in Addr, GetPolFix(f, src)
      PROVE  D!Known(f, src) \/ D!Unknown(f, src)
  <2>1. PICK svr \in UsableServers(f, PolicyLookup(f, src)) :
           /\ CountMiss(f, PolicyLookup(f, src), svr)
           /\ fix' = [fix EXCEPT ![f] = Filled(f, src, PolicyLookup(f, src), svr, Inc(fix[f].hit))]
           /\ out' = Outcomes(f, src, fix'[f])
    BY <1>3 DEF GetPolFix
  <2>2. out' = Outcomes(f, src, Filled(f, src, PolicyLookup(f, src), svr, Inc(fix[f].hit)))
    BY <2>1 DEF TypeOK
  <2>3. Matches(f, src) # {} /\ NetStep
    BY <1>3 DEF GetPolFix, NetStep
  <2> QED
    BY <2>1, <2>2, <2>3, MissImplements DEF CacheInv
<1>4. ASSUME NEW file \in PolicyFiles, UpdatePolicy(file)
      PROVE  D!Replace
  <2>1. PICK m \in [Families -> [Servers -> Mac]] :
           /\ pol'  = [f \in Families |-> CreatePolicies(file[f])]
           /\ svrs' = [f \in Families |-> CreateServers(file[f], m[f])]
    BY <1>4 DEF UpdatePolicy
  <2>2. D!IsTable(Rules', Backends')
    BY <2>1, TableRead DEF Rules, Backends
  <2>3. out' = D!NoPacket
    BY <1>4, SameOutcomes DEF UpdatePolicy
  <2> QED
    BY <2>2, <2>3 DEF D!Replace, Rules, Backends
<1>5. CASE ProcPatrol \/ UNCHANGED vars
  BY <1>5 DEF ProcPatrol, vars, Rules, Backends
<1>6. \A src \in Addr : src \in D!Addr
  BY DEF Addr, D!Addr
<1> QED
  BY <1>1, <1>2, <1>3, <1>4, <1>5, <1>6, HitImplements, NoneImplements DEF Next, D!DNext

\* The first load installs a table.
LEMMA InitImplements == Init => D!DInit
<1> SUFFICES ASSUME Init PROVE D!DInit
  OBVIOUS
<1>1. PICK file \in PolicyFiles, m \in [Families -> [Servers -> Mac]] :
         /\ pol  = [f \in Families |-> CreatePolicies(file[f])]
         /\ svrs = [f \in Families |-> CreateServers(file[f], m[f])]
  BY DEF Init
<1>2. D!IsTable(Rules, Backends)
  BY <1>1, TableRead DEF Rules, Backends
<1>3. out = D!NoPacket
  BY SameOutcomes DEF Init
<1> QED
  BY <1>2, <1>3 DEF D!DInit, Rules, Backends

\* The refinement: with caching, exhaustion, patrols and reloads, each packet
\* goes where the first matching rule sends it, as if there were no cache.
THEOREM Refinement == Spec => ImplementsDistribution
<1>1. TypeOK /\ CacheInv /\ [Next]_vars => [D!DNext]_(D!dvars)
  BY StepImplements DEF D!dvars, Rules, Backends
<1> QED
  BY TypeCorrect, CacheInvariant, InitImplements, <1>1, PTL
     DEF Spec, ImplementsDistribution, D!DSpec
=============================================================================
