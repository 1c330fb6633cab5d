------------------------- MODULE ClientTable_proofs -------------------------
(***************************************************************************)
(* Proofs about ClientTable, for any clients, any number of entries and of *)
(* buckets, and any hash function.                                         *)
(*                                                                         *)
(* Entries are taken in descending order, so that of the entries in use    *)
(* the smaller are the newer.  A clear leaves links and heads behind, but  *)
(* an entry of a bucket that is used again leads, through its link, to the *)
(* next older one of the same bucket: what is stale comes behind the       *)
(* oldest, and no search for a client that has an entry comes so far.      *)
(***************************************************************************)
EXTENDS ClientTable, WellFoundedInduction, TLAPS

\* The entries in use of the clients of bucket b.
Chain(b) == {e \in Entries : cli_ip[e] # NoAddr /\ HashCode[cli_ip[e]] = b}

\* The head of a chain is its newest entry, and each entry's link leads to the
\* next older one.
HeadNewest(b) ==
    Chain(b) # {} => head[b] \in Chain(b) /\ \A e \in Chain(b) : head[b] <= e
LinkOlder(b) ==
    \A e, d \in Chain(b) :
       d > e => next[e] \in Chain(b) /\ next[e] > e /\ next[e] <= d
ChainsLinked == \A b \in Buckets : HeadNewest(b) /\ LinkOlder(b)

\* While the client of the packet has an entry, the search is in its chain and
\* has not passed it.
SearchAhead ==
    packet # NoAddr =>
       \A d \in Entries : cli_ip[d] = packet =>
          entry \in Chain(HashCode[packet]) /\ entry <= d

TableInv == TypeOK /\ FreeListIntact /\ OneEntryPerClient /\ ChainsLinked /\ SearchAhead

LEMMA TableInit == Init => TableInv
<1> SUFFICES ASSUME Init PROVE TableInv
  OBVIOUS
<1> USE ClientTableAssumption DEF Init, Entries, Buckets, Null, FullFreeList
<1>1. TypeOK
  BY DEF TypeOK
<1>2. FreeListIntact
  BY DEF FreeListIntact
<1>3. OneEntryPerClient
  BY DEF OneEntryPerClient
<1>4. ChainsLinked
  BY DEF ChainsLinked, HeadNewest, LinkOlder, Chain
<1>5. SearchAhead
  BY DEF SearchAhead
<1> QED BY <1>1, <1>2, <1>3, <1>4, <1>5 DEF TableInv

-----------------------------------------------------------------------------
(* The search.                                                               *)

\* The steps of a search leave the table as it is, but for a counter.
LEMMA TableKept ==
  ASSUME TableInv, UNCHANGED <<next, free, head, cli_ip>>,
         \A e \in Entries : cli_ip[e] = NoAddr => hit'[e] = hit[e]
  PROVE  FreeListIntact' /\ OneEntryPerClient' /\ ChainsLinked'
<1>1. FreeListIntact'
  <2> SUFFICES ASSUME NEW e \in Entries
               PROVE  /\ e <= free => next[e] = e - 1 /\ cli_ip[e] = NoAddr /\ hit'[e] = 0
                      /\ e > free => cli_ip[e] # NoAddr
    BY DEF FreeListIntact
  <2> QED BY DEF TableInv, FreeListIntact
<1>2. OneEntryPerClient'
  BY DEF TableInv, OneEntryPerClient
<1>3. ChainsLinked'
  <2>1. \A b : Chain(b)' = Chain(b)
    BY DEF Chain
  <2> QED BY <2>1 DEF TableInv, ChainsLinked, HeadNewest, LinkOlder
<1> QED BY <1>1, <1>2, <1>3

LEMMA GetCiKeeps ==
  ASSUME TableInv, NEW c \in Clients, GetCi(c)
  PROVE  TableInv'
<1> USE ClientTableAssumption
<1>1. UNCHANGED <<next, free, head, cli_ip, hit>> /\ packet' = c /\ entry' = head[HashCode[c]]
  BY DEF GetCi, table
<1>2. HashCode[c] \in Buckets
  OBVIOUS
<1>3. TypeOK'
  BY <1>1, <1>2 DEF TableInv, TypeOK
<1>4. SearchAhead'
  <2> SUFFICES ASSUME NEW d \in Entries, cli_ip[d] = c
               PROVE  entry' \in Chain(HashCode[c]) /\ entry' <= d
    BY <1>1 DEF SearchAhead, Chain
  <2>1. d \in Chain(HashCode[c])
    BY DEF Chain
  <2> QED BY <1>1, <1>2, <2>1 DEF TableInv, ChainsLinked, HeadNewest
<1> QED BY <1>1, <1>3, <1>4, TableKept DEF TableInv

\* A search that has not found the client goes on to an older entry of the
\* chain, and does not pass the client's.
LEMMA SearchKeeps ==
  ASSUME TableInv, Search
  PROVE  TableInv'
<1> USE ClientTableAssumption
<1>1. /\ packet # NoAddr /\ packet \in Clients /\ packet' = packet
      /\ entry \in Entries /\ cli_ip[entry] # packet /\ entry' = next[entry]
      /\ UNCHANGED <<next, free, head, cli_ip, hit>>
  BY DEF Search, table, TableInv, TypeOK, Entries, Null
<1>2. TypeOK'
  BY <1>1 DEF TableInv, TypeOK
<1>3. SearchAhead'
  <2> DEFINE b == HashCode[packet]
  <2> SUFFICES ASSUME NEW d \in Entries, cli_ip[d] = packet
               PROVE  entry' \in Chain(b) /\ entry' <= d
    BY <1>1 DEF SearchAhead, Chain
  <2>1. entry \in Chain(b) /\ entry <= d
    BY <1>1 DEF TableInv, SearchAhead
  <2>2. d \in Chain(b) /\ b \in Buckets
    BY <1>1 DEF Chain
  <2>3. d > entry
    BY <1>1, <2>1 DEF Entries
  <2>4. LinkOlder(b)
    BY <2>2 DEF TableInv, ChainsLinked
  <2> QED BY <1>1, <2>1, <2>2, <2>3, <2>4 DEF LinkOlder
<1> QED BY <1>1, <1>2, <1>3, TableKept DEF TableInv

LEMMA HitKeeps ==
  ASSUME TableInv, Hit
  PROVE  TableInv'
<1> USE ClientTableAssumption
<1>1. /\ packet # NoAddr /\ packet' = NoAddr /\ entry' = Null
      /\ entry \in Entries /\ cli_ip[entry] = packet
      /\ hit' = [hit EXCEPT ![entry] = (@ + 1) % CounterMod]
      /\ UNCHANGED <<next, free, head, cli_ip>>
  BY DEF Hit, TableInv, TypeOK, Entries, Null
<1>2. (hit[entry] + 1) % CounterMod \in 0 .. CounterMod - 1
  <2>1. hit[entry] + 1 \in Nat
    BY <1>1 DEF TableInv, TypeOK
  <2> QED BY <2>1
<1>3. TypeOK'
  BY <1>1, <1>2 DEF TableInv, TypeOK, Null
<1>4. \A e \in Entries : cli_ip[e] = NoAddr => hit'[e] = hit[e]
  BY <1>1 DEF TableInv, TypeOK
<1>5. SearchAhead'
  BY <1>1 DEF SearchAhead
<1> QED BY <1>1, <1>3, <1>4, <1>5, TableKept DEF TableInv

-----------------------------------------------------------------------------
(* The insertion.                                                            *)

\* The search has ended without an entry: the client has none.
LEMMA NotFound ==
  ASSUME TableInv, packet # NoAddr, entry = Null
  PROVE  \A d \in Entries : cli_ip[d] # packet
  BY DEF TableInv, SearchAhead, Chain, Entries, Null

\* The newest entry is taken from the free list and becomes the head of its
\* bucket; the other chains do not change.
LEMMA CreCiKeeps ==
  ASSUME TableInv, CreCi
  PROVE  TableInv'
<1> USE ClientTableAssumption
<1> DEFINE e == free
           k == HashCode[packet]
<1>1. /\ packet \in Clients /\ packet # NoAddr /\ packet' = NoAddr /\ entry' = entry
      /\ e \in Entries /\ k \in Buckets /\ free' = next[e]
      /\ next' = [next EXCEPT ![e] = head[k]]
      /\ head' = [head EXCEPT ![k] = e]
      /\ cli_ip' = [cli_ip EXCEPT ![e] = packet]
      /\ hit' = [hit EXCEPT ![e] = (@ + 1) % CounterMod]
  BY DEF CreCi, Cre, TableInv, TypeOK, Entries, Null
<1>2. next[e] = e - 1 /\ cli_ip[e] = NoAddr /\ \A d \in Entries : cli_ip[d] # NoAddr => e < d
  BY <1>1 DEF TableInv, TypeOK, FreeListIntact, Entries
<1> HIDE DEF e, k
<1>t. /\ next \in [Entries -> 0 .. CLI_CACHE] /\ head \in [Buckets -> 0 .. CLI_CACHE]
      /\ cli_ip \in [Entries -> Clients \cup {NoAddr}]
      /\ hit \in [Entries -> 0 .. CounterMod - 1]
  BY DEF TableInv, TypeOK
<1>3. TypeOK'
  <2>1. (hit[e] + 1) % CounterMod \in 0 .. CounterMod - 1
    <3>1. hit[e] + 1 \in Nat
      BY <1>1, <1>t
    <3> QED BY <3>1
  <2>2. free' \in 0 .. CLI_CACHE
    BY <1>1, <1>2 DEF Entries
  <2>3. next' \in [Entries -> 0 .. CLI_CACHE]
    BY <1>1, <1>t
  <2>4. head' \in [Buckets -> 0 .. CLI_CACHE]
    BY <1>1, <1>t DEF Entries
  <2>5. cli_ip' \in [Entries -> Clients \cup {NoAddr}]
    BY <1>1, <1>t
  <2>6. hit' \in [Entries -> 0 .. CounterMod - 1]
    BY <1>1, <1>t, <2>1
  <2>7. packet' \in Clients \cup {NoAddr} /\ entry' \in 0 .. CLI_CACHE
    BY <1>1 DEF TableInv, TypeOK
  <2> QED BY <2>2, <2>3, <2>4, <2>5, <2>6, <2>7 DEF TypeOK
<1>4. FreeListIntact'
  <2> SUFFICES ASSUME NEW d \in Entries
               PROVE  /\ d <= free' => next'[d] = d - 1 /\ cli_ip'[d] = NoAddr /\ hit'[d] = 0
                      /\ d > free' => cli_ip'[d] # NoAddr
    BY DEF FreeListIntact
  <2>1. CASE d = e
    BY <1>1, <1>2, <1>t, <2>1 DEF Entries
  <2>2. CASE d # e
    <3>1. next'[d] = next[d] /\ cli_ip'[d] = cli_ip[d] /\ hit'[d] = hit[d]
      BY <1>1, <1>t, <2>2
    <3>2. d <= free' => d <= free
      BY <1>1, <1>2 DEF e, Entries
    <3>3. d > free' => d > free
      BY <1>1, <1>2, <2>2 DEF e, Entries
    <3> QED BY <3>1, <3>2, <3>3 DEF TableInv, FreeListIntact
  <2> QED BY <2>1, <2>2
<1>5. OneEntryPerClient'
  BY <1>1, <1>t, NotFound DEF TableInv, OneEntryPerClient, CreCi
<1>6. \A b \in Buckets : Chain(b)' = IF b = k THEN Chain(b) \cup {e} ELSE Chain(b)
  <2> SUFFICES ASSUME NEW b \in Buckets, NEW d \in Entries
               PROVE  d \in Chain(b)' <=> d \in Chain(b) \/ (b = k /\ d = e)
    BY <1>1 DEF Chain
  <2>1. CASE d = e
    BY <1>1, <1>2, <1>t, <2>1 DEF Chain, k
  <2>2. CASE d # e
    BY <1>1, <1>t, <2>2 DEF Chain
  <2> QED BY <2>1, <2>2
<1>7. \A b : \A d \in Chain(b) : e < d /\ d \in Entries /\ next'[d] = next[d]
  BY <1>1, <1>2, <1>t DEF Chain, Entries
<1>8. ChainsLinked'
  <2> SUFFICES ASSUME NEW b \in Buckets PROVE HeadNewest(b)' /\ LinkOlder(b)'
    BY DEF ChainsLinked
  <2>0. HeadNewest(b) /\ LinkOlder(b)
    BY DEF TableInv, ChainsLinked
  <2>1. CASE b = k
    <3>1. head'[b] = e /\ next'[e] = head[b] /\ Chain(b)' = Chain(b) \cup {e}
      BY <1>1, <1>6, <1>t, <2>1
    <3>2. HeadNewest(b)'
      BY <1>1, <1>7, <3>1 DEF HeadNewest, Entries
    <3>3. LinkOlder(b)'
      <4> SUFFICES ASSUME NEW x \in Chain(b)', NEW d \in Chain(b)', d > x
                   PROVE  next'[x] \in Chain(b)' /\ next'[x] > x /\ next'[x] <= d
        BY DEF LinkOlder
      <4>1. d \in Chain(b)
        BY <1>1, <1>7, <3>1 DEF Entries
      <4>2. CASE x = e
        BY <1>7, <2>0, <3>1, <4>1, <4>2 DEF HeadNewest
      <4>3. CASE x # e
        <5>1. x \in Chain(b)
          BY <3>1, <4>3
        <5> QED BY <1>7, <2>0, <3>1, <4>1, <5>1 DEF LinkOlder
      <4> QED BY <4>2, <4>3
    <3> QED BY <3>2, <3>3
  <2>2. CASE b # k
    <3>1. head'[b] = head[b] /\ Chain(b)' = Chain(b)
      BY <1>1, <1>6, <1>t, <2>2
    <3> QED BY <1>7, <2>0, <3>1 DEF HeadNewest, LinkOlder
  <2> QED BY <2>1, <2>2
<1>9. SearchAhead'
  BY <1>1 DEF SearchAhead
<1> QED BY <1>3, <1>4, <1>5, <1>8, <1>9 DEF TableInv

\* After a clear there is one chain, of one entry.
LEMMA CreCiClearKeeps ==
  ASSUME TableInv, CreCiClear
  PROVE  TableInv'
<1> USE ClientTableAssumption
<1> DEFINE e == CLI_CACHE
           k == HashCode[packet]
<1>1. /\ packet \in Clients /\ packet # NoAddr /\ packet' = NoAddr /\ entry' = entry
      /\ e \in Entries /\ k \in Buckets /\ free' = FullFreeList[e]
      /\ next' = [FullFreeList EXCEPT ![e] = head[k]]
      /\ head' = [head EXCEPT ![k] = e]
      /\ cli_ip' = [[d \in Entries |-> NoAddr] EXCEPT ![e] = packet]
      /\ hit' = [[d \in Entries |-> 0] EXCEPT ![e] = (@ + 1) % CounterMod]
  BY DEF CreCiClear, Cre, TableInv, TypeOK, Entries, Null
<1>t. head \in [Buckets -> 0 .. CLI_CACHE] /\ head[k] \in 0 .. CLI_CACHE
  BY <1>1 DEF TableInv, TypeOK
<1>2. /\ free' = e - 1
      /\ cli_ip'[e] = packet /\ next'[e] = head[k]
      /\ hit' \in [Entries -> 0 .. CounterMod - 1]
      /\ \A d \in Entries \ {e} : next'[d] = d - 1 /\ cli_ip'[d] = NoAddr /\ hit'[d] = 0
  <2>1. (0 + 1) % CounterMod \in 0 .. CounterMod - 1
    OBVIOUS
  <2> QED BY <1>1, <2>1 DEF FullFreeList
<1>3. TypeOK'
  <2>1. next' \in [Entries -> 0 .. CLI_CACHE]
    BY <1>1, <1>t DEF FullFreeList, Entries
  <2>2. head' \in [Buckets -> 0 .. CLI_CACHE]
    BY <1>1, <1>t
  <2>3. cli_ip' \in [Entries -> Clients \cup {NoAddr}]
    BY <1>1
  <2>4. free' \in 0 .. CLI_CACHE
    BY <1>2
  <2>5. packet' \in Clients \cup {NoAddr} /\ entry' \in 0 .. CLI_CACHE
    BY <1>1 DEF TableInv, TypeOK
  <2> QED BY <1>2, <2>1, <2>2, <2>3, <2>4, <2>5 DEF TypeOK
<1>4. FreeListIntact'
  <2> SUFFICES ASSUME NEW d \in Entries
               PROVE  /\ d <= free' => next'[d] = d - 1 /\ cli_ip'[d] = NoAddr /\ hit'[d] = 0
                      /\ d > free' => cli_ip'[d] # NoAddr
    BY DEF FreeListIntact
  <2>1. d <= free' => d # e
    BY <1>2
  <2>2. d > free' => d = e
    BY <1>2 DEF Entries
  <2> QED BY <1>1, <1>2, <2>1, <2>2
<1>5. OneEntryPerClient'
  BY <1>2 DEF OneEntryPerClient
<1>6. \A b \in Buckets : Chain(b)' = IF b = k THEN {e} ELSE {}
  BY <1>1, <1>2 DEF Chain
<1>7. ChainsLinked'
  <2>1. head'[k] = e
    BY <1>1, <1>t
  <2> HIDE DEF k
  <2> QED BY <1>1, <1>6, <2>1 DEF ChainsLinked, HeadNewest, LinkOlder
<1>8. SearchAhead'
  BY <1>1 DEF SearchAhead
<1> QED BY <1>3, <1>4, <1>5, <1>7, <1>8 DEF TableInv

LEMMA TableStep == TableInv /\ [Next]_vars => TableInv'
<1> SUFFICES ASSUME TableInv, [Next]_vars PROVE TableInv'
  OBVIOUS
<1>1. CASE \E c \in Clients : GetCi(c)
  BY <1>1, GetCiKeeps
<1>2. CASE Search
  BY <1>2, SearchKeeps
<1>3. CASE Hit
  BY <1>3, HitKeeps
<1>4. CASE CreCi
  BY <1>4, CreCiKeeps
<1>5. CASE CreCiClear
  BY <1>5, CreCiClearKeeps
<1>6. CASE UNCHANGED vars
  <2>1. UNCHANGED <<next, free, head, cli_ip, hit, packet, entry>>
    BY <1>6 DEF vars, table
  <2>2. TypeOK' /\ SearchAhead'
    BY <2>1 DEF TableInv, TypeOK, SearchAhead, Chain
  <2> QED BY <2>1, <2>2, TableKept DEF TableInv
<1> QED BY <1>1, <1>2, <1>3, <1>4, <1>5, <1>6 DEF Next, Thread

LEMMA TableInvariant == Spec => []TableInv
  BY TableInit, TableStep, PTL DEF Spec

-----------------------------------------------------------------------------
(* What follows.                                                             *)

\* The free list is never cyclic, and taking from it never yields an entry in
\* use, however often the table was cleared under its hash chains.
THEOREM FreeListKept == Spec => []FreeListIntact
<1>1. TableInv => FreeListIntact
  BY DEF TableInv
<1> QED BY TableInvariant, <1>1, PTL

\* A client's packets are counted in one entry.
THEOREM ClientOnce == Spec => []OneEntryPerClient
<1>1. TableInv => OneEntryPerClient
  BY DEF TableInv
<1> QED BY TableInvariant, <1>1, PTL

\* A set of numbers that has a bound has a greatest element.
LEMMA Greatest ==
  ASSUME NEW n \in Nat, NEW T \in SUBSET (0 .. n), T # {}
  PROVE  \E m \in T : \A k \in T : k <= m
<1> DEFINE R == OpToRel(<, Nat)
           D == {n - k : k \in T}
<1>1. D \subseteq Nat /\ D # {}
  <2>1. \A k \in T : n - k \in Nat
    OBVIOUS
  <2> QED BY <2>1, Zenon
<1>2. IsWellFoundedOn(R, Nat)
  BY NatLessThanWellFounded
<1>3. \A x, y \in Nat : <<x, y>> \in R <=> x < y
  BY DEF OpToRel
<1> HIDE DEF R, D
<1>4. PICK x \in D : \A y \in D : ~ (<<y, x>> \in R)
  BY <1>1, <1>2, WFMin
<1>5. \A y \in D : x <= y
  <2> SUFFICES ASSUME NEW y \in D PROVE x <= y
    OBVIOUS
  <2>1. x \in Nat /\ y \in Nat
    BY <1>1
  <2>2. ~ (y < x)
    BY <1>3, <1>4, <2>1, Zenon
  <2> QED BY <2>1, <2>2
<1> QED BY <1>5 DEF D

\* From the head of a chain its links lead to every entry of it.
LEMMA ChainReachable ==
  ASSUME TableInv, NEW b \in Buckets, NEW e \in Chain(b)
  PROVE  e \in Reachable(b)
<1> USE ClientTableAssumption
<1> SUFFICES ASSUME NEW S \in SUBSET Entries, head[b] \in S \cup {Null}, Closed(S)
             PROVE  e \in S
  BY DEF Reachable, Chain
<1>1. HeadNewest(b) /\ LinkOlder(b) /\ e \in Entries
  BY DEF TableInv, ChainsLinked, Chain
<1> DEFINE T == {d \in S : d \in Chain(b) /\ d <= e}
<1>2. head[b] \in T
  BY <1>1 DEF HeadNewest, Chain, Entries, Null
<1>3. T \in SUBSET (0 .. e) /\ e \in Nat
  <2>1. e \in Nat /\ \A d \in T : d \in 0 .. e
    BY <1>1 DEF Chain, Entries
  <2> QED BY <2>1, Zenon
<1> HIDE DEF T
<1>4. PICK m \in T : \A k \in T : k <= m
  BY <1>2, <1>3, Greatest
<1>5. CASE m = e
  BY <1>4, <1>5 DEF T
<1>6. CASE m # e
  <2>1. m \in S /\ m \in Chain(b) /\ e > m
    BY <1>1, <1>4, <1>6 DEF T, Entries
  <2>2. next[m] \in Chain(b) /\ next[m] > m /\ next[m] <= e
    BY <1>1, <2>1 DEF LinkOlder
  <2>3. next[m] \in S
    BY <2>1, <2>2 DEF Closed, Chain, Entries, Null
  <2>4. next[m] \in T
    BY <2>2, <2>3 DEF T
  <2> QED BY <1>1, <1>4, <2>1, <2>2, <2>4 DEF Chain, Entries
<1> QED BY <1>5, <1>6

\* A client that has an entry is found by a search from its bucket, also where
\* stale links and heads of the time before a clear lie behind its chain.
THEOREM InUseFound == Spec => []InUseReachable
<1>1. TableInv => InUseReachable
  <2> SUFFICES ASSUME TableInv, NEW e \in Entries, cli_ip[e] # NoAddr
               PROVE  e \in Reachable(HashCode[cli_ip[e]])
    BY DEF InUseReachable
  <2>1. HashCode[cli_ip[e]] \in Buckets
    BY ClientTableAssumption DEF TableInv, TypeOK
  <2>2. e \in Chain(HashCode[cli_ip[e]])
    BY DEF Chain
  <2> QED BY <2>1, <2>2, ChainReachable
<1> QED BY TableInvariant, <1>1, PTL
=============================================================================
