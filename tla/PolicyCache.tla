----------------------------- MODULE PolicyCache -----------------------------
(***************************************************************************)
(* The front translator's policy table and its distribution cache:         *)
(* front/pol_lookup.c (lookup, cache, patrol), the table part of           *)
(* front/pol_tbl.c and front/svr_tbl.c (load, reload), and the packet and  *)
(* patrol steps of the network thread in front/front.c.                    *)
(*                                                                         *)
(* One thread owns all of this state: the network thread, and the command  *)
(* thread only while no network thread exists (FrontTranslator checks that *)
(* exclusion).  So every handler is one atomic action here.                *)
(*                                                                         *)
(* The IPv4 and the IPv6 code are twins, written out twice in the source;  *)
(* here each variable is a function of the address family.  An address is  *)
(* the set of its one bits, so that "addr & mask" is \cap.                 *)
(***************************************************************************)
EXTENDS Naturals, Sequences, FiniteSets

CONSTANTS Families,      \* AF_INET, AF_INET6
          Bits,          \* bit positions of a client address
          Servers,       \* backend addresses the policy files name
          ZeroIP,        \* the all-zero backend address: discard
          Macs,          \* MAC addresses the kernel may return
          NoMac,         \* the all-zero MAC
          LB_POL_DIVISOR,\* number of hash buckets
          LB_MAX_CACHE,  \* number of cache entries of a family
          MAX_RECV,      \* packets handled between two patrols
          HashCode,      \* ip_hash_code4/6: source address -> bucket
          PolicyFiles,   \* the policy files the administrator may install
          CounterMod     \* the statistics counters are unsigned, modulo this

Addr    == SUBSET Bits
Buckets == 0 .. LB_POL_DIVISOR - 1
Entries == 1 .. LB_MAX_CACHE
Counter == 0 .. CounterMod - 1
Line    == [addr : Addr, mask : Addr, svr : Servers]

ASSUME ConstantAssumption ==
    /\ Families # {} /\ "none" \notin Families
    /\ ZeroIP \in Servers /\ "nowhere" \notin Servers
    /\ NoMac \notin Macs
    /\ LB_POL_DIVISOR \in Nat \ {0}
    /\ LB_MAX_CACHE \in Nat \ {0}
    /\ MAX_RECV \in Nat \ {0}
    /\ CounterMod \in Nat \ {0}
    /\ HashCode \in [Addr -> Buckets]
    /\ PolicyFiles \subseteq [Families -> Seq(Line)]

VARIABLES
    pol,          \* pol[f]: lb_pol_head4/6, the policies in file order
    svrs,         \* svrs[f][s]: the server table entry of backend s
    cache,        \* cache[f][e]: contents of cache entry e (init4/init6)
    fix,          \* fix[f]: fix4/fix6, the entry used when none is free
    free,         \* free[f]: lb_pol_free4/6
    hash,         \* hash[f][b]: lb_pol_hash_v4/v6
    patrol_flag,  \* families with DEL_CACHE4/DEL_CACHE6 set
    ptr,          \* ptr[f]: the static ptr4/ptr6 of proc_patrol
    recvd,        \* packets received since the last proc_patrol
    out           \* what happened to the last packet

vars == <<pol, svrs, cache, fix, free, hash, patrol_flag, ptr, recvd, out>>

Status == {"NONE", "SVR_INIT", "SVR_OK", "SVR_DROP"}
Mac    == Macs \cup {NoMac}

Policy == [addr : Addr, mask : Addr, svr : Servers,
           use_count : Counter, hit_count : Counter]

\* "NONE": no entry for this address in svr_mng_tbl.
Server == [status : Status, mac : Mac, hit : Counter]

\* stat is lb_stat (SVR_INIT is 0: unused), op is TRUE for a pointer to the
\* entry itself and FALSE for NULL, pol is the policy that pol_hit points into.
CacheEntry == [src : Addr, dst : Servers, mac : Mac, stat : Status,
               op : BOOLEAN, pol : Nat, hit : Counter]

Outcome == [fam : Families \cup {"none"}, src : Addr, vip : BOOLEAN,
            to : Servers \cup {"nowhere"}, mac : Mac]

Members(s) == {s[i] : i \in DOMAIN s}
Least(S) == CHOOSE i \in S : \A j \in S : i <= j
Inc(n)   == (n + 1) % CounterMod

-----------------------------------------------------------------------------
(* Loading the policy file: init_svr_mng_table, init_policy_table, get_policy *)

\* The policies of a file.  addr is masked when the policy is created.
CreatePolicies(lines) ==
    [i \in DOMAIN lines |->
        [addr      |-> lines[i].addr \cap lines[i].mask,
         mask      |-> lines[i].mask,
         svr       |-> lines[i].svr,
         use_count |-> 0,
         hit_count |-> 0]]

\* The server table after a load: one entry per backend named, discarding
\* for the zero address, else resolved (m is what the kernel answered) or not.
CreateServers(lines, m) ==
    [s \in Servers |->
        CASE s \notin {lines[i].svr : i \in DOMAIN lines} ->
                [status |-> "NONE", mac |-> NoMac, hit |-> 0]
          [] s = ZeroIP /\ s \in {lines[i].svr : i \in DOMAIN lines} ->
                [status |-> "SVR_DROP", mac |-> NoMac, hit |-> 0]
          [] OTHER ->
                [status |-> IF m[s] = NoMac THEN "SVR_INIT" ELSE "SVR_OK",
                 mac |-> m[s], hit |-> 0]]

FreeList  == [i \in Entries |-> i]
NoBuckets == [b \in Buckets |-> <<>>]
Blank == [src |-> {}, dst |-> ZeroIP, mac |-> NoMac, stat |-> "SVR_INIT",
          op |-> FALSE, pol |-> 0, hit |-> 0]

NoPacket == [fam |-> "none", src |-> {}, vip |-> FALSE,
             to |-> "nowhere", mac |-> NoMac]

Init ==
    /\ \E file \in PolicyFiles, m \in [Families -> [Servers -> Mac]] :
          /\ pol  = [f \in Families |-> CreatePolicies(file[f])]
          /\ svrs = [f \in Families |-> CreateServers(file[f], m[f])]
    /\ cache = [f \in Families |-> [e \in Entries |-> Blank]]
    /\ fix = [f \in Families |-> Blank]
    /\ free = [f \in Families |-> FreeList]
    /\ hash = [f \in Families |-> NoBuckets]
    /\ patrol_flag = {}
    /\ ptr = [f \in Families |-> 0]
    /\ recvd = 0
    /\ out = NoPacket

\* A table initialisation that leaves the buckets as they were.
InitKeepingBuckets ==
    /\ cache' = [f \in Families |->
                    [e \in Entries |-> [cache[f][e] EXCEPT !.stat = "SVR_INIT"]]]
    /\ free' = [f \in Families |-> FreeList]
    /\ UNCHANGED <<hash, fix>>

\* init_policy_table(1): buckets and free list are rebuilt from the entry
\* array, lb_stat is cleared, every other field of an entry stays as it was.
InitPolicyTable ==
    /\ cache' = [f \in Families |->
                    [e \in Entries |-> [cache[f][e] EXCEPT !.stat = "SVR_INIT"]]]
    /\ free' = [f \in Families |-> FreeList]
    /\ hash' = [f \in Families |-> NoBuckets]
    /\ UNCHANGED fix

\* update_policy with the network thread gone: the old policies and servers
\* are freed, the tables initialised, the file read.  patrol_flag and the
\* static sweep positions keep their values; the new thread's loop starts.
UpdatePolicy(file) ==
    /\ \E m \in [Families -> [Servers -> Mac]] :
          /\ pol'  = [f \in Families |-> CreatePolicies(file[f])]
          /\ svrs' = [f \in Families |-> CreateServers(file[f], m[f])]
    /\ InitPolicyTable
    /\ recvd' = 0
    /\ out' = NoPacket
    /\ UNCHANGED <<patrol_flag, ptr>>

-----------------------------------------------------------------------------
(* Receiving a packet: proc_v4 / proc_v6 and get_pol_v4 / get_pol_v6          *)

Matches(f, src) ==
    {i \in DOMAIN pol[f] : src \cap pol[f][i].mask = pol[f][i].addr}

\* The positions of a bucket whose entry holds the source address.
HitsIn(f, src) ==
    LET bucket == hash[f][HashCode[src]]
    IN  {i \in DOMAIN bucket : cache[f][bucket[i]].src = src}

Forward(f, src, c) ==
    [fam |-> f, src |-> src, vip |-> TRUE, to |-> c.dst, mac |-> c.mac]
Discard(f, src, vip) ==
    [fam |-> f, src |-> src, vip |-> vip, to |-> "nowhere", mac |-> NoMac]

\* A reply that overlooks op = NULL.
OutcomesIgnoringOp(f, src, c) == Forward(f, src, c)

\* What becomes of a packet whose cache entry is c: op = NULL discards it.
Outcomes(f, src, c) == IF c.op THEN Forward(f, src, c) ELSE Discard(f, src, TRUE)

Receive == recvd < MAX_RECV /\ recvd' = recvd + 1

\* A destination other than the virtual IP is counted in rx_drop_addr.
DropAddr(f, src) ==
    /\ Receive
    /\ out' = Discard(f, src, FALSE)
    /\ UNCHANGED <<pol, svrs, cache, fix, free, hash, patrol_flag, ptr>>

\* The bucket holds the source: the first such entry decides, and its
\* counters, its policy's and its server's are incremented.
GetPolHit(f, src) ==
    /\ Receive
    /\ HitsIn(f, src) # {}
    /\ LET e == hash[f][HashCode[src]][Least(HitsIn(f, src))]
           c == cache[f][e]
       IN  /\ cache' = [cache EXCEPT ![f][e].hit = Inc(@)]
           /\ pol'   = [pol EXCEPT ![f][c.pol].hit_count = Inc(@)]
           /\ svrs'  = [svrs EXCEPT ![f][c.dst].hit = Inc(@)]
           /\ out'   = Outcomes(f, src, c)
    /\ UNCHANGED <<fix, free, hash, patrol_flag, ptr>>

\* A lookup that goes on after the first match.
LastMatch(f, src) == CHOOSE i \in Matches(f, src) : \A j \in Matches(f, src) : j <= i

\* The policy whose backend decides, as policy_lookup4/6 scans the list.
PolicyLookup(f, src) == Least(Matches(f, src))

\* What up to four calls of resolve_target_mac achieve for a backend in
\* SVR_INIT: its MAC is found before the last check of the status, by the
\* fourth call (after the last check), or never.
Resolution == [when : {"in_time", "late"}, mac : Macs]
              \cup {[when |-> "never", mac |-> NoMac]}

Resolved(svr, r) ==
    IF r.when = "never" THEN [svr EXCEPT !.mac = NoMac]
                        ELSE [svr EXCEPT !.status = "SVR_OK", !.mac = r.mac]

\* get_pol_slow returns NULL and caches nothing: no policy matches, or the
\* first that matches has a backend whose MAC is not found in time.
GetPolNone(f, src) ==
    /\ Receive
    /\ HitsIn(f, src) = {}
    /\ \/ Matches(f, src) = {} /\ UNCHANGED svrs
       \/ /\ Matches(f, src) # {}
          /\ LET s == pol[f][PolicyLookup(f, src)].svr
             IN  /\ svrs[f][s].status = "SVR_INIT"
                 /\ \E r \in Resolution :
                       /\ r.when # "in_time"
                       /\ svrs' = [svrs EXCEPT ![f][s] = Resolved(@, r)]
    /\ out' = Discard(f, src, TRUE)
    /\ UNCHANGED <<pol, cache, fix, free, hash, patrol_flag, ptr>>

\* The server entry policy_lookup may return policy i with: the one in the
\* table, or that entry with its MAC found in time.
UsableServers(f, i) ==
    LET svr == svrs[f][pol[f][i].svr]
    IN  IF svr.status # "SVR_INIT" THEN {svr}
        ELSE {Resolved(svr, r) : r \in {x \in Resolution : x.when = "in_time"}}

\* A cache entry filled for policy i, its server's entry being svr.
Filled(f, src, i, svr, hit) ==
    [src |-> src, dst |-> pol[f][i].svr, mac |-> svr.mac, stat |-> svr.status,
     op |-> svr.status # "SVR_DROP", pol |-> i, hit |-> hit]

\* Counting that forgets the server.
CountMissPolicyOnly(f, i, svr) ==
    /\ pol'  = [pol EXCEPT ![f][i].use_count = Inc(@), ![f][i].hit_count = Inc(@)]
    /\ svrs' = [svrs EXCEPT ![f][pol[f][i].svr] = svr]

\* The counters get_pol_slow increments, and the server entry it was left.
CountMiss(f, i, svr) ==
    /\ pol'  = [pol EXCEPT ![f][i].use_count = Inc(@), ![f][i].hit_count = Inc(@)]
    /\ svrs' = [svrs EXCEPT ![f][pol[f][i].svr] = [svr EXCEPT !.hit = Inc(@)]]

\* A free entry is filled and put at the head of its bucket.
GetPolFill(f, src) ==
    /\ Receive
    /\ HitsIn(f, src) = {}
    /\ Matches(f, src) # {}
    /\ free[f] # <<>>
    /\ LET i == PolicyLookup(f, src)
           e == Head(free[f])
           b == HashCode[src]
       IN  \E svr \in UsableServers(f, i) :
              /\ CountMiss(f, i, svr)
              /\ cache' = [cache EXCEPT ![f][e] = Filled(f, src, i, svr, Inc(0))]
              /\ free' = [free EXCEPT ![f] = Tail(@)]
              /\ hash' = [hash EXCEPT ![f][b] = <<e>> \o @]
              /\ out' = Outcomes(f, src, Filled(f, src, i, svr, Inc(0)))
    /\ UNCHANGED <<fix, patrol_flag, ptr>>

\* No entry is free: the patrol is requested and the fixed entry is filled,
\* which no bucket ever holds.
GetPolFix(f, src) ==
    /\ Receive
    /\ HitsIn(f, src) = {}
    /\ Matches(f, src) # {}
    /\ free[f] = <<>>
    /\ LET i == PolicyLookup(f, src)
       IN  \E svr \in UsableServers(f, i) :
              /\ CountMiss(f, i, svr)
              /\ fix' = [fix EXCEPT ![f] = Filled(f, src, i, svr, Inc(@.hit))]
              /\ out' = Outcomes(f, src, fix'[f])
    /\ patrol_flag' = patrol_flag \cup {f}
    /\ UNCHANGED <<cache, free, hash, ptr>>

-----------------------------------------------------------------------------
(* proc_patrol, after at most MAX_RECV packets or a timeout of select         *)

\* clear_v4_cache / clear_v6_cache from position p: the first bucket at or
\* after p that holds an entry (LB_POL_DIVISOR if none does) is emptied.
SweptAfter(f, p) == {b \in Buckets : b > p /\ hash[f][b] # <<>>}
Swept(f, p) == {b \in Buckets : b >= p /\ hash[f][b] # <<>>}
StopAtBucket(f, p) == IF Swept(f, p) = {} THEN LB_POL_DIVISOR ELSE Least(Swept(f, p))
Stop(f, p) == IF Swept(f, p) = {} THEN LB_POL_DIVISOR ELSE Least(Swept(f, p)) + 1

\* free_pol_cache4/6 on the contents of an entry that goes to the free list.
FreePolCache(c) == [c EXCEPT !.stat = "SVR_INIT"]

\* The position the next patrol starts from.
NextPtr(f) ==
    IF f \notin patrol_flag THEN ptr[f]
    ELSE IF Stop(f, ptr[f]) = LB_POL_DIVISOR THEN 0
    ELSE Stop(f, ptr[f])

ProcPatrol ==
    /\ hash' = [f \in Families |->
          [b \in Buckets |->
              IF /\ f \in patrol_flag
                 /\ b \in Swept(f, ptr[f]) /\ b = Least(Swept(f, ptr[f]))
              THEN <<>> ELSE hash[f][b]]]
    /\ free' = [f \in Families |->
          IF f \in patrol_flag /\ Swept(f, ptr[f]) # {}
          THEN free[f] \o hash[f][Least(Swept(f, ptr[f]))] ELSE free[f]]
    /\ cache' = [f \in Families |->
          [e \in Entries |->
              IF /\ f \in patrol_flag /\ Swept(f, ptr[f]) # {}
                 /\ e \in Members(hash[f][Least(Swept(f, ptr[f]))])
              THEN FreePolCache(cache[f][e]) ELSE cache[f][e]]]
    /\ ptr' = [f \in Families |-> NextPtr(f)]
    /\ patrol_flag' = {f \in patrol_flag : Stop(f, ptr[f]) # LB_POL_DIVISOR}
    /\ recvd' = 0
    /\ UNCHANGED <<pol, svrs, fix, out>>

-----------------------------------------------------------------------------

Next ==
    \/ \E f \in Families, src \in Addr :
          \/ DropAddr(f, src)
          \/ GetPolHit(f, src)
          \/ GetPolNone(f, src)
          \/ GetPolFill(f, src)
          \/ GetPolFix(f, src)
    \/ ProcPatrol
    \/ \E file \in PolicyFiles : UpdatePolicy(file)

Spec == Init /\ [][Next]_vars

\* The network thread's loop reaches proc_patrol again and again: it handles
\* at most MAX_RECV packets before it and select has a timeout.
FairSpec == Spec /\ WF_vars(ProcPatrol)

-----------------------------------------------------------------------------
(* Properties                                                                *)

TypeOK ==
    /\ pol \in [Families -> Seq(Policy)]
    /\ svrs \in [Families -> [Servers -> Server]]
    /\ cache \in [Families -> [Entries -> CacheEntry]]
    /\ fix \in [Families -> CacheEntry]
    /\ free \in [Families -> Seq(Entries)]
    /\ hash \in [Families -> [Buckets -> Seq(Entries)]]
    /\ patrol_flag \in SUBSET Families
    /\ ptr \in [Families -> Buckets]
    /\ recvd \in 0 .. MAX_RECV
    /\ out \in Outcome

\* Every cache entry is on exactly one list, once: the free list or one hash
\* bucket.  Nothing leaks when entries are taken, swept or the policies are
\* reloaded, and no TAILQ link is shared by two lists.
CachePartition ==
    \A f \in Families :
       /\ \A e \in Entries :
             e \in Members(free[f]) \/ \E b \in Buckets : e \in Members(hash[f][b])
       /\ \A i, j \in DOMAIN free[f] : free[f][i] = free[f][j] => i = j
       /\ \A b \in Buckets : Members(hash[f][b]) \cap Members(free[f]) = {}
       /\ \A b, c \in Buckets : b # c => Members(hash[f][b]) \cap Members(hash[f][c]) = {}
       /\ \A b \in Buckets : \A i, j \in DOMAIN hash[f][b] :
             hash[f][b][i] = hash[f][b][j] => i = j

\* A cached decision is the decision a fresh lookup would take now: each
\* entry in a bucket belongs there, refers to the first policy of the CURRENT
\* table that matches its source, and carries that policy's backend, the
\* backend's MAC and its status.
CacheCoherent ==
    \A f \in Families, b \in Buckets : \A e \in Members(hash[f][b]) :
       LET c == cache[f][e]
       IN  /\ HashCode[c.src] = b
           /\ Matches(f, c.src) # {}
           /\ c.pol = Least(Matches(f, c.src))
           /\ c.dst = pol[f][c.pol].svr
           /\ c.mac = svrs[f][c.dst].mac
           /\ c.stat = svrs[f][c.dst].status
           /\ c.stat \in {"SVR_OK", "SVR_DROP"}
           /\ c.op <=> c.stat = "SVR_OK"

\* A client has at most one cache entry: a lookup never caches a source that
\* is already cached, so the entry found first is the only one.
OneEntryPerSource ==
    \A f \in Families, b \in Buckets : \A i, j \in DOMAIN hash[f][b] :
       cache[f][hash[f][b][i]].src = cache[f][hash[f][b][j]].src => i = j

\* lb_stat is 0 exactly for the entries that are not in use, which is how the
\* dump of the cache (write_log_cli) tells the two apart.
StatTellsUse ==
    \A f \in Families, e \in Entries :
       cache[f][e].stat = "SVR_INIT" <=> e \in Members(free[f])

\* t is the running total of the packets that the policies of a list counted
\* for backend s, the counters wrapping round.
AddsUp(t, policies, s) ==
    /\ t[0] = 0
    /\ \A i \in DOMAIN policies :
          t[i] = IF policies[i].svr = s THEN (t[i - 1] + policies[i].hit_count) % CounterMod
                 ELSE t[i - 1]

\* The statistics agree: the packets counted for a server are the packets
\* counted for the policies that name it.
HitsAgree ==
    \A f \in Families, s \in Servers :
       \E t \in [0 .. Len(pol[f]) -> Counter] :
          AddsUp(t, pol[f], s) /\ t[Len(pol[f])] = svrs[f][s].hit

\* A patrol that was requested ends, whatever packets arrive meanwhile.
PatrolEnds == \A f \in Families : f \in patrol_flag ~> f \notin patrol_flag

\* A patrol gives back what it has not passed yet: a bucket in use at or
\* after the sweep's position is emptied.
PatrolReclaims ==
    \A f \in Families, b \in Buckets :
       (f \in patrol_flag /\ ptr[f] <= b /\ hash[f][b] # <<>>) ~> hash[f][b] = <<>>

\* Refinement: with the cache, the free list and the patrol hidden, this is
\* static distribution by the first matching policy.
D == INSTANCE Distribution WITH
        rules   <- [f \in Families |->
                      [i \in DOMAIN pol[f] |->
                         [addr |-> pol[f][i].addr, mask |-> pol[f][i].mask,
                          svr |-> pol[f][i].svr]]],
        backend <- [f \in Families |->
                      [s \in Servers |->
                         [status |-> svrs[f][s].status, mac |-> svrs[f][s].mac]]],
        out     <- out

\* The translator distributes as Distribution promises.
ImplementsDistribution == D!DSpec
=============================================================================
