----------------------------- MODULE ClientTable -----------------------------
(***************************************************************************)
(* One client statistics table of the backend translator                   *)
(* (back/client_tbl.c).  The program has four, equal but for the address   *)
(* type: up and down, IPv4 and IPv6; each belongs to one network thread    *)
(* (ingress: up, egress: down), which the dump reads from outside.         *)
(*                                                                         *)
(* The lists are SLISTs through one link per entry, and the module keeps   *)
(* that link: what the hash chains become when the entries run out is the  *)
(* whole point.  A search of a chain is one step per entry.                *)
(***************************************************************************)
EXTENDS Naturals, FiniteSets

CONSTANTS Clients,      \* client addresses (none is 0)
          NoAddr,       \* address 0, the contents of a cleared entry
          CLI_CACHE,    \* number of entries
          CLI_DIVISOR,  \* number of hash buckets
          HashCode,     \* ip_hash_code4/6
          CounterMod    \* hit is unsigned, modulo this

Entries == 1 .. CLI_CACHE
Buckets == 0 .. CLI_DIVISOR - 1
Null    == 0

ASSUME ClientTableAssumption ==
    /\ CLI_CACHE \in Nat \ {0} /\ CLI_DIVISOR \in Nat \ {0}
    /\ CounterMod \in Nat \ {0}
    /\ NoAddr \notin Clients
    /\ HashCode \in [Clients -> Buckets]

VARIABLES
    next,      \* next[e]: the SLIST link of entry e
    free,      \* first of the free list (cf_up4 ...)
    head,      \* head[b]: first of hash bucket b (ch_up4 ...)
    cli_ip,    \* cli_ip[e]
    hit,       \* hit[e]
    packet,    \* source of the packet being counted, NoAddr if none
    entry      \* local of get_ci: the entry the search has reached

table == <<next, free, head, cli_ip, hit>>
vars  == <<table, packet, entry>>

\* A chain of every entry, inserted at the head in ascending order.
FullFreeList == [e \in Entries |-> e - 1]

\* init_client_table.
Init ==
    /\ next = FullFreeList
    /\ free = CLI_CACHE
    /\ head = [b \in Buckets |-> Null]
    /\ cli_ip = [e \in Entries |-> NoAddr]
    /\ hit = [e \in Entries |-> 0]
    /\ packet = NoAddr
    /\ entry = Null

\* get_ci_up4 and its twins are called with the source (up) or the
\* destination (down) of a packet: the search starts at the bucket's head.
GetCi(c) ==
    /\ packet = NoAddr
    /\ packet' = c
    /\ entry' = head[HashCode[c]]
    /\ UNCHANGED table

\* A search that gives up after the head of the bucket.
SearchHeadOnly ==
    /\ packet # NoAddr
    /\ entry # Null /\ cli_ip[entry] # packet
    /\ entry' = Null
    /\ UNCHANGED <<table, packet>>

\* SLIST_FOREACH goes on to the next entry.
Search ==
    /\ packet # NoAddr
    /\ entry # Null /\ cli_ip[entry] # packet
    /\ entry' = next[entry]
    /\ UNCHANGED <<table, packet>>

\* The entry is found: it is counted, and the call returns.
Hit ==
    /\ packet # NoAddr
    /\ entry # Null /\ cli_ip[entry] = packet
    /\ hit' = [hit EXCEPT ![entry] = (@ + 1) % CounterMod]
    /\ packet' = NoAddr
    /\ entry' = Null
    /\ UNCHANGED <<next, free, head, cli_ip>>

\* Taking an entry without removing it from the free list.
CreKeepingFree(e, links, ips, hits) ==
    LET b == HashCode[packet]
    IN  /\ free' = e
        /\ next' = [links EXCEPT ![e] = head[b]]
        /\ head' = [head EXCEPT ![b] = e]
        /\ cli_ip' = [ips EXCEPT ![e] = packet]
        /\ hit' = [hits EXCEPT ![e] = (@ + 1) % CounterMod]

\* An entry that is filled but not inserted into its bucket.
CreNotInserted(e, links, ips, hits) ==
    /\ free' = links[e]
    /\ next' = links
    /\ UNCHANGED head
    /\ cli_ip' = [ips EXCEPT ![e] = packet]
    /\ hit' = [hits EXCEPT ![e] = (@ + 1) % CounterMod]

\* get_free_ci takes entry e, cre_ci fills it and puts it at the head of its
\* bucket, get_ci counts it.  links, ips and hits are the entries' contents.
Cre(e, links, ips, hits) ==
    LET b == HashCode[packet]
    IN  /\ free' = links[e]
        /\ next' = [links EXCEPT ![e] = head[b]]
        /\ head' = [head EXCEPT ![b] = e]
        /\ cli_ip' = [ips EXCEPT ![e] = packet]
        /\ hit' = [hits EXCEPT ![e] = (@ + 1) % CounterMod]

\* The address is in no entry of the chain and there is a free entry.
CreCi ==
    /\ packet # NoAddr /\ entry = Null
    /\ free # Null
    /\ Cre(free, next, cli_ip, hit)
    /\ packet' = NoAddr
    /\ UNCHANGED entry

\* There is none: clr_ci zeroes every entry, links included, and the free list
\* is built again.  The bucket heads are left as they are.
CreCiClear ==
    /\ packet # NoAddr /\ entry = Null
    /\ free = Null
    /\ Cre(CLI_CACHE, FullFreeList,
           [e \in Entries |-> NoAddr], [e \in Entries |-> 0])
    /\ packet' = NoAddr
    /\ UNCHANGED entry

Thread == Search \/ Hit \/ CreCi \/ CreCiClear

Next == (\E c \in Clients : GetCi(c)) \/ Thread

Spec == Init /\ [][Next]_vars

\* The network thread is scheduled; packets may stop coming.
FairSpec == Spec /\ WF_vars(Thread)

-----------------------------------------------------------------------------
(* Properties                                                                *)

TypeOK ==
    /\ next \in [Entries -> 0 .. CLI_CACHE]
    /\ free \in 0 .. CLI_CACHE
    /\ head \in [Buckets -> 0 .. CLI_CACHE]
    /\ cli_ip \in [Entries -> Clients \cup {NoAddr}]
    /\ hit \in [Entries -> 0 .. CounterMod - 1]
    /\ packet \in Clients \cup {NoAddr}
    /\ entry \in 0 .. CLI_CACHE

\* Every entry is free, with an empty address, or in use; the free list is the
\* free entries in descending order, so it is never cyclic and taking from it
\* never yields an entry in use, even after the table was cleared under chains
\* that still point into it.
FreeListIntact ==
    \A e \in Entries :
       /\ e <= free => next[e] = e - 1 /\ cli_ip[e] = NoAddr /\ hit[e] = 0
       /\ e > free => cli_ip[e] # NoAddr

\* A client has one entry in use: its packets are not split between two.
OneEntryPerClient ==
    \A e, d \in Entries : cli_ip[e] = cli_ip[d] /\ cli_ip[e] # NoAddr => e = d

\* The entries a search of bucket b can come to: those in every set that has
\* the head and, with an entry, the one its link leads to.
Closed(S) == \A e \in S : next[e] \in S \cup {Null}
Reachable(b) ==
    {e \in Entries : \A S \in SUBSET Entries :
        head[b] \in S \cup {Null} /\ Closed(S) => e \in S}

\* A client that has an entry is found by a search of its bucket.
InUseReachable ==
    \A e \in Entries : cli_ip[e] # NoAddr => e \in Reachable(HashCode[cli_ip[e]])

\* client_tbl.h documents hit as the number of packets of the client that
\* passed: a packet that reaches the table is counted, and goes on.
PacketCounted == packet # NoAddr ~> packet = NoAddr
=============================================================================
