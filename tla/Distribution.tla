---------------------------- MODULE Distribution ----------------------------
(***************************************************************************)
(* What the front translator promises its clients: static distribution.   *)
(* A packet sent to the virtual IP goes to the backend of the FIRST policy *)
(* whose (address, mask) matches the packet's source, whatever was sent    *)
(* before it; a policy whose backend is the all-zero address discards it.  *)
(* There is no cache here: PolicyCache, the model of front/pol_lookup.c,   *)
(* is checked to implement this module.                                   *)
(*                                                                         *)
(* An address is the set of its one bits, so that "addr & mask" is \cap.   *)
(***************************************************************************)
EXTENDS Naturals, Sequences, FiniteSets

CONSTANTS Families,     \* address families: IPv4 and IPv6
          Bits,         \* bit positions of a client address
          Servers,      \* backend addresses that a policy may name
          ZeroIP,       \* the all-zero backend address: "discard"
          Macs,         \* MAC addresses a lookup of the kernel may return
          NoMac         \* the all-zero MAC address

VARIABLES rules,        \* rules[f]: sequence of [addr, mask, svr]
          backend,      \* backend[f][s]: [status, mac]
          out           \* what happened to the last packet

dvars == <<rules, backend, out>>

Addr == SUBSET Bits

Status == {"NONE", "SVR_INIT", "SVR_OK", "SVR_DROP"}

Rule == [addr : Addr, mask : Addr, svr : Servers]

Backend == [status : Status, mac : Macs \cup {NoMac}]

\* The outcome of a packet of family f from src (vip: it was addressed to the
\* virtual IP): written towards backend s, or counted and discarded.
Forward(f, src, s, m) ==
    [fam |-> f, src |-> src, vip |-> TRUE, to |-> s, mac |-> m]
Discard(f, src, vip) ==
    [fam |-> f, src |-> src, vip |-> vip, to |-> "nowhere", mac |-> NoMac]
NoPacket == [fam |-> "none", src |-> {}, vip |-> FALSE, to |-> "nowhere", mac |-> NoMac]

Matches(f, src) ==
    {i \in DOMAIN rules[f] : src \cap rules[f][i].mask = rules[f][i].addr}

Least(S) == CHOOSE i \in S : \A j \in S : i <= j

-----------------------------------------------------------------------------

\* The table the administrator wrote: any rules over any backends; a backend
\* that a rule names is known, unknown yet, or the discard address.
IsTable(r, b) ==
    /\ r \in [Families -> Seq(Rule)]
    /\ b \in [Families -> [Servers -> Backend]]
    /\ \A f \in Families : \A i \in DOMAIN r[f] :
         LET s == r[f][i].svr
         IN  /\ s = ZeroIP <=> b[f][s].status = "SVR_DROP"
             /\ b[f][s].status # "NONE"

DInit == IsTable(rules, backend) /\ out = NoPacket

\* The administrator replaces the table.
Replace ==
    /\ IsTable(rules', backend')
    /\ out' = NoPacket

\* A packet that is not addressed to the virtual IP, or that matches no rule.
Unmatched(f, src, vip) ==
    /\ vip => Matches(f, src) = {}
    /\ out' = Discard(f, src, vip)
    /\ UNCHANGED <<rules, backend>>

\* The first matching rule names a backend whose MAC is known, or "discard".
Known(f, src) ==
    /\ Matches(f, src) # {}
    /\ LET s == rules[f][Least(Matches(f, src))].svr
       IN  \/ /\ backend[f][s].status = "SVR_OK"
              /\ out' = Forward(f, src, s, backend[f][s].mac)
           \/ /\ backend[f][s].status = "SVR_DROP"
              /\ out' = Discard(f, src, TRUE)
    /\ UNCHANGED <<rules, backend>>

\* It names a backend whose MAC is not known yet: the MAC may be learnt, in
\* time for this packet or not.
Unknown(f, src) ==
    /\ Matches(f, src) # {}
    /\ LET s == rules[f][Least(Matches(f, src))].svr
       IN  /\ backend[f][s].status = "SVR_INIT"
           /\ \/ /\ backend' = [backend EXCEPT ![f][s].mac = NoMac]
                 /\ out' = Discard(f, src, TRUE)
              \/ \E m \in Macs :
                    /\ backend' = [backend EXCEPT
                                     ![f][s] = [status |-> "SVR_OK", mac |-> m]]
                    /\ out' \in {Forward(f, src, s, m), Discard(f, src, TRUE)}
    /\ UNCHANGED rules

DNext ==
    \/ Replace
    \/ \E f \in Families, src \in Addr :
          \/ \E vip \in BOOLEAN : Unmatched(f, src, vip)
          \/ Known(f, src)
          \/ Unknown(f, src)

DSpec == DInit /\ [][DNext]_dvars
=============================================================================
