----------------------------- MODULE Neighbour -----------------------------
(***************************************************************************)
(* What a translator does with one frame: the dispatch of a received frame *)
(* (proc_recv_data of the front, proc_ingress_data and proc_egress_data of *)
(* the backend) and the answers to ARP requests and neighbour              *)
(* solicitations (common/arp_proc.c, back/mac_resolution.c), as built with *)
(* L_MODE (back/option.h).                                                 *)
(***************************************************************************)
EXTENDS Integers, SequencesExt

CONSTANTS
    OwnMac,    \* the MAC of the interface the frame comes in at
    Unknown,   \* no MAC
    Zero6,     \* "::"
    Multi6,    \* IPv6 multicast addresses
    Group,     \* the last three bytes of every IPv6 address
    Configs,   \* configurations of a side; see the fields below
    Frames     \* frames that may arrive

\* A configuration: side, vip_mode, v4_enable, v6_enable, vip4, vip6 (with
\* vip_mode off the host's own addresses), sip4, sip6; at the server's side also
\* svr_ip4, l3 (L3_MODE), gw_mac, lookups (how many it takes to find gw_mac) and
\* found (what resolve_mac says of the address that is asked for).
\*
\* A frame: prot, h_source, to (how it is addressed: "broadcast", "group" for
\* 33:33:ff and the group's three bytes, "multicast", "own", "other").  ARP:
\* template (its header is that of a request), sha, spa, tpa.  IPv6: type ("NS",
\* "data"), ip_src, ip_dst, and of a solicitation target, plen, flaw, opts (the
\* lengths that stand where options begin), optlen (bytes behind NS_BASE_SIZE).

ASSUME NeighbourAssumption ==
    /\ OwnMac # Unknown /\ Zero6 \in DOMAIN Group \ Multi6
    /\ \A c \in Configs :
          /\ c.side \in {"front", "ingress", "egress"}
          \* A virtual address is not the host's and no multicast address; no
          \* neighbour has the MAC of this interface.
          /\ c.vip_mode => c.vip6 # c.sip6 /\ c.vip6 \notin Multi6
          /\ c.side = "egress" => OwnMac \notin {c.gw_mac, c.found}
    /\ \A f \in Frames :
          /\ f.to \in {"broadcast", "group", "multicast", "own", "other"}
          /\ f.prot = "ARP" =>
                {"h_dest", "h_source", "sha", "spa", "tha", "tpa"} \subseteq DOMAIN f
          /\ f.prot = "IPV6" /\ f.type = "NS" => f.plen \in Nat /\ f.optlen \in Int

VARIABLES
    cf,       \* the configuration
    frame,    \* the frame
    answer    \* what was done with it: nothing, passed on, an ARP reply, an NA

frameVars == <<cf, frame, answer>>

Nothing == [do |-> "nothing"]
Pass(p) == [do |-> "pass", prot |-> p]
FrameInit == cf = Nothing /\ frame = Nothing /\ answer = Nothing

(***************************************************************************)
(* Reading a solicitation                                                  *)
(***************************************************************************)

Swap(n) == (n % 256) * 256 + (n \div 256)

NS_SIZE == 24

\* Only what is longer than a solicitation without options.
IsNsLonger(f) == f.type = "NS" /\ f.plen > NS_SIZE /\ f.optlen >= 0

\* get_icmp6_ns compares the payload length in network order.
IsNs(f) == f.type = "NS" /\ Swap(f.plen) >= NS_SIZE /\ f.optlen >= 0

\* The options are walked to the end of the frame: they tile it exactly.
OptionsOk(lens, optlen) ==
    \E n \in 0 .. Len(lens) :
        /\ \A i \in 1 .. n : lens[i] > 0
        /\ 8 * FoldLeft(LAMBDA x, y : x + y, 0, SubSeq(lens, 1, n)) = optlen

\* The source is not looked at.
ValidNsAny(f, ipaddr, proxy_mode) ==
    /\ f.flaw = "none"
    /\ f.target \notin Multi6
    /\ proxy_mode \/ f.target = ipaddr
    /\ OptionsOk(f.opts, f.optlen)

\* check_valid_ns; flaw is a hop limit below 255, a code, or a bad checksum.
ValidNs(f, ipaddr, proxy_mode) ==
    /\ f.ip_src # Zero6
    /\ f.flaw = "none"
    /\ f.target \notin Multi6
    /\ proxy_mode \/ f.target = ipaddr
    /\ OptionsOk(f.opts, f.optlen)

(***************************************************************************)
(* Writing an answer                                                       *)
(***************************************************************************)

\* The request is rewritten in place, one field after the other.
Set(p, field, v) == [p EXCEPT ![field] = v]

\* The sender's address is stored before the target's was saved.
ArpBodyUnsaved(f, mac) ==
    LET p1 == Set(Set(f, "h_dest", f.sha), "h_source", mac)
        p2 == Set(Set(p1, "tha", p1.sha), "tpa", p1.spa)
    IN  Set(Set(p2, "sha", mac), "spa", p2.tpa)

\* arp_reply, arp_proxy_body
ArpBody(f, mac) ==
    LET ip == f.tpa
        p1 == Set(Set(f, "h_dest", f.sha), "h_source", mac)
        p2 == Set(Set(p1, "tha", p1.sha), "tpa", p1.spa)
    IN  Set(Set(p2, "sha", mac), "spa", ip)

ArpAnswer(f, mac) ==
    IF f.template THEN [do |-> "arp", sent |-> ArpBody(f, mac)] ELSE Nothing

\* send_icmp6_na and send_na_body; the latter compares the group of the frame
\* with the target's, which in the former's case is vip6.
NaMessage(f, src, mac, mcast) ==
    [h_dest |-> f.h_source, h_source |-> mac, ip_src |-> src,
     ip_dst |-> f.ip_src, target |-> src, override |-> mcast,
     lladdr |-> IF mcast THEN mac ELSE Unknown]

NaAnswer(f, src, mac, mcast) ==
    [do |-> "na", sent |-> NaMessage(f, src, mac, mcast)]

NaBody(f, mac, mcast) ==
    IF mcast /\ f.group # Group[f.target]
    THEN Nothing ELSE NaAnswer(f, f.target, mac, mcast)

(***************************************************************************)
(* The side of the clients                                                 *)
(***************************************************************************)

\* arp_reply
ArpReply(f) == IF f.tpa = cf.vip4 THEN ArpAnswer(f, OwnMac) ELSE Nothing

\* mac_resolve
MacResolve(f) ==
    CASE f.to = "broadcast" /\ f.prot = "ARP" /\ cf.v4_enable -> ArpReply(f)
      [] f.to = "group" /\ f.prot = "IPV6" /\ cf.v6_enable
            /\ f.group = Group[cf.vip6] /\ IsNs(f) /\ ValidNs(f, cf.vip6, FALSE)
         -> NaAnswer(f, cf.vip6, OwnMac, TRUE)
      [] OTHER -> Nothing

\* mac_resolve_uc6
MacResolveUc6(f) ==
    IF cf.v6_enable /\ f.ip_dst = cf.vip6 /\ ValidNs(f, cf.vip6, FALSE)
    THEN NaAnswer(f, cf.vip6, OwnMac, FALSE) ELSE Nothing

\* The frames that carry data: IPv4 and IPv6 packets for the table lookup.
Unicast(f, arp, ns) ==
    CASE f.prot = "IP" -> Pass("v4")
      [] f.prot = "IPV6" /\ IsNs(f) -> ns
      [] f.prot = "IPV6" /\ ~IsNs(f) -> Pass("v6")
      [] f.prot = "ARP" /\ cf.v4_enable -> arp
      [] OTHER -> Nothing

Multicast(f) == f.to \in {"broadcast", "group", "multicast"}

\* proc_recv_data: the front leaves multicasts to the kernel when the address
\* is the host's own.
ProcRecvData(f) ==
    CASE f.h_source = OwnMac -> Nothing
      [] f.h_source # OwnMac /\ Multicast(f) ->
            IF cf.vip_mode THEN MacResolve(f) ELSE Nothing
      [] OTHER -> Unicast(f, ArpReply(f), IF cf.vip_mode THEN MacResolveUc6(f) ELSE Nothing)

\* proc_ingress_data
ProcIngressData(f) ==
    CASE f.h_source = OwnMac -> Nothing
      [] f.h_source # OwnMac /\ Multicast(f) -> MacResolve(f)
      [] OTHER -> Unicast(f, ArpReply(f), IF cf.vip_mode THEN MacResolveUc6(f) ELSE Nothing)

(***************************************************************************)
(* The side of the server                                                  *)
(***************************************************************************)

\* arp_gw_reply, send_gw_na look at the gateway's MAC three times, each time
\* before they look it up; cf.lookups is how many lookups it takes.
GwMac == IF cf.lookups < 3 THEN cf.gw_mac ELSE Unknown

\* cf.found is what resolve_mac says of the address asked for.
GwOrProxyMac == IF cf.l3 THEN GwMac ELSE cf.found

\* arp_egress_reply
ArpEgressReply(f) ==
    IF f.tpa \notin {cf.sip4, cf.svr_ip4} /\ GwOrProxyMac # Unknown
    THEN ArpAnswer(f, GwOrProxyMac) ELSE Nothing

\* send_gw_na, send_proxy_na
NaWith(f, mac, mcast) == IF mac = Unknown THEN Nothing ELSE NaBody(f, mac, mcast)

\* mac_resolve_egress
NsEgress(f) ==
    CASE cf.vip_mode /\ f.to = "group" /\ f.group = Group[cf.vip6] ->
            IF ValidNs(f, cf.vip6, FALSE) THEN NaWith(f, GwMac, TRUE) ELSE Nothing
      [] ~(cf.vip_mode /\ f.group = Group[cf.vip6])
            /\ f.to = "group" /\ f.group # Group[cf.sip6] ->
            IF ValidNs(f, Zero6, TRUE) THEN NaWith(f, GwOrProxyMac, TRUE) ELSE Nothing
      [] OTHER -> Nothing

MacResolveEgress(f) ==
    CASE f.to = "broadcast" /\ f.prot = "ARP" /\ cf.v4_enable -> ArpEgressReply(f)
      [] f.to \in {"group", "multicast"} /\ f.prot = "IPV6" /\ cf.v6_enable /\ IsNs(f)
         -> NsEgress(f)
      [] OTHER -> Nothing

\* mac_resolve_uc6_egress
MacResolveUc6Egress(f) ==
    CASE ~cf.v6_enable -> Nothing
      [] cf.v6_enable /\ f.to = "own" ->
            IF cf.vip_mode /\ ValidNs(f, cf.vip6, FALSE)
            THEN NaWith(f, GwMac, FALSE) ELSE Nothing
      [] OTHER -> IF ValidNs(f, Zero6, TRUE)
                  THEN NaWith(f, GwOrProxyMac, FALSE) ELSE Nothing

\* proc_egress_data
ProcEgressData(f) ==
    CASE f.h_source = OwnMac -> Nothing
      [] f.h_source # OwnMac /\ Multicast(f) -> MacResolveEgress(f)
      [] OTHER -> Unicast(f, ArpEgressReply(f), MacResolveUc6Egress(f))

(***************************************************************************)
(* One frame                                                               *)
(***************************************************************************)

Configure ==
    /\ cf = Nothing
    /\ cf' \in Configs
    /\ UNCHANGED <<frame, answer>>

\* A frame arrives at one side, and is handled to its end.
Receive(side) ==
    /\ cf # Nothing /\ cf.side = side /\ frame = Nothing
    /\ frame' \in Frames
    /\ UNCHANGED cf

FrameNext ==
    \/ Configure
    \/ Receive("front")   /\ answer' = ProcRecvData(frame')
    \/ Receive("ingress") /\ answer' = ProcIngressData(frame')
    \/ Receive("egress")  /\ answer' = ProcEgressData(frame')

FrameSpec == FrameInit /\ [][FrameNext]_frameVars

(***************************************************************************)
(* Properties                                                              *)
(***************************************************************************)

\* An answer, written over the request or from it, goes back to who asked and
\* says what was asked for: the client's side says where the virtual address
\* is (here), the server's side never says that an address is at the
\* translator.
AnswerEchoes ==
    answer.do \in {"arp", "na"} =>
       LET s == answer.sent
           theMac == IF cf.side = "egress" THEN {cf.gw_mac, cf.found} \ {Unknown, OwnMac}
                     ELSE {OwnMac}
       IN  /\ s.h_source \in theMac
           /\ answer.do = "arp" =>
                 /\ s.h_dest = frame.sha /\ s.tha = frame.sha /\ s.tpa = frame.spa
                 /\ s.sha = s.h_source /\ s.spa = frame.tpa
                 /\ cf.side # "egress" => s.spa = cf.vip4
           /\ answer.do = "na" =>
                 /\ s.h_dest = frame.h_source /\ s.ip_dst = frame.ip_src
                 /\ s.target = frame.target /\ s.ip_src = frame.target
                 /\ cf.side # "egress" => s.target = cf.vip6

\* No host is told that its address is taken: a probe for duplicates (source
\* "::") is not answered, the server's ARP for its own address is not, and at
\* the server's side nobody but the host answers for the host: no ARP reply for
\* sip4, no answer to a solicitation of the group with target sip6.
NoAddressTaken ==
    /\ answer.do = "na" => frame.ip_src # Zero6
    /\ cf # Nothing /\ cf.side = "egress" =>
          /\ answer.do = "arp" => frame.tpa \notin {cf.sip4, cf.svr_ip4}
          /\ answer.do = "na" /\ frame.to = "group" => frame.target # cf.sip6

\* The virtual address is found: every well-formed request for it from the
\* clients' side is answered, broadcast, to the group or to the host.  (A
\* payload of 256 bytes and more may look short to get_icmp6_ns.)
VipAnswered ==
    cf # Nothing /\ frame # Nothing /\ cf.side # "egress" /\ cf.vip_mode
    /\ frame.h_source # OwnMac =>
       /\ frame.prot = "ARP" /\ cf.v4_enable /\ frame.template /\ frame.tpa = cf.vip4
          /\ frame.to \in {"broadcast", "own"} => answer.do = "arp"
       /\ frame.prot = "IPV6" => (frame.type = "NS" /\ cf.v6_enable
          /\ frame.flaw = "none" /\ frame.ip_src # Zero6 /\ frame.target = cf.vip6
          /\ frame.plen \in NS_SIZE .. 255
          /\ frame.optlen >= 0 /\ OptionsOk(frame.opts, frame.optlen)
          /\ \/ frame.to = "group" /\ frame.group = Group[cf.vip6]
             \/ frame.to = "own" /\ frame.ip_dst = cf.vip6
          => answer.do = "na")
=============================================================================
