----------------------------- MODULE MCPackets -----------------------------
(* Small instances of what is done with a frame and of the checksums of what *)
(* is sent.  They share no state here; one is explored while the other is at *)
(* its beginning, so that the state spaces add up.                           *)
EXTENDS Neighbour, Checksum

\* "client" is in the group of the virtual address, "peer" in the host's.
Groups == [a \in {"::", "vip", "host", "server", "client", "peer", "ff02::1"} |->
              CASE a \in {"vip", "client"} -> 1
                [] a \in {"host", "peer"} -> 2
                [] OTHER -> 3]

\* get_interface_info: without a virtual address the host's stands for it.
VipOf(c) == c.vip4 = c.vip6 /\ c.vip4 = (IF c.vip_mode THEN "vip" ELSE "host")

TheConfigs ==
    {c \in [side : {"front", "ingress"}, vip_mode : BOOLEAN, v4_enable : BOOLEAN,
            v6_enable : BOOLEAN, vip4 : {"vip", "host"}, vip6 : {"vip", "host"},
            sip4 : {"host"}, sip6 : {"host"}] : VipOf(c)}
    \cup
    {c \in [side : {"egress"}, vip_mode : BOOLEAN, v4_enable : BOOLEAN,
            v6_enable : BOOLEAN, vip4 : {"vip", "host"}, vip6 : {"vip", "host"},
            sip4 : {"host"}, sip6 : {"host"}, svr_ip4 : {"server"}, l3 : BOOLEAN,
            gw_mac : {"gateway"}, lookups : {0, 2, 3}, found : {"unknown", "m"}] : VipOf(c)}

ArpFrames ==
    [prot : {"ARP"}, to : {"broadcast", "multicast", "own", "other"},
     h_source : {"n", "own"}, h_dest : {"unknown"}, template : BOOLEAN,
     sha : {"n", "m"}, spa : {"client", "server"}, tha : {"unknown"},
     tpa : {"vip", "host", "server", "client"}]

Ns(to, group, opts, optlen) ==
    [prot : {"IPV6"}, type : {"NS"}, h_source : {"n"}, to : {to}, group : {group},
     ip_src : {"::", "client"}, ip_dst : {"vip", "host"}, flaw : {"none", "bad"},
     plen : {24, 256}, target : DOMAIN Groups, opts : {opts}, optlen : {optlen}]

NsFrames ==
    UNION {Ns(a[1], a[2], o[1], o[2]) :
             a \in {<<"group", 1>>, <<"group", 2>>, <<"group", 3>>, <<"own", 0>>,
                    <<"other", 0>>, <<"multicast", 0>>},
             o \in {<< <<>>, 0>>, << <<1, 2>>, 24>>, << <<1, 2>>, 16>>, << <<0>>, 8>>}}

DataFrames ==
    [prot : {"IP"}, to : {"own", "broadcast"}, h_source : {"n", "own"}]
    \cup [prot : {"IPV6"}, type : {"data"}, to : {"own", "multicast"}, h_source : {"n"}]

TheFrames == ArpFrames \cup NsFrames \cup DataFrames

PacketsInit == FrameInit /\ SumInit

PacketsNext ==
    \/ rest = 0 /\ na = 0 /\ FrameNext /\ UNCHANGED sumVars
    \/ cf = Nothing /\ SumNext /\ UNCHANGED frameVars

PacketsSpec == PacketsInit /\ [][PacketsNext]_<<frameVars, sumVars>>
=============================================================================
