-------------------------- MODULE BackendTranslator --------------------------
(***************************************************************************)
(* The backend translator's start and its two network threads: main of     *)
(* back/backend.c, the start-up functions of back/back_init.c, and the     *)
(* rewriting of packets, with the MAC addresses it needs                   *)
(* (back/mac_resolution.c: resolve_mac, arp_gw_reply, send_gw_na).         *)
(*                                                                         *)
(* The ingress thread receives from clients and writes to the server's     *)
(* interface, the egress thread the other way round: each writes to the    *)
(* socket that the other one opened.  The server's MAC is shared by the    *)
(* address families and belongs to the ingress thread once it runs, the    *)
(* gateways' MACs to the egress thread.  No lock is taken.                 *)
(*                                                                         *)
(* The client statistics that every packet updates are ClientTable's.      *)
(***************************************************************************)
EXTENDS Naturals, Sequences

CONSTANTS Families,      \* AF_INET, AF_INET6
          Macs,          \* MACs the kernel may return
          NoMac,         \* the all-zero MAC
          CreateMayFail, \* may pthread_create fail?
          OpenMayFail    \* may init_socket_if fail?

ASSUME BackendAssumption ==
    /\ NoMac \notin Macs /\ "as_received" \notin Macs \cup {NoMac}
    /\ CreateMayFail \in BOOLEAN /\ OpenMayFail \in BOOLEAN

\* main's array flag[], in the order of creation.
NetThreads == <<"egress", "ingress">>
THREAD_NUM == Len(NetThreads)
Threads    == {NetThreads[i] : i \in 1 .. THREAD_NUM}

VARIABLES
    main,      \* where main is
    i,         \* wait_thread's local: threads dealt with
    pc,        \* pc[t]: where network thread t is
    flag,      \* flag[t]: THREAD_INIT, THREAD_WAKE, THREAD_GO
    sockets,   \* interfaces whose sockfd is an open socket
    vip_mode,  \* 0 or 1
    vip,       \* families of which if_ingress has a (virtual) address
    svr_ip,    \* families of which the server's address is configured
    enable,    \* v4_enable, v6_enable of if_ingress (in), if_egress (eg), svr
    svr,       \* svr_info: [stat, mac]
    gw_mac,    \* gw_mac[f]: [valid, mac]
    pkt,       \* pkt[t]: the packet in thread t's buffer: [fam, gw]
    out        \* the last frame written: [by, fam, mac, dst]

threadVars == <<pc, flag, sockets>>
confVars   == <<vip_mode, vip, svr_ip>>
macVars    == <<svr, gw_mac>>
packetVars == <<pkt, out>>
vars == <<main, i, threadVars, confVars, enable, macVars, packetVars>>

MainPoints   == {"svr_info", "marge", "gw", "create", "wait", "go", "command", "exit"}
\* Points of a thread that is past sync_thread.
LoopPoints   == {"recv", "rewrite", "write", "ask"}
ThreadPoints == {"none", "init", "sync"} \cup LoopPoints

Mac == Macs \cup {NoMac}
NoFrame == [by |-> "none", fam |-> "none", mac |-> NoMac, dst |-> "none"]
NoPkt   == [fam |-> "none", gw |-> FALSE]

\* The interfaces have been read: which families each of them can serve
\* depends on the addresses found and the properties set.
Init ==
    /\ main = "svr_info" /\ i = 0
    /\ pc = [t \in Threads |-> "none"]
    /\ flag = [t \in Threads |-> "THREAD_INIT"]
    /\ sockets = {}
    /\ vip_mode \in {0, 1}
    /\ vip \in SUBSET Families /\ svr_ip \in SUBSET Families
    /\ enable \in [in : {vip}, eg : SUBSET Families, svr : {{}}]
    /\ svr = [stat |-> "SVR_INIT", mac |-> NoMac]
    /\ gw_mac = [f \in Families |-> [valid |-> FALSE, mac |-> NoMac]]
    /\ pkt = [t \in Threads |-> NoPkt]
    /\ out = NoFrame

-----------------------------------------------------------------------------
(* MAC resolution                                                            *)

\* What resolve_mac leaves for a family's server address: the kernel's answer
\* to one of three attempts, or zero; always zero if no address is set.
SvrAnswers(f) == IF f \in svr_ip THEN Mac ELSE {NoMac}

SvrWith(m) == [stat |-> IF m = NoMac THEN "SVR_INIT" ELSE "SVR_OK", mac |-> m]
GwWith(m)  == [valid |-> m # NoMac, mac |-> m]

-----------------------------------------------------------------------------
(* main, before there is another thread                                      *)

\* get_svr_info: the families in turn, until one yields the MAC.
GetSvrInfo ==
    /\ main = "svr_info"
    /\ enable' = [enable EXCEPT !.svr = svr_ip]
    /\ \E m \in UNION {SvrAnswers(f) : f \in Families} : svr' = SvrWith(m)
    /\ main' = "marge"
    /\ UNCHANGED <<i, threadVars, confVars, gw_mac, packetVars>>

\* A merge that looks at the interfaces only.
MargeInterfaces ==
    /\ main = "marge"
    /\ LET both == enable.in \cap enable.eg
       IN  enable' = [in |-> both, eg |-> both, svr |-> both]
    /\ main' = "gw"
    /\ UNCHANGED <<i, threadVars, confVars, macVars, packetVars>>

\* marge_info: a family is enabled everywhere or nowhere.
MargeInfo ==
    /\ main = "marge"
    /\ LET all == enable.in \cap enable.eg \cap enable.svr
       IN  enable' = [in |-> all, eg |-> all, svr |-> all]
    /\ main' = "gw"
    /\ UNCHANGED <<i, threadVars, confVars, macVars, packetVars>>

\* get_default_gw for the enabled families, and sync_init.
GetDefaultGw ==
    /\ main = "gw"
    /\ \E m \in [enable.in -> Mac] :
          gw_mac' = [f \in Families |->
                        IF f \in enable.in THEN GwWith(m[f]) ELSE gw_mac[f]]
    /\ flag' = [t \in Threads |-> "THREAD_INIT"]
    /\ main' = "create"
    /\ UNCHANGED <<i, pc, sockets, confVars, enable, svr, packetVars>>

\* create_back_thread, for the egress, then the ingress thread.  A failing
\* pthread_create returns a positive number, which is taken for a success.
CreateBackThread ==
    /\ main = "create"
    /\ \E p \in {"init"} \cup (IF CreateMayFail THEN {"none"} ELSE {}) :
          pc' = [pc EXCEPT ![NetThreads[i + 1]] = p]
    /\ i' = (i + 1) % THREAD_NUM
    /\ main' = IF i + 1 = THREAD_NUM THEN "wait" ELSE "create"
    /\ UNCHANGED <<flag, sockets, confVars, enable, macVars, packetVars>>

\* A wait that ends with the first thread.
WaitFirst ==
    /\ main = "wait"
    /\ flag[NetThreads[1]] = "THREAD_WAKE"
    /\ main' = "go"
    /\ UNCHANGED <<i, threadVars, confVars, enable, macVars, packetVars>>

\* wait_thread: every thread in turn, then all are told to go.
WaitThread ==
    /\ main = "wait"
    /\ flag[NetThreads[i + 1]] = "THREAD_WAKE"
    /\ i' = (i + 1) % THREAD_NUM
    /\ main' = IF i + 1 = THREAD_NUM THEN "go" ELSE "wait"
    /\ UNCHANGED <<threadVars, confVars, enable, macVars, packetVars>>

\* Telling the first thread only.
ReleaseFirst ==
    /\ main = "go"
    /\ flag' = [flag EXCEPT ![NetThreads[1]] = "THREAD_GO"]
    /\ main' = "command"
    /\ UNCHANGED <<i, pc, sockets, confVars, enable, macVars, packetVars>>

Release ==
    /\ main = "go"
    /\ flag' = [flag EXCEPT ![NetThreads[i + 1]] = "THREAD_GO"]
    /\ i' = (i + 1) % THREAD_NUM
    /\ main' = IF i + 1 = THREAD_NUM THEN "command" ELSE "go"
    /\ UNCHANGED <<pc, sockets, confVars, enable, macVars, packetVars>>

-----------------------------------------------------------------------------
(* A network thread: its start and its loop                                  *)

ThreadStep(t, from, to) ==
    /\ main # "exit"
    /\ pc[t] = from
    /\ pc' = [pc EXCEPT ![t] = to]

\* init_socket_if, sockfd, THREAD_WAKE.
OpenSocket(t) ==
    /\ ThreadStep(t, "init", "sync")
    /\ sockets' = sockets \cup {t}
    /\ flag' = [flag EXCEPT ![t] = "THREAD_WAKE"]
    /\ UNCHANGED <<main, i, confVars, enable, macVars, packetVars>>

\* init_socket_if fails: exit(1) ends the process.
OpenFails(t) ==
    /\ OpenMayFail
    /\ ThreadStep(t, "init", "none")
    /\ main' = "exit"
    /\ UNCHANGED <<i, flag, sockets, confVars, enable, macVars, packetVars>>

\* A thread that does not wait to be told to go.
SyncNot(t) ==
    /\ ThreadStep(t, "sync", "recv")
    /\ UNCHANGED <<main, i, flag, sockets, confVars, enable, macVars, packetVars>>

SyncThread(t) ==
    /\ ThreadStep(t, "sync", "recv")
    /\ flag[t] = "THREAD_GO"
    /\ UNCHANGED <<main, i, flag, sockets, confVars, enable, macVars, packetVars>>

\* recv and the dispatch, down to the start of proc_v4_in / proc_v6_in.
\* Packets for another address than the virtual one change nothing here.
RecvIn(f) ==
    /\ f \in vip
    /\ ThreadStep("ingress", "recv", "rewrite")
    /\ pkt' = [pkt EXCEPT !["ingress"] = [fam |-> f, gw |-> FALSE]]
    /\ UNCHANGED <<main, i, flag, sockets, confVars, enable, macVars, out>>

\* An unknown MAC that does not stop the packet.
ProcInUnchecked ==
    /\ ThreadStep("ingress", "rewrite", "write")
    /\ \E m \in SvrAnswers(pkt["ingress"].fam) : svr' = [stat |-> "SVR_OK", mac |-> m]
    /\ UNCHANGED <<main, i, flag, sockets, confVars, enable, gw_mac, packetVars>>

\* proc_v4_in / proc_v6_in before the write: the server's MAC is known, or
\* resolved now; the packet is dropped if it cannot be.
ProcIn ==
    /\ \/ /\ svr.stat = "SVR_OK"
          /\ ThreadStep("ingress", "rewrite", "write")
          /\ UNCHANGED svr
       \/ /\ svr.stat = "SVR_INIT"
          /\ \E m \in SvrAnswers(pkt["ingress"].fam) :
                /\ svr' = SvrWith(m)
                /\ ThreadStep("ingress", "rewrite", IF m = NoMac THEN "recv" ELSE "write")
    /\ UNCHANGED <<main, i, flag, sockets, confVars, enable, gw_mac, packetVars>>

\* The write to if_egress->sockfd, with the server's MAC and address: zero if
\* the server has no address of this family.
WriteIn ==
    /\ ThreadStep("ingress", "write", "recv")
    /\ LET f == pkt["ingress"].fam
       IN  out' = [by |-> "ingress", fam |-> f, mac |-> svr.mac,
                   dst |-> IF f \in svr_ip THEN "server" ELSE "zero"]
    /\ UNCHANGED <<main, i, flag, sockets, confVars, enable, macVars, pkt>>

\* A packet of the server: proc_v4_eg_vip / proc_v6_eg_vip pass it on as it
\* is; so do the functions of the other mode, unless it was sent to the
\* translator's own MAC (gw), as to a gateway.
RecvEg(f, gw) ==
    /\ ThreadStep("egress", "recv",
                  IF vip_mode = 0 /\ gw THEN "rewrite" ELSE "write")
    /\ pkt' = [pkt EXCEPT !["egress"] = [fam |-> f, gw |-> vip_mode = 0 /\ gw]]
    /\ UNCHANGED <<main, i, flag, sockets, confVars, enable, macVars, out>>

\* A gateway's MAC that is looked up for every packet.
ProcEgAlways ==
    /\ pc["egress"] = "rewrite"
    /\ \E m \in Mac :
          /\ gw_mac' = [gw_mac EXCEPT ![pkt["egress"].fam] = GwWith(m)]
          /\ ThreadStep("egress", "rewrite", IF m = NoMac THEN "recv" ELSE "write")
    /\ UNCHANGED <<main, i, flag, sockets, confVars, enable, svr, packetVars>>

\* proc_v4_eg_novip / proc_v6_eg_novip before the write.
ProcEg ==
    /\ pc["egress"] = "rewrite"
    /\ \/ /\ gw_mac[pkt["egress"].fam].valid
          /\ ThreadStep("egress", "rewrite", "write")
          /\ UNCHANGED gw_mac
       \/ /\ ~gw_mac[pkt["egress"].fam].valid
          /\ \E m \in Mac :
                /\ gw_mac' = [gw_mac EXCEPT ![pkt["egress"].fam] = GwWith(m)]
                /\ ThreadStep("egress", "rewrite", IF m = NoMac THEN "recv" ELSE "write")
    /\ UNCHANGED <<main, i, flag, sockets, confVars, enable, svr, packetVars>>

WriteEg ==
    /\ ThreadStep("egress", "write", "recv")
    /\ LET p == pkt["egress"]
       IN  out' = [by |-> "egress", fam |-> p.fam, dst |-> "client",
                   mac |-> IF p.gw THEN gw_mac[p.fam].mac ELSE "as_received"]
    /\ UNCHANGED <<main, i, flag, sockets, confVars, enable, macVars, pkt>>

\* The server asks for a MAC that is answered with the gateway's.
Solicit(f) ==
    /\ f \in enable.eg
    /\ ThreadStep("egress", "recv", "ask")
    /\ pkt' = [pkt EXCEPT !["egress"] = [fam |-> f, gw |-> TRUE]]
    /\ UNCHANGED <<main, i, flag, sockets, confVars, enable, macVars, out>>

GwReply(f, m) == [by |-> "egress", fam |-> f, dst |-> "server", mac |-> m]

\* arp_gw_reply / send_gw_na: at most three look-ups, each followed by the
\* test of validity, except for the last one: its MAC answers nothing yet.
ReplyGw ==
    /\ ThreadStep("egress", "ask", "recv")
    /\ LET f == pkt["egress"].fam
       IN  \/ /\ gw_mac[f].valid
              /\ out' = GwReply(f, gw_mac[f].mac)
              /\ UNCHANGED gw_mac
           \/ /\ ~gw_mac[f].valid
              /\ \E m \in Mac, late \in BOOLEAN :
                    /\ gw_mac' = [gw_mac EXCEPT ![f] = GwWith(m)]
                    /\ out' = IF late \/ m = NoMac THEN out ELSE GwReply(f, m)
    /\ UNCHANGED <<main, i, flag, sockets, confVars, enable, svr, pkt>>

-----------------------------------------------------------------------------

Main == GetSvrInfo \/ MargeInfo \/ GetDefaultGw \/ CreateBackThread \/ WaitThread \/ Release

\* What a thread does by itself, and the arrival of packets.
Work(t) ==
    \/ OpenSocket(t) \/ OpenFails(t) \/ SyncThread(t)
    \/ t = "ingress" /\ (ProcIn \/ WriteIn)
    \/ t = "egress" /\ (ProcEg \/ WriteEg \/ ReplyGw)

Arrival ==
    \E f \in Families : RecvIn(f) \/ Solicit(f) \/ \E gw \in BOOLEAN : RecvEg(f, gw)

Next == Main \/ (\E t \in Threads : Work(t)) \/ Arrival

Spec == Init /\ [][Next]_vars

\* Every thread is scheduled; packets may or may not come.
FairSpec == Spec /\ WF_vars(Main) /\ \A t \in Threads : WF_vars(Work(t))

-----------------------------------------------------------------------------
(* Properties                                                                *)

TypeOK ==
    /\ main \in MainPoints
    /\ i \in 0 .. THREAD_NUM - 1
    /\ pc \in [Threads -> ThreadPoints]
    /\ flag \in [Threads -> {"THREAD_INIT", "THREAD_WAKE", "THREAD_GO"}]
    /\ sockets \in SUBSET Threads
    /\ vip_mode \in {0, 1}
    /\ vip \in SUBSET Families /\ svr_ip \in SUBSET Families
    /\ enable \in [in : SUBSET Families, eg : SUBSET Families, svr : SUBSET Families]
    /\ svr \in [stat : {"SVR_INIT", "SVR_OK"}, mac : Mac]
    /\ gw_mac \in [Families -> [valid : BOOLEAN, mac : Mac]]
    /\ pkt \in [Threads -> [fam : Families \cup {"none"}, gw : BOOLEAN]]
    /\ out \in [by : Threads \cup {"none"}, fam : Families \cup {"none"},
                mac : Mac \cup {"as_received"}, dst : {"none", "server", "zero", "client"}]

\* No thread receives before both have opened their socket: a thread writes to
\* the other one's (wait_thread, sync_thread).
BothSocketsOpen ==
    \A t \in Threads : pc[t] \in LoopPoints => sockets = Threads

\* A frame that is written carries a MAC that was really found, and what the
\* MACs are believed to be is what they are: a look-up that fails zeroes the
\* address in place, and must never do so while a packet is on its way to it.
FramesHaveMac ==
    /\ svr.stat = "SVR_OK" => svr.mac # NoMac
    /\ \A f \in Families : gw_mac[f].valid => gw_mac[f].mac # NoMac
    /\ pc["ingress"] = "write" => svr.stat = "SVR_OK"
    /\ pc["egress"] = "write" /\ pkt["egress"].gw => gw_mac[pkt["egress"].fam].valid
    /\ out # NoFrame => out.mac # NoMac

\* Why the two above hold.  What main knows of the sockets at each point of
\* the start, and what a thread may rely on while it holds a packet.
StartInv ==
    /\ BothSocketsOpen
    /\ \A t \in Threads : flag[t] # "THREAD_INIT" => t \in sockets
    /\ \A t \in Threads : flag[t] = "THREAD_GO" => sockets = Threads
    /\ main = "wait" => \A k \in 1 .. i : NetThreads[k] \in sockets
    /\ main \in {"go", "command"} => sockets = Threads
    /\ main \in {"svr_info", "marge", "gw"} => pc = [t \in Threads |-> "none"]

MacInv ==
    /\ \A t \in Threads : pc[t] \in {"rewrite", "write", "ask"} => pkt[t].fam \in Families
    /\ FramesHaveMac
    /\ main = "svr_info" => svr.stat = "SVR_INIT"
    /\ main \in {"svr_info", "marge", "gw"} => \A f \in Families : ~gw_mac[f].valid

\* Packets of an enabled family reach the server's address of that family.
EnabledReachServer ==
    out.by = "ingress" /\ out.fam \in enable.in => out.dst = "server"

\* Why it holds: what marge_info established, and that nothing was sent before.
ServerInv ==
    /\ main = "marge" => enable.svr = svr_ip
    /\ main \notin {"svr_info", "marge"} => enable.in \subseteq svr_ip
    /\ main \in {"svr_info", "marge", "gw"} => out = NoFrame
    /\ out.by = "ingress" /\ out.fam \in svr_ip => out.dst = "server"

\* A MAC that was found is kept for good, whoever asks for it afterwards.
MacsStay ==
    [][/\ svr.stat = "SVR_OK" => svr' = svr
       /\ \A f \in Families : gw_mac[f].valid => gw_mac'[f] = gw_mac[f]]_vars

\* Starting ends: main serves commands with both threads in their loops, or
\* the process has stopped.
StartEnds ==
    <>(\/ main = "exit"
       \/ main = "command" /\ \A t \in Threads : pc[t] \in LoopPoints)

=============================================================================
