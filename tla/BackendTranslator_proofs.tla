---------------------- MODULE BackendTranslator_proofs ----------------------
(***************************************************************************)
(* Proofs about BackendTranslator, for any address families and MACs, and  *)
(* whether or not threads and sockets can be created: the start lets no    *)
(* thread write to a socket that is not open, and no frame is written with *)
(* a MAC that was not found, although nothing is locked.                   *)
(***************************************************************************)
EXTENDS BackendTranslator, TLAPS

LEMMA TwoThreads ==
    /\ THREAD_NUM = 2
    /\ Threads = {"egress", "ingress"}
    /\ NetThreads[1] = "egress" /\ NetThreads[2] = "ingress"
<1>1. THREAD_NUM = 2
  BY DEF THREAD_NUM, NetThreads
<1>2. NetThreads[1] = "egress" /\ NetThreads[2] = "ingress"
  BY DEF NetThreads
<1>3. 1 .. 2 = {1, 2}
  OBVIOUS
<1> QED
  BY <1>1, <1>2, <1>3 DEF Threads

\* A step of the system is one of these.
LEMMA Steps ==
    ASSUME [Next]_vars
    PROVE  \/ GetSvrInfo \/ MargeInfo \/ GetDefaultGw \/ CreateBackThread
           \/ WaitThread \/ Release
           \/ \E t \in Threads : OpenSocket(t) \/ OpenFails(t) \/ SyncThread(t)
           \/ ProcIn \/ WriteIn \/ ProcEg \/ WriteEg \/ ReplyGw
           \/ \E f \in Families : \/ RecvIn(f) \/ Solicit(f)
                                  \/ \E gw \in BOOLEAN : RecvEg(f, gw)
           \/ UNCHANGED vars
BY DEF Next, Main, Work, Arrival

-----------------------------------------------------------------------------
(* Types: one lemma for main and the threads, one for addresses and frames.  *)

ThreadTypes ==
    /\ main \in MainPoints
    /\ i \in 0 .. THREAD_NUM - 1
    /\ pc \in [Threads -> ThreadPoints]
    /\ flag \in [Threads -> {"THREAD_INIT", "THREAD_WAKE", "THREAD_GO"}]
    /\ sockets \in SUBSET Threads

ConfTypes ==
    /\ vip_mode \in {0, 1}
    /\ vip \in SUBSET Families /\ svr_ip \in SUBSET Families
    /\ enable \in [in : SUBSET Families, eg : SUBSET Families, svr : SUBSET Families]

MacTypes ==
    /\ svr \in [stat : {"SVR_INIT", "SVR_OK"}, mac : Mac]
    /\ gw_mac \in [Families -> [valid : BOOLEAN, mac : Mac]]

PacketTypes ==
    /\ pkt \in [Threads -> [fam : Families \cup {"none"}, gw : BOOLEAN]]
    /\ out \in [by : Threads \cup {"none"}, fam : Families \cup {"none"},
                mac : Mac \cup {"as_received"}, dst : {"none", "server", "zero", "client"}]

LEMMA TypeParts == TypeOK <=> ThreadTypes /\ ConfTypes /\ MacTypes /\ PacketTypes
BY DEF TypeOK, ThreadTypes, ConfTypes, MacTypes, PacketTypes

LEMMA ThreadTypesStep ==
    ASSUME ThreadTypes, [Next]_vars
    PROVE  ThreadTypes'
<1> USE TwoThreads DEF ThreadTypes, MainPoints, ThreadPoints, LoopPoints, ThreadStep
<1>1. CASE GetSvrInfo \/ MargeInfo \/ GetDefaultGw
  BY <1>1 DEF GetSvrInfo, MargeInfo, GetDefaultGw, threadVars
<1>2. CASE CreateBackThread
  BY <1>2 DEF CreateBackThread
<1>3. CASE WaitThread
  BY <1>3 DEF WaitThread, threadVars
<1>4. CASE Release
  BY <1>4 DEF Release
<1>5. CASE \E t \in Threads : OpenSocket(t) \/ OpenFails(t) \/ SyncThread(t)
  <2> PICK t \in Threads : OpenSocket(t) \/ OpenFails(t) \/ SyncThread(t)
    BY <1>5
  <2>1. CASE OpenSocket(t)
    BY <2>1 DEF OpenSocket
  <2>2. CASE OpenFails(t)
    BY <2>2 DEF OpenFails
  <2>3. CASE SyncThread(t)
    BY <2>3 DEF SyncThread
  <2> QED
    BY <2>1, <2>2, <2>3
<1>6. CASE ProcIn \/ WriteIn
  BY <1>6 DEF ProcIn, WriteIn
<1>7. CASE ProcEg \/ WriteEg \/ ReplyGw
  BY <1>7 DEF ProcEg, WriteEg, ReplyGw
<1>8. CASE \E f \in Families : \/ RecvIn(f) \/ Solicit(f)
                               \/ \E gw \in BOOLEAN : RecvEg(f, gw)
  <2>1. CASE \E f \in Families : RecvIn(f)
    BY <2>1 DEF RecvIn
  <2>2. CASE \E f \in Families : Solicit(f)
    BY <2>2 DEF Solicit
  <2>3. CASE \E f \in Families, gw \in BOOLEAN : RecvEg(f, gw)
    BY <2>3 DEF RecvEg
  <2> QED
    BY <1>8, <2>1, <2>2, <2>3
<1>9. CASE UNCHANGED vars
  BY <1>9 DEF vars, threadVars
<1> QED
  BY <1>1, <1>2, <1>3, <1>4, <1>5, <1>6, <1>7, <1>8, <1>9, Steps

LEMMA ConfTypesStep ==
    ASSUME ConfTypes, [Next]_vars
    PROVE  ConfTypes'
<1> USE DEF ConfTypes, confVars
<1>1. CASE GetSvrInfo \/ MargeInfo
  BY <1>1 DEF GetSvrInfo, MargeInfo
<1>2. CASE UNCHANGED <<confVars, enable>>
  BY <1>2
<1>3. GetSvrInfo \/ MargeInfo \/ UNCHANGED <<confVars, enable>>
  BY Steps DEF GetDefaultGw, CreateBackThread, WaitThread, Release, OpenSocket, OpenFails,
               SyncThread, ProcIn, WriteIn, ProcEg, WriteEg, ReplyGw, RecvIn, Solicit,
               RecvEg, vars
<1> QED
  BY <1>1, <1>2, <1>3

\* What a look-up leaves is of the right type.
LEMMA AnswerTypes ==
    /\ \A f : SvrAnswers(f) \subseteq Mac
    /\ \A m \in Mac : SvrWith(m) \in [stat : {"SVR_INIT", "SVR_OK"}, mac : Mac]
    /\ \A m \in Mac : GwWith(m) \in [valid : BOOLEAN, mac : Mac]
BY DEF SvrAnswers, SvrWith, GwWith, Mac

LEMMA MacTypesStep ==
    ASSUME MacTypes, [Next]_vars
    PROVE  MacTypes'
<1> DEFINE GwRec == [valid : BOOLEAN, mac : Mac]
<1>0. /\ svr \in [stat : {"SVR_INIT", "SVR_OK"}, mac : Mac]
      /\ gw_mac \in [Families -> GwRec]
  BY DEF MacTypes
<1>1. CASE GetSvrInfo
  BY <1>0, <1>1, AnswerTypes DEF GetSvrInfo, MacTypes
<1>2. CASE GetDefaultGw
  <2>1. PICK m \in [enable.in -> Mac] :
          gw_mac' = [f \in Families |-> IF f \in enable.in THEN GwWith(m[f]) ELSE gw_mac[f]]
    BY <1>2 DEF GetDefaultGw
  <2>2. \A f \in Families : f \in enable.in => GwWith(m[f]) \in GwRec
    BY AnswerTypes
  <2>3. gw_mac' \in [Families -> GwRec]
    <3> HIDE DEF GwRec
    <3> QED
      BY <1>0, <2>1, <2>2
  <2> QED
    BY <1>0, <1>2, <2>3 DEF GetDefaultGw, MacTypes
<1>3. CASE ProcIn
  BY <1>0, <1>3, AnswerTypes DEF ProcIn, MacTypes
<1>4. CASE ProcEg \/ ReplyGw
  <2>1. \/ gw_mac' = gw_mac
        \/ \E f, m : m \in Mac /\ gw_mac' = [gw_mac EXCEPT ![f] = GwWith(m)]
    BY <1>4 DEF ProcEg, ReplyGw
  <2>2. gw_mac' \in [Families -> GwRec]
    <3>1. \A m \in Mac : GwWith(m) \in GwRec
      BY AnswerTypes
    <3> HIDE DEF GwRec
    <3> QED
      BY <1>0, <2>1, <3>1
  <2>3. svr' = svr
    BY <1>4 DEF ProcEg, ReplyGw
  <2> QED
    BY <1>0, <2>2, <2>3 DEF MacTypes
<1>5. CASE UNCHANGED macVars
  BY <1>0, <1>5 DEF macVars, MacTypes
<1>6. GetSvrInfo \/ GetDefaultGw \/ ProcIn \/ ProcEg \/ ReplyGw \/ UNCHANGED macVars
  BY Steps DEF MargeInfo, CreateBackThread, WaitThread, Release, OpenSocket, OpenFails,
               SyncThread, WriteIn, WriteEg, RecvIn, Solicit, RecvEg, vars, macVars
<1> QED
  BY <1>1, <1>2, <1>3, <1>4, <1>5, <1>6

LEMMA PacketTypesStep ==
    ASSUME PacketTypes, MacTypes, MacInv, [Next]_vars
    PROVE  PacketTypes'
<1> DEFINE PktRec == [fam : Families \cup {"none"}, gw : BOOLEAN]
           OutRec == [by : Threads \cup {"none"}, fam : Families \cup {"none"},
                      mac : Mac \cup {"as_received"},
                      dst : {"none", "server", "zero", "client"}]
<1>0. pkt \in [Threads -> PktRec] /\ out \in OutRec
  BY DEF PacketTypes
<1>1. CASE \E f \in Families : \/ RecvIn(f) \/ Solicit(f)
                               \/ \E gw \in BOOLEAN : RecvEg(f, gw)
  <2>1. \E t, p : p \in PktRec /\ pkt' = [pkt EXCEPT ![t] = p]
    BY <1>1 DEF RecvIn, Solicit, RecvEg
  <2>2. pkt' \in [Threads -> PktRec]
    <3> HIDE DEF PktRec
    <3> QED
      BY <1>0, <2>1
  <2>3. out' = out
    BY <1>1 DEF RecvIn, Solicit, RecvEg
  <2> QED
    BY <1>0, <2>2, <2>3 DEF PacketTypes
<1>2. CASE WriteIn
  <2>1. pkt["ingress"].fam \in Families
    BY <1>2, TwoThreads DEF WriteIn, ThreadStep, MacInv
  <2>2. out' \in OutRec
    BY <1>2, <2>1, TwoThreads DEF WriteIn, MacTypes
  <2> QED
    BY <1>0, <1>2, <2>2 DEF WriteIn, PacketTypes
<1>3. CASE WriteEg
  <2> DEFINE p == pkt["egress"]
  <2>1. p.fam \in Families
    BY <1>3, TwoThreads DEF WriteEg, ThreadStep, MacInv
  <2>2. gw_mac[p.fam].mac \in Mac
    BY <2>1 DEF MacTypes
  <2>3. out' \in OutRec
    BY <1>3, <2>1, <2>2, TwoThreads DEF WriteEg
  <2> QED
    BY <1>0, <1>3, <2>3 DEF WriteEg, PacketTypes
<1>4. CASE ReplyGw
  <2> DEFINE f == pkt["egress"].fam
  <2>1. f \in Families
    BY <1>4, TwoThreads DEF ReplyGw, ThreadStep, MacInv
  <2>2. gw_mac[f].mac \in Mac
    BY <2>1 DEF MacTypes
  <2>3. out' = out \/ \E m \in Mac : out' = GwReply(f, m)
    BY <1>4, <2>2 DEF ReplyGw
  <2>4. out' \in OutRec
    BY <1>0, <2>1, <2>3, TwoThreads DEF GwReply
  <2> QED
    BY <1>0, <1>4, <2>4 DEF ReplyGw, PacketTypes
<1>5. CASE UNCHANGED packetVars
  BY <1>0, <1>5 DEF packetVars, PacketTypes
<1>6. \/ \E f \in Families : \/ RecvIn(f) \/ Solicit(f)
                             \/ \E gw \in BOOLEAN : RecvEg(f, gw)
      \/ WriteIn \/ WriteEg \/ ReplyGw \/ UNCHANGED packetVars
  BY Steps DEF GetSvrInfo, MargeInfo, GetDefaultGw, CreateBackThread, WaitThread, Release,
               OpenSocket, OpenFails, SyncThread, ProcIn, ProcEg, vars, packetVars
<1> QED
  BY <1>1, <1>2, <1>3, <1>4, <1>5, <1>6

-----------------------------------------------------------------------------
(* The start: what main knows of the sockets at each of its points.          *)

LEMMA BothOpen ==
    ASSUME NEW S, S \subseteq Threads, "egress" \in S, "ingress" \in S
    PROVE  S = Threads
BY TwoThreads

LEMMA StartStep ==
    ASSUME ThreadTypes, StartInv, [Next]_vars
    PROVE  StartInv'
<1> USE TwoThreads DEF ThreadTypes, StartInv, BothSocketsOpen, LoopPoints, ThreadStep, MainPoints
<1>1. CASE GetSvrInfo \/ MargeInfo \/ GetDefaultGw
  BY <1>1 DEF GetSvrInfo, MargeInfo, GetDefaultGw, threadVars
<1>2. CASE CreateBackThread
  BY <1>2 DEF CreateBackThread
<1>3. CASE WaitThread
  <2>1. NetThreads[i + 1] \in sockets
    BY <1>3 DEF WaitThread
  <2>2. i \in {0, 1}
    OBVIOUS
  <2>3. CASE i = 0
    <3>1. main' = "wait" /\ i' = 1
      BY <1>3, <2>3 DEF WaitThread
    <3>2. \A k \in 1 .. i' : k = 1
      BY <3>1
    <3> QED
      BY <1>3, <2>1, <2>3, <3>1, <3>2 DEF WaitThread, threadVars
  <2>4. CASE i = 1
    <3>1. main' = "go"
      BY <1>3, <2>4 DEF WaitThread
    <3>2. NetThreads[1] \in sockets /\ NetThreads[2] \in sockets
      BY <1>3, <2>1, <2>4 DEF WaitThread
    <3>3. "egress" \in sockets /\ "ingress" \in sockets /\ sockets \subseteq Threads
      BY <3>2
    <3>4. sockets = Threads
      BY <3>3, BothOpen
    <3> QED
      BY <1>3, <3>1, <3>4 DEF WaitThread, threadVars
  <2> QED
    BY <2>2, <2>3, <2>4
<1>4. CASE Release
  BY <1>4 DEF Release
<1>5. CASE \E t \in Threads : OpenSocket(t) \/ OpenFails(t) \/ SyncThread(t)
  BY <1>5 DEF OpenSocket, OpenFails, SyncThread
<1>6. CASE ProcIn \/ WriteIn
  BY <1>6 DEF ProcIn, WriteIn
<1>7. CASE ProcEg \/ WriteEg \/ ReplyGw
  BY <1>7 DEF ProcEg, WriteEg, ReplyGw
<1>8. CASE \E f \in Families : \/ RecvIn(f) \/ Solicit(f)
                               \/ \E gw \in BOOLEAN : RecvEg(f, gw)
  BY <1>8 DEF RecvIn, Solicit, RecvEg
<1>9. CASE UNCHANGED vars
  BY <1>9 DEF vars, threadVars
<1> QED
  BY <1>1, <1>2, <1>3, <1>4, <1>5, <1>6, <1>7, <1>8, <1>9, Steps

-----------------------------------------------------------------------------
(* The addresses: what a thread relies on while it holds a packet.           *)

\* A look-up is valid exactly if it found something.
LEMMA Answers ==
    /\ \A m : SvrWith(m).stat = "SVR_OK" <=> m # NoMac
    /\ \A m : SvrWith(m).mac = m
    /\ \A m : GwWith(m).valid <=> m # NoMac
    /\ \A m : GwWith(m).mac = m
BY DEF SvrWith, GwWith

\* The frame written last has a MAC: only three actions write one.
LEMMA OutStep ==
    ASSUME MacInv, ThreadTypes, MacTypes, [Next]_vars
    PROVE  out' # NoFrame => out'.mac # NoMac
<1> USE TwoThreads, BackendAssumption DEF MacInv, FramesHaveMac, ThreadStep
<1>1. CASE WriteIn
  BY <1>1 DEF WriteIn
<1>2. CASE WriteEg
  BY <1>2 DEF WriteEg
<1>3. CASE ReplyGw
  <2>1. pkt["egress"].fam \in Families
    BY <1>3 DEF ReplyGw
  <2>2. out' = out \/ \E m : m # NoMac /\ out' = GwReply(pkt["egress"].fam, m)
    BY <1>3, <2>1 DEF ReplyGw
  <2> QED
    BY <2>2 DEF GwReply
<1>4. CASE UNCHANGED out
  BY <1>4
<1>5. WriteIn \/ WriteEg \/ ReplyGw \/ UNCHANGED out
  BY Steps DEF GetSvrInfo, MargeInfo, GetDefaultGw, CreateBackThread, WaitThread, Release,
               OpenSocket, OpenFails, SyncThread, ProcIn, ProcEg, RecvIn, Solicit, RecvEg,
               vars, packetVars
<1> QED
  BY <1>1, <1>2, <1>3, <1>4, <1>5

\* A MAC that was found stays, and one that is believed to be valid is one.
LEMMA MacsStep ==
    ASSUME MacInv, MacTypes, [Next]_vars
    PROVE  /\ svr.stat = "SVR_OK" => svr' = svr
           /\ svr'.stat = "SVR_OK" => svr'.mac # NoMac
           /\ \A f \in Families :
                 /\ gw_mac[f].valid => gw_mac'[f] = gw_mac[f]
                 /\ gw_mac'[f].valid => gw_mac'[f].mac # NoMac
<1> USE Answers DEF MacInv, FramesHaveMac, MacTypes
<1>1. CASE GetSvrInfo
  BY <1>1 DEF GetSvrInfo
<1>2. CASE GetDefaultGw
  BY <1>2 DEF GetDefaultGw
<1>3. CASE ProcIn
  BY <1>3 DEF ProcIn
<1>4. CASE ProcEg \/ ReplyGw
  BY <1>4 DEF ProcEg, ReplyGw
<1>5. CASE UNCHANGED macVars
  BY <1>5 DEF macVars
<1>6. GetSvrInfo \/ GetDefaultGw \/ ProcIn \/ ProcEg \/ ReplyGw \/ UNCHANGED macVars
  BY Steps DEF MargeInfo, CreateBackThread, WaitThread, Release, OpenSocket, OpenFails,
               SyncThread, WriteIn, WriteEg, RecvIn, Solicit, RecvEg, vars, macVars
<1> QED
  BY <1>1, <1>2, <1>3, <1>4, <1>5, <1>6

\* What a thread relies on while it holds a packet.
Held ==
    /\ \A t \in Threads : pc[t] \in {"rewrite", "write", "ask"} => pkt[t].fam \in Families
    /\ pc["ingress"] = "write" => svr.stat = "SVR_OK"
    /\ pc["egress"] = "write" /\ pkt["egress"].gw => gw_mac[pkt["egress"].fam].valid

LEMMA HeldStep ==
    ASSUME Held, StartInv, ThreadTypes, MacTypes, PacketTypes, [Next]_vars
    PROVE  Held'
<1> USE TwoThreads DEF Held, ThreadTypes, ThreadStep
<1>0. pkt \in [Threads -> [fam : Families \cup {"none"}, gw : BOOLEAN]]
  BY DEF PacketTypes
<1>1. CASE GetSvrInfo \/ MargeInfo \/ GetDefaultGw
  <2>1. pc' = [t \in Threads |-> "none"]
    BY <1>1 DEF GetSvrInfo, MargeInfo, GetDefaultGw, threadVars, StartInv
  <2> QED
    BY <2>1
<1>2. CASE CreateBackThread
  BY <1>2 DEF CreateBackThread, macVars, packetVars
<1>3. CASE WaitThread \/ Release \/ UNCHANGED vars
  BY <1>3 DEF WaitThread, Release, vars, threadVars, macVars, packetVars
<1>4. CASE \E t \in Threads : OpenSocket(t) \/ OpenFails(t) \/ SyncThread(t)
  <2>1. \E t \in Threads, p \in {"sync", "none", "recv"} : pc' = [pc EXCEPT ![t] = p]
    BY <1>4 DEF OpenSocket, OpenFails, SyncThread
  <2>2. UNCHANGED <<pkt, svr, gw_mac>>
    BY <1>4 DEF OpenSocket, OpenFails, SyncThread, macVars, packetVars
  <2> QED
    BY <2>1, <2>2
<1>5. CASE ProcIn
  <2>1. pc'["ingress"] = "write" => svr'.stat = "SVR_OK"
    BY <1>5, Answers DEF ProcIn
  <2>2. UNCHANGED <<pkt, gw_mac>>
    BY <1>5 DEF ProcIn, packetVars
  <2>3. pc["ingress"] = "rewrite" /\ \E p \in {"recv", "write"} : pc' = [pc EXCEPT !["ingress"] = p]
    BY <1>5 DEF ProcIn
  <2> QED
    BY <2>1, <2>2, <2>3
<1>6. CASE ProcEg
  <2> DEFINE f == pkt["egress"].fam
  <2>1. pc["egress"] = "rewrite" /\ \E p \in {"recv", "write"} : pc' = [pc EXCEPT !["egress"] = p]
    BY <1>6 DEF ProcEg
  <2>2. f \in Families
    BY <2>1
  <2>3. pc'["egress"] = "write" => gw_mac'[f].valid
    BY <1>6, <2>2, Answers DEF ProcEg, MacTypes
  <2>4. UNCHANGED <<pkt, svr>>
    BY <1>6 DEF ProcEg, packetVars
  <2> QED
    BY <2>1, <2>2, <2>3, <2>4
<1>7. CASE WriteIn \/ WriteEg \/ ReplyGw
  <2>1. \E t \in Threads : pc' = [pc EXCEPT ![t] = "recv"] /\ (t = "egress" \/ gw_mac' = gw_mac)
    BY <1>7 DEF WriteIn, WriteEg, ReplyGw, macVars
  <2>2. UNCHANGED <<pkt, svr>>
    BY <1>7 DEF WriteIn, WriteEg, ReplyGw, macVars
  <2> QED
    BY <2>1, <2>2
<1>8. CASE \E f \in Families : \/ RecvIn(f) \/ Solicit(f)
                               \/ \E gw \in BOOLEAN : RecvEg(f, gw)
  <2> PICK f \in Families : RecvIn(f) \/ Solicit(f) \/ \E gw \in BOOLEAN : RecvEg(f, gw)
    BY <1>8
  <2>1. CASE RecvIn(f)
    BY <1>0, <2>1 DEF RecvIn, macVars
  <2>2. CASE Solicit(f)
    BY <1>0, <2>2 DEF Solicit, macVars
  <2>3. CASE \E gw \in BOOLEAN : RecvEg(f, gw)
    <3>1. PICK gw \in BOOLEAN : RecvEg(f, gw)
      BY <2>3
    <3>2. UNCHANGED <<svr, gw_mac>>
      BY <3>1 DEF RecvEg, macVars
    <3>3. CASE vip_mode = 0 /\ gw
      <4>1. pc' = [pc EXCEPT !["egress"] = "rewrite"]
        BY <3>1, <3>3 DEF RecvEg
      <4>2. pkt'["egress"].fam = f /\ pkt'["ingress"] = pkt["ingress"]
        BY <1>0, <3>1 DEF RecvEg
      <4> QED
        BY <3>2, <4>1, <4>2
    <3>4. CASE ~(vip_mode = 0 /\ gw)
      <4>1. pc' = [pc EXCEPT !["egress"] = "write"]
        BY <3>1, <3>4 DEF RecvEg
      <4>2. pkt'["egress"].fam = f /\ pkt'["ingress"] = pkt["ingress"]
        BY <1>0, <3>1 DEF RecvEg
      <4>3. ~pkt'["egress"].gw
        BY <1>0, <3>1, <3>4 DEF RecvEg
      <4> QED
        BY <3>2, <4>1, <4>2, <4>3
    <3> QED
      BY <3>3, <3>4
  <2> QED
    BY <2>1, <2>2, <2>3
<1> QED
  BY <1>1, <1>2, <1>3, <1>4, <1>5, <1>6, <1>7, <1>8, Steps

LEMMA PacketStep ==
    ASSUME MacInv, StartInv, ThreadTypes, MacTypes, PacketTypes, [Next]_vars
    PROVE  MacInv'
<1>1. out' # NoFrame => out'.mac # NoMac
  BY OutStep
<1>2. /\ svr'.stat = "SVR_OK" => svr'.mac # NoMac
      /\ \A f \in Families : gw_mac'[f].valid => gw_mac'[f].mac # NoMac
  BY MacsStep
<1>3. Held'
  BY HeldStep DEF Held, MacInv, FramesHaveMac
<1>4. /\ main' = "svr_info" => svr'.stat = "SVR_INIT"
      /\ main' \in {"svr_info", "marge", "gw"} => \A f \in Families : ~gw_mac'[f].valid
  <2>1. CASE GetSvrInfo \/ MargeInfo \/ GetDefaultGw
    BY <2>1 DEF GetSvrInfo, MargeInfo, GetDefaultGw, macVars, MacInv
  <2>2. CASE CreateBackThread \/ WaitThread \/ Release
    BY <2>2 DEF CreateBackThread, WaitThread, Release
  <2>3. CASE \E t \in Threads : pc[t] # "none"
    <3>1. main \notin {"svr_info", "marge", "gw"}
      BY <2>3 DEF StartInv
    <3>2. main' = main \/ main' \notin {"svr_info", "marge", "gw"}
      BY <3>1 DEF Next, Main, Work, Arrival, vars, GetSvrInfo, MargeInfo, GetDefaultGw,
              CreateBackThread, WaitThread, Release, OpenSocket, OpenFails, SyncThread,
              ProcIn, WriteIn, ProcEg, WriteEg, ReplyGw, RecvIn, Solicit, RecvEg
    <3> QED
      BY <3>1, <3>2
  <2>4. CASE UNCHANGED vars
    BY <2>4 DEF vars, macVars, MacInv
  <2>5. \/ GetSvrInfo \/ MargeInfo \/ GetDefaultGw \/ CreateBackThread
        \/ WaitThread \/ Release \/ UNCHANGED vars
        \/ \E t \in Threads : pc[t] # "none"
    BY Steps, TwoThreads DEF ThreadStep, OpenSocket, OpenFails, SyncThread, ProcIn, WriteIn,
              ProcEg, WriteEg, ReplyGw, RecvIn, Solicit, RecvEg
  <2> QED
    BY <2>1, <2>2, <2>3, <2>4, <2>5
<1> QED
  BY <1>1, <1>2, <1>3, <1>4 DEF Held, MacInv, FramesHaveMac

-----------------------------------------------------------------------------
(* The theorems.                                                             *)

LEMMA InvInit == Init => TypeOK /\ StartInv /\ MacInv
<1> SUFFICES ASSUME Init PROVE TypeOK /\ StartInv /\ MacInv
  OBVIOUS
<1> USE TwoThreads DEF Init
<1>1. ThreadTypes
  BY DEF ThreadTypes, MainPoints, ThreadPoints
<1>2. ConfTypes
  BY DEF ConfTypes
<1>3. MacTypes
  BY DEF MacTypes, Mac
<1>4. PacketTypes
  BY DEF PacketTypes, Mac, NoPkt, NoFrame
<1>5. StartInv
  BY DEF StartInv, BothSocketsOpen, LoopPoints
<1>6. MacInv
  BY DEF MacInv, FramesHaveMac
<1> QED
  BY <1>1, <1>2, <1>3, <1>4, <1>5, <1>6, TypeParts

LEMMA InvStep ==
    TypeOK /\ StartInv /\ MacInv /\ [Next]_vars => TypeOK' /\ StartInv' /\ MacInv'
<1> SUFFICES ASSUME TypeOK, StartInv, MacInv, [Next]_vars
             PROVE  TypeOK' /\ StartInv' /\ MacInv'
  OBVIOUS
<1>1. ThreadTypes /\ ConfTypes /\ MacTypes /\ PacketTypes
  BY TypeParts
<1>2. ThreadTypes' /\ ConfTypes' /\ MacTypes' /\ PacketTypes'
  BY <1>1, ThreadTypesStep, ConfTypesStep, MacTypesStep, PacketTypesStep
<1>3. TypeOK'
  BY <1>2 DEF TypeOK, ThreadTypes, ConfTypes, MacTypes, PacketTypes
<1> QED
  BY <1>1, <1>3, StartStep, PacketStep

\* Types, and the two invariants that carry the rest.
THEOREM BackendInv == Spec => [](TypeOK /\ StartInv /\ MacInv)
BY InvInit, InvStep, PTL DEF Spec

\* The variables keep their types.
THEOREM BackendTypes == Spec => []TypeOK
BY BackendInv, PTL

\* No thread receives, and so none writes, before both sockets are open.
THEOREM SocketsReady == Spec => []BothSocketsOpen
<1>1. StartInv => BothSocketsOpen
  BY DEF StartInv
<1> QED
  BY <1>1, BackendInv, PTL

\* No frame is written, and none is under way, with a MAC that was not found.
THEOREM MacsFound == Spec => []FramesHaveMac
<1>1. MacInv => FramesHaveMac
  BY DEF MacInv
<1> QED
  BY <1>1, BackendInv, PTL

\* A MAC that was found is never replaced.
THEOREM MacsKept == Spec => MacsStay
<1>1. TypeOK /\ StartInv /\ MacInv /\ [Next]_vars =>
         [/\ svr.stat = "SVR_OK" => svr' = svr
          /\ \A f \in Families : gw_mac[f].valid => gw_mac'[f] = gw_mac[f]]_vars
  BY MacsStep, TypeParts
<1> QED
  BY <1>1, BackendInv, PTL DEF Spec, MacsStay

\* What marge_info established: packets of an enabled family reach the server's
\* address.
THEOREM EnabledServed == Spec => []EnabledReachServer
<1>1. Init => ServerInv
  BY DEF Init, ServerInv, NoFrame
<1>2. StartInv /\ ConfTypes /\ ServerInv /\ [Next]_vars => ServerInv'
  <2> SUFFICES ASSUME StartInv, ConfTypes, ServerInv, [Next]_vars PROVE ServerInv'
    OBVIOUS
  <2> USE TwoThreads DEF ServerInv
  <2>1. CASE GetSvrInfo
    BY <2>1 DEF GetSvrInfo, confVars, packetVars, NoFrame, ConfTypes
  <2>2. CASE MargeInfo
    BY <2>2 DEF MargeInfo, confVars, packetVars, NoFrame
  <2>3. CASE GetDefaultGw \/ CreateBackThread \/ WaitThread \/ Release \/ UNCHANGED vars
    BY <2>3 DEF GetDefaultGw, CreateBackThread, WaitThread, Release, vars, confVars, packetVars
  <2>4. CASE \E t \in Threads : pc[t] # "none"
    <3>1. main \notin {"svr_info", "marge", "gw"}
      BY <2>4 DEF StartInv
    <3>2. /\ main' = main \/ main' \notin {"svr_info", "marge", "gw"}
          /\ UNCHANGED <<svr_ip, enable>>
      BY <3>1 DEF Next, Main, Work, Arrival, vars, confVars, GetSvrInfo, MargeInfo,
              GetDefaultGw, CreateBackThread, WaitThread, Release, OpenSocket, OpenFails,
              SyncThread, ProcIn, WriteIn, ProcEg, WriteEg, ReplyGw, RecvIn, Solicit, RecvEg
    <3>3. \/ out' = out \/ out'.by = "egress"
          \/ out'.by = "ingress" /\ (out'.fam \in svr_ip => out'.dst = "server")
      <4>1. CASE WriteIn
        BY <4>1 DEF WriteIn
      <4>2. CASE WriteEg \/ ReplyGw
        BY <4>2 DEF WriteEg, ReplyGw, GwReply
      <4>3. CASE UNCHANGED out
        BY <4>3
      <4>4. WriteIn \/ WriteEg \/ ReplyGw \/ UNCHANGED out
        BY Steps DEF GetSvrInfo, MargeInfo, GetDefaultGw, CreateBackThread, WaitThread,
                 Release, OpenSocket, OpenFails, SyncThread, ProcIn, ProcEg, RecvIn,
                 Solicit, RecvEg, vars, packetVars
      <4> QED
        BY <4>1, <4>2, <4>3, <4>4
    <3> QED
      BY <3>1, <3>2, <3>3
  <2>5. \/ GetSvrInfo \/ MargeInfo \/ GetDefaultGw \/ CreateBackThread
        \/ WaitThread \/ Release \/ UNCHANGED vars
        \/ \E t \in Threads : pc[t] # "none"
    BY Steps DEF ThreadStep, OpenSocket, OpenFails, SyncThread, ProcIn, WriteIn,
             ProcEg, WriteEg, ReplyGw, RecvIn, Solicit, RecvEg
  <2> QED
    BY <2>1, <2>2, <2>3, <2>4, <2>5
<1>3. StartInv /\ ServerInv => EnabledReachServer
  BY DEF ServerInv, EnabledReachServer, NoFrame
<1>4. TypeOK => ConfTypes
  BY TypeParts
<1> QED
  BY <1>1, <1>2, <1>3, <1>4, BackendInv, PTL DEF Spec

=============================================================================
