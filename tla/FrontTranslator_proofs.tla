----------------------- MODULE FrontTranslator_proofs -----------------------
(***************************************************************************)
(* Proofs about FrontTranslator, for any number of thread identities,      *)
(* sasat processes, edits and signals, restarts that succeed and restarts  *)
(* that fail: no step of a reload touches the tables while a network       *)
(* thread uses them, there is never more than one such thread, none leaves *)
(* its socket open, and what the answer "complete" tells.                  *)
(***************************************************************************)
EXTENDS FrontTranslator, TLAPS

ClientStates == {"idle", "waiting", "complete", "error", "timeout"}

\* The four parts of TypeOK, one lemma each: what changes one part leaves the
\* others alone.
LEMMA CmdTypes == TypeOK /\ [Next]_vars => CmdTypeOK'
<1> SUFFICES ASSUME TypeOK, [Next]_vars PROVE CmdTypeOK'
  OBVIOUS
<1>1. CmdTypeOK /\ ClientTypeOK
  BY DEF TypeOK
<1> USE DEF CmdTypeOK, CmdTypeOK, NetTypeOK, FileTypeOK, CmdPoints, RebuildPoints, NoClient, At, Goto
<1>2. CASE SelectRequest \/ SelectTimeout
  BY <1>1, <1>2 DEF SelectRequest, SelectTimeout
<1>3. CASE ProcUdRequest
  <2> DEFINE c == Head(queue)
  <2>1. c \in Clients
    BY <1>1, <1>3 DEF ProcUdRequest, ClientTypeOK
  <2>2. /\ cmd'.pc \in {"garp", "cancel", "reply"}
        /\ cmd' = [pc |-> cmd'.pc, caller |-> "ud", client |-> c, created |-> cmd.created]
    BY <1>1, <1>3 DEF ProcUdRequest
  <2> QED
    BY <1>1, <1>3, <2>1, <2>2 DEF ProcUdRequest
<1>4. CASE Reply \/ SigTest \/ SigClear \/ TimeoutInit
  <2>1. CASE Reply \/ SigClear
    BY <1>1, <2>1 DEF Reply, SigClear
  <2>2. CASE SigTest
    <3>1. /\ cmd'.pc \in {"sig_clear", "garp"}
          /\ cmd'.caller \in {"sig", cmd.caller}
          /\ cmd' = [pc |-> cmd'.pc, caller |-> cmd'.caller, client |-> cmd.client,
                     created |-> cmd.created]
      BY <1>1, <2>2 DEF SigTest
    <3> QED
      BY <1>1, <2>2, <3>1 DEF SigTest
  <2>3. CASE TimeoutInit
    <3>1. cmd' = [pc |-> "select", caller |-> "loop", client |-> NoClient,
                  created |-> cmd.created]
      BY <1>1, <2>3 DEF TimeoutInit
    <3> QED
      BY <1>1, <2>3, <3>1 DEF TimeoutInit
  <2> QED
    BY <1>4, <2>1, <2>2, <2>3
<1>5. CASE CancelThread \/ WaitEnd \/ DestroyTables \/ InitTables \/ LoadPolicy
  BY <1>1, <1>5 DEF CancelThread, WaitEnd, DestroyTables, InitTables, LoadPolicy
<1>6. CASE (\E t \in Threads : CreateThread(t)) \/ CreateFails \/ WaitInit
  <2>1. CASE \E t \in Threads : CreateThread(t)
    BY <1>1, <2>1 DEF CreateThread
  <2>2. CASE CreateFails \/ WaitInit
    <3>1. /\ cmd'.pc \in {"reply", "garp", "exit"} /\ cmd'.created \in BOOLEAN
          /\ cmd' = [pc |-> cmd'.pc, caller |-> cmd.caller, client |-> cmd.client,
                     created |-> cmd'.created]
      BY <1>1, <2>2 DEF CreateFails, WaitInit, Return
    <3>2. tid' \in Threads \cup {NoThread} /\ new' \in Threads \cup {NoThread}
          /\ sig_flg' \in {0, 1}
      BY <1>1, <2>2 DEF CreateFails, WaitInit
    <3> QED
      BY <1>1, <3>1, <3>2
  <2> QED
    BY <1>6, <2>1, <2>2
<1>7. CASE \E t \in Threads : NetThread(t)
  BY <1>1, <1>7 DEF NetThread, StartThread, StartFails, NetLoop, ActOnCancel, FrontCleanup, CloseSocket, ResetSockfd, ReportEnd,
                    cmdVars
<1>8. CASE World
  BY <1>1, <1>8 DEF World, EditFile, Hup, Interrupt, Send, ClientTimeout, cmdVars
<1>9. CASE UNCHANGED vars
  BY <1>1, <1>9 DEF vars, cmdVars
<1> QED
  BY <1>2, <1>3, <1>4, <1>5, <1>6, <1>7, <1>8, <1>9 DEF Next, CommandThread, UpdatePolicy

LEMMA NetTypes == TypeOK /\ [Next]_vars => NetTypeOK'
<1> SUFFICES ASSUME TypeOK, [Next]_vars PROVE NetTypeOK'
  OBVIOUS
<1>1. NetTypeOK
  BY DEF TypeOK
<1>2. CASE UNCHANGED netVars
  BY <1>1, <1>2 DEF NetTypeOK, netVars
<1>3. CASE CancelThread
  <2>1. tid \in Threads => cancelled \cup {tid} \in SUBSET Threads
    BY <1>1 DEF NetTypeOK
  <2> QED
    BY <1>1, <1>3, <2>1 DEF CancelThread, NetTypeOK
<1>4. CASE \E t \in Threads : CreateThread(t)
  BY <1>1, <1>4 DEF CreateThread, NetTypeOK, LivePoints, CleanupPoints
<1>5. CASE \E t \in Threads : NetThread(t)
  <2> PICK t \in Threads : NetThread(t)
    BY <1>5
  <2> USE DEF NetTypeOK, LivePoints, CleanupPoints, NetGoto
  <2>1. CASE StartThread(t)
    BY <1>1, <2>1 DEF StartThread
  <2>2. CASE StartFails(t)
    BY <1>1, <2>2 DEF StartFails
  <2>3. CASE NetLoop(t) \/ ActOnCancel(t)
    BY <1>1, <2>3 DEF NetLoop, ActOnCancel
  <2>4. CASE FrontCleanup(t)
    BY <1>1, <2>4 DEF FrontCleanup, CloseSocket, ResetSockfd, ReportEnd
  <2> QED
    BY <2>1, <2>2, <2>3, <2>4 DEF NetThread
<1>6. \/ UNCHANGED netVars \/ CancelThread
      \/ \E t \in Threads : CreateThread(t) \/ NetThread(t)
  BY DEF Next, CommandThread, UpdatePolicy, World, vars, SelectRequest, SelectTimeout,
         ProcUdRequest, Reply, SigTest, SigClear, TimeoutInit, WaitEnd, DestroyTables,
         InitTables, LoadPolicy, CreateFails, WaitInit, EditFile, Hup, Send, ClientTimeout
<1> QED
  BY <1>2, <1>3, <1>4, <1>5, <1>6

LEMMA FileTypes == TypeOK /\ [Next]_vars => FileTypeOK'
<1> SUFFICES ASSUME TypeOK, [Next]_vars PROVE FileTypeOK'
  OBVIOUS
<1>1. FileTypeOK
  BY DEF TypeOK
<1>2. CASE UNCHANGED <<tbl, fileVars>>
  BY <1>1, <1>2 DEF FileTypeOK, fileVars
<1>3. CASE DestroyTables \/ InitTables \/ LoadPolicy
  <2>1. CASE DestroyTables \/ InitTables
    BY <1>1, <2>1 DEF FileTypeOK, fileVars, DestroyTables, InitTables
  <2>2. CASE LoadPolicy
    <3>1. PICK st \in {"ready", "unread"} : tbl' = [state |-> st, version |-> file]
      BY <2>2 DEF LoadPolicy
    <3> QED
      BY <1>1, <2>2, <3>1 DEF FileTypeOK, fileVars, LoadPolicy
  <2> QED
    BY <1>3, <2>1, <2>2
<1>4. CASE EditFile \/ Hup
  BY <1>1, <1>4, ThreadAssumption DEF FileTypeOK, EditFile, Hup
<1>5. UNCHANGED <<tbl, fileVars>> \/ DestroyTables \/ InitTables \/ LoadPolicy \/ EditFile \/ Hup
  BY DEF Next, CommandThread, UpdatePolicy, World, NetThread, vars, SelectRequest,
         SelectTimeout, ProcUdRequest, Reply, SigTest, SigClear, TimeoutInit, CancelThread,
         WaitEnd, CreateThread, CreateFails, WaitInit, StartThread, StartFails, NetLoop,
         ActOnCancel, FrontCleanup, CloseSocket, ResetSockfd, ReportEnd, Send, ClientTimeout
<1> QED
  BY <1>2, <1>3, <1>4, <1>5

LEMMA ClientTypes == TypeOK /\ [Next]_vars => ClientTypeOK'
<1> SUFFICES ASSUME TypeOK, [Next]_vars PROVE ClientTypeOK'
  OBVIOUS
<1> DEFINE ClientRecords == [st : ClientStates, req : Requests, version : 0 .. MaxVersion]
<1>1. queue \in Seq(Clients) /\ client \in [Clients -> ClientRecords]
  BY DEF TypeOK, ClientTypeOK, ClientStates
<1>2. file \in 0 .. MaxVersion /\ cmd.client \in Clients \cup {NoClient}
  BY DEF TypeOK, FileTypeOK, CmdTypeOK
<1>3. SUFFICES queue' \in Seq(Clients) /\ client' \in [Clients -> ClientRecords]
  BY DEF ClientTypeOK, ClientStates
<1>4. CASE UNCHANGED clientVars
  BY <1>1, <1>4 DEF clientVars
<1>5. CASE ProcUdRequest
  BY <1>1, <1>5 DEF ProcUdRequest
<1>6. CASE Reply
  <2>1. cmd.client \in Clients => Answer(cmd.client) \in ClientStates
    BY <1>1 DEF Answer, ClientStates
  <2> QED
    BY <1>1, <1>6, <2>1 DEF Reply
<1>7. CASE \E c \in Clients : Send(c) \/ ClientTimeout(c)
  <2>1. PICK c \in Clients : Send(c) \/ ClientTimeout(c)
    BY <1>7
  <2>2. client[c] \in ClientRecords
    BY <1>1
  <2>3. CASE Send(c)
    <3>1. [client[c] EXCEPT !.st = "waiting", !.version = file] \in ClientRecords
      BY <1>2, <2>2 DEF ClientStates
    <3>2. client' = [client EXCEPT ![c] = [client[c] EXCEPT !.st = "waiting", !.version = file]]
      BY <2>3 DEF Send
    <3>3. queue' \in Seq(Clients)
      BY <1>1, <2>3 DEF Send
    <3> HIDE DEF ClientRecords
    <3> QED
      BY <1>1, <3>1, <3>2, <3>3
  <2>4. CASE ClientTimeout(c)
    <3>1. [client[c] EXCEPT !.st = "timeout"] \in ClientRecords
      BY <2>2 DEF ClientStates
    <3>2. client' = [client EXCEPT ![c] = [client[c] EXCEPT !.st = "timeout"]]
      BY <2>4 DEF ClientTimeout
    <3> HIDE DEF ClientRecords
    <3> QED
      BY <1>1, <2>4, <3>1, <3>2 DEF ClientTimeout
  <2> QED
    BY <2>1, <2>3, <2>4
<1>8. \/ UNCHANGED clientVars \/ ProcUdRequest \/ Reply
      \/ \E c \in Clients : Send(c) \/ ClientTimeout(c)
  BY DEF Next, CommandThread, UpdatePolicy, World, NetThread, vars, SelectRequest,
         SelectTimeout, SigTest, SigClear, TimeoutInit, CancelThread, WaitEnd,
         DestroyTables, InitTables, LoadPolicy, CreateThread, CreateFails, WaitInit,
         StartThread, StartFails, NetLoop, ActOnCancel, FrontCleanup, CloseSocket, ResetSockfd, ReportEnd, EditFile, Hup,
         clientVars
<1> QED
  BY <1>4, <1>5, <1>6, <1>7, <1>8

\* The variables keep their types.
THEOREM TypeCorrect == Spec => []TypeOK
<1>1. Init => TypeOK
  BY ThreadAssumption DEF Init, TypeOK, CmdTypeOK, NetTypeOK, FileTypeOK, ClientTypeOK,
                          CmdPoints, RebuildPoints, LivePoints, CleanupPoints, NoClient
<1>2. TypeOK /\ [Next]_vars => TypeOK'
  BY CmdTypes, NetTypes, FileTypes, ClientTypes DEF TypeOK
<1> QED
  BY <1>1, <1>2, PTL DEF Spec

-----------------------------------------------------------------------------
(* The reload protocol.  Every reload ends the old network thread before it  *)
(* touches the tables; ReloadInv says what the command thread knows of the   *)
(* network thread at every point of that protocol.                           *)

LEMMA ReloadInit == Init => ReloadInv
BY DEF Init, ReloadInv, OneNetThread, Live, At, LivePoints, CleanupPoints, RebuildPoints

\* The command thread's steps outside a reload, and those of the world, change
\* neither a network thread nor what the invariant says of one.
LEMMA ReloadOutside ==
    ASSUME TypeOK, ReloadInv,
           SelectRequest \/ SelectTimeout \/ ProcUdRequest \/ Reply \/ SigTest \/ SigClear
              \/ TimeoutInit \/ World \/ UNCHANGED vars
    PROVE  ReloadInv'
<1> USE DEF ReloadInv, OneNetThread, Live, At, Goto, RebuildPoints,
            netVars, fileVars, cmdVars, clientVars
<1>1. UNCHANGED <<net, cancelled, wait, cancel_end, sockfd, open, tbl, tid, new>>
  BY DEF SelectRequest, SelectTimeout, ProcUdRequest, Reply, SigTest, SigClear,
         TimeoutInit, World, EditFile, Hup, Send, ClientTimeout, vars
<1>2. \/ cmd' = cmd
      \/ /\ cmd.pc \notin RebuildPoints \cup {"exit", "wait_init", "wait_end"}
         /\ cmd'.pc \notin RebuildPoints \cup {"exit", "wait_init", "wait_end"}
  <2>1. CASE SelectRequest \/ SelectTimeout \/ Reply \/ SigClear \/ TimeoutInit
    BY <2>1 DEF SelectRequest, SelectTimeout, Reply, SigClear, TimeoutInit, TypeOK, CmdTypeOK
  <2>2. CASE SigTest
    BY <2>2 DEF SigTest, TypeOK, CmdTypeOK
  <2>3. CASE ProcUdRequest
    BY <2>3 DEF ProcUdRequest
  <2>4. CASE Hup
    BY <2>4 DEF Hup, Interrupt, TypeOK, CmdTypeOK
  <2>5. CASE EditFile \/ (\E c \in Clients : Send(c) \/ ClientTimeout(c)) \/ UNCHANGED vars
    BY <2>5 DEF EditFile, Send, ClientTimeout, vars
  <2> QED
    BY <2>1, <2>2, <2>3, <2>4, <2>5 DEF World
<1>3. CASE cmd' = cmd
  BY <1>1, <1>3
<1>4. CASE cmd' # cmd
  BY <1>1, <1>2, <1>4
<1> QED
  BY <1>3, <1>4

\* The steps of update_policy and create_net_thread.
LEMMA ReloadUpdate ==
    ASSUME TypeOK, ReloadInv, UpdatePolicy
    PROVE  ReloadInv'
<1> USE DEF ReloadInv, OneNetThread, Live, At, Goto, RebuildPoints, TypeOK, CmdTypeOK, NetTypeOK, FileTypeOK, CmdPoints,
            netVars, fileVars, cmdVars, clientVars
<1>1. CASE CancelThread
  BY <1>1 DEF CancelThread
<1>2. CASE WaitEnd
  BY <1>2 DEF WaitEnd
<1>3. CASE DestroyTables
  BY <1>3 DEF DestroyTables
<1>4. CASE InitTables
  BY <1>4 DEF InitTables
<1>5. CASE LoadPolicy
  BY <1>5 DEF LoadPolicy
<1>6. CASE \E t \in Threads : CreateThread(t)
  BY <1>6, ThreadAssumption DEF CreateThread, LivePoints, CleanupPoints
<1>7. CASE CreateFails
  BY <1>7 DEF CreateFails, Return
<1>8. CASE WaitInit
  BY <1>8 DEF WaitInit, Return
<1> QED
  BY <1>1, <1>2, <1>3, <1>4, <1>5, <1>6, <1>7, <1>8 DEF UpdatePolicy

\* The steps of a network thread.
LEMMA ReloadNet ==
    ASSUME TypeOK, ReloadInv, NEW t \in Threads, NetThread(t)
    PROVE  ReloadInv'
<1> USE DEF ReloadInv, OneNetThread, Live, At, NetGoto, RebuildPoints, TypeOK, CmdTypeOK, NetTypeOK, FileTypeOK, LivePoints, CleanupPoints,
            netVars, fileVars, cmdVars, clientVars
<1>1. CASE StartThread(t)
  BY <1>1, ThreadAssumption DEF StartThread
<1>2. CASE StartFails(t)
  BY <1>2 DEF StartFails
<1>3. CASE NetLoop(t)
  BY <1>3 DEF NetLoop
<1>4. CASE ActOnCancel(t)
  BY <1>4 DEF ActOnCancel, Running, CancelPoints
<1>5. CASE CloseSocket(t)
  BY <1>5, ThreadAssumption DEF CloseSocket
<1>6. CASE ResetSockfd(t)
  BY <1>6, ThreadAssumption DEF ResetSockfd
<1>7. CASE ReportEnd(t)
  BY <1>7, ThreadAssumption DEF ReportEnd
<1> QED
  BY <1>1, <1>2, <1>3, <1>4, <1>5, <1>6, <1>7 DEF NetThread, FrontCleanup

\* The invariant the safety of a reload rests on: at every point of the
\* protocol the command thread knows what the one network thread is doing.
THEOREM ReloadCorrect == Spec => []ReloadInv
<1>1. TypeOK /\ ReloadInv /\ [Next]_vars => ReloadInv'
  BY ReloadOutside, ReloadUpdate, ReloadNet DEF Next, CommandThread
<1> QED
  BY ReloadInit, <1>1, TypeCorrect, PTL DEF Spec

\* The tables are in place, and will stay, whenever a network thread uses them.
THEOREM TablesSafe == Spec => []TablesReadyWhenUsed
<1>1. TypeOK /\ ReloadInv => TablesReadyWhenUsed
  <2> SUFFICES ASSUME TypeOK, ReloadInv, NEW t \in Threads, net[t] \in TablePoints
               PROVE  tbl.state \in {"ready", "unread"} /\ cmd.pc \notin RebuildPoints
    BY DEF TablesReadyWhenUsed
  <2>1. cmd.pc \notin RebuildPoints
    BY DEF ReloadInv, Live, TablePoints, LivePoints
  <2>2. tbl.state \in {"ready", "unread", "destroyed", "empty"}
    BY DEF TypeOK, FileTypeOK
  <2>3. tbl.state \in {"destroyed", "empty"} => cmd.pc \in RebuildPoints
    BY DEF ReloadInv, RebuildPoints
  <2> QED
    BY <2>1, <2>2, <2>3
<1> QED
  BY <1>1, TypeCorrect, ReloadCorrect, PTL

\* At most one network thread is alive.
THEOREM SingleNetThread == Spec => []OneNetThread
BY ReloadCorrect, PTL DEF ReloadInv

\* Only the live thread's socket is open, and sockfd names it, at every point
\* of the cleanup handler and of the reload that waits for it.
THEOREM SocketsClosed == Spec => []NoSocketLeak
<1>1. TypeOK /\ ReloadInv => NoSocketLeak
  <2> SUFFICES ASSUME TypeOK, ReloadInv PROVE NoSocketLeak
    OBVIOUS
  <2>1. \A t \in open : Live(t)
    BY DEF ReloadInv
  <2>2. \A t \in Threads : t \in open => sockfd = t
    BY DEF ReloadInv
  <2>3. open \subseteq {sockfd} \ {NoThread}
    BY <2>2, ThreadAssumption DEF TypeOK, NetTypeOK
  <2>4. CASE sockfd \in open \/ sockfd = NoThread
    BY <2>1, <2>3, <2>4 DEF NoSocketLeak
  <2>5. CASE sockfd \notin open /\ sockfd # NoThread
    <3>1. sockfd \in Threads /\ net[sockfd] = "closed" /\ open = {}
      BY <2>3, <2>5 DEF ReloadInv, TypeOK, NetTypeOK
    <3>2. sockfd \in cancelled /\ Live(sockfd)
      BY <3>1 DEF ReloadInv, CleanupPoints
    <3>3. At("wait_end") /\ cancel_end = 0
      BY <3>1, <3>2 DEF ReloadInv, TypeOK, NetTypeOK
    <3> QED
      BY <2>1, <3>1, <3>3 DEF NoSocketLeak
  <2> QED
    BY <2>4, <2>5
<1> QED
  BY <1>1, TypeCorrect, ReloadCorrect, PTL

-----------------------------------------------------------------------------
(* The answer to a policy update.  Its proof needs, besides what a reload    *)
(* knows of the network thread, what the command thread knows of the request *)
(* it works for.                                                             *)

\* A request that was sent is never sent again, and asks for no version the
\* file has not reached.
RequestInv ==
    /\ \A c \in Clients : client[c].version <= file
    /\ \A i \in DOMAIN queue : client[queue[i]].st # "idle"
    /\ cmd.caller = "ud" => cmd.client \in Clients /\ client[cmd.client].st # "idle"
    /\ At("reply") => cmd.caller = "ud"

\* From the loading of the policies on, the tables are as new as the request
\* the reload is for.
LoadedInv ==
    cmd.caller = "ud"
       /\ (\/ cmd.pc \in {"create", "wait_init"}
           \/ At("reply") /\ client[cmd.client].req = "UD_POLICY_UPD")
    => tbl.version >= client[cmd.client].version

\* Points between two reloads.
ServingPoints == {"select", "request", "sig_test", "sig_clear", "garp", "cancel", "reply"}

\* Between two reloads a network thread is there, if the last of them could
\* create one.
ServedInv == cmd.pc \in ServingPoints => (cmd.created <=> \E t \in Threads : Live(t))

LEMMA AnswerInit == Init => RequestInv /\ LoadedInv /\ ServedInv
BY DEF Init, RequestInv, LoadedInv, ServedInv, ServingPoints, At

LEMMA RequestStep == TypeOK /\ RequestInv /\ [Next]_vars => RequestInv'
<1> SUFFICES ASSUME TypeOK, RequestInv, [Next]_vars PROVE RequestInv'
  OBVIOUS
<1>0. /\ queue \in Seq(Clients)
      /\ client \in [Clients -> [st : ClientStates, req : Requests, version : 0 .. MaxVersion]]
      /\ file \in Nat
  BY ThreadAssumption DEF TypeOK, ClientTypeOK, FileTypeOK, ClientStates
<1> USE DEF RequestInv, At, Goto
<1>1. cmd \in [pc : CmdPoints, caller : {"main", "loop", "ud", "sig"},
                client : Clients \cup {NoClient}, created : BOOLEAN]
  BY DEF TypeOK, CmdTypeOK
<1>2. CASE SelectRequest \/ SelectTimeout \/ SigTest \/ SigClear \/ TimeoutInit \/ Hup
           \/ UpdatePolicy
  <2>1. UNCHANGED <<client, queue, file>>
    BY <1>2 DEF SelectRequest, SelectTimeout, SigTest, SigClear, TimeoutInit, Hup, UpdatePolicy,
           CancelThread, WaitEnd, DestroyTables, InitTables, LoadPolicy, CreateThread,
           CreateFails, WaitInit, clientVars, fileVars
  <2>2. CASE SelectRequest \/ SelectTimeout \/ SigTest \/ SigClear \/ TimeoutInit \/ Hup
    <3>1. \/ cmd' = cmd
          \/ /\ cmd'.pc # "reply"
             /\ cmd'.caller = "ud" => cmd.caller = "ud" /\ cmd'.client = cmd.client
      <4>1. CASE SelectRequest \/ SelectTimeout \/ SigClear
        BY <1>1, <4>1 DEF SelectRequest, SelectTimeout, SigClear
      <4>2. CASE SigTest
        BY <1>1, <4>2 DEF SigTest
      <4>3. CASE TimeoutInit
        BY <4>3 DEF TimeoutInit
      <4>4. CASE Hup
        BY <1>1, <4>4 DEF Hup, Interrupt
      <4> QED
        BY <2>2, <4>1, <4>2, <4>3, <4>4
    <3> QED
      BY <2>1, <3>1
  <2>3. CASE UpdatePolicy
    <3>1. \/ CancelThread \/ WaitEnd \/ DestroyTables \/ InitTables \/ LoadPolicy
          \/ (\E t \in Threads : CreateThread(t))
          => cmd'.pc # "reply" /\ cmd'.caller = cmd.caller /\ cmd'.client = cmd.client
      BY <1>1 DEF CancelThread, WaitEnd, DestroyTables, InitTables, LoadPolicy, CreateThread
    <3>2. CreateFails \/ WaitInit
          => /\ cmd'.pc = "reply" => cmd.caller = "ud"
             /\ cmd'.caller = cmd.caller /\ cmd'.client = cmd.client
      BY <1>1 DEF CreateFails, WaitInit, Return
    <3> QED
      BY <2>1, <2>3, <3>1, <3>2 DEF UpdatePolicy
  <2> QED
    BY <1>2, <2>2, <2>3
<1>3. CASE (\E t \in Threads : NetThread(t)) \/ UNCHANGED vars
  BY <1>3 DEF NetThread, StartThread, StartFails, NetLoop, ActOnCancel, FrontCleanup, CloseSocket, ResetSockfd, ReportEnd, vars,
           cmdVars, clientVars, fileVars
<1>4. CASE ProcUdRequest
  BY <1>0, <1>4 DEF ProcUdRequest, fileVars
<1>5. CASE Reply
  BY <1>0, <1>5 DEF Reply, Answer, fileVars
<1>6. CASE EditFile
  BY <1>0, <1>6 DEF EditFile, cmdVars, clientVars
<1>7. CASE \E c \in Clients : Send(c)
  BY <1>0, <1>7 DEF Send, cmdVars, fileVars
<1>8. CASE \E c \in Clients : ClientTimeout(c)
  BY <1>0, <1>8 DEF ClientTimeout, cmdVars, fileVars
<1> QED
  BY <1>2, <1>3, <1>4, <1>5, <1>6, <1>7, <1>8 DEF Next, CommandThread, World

LEMMA LoadedStep == TypeOK /\ RequestInv /\ LoadedInv /\ [Next]_vars => LoadedInv'
<1> SUFFICES ASSUME TypeOK, RequestInv, LoadedInv, [Next]_vars PROVE LoadedInv'
  OBVIOUS
<1>0. /\ client \in [Clients -> [st : ClientStates, req : Requests, version : 0 .. MaxVersion]]
      /\ cmd \in [pc : CmdPoints, caller : {"main", "loop", "ud", "sig"},
                  client : Clients \cup {NoClient}, created : BOOLEAN]
  BY DEF TypeOK, ClientTypeOK, CmdTypeOK, ClientStates
<1>1. /\ file \in Nat /\ tbl.version \in Nat
      /\ \A c \in Clients : client[c].version \in Nat
  BY <1>0, ThreadAssumption DEF TypeOK, FileTypeOK
<1> USE DEF LoadedInv, At, Goto
<1>2. CASE SelectRequest \/ SelectTimeout \/ SigTest \/ SigClear \/ TimeoutInit \/ Hup
           \/ CancelThread \/ WaitEnd \/ DestroyTables \/ InitTables
  <2>1. (cmd' = cmd /\ UNCHANGED <<client, tbl>>) \/ cmd'.pc \notin {"create", "wait_init", "reply"}
    <3>1. CASE SelectRequest \/ SelectTimeout \/ SigClear \/ CancelThread \/ WaitEnd
               \/ DestroyTables \/ InitTables
      BY <1>0, <3>1 DEF SelectRequest, SelectTimeout, SigClear, CancelThread, WaitEnd,
           DestroyTables, InitTables
    <3>2. CASE SigTest
      BY <1>0, <3>2 DEF SigTest
    <3>3. CASE TimeoutInit
      BY <3>3 DEF TimeoutInit
    <3>4. CASE Hup
      BY <1>0, <3>4 DEF Hup, Interrupt, clientVars
    <3> QED
      BY <1>2, <3>1, <3>2, <3>3, <3>4
  <2> QED
    BY <2>1
<1>3. CASE LoadPolicy
  <2>1. cmd'.pc = "create" /\ cmd'.caller = cmd.caller /\ cmd'.client = cmd.client
        /\ tbl'.version = file /\ client' = client
    BY <1>0, <1>3 DEF LoadPolicy, clientVars
  <2>2. cmd.caller = "ud" => client[cmd.client].version <= file
    BY DEF RequestInv
  <2> QED
    BY <2>1, <2>2, <1>1
<1>4. CASE (\E t \in Threads : CreateThread(t)) \/ CreateFails \/ WaitInit
  <2>1. /\ cmd.pc \in {"create", "wait_init"}
        /\ cmd'.caller = cmd.caller /\ cmd'.client = cmd.client /\ UNCHANGED <<client, tbl>>
    BY <1>0, <1>4 DEF CreateThread, CreateFails, WaitInit, clientVars
  <2> QED
    BY <2>1
<1>5. CASE ProcUdRequest
  <2>1. LET c == Head(queue) IN
        cmd'.client = c /\ client' = client
        /\ cmd'.pc \in {"garp", "cancel", "reply"}
        /\ (cmd'.pc = "reply" => client[c].req # "UD_POLICY_UPD")
    BY <1>5 DEF ProcUdRequest
  <2> QED
    BY <2>1
<1>6. CASE Reply
  BY <1>0, <1>6 DEF Reply
<1>7. CASE (\E t \in Threads : NetThread(t)) \/ EditFile \/ UNCHANGED vars
  BY <1>7 DEF NetThread, StartThread, StartFails, NetLoop, ActOnCancel, FrontCleanup, CloseSocket, ResetSockfd, ReportEnd, EditFile,
           vars, cmdVars, clientVars
<1>8. CASE \E c \in Clients : Send(c) \/ ClientTimeout(c)
  <2>1. PICK c \in Clients : Send(c) \/ ClientTimeout(c)
    BY <1>8
  <2>2. UNCHANGED <<cmd, tbl>>
    BY <2>1 DEF Send, ClientTimeout, cmdVars
  <2>3. \A d \in Clients : client[d].st # "idle"
              => client'[d].version = client[d].version /\ client'[d].req = client[d].req
    BY <1>0, <2>1 DEF Send, ClientTimeout
  <2> QED
    BY <2>2, <2>3 DEF RequestInv
<1> QED
  BY <1>2, <1>3, <1>4, <1>5, <1>6, <1>7, <1>8 DEF Next, CommandThread, UpdatePolicy, World

LEMMA ServedStep == TypeOK /\ ReloadInv /\ ServedInv /\ [Next]_vars => ServedInv'
<1> SUFFICES ASSUME TypeOK, ReloadInv, ServedInv, [Next]_vars PROVE ServedInv'
  OBVIOUS
<1>0. /\ cmd \in [pc : CmdPoints, caller : {"main", "loop", "ud", "sig"},
                  client : Clients \cup {NoClient}, created : BOOLEAN]
      /\ net \in [Threads -> LivePoints \cup {"none"}]
      /\ wait \in {"0", "1", "-1"}
  BY DEF TypeOK, CmdTypeOK, NetTypeOK
<1> USE DEF ServedInv, ServingPoints, At, Goto
<1>1. CASE SelectRequest \/ SelectTimeout \/ ProcUdRequest \/ Reply \/ SigTest \/ SigClear
           \/ TimeoutInit \/ World \/ UNCHANGED vars
  <2>1. UNCHANGED net
    BY <1>1 DEF SelectRequest, SelectTimeout, ProcUdRequest, Reply, SigTest, SigClear,
           TimeoutInit, World, EditFile, Hup, Send, ClientTimeout, vars, netVars
  <2>2. \/ cmd' = cmd
        \/ cmd.pc \in ServingPoints /\ cmd'.created = cmd.created
    <3>1. CASE SelectRequest \/ SelectTimeout \/ Reply \/ SigClear \/ TimeoutInit
      BY <1>0, <3>1 DEF SelectRequest, SelectTimeout, Reply, SigClear, TimeoutInit
    <3>2. CASE ProcUdRequest
      BY <1>0, <3>2 DEF ProcUdRequest
    <3>3. CASE SigTest
      BY <1>0, <3>3 DEF SigTest
    <3>4. CASE Hup
      BY <1>0, <3>4 DEF Hup, Interrupt
    <3>5. CASE EditFile \/ (\E c \in Clients : Send(c) \/ ClientTimeout(c)) \/ UNCHANGED vars
      BY <3>5 DEF EditFile, Send, ClientTimeout, vars, cmdVars
    <3> QED
      BY <1>1, <3>1, <3>2, <3>3, <3>4, <3>5 DEF World
  <2> QED
    BY <2>1, <2>2 DEF Live
<1>2. CASE CancelThread \/ WaitEnd \/ DestroyTables \/ InitTables \/ LoadPolicy
           \/ (\E t \in Threads : CreateThread(t))
  <2>1. cmd'.pc \notin ServingPoints
    BY <1>0, <1>2 DEF CancelThread, WaitEnd, DestroyTables, InitTables, LoadPolicy, CreateThread
  <2> QED
    BY <2>1
<1>3. CASE CreateFails
  <2>1. UNCHANGED net /\ cmd'.created = FALSE
    BY <1>0, <1>3 DEF CreateFails, netVars
  <2>2. \A t \in Threads : ~Live(t)
    BY <1>3 DEF CreateFails, ReloadInv, RebuildPoints
  <2> QED
    BY <2>1, <2>2 DEF Live
<1>4. CASE WaitInit
  <2>1. UNCHANGED net /\ cmd'.created = (wait = "1") /\ wait \in {"1", "-1"}
    BY <1>0, <1>4 DEF WaitInit, netVars
  <2>2. /\ new \in Threads
        /\ \A t \in Threads : Live(t) => t = new
        /\ wait = "1" => Live(new)
        /\ wait = "-1" => ~Live(new)
    BY <1>4 DEF WaitInit, ReloadInv
  <2>3. (\E t \in Threads : Live(t)) <=> wait = "1"
    BY <2>1, <2>2
  <2> QED
    BY <2>1, <2>3 DEF Live
<1>5. CASE \E t \in Threads : NetThread(t)
  <2>1. PICK t \in Threads : NetThread(t)
    BY <1>5
  <2>2. cmd' = cmd
    BY <2>1 DEF NetThread, StartThread, StartFails, NetLoop, ActOnCancel, FrontCleanup,
                CloseSocket, ResetSockfd, ReportEnd, cmdVars
  <2>3. CASE FrontCleanup(t)
    <3>1. net[t] \in CleanupPoints
      BY <2>3 DEF FrontCleanup, CloseSocket, ResetSockfd, ReportEnd, NetGoto, CleanupPoints
    <3>2. At("wait_end")
      BY <3>1 DEF ReloadInv
    <3> QED
      BY <2>2, <3>2
  <2>4. CASE StartThread(t) \/ StartFails(t)
    <3>1. At("wait_init")
      BY <2>4 DEF StartThread, StartFails, NetGoto, ReloadInv
    <3> QED
      BY <2>2, <3>1
  <2>5. CASE NetLoop(t) \/ ActOnCancel(t)
    <3>1. \A u \in Threads : Live(u) <=> net'[u] \in LivePoints
      BY <1>0, <2>5 DEF NetLoop, ActOnCancel, Running, CancelPoints, NetGoto, Live,
                        LivePoints, CleanupPoints
    <3> QED
      BY <2>2, <3>1 DEF Live
  <2> QED
    BY <2>1, <2>3, <2>4, <2>5 DEF NetThread
<1> QED
  BY <1>1, <1>2, <1>3, <1>4, <1>5 DEF Next, CommandThread, UpdatePolicy

\* "complete", the answer to a policy update, tells that the tables are at
\* least as new as the file was when the command was given, and that a network
\* thread distributes by them exactly if the reload could create one (the
\* return value of create_net_thread, which update_policy drops).
THEOREM CompleteReloaded == Spec => CompleteTellsLoaded
<1>1. ASSUME TypeOK, ReloadInv, RequestInv, LoadedInv, ServedInv, [Next]_vars,
             NEW c \in Clients, client[c].st = "waiting", client'[c].st = "complete",
             client[c].req = "UD_POLICY_UPD"
      PROVE  /\ tbl.version >= client[c].version
             /\ tbl.state \in {"ready", "unread"}
             /\ cmd.created <=> \E t \in Threads : Distributes(t)
  <2>0. client \in [Clients -> [st : ClientStates, req : Requests, version : 0 .. MaxVersion]]
    BY <1>1 DEF TypeOK, ClientTypeOK, ClientStates
  <2>1. Reply /\ cmd.client = c
    <3>1. client' # client
      BY <1>1
    <3>2. Reply \/ \E d \in Clients : Send(d) \/ ClientTimeout(d)
      BY <1>1, <3>1 DEF Next, CommandThread, UpdatePolicy, World, NetThread, vars, SelectRequest,
         SelectTimeout, SigTest, SigClear, TimeoutInit, CancelThread, WaitEnd, ProcUdRequest,
         DestroyTables, InitTables, LoadPolicy, CreateThread, CreateFails, WaitInit,
         StartThread, StartFails, NetLoop, ActOnCancel, FrontCleanup, CloseSocket, ResetSockfd, ReportEnd, EditFile, Hup,
         clientVars
    <3>3. ASSUME NEW d \in Clients, Send(d) \/ ClientTimeout(d) PROVE FALSE
      BY <1>1, <2>0, <3>3 DEF Send, ClientTimeout
    <3>4. Reply
      BY <3>2, <3>3
    <3> QED
      BY <1>1, <2>0, <3>4 DEF Reply
  <2>2. At("reply")
    BY <2>1 DEF Reply
  <2>3. tbl.version >= client[c].version
    BY <1>1, <2>1, <2>2 DEF RequestInv, LoadedInv
  <2>4. tbl.state \in {"ready", "unread"}
    BY <1>1, <2>2 DEF ReloadInv, At, TypeOK, FileTypeOK
  <2>5. cmd.created <=> \E t \in Threads : Live(t)
    BY <1>1, <2>2 DEF ServedInv, ServingPoints, At
  <2>6. \A t \in Threads : Live(t) <=> Distributes(t)
    <3>1. \A t \in Threads : net[t] # "starting" /\ net[t] \notin CleanupPoints
      BY <1>1, <2>2 DEF ReloadInv, At
    <3> QED
      BY <3>1, Zenon DEF Live, Distributes
  <2> QED
    BY <2>3, <2>4, <2>5, <2>6
<1>2. /\ Init => RequestInv /\ LoadedInv /\ ServedInv
      /\ TypeOK /\ ReloadInv /\ RequestInv /\ LoadedInv /\ ServedInv /\ [Next]_vars
           => RequestInv' /\ LoadedInv' /\ ServedInv'
  BY AnswerInit, RequestStep, LoadedStep, ServedStep
<1>3. TypeOK /\ ReloadInv /\ RequestInv /\ LoadedInv /\ ServedInv /\ [Next]_vars
        => [\A c \in Clients :
              (client[c].st = "waiting" /\ client'[c].st = "complete"
                  /\ client[c].req = "UD_POLICY_UPD")
              => /\ tbl.version >= client[c].version
                 /\ tbl.state \in {"ready", "unread"}
                 /\ cmd.created <=> \E t \in Threads : Distributes(t)
           ]_vars
  BY <1>1
<1>4. Spec => []TypeOK /\ []ReloadInv
  BY TypeCorrect, ReloadCorrect
<1>5. Spec => [](TypeOK /\ ReloadInv /\ RequestInv /\ LoadedInv /\ ServedInv)
  BY <1>2, <1>4, PTL DEF Spec
<1> QED
  BY <1>3, <1>5, PTL DEF Spec, CompleteTellsLoaded
=============================================================================
