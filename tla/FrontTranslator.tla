--------------------------- MODULE FrontTranslator ---------------------------
(***************************************************************************)
(* The threads of the front translator and the reload protocol between     *)
(* them: main and the network thread of front/front.c, update_policy of    *)
(* front/command_proc.c, the command loop of common/cmd_common.c,          *)
(* create_net_thread of front/front_init.c, and the sasat command's        *)
(* request (cmd/sasat.c).                                                  *)
(*                                                                         *)
(* The tables themselves are PolicyCache's; here they are "ready",         *)
(* "destroyed" (freed), "empty" (initialised) or "unread" (in place without *)
(* a policy, because the file could not be opened), with the version the   *)
(* policy file had when it was opened.                                     *)
(*                                                                         *)
(* What may fail may always fail: opening the policy file, pthread_create, *)
(* and the new thread's packet socket.                                     *)
(*                                                                         *)
(* A network thread is created, cancelled with pthread_cancel (deferred    *)
(* cancellation: it is acted upon at select, recv, write and in the        *)
(* system calls of the MAC resolution) and recreated by every reload.      *)
(* Threads is a set of thread identities; one that ended may be reused.    *)
(***************************************************************************)
EXTENDS Naturals, Sequences, FiniteSets

CONSTANTS Threads,        \* identities of network threads
          NoThread,       \* tid before the first thread, sockfd = 0
          Clients,        \* sasat processes, one request each
          MaxVersion,     \* bound: edits of the policy file
          MaxHups         \* bound: SIGHUPs sent

ASSUME ThreadAssumption ==
    /\ NoThread \notin Threads
    /\ MaxVersion \in Nat /\ MaxHups \in Nat

VARIABLES
    cmd,         \* command thread: [pc, caller, client, created]; created:
                 \* did create_net_thread return a thread when last called?
    net,         \* net[t]: where network thread t is
    cancelled,   \* threads with a cancellation pending
    tid,         \* nt_info.th[0].tid
    new,         \* the thread create_net_thread waits for
    wait,        \* create_net_thread's local: 0, 1, -1
    cancel_end,  \* nt_info.th[0].cancel_end
    sockfd,      \* if_ingress->sockfd: the thread that opened it
    open,        \* threads whose packet socket is open
    tbl,         \* the tables: [state, version]
    file,        \* version of the policy file
    sig_flg,     \* set by the SIGHUP handler
    hup,         \* [sent, version]: SIGHUPs so far, file version at the last
    queue,       \* requests in the unix domain socket
    client       \* client[c]: [st, req, version]

cmdVars    == <<cmd, tid, new, sig_flg>>
netVars    == <<net, cancelled, wait, cancel_end, sockfd, open>>
fileVars   == <<file, hup>>
clientVars == <<queue, client>>
vars == <<cmdVars, netVars, tbl, fileVars, clientVars>>

Requests == {"UD_POLICY_UPD", "UD_DUMP_REQ", "UD_EVTR", "bad_evtr", "bad_id", "bad_magic"}

\* Points of the network thread at which a cancellation is acted upon, points
\* at which it reads or writes the tables, those of its cleanup handler, and
\* all points of a live thread.
CancelPoints  == {"select", "resolve", "write"}
TablePoints   == {"lookup", "resolve", "write", "patrol"}
CleanupPoints == {"cleanup", "closed", "zeroed"}
LivePoints    == {"starting", "select", "lookup", "resolve", "write", "patrol"}
                 \cup CleanupPoints

\* Points of update_policy between the old network thread's end and the
\* creation of the new one.
RebuildPoints == {"destroy", "init", "load", "create"}
CmdPoints == {"select", "request", "sig_test", "sig_clear", "garp", "cancel", "wait_end",
              "wait_init", "reply", "exit"} \cup RebuildPoints

NoClient == "none"

CmdTypeOK ==
    /\ cmd \in [pc : CmdPoints, caller : {"main", "loop", "ud", "sig"},
                client : Clients \cup {NoClient}, created : BOOLEAN]
    /\ tid \in Threads \cup {NoThread}
    /\ new \in Threads \cup {NoThread}
    /\ sig_flg \in {0, 1}

NetTypeOK ==
    /\ net \in [Threads -> LivePoints \cup {"none"}]
    /\ cancelled \in SUBSET Threads
    /\ wait \in {"0", "1", "-1"}
    /\ cancel_end \in {0, 1}
    /\ sockfd \in Threads \cup {NoThread}
    /\ open \in SUBSET Threads

FileTypeOK ==
    /\ tbl \in [state : {"ready", "unread", "destroyed", "empty"}, version : 0 .. MaxVersion]
    /\ file \in 0 .. MaxVersion
    /\ hup \in [sent : 0 .. MaxHups, version : 0 .. MaxVersion]

ClientTypeOK ==
    /\ queue \in Seq(Clients)
    /\ client \in [Clients -> [st : {"idle", "waiting", "complete", "error", "timeout"},
                               req : Requests, version : 0 .. MaxVersion]]

TypeOK == CmdTypeOK /\ NetTypeOK /\ FileTypeOK /\ ClientTypeOK

\* main has initialised the tables and is about to read the policy file.
Init ==
    /\ cmd = [pc |-> "load", caller |-> "main", client |-> NoClient, created |-> TRUE]
    /\ net = [t \in Threads |-> "none"]
    /\ cancelled = {}
    /\ tid = NoThread /\ new = NoThread
    /\ wait = "0" /\ cancel_end = 0
    /\ sockfd = NoThread /\ open = {}
    /\ tbl = [state |-> "empty", version |-> 0]
    /\ file = 0
    /\ sig_flg = 0 /\ hup = [sent |-> 0, version |-> 0]
    /\ queue = <<>>
    /\ client \in [Clients -> [st : {"idle"}, req : Requests, version : {0}]]

At(pc) == cmd.pc = pc

\* command_proc has been entered: its socket and its SIGHUP handler exist.
Serving == cmd.caller # "main" /\ cmd.pc # "exit"

Goto(pc) == cmd' = [cmd EXCEPT !.pc = pc]

-----------------------------------------------------------------------------
(* The world outside: the administrator and the sasat processes              *)

EditFile ==
    /\ file < MaxVersion
    /\ file' = file + 1
    /\ UNCHANGED <<cmdVars, netVars, tbl, hup, clientVars>>

\* The select of the command thread is interrupted (EINTR), unless it has a
\* request to return or has not been entered yet.
Interrupt == (At("select") /\ queue = <<>> /\ Goto("sig_test")) \/ UNCHANGED cmd

\* SIGHUP.  ssat_handler_hup ignores further signals while it sets the flag,
\* which loses nothing: the flag is set in any case.  Network threads block
\* the signal.
Hup ==
    /\ Serving
    /\ hup.sent < MaxHups
    /\ hup' = [sent |-> hup.sent + 1, version |-> file]
    /\ sig_flg' = 1
    /\ Interrupt
    /\ UNCHANGED <<tid, new, netVars, tbl, file, clientVars>>

\* send_cmd: the request goes into the translator's socket.
Send(c) ==
    /\ client[c].st = "idle"
    /\ Serving
    /\ queue' = Append(queue, c)
    /\ client' = [client EXCEPT ![c].st = "waiting", ![c].version = file]
    /\ UNCHANGED <<cmdVars, netVars, tbl, fileVars>>

\* read_timeo: no answer for five seconds, the process gives up.
ClientTimeout(c) ==
    /\ client[c].st = "waiting"
    /\ client' = [client EXCEPT ![c].st = "timeout"]
    /\ UNCHANGED <<cmdVars, netVars, tbl, fileVars, queue>>

-----------------------------------------------------------------------------
(* The command thread: command_proc                                          *)

\* select returns because a request is there.
SelectRequest ==
    /\ At("select")
    /\ queue # <<>>
    /\ cmd' = [cmd EXCEPT !.pc = "request"]
    /\ UNCHANGED <<tid, new, sig_flg, netVars, tbl, fileVars, clientVars>>

\* select returns after ten seconds without one.
SelectTimeout ==
    /\ At("select")
    /\ queue = <<>>
    /\ Goto("sig_test")
    /\ UNCHANGED <<tid, new, sig_flg, netVars, tbl, fileVars, clientVars>>

\* A handler that answers first and reloads never.
AnswerAtOnce ==
    /\ At("request")
    /\ queue # <<>>
    /\ LET c == Head(queue)
       IN  cmd' = [cmd EXCEPT !.pc = IF client[c].req = "bad_magic" THEN "garp" ELSE "reply",
                              !.caller = "ud", !.client = c]
    /\ queue' = Tail(queue)
    /\ UNCHANGED <<tid, new, sig_flg, netVars, tbl, fileVars, client>>

\* proc_ud_request up to the request's handler.  A datagram of another length
\* or magic number is dropped without an answer.
ProcUdRequest ==
    /\ At("request")
    /\ queue # <<>>
    /\ LET c == Head(queue)
       IN  cmd' = [cmd EXCEPT !.pc = CASE client[c].req = "bad_magic" -> "garp"
                                       [] client[c].req = "UD_POLICY_UPD" -> "cancel"
                                       [] OTHER -> "reply",
                              !.caller = "ud", !.client = c]
    /\ queue' = Tail(queue)
    /\ UNCHANGED <<tid, new, sig_flg, netVars, tbl, fileVars, client>>

\* The answer: result OK unless r_code was set, which update_policy cannot do:
\* it returns nothing, whatever became of the reload.
\* A process that gave up has removed its socket and does not get it.
Answer(c) ==
    CASE client[c].st # "waiting" -> client[c].st
      [] client[c].st = "waiting" /\ client[c].req \in {"bad_evtr", "bad_id"} -> "error"
      [] OTHER -> "complete"

Reply ==
    /\ At("reply")
    /\ client' = [client EXCEPT ![cmd.client].st = Answer(cmd.client)]
    /\ Goto("garp")
    /\ UNCHANGED <<tid, new, sig_flg, netVars, tbl, fileVars, queue>>

\* proc_sig_check: the test of the flag, then its reset before the reload.
SigTest ==
    /\ At("sig_test")
    /\ cmd' = [cmd EXCEPT !.pc = IF sig_flg = 1 THEN "sig_clear" ELSE "garp",
                          !.caller = IF sig_flg = 1 THEN "sig" ELSE @]
    /\ UNCHANGED <<tid, new, sig_flg, netVars, tbl, fileVars, clientVars>>

SigClear ==
    /\ At("sig_clear")
    /\ sig_flg' = 0
    /\ Goto("cancel")
    /\ UNCHANGED <<tid, new, netVars, tbl, fileVars, clientVars>>

\* A loop that resets the flag after the reload as well.
TimeoutInitClearsFlag ==
    /\ At("garp")
    /\ cmd' = [cmd EXCEPT !.pc = "select", !.caller = "loop", !.client = NoClient]
    /\ sig_flg' = 0
    /\ UNCHANGED <<tid, new, netVars, tbl, fileVars, clientVars>>

\* timeout_init: a gratuitous ARP is written to sockfd if one is due.
TimeoutInit ==
    /\ At("garp")
    /\ cmd' = [cmd EXCEPT !.pc = "select", !.caller = "loop", !.client = NoClient]
    /\ UNCHANGED <<tid, new, sig_flg, netVars, tbl, fileVars, clientVars>>

-----------------------------------------------------------------------------
(* The command thread: update_policy and create_net_thread                   *)

\* cancel_end = 0, pthread_cancel(tid).  A tid whose (detached) thread has
\* ended names nothing that could be cancelled.
CancelThread ==
    /\ At("cancel")
    /\ cancel_end' = 0
    /\ cancelled' = IF tid \in Threads /\ net[tid] \in LivePoints
                    THEN cancelled \cup {tid} ELSE cancelled
    /\ Goto("wait_end")
    /\ UNCHANGED <<tid, new, sig_flg, net, wait, sockfd, open, tbl, fileVars, clientVars>>

\* The wait that trusts the ten milliseconds of sleep.
WaitEndBySleep ==
    /\ At("wait_end")
    /\ Goto("destroy")
    /\ UNCHANGED <<tid, new, sig_flg, netVars, tbl, fileVars, clientVars>>

WaitEnd ==
    /\ At("wait_end")
    /\ cancel_end = 1
    /\ Goto("destroy")
    /\ UNCHANGED <<tid, new, sig_flg, netVars, tbl, fileVars, clientVars>>

\* destroy_policy_table, destroy_svr_tbl.
DestroyTables ==
    /\ At("destroy")
    /\ tbl' = [tbl EXCEPT !.state = "destroyed"]
    /\ Goto("init")
    /\ UNCHANGED <<tid, new, sig_flg, netVars, fileVars, clientVars>>

\* init_svr_mng_table, init_policy_table(1).
InitTables ==
    /\ At("init")
    /\ tbl' = [tbl EXCEPT !.state = "empty"]
    /\ Goto("load")
    /\ UNCHANGED <<tid, new, sig_flg, netVars, fileVars, clientVars>>

\* get_interface_info, get_policy.  If the file cannot be opened the tables
\* stay without a policy, and a line in the log is all that tells.
LoadPolicy ==
    /\ At("load")
    /\ tbl' \in [state : {"ready", "unread"}, version : {file}]
    /\ Goto("create")
    /\ UNCHANGED <<tid, new, sig_flg, netVars, fileVars, clientVars>>

\* A return that forgets the answer.
ReturnNoReply(ok) ==
    IF cmd.caller = "main" /\ ~ok THEN "exit" ELSE "garp"

\* Where a reload, or main, goes on when create_net_thread has returned.
Return(ok) ==
    CASE cmd.caller = "main" -> IF ok THEN "garp" ELSE "exit"
      [] cmd.caller = "ud"   -> "reply"
      [] OTHER               -> "garp"

\* pthread_create, with the flag the new thread reports its start in.
CreateThread(t) ==
    /\ At("create")
    /\ net[t] = "none"
    /\ net' = [net EXCEPT ![t] = "starting"]
    /\ new' = t
    /\ wait' = "0"
    /\ Goto("wait_init")
    /\ UNCHANGED <<tid, sig_flg, cancelled, cancel_end, sockfd, open, tbl,
                   fileVars, clientVars>>

CreateFails ==
    /\ At("create")
    /\ cmd' = [cmd EXCEPT !.pc = Return(FALSE), !.created = FALSE]
    /\ UNCHANGED <<tid, new, sig_flg, netVars, tbl, fileVars, clientVars>>

\* The thread reported 1, or -1: then tid keeps its old value.
WaitInit ==
    /\ At("wait_init")
    /\ wait # "0"
    /\ tid' = IF wait = "1" THEN new ELSE tid
    /\ new' = NoThread
    /\ cmd' = [cmd EXCEPT !.pc = Return(wait = "1"), !.created = (wait = "1")]
    /\ UNCHANGED <<sig_flg, netVars, tbl, fileVars, clientVars>>

-----------------------------------------------------------------------------
(* The network thread: front_ingress1                                        *)

NetGoto(t, from, to) == net[t] = from /\ net' = [net EXCEPT ![t] = to]

Running(t) == ~(t \in cancelled /\ net[t] \in CancelPoints)

\* The socket is open: sockfd is set, the cleanup handler installed, then the
\* start reported.
StartThread(t) ==
    /\ NetGoto(t, "starting", "select")
    /\ sockfd' = t
    /\ open' = open \cup {t}
    /\ wait' = "1"
    /\ UNCHANGED <<cmdVars, cancelled, cancel_end, tbl, fileVars, clientVars>>

StartFails(t) ==
    /\ NetGoto(t, "starting", "none")
    /\ wait' = "-1"
    /\ UNCHANGED <<cmdVars, cancelled, cancel_end, sockfd, open, tbl, fileVars, clientVars>>

\* The loop: select (and recv), proc_recv_data for a packet, proc_patrol.
\* The lookup may have to resolve a MAC; a packet may be written.
NetLoop(t) ==
    /\ Running(t)
    /\ \/ NetGoto(t, "select", "lookup")
       \/ NetGoto(t, "select", "patrol")
       \/ NetGoto(t, "lookup", "resolve")
       \/ NetGoto(t, "lookup", "write")
       \/ NetGoto(t, "lookup", "select")
       \/ NetGoto(t, "resolve", "lookup")
       \/ NetGoto(t, "write", "select")
       \/ NetGoto(t, "patrol", "select")
    /\ UNCHANGED <<cmdVars, cancelled, wait, cancel_end, sockfd, open, tbl,
                   fileVars, clientVars>>

\* A pending cancellation takes effect at a cancellation point.
ActOnCancel(t) ==
    /\ ~Running(t)
    /\ net' = [net EXCEPT ![t] = "cleanup"]
    /\ UNCHANGED <<cmdVars, cancelled, wait, cancel_end, sockfd, open, tbl,
                   fileVars, clientVars>>

\* front_cleanup: the socket is closed, sockfd reset, then the end reported.
\* The command thread may take a step between any two of these.
CloseSocket(t) ==
    /\ NetGoto(t, "cleanup", "closed")
    /\ open' = open \ {sockfd}
    /\ UNCHANGED <<cmdVars, cancelled, wait, cancel_end, sockfd, tbl, fileVars, clientVars>>

ResetSockfd(t) ==
    /\ NetGoto(t, "closed", "zeroed")
    /\ sockfd' = NoThread
    /\ UNCHANGED <<cmdVars, cancelled, wait, cancel_end, open, tbl, fileVars, clientVars>>

ReportEnd(t) ==
    /\ NetGoto(t, "zeroed", "none")
    /\ cancelled' = cancelled \ {t}
    /\ cancel_end' = 1
    /\ UNCHANGED <<cmdVars, wait, sockfd, open, tbl, fileVars, clientVars>>

\* A cleanup handler that does not report the end.
EndNoReport(t) ==
    /\ NetGoto(t, "zeroed", "none")
    /\ cancelled' = cancelled \ {t}
    /\ UNCHANGED <<cmdVars, wait, cancel_end, sockfd, open, tbl, fileVars, clientVars>>

CleanupNoReport(t) == CloseSocket(t) \/ ResetSockfd(t) \/ EndNoReport(t)

\* A cleanup handler that reports the end first and closes the socket then.
CleanupReportsFirst(t) ==
    \/ /\ NetGoto(t, "cleanup", "closed")
       /\ cancel_end' = 1
       /\ UNCHANGED <<cmdVars, cancelled, wait, sockfd, open, tbl, fileVars, clientVars>>
    \/ /\ NetGoto(t, "closed", "zeroed")
       /\ open' = open \ {sockfd}
       /\ sockfd' = NoThread
       /\ UNCHANGED <<cmdVars, cancelled, wait, cancel_end, tbl, fileVars, clientVars>>
    \/ /\ NetGoto(t, "zeroed", "none")
       /\ cancelled' = cancelled \ {t}
       /\ UNCHANGED <<cmdVars, wait, cancel_end, sockfd, open, tbl, fileVars, clientVars>>

FrontCleanup(t) == CloseSocket(t) \/ ResetSockfd(t) \/ ReportEnd(t)

-----------------------------------------------------------------------------

UpdatePolicy ==
    \/ CancelThread \/ WaitEnd \/ DestroyTables \/ InitTables \/ LoadPolicy
    \/ (\E t \in Threads : CreateThread(t)) \/ CreateFails \/ WaitInit

CommandThread ==
    \/ SelectRequest \/ SelectTimeout \/ ProcUdRequest \/ Reply
    \/ SigTest \/ SigClear \/ TimeoutInit
    \/ UpdatePolicy

NetThread(t) ==
    StartThread(t) \/ StartFails(t) \/ NetLoop(t) \/ ActOnCancel(t) \/ FrontCleanup(t)

World == EditFile \/ Hup \/ \E c \in Clients : Send(c) \/ ClientTimeout(c)

Next == CommandThread \/ (\E t \in Threads : NetThread(t)) \/ World

Spec == Init /\ [][Next]_vars

\* Both threads are scheduled.  Nothing is assumed of the administrator or of
\* the sasat processes.
FairSpec ==
    /\ Spec
    /\ WF_vars(CommandThread)
    /\ \A t \in Threads : WF_vars(NetThread(t))
-----------------------------------------------------------------------------
(* Properties                                                                *)

Live(t) == net[t] \in LivePoints

\* A thread that takes packets: its start is reported, it has not been ended.
Distributes(t) == net[t] \in LivePoints \ ({"starting"} \cup CleanupPoints)

\* The tables are never used while they are rebuilt: whenever the network
\* thread is looking up, resolving, rewriting or sweeping, the policies and
\* servers are in place and the command thread is not about to free them.
TablesReadyWhenUsed ==
    \A t \in Threads :
       net[t] \in TablePoints =>
          tbl.state \in {"ready", "unread"} /\ cmd.pc \notin RebuildPoints

\* A reload never leaves two network threads running: they would share the
\* packet buffer, the cache and the sweep position without any lock.
OneNetThread == \A t, u \in Threads : Live(t) /\ Live(u) => t = u

\* However often the policies are reloaded, a network thread that ended has
\* closed its socket; sockfd names the socket that is open, except between the
\* close and the reset of sockfd in the old thread's cleanup handler, and
\* then the command thread is still waiting for that thread's end: no thread
\* ever closes, or resets, what belongs to another one.
NoSocketLeak ==
    /\ \A t \in open : Live(t)
    /\ \/ open = {sockfd} \ {NoThread}
       \/ /\ open = {}
          /\ sockfd \in Threads /\ net[sockfd] = "closed"
          /\ At("wait_end") /\ cancel_end = 0

\* Why the three above hold: the inductive invariant.
\* Whatever the command thread waits for or rebuilds, it knows what the one
\* network thread, if any, is doing.
ReloadInv ==
    /\ OneNetThread
    /\ cmd.pc \in RebuildPoints \cup {"exit"} => \A t \in Threads : ~Live(t)
    /\ At("wait_init") =>
          /\ new \in Threads
          /\ \A t \in Threads : Live(t) => t = new
          /\ wait = "0" => net[new] = "starting"
          /\ wait = "1" => Live(new) /\ net[new] # "starting"
          /\ wait = "-1" => ~Live(new)
    /\ \A t \in Threads : net[t] = "starting" => At("wait_init") /\ wait = "0"
    /\ \A t \in Threads : Live(t) => At("wait_init") \/ tid = t
    /\ \A t \in cancelled : Live(t) /\ At("wait_end")
    /\ \A t \in Threads : net[t] \in CleanupPoints => t \in cancelled
    /\ At("wait_end") /\ cancel_end = 1 => \A t \in Threads : ~Live(t)
    /\ tbl.state \in {"destroyed", "empty"} => cmd.pc \in {"init", "load"}
    /\ open = {t \in Threads : Live(t) /\ net[t] \notin {"starting", "closed", "zeroed"}}
    /\ sockfd # NoThread => net[sockfd] = "closed" \/ sockfd \in open
    /\ \A t \in Threads : t \in open \/ net[t] = "closed" => sockfd = t

\* What "complete", the answer to a policy update, tells: the tables are of
\* the file as it was when the command was given, or of a newer one (without
\* a policy if the file could not be opened); and a network thread
\* distributes by them exactly if the reload could create one.
CompleteTellsLoaded ==
    [][\A c \in Clients :
          (client[c].st = "waiting" /\ client'[c].st = "complete"
              /\ client[c].req = "UD_POLICY_UPD")
          => /\ tbl.version >= client[c].version
             /\ tbl.state \in {"ready", "unread"}
             /\ cmd.created <=> \E t \in Threads : Distributes(t)
      ]_vars

\* What the comment of cmd/sasat.c promises: "complete" means that the update
\* of the distribution has ended normally, with the policies read and a
\* network thread that distributes by them.
CompleteMeansReloaded ==
    [][\A c \in Clients :
          (client[c].st = "waiting" /\ client'[c].st = "complete"
              /\ client[c].req = "UD_POLICY_UPD")
          => /\ tbl.state = "ready" /\ tbl.version >= client[c].version
             /\ \E t \in Threads : Distributes(t)
      ]_vars

\* A reload after one whose restart failed waits for a thread that has ended.
Hung == At("wait_end") /\ ~cmd.created

\* No SIGHUP is lost: the file as it was at the signal, or a newer one, is
\* loaded eventually, whatever the command thread was doing when it came;
\* unless an earlier restart failed and the command thread hangs.
HupReloads ==
    \A v \in 1 .. MaxVersion : (hup.version = v) ~> (tbl.version >= v \/ Hung)

\* A reload that finds a network thread ends, with a new one running unless
\* none could be created.
ReloadEnds ==
    (At("cancel") /\ cmd.created)
       ~> (At("select") /\ (cmd.created <=> \E t \in Threads : Distributes(t)))

\* A well-formed request is answered, also the one whose reload fails, unless
\* its sender gave up or the command thread hangs.
AnsweredUnlessHung ==
    \A c \in Clients :
       (client[c].st = "waiting" /\ client[c].req # "bad_magic")
          ~> (client[c].st # "waiting" \/ Hung)

\* Every well-formed request is answered (unless its sender gave up).
RequestAnswered ==
    \A c \in Clients :
       (client[c].st = "waiting" /\ client[c].req # "bad_magic")
          ~> client[c].st # "waiting"
=============================================================================
