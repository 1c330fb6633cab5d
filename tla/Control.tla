------------------------------ MODULE Control ------------------------------
(***************************************************************************)
(* Who runs, and who is reached: the start and stop of translators on one  *)
(* host (command_proc, cre_ud_socket, init_pid, cmd/fctl, cmd/bctl) and    *)
(* the sasat commands sent to them (cmd/sasat.c, proc_ud_request).         *)
(*                                                                         *)
(* The processes share two files: the path of the Unix domain socket and   *)
(* the pid file.  Neither is locked, and neither is removed at the end of  *)
(* a process, however it ends.                                             *)
(***************************************************************************)
EXTENDS Naturals, Sequences, FiniteSets

CONSTANTS Procs,      \* translator processes
          Backends,   \* those of them that are backends; the others are fronts
          Cmds,       \* sasat processes
          None,       \* no file; no process
          MaxStarts   \* bound: starts of a translator

Requests == {"UD_POLICY_UPD", "UD_DUMP_REQ", "UD_EVTR"}

ASSUME ControlAssumption ==
    /\ None \notin Procs /\ {"stale", "empty"} \cap Procs = {}
    /\ Backends \subseteq Procs
    /\ MaxStarts \in Nat

VARIABLES
    at,       \* at[p]: where process p is; "off" when there is none
    path,     \* the process whose socket has the path, "stale", None
    pidfile,  \* the process the pid file names, "stale", "empty", None
    dying,    \* processes that got SIGTERM
    queue,    \* queue[p]: requests received by p's socket, <<command, request>>
    cmd,      \* cmd[c]: the command: its step, what it asked, what it has to
              \* send, whether it has sent before, what was carried out for
              \* it, and what its handler returned from without doing it
    starts,   \* number of starts, bounded by MaxStarts
    last,     \* history: the process that started last
    serial    \* history: no start has begun during another

files   == <<path, pidfile>>
history == <<starts, last, serial>>
vars    == <<at, files, dying, queue, cmd, history>>

NoCmd == [st |-> "none", asked |-> {}, todo |-> {}, sent |-> FALSE, done |-> {},
          unable |-> {}]

\* The request that main sends first, whatever the order of the options.
First(R) == IF "UD_POLICY_UPD" \in R THEN "UD_POLICY_UPD"
            ELSE IF "UD_DUMP_REQ" \in R THEN "UD_DUMP_REQ" ELSE "UD_EVTR"

Init ==
    /\ at = [p \in Procs |-> "off"]
    /\ path = None /\ pidfile = None
    /\ dying = {}
    /\ queue = [p \in Procs |-> <<>>]
    /\ cmd = [c \in Cmds |-> NoCmd]
    /\ starts = 0 /\ last = None /\ serial = TRUE

StartPoints == {"unlink", "bind", "check", "trunc", "write"}
Alive(p) == at[p] # "off"
Goto(p, from, to) == at[p] = from /\ at' = [at EXCEPT ![p] = to]

(***************************************************************************)
(* A translator: main, then command_proc.                                  *)
(***************************************************************************)

\* fctl start.  The network thread forwards from here on.
Start(p) ==
    /\ starts < MaxStarts
    /\ Goto(p, "off", "unlink")
    /\ starts' = starts + 1 /\ last' = p
    /\ serial' = (serial /\ \A q \in Procs : at[q] \notin StartPoints)
    /\ UNCHANGED <<files, dying, queue, cmd>>

\* cre_ud_socket: unlink takes the path from whoever has it.
Unlink(p) ==
    /\ Goto(p, "unlink", "bind")
    /\ path' = None
    /\ UNCHANGED <<pidfile, dying, queue, cmd, history>>

\* The end of process p, and what it leaves in the files.
Gone(p) ==
    /\ at' = [at EXCEPT ![p] = "off"]
    /\ path' = IF path = p THEN "stale" ELSE path
    /\ pidfile' = IF pidfile = p THEN "stale" ELSE pidfile
    /\ queue' = [queue EXCEPT ![p] = <<>>]
    /\ dying' = dying \ {p}

\* bind: it fails when another has bound the path since, and main returns.
Bind(p) ==
    \/ /\ path = None
       /\ Goto(p, "bind", "check")
       /\ path' = p
       /\ UNCHANGED <<pidfile, dying, queue, cmd, history>>
    \/ /\ at[p] = "bind" /\ path # None
       /\ Gone(p)
       /\ UNCHANGED <<cmd, history>>

\* init_pid: opendir("/proc/<pid>").  A pid left behind may be another
\* program's by now, and an empty file leaves the buffer unset.
MayRun   == pidfile \notin Procs
MayNotRun == pidfile # None

\* No check.
CheckSkipped(p) ==
    /\ Goto(p, "check", "trunc")
    /\ UNCHANGED <<files, dying, queue, cmd, history>>

CheckPasses(p) ==
    /\ MayRun
    /\ Goto(p, "check", "trunc")
    /\ UNCHANGED <<files, dying, queue, cmd, history>>

\* "SASAT translator already running": main returns, the process ends.
CheckRefuses(p) ==
    /\ at[p] = "check" /\ MayNotRun
    /\ Gone(p)
    /\ UNCHANGED <<cmd, history>>

\* fopen "w", or truncate.
Truncate(p) ==
    /\ Goto(p, "trunc", "write")
    /\ pidfile' = "empty"
    /\ UNCHANGED <<path, dying, queue, cmd, history>>

WritePid(p) ==
    /\ Goto(p, "write", "run")
    /\ pidfile' = p
    /\ UNCHANGED <<path, dying, queue, cmd, history>>

\* fctl stop: SIGTERM to the process the pid file names.  fctl restart does
\* not wait for its end either.
Stop ==
    /\ pidfile \in Procs /\ pidfile \notin dying
    /\ dying' = dying \cup {pidfile}
    /\ UNCHANGED <<at, files, queue, cmd, history>>

\* An end that removes the path.
DieUnlinks(p) ==
    /\ Alive(p)
    /\ at' = [at EXCEPT ![p] = "off"]
    /\ path' = None
    /\ pidfile' = IF pidfile = p THEN "stale" ELSE pidfile
    /\ queue' = [queue EXCEPT ![p] = <<>>]
    /\ dying' = dying \ {p}
    /\ UNCHANGED <<cmd, history>>

\* The end of a process, by the signal or a crash, at any point.
Die(p) ==
    /\ Alive(p)
    /\ Gone(p)
    /\ UNCHANGED <<cmd, history>>

\* What becomes of request r in process p.  update_policy and log_dump return
\* nothing, and return early when no thread could be created, the log file not
\* opened or its buffer not allocated ("unable").  The backend has no policy
\* update, and a trace value is 0 or 1: the rest is refused with an r_code.
Outcomes(p, r) ==
    CASE r = "UD_POLICY_UPD" /\ p \in Backends -> {"refused"}
      [] r = "UD_EVTR" -> {"done", "refused"}
      [] OTHER -> {"done", "unable"}

\* An answer that leaves r_code out.
ResultAlwaysOk(outcome) == "ok"

\* The result in the answer: NET_REQ_OK unless r_code was set.
Result(outcome) == IF outcome = "refused" THEN "refused" ELSE "ok"

\* proc_ud_request: the oldest request is handled, and answered if its sender
\* still waits for it.
Handle(p) ==
    /\ at[p] = "run" /\ queue[p] # <<>>
    /\ LET c == Head(queue[p])[1]
           r == Head(queue[p])[2]
       IN  \E o \in Outcomes(p, r) :
              cmd' = [cmd EXCEPT
                        ![c].done   = IF o = "done" THEN @ \cup {r} ELSE @,
                        ![c].unable = IF o = "unable" THEN @ \cup {r} ELSE @,
                        ![c].st     = IF @ = "wait" /\ First(cmd[c].todo) = r
                                      THEN Result(o) ELSE @]
    /\ queue' = [queue EXCEPT ![p] = Tail(@)]
    /\ UNCHANGED <<at, files, dying, history>>

(***************************************************************************)
(* sasat                                                                   *)
(***************************************************************************)

\* -l with a name that is not in log_option asks for nothing.
Ask(c, R) ==
    /\ cmd[c].st = "none"
    /\ cmd' = [cmd EXCEPT ![c] = [NoCmd EXCEPT !.st = "send", !.asked = R, !.todo = R]]
    /\ UNCHANGED <<at, files, dying, queue, history>>

Fail(c) == cmd' = [cmd EXCEPT ![c].st = "failed"]

\* Nothing is left to send.
Succeed(c) ==
    /\ cmd[c].st = "send" /\ cmd[c].todo = {}
    /\ cmd' = [cmd EXCEPT ![c].st = "success"]
    /\ UNCHANGED <<at, files, dying, queue, history>>

\* send_cmd: the first request goes to the process that has the path, if it
\* is there (before "check" nobody has bound it; the queue of a socket that is
\* not served yet takes it too).
SendCmd(c) ==
    /\ cmd[c].st = "send" /\ cmd[c].todo # {} /\ ~cmd[c].sent
    /\ path \in Procs
    /\ queue' = [queue EXCEPT ![path] = Append(@, <<c, First(cmd[c].todo)>>)]
    /\ cmd' = [cmd EXCEPT ![c].st = "wait", ![c].sent = TRUE]
    /\ UNCHANGED <<at, files, dying, history>>

\* sendto fails; or this is the process's second request, for which mkstemp
\* fails, because the first has replaced the template (sasat.c:231).
SendCmdFails(c) ==
    /\ cmd[c].st = "send" /\ cmd[c].todo # {}
    /\ path \notin Procs \/ cmd[c].sent
    /\ Fail(c)
    /\ UNCHANGED <<at, files, dying, queue, history>>

\* The answer is there, and its result is OK.
Complete(c) ==
    /\ cmd[c].st = "ok"
    /\ cmd' = [cmd EXCEPT ![c].st = "send", ![c].todo = @ \ {First(@)}]
    /\ UNCHANGED <<at, files, dying, queue, history>>

\* The answer is there, and reports an error.
ErrorReported(c) ==
    /\ cmd[c].st = "refused"
    /\ Fail(c)
    /\ UNCHANGED <<at, files, dying, queue, history>>

\* Five seconds without an answer.
GiveUp(c) ==
    /\ cmd[c].st = "wait"
    /\ Fail(c)
    /\ UNCHANGED <<at, files, dying, queue, history>>

Translator(p) ==
    \/ Start(p) \/ Unlink(p) \/ Bind(p) \/ CheckPasses(p) \/ CheckRefuses(p)
    \/ Truncate(p) \/ WritePid(p) \/ Die(p) \/ Handle(p)

Sasat(c) ==
    \/ (\E R \in SUBSET Requests : Ask(c, R))
    \/ Succeed(c) \/ SendCmd(c) \/ SendCmdFails(c)
    \/ Complete(c) \/ ErrorReported(c) \/ GiveUp(c)

Next == (\E p \in Procs : Translator(p)) \/ Stop \/ \E c \in Cmds : Sasat(c)

Spec == Init /\ [][Next]_vars

(***************************************************************************)
(* Properties                                                              *)
(***************************************************************************)

TypeOK ==
    /\ at \in [Procs -> {"off", "run"} \cup StartPoints]
    /\ path \in Procs \cup {None, "stale"}
    /\ pidfile \in Procs \cup {None, "stale", "empty"}
    /\ dying \subseteq Procs
    /\ queue \in [Procs -> Seq(Cmds \X Requests)]
    /\ \A c \in Cmds :
          /\ cmd[c].st \in {"none", "send", "wait", "ok", "refused", "failed", "success"}
          /\ cmd[c].asked \subseteq Requests /\ cmd[c].done \subseteq Requests
          /\ cmd[c].unable \subseteq Requests
          /\ cmd[c].todo \subseteq Requests /\ cmd[c].sent \in BOOLEAN
    /\ starts \in 0 .. MaxStarts /\ last \in Procs \cup {None} /\ serial \in BOOLEAN

\* The comment of init_pid (common_init.c:515), "prevents a second start": when
\* starts do not overlap, whatever ends, crashes or is left behind in between,
\* one translator at most is in service, and the pid file names it.
OneTranslator ==
    serial => \A p, q \in Procs : at[p] = "run" =>
                 /\ pidfile = p
                 /\ at[q] = "run" => p = q

\* The translator that started last, once it runs, is the one sasat reaches,
\* whatever else ends: the earlier ones take nothing from it.
LastIsReached ==
    serial => \A p \in Procs : at[p] = "run" /\ last = p => path = p

\* A sasat that reports success has had every request it was asked for handled
\* by a translator that has such a request: nothing was lost, given up or
\* refused on the way.  A trace control was carried out; of an update and a
\* dump success does not tell whether they came to anything.
SuccessMeansHandled ==
    \A c \in Cmds : cmd[c].st = "success" =>
       /\ cmd[c].done \cup cmd[c].unable = cmd[c].asked
       /\ cmd[c].unable \subseteq {"UD_POLICY_UPD", "UD_DUMP_REQ"}
=============================================================================
