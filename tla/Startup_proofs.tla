--------------------------- MODULE Startup_proofs ---------------------------
(***************************************************************************)
(* Proofs about what a translator goes through before it forwards:         *)
(* Control, for any number of processes, commands and starts, and          *)
(* PolicyFile, for any policy file.                                        *)
(***************************************************************************)
EXTENDS Control, PolicyFile, ConnectMode, Config, WellFoundedInduction, TLAPS

\* What the invariants need of the types.
ProcType == at \in [Procs -> {"off", "run"} \cup StartPoints] /\ serial \in BOOLEAN

-----------------------------------------------------------------------------
(***************************************************************************)
(* One translator in service.                                              *)
(***************************************************************************)

\* A start is the newest start, and there is one at a time.
OneStart == \A p \in Procs : at[p] \in StartPoints => last = p

\* The pid file names the process in service, so that a start which may go on
\* after the check knows that there is none.
PidInv ==
    /\ OneStart
    /\ \A p \in Procs : at[p] = "run" => pidfile = p
    /\ \A p \in Procs : at[p] \in {"trunc", "write"} => \A q \in Procs : at[q] # "run"

TInv == ProcType /\ (serial => PidInv)

LEMMA TInit == Init => TInv
  BY DEF Init, TInv, ProcType, PidInv, OneStart, StartPoints

\* A step of a translator.
LEMMA TTranslator ==
  ASSUME TInv, NEW p \in Procs, Translator(p)
  PROVE  TInv'
<1> USE ControlAssumption DEF TInv, ProcType, PidInv, OneStart, StartPoints, Goto
<1>1. CASE Start(p)
  BY <1>1 DEF Start, files
<1>2. CASE Unlink(p)
  BY <1>2 DEF Unlink, history
<1>3. CASE Bind(p)
  BY <1>3 DEF Bind, Gone, history
<1>4. CASE CheckPasses(p)
  BY <1>4 DEF CheckPasses, MayRun, files, history
<1>5. CASE CheckRefuses(p)
  BY <1>5 DEF CheckRefuses, Gone, history
<1>6. CASE Truncate(p)
  BY <1>6 DEF Truncate, history
<1>7. CASE WritePid(p)
  BY <1>7 DEF WritePid, history
<1>8. CASE Die(p)
  BY <1>8 DEF Die, Gone, history
<1>9. CASE Handle(p)
  BY <1>9 DEF Handle, files, history
<1> QED BY <1>1, <1>2, <1>3, <1>4, <1>5, <1>6, <1>7, <1>8, <1>9 DEF Translator

\* The other steps touch neither the processes nor the files.
LEMMA Others ==
  ASSUME Stop \/ (\E c \in Cmds : Sasat(c)) \/ UNCHANGED vars
  PROVE  UNCHANGED <<at, path, pidfile, last, serial>>
<1>1. CASE Stop
  BY <1>1 DEF Stop, files, history
<1>2. CASE \E c \in Cmds : Sasat(c)
  BY <1>2 DEF Sasat, Ask, Succeed, SendCmd, SendCmdFails, Complete, ErrorReported, GiveUp, files, history
<1>3. CASE UNCHANGED vars
  BY <1>3 DEF vars, files, history
<1> QED BY <1>1, <1>2, <1>3

LEMMA TStep == TInv /\ [Next]_vars => TInv'
<1> SUFFICES ASSUME TInv, [Next]_vars PROVE TInv'
  OBVIOUS
<1>1. CASE \E p \in Procs : Translator(p)
  BY <1>1, TTranslator
<1>2. CASE Stop \/ (\E c \in Cmds : Sasat(c)) \/ UNCHANGED vars
  BY <1>2, Others DEF TInv, ProcType, PidInv, OneStart
<1> QED BY <1>1, <1>2 DEF Next

\* As long as starts do not overlap, one translator at most is in service and
\* the pid file names it, whatever ends or crashes at any point.
THEOREM OneInService == Spec => []OneTranslator
<1>1. TInv => OneTranslator
  BY DEF TInv, PidInv, OneTranslator
<1> QED BY TInit, TStep, <1>1, PTL DEF Spec

-----------------------------------------------------------------------------
(***************************************************************************)
(* The translator that sasat reaches.                                      *)
(***************************************************************************)

\* From the bind on, the newest translator has the path: only a start takes it
\* from it, and then another is the newest.
PathInv ==
    /\ OneStart
    /\ \A p \in Procs : at[p] \notin {"off", "unlink", "bind"} /\ last = p => path = p

RInv == ProcType /\ (serial => PathInv)

LEMMA RInit == Init => RInv
  BY DEF Init, RInv, ProcType, PathInv, OneStart, StartPoints

\* A step of a translator.
LEMMA RTranslator ==
  ASSUME RInv, NEW p \in Procs, Translator(p)
  PROVE  RInv'
<1> USE ControlAssumption DEF RInv, ProcType, PathInv, OneStart, StartPoints, Goto
<1>1. CASE Start(p)
  BY <1>1 DEF Start, files
<1>2. CASE Unlink(p)
  BY <1>2 DEF Unlink, history
<1>3. CASE Bind(p)
  BY <1>3 DEF Bind, Gone, history
<1>4. CASE CheckPasses(p)
  BY <1>4 DEF CheckPasses, files, history
<1>5. CASE CheckRefuses(p)
  BY <1>5 DEF CheckRefuses, Gone, history
<1>6. CASE Truncate(p)
  BY <1>6 DEF Truncate, history
<1>7. CASE WritePid(p)
  BY <1>7 DEF WritePid, history
<1>8. CASE Die(p)
  BY <1>8 DEF Die, Gone, history
<1>9. CASE Handle(p)
  BY <1>9 DEF Handle, files, history
<1> QED BY <1>1, <1>2, <1>3, <1>4, <1>5, <1>6, <1>7, <1>8, <1>9 DEF Translator

LEMMA RStep == RInv /\ [Next]_vars => RInv'
<1> SUFFICES ASSUME RInv, [Next]_vars PROVE RInv'
  OBVIOUS
<1>1. CASE \E p \in Procs : Translator(p)
  BY <1>1, RTranslator
<1>2. CASE Stop \/ (\E c \in Cmds : Sasat(c)) \/ UNCHANGED vars
  BY <1>2, Others DEF RInv, ProcType, PathInv, OneStart
<1> QED BY <1>1, <1>2 DEF Next

\* The newest translator, once it runs, has the path of the Unix domain socket,
\* however the earlier ones end.
THEOREM NewestReached == Spec => []LastIsReached
<1>1. RInv => LastIsReached
  BY DEF RInv, PathInv, LastIsReached
<1> QED BY RInit, RStep, <1>1, PTL DEF Spec

-----------------------------------------------------------------------------
(***************************************************************************)
(* The success of a sasat.                                                 *)
(***************************************************************************)

Steps == {"none", "send", "wait", "ok", "refused", "failed", "success"}
Command == [st : Steps, asked : SUBSET Requests, todo : SUBSET Requests,
            sent : BOOLEAN, done : SUBSET Requests, unable : SUBSET Requests]

CmdType ==
    /\ cmd \in [Cmds -> Command]
    /\ queue \in [Procs -> Seq(Cmds \X Requests)]

\* What a command that is under way has asked for is still to be sent or was
\* handled, and an OK it has received is that to its last request.  Only an
\* update and a dump come to nothing without being refused.
Handled(s) == s.done \cup s.unable
CmdOK(s) ==
    /\ Handled(s) \subseteq s.asked /\ s.todo \subseteq s.asked
    /\ s.unable \subseteq {"UD_POLICY_UPD", "UD_DUMP_REQ"}
    /\ s.st \in {"send", "wait", "ok", "refused", "success"} => s.asked \ s.todo \subseteq Handled(s)
    /\ s.st \in {"wait", "ok", "refused"} => s.todo # {}
    /\ s.st = "ok" => First(s.todo) \in Handled(s)
    /\ s.st = "success" => s.todo = {}

\* A request in a queue is one that its sender has asked for.
Sent(q) == {q[i] : i \in 1 .. Len(q)}
QueueOK ==
    \A p \in Procs : \A m \in Sent(queue[p]) :
       cmd[m[1]].st # "none" /\ m[2] \in cmd[m[1]].asked

CmdInv == CmdType /\ (\A c \in Cmds : CmdOK(cmd[c])) /\ QueueOK

LEMMA FirstIn == ASSUME NEW R \in SUBSET Requests, R # {} PROVE First(R) \in R
  BY DEF First, Requests

LEMMA SentChange ==
  ASSUME NEW M, NEW q \in Seq(M)
  PROVE  /\ Sent(q) \subseteq M /\ Sent(<<>>) = {}
         /\ \A m \in M : Append(q, m) \in Seq(M) /\ Sent(Append(q, m)) = Sent(q) \cup {m}
         /\ q # <<>> => /\ Tail(q) \in Seq(M) /\ Sent(Tail(q)) \subseteq Sent(q)
                        /\ Head(q) \in Sent(q)
<1>1. Sent(q) \subseteq M /\ Sent(<<>>) = {}
  BY DEF Sent
<1>2. ASSUME NEW m \in M
      PROVE  Append(q, m) \in Seq(M) /\ Sent(Append(q, m)) = Sent(q) \cup {m}
  <2>1. /\ Append(q, m) \in Seq(M) /\ Len(Append(q, m)) = Len(q) + 1
        /\ \A i \in 1 .. Len(q) : Append(q, m)[i] = q[i]
        /\ Append(q, m)[Len(q) + 1] = m /\ Len(q) \in Nat
    OBVIOUS
  <2>2. 1 .. Len(q) + 1 = (1 .. Len(q)) \cup {Len(q) + 1}
    BY <2>1
  <2> QED BY <2>1, <2>2 DEF Sent
<1>3. ASSUME q # <<>>
      PROVE  Tail(q) \in Seq(M) /\ Sent(Tail(q)) \subseteq Sent(q) /\ Head(q) \in Sent(q)
  <2>1. /\ Tail(q) \in Seq(M) /\ Len(Tail(q)) = Len(q) - 1 /\ Len(q) \in Nat \ {0}
        /\ \A i \in 1 .. Len(q) - 1 : Tail(q)[i] = q[i + 1]
        /\ Head(q) = q[1]
    BY <1>3
  <2> QED BY <2>1 DEF Sent
<1> QED BY <1>1, <1>2, <1>3

\* The queues stay in order while commands keep what they have asked for and
\* requests are only taken from them.
LEMMA QueueKept ==
  ASSUME CmdInv,
         \A c \in Cmds : cmd[c].st # "none" => cmd'[c].st # "none" /\ cmd'[c].asked = cmd[c].asked,
         \A p \in Procs : Sent(queue'[p]) \subseteq Sent(queue[p])
  PROVE  QueueOK'
<1> SUFFICES ASSUME NEW p \in Procs, NEW m \in Sent(queue'[p])
             PROVE  cmd'[m[1]].st # "none" /\ m[2] \in cmd'[m[1]].asked
  BY DEF QueueOK
<1>1. m \in Sent(queue[p]) /\ m \in Cmds \X Requests
  BY SentChange DEF CmdInv, CmdType
<1>2. cmd[m[1]].st # "none" /\ m[2] \in cmd[m[1]].asked /\ m[1] \in Cmds
  BY <1>1 DEF CmdInv, QueueOK
<1> QED BY <1>2

\* One command changes, and the queues do not gain.
LEMMA OneCommand ==
  ASSUME CmdInv, NEW c \in Cmds, NEW s \in Command,
         cmd' = [cmd EXCEPT ![c] = s], CmdOK(s), s.st # "none",
         cmd[c].st # "none" => s.asked = cmd[c].asked,
         queue' \in [Procs -> Seq(Cmds \X Requests)],
         \A p \in Procs : Sent(queue'[p]) \subseteq Sent(queue[p])
  PROVE  CmdInv'
<1>1. CmdType'
  BY DEF CmdInv, CmdType
<1>2. \A d \in Cmds : cmd'[d] = IF d = c THEN s ELSE cmd[d]
  BY DEF CmdInv, CmdType
<1>3. \A d \in Cmds : CmdOK(cmd'[d])
  BY <1>2 DEF CmdInv
<1>4. QueueOK'
  <2>1. \A d \in Cmds : cmd[d].st # "none" => cmd'[d].st # "none" /\ cmd'[d].asked = cmd[d].asked
    BY <1>2
  <2> QED BY <2>1, QueueKept
<1> QED BY <1>1, <1>3, <1>4 DEF CmdInv

LEMMA CmdInit == Init => CmdInv
<1> SUFFICES ASSUME Init PROVE CmdInv
  OBVIOUS
<1>1. NoCmd \in Command /\ CmdOK(NoCmd)
  BY DEF NoCmd, Command, Steps, CmdOK, Handled
<1>2. CmdType
  BY <1>1 DEF Init, CmdType
<1>3. QueueOK
  <2>1. \A p \in Procs : Sent(queue[p]) = {}
    BY DEF Init, Sent
  <2> QED BY <2>1 DEF QueueOK
<1> QED BY <1>1, <1>2, <1>3 DEF Init, CmdInv

\* The end of a process empties its queue; the other steps of a start leave
\* the queues alone.
LEMMA CmdStart ==
  ASSUME CmdInv, NEW p \in Procs, Translator(p), ~ Handle(p)
  PROVE  CmdInv'
<1>1. UNCHANGED cmd /\ (UNCHANGED queue \/ queue' = [queue EXCEPT ![p] = <<>>])
  BY DEF Translator, Start, Unlink, Bind, CheckPasses, CheckRefuses, Truncate, WritePid,
         Die, Gone, files, history
<1>2. /\ queue' \in [Procs -> Seq(Cmds \X Requests)]
      /\ \A q \in Procs : queue'[q] = queue[q] \/ queue'[q] = <<>>
  <2>1. <<>> \in Seq(Cmds \X Requests)
    OBVIOUS
  <2> QED BY <1>1, <2>1 DEF CmdInv, CmdType
<1>3. Sent(<<>>) = {}
  BY DEF Sent
<1>4. \A q \in Procs : Sent(queue'[q]) \subseteq Sent(queue[q])
  BY <1>2, <1>3
<1>5. QueueOK'
  BY <1>1, <1>4, QueueKept
<1> QED BY <1>1, <1>2, <1>5 DEF CmdInv, CmdType

\* The oldest request was asked for by a command that is not new; whatever
\* becomes of it, a waiting command is told OK only if it was not refused.
LEMMA CmdHandle ==
  ASSUME CmdInv, NEW p \in Procs, Handle(p)
  PROVE  CmdInv'
<1> DEFINE m == Head(queue[p])
           c == m[1]
           r == m[2]
           After(o) == [cmd[c] EXCEPT
                          !.done   = IF o = "done" THEN @ \cup {r} ELSE @,
                          !.unable = IF o = "unable" THEN @ \cup {r} ELSE @,
                          !.st     = IF @ = "wait" /\ First(cmd[c].todo) = r
                                     THEN Result(o) ELSE @]
<1>1. /\ queue[p] # <<>> /\ queue[p] \in Seq(Cmds \X Requests)
      /\ queue' = [queue EXCEPT ![p] = Tail(@)]
  BY DEF Handle, CmdInv, CmdType
<1>2. m \in Sent(queue[p]) /\ m \in Cmds \X Requests
  BY <1>1, SentChange
<1>3. c \in Cmds /\ r \in Requests /\ cmd[c].st # "none" /\ r \in cmd[c].asked
  BY <1>2 DEF CmdInv, QueueOK
<1>4. PICK o \in Outcomes(p, r) :
         cmd' = [cmd EXCEPT
                   ![c].done   = IF o = "done" THEN @ \cup {r} ELSE @,
                   ![c].unable = IF o = "unable" THEN @ \cup {r} ELSE @,
                   ![c].st     = IF @ = "wait" /\ First(cmd[c].todo) = r
                                 THEN Result(o) ELSE @]
  BY Zenon DEF Handle
<1>5. cmd[c] \in Command /\ CmdOK(cmd[c]) /\ cmd \in [Cmds -> Command]
  BY <1>3 DEF CmdInv, CmdType
<1>o. /\ o \in {"done", "unable", "refused"}
      /\ o = "unable" => r \in {"UD_POLICY_UPD", "UD_DUMP_REQ"}
  BY <1>3 DEF Outcomes, Requests
<1>r. Result(o) = IF o = "refused" THEN "refused" ELSE "ok"
  BY DEF Result
<1> HIDE DEF m
<1> DEFINE s == After(o)
<1>6. cmd' = [cmd EXCEPT ![c] = s]
  BY <1>3, <1>4, <1>5 DEF Command
<1>7. s \in Command /\ s.asked = cmd[c].asked /\ s.st # "none" /\ CmdOK(s)
  <2>1. /\ s.asked = cmd[c].asked /\ s.todo = cmd[c].todo /\ s.sent = cmd[c].sent
        /\ s.done = IF o = "done" THEN cmd[c].done \cup {r} ELSE cmd[c].done
        /\ s.unable = IF o = "unable" THEN cmd[c].unable \cup {r} ELSE cmd[c].unable
        /\ s.st = IF cmd[c].st = "wait" /\ First(cmd[c].todo) = r
                  THEN IF o = "refused" THEN "refused" ELSE "ok"
                  ELSE cmd[c].st
    BY <1>5, <1>r DEF Command
  <2>2. s \in Command
    BY <1>3, <1>5, <1>r DEF Command, Steps
  <2>3. /\ Handled(s) = Handled(cmd[c]) \cup (IF o = "refused" THEN {} ELSE {r})
        /\ s.unable \subseteq {"UD_POLICY_UPD", "UD_DUMP_REQ"}
    BY <1>5, <1>o, <2>1 DEF Handled, CmdOK
  <2> HIDE DEF s
  <2> QED BY <1>3, <1>5, <2>1, <2>2, <2>3 DEF CmdOK
<1>8. /\ queue' \in [Procs -> Seq(Cmds \X Requests)]
      /\ \A q \in Procs : Sent(queue'[q]) \subseteq Sent(queue[q])
  <2>1. Tail(queue[p]) \in Seq(Cmds \X Requests) /\ Sent(Tail(queue[p])) \subseteq Sent(queue[p])
    BY <1>1, SentChange
  <2> QED BY <1>1, <2>1 DEF CmdInv, CmdType
<1> HIDE DEF s, c, r
<1> QED BY <1>3, <1>6, <1>7, <1>8, OneCommand

LEMMA CmdSasat ==
  ASSUME CmdInv, NEW c \in Cmds, Sasat(c)
  PROVE  CmdInv'
<1>t. cmd[c] \in Command /\ CmdOK(cmd[c]) /\ queue \in [Procs -> Seq(Cmds \X Requests)]
      /\ cmd \in [Cmds -> Command]
  BY DEF CmdInv, CmdType
<1>1. ASSUME NEW R \in SUBSET Requests, Ask(c, R)
      PROVE  CmdInv'
  <2> DEFINE s == [NoCmd EXCEPT !.st = "send", !.asked = R, !.todo = R]
  <2>1. cmd' = [cmd EXCEPT ![c] = s] /\ cmd[c].st = "none" /\ queue' = queue
    BY <1>1 DEF Ask
  <2>2. s \in Command /\ CmdOK(s) /\ s.st # "none"
    BY DEF NoCmd, Command, CmdOK, Handled, Steps
  <2> HIDE DEF s
  <2> QED BY <1>t, <2>1, <2>2, OneCommand
<1>2. CASE Succeed(c)
  <2> DEFINE s == [cmd[c] EXCEPT !.st = "success"]
  <2>1. cmd' = [cmd EXCEPT ![c] = s] /\ cmd[c].st = "send" /\ cmd[c].todo = {} /\ queue' = queue
    BY <1>2, <1>t DEF Succeed, Command
  <2>2. s \in Command /\ CmdOK(s) /\ s.st # "none" /\ s.asked = cmd[c].asked
    BY <1>t, <2>1 DEF Command, CmdOK, Handled, Steps
  <2> HIDE DEF s
  <2> QED BY <1>t, <2>1, <2>2, OneCommand
<1>3. CASE SendCmd(c)
  <2> DEFINE r == First(cmd[c].todo)
             s == [cmd[c] EXCEPT !.st = "wait", !.sent = TRUE]
  <2>1. /\ cmd' = [cmd EXCEPT ![c] = s] /\ cmd[c].st = "send" /\ cmd[c].todo # {}
        /\ path \in Procs /\ queue' = [queue EXCEPT ![path] = Append(@, <<c, r>>)]
    BY <1>3, <1>t DEF SendCmd, Command
  <2>2. s \in Command /\ CmdOK(s) /\ s.st = "wait" /\ s.asked = cmd[c].asked
    BY <1>t, <2>1 DEF Command, CmdOK, Handled, Steps
  <2>3. r \in cmd[c].asked /\ r \in Requests
    BY <1>t, <2>1, FirstIn DEF Command, CmdOK
  <2> HIDE DEF s, r
  <2>4. \A d \in Cmds : cmd'[d] = IF d = c THEN s ELSE cmd[d]
    BY <1>t, <2>1
  <2>5. CmdType'
    <3>1. Append(queue[path], <<c, r>>) \in Seq(Cmds \X Requests)
      BY <1>t, <2>1, <2>3
    <3> QED BY <1>t, <2>1, <2>2, <3>1 DEF CmdType
  <2>6. QueueOK'
    <3> SUFFICES ASSUME NEW p \in Procs, NEW m \in Sent(queue'[p])
                 PROVE  cmd'[m[1]].st # "none" /\ m[2] \in cmd'[m[1]].asked
      BY DEF QueueOK
    <3>1. m \in Sent(queue[p]) \/ m = <<c, r>>
      <4>1. Sent(Append(queue[path], <<c, r>>)) = Sent(queue[path]) \cup {<<c, r>>}
        <5>1. queue[path] \in Seq(Cmds \X Requests) /\ <<c, r>> \in Cmds \X Requests
          BY <1>t, <2>1, <2>3
        <5> QED BY <5>1, SentChange
      <4> QED BY <1>t, <2>1, <4>1
    <3>2. CASE m = <<c, r>>
      BY <2>2, <2>3, <2>4, <3>2
    <3>3. CASE m \in Sent(queue[p])
      <4>1. m[1] \in Cmds
        BY <1>t, <3>3, SentChange
      <4>2. cmd[m[1]].st # "none" /\ m[2] \in cmd[m[1]].asked
        BY <3>3 DEF CmdInv, QueueOK
      <4> QED BY <2>2, <2>4, <4>1, <4>2
    <3> QED BY <3>1, <3>2, <3>3
  <2> QED BY <2>2, <2>4, <2>5, <2>6 DEF CmdInv
<1>4. CASE SendCmdFails(c) \/ ErrorReported(c) \/ GiveUp(c)
  <2> DEFINE s == [cmd[c] EXCEPT !.st = "failed"]
  <2>1. cmd' = [cmd EXCEPT ![c] = s] /\ queue' = queue
    BY <1>4, <1>t DEF SendCmdFails, ErrorReported, GiveUp, Fail, Command
  <2>2. s \in Command /\ CmdOK(s) /\ s.st # "none" /\ s.asked = cmd[c].asked
    BY <1>t, <2>1 DEF Command, CmdOK, Handled, Steps
  <2> HIDE DEF s
  <2> QED BY <1>t, <2>1, <2>2, OneCommand
<1>5. CASE Complete(c)
  <2> DEFINE s == [cmd[c] EXCEPT !.st = "send", !.todo = @ \ {First(@)}]
  <2>1. cmd' = [cmd EXCEPT ![c] = s] /\ cmd[c].st = "ok" /\ queue' = queue
    BY <1>5, <1>t DEF Complete, Command
  <2>2. s \in Command /\ CmdOK(s) /\ s.st # "none" /\ s.asked = cmd[c].asked
    BY <1>t, <2>1 DEF Command, CmdOK, Handled, Steps
  <2> HIDE DEF s
  <2> QED BY <1>t, <2>1, <2>2, OneCommand
<1> QED BY <1>1, <1>2, <1>3, <1>4, <1>5 DEF Sasat

LEMMA CmdStep == CmdInv /\ [Next]_vars => CmdInv'
<1> SUFFICES ASSUME CmdInv, [Next]_vars PROVE CmdInv'
  OBVIOUS
<1>1. CASE \E p \in Procs : Translator(p)
  BY <1>1, CmdStart, CmdHandle
<1>2. CASE \E c \in Cmds : Sasat(c)
  BY <1>2, CmdSasat
<1>3. CASE Stop \/ UNCHANGED vars
  <2>1. UNCHANGED <<cmd, queue>>
    BY <1>3 DEF Stop, vars
  <2> QED BY <2>1 DEF CmdInv, CmdType, QueueOK
<1> QED BY <1>1, <1>2, <1>3 DEF Next

\* A sasat that reports success has had every request handled by a translator
\* that has it, whichever translators end, start and take the path from each
\* other meanwhile, and its trace control carried out.
THEOREM SuccessIsHandled == Spec => []SuccessMeansHandled
<1>1. CmdInv => SuccessMeansHandled
  BY DEF CmdInv, CmdType, Command, CmdOK, Handled, SuccessMeansHandled
<1> QED BY CmdInit, CmdStep, <1>1, PTL DEF Spec

\* The files, the processes and the starts have their types, and with CmdInv
\* all of Control has.
FileType ==
    /\ at \in [Procs -> {"off", "run"} \cup StartPoints]
    /\ path \in Procs \cup {None, "stale"}
    /\ pidfile \in Procs \cup {None, "stale", "empty"}
    /\ dying \subseteq Procs
    /\ starts \in 0 .. MaxStarts /\ last \in Procs \cup {None} /\ serial \in BOOLEAN

LEMMA FileStep == FileType /\ [Next]_vars => FileType'
<1> SUFFICES ASSUME FileType, [Next]_vars PROVE FileType'
  OBVIOUS
<1>1. ASSUME NEW p \in Procs, Translator(p) PROVE FileType'
  <2> USE ControlAssumption DEF FileType, Goto
  <2>1. CASE Start(p)
    BY <2>1 DEF Start, files, StartPoints
  <2>2. CASE Unlink(p) \/ CheckPasses(p) \/ Truncate(p) \/ WritePid(p)
    BY <2>2 DEF Unlink, CheckPasses, Truncate, WritePid, files, history, StartPoints
  <2>3. CASE Bind(p) \/ CheckRefuses(p) \/ Die(p)
    BY <2>3 DEF Bind, CheckRefuses, Die, Gone, files, history, StartPoints
  <2>4. CASE Handle(p)
    BY <2>4 DEF Handle, files, history
  <2> QED BY <1>1, <2>1, <2>2, <2>3, <2>4 DEF Translator
<1>2. CASE Stop
  BY <1>2 DEF Stop, FileType, files, history
<1>3. ASSUME NEW c \in Cmds, Sasat(c) PROVE FileType'
  BY <1>3 DEF Sasat, Ask, Succeed, SendCmd, SendCmdFails, Complete, ErrorReported, GiveUp, FileType,
              files, history
<1>4. CASE UNCHANGED vars
  BY <1>4 DEF vars, files, history, FileType
<1> QED BY <1>1, <1>2, <1>3, <1>4 DEF Next

\* Type correctness of the control of a host.
THEOREM ControlTypes == Spec => []TypeOK
<1>1. Init => FileType
  BY ControlAssumption DEF Init, FileType
<1>2. FileType /\ CmdInv => TypeOK
  BY DEF FileType, CmdInv, CmdType, Command, Steps, TypeOK
<1> QED BY CmdInit, CmdStep, FileStep, <1>1, <1>2, PTL DEF Spec

-----------------------------------------------------------------------------
(***************************************************************************)
(* The policies of a file.                                                 *)
(***************************************************************************)

\* What may stand in an address, and the entries of the tables.
Value == Garbage \cup UNION {{l[i].addr : i \in DOMAIN l} : l \in Lines}
PolicyEntry == [line : Nat, addr : Value, mask : Value, svr : Value]
ServerEntry == [addr : Value, drop : BOOLEAN]

PolType ==
    /\ line \in Nat /\ enable \subseteq Families
    /\ \A i \in DOMAIN text : text[i] \in Lines
    /\ pol \in [Families -> Seq(PolicyEntry)]
    /\ svr \in [Families -> Seq(ServerEntry)]

\* The well-formed lines before the next one are in the table.
Taken(f) ==
    \A n \in 1 .. line - 1 : WellFormed(text[n], f) =>
       \E k \in DOMAIN pol[f] :
          pol[f][k] = [line |-> n, addr |-> text[n][1].addr,
                       mask |-> text[n][2].addr, svr |-> text[n][3].addr]

\* The policies are of earlier lines, in their order.
InOrder(list, n) ==
    /\ \A k \in DOMAIN list : list[k].line < n
    /\ \A j, k \in DOMAIN list : j < k => list[j].line < list[k].line

\* A server table: no address twice, and 0 means discarding.
ServersOnce(table) ==
    /\ \A i, j \in DOMAIN table : table[i].addr = table[j].addr => i = j
    /\ \A i \in DOMAIN table : table[i].drop <=> table[i].addr = Zero

Addrs(table) == {table[i].addr : i \in DOMAIN table}

PolInv ==
    /\ PolType
    /\ \A f \in enable : Taken(f)
    /\ \A f \in Families :
          /\ InOrder(pol[f], line)
          /\ ServersOnce(svr[f])
          /\ \A k \in DOMAIN pol[f] : pol[f][k].svr \in Addrs(svr[f])

\* A line's address, or what stood in the variable, is a value.
LEMMA FieldIsValue ==
  ASSUME NEW l \in Lines, NEW i \in Nat \ {0}, NEW a \in FieldValues(l, i)
  PROVE  a \in Value
<1>1. CASE a \in Garbage
  BY <1>1 DEF Value
<1>2. CASE i <= Len(l) /\ a = l[i].addr
  <2>1. i \in DOMAIN l
    BY <1>2, PolicyFileAssumption
  <2> QED BY <1>2, <2>1 DEF Value
<1> QED BY <1>1, <1>2 DEF FieldValues

\* A line that is well-formed in a family that is enabled is not refused.
LEMMA WellFormedUsed ==
  ASSUME NEW l \in Lines, NEW f \in Families, WellFormed(l, f)
  PROVE  /\ l[1].family = f
         /\ \A i \in 1 .. 3 : FieldValues(l, i) = {l[i].addr}
         /\ f \in enable => ~Refused(l)
<1>1. Len(l) \in Nat /\ Len(l) >= 3 /\ DOMAIN l = 1 .. Len(l)
  BY PolicyFileAssumption DEF WellFormed, MAX_PART
<1>2. \A i \in 1 .. 3 : l[i].family = f /\ l[i].addr # Bad
  BY DEF WellFormed, MAX_PART
<1>3. DOMAIN Fields(l) = 1 .. 3 /\ \A i \in 1 .. 3 : Fields(l)[i] = l[i]
  <2>1. Fields(l) = SubSeq(l, 1, 3)
    BY <1>1 DEF Fields, MAX_PART
  <2> QED BY <2>1
<1>4. f # "none"
  BY DEF Families
<1> QED BY <1>1, <1>2, <1>3, <1>4 DEF FieldValues, Refused

\* A policy put at the end of a table.
LEMMA PolicyAppended ==
  ASSUME NEW list \in Seq(PolicyEntry), NEW p \in PolicyEntry, InOrder(list, p.line)
  PROVE  LET new == InsertPolicy(list, p)
         IN  /\ new \in Seq(PolicyEntry) /\ InOrder(new, p.line + 1)
             /\ \E k \in DOMAIN new : new[k] = p
             /\ \A k \in DOMAIN list : k \in DOMAIN new /\ new[k] = list[k]
             /\ \A k \in DOMAIN new : new[k] = p \/ \E j \in DOMAIN list : new[k] = list[j]
<1> DEFINE new == InsertPolicy(list, p)
           n == Len(list)
<1>1. /\ n \in Nat /\ DOMAIN list = 1 .. n
      /\ new \in Seq(PolicyEntry) /\ DOMAIN new = 1 .. n + 1
      /\ new[n + 1] = p /\ \A k \in 1 .. n : new[k] = list[k]
  BY DEF InsertPolicy
<1>2. p.line \in Nat /\ \A k \in 1 .. n : list[k].line \in Nat
  <2>1. \A k \in 1 .. n : list[k] \in PolicyEntry
    OBVIOUS
  <2>2. \A e \in PolicyEntry : e.line \in Nat
    BY DEF PolicyEntry
  <2> QED BY <2>1, <2>2
<1> HIDE DEF new, n
<1>3. InOrder(new, p.line + 1)
  <2>1. \A k \in 1 .. n : new[k].line < p.line /\ new[k].line \in Nat
    BY <1>1, <1>2 DEF InOrder
  <2>2. \A k \in 1 .. n + 1 : k \in 1 .. n \/ k = n + 1
    BY <1>1
  <2>3. \A k \in 1 .. n + 1 : new[k].line < p.line + 1
    BY <1>1, <1>2, <2>1, <2>2
  <2>4. ASSUME NEW j \in 1 .. n + 1, NEW k \in 1 .. n + 1, j < k
        PROVE  new[j].line < new[k].line
    <3>1. CASE k \in 1 .. n
      BY <1>1, <2>4, <3>1 DEF InOrder
    <3>2. CASE k = n + 1
      <4>1. j \in 1 .. n
        BY <1>1, <2>4, <3>2
      <4> QED BY <1>1, <2>1, <3>2, <4>1
    <3> QED BY <2>2, <3>1, <3>2
  <2> QED BY <1>1, <2>3, <2>4 DEF InOrder
<1>4. \A k \in DOMAIN new : new[k] = p \/ \E j \in DOMAIN list : new[k] = list[j]
  <2> SUFFICES ASSUME NEW k \in DOMAIN new, k # n + 1 PROVE \E j \in DOMAIN list : new[k] = list[j]
    BY <1>1
  <2>1. k \in 1 .. n
    BY <1>1
  <2> QED BY <1>1, <2>1
<1>5. n + 1 \in DOMAIN new
  BY <1>1
<1> QED BY <1>1, <1>3, <1>4, <1>5 DEF new

\* find_svr_tbl: the table with the server.
LEMMA ServerFound ==
  ASSUME NEW table \in Seq(ServerEntry), NEW a \in Value, ServersOnce(table)
  PROVE  LET new == FindSvrTbl(table, a)
         IN  /\ new \in Seq(ServerEntry) /\ ServersOnce(new)
             /\ Addrs(new) = Addrs(table) \cup {a}
<1>1. CASE \E i \in DOMAIN table : table[i].addr = a
  <2>1. FindSvrTbl(table, a) = table
    BY <1>1 DEF FindSvrTbl
  <2>2. a \in Addrs(table)
    BY <1>1 DEF Addrs
  <2> QED BY <2>1, <2>2
<1>2. CASE \A i \in DOMAIN table : table[i].addr # a
  <2> DEFINE e == [addr |-> a, drop |-> (a = Zero)]
             n == Len(table)
             new == <<e>> \o table
  <2>1. FindSvrTbl(table, a) = new
    BY <1>2 DEF FindSvrTbl
  <2>2. e \in ServerEntry /\ e.addr = a /\ (e.drop <=> a = Zero)
    BY DEF ServerEntry
  <2>3. n \in Nat /\ DOMAIN table = 1 .. n
    OBVIOUS
  <2> HIDE DEF e
  <2>4. /\ new \in Seq(ServerEntry) /\ Len(new) = n + 1
        /\ new[1] = e /\ \A i \in 1 .. n : new[i + 1] = table[i]
    BY <2>2
  <2>5. DOMAIN new = 1 .. n + 1
    BY <2>4
  <2> HIDE DEF n, new
  <2>6. \A i \in DOMAIN new : i = 1 \/ (i - 1 \in DOMAIN table /\ new[i] = table[i - 1])
    <3> SUFFICES ASSUME NEW i \in 1 .. n + 1, i # 1
                 PROVE  i - 1 \in 1 .. n /\ new[i] = table[i - 1]
      BY <2>3, <2>5
    <3>1. i - 1 \in 1 .. n /\ (i - 1) + 1 = i
      BY <2>3
    <3> QED BY <2>4, <3>1
  <2>7. ServersOnce(new)
    <3>1. ASSUME NEW i \in DOMAIN new, NEW j \in DOMAIN new, new[i].addr = new[j].addr
          PROVE  i = j
      <4>1. CASE i = 1 \/ j = 1
        BY <4>1, <3>1, <1>2, <2>2, <2>4, <2>6
      <4>2. CASE i # 1 /\ j # 1
        <5>1. i - 1 = j - 1
          BY <4>2, <3>1, <2>6 DEF ServersOnce
        <5>2. i \in Nat /\ j \in Nat
          BY <2>3, <2>5
        <5> QED BY <5>1, <5>2
      <4> QED BY <4>1, <4>2
    <3>2. ASSUME NEW i \in DOMAIN new PROVE new[i].drop <=> new[i].addr = Zero
      BY <2>2, <2>4, <2>6 DEF ServersOnce
    <3> QED BY <3>1, <3>2 DEF ServersOnce
  <2>8. Addrs(new) = Addrs(table) \cup {a}
    <3>1. ASSUME NEW x \in Addrs(new) PROVE x \in Addrs(table) \cup {a}
      BY <3>1, <2>2, <2>4, <2>6 DEF Addrs
    <3>2. a \in Addrs(new)
      <4>1. 1 \in DOMAIN new /\ new[1].addr = a
        BY <2>2, <2>3, <2>4, <2>5
      <4> QED BY <4>1 DEF Addrs
    <3>3. ASSUME NEW i \in DOMAIN table PROVE table[i].addr \in Addrs(new)
      <4>1. i + 1 \in DOMAIN new /\ new[i + 1] = table[i]
        BY <2>3, <2>4, <2>5
      <4> QED BY <4>1 DEF Addrs
    <3> QED BY <3>1, <3>2, <3>3 DEF Addrs
  <2> QED BY <2>1, <2>4, <2>7, <2>8
<1> QED BY <1>1, <1>2

LEMMA PolInitInv == PolInit => PolInv
<1> SUFFICES ASSUME PolInit PROVE PolInv
  OBVIOUS
<1>1. PolType
  BY DEF PolInit, PolType
<1>2. \A f \in Families : DOMAIN pol[f] = {} /\ DOMAIN svr[f] = {}
  BY DEF PolInit
<1>3. enable = {}
  BY DEF PolInit
<1> QED BY <1>1, <1>2, <1>3 DEF PolInv, InOrder, ServersOnce

LEMMA LineOfPolicy ==
  ASSUME PolInv, NEW f \in Families, NEW k \in DOMAIN pol[f]
  PROVE  pol[f][k].line \in Nat
<1>1. pol[f][k] \in PolicyEntry
  BY DEF PolInv, PolType
<1>2. \A e \in PolicyEntry : e.line \in Nat
  BY DEF PolicyEntry
<1> QED BY <1>1, <1>2

\* The file is opened, and no line is read yet.
LEMMA GetPolicyInv == PolInv /\ GetPolicy => PolInv'
<1> SUFFICES ASSUME PolInv, GetPolicy PROVE PolInv'
  OBVIOUS
<1>1. PolType'
  BY DEF PolInv, PolType, GetPolicy
<1>2. line = 0 /\ line' = 1 /\ UNCHANGED <<pol, svr>>
  BY DEF GetPolicy
<1>3. \A f \in Families : DOMAIN pol[f] = {}
  <2> SUFFICES ASSUME NEW f \in Families, NEW k \in DOMAIN pol[f] PROVE FALSE
    OBVIOUS
  <2>1. pol[f][k].line \in Nat
    BY LineOfPolicy
  <2> QED BY <1>2, <2>1 DEF PolInv, InOrder
<1>4. \A f \in enable' : Taken(f)'
  BY <1>2 DEF Taken
<1> QED BY <1>1, <1>2, <1>3, <1>4 DEF PolInv, InOrder

\* A line that is refused is not well-formed.
LEMMA SkipLineInv == PolInv /\ SkipLine => PolInv'
<1> SUFFICES ASSUME PolInv, SkipLine PROVE PolInv'
  OBVIOUS
<1>1. PolType'
  BY DEF PolInv, PolType, SkipLine
<1>2. line \in Nat /\ line' = line + 1 /\ UNCHANGED <<pol, svr, text, enable>>
  BY DEF SkipLine, PolInv, PolType
<1>3. \A f \in enable : Taken(f)'
  <2> SUFFICES ASSUME NEW f \in enable, NEW n \in 1 .. line, WellFormed(text[n], f)
               PROVE  \E k \in DOMAIN pol[f] :
                         pol[f][k] = [line |-> n, addr |-> text[n][1].addr,
                                      mask |-> text[n][2].addr, svr |-> text[n][3].addr]
    BY <1>2 DEF Taken
  <2>1. f \in Families /\ text[line] \in Lines
    BY DEF PolInv, PolType, SkipLine
  <2>2. n # line
    BY <2>1, WellFormedUsed DEF SkipLine
  <2>3. n \in 1 .. line - 1
    BY <1>2, <2>2
  <2> QED BY <2>3 DEF PolInv, Taken
<1>4. \A f \in Families : InOrder(pol[f], line')
  <2> SUFFICES ASSUME NEW f \in Families PROVE \A k \in DOMAIN pol[f] : pol[f][k].line < line + 1
    BY <1>2 DEF PolInv, InOrder
  <2>1. \A k \in DOMAIN pol[f] : pol[f][k].line \in Nat
    BY LineOfPolicy
  <2> QED BY <1>2, <2>1 DEF PolInv, InOrder
<1> QED BY <1>1, <1>2, <1>3, <1>4 DEF PolInv
\* A line that is used is a policy, with the server in the table.
LEMMA ParsePolicyLineInv == PolInv /\ ParsePolicyLine => PolInv'
<1> SUFFICES ASSUME PolInv, ParsePolicyLine PROVE PolInv'
  OBVIOUS
<1> DEFINE l == text[line]
           f == l[1].family
<1>1. /\ l \in Lines /\ line \in Nat /\ f \in Families
      /\ line' = line + 1 /\ UNCHANGED <<text, enable>>
  <2>1. l \in Lines /\ line \in Nat /\ line' = line + 1 /\ UNCHANGED <<text, enable>>
    BY DEF ParsePolicyLine, PolInv, PolType
  <2>2. l[1].family \in Families \cup {"none"} /\ Len(l) \in Nat \ {0}
    BY <2>1, PolicyFileAssumption
  <2>3. Fields(l)[1] = l[1] /\ 1 \in DOMAIN Fields(l)
    BY <2>2 DEF Fields, MAX_PART
  <2>4. f \in enable
    BY <2>3 DEF ParsePolicyLine, Refused
  <2> QED BY <2>1, <2>4 DEF PolInv, PolType
<1>2. PICK a \in FieldValues(l, 1), m \in FieldValues(l, 2), s \in FieldValues(l, 3) :
         /\ svr' = [svr EXCEPT ![f] = FindSvrTbl(@, s)]
         /\ pol' = [pol EXCEPT ![f] = InsertPolicy(@,
                       [line |-> line, addr |-> a, mask |-> m, svr |-> s])]
  BY Zenon DEF ParsePolicyLine
<1> DEFINE p == [line |-> line, addr |-> a, mask |-> m, svr |-> s]
           newp == InsertPolicy(pol[f], p)
           news == FindSvrTbl(svr[f], s)
<1>3. \A x \in Families : /\ pol'[x] = IF x = f THEN newp ELSE pol[x]
                          /\ svr'[x] = IF x = f THEN news ELSE svr[x]
  BY <1>1, <1>2 DEF PolInv, PolType
<1>4. a \in Value /\ m \in Value /\ s \in Value
  BY <1>1, FieldIsValue
<1>5. p \in PolicyEntry /\ p.line = line /\ p.svr = s
  BY <1>1, <1>4 DEF PolicyEntry
<1>6. /\ pol[f] \in Seq(PolicyEntry) /\ svr[f] \in Seq(ServerEntry)
      /\ InOrder(pol[f], line) /\ ServersOnce(svr[f])
  BY <1>1 DEF PolInv, PolType
<1>7. /\ newp \in Seq(PolicyEntry) /\ InOrder(newp, line + 1)
      /\ \E k \in DOMAIN newp : newp[k] = p
      /\ \A k \in DOMAIN pol[f] : k \in DOMAIN newp /\ newp[k] = pol[f][k]
      /\ \A k \in DOMAIN newp : newp[k] = p \/ \E j \in DOMAIN pol[f] : newp[k] = pol[f][j]
  BY <1>5, <1>6, PolicyAppended
<1>8. /\ news \in Seq(ServerEntry) /\ ServersOnce(news)
      /\ Addrs(news) = Addrs(svr[f]) \cup {s}
  BY <1>4, <1>6, ServerFound
<1>9. PolType'
  <2>1. pol' = [pol EXCEPT ![f] = newp] /\ svr' = [svr EXCEPT ![f] = news]
    BY <1>2
  <2>2. newp \in Seq(PolicyEntry) /\ news \in Seq(ServerEntry)
    BY <1>7, <1>8, Zenon
  <2>3. pol \in [Families -> Seq(PolicyEntry)] /\ svr \in [Families -> Seq(ServerEntry)]
    BY DEF PolInv, PolType
  <2>4. line' \in Nat /\ enable' \subseteq Families /\ \A i \in DOMAIN text' : text'[i] \in Lines
    BY <1>1 DEF PolInv, PolType
  <2> HIDE DEF p, newp, news, f
  <2>5. pol' \in [Families -> Seq(PolicyEntry)] /\ svr' \in [Families -> Seq(ServerEntry)]
    BY <2>1, <2>2, <2>3
  <2> QED BY <2>4, <2>5, Zenon DEF PolType
<1>10. ASSUME NEW x \in enable PROVE Taken(x)'
  <2> SUFFICES ASSUME NEW n \in 1 .. line, WellFormed(text[n], x)
               PROVE  \E k \in DOMAIN pol'[x] :
                         pol'[x][k] = [line |-> n, addr |-> text[n][1].addr,
                                       mask |-> text[n][2].addr, svr |-> text[n][3].addr]
    BY <1>1 DEF Taken
  <2>1. x \in Families
    BY DEF PolInv, PolType
  <2>2. CASE n = line
    <3>1. /\ f = x
          /\ \A i \in 1 .. 3 : FieldValues(l, i) = {l[i].addr}
      BY <1>1, <2>1, <2>2, WellFormedUsed
    <3>2. a = l[1].addr /\ m = l[2].addr /\ s = l[3].addr
      BY <3>1
    <3>3. p = [line |-> n, addr |-> text[n][1].addr,
               mask |-> text[n][2].addr, svr |-> text[n][3].addr]
      BY <2>2, <3>2
    <3> HIDE DEF p, newp, f, l
    <3> QED BY <1>3, <1>7, <2>1, <3>1, <3>3
  <2>3. CASE n \in 1 .. line - 1
    <3>1. PICK k \in DOMAIN pol[x] :
             pol[x][k] = [line |-> n, addr |-> text[n][1].addr,
                          mask |-> text[n][2].addr, svr |-> text[n][3].addr]
      BY <2>3 DEF PolInv, Taken
    <3> HIDE DEF p, newp, f, l
    <3>2. k \in DOMAIN pol'[x] /\ pol'[x][k] = pol[x][k]
      BY <1>3, <1>7, <2>1
    <3> QED BY <3>1, <3>2
  <2> QED BY <1>1, <2>2, <2>3
<1>11. ASSUME NEW x \in Families
       PROVE  /\ InOrder(pol'[x], line') /\ ServersOnce(svr'[x])
              /\ \A k \in DOMAIN pol'[x] : pol'[x][k].svr \in Addrs(svr'[x])
  <2> HIDE DEF p, newp, news, f, l
  <2>1. CASE x = f
    <3>1. \A k \in DOMAIN newp : newp[k].svr \in Addrs(news)
      <4>1. \A j \in DOMAIN pol[f] : pol[f][j].svr \in Addrs(svr[f])
        BY <2>1 DEF PolInv
      <4> QED BY <1>5, <1>7, <1>8, <4>1
    <3> QED BY <1>1, <1>3, <1>7, <1>8, <2>1, <3>1
  <2>2. CASE x # f
    <3>1. \A k \in DOMAIN pol[x] : pol[x][k].line < line + 1
      <4>1. \A k \in DOMAIN pol[x] : pol[x][k].line \in Nat /\ pol[x][k].line < line
        BY LineOfPolicy DEF PolInv, InOrder
      <4> QED BY <1>1, <4>1
    <3> QED BY <1>1, <1>3, <2>2, <3>1 DEF PolInv, InOrder
  <2> QED BY <2>1, <2>2
<1> HIDE DEF p, newp, news, f, l
<1> QED BY <1>1, <1>9, <1>10, <1>11 DEF PolInv

LEMMA PolInvariant == PolSpec => []PolInv
<1>1. PolInv /\ [PolNext]_polVars => PolInv'
  <2> SUFFICES ASSUME PolInv, [PolNext]_polVars PROVE PolInv'
    OBVIOUS
  <2>1. CASE UNCHANGED polVars
    BY <2>1 DEF polVars, PolInv, PolType, Taken
  <2> QED BY <2>1, GetPolicyInv, SkipLineInv, ParsePolicyLineInv DEF PolNext
<1> QED BY <1>1, PolInitInv, PTL DEF PolSpec

\* Of any policy file, the well-formed lines of the enabled families are
\* policies with their own addresses, in the order of the file
\* (parse_policy_line, create_policy_table).
THEOREM PoliciesOfFile == PolSpec => []WellFormedKept
<1>1. PolInv => WellFormedKept
  BY DEF PolInv, PolType, Taken, InOrder, WellFormedKept
<1> QED BY <1>1, PolInvariant, PTL

\* Of any policy file, each server is in the table once, with all its policies
\* referring to it (find_svr_tbl).
THEOREM ServersShared == PolSpec => []OneServerEach
<1>1. PolInv => OneServerEach
  BY DEF PolInv, ServersOnce, Addrs, OneServerEach
<1> QED BY <1>1, PolInvariant, PTL

-----------------------------------------------------------------------------
(***************************************************************************)
(* The mode of the backend.                                                *)
(***************************************************************************)

\* A bit of an address lies in one word, at one place.
LEMMA BitPlace ==
  ASSUME NEW q \in Nat, NEW r \in 0 .. W - 1
  PROVE  (W * q + r) \div W = q /\ (W * q + r) % W = r
<1>1. W \in Nat \ {0}
  BY ConnectModeAssumption
<1> QED BY <1>1

LEMMA BitWord ==
  ASSUME NEW b \in Nat
  PROVE  b \div W \in Nat /\ b % W \in 0 .. W - 1 /\ b = W * (b \div W) + (b % W)
<1>1. W \in Nat \ {0}
  BY ConnectModeAssumption
<1> QED BY <1>1

\* is_same_net compares just the bits under the mask.
LEMMA SameNetBits ==
  ASSUME NEW words \in Nat, NEW s1 \in Addresses(words), NEW s2 \in Addresses(words),
         NEW mlen \in 1 .. words * W
  PROVE  IsSameNet(s1, s2, mlen) <=> \A b \in 0 .. mlen - 1 : Bit(s1, b) = Bit(s2, b)
<1>0. W \in Nat \ {0} /\ words * W \in Nat /\ mlen \in Nat
  BY ConnectModeAssumption
<1>1. DOMAIN s1 = 1 .. words /\ \A i \in 1 .. words : s1[i] \subseteq 0 .. W - 1 /\ s2[i] \subseteq 0 .. W - 1
  BY DEF Addresses
<1>2. ASSUME IsSameNet(s1, s2, mlen), NEW b \in 0 .. mlen - 1
      PROVE  Bit(s1, b) = Bit(s2, b)
  <2> DEFINE q == b \div W
             r == b % W
             m == mlen - W * q
  <2>1. q \in Nat /\ r \in 0 .. W - 1 /\ b = W * q + r
    BY <1>0, BitWord
  <2> HIDE DEF q, r
  <2>2. W * q \in Nat /\ W * q < words * W
    BY <1>0, <2>1
  <2>3. q < words
    <3>1. CASE q >= words
      <4>1. PICK d \in Nat : q = words + d
        BY <2>1, <3>1
      <4>2. W * q = words * W + W * d /\ W * d \in Nat
        BY <1>0, <4>1
      <4> QED BY <1>0, <2>2, <4>2
    <3> QED BY <2>1, <3>1
  <2>4. 1 + q \in 1 .. words /\ (1 + q) - 1 = q
    BY <2>1, <2>3
  <2>5. /\ m >= W => s1[1 + q] = s2[1 + q]
        /\ m \in 1 .. W - 1 => Top(s1[1 + q], m) = Top(s2[1 + q], m)
    BY <1>1, <1>2, <2>4 DEF IsSameNet
  <2>6. m \in Nat /\ r < m
    BY <1>0, <2>1, <2>2
  <2>7. r \in s1[1 + q] <=> r \in s2[1 + q]
    <3>1. CASE m >= W
      BY <2>5, <3>1
    <3>2. CASE m < W
      <4>1. Top(s1[1 + q], m) = Top(s2[1 + q], m) /\ r \in 0 .. m - 1
        BY <1>0, <2>1, <2>5, <2>6, <3>2
      <4> QED BY <4>1 DEF Top
    <3> QED BY <1>0, <2>6, <3>1, <3>2
  <2> QED BY <2>7 DEF Bit, q, r
<1>3. ASSUME \A b \in 0 .. mlen - 1 : Bit(s1, b) = Bit(s2, b), NEW i \in 1 .. words
      PROVE  LET m == mlen - W * (i - 1)
             IN  /\ m >= W => s1[i] = s2[i]
                 /\ m \in 1 .. W - 1 => Top(s1[i], m) = Top(s2[i], m)
  <2> DEFINE m == mlen - W * (i - 1)
  <2>1. i - 1 \in Nat /\ W * (i - 1) \in Nat /\ m \in Int /\ 1 + (i - 1) = i
    BY <1>0
  <2>2. ASSUME NEW r \in 0 .. W - 1, r < m
        PROVE  r \in s1[i] <=> r \in s2[i]
    <3> DEFINE b == W * (i - 1) + r
    <3>1. b \in 0 .. mlen - 1
      BY <1>0, <2>1, <2>2
    <3>2. b \div W = i - 1 /\ b % W = r
      BY <2>1, BitPlace
    <3>3. Bit(s1, b) = Bit(s2, b)
      BY <1>3, <3>1
    <3> HIDE DEF b
    <3> QED BY <2>1, <3>2, <3>3 DEF Bit
  <2>3. ASSUME m >= W PROVE s1[i] = s2[i]
    <3>1. \A r \in 0 .. W - 1 : r \in s1[i] <=> r \in s2[i]
      BY <1>0, <2>1, <2>2, <2>3
    <3> QED BY <1>1, <3>1
  <2>4. ASSUME m \in 1 .. W - 1 PROVE Top(s1[i], m) = Top(s2[i], m)
    <3>1. \A r \in 0 .. m - 1 : r \in s1[i] <=> r \in s2[i]
      BY <1>0, <2>1, <2>2, <2>4
    <3> QED BY <3>1 DEF Top
  <2> QED BY <2>3, <2>4
<1> QED BY <1>1, <1>2, <1>3 DEF IsSameNet

\* Nothing is compared before the mode is set.
ModeInv == (l_mode = "unset" => compared = NoFamily) /\ ModeIsNet

LEMMA DecideNet ==
  ASSUME NEW words \in Nat, NEW s1 \in Addresses(words), NEW s2 \in Addresses(words),
         NEW mask_in \in -1 .. words * W, NEW mask_eg, Decide(s1, s2, mask_in, mask_eg)
  PROVE  ModeInv'
<1>0. words * W \in Nat
  BY ConnectModeAssumption
<1>1. mask_in \in 1 .. words * W
  BY <1>0 DEF Decide
<1>2. /\ compared' = [s1 |-> s1, s2 |-> s2, mask_in |-> mask_in, mask_eg |-> mask_eg]
      /\ l_mode' = IF mask_in = mask_eg /\ IsSameNet(s1, s2, mask_in)
                   THEN "L2_MODE" ELSE "L3_MODE"
  BY DEF Decide
<1>3. IsSameNet(s1, s2, mask_in) <=> \A b \in 0 .. mask_in - 1 : Bit(s1, b) = Bit(s2, b)
  BY <1>1, SameNetBits
<1>4. ModeIsNet'
  BY <1>2, <1>3 DEF ModeIsNet, Bit
<1> QED BY <1>2, <1>4 DEF ModeInv

\* The backend works as in one network if and only if the addresses of its two
\* interfaces are in one: the masks are equal, and the bits under them, in any
\* number of words (get_connect_mode, is_same_net).
THEOREM ModeOfNetworks == ModeSpec => []ModeIsNet
<1>1. ModeInit => ModeInv
  BY DEF ModeInit, ModeInv, ModeIsNet
<1>2. ModeInv /\ [ModeNext]_modeVars => ModeInv'
  <2> SUFFICES ASSUME ModeInv, [ModeNext]_modeVars PROVE ModeInv'
    OBVIOUS
  <2>1. CASE ConnectMode4
    BY <2>1, DecideNet, ConnectModeAssumption DEF ConnectMode4, Masks
  <2>2. CASE ConnectMode6
    BY <2>2, DecideNet, ConnectModeAssumption DEF ConnectMode6, Masks
  <2>3. CASE ConnectModeDefault
    BY <2>3 DEF ConnectModeDefault, ModeInv, ModeIsNet, NoFamily
  <2>4. CASE UNCHANGED modeVars
    BY <2>4 DEF modeVars, ModeInv, ModeIsNet, Bit
  <2> QED BY <2>1, <2>2, <2>3, <2>4 DEF ModeNext
<1>3. ModeInv => ModeIsNet
  BY DEF ModeInv
<1> QED BY <1>1, <1>2, <1>3, PTL DEF ModeSpec

-----------------------------------------------------------------------------
(***************************************************************************)
(* The properties and the addresses.  Both loops are recursive functions   *)
(* of the place they have reached; what they compute is shown by induction *)
(* on that place, a set of places without a least element being empty.     *)
(***************************************************************************)

\* A set of numbers that is not empty has a least element.
LEMMA LeastIn ==
  ASSUME NEW S \in SUBSET Nat, S # {}
  PROVE  Least(S) \in S /\ \A j \in S : Least(S) <= j
<1>1. PICK i \in S : \A j \in S : <<j, i>> \notin OpToRel(<, Nat)
  BY WFMin, NatLessThanWellFounded, Zenon
<1>2. \A j \in S : ~(j < i)
  BY <1>1, Zenon DEF OpToRel
<1>3. \A j \in S : i <= j
  BY <1>2
<1> QED BY <1>3 DEF Least

\* The least element is the one that is not greater than the others.
LEMMA LeastIs ==
  ASSUME NEW S \in SUBSET Nat, NEW i \in S, \A j \in S : i <= j
  PROVE  Least(S) = i
<1> DEFINE l == Least(S)
<1>1. l \in S /\ \A j \in S : l <= j
  BY LeastIn
<1> HIDE DEF l
<1>2. l \in Nat /\ i \in Nat /\ l <= i /\ i <= l
  BY <1>1
<1>3. l = i
  BY <1>2
<1> QED BY <1>3 DEF l

\* Induction up to n, over a set of places.
LEMMA Places ==
  ASSUME NEW n \in Nat, NEW P \in SUBSET (0 .. n), 0 \in P,
         \A i \in 1 .. n : i - 1 \in P => i \in P
  PROVE  P = 0 .. n
<1> SUFFICES ASSUME (0 .. n) \ P # {} PROVE FALSE
  OBVIOUS
<1> DEFINE i == Least((0 .. n) \ P)
<1>1. i \in (0 .. n) \ P /\ \A j \in (0 .. n) \ P : i <= j
  BY LeastIn
<1> HIDE DEF i
<1>2. i \in 1 .. n /\ i - 1 \in 0 .. n
  BY <1>1
<1>3. i - 1 \in P
  BY <1>1, <1>2
<1> QED BY <1>1, <1>2, <1>3

\* The loop of parse_file and parse_header, place by place.
LEMMA ParsedSteps ==
  ASSUME NEW lines, Len(lines) \in Nat
  PROVE  /\ Parsed(lines)[0] = <<>>
         /\ \A i \in 1 .. Len(lines) : Parsed(lines)[i] = ParseLine(Parsed(lines)[i - 1], lines[i])
<1> DEFINE n == Len(lines)
           Loop(m, g) == g = [i \in 0 .. m |-> IF i = 0 THEN <<>> ELSE ParseLine(g[i - 1], lines[i])]
           P == {m \in 0 .. n : \E g : Loop(m, g)}
<1>1. 0 \in P
  <2> DEFINE g == [i \in 0 .. 0 |-> <<>>]
  <2>1. g = [i \in 0 .. 0 |-> IF i = 0 THEN <<>> ELSE ParseLine(g[i - 1], lines[i])]
    OBVIOUS
  <2> HIDE DEF g
  <2>2. \E h : Loop(0, h)
    BY <2>1
  <2> QED BY <2>2
<1>2. ASSUME NEW m \in 1 .. n, m - 1 \in P
      PROVE  m \in P
  <2>1. PICK g : Loop(m - 1, g)
    BY <1>2
  <2> DEFINE h == [i \in 0 .. m |-> IF i = m THEN ParseLine(g[m - 1], lines[m]) ELSE g[i]]
  <2>2. DOMAIN g = 0 .. m - 1
    BY <2>1
  <2>3. ASSUME NEW i \in 0 .. m
        PROVE  h[i] = IF i = 0 THEN <<>> ELSE ParseLine(h[i - 1], lines[i])
    <3>1. CASE i = m
      BY <3>1
    <3>2. CASE i \in 1 .. m - 1
      <4>1. h[i] = g[i] /\ h[i - 1] = g[i - 1] /\ i # 0
        BY <3>2
      <4>2. g[i] = ParseLine(g[i - 1], lines[i])
        BY <2>1, <3>2
      <4> QED BY <4>1, <4>2
    <3>3. CASE i = 0
      <4>1. h[0] = g[0] /\ g[0] = <<>>
        BY <2>1
      <4> QED BY <3>3, <4>1
    <3> QED BY <3>1, <3>2, <3>3
  <2>4. h = [i \in 0 .. m |-> h[i]]
    OBVIOUS
  <2> HIDE DEF h
  <2>5. Loop(m, h)
    BY <2>3, <2>4
  <2>6. \E k : Loop(m, k)
    BY <2>5, Zenon
  <2>7. m \in 0 .. n
    OBVIOUS
  <2> HIDE DEF Loop, n
  <2> QED BY <2>6, <2>7, Zenon
<1> HIDE DEF P
<1>3. P = 0 .. n
  <2>1. P \in SUBSET (0 .. n)
    BY DEF P
  <2> QED BY <1>1, <1>2, <2>1, Places
<1>4. \E g : Loop(n, g)
  <2>1. n \in P
    BY <1>3
  <2> QED BY <2>1 DEF P
<1>5. Loop(n, Parsed(lines))
  BY <1>4 DEF Parsed
<1> QED BY <1>5

\* The loop of get_ifaddr_info, place by place.
LEMMA FoundSteps ==
  ASSUME NEW s0, NEW list, Len(list) \in Nat
  PROVE  /\ Found(s0, list)[0] = s0
         /\ \A i \in 1 .. Len(list) : Found(s0, list)[i] = TakeEntry(Found(s0, list)[i - 1], list[i])
<1> DEFINE n == Len(list)
           Loop(m, g) == g = [i \in 0 .. m |-> IF i = 0 THEN s0 ELSE TakeEntry(g[i - 1], list[i])]
           P == {m \in 0 .. n : \E g : Loop(m, g)}
<1>1. 0 \in P
  <2> DEFINE g == [i \in 0 .. 0 |-> s0]
  <2>1. g = [i \in 0 .. 0 |-> IF i = 0 THEN s0 ELSE TakeEntry(g[i - 1], list[i])]
    OBVIOUS
  <2> HIDE DEF g
  <2>2. \E h : Loop(0, h)
    BY <2>1
  <2> QED BY <2>2
<1>2. ASSUME NEW m \in 1 .. n, m - 1 \in P
      PROVE  m \in P
  <2>1. PICK g : Loop(m - 1, g)
    BY <1>2
  <2> DEFINE h == [i \in 0 .. m |-> IF i = m THEN TakeEntry(g[m - 1], list[m]) ELSE g[i]]
  <2>2. DOMAIN g = 0 .. m - 1
    BY <2>1
  <2>3. ASSUME NEW i \in 0 .. m
        PROVE  h[i] = IF i = 0 THEN s0 ELSE TakeEntry(h[i - 1], list[i])
    <3>1. CASE i = m
      BY <3>1
    <3>2. CASE i \in 1 .. m - 1
      <4>1. h[i] = g[i] /\ h[i - 1] = g[i - 1] /\ i # 0
        BY <3>2
      <4>2. g[i] = TakeEntry(g[i - 1], list[i])
        BY <2>1, <3>2
      <4> QED BY <4>1, <4>2
    <3>3. CASE i = 0
      <4>1. h[0] = g[0] /\ g[0] = s0
        BY <2>1
      <4> QED BY <3>3, <4>1
    <3> QED BY <3>1, <3>2, <3>3
  <2>4. h = [i \in 0 .. m |-> h[i]]
    OBVIOUS
  <2> HIDE DEF h
  <2>5. Loop(m, h)
    BY <2>3, <2>4
  <2>6. \E k : Loop(m, k)
    BY <2>5, Zenon
  <2>7. m \in 0 .. n
    OBVIOUS
  <2> HIDE DEF Loop, n
  <2> QED BY <2>6, <2>7, Zenon
<1> HIDE DEF P
<1>3. P = 0 .. n
  <2>1. P \in SUBSET (0 .. n)
    BY DEF P
  <2> QED BY <1>1, <1>2, <2>1, Places
<1>4. \E g : Loop(n, g)
  <2>1. n \in P
    BY <1>3
  <2> QED BY <2>1 DEF P
<1>5. Loop(n, Found(s0, list))
  BY <1>4 DEF Found
<1> QED BY <1>5

\* What the loop over the addresses knows.
Known(A, B) == [set4 : BOOLEAN, set6 : BOOLEAN, ll : A, v4_enable : B, v6_enable : B,
                sip4 : A, sip6 : A]

\* What an entry changes.
LEMMA EntryTaken ==
  ASSUME NEW A, NEW B, TRUE \in B, NEW s \in Known(A, B), NEW e, e.addr \in A
  PROVE  LET r == TakeEntry(s, e)
             new4 == e.own /\ e.family = "4" /\ ~s.set4
             new6 == e.own /\ e.family = "6" /\ ~s.set6 /\ ~e.fe
             newl == e.own /\ e.family = "6" /\ ~s.set6 /\ e.fe /\ s.ll = Absent
         IN  /\ r \in Known(A, B)
             /\ r.set4 <=> s.set4 \/ new4
             /\ r.set6 <=> s.set6 \/ new6
             /\ r.sip4 = IF new4 THEN e.addr ELSE s.sip4
             /\ r.sip6 = IF new6 THEN e.addr ELSE s.sip6
             /\ r.v4_enable = IF new4 THEN TRUE ELSE s.v4_enable
             /\ r.v6_enable = IF new6 THEN TRUE ELSE s.v6_enable
             /\ r.ll = IF newl THEN e.addr ELSE s.ll
<1> DEFINE r == TakeEntry(s, e)
           new4 == e.own /\ e.family = "4" /\ ~s.set4
           new6 == e.own /\ e.family = "6" /\ ~s.set6 /\ ~e.fe
           newl == e.own /\ e.family = "6" /\ ~s.set6 /\ e.fe /\ s.ll = Absent
<1>1. CASE new4
  <2>1. r = [s EXCEPT !.sip4 = e.addr, !.v4_enable = TRUE, !.set4 = TRUE]
    BY <1>1 DEF TakeEntry
  <2> HIDE DEF r
  <2> QED BY <1>1, <2>1 DEF Known, r
<1>2. CASE new6
  <2>1. r = [s EXCEPT !.sip6 = e.addr, !.v6_enable = TRUE, !.set6 = TRUE]
    BY <1>2 DEF TakeEntry
  <2> HIDE DEF r
  <2> QED BY <1>2, <2>1 DEF Known, r
<1>3. CASE newl
  <2>1. r = [s EXCEPT !.ll = e.addr]
    BY <1>3 DEF TakeEntry
  <2> HIDE DEF r
  <2> QED BY <1>3, <2>1 DEF Known, r
<1>4. CASE ~new4 /\ ~new6 /\ ~newl
  <2>1. r = s
    BY <1>4 DEF TakeEntry
  <2> HIDE DEF r
  <2> QED BY <1>4, <2>1 DEF r
<1> QED BY <1>1, <1>2, <1>3, <1>4

\* The places up to i of a set of places.
UpTo(S, i) == {j \in S : j <= i}

LEMMA UpToNext ==
  ASSUME NEW n \in Nat, NEW S \in SUBSET (1 .. n), NEW i \in 1 .. n
  PROVE  /\ UpTo(S, i) = IF i \in S THEN UpTo(S, i - 1) \cup {i} ELSE UpTo(S, i - 1)
         /\ UpTo(S, i - 1) # {} => Least(UpTo(S, i)) = Least(UpTo(S, i - 1))
         /\ UpTo(S, i - 1) = {} /\ i \in S => Least(UpTo(S, i)) = i
<1>0. \A j \in S : j \in Nat /\ (j <= i <=> j <= i - 1 \/ j = i)
  OBVIOUS
<1>1. UpTo(S, i) = IF i \in S THEN UpTo(S, i - 1) \cup {i} ELSE UpTo(S, i - 1)
  <2>1. \A j : j \in UpTo(S, i) <=> j \in UpTo(S, i - 1) \/ (j = i /\ i \in S)
    BY <1>0 DEF UpTo
  <2> QED BY <2>1
<1>2. /\ UpTo(S, i) \in SUBSET Nat /\ UpTo(S, i - 1) \in SUBSET Nat
      /\ \A j \in UpTo(S, i - 1) : j <= i
  <2>1. \A j \in UpTo(S, i) : j \in Nat
    BY <1>0 DEF UpTo
  <2>2. \A j \in UpTo(S, i - 1) : j \in Nat /\ j <= i
    BY <1>0 DEF UpTo
  <2> QED BY <2>1, <2>2
<1>3. ASSUME UpTo(S, i - 1) # {} PROVE Least(UpTo(S, i)) = Least(UpTo(S, i - 1))
  <2> DEFINE l == Least(UpTo(S, i - 1))
  <2>1. l \in UpTo(S, i - 1) /\ \A j \in UpTo(S, i - 1) : l <= j
    BY <1>2, <1>3, LeastIn
  <2> HIDE DEF l
  <2>2. l \in UpTo(S, i) /\ \A j \in UpTo(S, i) : l <= j
    BY <1>1, <1>2, <2>1
  <2>3. Least(UpTo(S, i)) = l
    BY <1>2, <2>2, LeastIs
  <2> QED BY <2>3 DEF l
<1>4. ASSUME UpTo(S, i - 1) = {}, i \in S PROVE Least(UpTo(S, i)) = i
  <2>1. i \in UpTo(S, i) /\ \A j \in UpTo(S, i) : i <= j
    BY <1>1, <1>4
  <2> QED BY <1>2, <2>1, LeastIs
<1> QED BY <1>1, <1>3, <1>4

LEMMA UpToEnds ==
  ASSUME NEW n \in Nat, NEW S \in SUBSET (1 .. n)
  PROVE  UpTo(S, 0) = {} /\ UpTo(S, n) = S
<1>1. \A j \in S : ~(j <= 0) /\ j <= n
  OBVIOUS
<1>2. \A j : j \notin UpTo(S, 0)
  BY <1>1 DEF UpTo
<1>3. \A j : j \in UpTo(S, n) <=> j \in S
  BY <1>1 DEF UpTo
<1> QED BY <1>2, <1>3

\* The link-local addresses of the interface.
Local(list) == {i \in Ours(list, "6") : list[i].fe}

\* What the loop knows after i entries.
FoundInv(list, i, s) ==
  /\ s.set4 <=> UpTo(Ours(list, "4"), i) # {}
  /\ s.set4 => s.v4_enable = TRUE /\ s.sip4 = list[Least(UpTo(Ours(list, "4"), i))].addr
  /\ s.set6 <=> UpTo(Global(list), i) # {}
  /\ s.set6 => s.v6_enable = TRUE /\ s.sip6 = list[Least(UpTo(Global(list), i))].addr
  /\ ~s.set6 => s.ll = FirstAddr(list, UpTo(Local(list), i))

LEMMA FoundNext ==
  ASSUME NEW list \in AddrLists, NEW i \in 1 .. Len(list), NEW A, NEW B, TRUE \in B,
         \A j \in DOMAIN list : list[j].addr \in A,
         NEW s \in Known(A, B), FoundInv(list, i - 1, s)
  PROVE  TakeEntry(s, list[i]) \in Known(A, B) /\ FoundInv(list, i, TakeEntry(s, list[i]))
<1> DEFINE e == list[i]
           r == TakeEntry(s, e)
           n == Len(list)
           O == Ours(list, "4")
           G == Global(list)
           L == Local(list)
<1>1. n \in Nat /\ DOMAIN list = 1 .. n /\ e.addr \in A /\ e.addr # Absent
      /\ \A j \in 1 .. n : list[j].addr # Absent
  BY ConfigAssumption DEF IsList
<1>2. O \in SUBSET (1 .. n) /\ G \in SUBSET (1 .. n) /\ L \in SUBSET (1 .. n)
  BY <1>1 DEF Ours, Global, Local
<1>3. /\ i \in O <=> e.own /\ e.family = "4"
      /\ i \in G <=> e.own /\ e.family = "6" /\ ~e.fe
      /\ i \in L <=> e.own /\ e.family = "6" /\ e.fe
  BY <1>1 DEF Ours, Global, Local
<1>31. LET new4 == e.own /\ e.family = "4" /\ ~s.set4
           new6 == e.own /\ e.family = "6" /\ ~s.set6 /\ ~e.fe
           newl == e.own /\ e.family = "6" /\ ~s.set6 /\ e.fe /\ s.ll = Absent
       IN  /\ r \in Known(A, B)
           /\ r.set4 <=> s.set4 \/ new4
           /\ r.set6 <=> s.set6 \/ new6
           /\ r.sip4 = IF new4 THEN e.addr ELSE s.sip4
           /\ r.sip6 = IF new6 THEN e.addr ELSE s.sip6
           /\ r.v4_enable = IF new4 THEN TRUE ELSE s.v4_enable
           /\ r.v6_enable = IF new6 THEN TRUE ELSE s.v6_enable
           /\ r.ll = IF newl THEN e.addr ELSE s.ll
  <2> HIDE DEF e
  <2> QED BY <1>1, EntryTaken
<1> HIDE DEF e, r, O, G, L
<1>4. /\ r \in Known(A, B)
      /\ r.set4 <=> s.set4 \/ (i \in O /\ ~s.set4)
      /\ r.set6 <=> s.set6 \/ (i \in G /\ ~s.set6)
      /\ r.sip4 = IF i \in O /\ ~s.set4 THEN e.addr ELSE s.sip4
      /\ r.sip6 = IF i \in G /\ ~s.set6 THEN e.addr ELSE s.sip6
      /\ r.v4_enable = IF i \in O /\ ~s.set4 THEN TRUE ELSE s.v4_enable
      /\ r.v6_enable = IF i \in G /\ ~s.set6 THEN TRUE ELSE s.v6_enable
      /\ r.ll = IF i \in L /\ ~s.set6 /\ s.ll = Absent THEN e.addr ELSE s.ll
  BY <1>3, <1>31
<1>5. /\ s.set4 <=> UpTo(O, i - 1) # {}
      /\ s.set4 => s.v4_enable = TRUE /\ s.sip4 = list[Least(UpTo(O, i - 1))].addr
      /\ s.set6 <=> UpTo(G, i - 1) # {}
      /\ s.set6 => s.v6_enable = TRUE /\ s.sip6 = list[Least(UpTo(G, i - 1))].addr
      /\ ~s.set6 => s.ll = FirstAddr(list, UpTo(L, i - 1))
  BY DEF FoundInv, O, G, L
<1>6. /\ r.set4 <=> UpTo(O, i) # {}
      /\ r.set4 => r.v4_enable = TRUE /\ r.sip4 = list[Least(UpTo(O, i))].addr
  <2>1. /\ UpTo(O, i) = IF i \in O THEN UpTo(O, i - 1) \cup {i} ELSE UpTo(O, i - 1)
        /\ UpTo(O, i - 1) # {} => Least(UpTo(O, i)) = Least(UpTo(O, i - 1))
        /\ UpTo(O, i - 1) = {} /\ i \in O => Least(UpTo(O, i)) = i
    BY <1>1, <1>2, UpToNext
  <2> QED BY <1>4, <1>5, <2>1 DEF e
<1>7. /\ r.set6 <=> UpTo(G, i) # {}
      /\ r.set6 => r.v6_enable = TRUE /\ r.sip6 = list[Least(UpTo(G, i))].addr
  <2>1. /\ UpTo(G, i) = IF i \in G THEN UpTo(G, i - 1) \cup {i} ELSE UpTo(G, i - 1)
        /\ UpTo(G, i - 1) # {} => Least(UpTo(G, i)) = Least(UpTo(G, i - 1))
        /\ UpTo(G, i - 1) = {} /\ i \in G => Least(UpTo(G, i)) = i
    BY <1>1, <1>2, UpToNext
  <2> QED BY <1>4, <1>5, <2>1 DEF e
<1>8. ~r.set6 => r.ll = FirstAddr(list, UpTo(L, i))
  <2>1. /\ UpTo(L, i) = IF i \in L THEN UpTo(L, i - 1) \cup {i} ELSE UpTo(L, i - 1)
        /\ UpTo(L, i - 1) # {} => Least(UpTo(L, i)) = Least(UpTo(L, i - 1))
        /\ UpTo(L, i - 1) = {} /\ i \in L => Least(UpTo(L, i)) = i
    BY <1>1, <1>2, UpToNext
  <2>2. ASSUME UpTo(L, i - 1) # {}
        PROVE  FirstAddr(list, UpTo(L, i - 1)) # Absent
    <3>1. Least(UpTo(L, i - 1)) \in UpTo(L, i - 1)
      <4>1. UpTo(L, i - 1) \in SUBSET Nat
        BY <1>2 DEF UpTo
      <4> QED BY <2>2, <4>1, LeastIn
    <3>2. Least(UpTo(L, i - 1)) \in 1 .. n
      BY <1>2, <3>1 DEF UpTo
    <3> QED BY <1>1, <2>2, <3>2 DEF FirstAddr
  <2>3. CASE ~r.set6
    <3>1. ~s.set6 /\ s.ll = FirstAddr(list, UpTo(L, i - 1))
      BY <1>4, <1>5, <2>3
    <3>2. CASE UpTo(L, i - 1) # {}
      <4>1. r.ll = s.ll /\ UpTo(L, i) # {}
        BY <1>4, <2>1, <2>2, <3>1, <3>2
      <4> QED BY <2>1, <3>1, <3>2, <4>1 DEF FirstAddr
    <3>3. CASE UpTo(L, i - 1) = {}
      <4>1. s.ll = Absent
        BY <3>1, <3>3 DEF FirstAddr
      <4>2. CASE i \in L
        BY <1>4, <2>1, <3>1, <3>3, <4>1, <4>2 DEF FirstAddr, e
      <4>3. CASE i \notin L
        BY <1>4, <2>1, <3>1, <3>3, <4>1, <4>3 DEF FirstAddr
      <4> QED BY <4>2, <4>3
    <3> QED BY <3>2, <3>3
  <2> QED BY <2>3
<1> QED BY <1>4, <1>6, <1>7, <1>8 DEF FoundInv, r, e, O, G, L

\* The address that is chosen of each family, whatever the order of the list.
LEMMA AddressesFound ==
  ASSUME NEW list \in AddrLists
  PROVE  LET s == GetIfaddrInfo(list)
         IN  /\ Choice4(list) # Absent => s.v4_enable = TRUE /\ s.sip4 = Choice4(list)
             /\ Choice6(list) # Absent => s.v6_enable = TRUE /\ s.sip6 = Choice6(list)
<1> DEFINE A == {Absent, ifdata.sip4, ifdata.sip6} \cup {list[j].addr : j \in DOMAIN list}
           B == {TRUE, ifdata.v4_enable, ifdata.v6_enable}
           s0 == [set4 |-> FALSE, set6 |-> FALSE, ll |-> Absent,
                  v4_enable |-> ifdata.v4_enable, v6_enable |-> ifdata.v6_enable,
                  sip4 |-> ifdata.sip4, sip6 |-> ifdata.sip6]
           n == Len(list)
           F == Found(s0, list)
           P == {i \in 0 .. n : F[i] \in Known(A, B) /\ FoundInv(list, i, F[i])}
<1>1. n \in Nat /\ DOMAIN list = 1 .. n
  BY ConfigAssumption DEF IsList
<1>2. TRUE \in B /\ (\A j \in DOMAIN list : list[j].addr \in A) /\ s0 \in Known(A, B)
  BY DEF Known
<1>3. /\ Ours(list, "4") \in SUBSET (1 .. n) /\ Global(list) \in SUBSET (1 .. n)
      /\ Local(list) \in SUBSET (1 .. n)
  BY <1>1 DEF Ours, Global, Local
<1>4. F[0] = s0 /\ \A i \in 1 .. n : F[i] = TakeEntry(F[i - 1], list[i])
  <2> HIDE DEF s0
  <2> QED BY <1>1, FoundSteps
<1>5. FoundInv(list, 0, s0)
  <2>1. UpTo(Ours(list, "4"), 0) = {} /\ UpTo(Global(list), 0) = {} /\ UpTo(Local(list), 0) = {}
    BY <1>1, <1>3, UpToEnds
  <2> QED BY <2>1 DEF FoundInv, FirstAddr
<1> HIDE DEF A, B, F
<1>6. 0 \in P
  <2>1. F[0] \in Known(A, B) /\ FoundInv(list, 0, F[0])
    BY <1>2, <1>4, <1>5
  <2> QED BY <1>1, <2>1
<1>7. ASSUME NEW i \in 1 .. n, i - 1 \in P
      PROVE  i \in P
  <2>1. F[i - 1] \in Known(A, B) /\ FoundInv(list, i - 1, F[i - 1])
    BY <1>7
  <2>2. TakeEntry(F[i - 1], list[i]) \in Known(A, B)
        /\ FoundInv(list, i, TakeEntry(F[i - 1], list[i]))
    BY <1>2, <2>1, FoundNext
  <2>3. F[i] \in Known(A, B) /\ FoundInv(list, i, F[i])
    BY <1>4, <2>2
  <2> QED BY <1>1, <2>3
<1>8. P = 0 .. n
  <2>1. P \in SUBSET (0 .. n)
    OBVIOUS
  <2> HIDE DEF P
  <2> QED BY <1>1, <1>6, <1>7, <2>1, Places
<1>9. F[n] \in Known(A, B) /\ FoundInv(list, n, F[n])
  <2>1. n \in P
    BY <1>1, <1>8
  <2> QED BY <2>1
<1> HIDE DEF P
<1> DEFINE f == F[n]
<1>10. GetIfaddrInfo(list) = IF ~f.set6 /\ f.ll # Absent
                             THEN [f EXCEPT !.sip6 = f.ll, !.v6_enable = TRUE] ELSE f
  BY DEF GetIfaddrInfo, F
<1>11. /\ f.set4 <=> Ours(list, "4") # {}
       /\ f.set4 => f.v4_enable = TRUE /\ f.sip4 = list[Least(Ours(list, "4"))].addr
       /\ f.set6 <=> Global(list) # {}
       /\ f.set6 => f.v6_enable = TRUE /\ f.sip6 = list[Least(Global(list))].addr
       /\ ~f.set6 => f.ll = FirstAddr(list, Local(list))
  <2>1. /\ UpTo(Ours(list, "4"), n) = Ours(list, "4") /\ UpTo(Global(list), n) = Global(list)
        /\ UpTo(Local(list), n) = Local(list)
    BY <1>1, <1>3, UpToEnds
  <2> HIDE DEF f
  <2> QED BY <1>9, <2>1 DEF FoundInv, f
<1>12. f \in Known(A, B)
  BY <1>9
<1> HIDE DEF f
<1> DEFINE g == GetIfaddrInfo(list)
<1>13. /\ g.v4_enable = f.v4_enable /\ g.sip4 = f.sip4
       /\ ~f.set6 /\ f.ll # Absent => g.v6_enable = TRUE /\ g.sip6 = f.ll
       /\ f.set6 => g.v6_enable = f.v6_enable /\ g.sip6 = f.sip6
  BY <1>10, <1>12 DEF Known
<1> HIDE DEF g
<1>14. Choice4(list) # Absent => g.v4_enable = TRUE /\ g.sip4 = Choice4(list)
  BY <1>11, <1>13 DEF Choice4, FirstAddr
<1>15. Choice6(list) # Absent => g.v6_enable = TRUE /\ g.sip6 = Choice6(list)
  <2>1. CASE Global(list) # {}
    BY <1>11, <1>13, <2>1 DEF Choice6, FirstAddr
  <2>2. CASE Global(list) = {}
    <3>1. Local(list) = Ours(list, "6")
      BY <2>2 DEF Local, Global
    <3> QED BY <1>11, <1>13, <2>2, <3>1 DEF Choice6
  <2> QED BY <2>1, <2>2
<1> QED BY <1>14, <1>15 DEF g

\* The lines that name a key, of the first i, and what the last of them says.
Naming(lines, i, key) == {j \in 1 .. i : lines[j].kind = "pair" /\ lines[j].key = key}
LastValue(lines, i, key) ==
  IF Naming(lines, i, key) = {} THEN Absent
  ELSE lines[CHOOSE j \in Naming(lines, i, key) : \A k \in Naming(lines, i, key) : k <= j].value

\* The first entry of a list that has a key.
Having(props, key) == {j \in DOMAIN props : props[j][1] = key}
FirstValue(props, key) ==
  IF Having(props, key) = {} THEN Absent ELSE props[Least(Having(props, key))][2]

\* parse_line takes no line without a key.
NonEmpty(key) == key # ""

\* The next line decides about its key.
LEMMA LastValueNext ==
  ASSUME NEW lines, NEW i \in Nat \ {0}, NEW key
  PROVE  LastValue(lines, i, key) = IF lines[i].kind = "pair" /\ lines[i].key = key
                                    THEN lines[i].value ELSE LastValue(lines, i - 1, key)
<1> DEFINE N == Naming(lines, i, key)
<1>1. CASE lines[i].kind = "pair" /\ lines[i].key = key
  <2>1. i \in N /\ \A k \in N : k \in Nat /\ k <= i
    BY <1>1 DEF Naming
  <2> DEFINE top == CHOOSE j \in N : \A k \in N : k <= j
  <2>2. top \in N /\ \A k \in N : k <= top
    BY <2>1
  <2> HIDE DEF top, N
  <2>3. top = i
    <3>1. top \in Nat /\ i \in Nat /\ i <= top /\ top <= i
      BY <2>1, <2>2
    <3> QED BY <3>1
  <2> QED BY <1>1, <2>1, <2>3 DEF LastValue, top, N
<1>2. CASE ~(lines[i].kind = "pair" /\ lines[i].key = key)
  <2>1. \A j : j \in N <=> j \in Naming(lines, i - 1, key)
    BY <1>2 DEF Naming
  <2>2. N = Naming(lines, i - 1, key)
    BY <2>1
  <2> QED BY <1>2, <2>2 DEF LastValue
<1> QED BY <1>1, <1>2

\* An entry put at the head hides those with the same key, and no other.
LEMMA FirstValueNext ==
  ASSUME NEW S, NEW props \in Seq(S), NEW pair \in S, NEW key
  PROVE  FirstValue(<<pair>> \o props, key) = IF pair[1] = key THEN pair[2]
                                              ELSE FirstValue(props, key)
<1> DEFINE q == <<pair>> \o props
           n == Len(props)
           H == Having(props, key)
           K == Having(q, key)
<1>1. n \in Nat /\ DOMAIN props = 1 .. n
  OBVIOUS
<1>2. q \in Seq(S) /\ Len(q) = n + 1 /\ q[1] = pair /\ \A j \in 1 .. n : q[j + 1] = props[j]
  OBVIOUS
<1>3. DOMAIN q = 1 .. n + 1
  BY <1>2
<1> HIDE DEF q, n
<1>4. H \in SUBSET Nat /\ H \subseteq 1 .. n /\ K \in SUBSET Nat /\ K \subseteq 1 .. n + 1
  BY <1>1, <1>3 DEF Having
<1>5. 1 \in K <=> pair[1] = key
  BY <1>1, <1>2, <1>3 DEF Having
<1>6. \A j \in 1 .. n : j + 1 \in K <=> j \in H
  BY <1>1, <1>2, <1>3 DEF Having
<1> HIDE DEF H, K
<1>7. CASE pair[1] = key
  <2>1. 1 \in K /\ \A j \in K : 1 <= j
    BY <1>4, <1>5, <1>7
  <2>2. Least(K) = 1
    BY <1>4, <2>1, LeastIs
  <2> QED BY <1>2, <1>7, <2>1, <2>2 DEF FirstValue, K, q
<1>8. CASE pair[1] # key
  <2>1. CASE H = {}
    <3>1. \A j \in K : j - 1 \in H
      <4> SUFFICES ASSUME NEW j \in K PROVE j - 1 \in H
        OBVIOUS
      <4>1. j \in Nat /\ j \in 1 .. n + 1 /\ j # 1
        BY <1>4, <1>5, <1>8
      <4>2. j - 1 \in 1 .. n /\ (j - 1) + 1 = j
        BY <1>1, <4>1
      <4> QED BY <1>6, <4>2
    <3>2. K = {}
      BY <2>1, <3>1
    <3> QED BY <1>8, <2>1, <3>2 DEF FirstValue, H, K, q
  <2>2. CASE H # {}
    <3> DEFINE l == Least(H)
    <3>1. l \in H /\ \A j \in H : l <= j
      BY <1>4, <2>2, LeastIn
    <3> HIDE DEF l
    <3>2. l \in 1 .. n /\ l + 1 \in K /\ q[l + 1] = props[l]
      BY <1>2, <1>4, <1>6, <3>1
    <3>3. ASSUME NEW j \in K PROVE l + 1 <= j
      <4>1. j \in Nat /\ j \in 1 .. n + 1 /\ j # 1
        BY <1>4, <1>5, <1>8
      <4>2. j - 1 \in 1 .. n /\ (j - 1) + 1 = j
        BY <1>1, <4>1
      <4>3. l <= j - 1
        BY <1>6, <3>1, <4>2
      <4> QED BY <3>2, <4>1, <4>3
    <3>4. Least(K) = l + 1
      BY <1>4, <3>2, <3>3, LeastIs
    <3> QED BY <1>8, <2>2, <3>2, <3>4 DEF FirstValue, H, K, q, l
  <2> QED BY <2>1, <2>2
<1> QED BY <1>7, <1>8 DEF q

\* The list has, for each key, what the last line that names it says.
LEMMA LinesParsed ==
  ASSUME NEW lines, IsList(lines), NEW m \in 0 .. Len(lines), NEW key, NonEmpty(key)
  PROVE  FirstValue(Parsed(lines)[m], key) = LastValue(lines, m, key)
<1> DEFINE n == Len(lines)
           F == Parsed(lines)
           S == {<<lines[j].key, lines[j].value>> : j \in 1 .. n}
           P == {i \in 0 .. n : F[i] \in Seq(S) /\ FirstValue(F[i], key) = LastValue(lines, i, key)}
<1>1. n \in Nat /\ DOMAIN lines = 1 .. n
  BY DEF IsList
<1>2. F[0] = <<>> /\ \A i \in 1 .. n : F[i] = ParseLine(F[i - 1], lines[i])
  BY <1>1, ParsedSteps
<1>3. \A i \in 1 .. n : <<lines[i].key, lines[i].value>> \in S
  OBVIOUS
<1> HIDE DEF F, S
<1>4. 0 \in P
  <2>1. F[0] = <<>> /\ <<>> \in Seq(S)
    <3>1. <<>> \in Seq(S)
      OBVIOUS
    <3> QED BY <1>2, <3>1
  <2>2. FirstValue(<<>>, key) = Absent
    <3>1. Having(<<>>, key) = {}
      BY DEF Having
    <3> QED BY <3>1, Zenon DEF FirstValue
  <2>3. LastValue(lines, 0, key) = Absent
    <3>1. \A j : j \notin Naming(lines, 0, key)
      BY DEF Naming
    <3>2. Naming(lines, 0, key) = {}
      BY <3>1, Zenon
    <3> QED BY <3>2, Zenon DEF LastValue
  <2>4. 0 \in 0 .. n
    BY <1>1
  <2> QED BY <2>1, <2>2, <2>3, <2>4, Zenon
<1>5. ASSUME NEW i \in 1 .. n, i - 1 \in P
      PROVE  i \in P
  <2>1. F[i - 1] \in Seq(S) /\ FirstValue(F[i - 1], key) = LastValue(lines, i - 1, key)
    BY <1>5
  <2>2. i \in Nat \ {0} /\ i \in 0 .. n
    BY <1>1
  <2>3. LastValue(lines, i, key) = IF lines[i].kind = "pair" /\ lines[i].key = key
                                   THEN lines[i].value ELSE LastValue(lines, i - 1, key)
    BY <2>2, LastValueNext
  <2>4. CASE lines[i].kind = "pair" /\ NonEmpty(lines[i].key)
    <3> DEFINE pair == <<lines[i].key, lines[i].value>>
    <3>1. pair \in S /\ pair[1] = lines[i].key /\ pair[2] = lines[i].value
      BY <1>3
    <3>2. F[i] = <<pair>> \o F[i - 1]
      <4>1. F[i] = ParseLine(F[i - 1], lines[i])
        BY <1>2
      <4> QED BY <2>4, <4>1, Zenon DEF ParseLine, AddProperties, NonEmpty
    <3> HIDE DEF pair
    <3> DEFINE q == F[i - 1]
    <3>3. F[i] \in Seq(S)
      <4>1. q \in Seq(S) /\ F[i] = <<pair>> \o q
        BY <2>1, <3>2, Zenon
      <4> HIDE DEF q
      <4>2. <<pair>> \o q \in Seq(S)
        BY <3>1, <4>1
      <4> QED BY <4>1, <4>2
    <3>4. FirstValue(F[i], key) = IF pair[1] = key THEN pair[2] ELSE FirstValue(F[i - 1], key)
      <4>1. FirstValue(<<pair>> \o F[i - 1], key)
               = IF pair[1] = key THEN pair[2] ELSE FirstValue(F[i - 1], key)
        BY <2>1, <3>1, FirstValueNext, Zenon
      <4> QED BY <3>2, <4>1, Zenon
    <3>5. FirstValue(F[i], key) = LastValue(lines, i, key)
      <4>1. CASE lines[i].key = key
        BY <2>3, <2>4, <3>1, <3>4, <4>1, Zenon
      <4>2. CASE lines[i].key # key
        BY <2>1, <2>3, <2>4, <3>1, <3>4, <4>2, Zenon
      <4> QED BY <4>1, <4>2
    <3> QED BY <2>2, <3>3, <3>5, Zenon
  <2>5. CASE ~(lines[i].kind = "pair" /\ NonEmpty(lines[i].key))
    <3>1. F[i] = F[i - 1]
      <4>1. F[i] = ParseLine(F[i - 1], lines[i])
        BY <1>2
      <4> QED BY <2>5, <4>1, Zenon DEF ParseLine, NonEmpty
    <3>2. FirstValue(F[i], key) = LastValue(lines, i, key)
      BY <2>1, <2>3, <2>5, <3>1
    <3> QED BY <2>1, <2>2, <3>1, <3>2, Zenon
  <2> QED BY <2>4, <2>5
<1>6. P = 0 .. n
  <2>1. P \in SUBSET (0 .. n)
    OBVIOUS
  <2> HIDE DEF P
  <2> QED BY <1>1, <1>4, <1>5, <2>1, Places
<1>7. m \in P
  BY <1>6
<1> QED BY <1>7 DEF F

\* The list is what has been read.
PropInv ==
  /\ source \in {"none", "file", "header"}
  /\ source = "file" => file \in Files /\ prop_head = ParseFile(file)
  /\ source = "header" => prop_head = ParseHeader
  /\ loads \in Nat /\ (loads > 0 => source # "none")

LEMMA SettingIs ==
  ASSUME PropInv, source # "none", NEW key, NonEmpty(key)
  PROVE  GetProperties(key) = Setting(key)
<1>1. GetProperties(key) = FirstValue(prop_head, key)
  BY DEF GetProperties, FirstValue, Having
<1>2. Setting(key) = LastValue(Said, Finished, key)
  BY DEF Setting, LastValue, Naming
<1>3. CASE source = "file"
  <2>1. IsList(file.lines) /\ (file.ended \/ Len(file.lines) > 0) /\ prop_head = ParseFile(file)
    BY <1>3, ConfigAssumption DEF PropInv
  <2>2. LinesRead(file) \in 0 .. Len(file.lines)
    <3>1. Len(file.lines) \in Nat
      BY <2>1, Zenon DEF IsList
    <3> QED BY <2>1, <3>1 DEF LinesRead
  <2>3. Said = file.lines /\ Finished = LinesRead(file)
    BY <1>3 DEF Said, Finished, LinesRead
  <2> QED BY <1>1, <1>2, <2>1, <2>2, <2>3, LinesParsed DEF ParseFile
<1>4. CASE source = "header"
  <2>1. IsList(Defaults) /\ prop_head = ParseHeader
    BY <1>4, ConfigAssumption DEF PropInv
  <2>2. Said = Defaults /\ Finished = Len(Defaults)
    BY <1>4 DEF Said, Finished
  <2>3. Len(Defaults) \in 0 .. Len(Defaults)
    <3>1. Len(Defaults) \in Nat
      BY <2>1, Zenon DEF IsList
    <3> QED BY <3>1
  <2> QED BY <1>1, <1>2, <2>1, <2>2, <2>3, LinesParsed DEF ParseHeader
<1> QED BY <1>3, <1>4 DEF PropInv

ConfInv == PropInv /\ AddressIsCurrent

LEMMA LoadedConf ==
  ASSUME ConfInv, NEW list \in AddrLists, GetInterfaceInfo(list)
  PROVE  ConfInv'
<1> DEFINE s == GetIfaddrInfo(list)
           on == Setting("vip_mode") = "1"
<1>1. source # "none" /\ UNCHANGED <<source, file, prop_head>> /\ now' = list /\ loads' = loads + 1
  BY DEF GetInterfaceInfo
<1>2. PropInv'
  BY <1>1 DEF ConfInv, PropInv
<1>3. /\ GetProperties("vip_mode") = Setting("vip_mode")
      /\ GetProperties("in.ip4") = Setting("in.ip4")
      /\ GetProperties("in.ip6") = Setting("in.ip6")
  <2>1. NonEmpty("vip_mode") /\ NonEmpty("in.ip4") /\ NonEmpty("in.ip6")
    BY DEF NonEmpty
  <2> QED BY <1>1, <2>1, SettingIs DEF ConfInv
<1>4. \A key : Setting(key)' = Setting(key)
  BY <1>1 DEF Setting, Said, Finished
<1>5. vip_mode' = on
  BY <1>3 DEF GetInterfaceInfo
<1>6. ifdata' = WithVip(s)
  BY DEF GetInterfaceInfo
<1> HIDE DEF s
<1>7. /\ ifdata'.sip4 = s.sip4 /\ ifdata'.sip6 = s.sip6
      /\ ifdata'.v4_enable = (s.v4_enable /\ (on => Setting("in.ip4") \in Values))
      /\ ifdata'.v6_enable = (s.v6_enable /\ (on => Setting("in.ip6") \in Values))
      /\ ifdata'.vip4 = IF ~on THEN s.sip4
                        ELSE IF (s.v4_enable /\ on) /\ Setting("in.ip4") \in Values
                             THEN Setting("in.ip4") ELSE ifdata.vip4
      /\ ifdata'.vip6 = IF ~on THEN s.sip6
                        ELSE IF (s.v6_enable /\ on) /\ Setting("in.ip6") \in Values
                             THEN Setting("in.ip6") ELSE ifdata.vip6
  BY <1>3, <1>6 DEF WithVip
<1>8. /\ Choice4(list) # Absent => s.v4_enable = TRUE /\ s.sip4 = Choice4(list)
      /\ Choice6(list) # Absent => s.v6_enable = TRUE /\ s.sip6 = Choice6(list)
  BY AddressesFound DEF s
<1>9. Choice4(list) # Absent =>
         /\ ifdata'.sip4 = Choice4(list)
         /\ ifdata'.v4_enable <=> (on => Setting("in.ip4") \in Values)
         /\ ifdata'.v4_enable => ifdata'.vip4 = IF on THEN Setting("in.ip4") ELSE ifdata'.sip4
  BY <1>7, <1>8
<1>10. Choice6(list) # Absent =>
         /\ ifdata'.sip6 = Choice6(list)
         /\ ifdata'.v6_enable <=> (on => Setting("in.ip6") \in Values)
         /\ ifdata'.v6_enable => ifdata'.vip6 = IF on THEN Setting("in.ip6") ELSE ifdata'.sip6
  BY <1>7, <1>8
<1>11. /\ Choice4(now)' = Choice4(list) /\ Choice6(now)' = Choice6(list)
  BY <1>1 DEF Choice4, Choice6, FirstAddr, Ours, Global, Least
<1>12. AddressIsCurrent'
  BY <1>4, <1>5, <1>9, <1>10, <1>11 DEF AddressIsCurrent
<1> QED BY <1>2, <1>12 DEF ConfInv

\* Whatever the properties file says and whatever addresses the interface has
\* had, a translator works with those that are chosen now, and with the virtual
\* addresses that the last line for them names (get_interface_info).
THEOREM AddressesCurrent == ConfSpec => []AddressIsCurrent
<1>1. ConfInit => ConfInv
  BY DEF ConfInit, ConfInv, PropInv, AddressIsCurrent
<1>2. ConfInv /\ [ConfNext]_confVars => ConfInv'
  <2> SUFFICES ASSUME ConfInv, [ConfNext]_confVars PROVE ConfInv'
    OBVIOUS
  <2>1. CASE NoPropertyFile
    <3>1. PropInv' /\ ~(loads' > 0)
      BY <2>1 DEF NoPropertyFile, ConfInv, PropInv, ParseHeader, Parsed
    <3> QED BY <3>1 DEF ConfInv, AddressIsCurrent
  <2>2. CASE \E f \in Files : AnycastPropInit(f)
    <3>1. PropInv' /\ ~(loads' > 0)
      BY <2>2 DEF AnycastPropInit, ConfInv, PropInv, ParseFile, Parsed, LinesRead
    <3> QED BY <3>1 DEF ConfInv, AddressIsCurrent
  <2>3. CASE \E list \in AddrLists : GetInterfaceInfo(list)
    BY <2>3, LoadedConf
  <2>4. CASE UNCHANGED confVars
    <3>1. PropInv'
      BY <2>4 DEF confVars, ConfInv, PropInv
    <3>2. UNCHANGED <<source, file, ifdata, vip_mode, now, loads>>
      BY <2>4 DEF confVars
    <3>3. /\ \A key : Setting(key)' = Setting(key)
          /\ Choice4(now)' = Choice4(now) /\ Choice6(now)' = Choice6(now)
      BY <3>2 DEF Setting, Said, Finished, Choice4, Choice6, FirstAddr, Ours, Global, Least
    <3>4. AddressIsCurrent'
      BY <3>2, <3>3 DEF ConfInv, AddressIsCurrent
    <3> QED BY <3>1, <3>4 DEF ConfInv
  <2> QED BY <2>1, <2>2, <2>3, <2>4 DEF ConfNext
<1>3. ConfInv => AddressIsCurrent
  BY DEF ConfInv
<1> QED BY <1>1, <1>2, <1>3, PTL DEF ConfSpec
=============================================================================
