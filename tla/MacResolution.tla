--------------------------- MODULE MacResolution ---------------------------
(***************************************************************************)
(* The resolution of a MAC through the kernel: get_target_mac and the      *)
(* netlink routines under it (common/rt_body.c), the loop of three attempts*)
(* around it (resolve_mac of the backend, resolve_target_mac of the front) *)
(* and the ping that makes the kernel look for a neighbour                 *)
(* (common/ping_body.c).  One thread, one address family.                  *)
(*                                                                         *)
(* The kernel is the environment: its neighbour table changes at any time, *)
(* and a dump of the table reports an entry as it is when it is reported.  *)
(***************************************************************************)
EXTENDS Naturals, FiniteSets

CONSTANTS Macs,         \* MACs of neighbours
          NoMac,        \* the MAC 00:00:00:00:00:00
          Ifs,          \* interfaces of the host
          If,           \* the interface asked about
          Target,       \* the address to reach
          Gateways,     \* addresses a route may go via
          NoArp,        \* neighbour entries in state NUD_NOARP
          NoHop,        \* stands for a next hop not yet found
          Foreign,      \* whether a netlink message of another may be received
          MaxLost       \* bound: descriptors that are lost

Addrs == Gateways \cup {Target}
Keys  == Ifs \X Addrs   \* the neighbour entries: interface and address
Tries == 3

ASSUME MacResolutionAssumption ==
    /\ NoMac \notin Macs /\ If \in Ifs /\ NoHop \notin Addrs
    /\ NoArp \subseteq Keys /\ Foreign \in BOOLEAN /\ MaxLost \in Nat

VARIABLES
    neigh,    \* the kernel's neighbour table: a MAC or NoMac for each key
    at,       \* where the thread is
    gw,       \* whether the default gateway is asked for
    try,      \* the attempt, from 1
    hop,      \* the next hop found (gw_ip, ss), NoHop before
    mac,      \* the MAC, in the caller's memory
    todo,     \* neighbour entries the dump has still to report
    ping_fd,  \* the ping socket: 0 until it is open
    fds,      \* descriptors open
    lost,     \* history: descriptors given up open, bounded by MaxLost
    had       \* history: MACs the next hop had at If since it was found

kernel == <<neigh, had>>
local  == <<gw, try, hop>>
descs  == <<ping_fd, fds, lost>>
vars   == <<neigh, at, gw, try, hop, mac, todo, ping_fd, fds, lost, had>>

Init ==
    /\ neigh = [k \in Keys |-> NoMac]
    /\ at = "idle" /\ gw = FALSE /\ try = 0 /\ hop = NoHop
    /\ mac = NoMac /\ todo = {}
    /\ ping_fd = 0 /\ fds = 0 /\ lost = 0
    /\ had = {}

(***************************************************************************)
(* resolve_mac, resolve_target_mac                                         *)
(***************************************************************************)

\* The call.  The front asks for a backend, the backend for its gateway too.
Resolve(default_gw) ==
    /\ at = "idle"
    /\ at' = "open" /\ try' = 1 /\ gw' = default_gw
    /\ UNCHANGED <<kernel, hop, mac, todo, descs>>

\* The next attempt, or the return after the third without a MAC.
NextTry ==
    IF try = Tries THEN at' = "init" /\ UNCHANGED try
                   ELSE at' = "open" /\ try' = try + 1

\* An error return after which the attempt is not counted.
FailedUncounted(closed) ==
    /\ at' = "open" /\ UNCHANGED try
    /\ fds' = IF closed THEN fds - 1 ELSE fds

\* An error return that forgets rtsock_close.
FailedUnclosed(closed) ==
    /\ NextTry
    /\ fds' = fds

\* get_target_mac returned -1: the next attempt follows at once.
Failed(closed) ==
    /\ NextTry
    /\ fds' = IF closed THEN fds - 1 ELSE fds

-----------------------------------------------------------------------------
(* get_target_mac                                                            *)

\* rtsock_open before the MAC is zeroed, without the zeroing.
OpenKeepsMac ==
    /\ at = "open"
    /\ hop' = NoHop /\ had' = {}
    /\ \/ at' = "route" /\ fds' = fds + 1 /\ UNCHANGED <<try, lost>>
       \/ Failed(FALSE) /\ UNCHANGED lost
    /\ UNCHANGED <<neigh, gw, mac, todo, ping_fd>>

\* rtsock_open opens, or socket() fails, or what follows it fails, and then
\* the descriptor is lost.  The caller's MAC is zeroed first.
Open ==
    /\ at = "open"
    /\ mac' = NoMac
    /\ hop' = NoHop /\ had' = {}
    /\ \/ at' = "route" /\ fds' = fds + 1 /\ UNCHANGED <<try, lost>>
       \/ Failed(FALSE) /\ UNCHANGED lost
       \/ /\ lost < MaxLost
          /\ NextTry
          /\ fds' = fds + 1 /\ lost' = lost + 1
    /\ UNCHANGED <<neigh, gw, todo, ping_fd>>

\* A next hop is found; the kernel's MAC for it now is the first it had.
Found(h) ==
    /\ hop' = h
    /\ had' = {neigh[<<If, h>>]} \ {NoMac}
    /\ at' = "index"
    /\ UNCHANGED <<neigh, gw, try, mac, todo, descs>>

\* rtsock_talk and get_route: a route via a gateway.
RouteVia == at = "route" /\ \E g \in Gateways : Found(g)

\* A route without a gateway: the target itself, no answer for the default one.
RouteDirect == at = "route" /\ ~gw /\ Found(Target)

\* rtsock_talk fails, or the default route has no gateway.
RouteFails ==
    /\ at = "route"
    /\ Failed(TRUE)
    /\ UNCHANGED <<kernel, gw, hop, mac, todo, ping_fd, lost>>

\* rtsock_talk goes on to the next message without going past the one that is
\* not its answer: it looks at that message for ever (rt_body.c:480).
RouteForeign ==
    /\ at = "route" /\ Foreign
    /\ at' = "spin"
    /\ UNCHANGED <<kernel, local, mac, todo, descs>>

\* if_nametoindex and wdump_request.
AskNeigh ==
    /\ at = "index"
    /\ at' = "dump"
    /\ todo' = Keys
    /\ UNCHANGED <<kernel, local, mac, descs>>

AskNeighFails ==
    /\ at = "index"
    /\ Failed(TRUE)
    /\ UNCHANGED <<kernel, gw, hop, mac, todo, ping_fd, lost>>

\* The entries get_neigh takes the MAC of.
Wanted(k) == k[1] = If /\ k[2] = hop /\ k \notin NoArp

\* dump_filter calls get_neigh for an entry.  (A message of another, a signal
\* and a receive error change nothing: it receives again.)
GetNeigh(k) ==
    /\ at = "dump" /\ k \in todo
    /\ todo' = todo \ {k}
    /\ mac' = IF Wanted(k) /\ neigh[k] # NoMac THEN neigh[k] ELSE mac
    /\ UNCHANGED <<kernel, at, local, descs>>

\* NLMSG_DONE: with a MAC the resolution is over, without one the next hop is
\* pinged.
DumpDone ==
    /\ at = "dump" /\ todo = {}
    /\ at' = IF mac # NoMac THEN "ok" ELSE "ping"
    /\ fds' = fds - 1
    /\ UNCHANGED <<kernel, local, mac, todo, ping_fd, lost>>

\* NLMSG_ERROR, the end of file or an incomplete message.
DumpFails ==
    /\ at = "dump"
    /\ Failed(TRUE)
    /\ todo' = {}
    /\ UNCHANGED <<kernel, gw, hop, mac, ping_fd, lost>>

-----------------------------------------------------------------------------
(* send_ping                                                                 *)

\* init_ping_soc4, init_ping_soc6: a socket that cannot be set up is closed
\* again, and ping_fd is left alone.
InitPingSoc ==
    \/ ping_fd' = 1 /\ fds' = fds + 1
    \/ UNCHANGED <<ping_fd, fds>>

\* ping4, ping6: the socket is opened if it is not yet, and nothing is sent
\* without one.  The thread then sleeps 10 ms.
Ping ==
    /\ at = "ping"
    /\ at' = "sleep"
    /\ \/ ping_fd = 1 /\ UNCHANGED <<ping_fd, fds>>
       \/ ping_fd = 0 /\ InitPingSoc
    /\ UNCHANGED <<kernel, local, mac, todo, lost>>

Wake ==
    /\ at = "sleep"
    /\ NextTry
    /\ UNCHANGED <<kernel, gw, hop, mac, todo, descs>>

\* The caller goes on, with SVR_OK or SVR_INIT.
Return ==
    /\ at \in {"ok", "init"}
    /\ at' = "idle" /\ gw' = FALSE /\ try' = 0 /\ hop' = NoHop
    /\ mac' \in {mac, NoMac}    \* another call, for another address
    /\ had' = {}
    /\ UNCHANGED <<neigh, todo, descs>>

-----------------------------------------------------------------------------
(* Around it                                                                 *)

\* The front's network thread is cancelled while it waits in the kernel: the
\* cleanup handler knows nothing of the netlink socket.  The next thread takes
\* its place.
Cancel ==
    /\ at \in {"route", "index", "dump", "sleep"}
    /\ lost < MaxLost
    /\ lost' = IF at = "sleep" THEN lost ELSE lost + 1
    /\ at' = "idle" /\ gw' = FALSE /\ try' = 0 /\ hop' = NoHop
    /\ todo' = {} /\ had' = {}
    /\ UNCHANGED <<neigh, mac, ping_fd, fds>>

\* get_mask, which the backend calls at its start when it is built with L_MODE:
\* the successful return leaves the socket open (rt_body.c:236).
GetMask ==
    /\ at = "idle" /\ lost < MaxLost
    /\ fds' = fds + 1 /\ lost' = lost + 1
    /\ UNCHANGED <<kernel, at, local, mac, todo, ping_fd>>

\* The kernel learns or loses the MAC of a neighbour.
Neighbour(k, m) ==
    /\ neigh[k] # m
    /\ neigh' = [neigh EXCEPT ![k] = m]
    /\ had' = IF hop # NoHop /\ k = <<If, hop>> THEN had \cup ({m} \ {NoMac}) ELSE had
    /\ UNCHANGED <<at, local, mac, todo, descs>>

Resolver ==
    \/ Open
    \/ RouteVia \/ RouteDirect \/ RouteFails \/ RouteForeign
    \/ AskNeigh \/ AskNeighFails
    \/ (\E k \in Keys : GetNeigh(k)) \/ DumpDone \/ DumpFails
    \/ Ping \/ Wake \/ Return

Next ==
    \/ (\E b \in BOOLEAN : Resolve(b))
    \/ Resolver
    \/ Cancel \/ GetMask
    \/ \E k \in Keys, m \in Macs \cup {NoMac} : Neighbour(k, m)

Spec == Init /\ [][Next]_vars

\* The thread runs and the kernel answers it.
FairSpec == Spec /\ WF_vars(Resolver)

(***************************************************************************)
(* Properties                                                              *)
(***************************************************************************)

TypeOK ==
    /\ neigh \in [Keys -> Macs \cup {NoMac}]
    /\ at \in {"idle", "open", "route", "index", "dump", "ping", "sleep", "ok", "init", "spin"}
    /\ gw \in BOOLEAN /\ try \in 0 .. Tries
    /\ hop \in Addrs \cup {NoHop} /\ mac \in Macs \cup {NoMac}
    /\ todo \subseteq Keys
    /\ ping_fd \in {0, 1} /\ fds \in Nat /\ lost \in 0 .. MaxLost
    /\ had \subseteq Macs

\* Every way through an attempt closes the netlink socket it opened: between
\* them only the ping socket is open, once, and the descriptors that a failed
\* set-up, a cancellation or get_mask gave up.
Owned == lost + ping_fd
SocketsClosed ==
    fds = Owned + (IF at \in {"route", "index", "dump", "spin"} THEN 1 ELSE 0)

\* A resolution succeeds with a MAC of the next hop it found, on the interface
\* asked about, and one that the kernel had for it after it was found: never
\* the MAC of an earlier resolution, of another address or of another side.
MacOfNextHop == at = "ok" => mac \in had

\* A resolution ends, after three attempts at most, whatever the kernel answers
\* and however its table changes: only a message of another that arrives in the
\* place of the route can keep it (the answer is then never read).
ResolutionEnds == (at # "idle") ~> (at = "idle" \/ at = "spin")
=============================================================================
