------------------------ MODULE MacResolution_proofs ------------------------
(***************************************************************************)
(* Proofs about MacResolution, for any interfaces, addresses and MACs.     *)
(***************************************************************************)
EXTENDS MacResolution, TLAPS

Sleeping == {"idle", "open", "ping", "sleep", "ok", "init"}
Talking  == {"route", "index", "dump", "spin"}

DescType == fds \in Nat /\ lost \in Nat /\ ping_fd \in {0, 1} /\ at \in Sleeping \cup Talking

\* The netlink socket is open exactly while the kernel is talked to.
FInv == DescType /\ SocketsClosed

LEMMA FInit == Init => FInv
  BY DEF Init, FInv, DescType, SocketsClosed, Owned, Sleeping

\* What an error return does to the place of the thread.
LEMMA AfterFailure == NextTry => at' \in {"init", "open"}
  BY DEF NextTry

LEMMA FStep == FInv /\ [Next]_vars => FInv'
<1> SUFFICES ASSUME FInv, [Next]_vars PROVE FInv'
  OBVIOUS
<1> USE AfterFailure DEF FInv, DescType, SocketsClosed, Owned, Sleeping, Talking, kernel, local, descs
<1>1. ASSUME NEW b \in BOOLEAN, Resolve(b) PROVE FInv'
  BY <1>1 DEF Resolve
<1>2. CASE Open
  <2>1. CASE at' = "route" /\ fds' = fds + 1 /\ UNCHANGED <<try, lost>>
    BY <1>2, <2>1 DEF Open
  <2>2. CASE Failed(FALSE) /\ UNCHANGED lost
    BY <1>2, <2>2 DEF Open, Failed
  <2>3. CASE NextTry /\ fds' = fds + 1 /\ lost' = lost + 1
    BY <1>2, <2>3 DEF Open
  <2> QED BY <1>2, <2>1, <2>2, <2>3 DEF Open
<1>3. CASE RouteVia
  BY <1>3 DEF RouteVia, Found
<1>4. CASE RouteDirect
  BY <1>4 DEF RouteDirect, Found
<1>5. CASE RouteFails
  BY <1>5 DEF RouteFails, Failed
<1>6. CASE RouteForeign
  BY <1>6 DEF RouteForeign
<1>7. CASE AskNeigh
  BY <1>7 DEF AskNeigh
<1>8. CASE AskNeighFails
  BY <1>8 DEF AskNeighFails, Failed
<1>9. ASSUME NEW k \in Keys, GetNeigh(k) PROVE FInv'
  BY <1>9 DEF GetNeigh
<1>10. CASE DumpDone
  BY <1>10 DEF DumpDone
<1>11. CASE DumpFails
  BY <1>11 DEF DumpFails, Failed
<1>12. CASE Ping
  BY <1>12 DEF Ping, InitPingSoc
<1>13. CASE Wake
  BY <1>13 DEF Wake
<1>14. CASE Return
  BY <1>14 DEF Return
<1>15. CASE Cancel
  BY <1>15 DEF Cancel
<1>16. CASE GetMask
  BY <1>16 DEF GetMask
<1>17. ASSUME NEW k \in Keys, NEW m \in Macs \cup {NoMac}, Neighbour(k, m) PROVE FInv'
  BY <1>17 DEF Neighbour
<1>18. CASE UNCHANGED vars
  BY <1>18 DEF vars
<1> HIDE DEF FInv
<1> QED BY <1>1, <1>2, <1>3, <1>4, <1>5, <1>6, <1>7, <1>8, <1>9, <1>10, <1>11, <1>12,
           <1>13, <1>14, <1>15, <1>16, <1>17, <1>18 DEF Next, Resolver

\* get_target_mac closes its netlink socket on every way out, and the ping
\* socket is opened once: other descriptors stay open only where the program
\* gives them up.
THEOREM DescriptorsAccounted == Spec => []SocketsClosed
<1>1. FInv => SocketsClosed
  BY DEF FInv
<1> QED BY FInit, FStep, <1>1, PTL DEF Spec

-----------------------------------------------------------------------------
(***************************************************************************)
(* The MAC that is found.                                                  *)
(***************************************************************************)

\* had follows the neighbour entry of the next hop from the moment it is
\* known, and the MAC in the caller's memory is taken from it.
MInv ==
    /\ neigh \in [Keys -> Macs \cup {NoMac}]
    /\ at \in {"index", "dump"} =>
          /\ hop # NoHop
          /\ neigh[<<If, hop>>] # NoMac => neigh[<<If, hop>>] \in had
    /\ at = "route" => mac = NoMac
    /\ at \in {"index", "dump", "ok"} /\ mac # NoMac => mac \in had
    /\ at = "ok" => mac # NoMac

LEMMA MInit == Init => MInv
  BY DEF Init, MInv

LEMMA MStep == MInv /\ [Next]_vars => MInv'
<1> SUFFICES ASSUME MInv, [Next]_vars PROVE MInv'
  OBVIOUS
<1> USE AfterFailure DEF MInv, kernel, local, descs
<1>1. ASSUME NEW b \in BOOLEAN, Resolve(b) PROVE MInv'
  BY <1>1 DEF Resolve
<1>2. CASE Open
  <2>1. at' = "route" \/ NextTry
    BY <1>2 DEF Open, Failed
  <2> QED BY <1>2, <2>1 DEF Open
<1>3. ASSUME NEW h \in Addrs, at = "route", Found(h) PROVE MInv'
  BY <1>3, MacResolutionAssumption DEF Found
<1>4. CASE RouteVia
  BY <1>3, <1>4 DEF RouteVia, Addrs
<1>5. CASE RouteDirect
  BY <1>3, <1>5 DEF RouteDirect, Addrs
<1>6. CASE RouteFails
  BY <1>6 DEF RouteFails, Failed
<1>7. CASE RouteForeign
  BY <1>7 DEF RouteForeign
<1>8. CASE AskNeigh
  BY <1>8 DEF AskNeigh
<1>9. CASE AskNeighFails
  BY <1>9 DEF AskNeighFails, Failed
<1>10. ASSUME NEW k \in Keys, GetNeigh(k) PROVE MInv'
  \* The entry that is taken is the one had follows.
  <2>1. Wanted(k) => k = <<If, hop>>
    BY DEF Wanted, Keys
  <2> QED BY <1>10, <2>1 DEF GetNeigh
<1>11. CASE DumpDone
  BY <1>11 DEF DumpDone
<1>12. CASE DumpFails
  BY <1>12 DEF DumpFails, Failed
<1>13. CASE Ping
  BY <1>13 DEF Ping, InitPingSoc
<1>14. CASE Wake
  BY <1>14 DEF Wake
<1>15. CASE Return
  BY <1>15 DEF Return
<1>16. CASE Cancel
  BY <1>16 DEF Cancel
<1>17. CASE GetMask
  BY <1>17 DEF GetMask
<1>18. ASSUME NEW k \in Keys, NEW m \in Macs \cup {NoMac}, Neighbour(k, m) PROVE MInv'
  <2>1. neigh' \in [Keys -> Macs \cup {NoMac}] /\ UNCHANGED <<at, hop, mac>> /\ had \subseteq had'
    BY <1>18 DEF Neighbour
  <2>2. ASSUME at \in {"index", "dump"}, neigh'[<<If, hop>>] # NoMac
        PROVE  neigh'[<<If, hop>>] \in had'
    <3>1. CASE k = <<If, hop>>
      <4>1. neigh'[<<If, hop>>] = m
        BY <1>18, <3>1 DEF Neighbour
      <4>2. had' = had \cup ({m} \ {NoMac})
        BY <1>18, <2>2, <3>1 DEF Neighbour
      <4> QED BY <2>2, <4>1, <4>2
    <3>2. CASE k # <<If, hop>>
      <4>1. neigh'[<<If, hop>>] = neigh[<<If, hop>>] \/ <<If, hop>> \notin Keys
        BY <1>18, <3>2 DEF Neighbour
      <4> QED BY <1>18, <2>1, <2>2, <3>2, <4>1 DEF Neighbour
    <3> QED BY <3>1, <3>2
  <2> QED BY <2>1, <2>2
<1>19. CASE UNCHANGED vars
  BY <1>19 DEF vars
<1> HIDE DEF MInv
<1> QED BY <1>1, <1>2, <1>4, <1>5, <1>6, <1>7, <1>8, <1>9, <1>10, <1>11, <1>12, <1>13,
           <1>14, <1>15, <1>16, <1>17, <1>18, <1>19 DEF Next, Resolver

\* A resolution that succeeds has a MAC the kernel had for the next hop, on the
\* interface asked about, after the next hop was found (rt_body.c:78-192).
THEOREM MacIsOfNextHop == Spec => []MacOfNextHop
<1>1. MInv => MacOfNextHop
  BY DEF MInv, MacOfNextHop
<1> QED BY MInit, MStep, <1>1, PTL DEF Spec
=============================================================================
