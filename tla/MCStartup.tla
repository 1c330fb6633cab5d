----------------------------- MODULE MCStartup -----------------------------
(* Small instances of what a translator does before it forwards: the start   *)
(* itself, its properties and addresses, the front's policies, the backend's *)
(* mode.  They share no state here; one is explored at a time, while the     *)
(* others are still at their beginning, so that the state spaces add up.     *)
EXTENDS Control, Config, PolicyFile, ConnectMode

UpTo(n, S) == UNION {[1 .. k -> S] : k \in 1 .. n}

\* Properties files: every one of two lines, and with vip_mode=1 before them.
P(k, v) == [kind |-> "pair", key |-> k, value |-> v]
SomeLines == {P("vip_mode", "1"), P("vip_mode", "0"), P("in.ip4", "10.0.0.1"),
              P("in.ip4", "bogus"), P("in.ip6", "2001::1"), P("", "10.0.0.1"),
              [kind |-> "text", key |-> "", value |-> ""]}
TheFiles == [lines : UpTo(2, SomeLines) \cup
                     {<<P("vip_mode", "1")>> \o s : s \in [1 .. 2 -> SomeLines]},
             ended : BOOLEAN]
TheDefaults == <<P("in.ifname", "eth0"), P("ud_file", "/dev/shm/.sasat"), P("vip_mode", "1")>>

\* Addresses: two of IPv4, a link-local and a global one of IPv6, and one of
\* another interface, in every order.
A(own, family, fe, addr) == [own |-> own, family |-> family, fe |-> fe, addr |-> addr]
Entries == {A(TRUE, "4", FALSE, "a"), A(TRUE, "4", FALSE, "b"), A(TRUE, "6", TRUE, "f"),
            A(TRUE, "6", FALSE, "g"), A(FALSE, "6", FALSE, "o")}
TheLists == {<<>>} \cup {s \in UpTo(3, Entries) :
                            \A i, j \in DOMAIN s : s[i] = s[j] => i = j}

\* Policy lines: complete ones of both families, one with a fourth field, and
\* lines with fields of two families, too few, refused and of none.
F(family, addr) == [family |-> family, addr |-> addr]
TheLines == {
    <<F("4", "a"), F("4", "m"), F("4", "s")>>,
    <<F("4", "b"), F("4", "m"), F("4", "s"), F("none", "bad")>>,
    <<F("4", "a"), F("4", "m"), F("4", "zero")>>,
    <<F("6", "a6"), F("6", "m6"), F("6", "s6")>>,
    <<F("6", "a6"), F("4", "m"), F("6", "s6")>>,
    <<F("4", "a"), F("4", "m")>>,
    <<F("4", "bad")>>,
    <<F("4", "a"), F("none", "bad"), F("4", "s")>>}

Idle1 == starts = 0 /\ \A c \in Cmds : cmd[c].st = "none"
Idle2 == source = "none"
Idle3 == line = 0
Idle4 == l_mode = "unset"

StartupInit == Init /\ ConfInit /\ PolInit /\ ModeInit

StartupNext ==
    \/ Idle2 /\ Idle3 /\ Idle4 /\ Next /\ UNCHANGED <<confVars, polVars, modeVars>>
    \/ Idle1 /\ Idle3 /\ Idle4 /\ ConfNext /\ UNCHANGED <<vars, polVars, modeVars>>
    \/ Idle1 /\ Idle2 /\ Idle4 /\ PolNext /\ UNCHANGED <<vars, confVars, modeVars>>
    \/ Idle1 /\ Idle2 /\ Idle3 /\ ModeNext /\ UNCHANGED <<vars, confVars, polVars>>

StartupSpec == StartupInit /\ [][StartupNext]_<<vars, confVars, polVars, modeVars>>
=============================================================================
