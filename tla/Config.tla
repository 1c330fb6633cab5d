------------------------------- MODULE Config -------------------------------
(***************************************************************************)
(* What a translator takes from its surroundings: the properties file      *)
(* (common/prop_body.c), read once, and the addresses of its interface     *)
(* (get_interface_info and get_ifaddr_info of common/common_init.c), read  *)
(* at the start and, by the front, again at every reload.                  *)
(***************************************************************************)
EXTENDS Naturals, Sequences

CONSTANTS
    Files,      \* properties files: their lines, each with kind ("pair" or
                \* "text"), key and value, and whether the last has ended
    Defaults,   \* prop_db_front, prop_db_backend: lines, all of them pairs
    Absent,     \* no value
    Values,     \* values that inet_pton takes for an address
    AddrLists,  \* what getifaddrs may return: sequences of entries
                \*   own     the entry is of this interface
                \*   family  "4", "6" or another
                \*   fe      an IPv6 address that starts with 0xfe
                \*   addr    the address
    MaxLoads    \* bound: loads

\* A sequence, whatever its elements.
IsList(s) == Len(s) \in Nat /\ DOMAIN s = 1 .. Len(s)

ASSUME ConfigAssumption ==
    /\ MaxLoads \in Nat /\ Absent \notin Values
    /\ IsList(Defaults) /\ \A i \in DOMAIN Defaults : Defaults[i].kind = "pair"
    /\ \A f \in Files : IsList(f.lines) /\ (f.ended \/ Len(f.lines) > 0)
    /\ \A l \in AddrLists : IsList(l) /\ \A i \in DOMAIN l : l[i].addr # Absent

VARIABLES
    source,   \* where the properties are from: "none" yet, "file", "header"
    file,     \* history: the properties file
    prop_head,\* the properties, the newest first
    ifdata,   \* v4_enable, v6_enable, sip4, sip6, vip4, vip6
    vip_mode, \* the virtual address mode
    now,      \* history: the entries of the last load
    loads     \* loads done, bounded by MaxLoads

confVars == <<source, file, prop_head, ifdata, vip_mode, now, loads>>

ConfInit ==
    /\ source = "none" /\ file = [lines |-> <<>>, ended |-> TRUE] /\ prop_head = <<>>
    /\ ifdata = [v4_enable |-> FALSE, v6_enable |-> FALSE, sip4 |-> Absent,
                 sip6 |-> Absent, vip4 |-> Absent, vip6 |-> Absent]
    /\ vip_mode = FALSE /\ now = <<>> /\ loads = 0

(***************************************************************************)
(* The properties file                                                     *)
(***************************************************************************)

\* fgets reports the end of the file together with a last line that has no
\* newline; the loop leaves before it looks at it.
LinesRead(f) == IF f.ended THEN Len(f.lines) ELSE Len(f.lines) - 1

\* add_properties: SLIST_INSERT_HEAD
AddProperties(props, pair) == <<pair>> \o props

\* parse_line: a line without a key, or without "=", adds nothing; blank lines
\* and comments do not come here.
ParseLine(props, line) ==
    IF line.kind = "pair" /\ line.key # "" THEN AddProperties(props, <<line.key, line.value>>)
    ELSE props

\* The loops of parse_file and parse_header: the list after each line.
Parsed(lines) ==
    LET props[i \in 0 .. Len(lines)] ==
            IF i = 0 THEN <<>> ELSE ParseLine(props[i - 1], lines[i])
    IN  props

ParseFile(f) == Parsed(f.lines)[LinesRead(f)]

ParseHeader == Parsed(Defaults)[Len(Defaults)]

Least(S) == CHOOSE i \in S : \A j \in S : i <= j

\* anycast_get_properties: the first that has the key.
GetProperties(key) ==
    LET hits == {i \in DOMAIN prop_head : prop_head[i][1] = key}
    IN  IF hits = {} THEN Absent ELSE prop_head[Least(hits)][2]

\* anycast_prop_init, when there is a file
AnycastPropInit(f) ==
    /\ source = "none"
    /\ source' = "file" /\ file' = f
    /\ prop_head' = ParseFile(f)
    /\ UNCHANGED <<ifdata, vip_mode, now, loads>>

\* anycast_prop_init, when there is none
NoPropertyFile ==
    /\ source = "none"
    /\ source' = "header" /\ prop_head' = ParseHeader
    /\ UNCHANGED <<file, ifdata, vip_mode, now, loads>>

(***************************************************************************)
(* The interface                                                           *)
(***************************************************************************)

\* The list is left as soon as there is an IPv6 address of any kind.
TakeEntryEager(s, e) ==
    CASE ~e.own -> s
      [] e.own /\ e.family = "4" /\ ~s.set4 ->
            [s EXCEPT !.sip4 = e.addr, !.v4_enable = TRUE, !.set4 = TRUE]
      [] e.own /\ e.family = "6" /\ ~s.set6 ->
            [s EXCEPT !.sip6 = e.addr, !.v6_enable = TRUE, !.set6 = TRUE]
      [] OTHER -> s

\* One entry of the list, of which s has been found so far.
TakeEntry(s, e) ==
    CASE ~e.own \/ (s.set4 /\ s.set6) -> s
      [] e.own /\ e.family = "4" /\ ~s.set4 ->
            [s EXCEPT !.sip4 = e.addr, !.v4_enable = TRUE, !.set4 = TRUE]
      [] e.own /\ e.family = "6" /\ ~s.set6 /\ e.fe /\ s.ll = Absent ->
            [s EXCEPT !.ll = e.addr]
      [] e.own /\ e.family = "6" /\ ~s.set6 /\ ~e.fe ->
            [s EXCEPT !.sip6 = e.addr, !.v6_enable = TRUE, !.set6 = TRUE]
      [] OTHER -> s

\* The loop over the list: what is known after each entry.
Found(s0, list) ==
    LET s[i \in 0 .. Len(list)] == IF i = 0 THEN s0 ELSE TakeEntry(s[i - 1], list[i])
    IN  s

\* get_ifaddr_info: what is not found stays as it was.
GetIfaddrInfo(list) ==
    LET s0 == [set4 |-> FALSE, set6 |-> FALSE, ll |-> Absent,
               v4_enable |-> ifdata.v4_enable, v6_enable |-> ifdata.v6_enable,
               sip4 |-> ifdata.sip4, sip6 |-> ifdata.sip6]
        s == Found(s0, list)[Len(list)]
    IN  IF ~s.set6 /\ s.ll # Absent THEN [s EXCEPT !.sip6 = s.ll, !.v6_enable = TRUE]
        ELSE s

\* The virtual addresses, in the mode without them the host's.
WithVip(s) ==
    LET v4 == GetProperties("in.ip4")
        v6 == GetProperties("in.ip6")
        on == GetProperties("vip_mode") = "1"
        with4 == s.v4_enable /\ on
        with6 == s.v6_enable /\ on
    IN  [v4_enable |-> s.v4_enable /\ (on => v4 \in Values),
         v6_enable |-> s.v6_enable /\ (on => v6 \in Values),
         sip4 |-> s.sip4, sip6 |-> s.sip6,
         vip4 |-> IF ~on THEN s.sip4 ELSE IF with4 /\ v4 \in Values THEN v4 ELSE ifdata.vip4,
         vip6 |-> IF ~on THEN s.sip6 ELSE IF with6 /\ v6 \in Values THEN v6 ELSE ifdata.vip6]

\* get_interface_info: at the start, and in update_policy.
GetInterfaceInfo(list) ==
    /\ source # "none" /\ loads < MaxLoads
    /\ ifdata' = WithVip(GetIfaddrInfo(list))
    /\ vip_mode' = (GetProperties("vip_mode") = "1")
    /\ now' = list /\ loads' = loads + 1
    /\ UNCHANGED <<source, file, prop_head>>

ConfNext ==
    \/ NoPropertyFile
    \/ \E f \in Files : AnycastPropInit(f)
    \/ \E list \in AddrLists : GetInterfaceInfo(list)

ConfSpec == ConfInit /\ [][ConfNext]_confVars

(***************************************************************************)
(* Properties                                                              *)
(***************************************************************************)

\* The addresses of the interface in a list: the first of IPv4; the first global
\* one of IPv6, or else the first one.
Ours(list, family) == {i \in DOMAIN list : list[i].own /\ list[i].family = family}
Global(list) == {i \in Ours(list, "6") : ~list[i].fe}
FirstAddr(list, S) == IF S = {} THEN Absent ELSE list[Least(S)].addr
Choice4(list) == FirstAddr(list, Ours(list, "4"))
Choice6(list) == FirstAddr(list, IF Global(list) # {} THEN Global(list) ELSE Ours(list, "6"))

\* What the properties say: the finished lines of the file that are pairs, or
\* the built-in defaults; of a key, the last of them decides.
Said == IF source = "file" THEN file.lines ELSE Defaults
Finished == IF source = "file" /\ ~file.ended THEN Len(Said) - 1 ELSE Len(Said)
Setting(key) ==
    LET of == {i \in 1 .. Finished : Said[i].kind = "pair" /\ Said[i].key = key}
    IN  IF of = {} THEN Absent ELSE Said[CHOOSE i \in of : \A j \in of : j <= i].value

\* After every load, also after a reload with other addresses, a family that
\* the interface has an address of works with the address that is chosen now,
\* and is enabled unless its virtual address is missing; the last line of the
\* properties file that names a key has decided.  (Of a family whose
\* addresses are all gone the old one is kept, common_init.c:189.)
AddressIsCurrent ==
    LET Mode == Setting("vip_mode") = "1"
    IN  loads > 0 =>
       /\ vip_mode <=> Mode
       /\ Choice4(now) # Absent =>
             /\ ifdata.sip4 = Choice4(now)
             /\ ifdata.v4_enable <=> (Mode => Setting("in.ip4") \in Values)
             /\ ifdata.v4_enable =>
                   ifdata.vip4 = IF Mode THEN Setting("in.ip4") ELSE ifdata.sip4
       /\ Choice6(now) # Absent =>
             /\ ifdata.sip6 = Choice6(now)
             /\ ifdata.v6_enable <=> (Mode => Setting("in.ip6") \in Values)
             /\ ifdata.v6_enable =>
                   ifdata.vip6 = IF Mode THEN Setting("in.ip6") ELSE ifdata.sip6
=============================================================================
