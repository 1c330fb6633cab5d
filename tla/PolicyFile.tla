----------------------------- MODULE PolicyFile -----------------------------
(***************************************************************************)
(* The front's policy file: get_policy, parse_policy_line, get_family and  *)
(* create_policy_table (front/pol_tbl.c), get_svr_table and find_svr_tbl   *)
(* (front/svr_tbl.c), line by line.  A field is what the code makes of its *)
(* text: the family get_family takes it for ("4" for digits and dots, and  *)
(* for an empty field; "6" if it has a colon; or "none") and the address   *)
(* inet_pton reads, or Bad.  What PolicyCache has as its tables starts     *)
(* here.                                                                   *)
(***************************************************************************)
EXTENDS Naturals, SequencesExt

CONSTANTS
    Lines,       \* lines: sequences of fields
    MaxLines,    \* bound: lines of a file
    Bad,         \* no address
    Zero,        \* the address 0
    Garbage      \* what may stand in an address nobody has set

Families == {"4", "6"}
MAX_PART == 3

ASSUME PolicyFileAssumption ==
    /\ MaxLines \in Nat /\ Bad \notin Garbage
    /\ \A l \in Lines :
          /\ Len(l) \in Nat \ {0} /\ DOMAIN l = 1 .. Len(l)
          /\ \A i \in DOMAIN l : l[i].family \in Families \cup {"none"}

VARIABLES
    enable,    \* families the interface has
    text,      \* the lines of the file that are read, in order
    line,      \* the next one; 0 before the file is opened
    pol,       \* pol[f]: the policies of a family, in order
    svr        \* svr[f]: its servers, the newest first

polVars == <<enable, text, line, pol, svr>>

PolInit ==
    /\ enable = {} /\ text = <<>> /\ line = 0
    /\ pol = [f \in Families |-> <<>>] /\ svr = [f \in Families |-> <<>>]

\* get_policy, with the families that get_interface_info has enabled.  A last
\* line without a newline, comments and blank lines are no lines here:
\* parse_policy drops them.
GetPolicy ==
    /\ line = 0
    /\ \E n \in 0 .. MaxLines : text' \in [1 .. n -> Lines]
    /\ enable' \in SUBSET Families
    /\ line' = 1
    /\ UNCHANGED <<pol, svr>>

\* The fields of a line; more than three are not looked at.
Fields(l) == SubSeq(l, 1, IF Len(l) > MAX_PART THEN MAX_PART ELSE Len(l))

\* What keeps parse_policy_line from using a line.
Refused(l) ==
    LET p == Fields(l)
    IN  \/ \E i \in DOMAIN p : p[i].family = "none" \/ p[i].family # p[1].family
        \/ p[1].family \notin enable

\* The address of field i: a field that is missing or refused by inet_pton
\* leaves the variable as it is on the stack.
FieldValues(l, i) ==
    IF i <= Len(l) /\ l[i].addr # Bad THEN {l[i].addr} ELSE Garbage

\* A server of its own for every policy.
FindSvrTblNew(table, a) == <<[addr |-> a, drop |-> (a = Zero)]>> \o table

\* find_svr_tbl: the server table with the server of address a in it.
FindSvrTbl(table, a) ==
    IF \E i \in DOMAIN table : table[i].addr = a THEN table
    ELSE <<[addr |-> a, drop |-> (a = Zero)]>> \o table

\* SLIST_INSERT_HEAD in the place of TAILQ_INSERT_TAIL.
InsertPolicyHead(list, p) == <<p>> \o list

InsertPolicy(list, p) == Append(list, p)

\* A line that is refused.
SkipLine ==
    /\ line \in DOMAIN text /\ Refused(text[line])
    /\ line' = line + 1
    /\ UNCHANGED <<enable, text, pol, svr>>

\* create_policy_table for a line that is not.  (The address is stored under
\* the mask, which PolicyCache does; resolve_target_mac, which a new
\* server leads to, is MacResolution.)
ParsePolicyLine ==
    /\ line \in DOMAIN text /\ ~Refused(text[line])
    /\ LET l == text[line]
           f == l[1].family
       IN  \E a \in FieldValues(l, 1), m \in FieldValues(l, 2), s \in FieldValues(l, 3) :
              /\ svr' = [svr EXCEPT ![f] = FindSvrTbl(@, s)]
              /\ pol' = [pol EXCEPT ![f] = InsertPolicy(@,
                            [line |-> line, addr |-> a, mask |-> m, svr |-> s])]
    /\ line' = line + 1
    /\ UNCHANGED <<enable, text>>

PolNext == GetPolicy \/ SkipLine \/ ParsePolicyLine

PolSpec == PolInit /\ [][PolNext]_polVars

(***************************************************************************)
(* Properties                                                              *)
(***************************************************************************)

WellFormed(l, f) ==
    /\ Len(l) >= MAX_PART
    /\ \A i \in 1 .. MAX_PART : l[i].family = f /\ l[i].addr # Bad

\* Whatever lines are between them, the lines that are well-formed and of an
\* enabled family are policies with their own three addresses, in the order of
\* the file, which is the order of the lookup.  (Others may be policies too: a
\* line that lacks a field is one, of whatever was on the stack.)
WellFormedKept ==
    \A f \in enable :
        /\ \A n \in 1 .. line - 1 : WellFormed(text[n], f) =>
              \E k \in DOMAIN pol[f] :
                 pol[f][k] = [line |-> n, addr |-> text[n][1].addr,
                              mask |-> text[n][2].addr, svr |-> text[n][3].addr]
        /\ \A j, k \in DOMAIN pol[f] : j < k => pol[f][j].line < pol[f][k].line

\* Policies for the same server share its entry, so that its state and its
\* counters are one: every policy's server is in the table, once; and the
\* address 0 alone means discarding.
OneServerEach ==
    \A f \in Families :
        /\ \A k \in DOMAIN pol[f] : \E i \in DOMAIN svr[f] : svr[f][i].addr = pol[f][k].svr
        /\ \A i, j \in DOMAIN svr[f] : svr[f][i].addr = svr[f][j].addr => i = j
        /\ \A i \in DOMAIN svr[f] : svr[f][i].drop <=> svr[f][i].addr = Zero
=============================================================================
