------------------------------ MODULE LogDump ------------------------------
(***************************************************************************)
(* The log file of a translator: log_dump (command_proc.c of front and     *)
(* back) and the write_log functions of common/log_body.c.  Each function  *)
(* writes one section: a title, then tables of entries, each under a       *)
(* heading.  All of it is formatted into one work buffer of TMP_SIZE       *)
(* bytes, which is flushed to the file after an entry that leaves less     *)
(* than the section's reserve (WRITE_LOG_MIDDLE) and at the section's end. *)
(* Text is its length here.                                                *)
(***************************************************************************)
EXTENDS Naturals, Sequences

CONSTANTS
    TMP_SIZE,    \* bytes of the work buffer
    STAT_MAX,    \* counters
    CLI_CACHE,   \* entries of a client table of the backend
    MaxEntries   \* bound: entries of another table: messages and events in
                 \* the rings, entries of the cache, policies, servers

\* The program's buffer has 32768 bytes; the titles, all headings of a section
\* and one entry fit in far less.
ASSUME LogDumpAssumption ==
    /\ TMP_SIZE \in Nat /\ TMP_SIZE >= 512
    /\ STAT_MAX \in Nat /\ CLI_CACHE \in Nat /\ MaxEntries \in Nat

\* A section: the length of its title and of the heading of a table, its
\* tables, how many entries each may have, and whether it needs memory for a
\* copy of its data.  A table: the length of its shortest and of its longest
\* entry, and the argument of WRITE_LOG_MIDDLE.
Section(title, lead, tables, most, copies) ==
    [title |-> title, lead |-> lead, tables |-> tables, most |-> most, copies |-> copies]
Table(short, long, reserve) == [lens |-> {short, long}, reserve |-> reserve]

\* write_log_stat: the counters, with a reserve shorter than their lines.
StatSection == Section(30, 0, <<Table(18, 38, 10)>>, STAT_MAX, FALSE)

\* write_log_mlog, write_log_evtlog: the rings, copied first.
MlogSection   == Section(49, 0, <<Table(43, 163, 256)>>, MaxEntries, TRUE)
EvtlogSection == Section(53, 0, <<Table(259, 290, 296)>>, MaxEntries, TRUE)

\* write_log_cli of the front: the cache, IPv6 first.
FrontCliSection ==
    Section(31, 5, <<Table(53, 99, 128), Table(58, 75, 128)>>, MaxEntries, FALSE)

\* write_log_cli of the backend: clients of IPv6 and of IPv4, each upward and
\* downward, with reserves shorter than their longest lines.
BackCliSection ==
    Section(31, 37, <<Table(58, 104, 78), Table(58, 104, 78),
                      Table(63, 80, 48), Table(63, 80, 48)>>, CLI_CACHE, FALSE)

\* write_log_stat2: the policies, whose lines are copied whole.
Stat2Section ==
    Section(33, 5, <<Table(40, 169, 128), Table(40, 105, 128)>>, MaxEntries, FALSE)

\* write_log_svr
SvrSection ==
    Section(43, 5, <<Table(21, 111, 128), Table(26, 63, 128)>>, MaxEntries, FALSE)

\* log_dump: a section for each flag.
Sections == << StatSection, MlogSection, EvtlogSection, FrontCliSection,
               BackCliSection, Stat2Section, SvrSection >>

VARIABLES
    at,        \* "closed", "section", "entry", "done"
    flags,     \* the sections asked for
    sec,       \* the section, counted from 1
    table,     \* its table
    num,       \* entries of the table looked at
    tlen,      \* bytes in the buffer
    extent,    \* bytes of the buffer the last sprintf reached
    said,      \* bytes formatted in this section
    filed      \* bytes of this section in the file

fileVars == <<at, flags, sec, table, num, tlen, extent, said, filed>>

Sec == Sections[sec]

FileInit ==
    /\ at = "closed" /\ flags \in SUBSET DOMAIN Sections
    /\ sec = 1 /\ table = 1 /\ num = 0
    /\ tlen = 0 /\ extent = 0 /\ said = 0 /\ filed = 0

\* open_log and the work buffer; without either, or for no flag, there is no dump.
OpenLog ==
    /\ at = "closed" /\ flags # {}
    /\ at' \in {"section", "done"}
    /\ UNCHANGED <<flags, sec, table, num, tlen, extent, said, filed>>

\* n bytes are formatted behind those in the buffer, and a NUL.
Format(n) ==
    /\ extent' = tlen + n + 1
    /\ said' = said + n

SkipSection ==
    /\ at = "section" /\ sec \in DOMAIN Sections \ flags
    /\ sec' = sec + 1
    /\ UNCHANGED <<at, flags, table, num, tlen, extent, said, filed>>

\* The title and the first heading, at the start of the buffer.
BeginSection ==
    /\ at = "section" /\ sec \in DOMAIN Sections \cap flags
    /\ LET n == Sec.title + Sec.lead
       IN  extent' = n + 1 /\ tlen' = n /\ said' = n
    /\ filed' = 0
    /\ table' = 1 /\ num' = 0
    /\ at' = "entry"
    /\ UNCHANGED <<flags, sec>>

\* malloc of the copy fails: the function returns, its title is not written.
NoMemory ==
    /\ at = "entry" /\ table = 1 /\ num = 0
    /\ Sec.copies
    /\ sec' = sec + 1
    /\ at' = "section"
    /\ tlen' = 0 /\ said' = 0 /\ filed' = 0
    /\ UNCHANGED <<flags, table, num, extent>>

More == at = "entry" /\ num < Sec.most

\* WRITE_LOG_MIDDLE that flushes only a buffer that is full.
FlushFull(n) ==
    IF n > TMP_SIZE
    THEN tlen' = 0 /\ filed' = filed + n
    ELSE tlen' = n /\ UNCHANGED filed

\* WRITE_LOG_MIDDLE without its fwrite.
FlushLost(n) ==
    /\ tlen' = IF n > TMP_SIZE - Sec.tables[table].reserve THEN 0 ELSE n
    /\ UNCHANGED filed

\* WRITE_LOG_MIDDLE, with n bytes in the buffer.
Flush(n) ==
    IF n > TMP_SIZE - Sec.tables[table].reserve
    THEN tlen' = 0 /\ filed' = filed + n
    ELSE tlen' = n /\ UNCHANGED filed

\* One entry of the table.
Entry(n) ==
    /\ More /\ n \in Sec.tables[table].lens
    /\ Format(n)
    /\ Flush(tlen + n)
    /\ num' = num + 1
    /\ UNCHANGED <<at, flags, sec, table>>

\* The next table's heading.  The buffer is not flushed for it.
NextTable ==
    /\ at = "entry" /\ table < Len(Sec.tables)
    /\ Format(Sec.lead)
    /\ tlen' = tlen + Sec.lead
    /\ table' = table + 1 /\ num' = 0
    /\ UNCHANGED <<at, flags, sec, filed>>

\* The last fwrite of the section.
EndSection ==
    /\ at = "entry" /\ table = Len(Sec.tables)
    /\ filed' = filed + tlen
    /\ tlen' = 0
    /\ sec' = sec + 1
    /\ at' = "section"
    /\ UNCHANGED <<flags, table, num, extent, said>>

CloseLog ==
    /\ at = "section" /\ sec > Len(Sections)
    /\ at' = "done"
    /\ UNCHANGED <<flags, sec, table, num, tlen, extent, said, filed>>

Lens(s) == UNION {Sections[s].tables[i].lens : i \in DOMAIN Sections[s].tables}

FileNext ==
    \/ OpenLog \/ SkipSection \/ BeginSection \/ NoMemory
    \/ (\E n \in UNION {Lens(s) : s \in DOMAIN Sections} : Entry(n))
    \/ NextTable \/ EndSection \/ CloseLog

FileSpec == FileInit /\ [][FileNext]_fileVars

(***************************************************************************)
(* Properties                                                              *)
(***************************************************************************)

\* The longest entry of a section.
Longest(s) == CHOOSE n \in Lens(s) : \A m \in Lens(s) : m <= n

\* A section so short that the buffer holds all of it: it is never flushed.
Short(s) ==
    LET S == Sections[s]
        tables == Len(S.tables)
    IN  S.title + tables * S.lead + (tables * S.most) * Longest(s) < TMP_SIZE

\* How far an entry of table i may reach: the buffer was last left as full as
\* some table j up to then allows without a flush, and the headings from j to i
\* and the entry come behind.
Reach(s, i) ==
    LET S == Sections[s]
    IN  {TMP_SIZE - S.tables[j].reserve + (i - j) * S.lead + n + 1 :
            j \in 1 .. i, n \in S.tables[i].lens}

\* Whatever is dumped, a sprintf ends in the work buffer, or past it by no more
\* than the section's reserves fall short of its headings and one entry; and a
\* section that fits in the buffer as a whole stays in it.
OverrunBounded ==
    at = "entry" =>
       \/ extent <= TMP_SIZE
       \/ ~Short(sec) /\ \E e \in Reach(sec, table) : extent <= e

\* Nothing is lost or repeated between the buffer and the file: what a section
\* said is in the file or still in the buffer, and the flush leaves nothing over.
FileComplete == at \in {"section", "entry"} => filed + tlen = said
=============================================================================
