# SASAT in TLA+

Models, model-checking runs and proofs for SASAT, a static server load
balancer: a *front translator* in front of the clients, a *backend
translator* in front of each server, and the `sasat` command that controls
both. Everything here is translated from the C code under `src/`; the manual
(`src/documents/mslb-sasat-manual.pdf`) and the comments are used only for
what the program is *meant* to do.

## 1. The system

### Components, their state and their operations

| Component | Source | State | Operations |
|---|---|---|---|
| Distribution cache and lookup | `front/pol_lookup.c`, `front/policy.h` | per address family: entry pool, free list, hash buckets, the fixed entry `fix4/6`, `patrol_flag`, the sweep's static position | `get_pol_v4/6`, `policy_lookup4/6`, `clear_v4/6_cache`, `free_pol_cache4/6` |
| Policy and server tables | `front/pol_tbl.c`, `front/svr_tbl.c` | policies in file order, servers with MAC and status, hit counters | read a policy file line by line, create, destroy, initialise; `resolve_target_mac` |
| Front network thread | `front/front.c` | packet buffer, packet socket | select/recv loop, dispatch of frames, `proc_v4/6`, `proc_patrol`, cleanup handler |
| Command thread and reload | `front/command_proc.c`, `front/front_init.c`, `common/cmd_common.c` | `nt_info` (tid, `cancel_end`), `sig_flg`, Unix domain socket | command loop, SIGHUP, `update_policy`, `create_net_thread` |
| `sasat` command | `cmd/sasat.c` | its options, one temporary socket | up to three requests in turn, five seconds for each answer |
| Backend start-up and forwarding | `back/backend.c`, `back/back_init.c` | `flag[]`, enable flags, `svr_info`, `gw_mac_*`, `l_mode`, two packet sockets | `get_svr_info`, `marge_info`, `get_default_gw`, `get_connect_mode`, thread synchronisation, `proc_v4/6_in`, `proc_v4/6_eg_*` |
| MAC answers | `back/mac_resolution.c`, `common/arp_proc.c` | (uses the addresses and `gw_mac_*`) | ARP and neighbour advertisements: for the virtual address, by proxy, or with the gateway's MAC |
| MAC resolution | `common/rt_body.c`, `common/ping_body.c`, `resolve_mac` | a netlink socket per attempt, the ping socket | `get_target_mac`, `get_mask`, `send_ping`, three attempts |
| Client tables | `back/client_tbl.c` | four tables: entries, free list, hash chains, counters | `get_ci_*`, `cre_ci_*`, `get_free_ci_*`, `clr_ci_*` |
| Log rings and dump | `common/log_body.c`, `*/log.c` | `evtlog_data`, `mlog_data`, positions, sequence numbers, the trace switch; while dumping, the work buffer | `evtlog`, `mlog`, `trace_control`, the dump's sections |
| Checksum arithmetic | `common/checksum.h` | none | one's complement sums, the incremental delta |
| Common start-up | `common/common_init.c` | interface addresses, `vip_mode`, socket path, pid file | `get_interface_info`, `cre_ud_socket`, `init_pid`, `init_socket_if` |
| Properties file | `common/prop_body.c` | name/value list | read, look up |
| Utilities, statistics | `common/util_inline.h`, `common/stat.h` | counters | compare, hash, count |

### How they interact

* In the **front**, the network thread owns tables, cache and socket without a
  lock. The command thread changes them only in a reload: it cancels the
  network thread (`pthread_cancel`, deferred), polls `cancel_end` until the
  cleanup handler has set it, rebuilds the tables, and creates a new thread,
  whose start it polls in `wait`. Reloads come from a SIGHUP (a flag the
  command loop tests when its `select` returns without a request) or from a
  `sasat` request (a datagram).
* In the **backend**, main resolves the MACs, creates two network threads and
  holds them back until both have opened a socket, because each writes to the
  other's. Afterwards the ingress thread alone writes `svr_info`, the egress
  thread alone `gw_mac_*`; nothing is locked.
* All threads of a translator write the log rings, without a lock.

* On one **host**, translator processes and `sasat` processes share the path of
  the Unix domain socket and the pid file. Neither is locked, and neither is
  removed when a process ends.

### What is hard here, and what makes it correct

| Behaviour | Property that matters |
|---|---|
| Reload while packets are in flight (threads, cancellation points) | tables never used while they are rebuilt; one network thread; no socket left open |
| A restart of the thread, or the opening of the policy file, fails | the command is told so (it is not: see findings); the next one is still answered (it is not: see findings) |
| SIGHUP and requests at any moment of a reload | none is lost; what "complete" tells about tables and thread is what is there |
| Cache full, fixed entry, sweep that runs between packets | entries stay a partition of the lists; a cached decision is what a fresh lookup would decide |
| Client table full: cleared under its hash chains | a search ends, a client has one entry |
| MAC look-ups that fail, or succeed at the last try, while the kernel's table changes | no frame is sent with a MAC that was not found; a MAC that was found is kept; it is the next hop's; sockets are closed |
| Backend start: two threads that need each other's socket | neither receives before both sockets are open; the start ends |
| Threads that log at once, without a lock | the position comes back into the ring; calls that do not overlap lose nothing |
| Entries formatted into one work buffer | nothing is lost between the buffer and the file; an entry reaches past the buffer by no more than the reserves are short of, and not at all where they suffice |
| Starts, ends and crashes in any order | one translator is in service; `sasat` reaches the newest; "success" means that every request was handled and none refused |
| Lines that are incomplete, addresses that change | good lines keep their meaning; the addresses in use are the interface's |
| Answers written in place over the request, for several addresses | they say what was asked for, to who asked, and take nobody's address |
| Checksums updated along the way | what verified when it came verifies when it leaves |
| Counters that wrap | sums over policies and over servers agree |

`PROJECT.json` lists every hazard at its line, with the properties that cover
it, or the reason why none does.

## 2. The modules

| Module | Models | Composition |
|---|---|---|
| `Distribution` | the abstract promise: a packet goes to the backend of the first matching policy; no cache | refined by `PolicyCache` |
| `PolicyCache` | tables, cache, patrol, reload as seen by the network thread | `D == INSTANCE Distribution WITH ...` |
| `FrontTranslator` | the front's threads, reload protocol, SIGHUP, `sasat` requests | stands for `PolicyCache`'s tables by their state and version |
| `PolicyFile` | the policy file, line by line | makes the tables `PolicyCache` starts from |
| `ClientTable` | one of the four client tables, link by link | used by the backend's two threads |
| `BackendTranslator` | the backend's start, MAC resolution, forwarding | a packet's client is counted in `ClientTable`; a look-up, one step here, is `MacResolution` |
| `ConnectMode` | L2 or L3: `get_connect_mode`, `is_same_net` | decides what `Neighbour` answers with |
| `MacResolution` | one resolution through netlink and ping, three attempts | `resolve_mac` of the backend, `resolve_target_mac` of the front |
| `Neighbour` | what each side does with one frame: pass, answer by ARP or NA, nothing | frames that pass are the packets of `PolicyCache` and `BackendTranslator` |
| `Checksum` | the checksums of forwarded packets and of advertisements | `Neighbour`'s advertisements, both translators' packets |
| `EventLog`, `LogDump` | one log ring with its writers and its dump; the log file and its buffer | `MCLog` explores both |
| `Control` | processes: starts, ends, crashes, the socket's path, the pid file, `sasat` | |
| `Config` | properties, interface addresses, virtual addresses | |
| `MC*` | small instances for TLC | |
| `PolicyCache_proofs`, `FrontTranslator_proofs`, `ClientTable_proofs`, `BackendTranslator_proofs`, `MacResolution_proofs` | theorems about the module they are named after | |
| `Log_proofs` | theorems about `EventLog` and `LogDump` | |
| `Packets_proofs` | theorems about `Neighbour` and `Checksum` | |
| `Startup_proofs` | theorems about `Control`, `PolicyFile`, `ConnectMode` and `Config` | |

`MCStartup` (`Control`, `Config`, `PolicyFile`, `ConnectMode`), `MCPackets`
(`Neighbour`, `Checksum`) and `MCLog` (`EventLog`, `LogDump`) hold modules that
share no state. Each is explored while the others are still at their
beginning, so that the state spaces add up instead of multiplying. No
invariant relates one of them to another.

Some definitions that no `Next` uses stand directly in front of the definition
they vary (`WaitEndBySleep` before `WaitEnd`, and so on). They are what the code
would be with a plausible mistake in it; each shows that a property notices.

### State and actions against the code

**PolicyCache.** One variable per structure of `policy.h`: `pol` is
`lb_pol_head4/6`, `svrs` the server table, `cache` the contents of
`init4/init6`, `free` and `hash` the TAILQs as sequences of entry numbers, `fix`
the fixed entry, `ptr` the static position of `proc_patrol`. IPv4 and IPv6 are
twins in the source and one function of the family here. An address is the set
of its one bits, so `addr & mask` is an intersection. `GetPolHit`, `GetPolNone`,
`GetPolFill`, `GetPolFix` are the outcomes of `get_pol_v4`; `ProcPatrol` is
`proc_patrol`; `UpdatePolicy` is what a reload does to the tables. A handler is
one action because one thread owns all of it (checked, and proved, in
`FrontTranslator`). `out` records where the last packet went. Time stamps and
checksum deltas of an entry are left out.

**FrontTranslator.** `cmd` is the command thread's position and who called the
reload, `net[t]` the position of each network thread, `tid`, `cancel_end`,
`sockfd`, `wait`, `sig_flg` the program's own variables. Every step that another
thread could observe is an action of its own: the test of `sig_flg` and its
reset, `cancel_end = 0` with `pthread_cancel`, each poll, each stage of the
rebuild, and the three stores of `front_cleanup` (`CloseSocket`, `ResetSockfd`,
`ReportEnd`). A cancellation is acted upon only at `select`, `recv`/`write` or
inside a MAC look-up. `tbl` is "ready", "destroyed", "empty" or "unread" (the file
could not be opened), with the version the policy file had. Opening the file,
`pthread_create` and the new thread's socket may fail at any time, in every run;
`created` is what `create_net_thread` returned when last called, which
`update_policy` drops. `Answer` therefore is "complete" for every policy update.

**ClientTable.** `next`, `head`, `free` are the SLIST links themselves, because
the links are where the table goes wrong; a search is one step per entry.

**BackendTranslator.** `main` walks through `main()`, `pc[t]` through each
thread; `flag`, `svr`, `gw_mac`, `enable` are the program's variables, `sockets`
the interfaces whose `sockfd` is open, `pkt[t]` the packet in a thread's buffer,
`out` the last frame written. Receiving, rewriting (with a look-up) and writing
are separate steps, so that the two threads interleave in between.
The kernel's answer to a look-up is any MAC or none; for a server address that
is not configured it is none.

**MacResolution.** `at` is the line the thread is at in `get_target_mac` and its
callers, `hop` the next hop it has found, `mac` the caller's six bytes, `todo` the
table entries the dump has still to report, `fds` the descriptors that are open.
The kernel's neighbour table changes between any two steps, also in the
middle of a dump. `had` remembers which MACs the next hop had since it was
found, `lost` the descriptors nobody will close.

**EventLog.** A call is the loads and stores it makes of `pos`, `seqno` and the
record, each an action. What C leaves to the build is a choice: the order of the
record's fields, whether `pos` is loaded again for the increment, whether the
test uses the stored value or another load. The two rings are equal but for the
trace switch. **LogDump** takes text by its length: `tlen` is the fill of the
work buffer, `extent` how far the last `sprintf` reached. A section is its tables,
each with the length of its shortest and longest entry and the argument of its
`WRITE_LOG_MIDDLE`; the backend's client tables have up to `CLI_CACHE` entries, the
counters are `STAT_MAX`, the others `MaxEntries`.

**Neighbour.** `cf` is a configuration of one side (front; backend towards the
clients, "ingress"; backend towards the server, "egress"), `frame` one frame,
`answer` what becomes of it. A frame carries the fields the code tests or copies.
Each `proc_*_data` and what it calls is an operator named after it.
**Checksum** takes a packet as its sum: the two halves of the destination, the
checksum field, and the sum of the rest.

**Control.** `at[p]` is where a translator is in its start, `path` who has the
socket's path, `pidfile` whom the pid file names; "stale" is a process that is
gone, "empty" a file truncated and not yet written. `Gone` is every end of a
process, which leaves both files as they are. `cmd[c]` is one `sasat`, with the
requests it has still to send. A request is done, refused with an `r_code` (a policy
update by a backend, a trace value other than 0 and 1) or its handler returns without
having done it, which is answered OK (`Outcomes`, `Result`): `update_policy` when no
thread could be created, `log_dump` when it has no file or no buffer. **Config** is the properties list, the
addresses that `getifaddrs` returns and the virtual addresses from both;
**PolicyFile** the tables as they grow line by line; **ConnectMode** one decision,
of addresses as words, a word being the set of its one bits (of `W`).

## 3. The runs

| Run | Instance | Shows |
|---|---|---|
| `policy_cache` | 4 clients, one family, 2 buckets, 2 entries, 2 policy files | `CachePartition`, `CacheCoherent`, the refinement `ImplementsDistribution`; the sweep ends (`PatrolEnds`) and empties what lies ahead of it (`PatrolReclaims`) |
| `policy_stats` | 4 clients, 1 entry, counters modulo 2 | `HitsAgree` through hits, misses, fixed entry and wrap-around |
| `front_reload` | 2 thread identities, 1 command, 1 edit, 2 SIGHUPs, fairness; opening the file and restarting the thread may fail | `TablesReadyWhenUsed`, `NoSocketLeak`, `CompleteTellsLoaded`, `HupReloads`, `ReloadEnds`, `AnsweredUnlessHung` |
| `front_lost` | the same without edits and SIGHUPs | **violated**: `CompleteMeansReloaded`, "complete" is answered to an update that failed |
| `front_hang` | 2 commands | **violated**: `RequestAnswered`, the update after a failed restart hangs |
| `client_table` | 5 clients, 3 entries, 2 buckets | `FreeListIntact`, `OneEntryPerClient`, `InUseReachable` |
| `client_hang` | 4 clients, 2 entries, 2 buckets | **violated**: `PacketCounted`, a search does not end |
| `backend` | 2 families, 2 MACs, every configuration, both VIP modes, sockets may fail to open | `BothSocketsOpen`, `FramesHaveMac`, `EnabledReachServer`, `MacsStay`, `StartEnds` |
| `log` | 2 threads, a ring of 2, numbers modulo 4, 4 calls; a buffer of 512 bytes, client tables and counters of up to 3 entries, other tables of up to 5 | `PosHeals`, `SerialCallsKept`, `DumpInOrder`; `OverrunBounded`, `FileComplete` |
| `mac_resolution` | 2 MACs, 2 interfaces, 1 gateway, messages of others, 2 lost descriptors | `SocketsClosed`, `MacOfNextHop`, `ResolutionEnds` |
| `startup` | 2 processes (a front and a backend), 4 starts, 1 `sasat`, 2 loads of addresses, files of up to 3 lines, words of 2 bits | `OneTranslator`, `LastIsReached`, `SuccessMeansHandled`, `AddressIsCurrent`, `WellFormedKept`, `OneServerEach`, `ModeIsNet` |
| `packets` | every frame of the instance in every configuration; words of 6 values, 2 hops | `AnswerEchoes`, `NoAddressTaken`, `VipAnswered`; `HeaderVerifies`, `NaVerifies` |

The violated runs are disagreements between the code and what its comments, its
messages or the manual say; `PROJECT.json` quotes both sides under "findings".

### Bounds, and why they are enough

* *Cache.* Two entries for four clients: free list, one entry, both entries,
  and the fixed entry all occur, with two clients of one bucket and of two. Two
  buckets are the fewest for which a sweep has something before and something
  after its position. Two policy files disagree on every client and overlap, so
  that order matters. `MAX_RECV` 1 makes a patrol possible between any two
  packets; packets in a row are the patrol doing nothing.
  The families share nothing in the source, so one is enough here; the proofs
  are for any. Counters have their own run; in the others `CounterMod` 1
  removes them.
* *Reload.* Two thread identities are the old and the new thread, and reuse of
  an identity happens. Of two SIGHUPs the second comes before, during or after the
  reload for the first; a reload for the command can overlap both. One edit of the
  file separates old tables from new. One command is enough for what its answer
  means; the hang takes a second reload, after one that failed.
* *Client table.* More clients than entries, so that it is cleared again and
  again; two buckets so that chains can merge.
* *Backend.* Two families are what the program has; two MACs tell a kept
  address from a replaced one.
* *Log.* Two threads in a ring of two, four calls: the ring is overwritten twice,
  the numbers wrap around (modulo 4), and a call is overtaken by as many of the other thread as
  make the position leave the ring. The buffer of 512 bytes is the least the module
  allows: it holds a section's title, all its headings and one entry. Tables of three and
  of five entries fill it, so that flushes happen, and in the sections whose reserve is too
  short (the backend's clients, the policies) the buffer is overrun; as the program's 32 KB
  hold neither 256 entries of four client tables nor any number of policies. Three counters
  fit, as the program's counters do.
* *MAC resolution.* Two interfaces and one gateway make every dump report the next
  hop, another address and the other interface; two lost descriptors are a loss in
  an attempt and one outside. The attempts are the program's three.
* *Start-up.* Two processes and four starts: a process takes the place of one that
  is gone and of one that is alive, and is started again over its own stale files. Files of
  three lines: a bad line before, between and after good ones, and a key named
  twice. Words of two bits in one or two words: masks of 0, of a part, of one
  whole word and of more.
* *Packets.* A frame is complete in itself, so one frame shows all. Six values of
  a word: both representations of zero, and carries out of one and of two
  additions; a sum over four words is every 64-bit sum of such words.

### Fairness

`PolicyCache` assumes weak fairness of `ProcPatrol` only: the loop reaches it
after at most `MAX_RECV` packets, and `select` has a timeout of a second while a
sweep is requested. `FrontTranslator` and `BackendTranslator` assume weak
fairness of each thread, that is, that the operating system schedules it; the
polls (`cancel_end`, `wait`, `flag`) sleep and test again for ever, so a
condition that stays true is seen. `ClientTable` assumes it of the search, and
`MacResolution` of the thread that resolves: it runs, and the kernel answers each
request, with whatever answer or error.
Nothing is assumed of the administrator, of the `sasat` processes or of arriving
packets. `HupReloads` relies on every process sending one request: the command
loop tests `sig_flg` only when no request is waiting, so an endless stream of
them would postpone a reload (listed as a hazard).

The deadlock check is off where the program may stop or has nothing left to do:
in the runs of the front the process may have exited, or (which is the
point of `front_hang`) wait for ever; in `backend` likewise; in `log`,
`startup` and `packets` calls, starts and frames are bounded; in
`mac_resolution` the thread may be caught at a message that is not for it.

## 4. What is proved

Every invariant and every action property that a passing run checks, and the
refinement, is a theorem: it holds for every value of the constants, under the
assumptions named in the modules. `PROJECT.json` lists the theorems with the
properties they state; the lemmas they rest on stand in front of them.

The assumptions say what the C code or its configuration fixes:
`ThreadAssumption` (`NoThread` is no thread), `BackendAssumption` (the zero MAC is
not one the kernel finds), `EventLogAssumption` (numbers tell the slots of a ring apart),
`PolicyFileAssumption` (a line is a list of fields), `ConfigAssumption` (the built-in
defaults are pairs), `NeighbourAssumption` (a configuration is one of the three
sides, a virtual address is neither the host's own nor a multicast address, no neighbour
has this interface's MAC; a frame has the fields of its protocol),
`LogDumpAssumption` (the work buffer has 512 bytes at least), and that sizes are numbers. TLC evaluates them all in the runs.

**`PolicyCache_proofs`**: any addresses, backends, policy files, hash function,
number of buckets and of entries, any counters (`ConstantAssumption`: there is at least one
family, bucket and entry, the zero address is a backend, the zero MAC is no
MAC, the hash names a bucket).

* `TypeCorrect`: the types, in four groups of variables (tables, entries, lists,
  loop), one lemma each.
* `PartitionKept`: `CachePartition` is inductive with the types. The argument is
  about lists alone: what taking the first element and putting two lists together
  does to their members (`PartitionInit`, `PartitionFill`, `PartitionSweep`).
* `CacheInvariant`: `CacheInv` is inductive with both. `CacheCoherent` alone is
  not: a fill must know that the backend is in the server table
  (`BackendsListed`), that the entry it writes is in no bucket (the partition) and
  that the source is in no entry yet (`OneSource`). The key fact is
  `DecisionsKept`: counting, resolving and sweeping change neither a pattern nor a
  backend that is already resolved, and only resolved ones are cached.
  `CachedAsLookedUp`, `OneEntryEach` and `StatShowsUse` follow.
* `StatisticsAgree`: the sum of the policies' counters is stated as a list of
  subtotals (`AddsUp`), the last of which is the server's counter. Counting one
  packet adds one to every subtotal from its policy on and leaves those before
  it (`IncSum`), so the step needs no induction over the policies.
* `Refinement`: `PolicyCache` implements `Distribution`. A hit maps to `Known`
  because the cache is coherent; a miss to `Known`, `Unknown` or `Unmatched`; a
  reload to `Replace`; a patrol stutters.

**`FrontTranslator_proofs`**: any number of threads, commands, edits and
signals, restarts that succeed and restarts that fail, policy files that can and cannot
be opened.

* `TypeCorrect`: one lemma for each part of `TypeOK`, as each step changes few.
* `ReloadCorrect`: `ReloadInv` is inductive. `TablesReadyWhenUsed` is not:
  nothing in it says why no thread is alive when the tables are destroyed.
  `ReloadInv` adds what the command thread knows at each of its points: while it
  rebuilds, every thread is dead; while it waits for a start, the only live
  thread is the new one and `wait` tells how far it is; a cancellation is pending
  only while its end is waited for; `cancel_end = 1` at that point means that the
  thread is gone; a live thread is the one `tid` names.
  The steps are grouped by who takes them (`ReloadOutside`, `ReloadUpdate`,
  `ReloadNet`).
* `TablesSafe`, `SingleNetThread`, `SocketsClosed` follow from `ReloadInv`. For the last it
  says what of `open` and `sockfd` is left at each of the three points of the cleanup
  handler, and that all of them lie before the report the command thread waits for.
* `CompleteReloaded`: the answer "complete" is an action, so that the proof says
  what is known when it is taken. `RequestInv` ties the caller of a reload to a
  request whose version the file has reached; `LoadedInv` says that from the
  loading on the tables are as new as that request; `ServedInv` that between two
  reloads a network thread is alive exactly if the last one could create it. Nothing is
  assumed of the restarts. The theorem is about `CompleteTellsLoaded`, what the answer does
  tell; that a reload has succeeded (`CompleteMeansReloaded`) it does not tell, as
  `front_lost` shows.

**`ClientTable_proofs`**: any clients, entries, buckets and hash function.

* `TableInvariant`: `FreeListIntact` and `OneEntryPerClient` are not inductive,
  because an insertion relies on the search having seen every entry of the client's
  bucket, over links of which some are stale. `ChainsLinked` says which are not:
  entries are taken in descending order, so the smaller of two entries in use is the
  newer; a head in use is the newest entry of its bucket, and a link leads to the next older
  one. What a clear has left behind comes after the oldest. `SearchAhead`
  says that a search has not passed the entry it looks for.
* `FreeListKept`, `ClientOnce` follow. `InUseFound` needs that following next older
  entries reaches each of them: the closest entry that has been reached is the
  greatest of a bounded set of numbers (`Greatest`).

**`BackendTranslator_proofs`**: any families, any MACs, with or without failing
creations.

* `BackendInv`: `TypeOK`, `StartInv` and `MacInv` together are inductive.
  `StartInv` says which sockets main has seen to be open; `MacInv` what a thread
  relies on between receiving and writing (a family in the buffer, a MAC that is
  still valid), and that nothing was found before main looked.
* `SocketsReady`, `MacsFound`, `MacsKept` follow from it; `EnabledServed` needs
  `ServerInv` in addition, which carries what `marge_info` established.

**`MacResolution_proofs`**: any addresses, gateways, interfaces and MACs.

* `DescriptorsAccounted`: `SocketsClosed` with the types.
* `MacIsOfNextHop`: `MInv` says that from the moment a next hop is known the MAC in
  the caller's memory is either still zero or one the hop had since. The
  zeroing before the request is what it rests on.

**`Log_proofs`** (`EventLog`, `LogDump`): any set of threads, ring and modulus
of the numbers; any size of the buffer and of the tables.

* `PositionHeals`: `PosHeals` is inductive with the types, for every choice the
  build may make of the loads.
* `SerialKept`: while calls do not overlap, the ring at each point of a call is what
  `Kept` says of the number of calls, but for what this call has still to
  store. A record changes `Kept` for its own slot (`KeptThere`) and for no other
  (`KeptElsewhere`); both are statements about remainders.
* `DumpOrdered`: a dump that nobody disturbs copies the ring as `SerialKept` knows it.
  Only the slot of the last record has its number (`NewestOnly`, as the numbers tell the
  slots apart), so the search finds it, and the slots behind it hold the records in their
  order (`DueAt`).
* `FileKept`, `BufferKept`: `FileInv` adds to the two properties how full the buffer may be:
  as full as some table up to now may leave it without a flush, and the headings since
  (`Level`), as a heading is not flushed. `Reach` is what an entry behind that can come to.
  In a short section all that is still to come fits (`ShortRoom`).
* `ReservesSuffice`: for the messages, the events, the frontend's cache and the servers
  every number in `Reach` is within the buffer, so that these never leave it. The reserves
  of the counters, of the backend's clients and of the policies are too short for that; the counters are few
  enough to fit as a whole.

**`Packets_proofs`** (`Checksum`, `Neighbour`): any word of more than three values, any
sums, any number of forwardings; any configuration and any frame.

* A sum verifies when it is positive and a multiple of B - 1 (what folding to all
  ones means: B is 1 modulo B - 1). `Halves` and `FoldWord` say that a fold keeps
  the value modulo B - 1, `WordsOf` that the sum of four words does, `DeltaWord` and
  `Add16Word` that the delta is the difference of the addresses and that adding it to the
  checksum does not leave the word.
* `ForwardedVerifies` and `AdvertisedVerifies` follow from the invariant `SumInv`.
* `AnswersEcho` and `AddressesSpared`: one lemma for each handler (`ArpReplyOK`, `NaVipOK`,
  `MacResolveOK`, `ArpEgressOK`, `NsEgressOK`, ...), that what it answers echoes the
  request and takes no address; `UnicastOK`, `ProcRecvDataOK` and `ProcEgressDataOK` put them
  together as the dispatch does. `ArpTurned` is about the order of the copies, as the reply
  is written over the request it is made from.
* `VipFound` follows a well-formed request through every test of the dispatch.

**`Startup_proofs`** (`Control`, `PolicyFile`, `ConnectMode`, `Config`): any
number of processes, commands and starts; any files, addresses and lists.

* `OneInService`: `PidInv` adds to `OneTranslator` that a start which is past the check
  has nobody else in service, and that with starts that do not overlap the one under way is
  the last.
* `NewestReached`: `PathInv` extends `LastIsReached` from the bind on.
* `SuccessIsHandled`: `CmdInv` accounts for each request of a `sasat` that is under way: it is
  still to be sent, was done, or its handler returned without (`CmdOK`); an answer that was received is
  the one to the last request, and a request in a queue is one its sender has asked for (`QueueOK`),
  also when the sender has given up meanwhile. A refused request never ends in success.
* `PoliciesOfFile`, `ServersShared`: `PolInv` says of the lines read so far what the properties
  say of the file, and that the policies are in the order of their lines.
* `ModeOfNetworks`: each bit of an address has one word and one place in it (`BitPlace`,
  `BitWord`), and `is_same_net` compares just the bits under the mask (`SameNetBits`).
* `AddressesCurrent`: the loops over the lines of the properties file and over the list of
  interface addresses are recursive functions (`Parsed`, `Found`). That such a function
  takes the step its definition says is proved first (`ParsedSteps`, `FoundSteps`); what it has after
  place i (`LinesParsed`, `AddressesFound`) then by induction over the places, as "a set of
  places without a least element is empty" (`Places`). `SettingIs` turns "the first entry of the list
  that has the key" into "the last line of the file that has it".

**Only model-checked.** Liveness: `PatrolEnds`, `PatrolReclaims`, `HupReloads`,
`ReloadEnds`, `AnsweredUnlessHung`, `StartEnds`, `ResolutionEnds`. Fairness and ENABLED are
out of the prover's reach.

## 5. What is not modelled

* The system settings (`sysctl` values, signal mask), the clock and the time stamps,
  the statistics other than the hit counters, usage and error texts: input and
  output, or values that no part reads back.
* Frames too short for their headers, and failing allocations except those of a
  dump's buffer and of the rings' copies. The `malloc` of the backend's client section,
  whose result is not tested, is left out too.
* Text: a field of a file is what the code makes of it, an entry of the log is its
  length, a netlink message its meaning.
* The VLAN code, which is compiled out (`#if 0`).
* The hash functions: a constant function of the model.

## 6. Divergences met while modelling

Three are shown by runs (`client_hang`, `front_hang`, `front_lost`). Others are part of the models,
as the code has them, and were read off the source:

* Using up the cache during a sweep does not delete all of it, as the manual has it (p. 25,
  `front.c:368`): what lies behind the sweep's position stays.
* `pthread_create` returns a positive error; `back_init.c:128` tests for a negative
  one, and main waits for a thread that was never created (`backend` assumes that creation succeeds;
  with `CreateMayFail` TRUE it does not end).
* A family that `marge_info` disabled is forwarded all the same once the other family's server is
  resolved (`backend.c:279`), which is why `EnabledReachServer` speaks of enabled families.
* A second start that is refused has taken the socket's path from the running
  translator by then (`common_init.c:444`, the comment at `:515`); `fctl restart` does not
  wait for the end of the old process. `LastIsReached` and `OneTranslator` therefore
  speak of the last start, and of starts that do not overlap.
* The second request of one `sasat` fails (`sasat.c:231`: `mkstemp` has replaced its
  template); `sasat -l` with an unknown name succeeds and does nothing.
* "sasat command complete" is also said of a dump whose file or buffer was not to be had
  (`front/command_proc.c:63-73`), which is why `SuccessMeansHandled` tells what was handled
  from what came of it.
* `rtsock_talk` looks at a message that is not its answer for ever (`rt_body.c:480`); `get_mask` leaves
  its socket open when it succeeds (`rt_body.c:236`), `rtsock_open` when its set-up fails.
  They are the exceptions `ResolutionEnds` and `SocketsClosed` name.
* `get_connect_mode` asks for the egress mask of an IPv6 address with `AF_INET`
  (`back_init.c:270`), so that the masks compared need not belong to the addresses.
* A dump that does not find its first record starts one past the ring
  (`log_body.c:237`, `:311`). The reserves of the counters, of `write_log_stat2` and of the backend's
  client section (78 and 48 bytes, lines of up to 104 and 80) are less than their longest
  line. The client section has up to 256 entries in each of four tables and does not fit in
  32 KB, so that the buffer can be overrun there and in `write_log_stat2`;
  `OverrunBounded` says by how much.
* A policy line with too few fields, or one `inet_pton` refuses, becomes a policy of
  whatever was on the stack (`pol_tbl.c:176`); a last line without a newline is
  dropped by both parsers. `WellFormedKept` speaks of the other lines.
* A properties file without `vip_mode` means mode 0, no file at all mode 1.
* Addresses that an interface has lost stay in use (`common_init.c:189`).
* `get_icmp6_ns` compares the payload length in network order
  (`arp_proc.c:182`), so that lengths of 256 and more may look short; the third look-up of the
  gateway's MAC is stored and not answered with (`mac_resolution.c:248`); unicast
  ARP is answered by the front also without a virtual address (`front.c:286`).
* After a failed restart the gratuitous ARP is written to descriptor 0.

## 7. Plan

Left, in this order:

1. *Composition.* `MacResolution` as the refinement of the one-step look-up of
   `BackendTranslator` and `PolicyCache`; `ClientTable` as the refinement of a map from
   clients to counters.
2. *An abstract reload service* that `FrontTranslator` refines: requests,
   signals and the version that is served.
3. *Larger instances.* Three writers of a log ring, two `sasat` processes.
