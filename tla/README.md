# darkstat in TLA+

darkstat captures packets from network interfaces, keeps traffic statistics per
host, protocol and port, and serves them over HTTP. It runs two processes: the
main one, a single-threaded event loop around `select`, and a child that does
reverse DNS lookups; a third, which started them, waits until they are ready.
Signals arrive anywhere. This directory models the parts
with state, model-checks them with TLC and proves some of the results with
TLAPS. Paths below are relative to the repository's `src/`.

## 1. Inventory

| part | state | operations | interacts with |
|---|---|---|---|
| main loop, signals (`darkstat.c`) | `running`, `reset_pending`, `export_pending` | signal handlers; turn of the loop; shutdown | calls everything else in a fixed order: export, reset, `graph_rotate`, `cap_poll`, `dns_poll`, `http_poll` |
| accounting (`acct.c`) | totals; pointers held across calls | `acct_for` | called by `cap_poll` for each packet; calls graphs, daylog, hosts database |
| hosts database (`hosts_db.c`) | hash table of hosts, each with tables of protocols and four kinds of ports | find, insert, rehash, reduce, reset, import, export, pages, event log | accounting inserts; DNS names hosts; pages read it and queue lookups |
| graphs (`graph_db.c`) | four rings of bars, positions, `last_real` | account, rotate, resync, reset, import, export | accounting, main loop, pages |
| database file (`db.c`) | the file | export, import | hosts database and graphs, upon a signal, at start and at exit |
| reverse DNS (`dns.c`) | parent: `ip_tree`, socket; child: queue | `dns_queue`, `dns_poll`, `dns_stop`; `dns_main` | two processes and a stream socketpair |
| web server (`http.c`) | connections with state, request, header, reply, idle time | `http_fd_set`, `http_poll`, `http_stop` | main loop's `select`; pages read the databases |
| capture (`cap.c`), decoding (`decode.c`) | pcap handles | `cap_start`, `cap_fd_set`, `cap_poll`, `cap_stop` | main loop; feeds accounting |
| daily log (`daylog.c`) | today's counters | account, rotate at midnight | accounting |
| local addresses (`localip.c`) | list per interface | refresh | accounting's direction |
| messages (`err.c`) | a byte in a pipe | lock, unlock; `err` ends the process and unlinks the pid file | all processes |
| start-up (`conv.c`, `pidfile.c`) | lifeline pipe, pid file | daemonize, drop privileges | starter, daemon and DNS child |
| clocks (`now.c`) | cached real and monotonic time | update, convert | everything |
| sorting (`hosts_sort.c`) | none | partial quicksort | reduction, host list |
| pages (`html.c`, `hosts_db.c`), strings, addresses, trees, queues, browser script | none of interest | | |

What is hard here, and what makes each part correct:

* **Main loop.** A handler may run between any two statements. An export that
  was asked for must save everything that was there; a reset must not discard
  what no export has; a shutdown must not be held up.
* **Accounting.** `acct_for` holds bucket pointers while it looks up others in
  tables that shrink when full. No pointer may dangle, the tables stay bounded,
  and the counters agree with each other.
* **Hash tables.** A rehash changes the hash function; a reduction removes by
  rank, with ties. Every key is found, only the largest stay.
* **Graphs.** The clock jumps forward and back; the program restarts with old
  positions. Each ring must be a sliding window over recent time.
* **Database file.** The export overwrites the only copy, and may be cut short
  anywhere. A successful import must mean the data is that of an export.
* **Reverse DNS.** Hosts are evicted and return while they are looked up, the
  socket fills up, the child dies. One lookup per address at a time, each is
  answered, shutdown gets past the child.
* **Web server.** Requests and replies go in pieces, clients stall. Clients get
  what the header announces and no connection stays for ever.
* **Processes.** Three of them share a pipe, a lifeline, a socket and the name
  of a file, and each may fail or be killed at every step. Whoever starts darkstat
  must learn how that went, and nobody may stay behind.
* **Capture.** Packets arrive, addresses change and midnight passes at any
  moment of a turn. Everything that waits is dispatched, told apart by current
  addresses and counted in the right day.
* **Decoding, sorting.** Pure functions with delicate limits: unsigned
  lengths; the parts of an array that need not be sorted.

`PROJECT.json` lists each hazard at its line with the properties aimed at it.

## 2. Modules

| module | models | what corresponds to what |
|---|---|---|
| `MainLoop` | `main`'s loop, signal handlers, shutdown | `pc` is the statement the loop is at, one action per statement that a signal may fall before or after; the two databases are the sets of packets they count |
| `Dns` | both processes of `dns.c` | `main_pc` is the call the loop is in, `child_pc` the place in `dns_main`; `ip_tree`, `queue` and the socket's directions keep their names |
| `GraphDb` | `graph_db.c` | `bars`, `pos`, `last_real` as in the code; `phase` says whether the first rotation has run |
| `GraphWindow` | nothing: the abstract specification of `GraphDb` | a window, newest unit first, that slides forward |
| `HashTable` | the hash table of `hosts_db.c` | chains as sets, bucket by `hash_func`; `bits`, `count` as in the code |
| `TopTable` | nothing: the abstract specification of `HashTable` | a map from keys to totals that may be cut to its largest |
| `Acct` | `acct_for` and the tables it uses | one action per step between two look-ups; `hs`, `hd` are its pointers, as the addresses of the hosts |
| `Http` | connections of `http.c`, the part of the loop around them | one action per `http_fd_set`, return of `select`, accept and step of a connection; `client` is the other end |
| `DbFile` | `db.c` with the import and export code of `hosts_db.c` and `graph_db.c` | the file is a sequence of items, written and read one per action, of which the last may be torn; `want` is the stack of what the import functions have yet to read. The tables of a host have the code's limits: `ports_max`, which each start may be given anew, and `ports_keep` derived from it for ports, the constants of `host_get_ip_proto` for protocols; `find_or_insert` cuts a full one down, and the assertions of `hashtable_reduce` and of the export lead to `phase = "aborted"` |
| `HostEvents` | the sessions of hosts that `/json` reports | a host is the fields that `host_event_update` reads and writes; one action per listing, packet, eviction and tick of the clock; `listed` is when all hosts were listed last, and time does not go on for more than `ListSecs` without it |
| `Processes` | `main` outside of its loop, `conv.c`, `pidfile.c`, `err.c`, `dns_init` and `dns_stop` | `pc` is the statement each of the starter, main and dns is at, `msg` where it is in `verbosef`; `lockpipe`, `lifeline`, `dns_sock` and `pidname` are what they inherit from each other |
| `Capture` | `cap.c`, `localip.c`, `daylog.c`, the clocks of `now.c` | `pc` and `cur` are where `cap_start` or `cap_poll` is; `local_ips` keeps its fields, and the daily log's counters are the packets in them |
| `Decode` | `decode.c` | one operator per decoder, from what the headers say and how much was captured to whether it is accepted and how far it was read |
| `QSort` | `hosts_sort.c` | one operator per loop, `a`, `n`, `left`, `right`, `pa` to `pd` as in the code; used by TLC only, as it is recursive |
| `DnsProofs`, `AcctProofs`, `CaptureProofs`, `ProcessesProofs`, `GraphDbProofs`, `DbFileProofs` | theorems about the module of that name | those of `Decode` are in `CaptureProofs` |
| `HostsDbProofs` | theorems about `HashTable` and `HostEvents` | both are extended, which is why the specification of `HashTable` is called `TableSpec` |
| `EventLoopProofs` | theorems about `MainLoop` and `Http` | likewise; that of `MainLoop` is called `MainSpec` |
| `MC*` | the instances for TLC | |

The modules describe the same loop from different sides. `MainLoop` sees the
databases as sets of packets; `Acct` opens up accounting and takes hash tables
to be maps, which is what `HashTable` shows of them (`ImplementsTopTable`);
`DbFile` opens up the `db_export` that is one step of `MainLoop`; `Dns`, `Http`
and `Capture` keep only the order of calls of the loop. `Processes` is what is
around it: to it the loop is one statement, as the DNS child's work is, which
`Dns` opens up. `Capture` uses `Decode` for what a packet is accounted as, and
`MCHashTable` checks the sort by which `HashTable` finds its cutoff. Two refinements are checked:
`GraphDb` implements `GraphWindow`, and `HashTable` implements `TopTable`.

In every module, an operator whose comment says "As f, but ..." is not used by
the specification: it is a plausible mistake in `f`, with which one of the
properties fails. `PROJECT.json` ("mutants") says which.

## 3. Runs

| run | shows | bounds |
|---|---|---|
| `dns` | `ip_tree` is exactly the outstanding and lost lookups; no address is asked twice at a time; a reply never meets a host that has a name; lookups end; so does the program when told to | 3 addresses, 1 message per direction of the socket |
| `main_loop` | no request is cleared unserved, nothing is discarded unsaved or lost at exit, requests and shutdown end | 2 packets, 3 signals |
| `processes` | messages do not mix; the pid file names the daemon while it runs and is gone afterwards; the starter ends and reports what happened; nobody stays behind when the daemon stops or dies | all options, an old pid file or none, failures anywhere, 2 signals from outside |
| `lock_lost` | *violation*: the shutdown hangs in a message | as above, no signal but `dns_stop`'s own |
| `capture` | each turn dispatches what waits; addresses are current; the daily log has every packet once, in its day; decoders stay within what was captured, and the computed snaplen is enough | 2 interfaces, 2 packets, days of 2 s, real time 1 to 3 in any order, 2 changes of addresses or state; every header and link type with frames of 0 to 130 bytes |
| `graphs` | the rings implement the sliding window as the clock runs, stops, jumps and is set back, across resets, exports and restarts | rings of 3 bars of 1 s and 2 bars of 3 s, times 1 to 12, bars of at most 1 byte; no gap as in `graphs_gap` |
| `graphs_gap` | *violation*: a forward step of nearly a whole turn | as above |
| `table` | the table finds all, counts right, keeps within its limit, never fails its assertions and implements the map; `allow_reduce` is chosen at the start, so both kinds of tables are covered. The partial sort puts what is read where a full one would | 6 keys, limit 5, kept 2, totals up to 3; all arrays of 0, 1, 5, 7 and 8 elements with 3 values, and all calls |
| `acct` | no dangling pointer, bounded tables, counters that agree | 4 addresses, `--hosts-max` 2, `--ports-max` 2, 4 packets, an empty or an oversized import |
| `http` | clients get a prefix of a reply that its header describes; no invalid state, no assertion fails; every connection ends | 2 connections, header and page of 2 cells, requests of up to 3 cells, idle time 2 s |
| `db_file` | a successful import has the hosts of the last export, a failed one leaves nothing; the assertions on the sizes of tables fail only at `--ports-max` 0 and 65536 | 2 hosts, 2 packets in a run, 2 clock offsets, all record versions; 3 ports and 2 protocols stand for 65536 and 256, `--ports-max` is 0 to 3, `--ports-keep` 1 |
| `host_events` | sessions of a host do not overlap and leave no traffic out, if the clients agree on `event_close_secs` and list all hosts that often | 2 hosts, imported or not, 7 s, sessions and listings of 2 s, pages of 1 host |

Why these bounds are enough:

* `Dns`: three addresses allow one in each direction and one in the child's
  hands; `SockMax` 1 makes both directions fill up at once, which is where
  requests are lost and the child blocks. The proofs remove both bounds.
* `MainLoop`: three signals are one of each kind, or a second one in the middle
  of serving the first; two packets are one before and one after a request.
  The proofs remove both.
* `GraphDb`: the coarse ring turns once in 6 s, the fine one in 3 s; twelve
  seconds let either turn, overtake the other and turn again. `localtime` has a
  constant offset and units that divide evenly.
* `HashTable`: the table starts with one bit and doubles at 80%, so six keys
  double it twice; limit 5 lets a reduction fall on either side of a rehash.
  Totals up to 3 give ties with the cutoff at each rank.
* `Acct`: with a limit of 2 every packet between new hosts reduces. Packets
  go from each address to each, itself included, and with ports in both
  directions; four of them fill a port table and reduce it once more.
* `Http`: two cells are the least that can be cut. The first request is
  complete at its end; the second goes on after its blank line, so that it may be
  too long, or never be answered. Two connections contend for the
  shortest timeout.
* `DbFile`: two hosts, so that a file may break off within, between and after
  them, and a restart with another offset between the clocks. There are three TCP
  ports: one in the old file, the other two in the packets. So a table may get two keys
  and be exported and imported with them, or be cut down by an import with
  `--ports-max` 1; with 3 and all three ports it meets the assertion of the export;
  with 1 and 2 packets cut it down; with 0 nothing is counted, and a port in the file
  meets the assertion of `hashtable_reduce`. Of the two protocols one is
  `IPPROTO_INVALID`, as 254 is of 256. A third packet would only repeat.
* `HostEvents`: seven seconds are enough for a session to be opened, closed,
  opened and closed again. Imported hosts were last seen never, before the machine
  was started, lately and (a real clock that was set back) in the future. A page
  of one host leaves the other as it was. The proofs remove all bounds.
* `Processes`: there are never more than three processes, and no counter other
  than that of the signals, each of which may kill any process anywhere or, once main
  has its handlers, be one that they catch; a second signal is the one that follows a shutdown.
* `Capture`: two interfaces, so that packets arrive at the one while the other
  is looked at; two packets, one of each direction, so that the day may change
  between them. Two changes let an interface gain and lose addresses, or go down
  after its addresses changed. No header takes more than 14 + 8 + 40 + 20 bytes,
  and 96 is the least snaplen on Linux, so that 130 bytes are more than any test
  in `Decode` tells apart.
* `QSort`: the sort's own limits, 7 and 40, are 3 and 7 in the run, so that
  arrays of 8 elements go through the median of nine, two levels of partitions
  and the insertion sort. Three values are less, equal and more than the pivot.

### Fairness

* `Dns`: the loop, the child and the delivery of a SIGINT that was sent go on.
  `cap_fd_set` gives `select` a timeout on Linux, so the loop turns although
  it does not watch the DNS socket; `getnameinfo` returns, as
  resolvers give up in the end. Nothing is assumed of hosts, requests or signals.
* `MainLoop`: the same loop, the same timeout.
* `Processes`: each process goes on, a SIGINT that was sent is delivered, a
  process that ends is seen to have ended. Failures and signals from outside need
  not happen. `lock` is strongly fair: the pipe wakes its readers in the order in
  which they came, so one of them does not starve while others print.
* `Http`: time passes; what can run does; `select` returns when a request is
  there or its own timeout is over, and is not interrupted for ever. Here the run
  is *without* the capture's timeout (`linux = FALSE`), where it matters that
  `http_fd_set` computes one. Clients, packets and new connections may do
  nothing at all.

### Findings

* `graph_db.c:104`: after a quiet period of almost a full turn a ring keeps its
  bars (run `graphs_gap`).
* `err.c:152`: `dns_stop` kills a DNS child that may be printing a message; the
  byte of the lock is gone with it, and the main process waits for it in its
  next message, before the last export (run `lock_lost`, with `--verbose`).

More was seen while modelling and has no run of its own:

* `hosts_db.c:728`: `--ports-max 0` makes the import of a host with ports reduce
  an empty table, which fails the assertion.
* `hosts_db.c:1951`: with `--ports-max 65536`, which the command line accepts, a host
  that has used all 65536 ports fails the assertion of the export, after the file was
  emptied. `AbortsOnlyAtTheEnds` says that these two are the only ways. For
  protocols (`hosts_db.c:1917`) there is none: the tables' limit of 512 never cuts them
  down, but 254, `IPPROTO_INVALID`, is not counted, so there are at most 255.
* `db.c:188`: short reads of numbers count as success, so that a file that was cut
  within its last number is imported. `db_file` shows that this never reaches the
  hosts, because something must follow them.
* `hosts_db.c:1351`: `event_close_secs` comes with a request, the session that it
  closes belongs to the host: two clients that ask with different values close a
  session and open it again, as of before it was closed, without any traffic. The
  assumption `OneClient` of the theorem excludes that, the run `host_events` has one
  value for all requests, and no property covers clients that disagree.
* `graph_db.c:218`: only `graph_resync` turns a leap second (`tm_sec` 60, in time
  zones that count them) into 59.
* `pidfile.c:55`: the name is set before the file is created, so that a darkstat
  that refuses to overwrite another's pid file unlinks it; and `err` in the DNS
  child unlinks that of the running daemon. `PidfileIsRight` makes an exception
  for both (`erred`).
* `conv.c:250`: the starter reports success for a daemon that is about to exit, or
  was killed (`WEXITSTATUS` of a signal is 0). A SIGTERM before the handlers are
  installed, or a SIGKILL or SIGHUP at any time, leaves the pid file behind.
* `localip.c:138`: an interface that loses all of its addresses keeps the old ones
  in the list, as `num_addrs` is not lowered; `is_valid` only decides about messages.
* `cap.c:433`: one interface that goes down ends the program, with packets of the
  others still in their buffers; `cap.c:196`: the second opening of an interface is
  not waited for.
* `daylog.c:114`: the last line has the time of stopping, also if its packets are
  of the day before.

Two other things that look odd are as the specification has them, and not counted as
findings: a reduction removes everything that ties with the cutoff, so it may
leave fewer than `--hosts-keep` (`TopTable` allows it), and `hosts_db_reduce`
runs before a packet is looked up, so that a full table is reduced by known
hosts too.

## 4. Proofs

TLAPS checks these for all values of the constants that satisfy the modules'
assumptions:

* **`DnsProofs`**: `TypeOK`, `AskedOnce`, `TreeIsOutstanding`,
  `OutstandingHasNoName`, `ChildNeverSpins`, for any addresses and any socket
  size. The inductive invariant `Inv` adds `ChildShape`: what the child holds
  given where it is. Without it `AskedOnce` is not inductive: a child that died
  with a queue could not be told from one that is working. The
  argument moves an address from the socket to the queue, the child's hands, the
  socket back and out of the tree; each move keeps the four places disjoint.
* **`EventLoopProofs`**, on `MainLoop`: `DiscardedIsSaved`, `RequestIsServed`, `ResetIsServed`,
  `NothingLostAtExit`, for any packets and any number of signals.
  `InBetween` is the strengthening: where the loop can be when a reset is
  pending and no export is, and what is then saved already. It is what makes
  "export before reset" enough.
* **`AcctProofs`**: `NoDangling`, `HostsBounded`, `HostsAddUp` and
  `PortsWithinProtos`, for any packets, limits and import. In three layers:
  * `Inv` follows the pointers (`PointersOK`) and the room left in the table at each
    step (`Room`); it rests on a lemma that the reduction, which keeps what is above
    the cutoff, keeps at most `keep` (`ReduceKeeps`), and on the existence of a
    cutoff (`CutoffExists`), by the least total that fits.
  * `SumInv` adds `Balance`: at each step the bytes in the hosts and those that are
    gone, with what of the current packet is yet to be counted (`Yet`), are the
    total. The sum over a table is a recursive function on the subsets of its keys
    that picks one key after the other; that there is such a function, that any
    order gives the same (`FoldAdds`), and what a changed, added or dropped entry
    does to it (`SumChange`, `SumSplit`) are lemmas. They are inductions over
    cardinalities, by the least counterexample (`Least`, `Induction`).
  * `FitInv` says of each host that its protocols fit in its bytes and its ports in
    their protocol *with room for what the next steps will count* (`ToProtos`,
    `ToPorts`); the property itself is not inductive, as it holds between packets
    only. The four look-ups of ports use up the room one by one (`Left`), and a port
    table that is reduced on the way only loses bytes (`PortFound`).
    `PortsWithinProtos` has a hypothesis: the hosts that may have been imported fit
    themselves. They do if an earlier run exported them: exports happen between
    packets, an import is what was exported (`ImportedHostsAreExported` of `DbFile`),
    and it inserts ports with leave to reduce, so that a smaller `--ports-max` is kept.
* **`HostsDbProofs`**, on `HashTable`: `SearchFindsAll`, `CountIsExact`, and `HashTable`
  implements `TopTable` (`ImplementsTopTable`), for any keys, limits and packet lengths.
  The invariant has three parts: each bucket is in the chain of its own hash with
  the present coefficient (`Placed`), no key has two (`Unique`), and `count` counts
  them (`Counted`). `Placed` says that the table is a function of the set of its
  buckets, `Rehashed(Buckets(table), bits)`, so that doubling, cutting down and
  inserting are all changes of that set; of the hash function only its range is
  used, hence that the coefficient does not matter is proved and not assumed.
  `CountIsExact` needs `count_max # 0`: `hashtable_reduce` of an empty table would fail its
  assertion. For the refinement, what a reduction keeps is a possible result of that of
  the map (`Abstract!Reduced`), and the map of totals follows the set of buckets.
* **`HostsDbProofs`**, on `HostEvents`: `TypeOK` and `StatusAgrees` for any hosts and clients;
  `NothingMissed` if no client's `event_close_secs` is below the time between
  listings of all hosts (`ListedOften`); `SessionsDisjoint` if all clients ask with
  the same one (`OneClient`).
  `HostSteps` reduces every step to what it does to one host. `NothingMissed` needs
  `SeenLately`: a host seen since its session was closed was seen since the last
  listing of all, else that listing would have opened a session. `SessionsDisjoint`
  needs `ClosedLate`: when a session was closed, the host had been silent for longer
  than the time that a later listing allows.
* **`CaptureProofs`**: first `NoOverread` and `SnaplenIsEnough`, for frames of
  any lengths. They are what `Decode` states of the decoders alone (`StaysInside`,
  `CutIsEnough`), and the lemmas follow the decoders from the inside out: each looks
  at most `len` bytes beyond its offset, if the header before it was within what was
  captured; the subtractions are then of smaller numbers, and `Wrap` does not come
  in. Two lengths that both cover the headers that may follow give the same result
  (`LongFramesAlike`), and the snaplen covers them (`SnaplenLeavesHeaders`).

  Then `AllDispatched`, `LocalIsCurrent` and `DaylogIsRight`, for any interfaces,
  packets, addresses and clocks. `DispatchInv`: interfaces that `cap_poll` is done
  with have nothing left of what was owed. `LocalInv`: an interface that is being
  dispatched was looked at in this second. For the daily log a packet is followed
  from its arrival: it is in one buffer, once, until it is counted (`OnceInv`), then
  in exactly one of the counters in memory, a line of the log and the lines that
  could not be written (`PlaceInv`), and the counters are those of the day of the
  packets in them unless the clock was set back (`DayInv`).
* **`ProcessesProofs`**: `MessagesApart`, `PidfileIsRight` and `ReportIsRight`, for any
  options, any failures and any number of signals. `Stages` says where the three
  processes can be with respect to each other, the parts do the rest: `ByteInv`, the byte of
  the lock is in the pipe or with the one that prints, unless it is lost; `FileInv`, a
  pid file that is there has somebody who will still unlink it, unless somebody was
  killed, and it is only missing under a running daemon once somebody called `err()`
  (`PidfileIsRight` has both exceptions, see section 3); `ReportInv`, the
  starter does not get past its `read` before main let go of the lifeline, and its
  exit code is what it saw of main then.
* **`EventLoopProofs`**, on `Http`: `PollIsSafe`, `ClientGetsPrefix` and `HeaderFitsReply`, for any
  connections and requests and headers and pages of any length. `ConnInv` relates a
  connection to its client: the state says which cells may be left to send (`Sent`),
  and what the client has got is as many cells of header and reply as the connection
  says it has sent (`Got`). `LoopInv` is needed for the loop: a finished connection is
  seen by `http_fd_set` and freed before `http_poll` could meet it.
* **`GraphDbProofs`**: `PosIsLocaltime`, and `GraphDb` implements `GraphWindow`
  (`ImplementsWindow`), for any graphs with any number of bars of any length.
  `GraphInv` adds what the file may contain (`FileOK`) and that nothing was counted
  before the clock was read (`NotSet`): without it the first rotation could move traffic to another time.
  Each step is shown to be a step of the window or to leave it as it is; the arithmetic is
  that of `%` under steps forward and back (`DivMod` and the lemmas after it), which
  the SMT solver does not find by itself. The theorem's hypothesis `~AllowLongGaps` is that of the
  run `graphs`: with such gaps the refinement is false, as `graphs_gap` shows.

* **`DbFileProofs`**: `ImportedHostsAreExported`, `FailedImportIsEmpty` and
  `AbortsOnlyAtTheEnds`, for any values of `--ports-max` (up to 65536) and of
  `--ports-keep`, any addresses, names, times, traffic and offsets of the
  clocks, databases of any size and first files of any earlier version.
  `Items(D)` is the file of a database `D`; its shape, worked out from lemmas about
  `FlattenSeq` and `SetToSeq`, gives the position of each host (`HostAt`), subtable
  (`TableAt`) and entry. The inductive invariant `DbInv` says for the `D` of the last
  export: the file is a beginning of `Items(D)` whose last item may be torn
  (`FileOK`), what is yet to be written continues it (`OutOK`), and an import is at one of
  the places of that file (`OnTrack`) or is `Stuck`. A place relates the position in the file to the
  stack of what is wanted (`want` is what the code has on its call stack) and to what has been read (`HostsOK`,
  `FieldsOK`, `TablesOK`, `EntriesOK`), while `Within` says that nothing else
  has. For each place there are a lemma that the file has there what is wanted (`Read...`) and
  one that storing it leads to the next place (`...Step`). A torn number may be read
  as anything, even as a count that makes the import want more or fewer entries; but
  then the file ends there with something left to read (`Stuck`), and the import
  fails. Only after the last item nothing follows: the last number of the graphs is all
  that a torn file can falsify, and the properties leave it out.
  The times come back because they are stored as real times and the offset of the
  start that reads them is the one that converts them; records of version 1 have none.
  A table that is larger than the `--ports-max` of the start that reads it is cut down
  on the way: `EntriesOK` and `TablesOK` promise its entries only if it `Fits`, while
  `Within` says in any case that nothing else is in it, and no more than allowed.
  `AbortsOnlyAtTheEnds` rests on `Small`: port tables never exceed `--ports-max`, and
  protocol tables lack `IPPROTO_INVALID` and so have less than 256 entries. A full
  table has more than `ports_keep` entries unless its limit is 0, and one with 65536
  entries has all ports.

Assumed: the named `ASSUME`s, which the runs evaluate. They say what the
command line's checks establish (`hosts_keep < hosts_max`) and the
ranges of data.

Only model-checked:

* liveness (`LookupsEnd`, `StopEnds`, `ShutdownEnds`, `RequestsEnd`, `ConnectionsEnd`,
  `StarterEnds`, `NobodyStays`) and `ENABLED`, which are out of the prover's reach;
* `SortIsRight`, as `QSort` is recursive.

## 5. What is left out

* MAC address and last tuple of a host; the text of pages, headers and
  messages; the choice of page beyond found, missing or unsafe.
* `HostEvents`: where a host comes in a sorted list (a page may be of any hosts), and
  that numbers of sessions start again when a host is evicted and comes back.
* `GraphDb`: months have 31 days, the time zone has one offset and no leap seconds. Short months
  and the ends of summer time move positions in ways that are not yet covered.
* `HashTable`: the order within a chain.
* `Processes`: failures of `waitpid` and of the pipe itself, `--syslog`, which needs
  no lock, and what a process may still do once its privileges are dropped.
  Several messages in a row are one.
* `Capture`: the builds other than Linux, filters, the statistics of libpcap, the
  networks of `--local`; a dispatch is of one packet, which leaves more
  interleavings than one of a whole buffer.
* `Decode`: what is read from the headers (the sum of an IPv6 length and its header
  is cut to 16 bits; options of an IPv4 header are taken for ports, as are the
  contents of fragments).
* `DbFile`: errors of `read` other than a short one, an export whose file cannot
  be opened (nothing happens then), `in`, `out` and `syn` apart.
* `Http`: listening sockets, the order of connections (they do not affect each
  other), keeping the sent bytes for the log, the cleaning of URIs.
* Reading captures from a file; the parts listed as not modelled in
  `PROJECT.json`: pages, which only read; strings, addresses and the cache of
  service names, which are pure; vendored trees and queues; the browser's script.

## 6. Plan

What may come next, most important first:

1. A calendar with short months and summer time for `GraphDb`.
2. `SafeUri`: `make_safe_uri` against a reference definition on short inputs.
3. Two clients with different `event_close_secs` in `HostEvents`: what each of
   them may still rely on.

Runs with related questions share a configuration.

## 7. Checking

    tlc -workers 2 -config MCDns.cfg MCDns
    tlapm DnsProofs.tla

and likewise for the others; `PROJECT.json` pairs modules and configurations.
