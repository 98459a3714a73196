------------------------------- MODULE DbFile -------------------------------
(***************************************************************************)
(* The database file (db.c, and the import and export functions of         *)
(* hosts_db.c and graph_db.c).  An export truncates the file and writes    *)
(* the hosts and the graphs to it, item by item; a write may come short,   *)
(* and the program may be killed at any moment.  The next start imports    *)
(* what it finds.                                                          *)
(*                                                                         *)
(* The file is a sequence of items, the last of which may be torn.         *)
(***************************************************************************)
EXTENDS Integers, FiniteSets, SequencesExt

CONSTANTS
  Addr,         \* host addresses
  Names,        \* host names
  Traffic,      \* the address, subtable and key in it that traffic is for
  Times,        \* real times
  Offsets,      \* real minus monotonic time, which a start may find
  OldVersions,  \* versions of the host records a first file may have
  MaxBytes,     \* bound on what the graphs have counted
  PortsMax,     \* values of --ports-max, which a start may be given
  PortsKeep,    \* --ports-keep
  PortLimit,    \* 65536: ports are below it, and so must be their count
  ProtoLimit,   \* 256: the same, for protocols
  IPPROTO_INVALID,  \* the protocol of a packet that was not decoded
  Garbage       \* what a variable that was not initialised holds

(* The subtables of a host, in the order of the file.                      *)
Tables == <<"ip", "tcp", "udp", "tcp_remote", "udp_remote">>

(* The number of keys there are for subtable t.                            *)
KeyLimit(t) == IF t = "ip" THEN ProtoLimit ELSE PortLimit

ASSUME DbAssumption ==
  /\ PortLimit \in Nat \ {0, 1} /\ ProtoLimit \in Nat
  /\ IPPROTO_INVALID \in 1..ProtoLimit - 1
  /\ \A t \in Traffic : /\ t[1] \in Addr /\ t[2] \in ToSet(Tables)
                        /\ t[3] \in 0..KeyLimit(t[2]) - 1
  /\ Times \subseteq Nat /\ Offsets \subseteq Nat /\ OldVersions \subseteq 1..3
  /\ PortsMax \subseteq 0..PortLimit /\ PortsKeep \in Nat
  /\ MaxBytes \in Nat /\ Garbage \in Nat

VARIABLES
  phase,     \* "run", "export", "import", how the import ended, or "down"
  offset,    \* real minus monotonic time
  ports_max, \* --ports-max of this start
  hosts,     \* hosts_db
  graph,     \* graph_db: last_real and bars
  file,      \* the items of the file
  out,       \* those that db_export has yet to write
  want,      \* what db_import has yet to read
  at,        \* its position in the file
  cur,       \* the host and the subtable it is reading
  exported   \* history: the version of the file, and the database that it
             \* was meant to hold

vars == <<phase, offset, ports_max, hosts, graph, file, out, want, at, cur, exported>>
importVars == <<want, at, cur>>

None == [k \in {} |-> 0]

NoGraph  == [last |-> 0, bars |-> 0]
NewHost  == [last_seen |-> 0, name |-> "", bytes |-> 0,
             tables |-> [t \in ToSet(Tables) |-> None]]

Put(f, k, v) == [l \in DOMAIN f \cup {k} |-> IF l = k THEN v ELSE f[l]]

host_get(H, a) == IF a \in DOMAIN H THEN H ELSE Put(H, a, NewHost)

(***************************************************************************)
(* The limits of a subtable (host_get_port_tcp, host_get_ip_proto and so   *)
(* on), and what happens when it is full.                                  *)
(***************************************************************************)
ports_keep == IF ports_max # 0 /\ PortsKeep >= ports_max
              THEN ports_max \div 2 ELSE PortsKeep

count_max(t)  == IF t = "ip" THEN 2 * ProtoLimit ELSE ports_max
count_keep(t) == IF t = "ip" THEN ProtoLimit ELSE ports_keep

(* The entries that are among the keep largest, ties included.             *)
hashtable_reduce(f, keep) ==
  Restrict(f, {k \in DOMAIN f : Cardinality({l \in DOMAIN f : f[l] >= f[k]}) <= keep})

Full(t, f, k) == k \notin DOMAIN f /\ Cardinality(DOMAIN f) >= count_max(t)

(* "assert(ht->count_keep < ht->count)".                                   *)
ReduceAborts(t, f, k) == Full(t, f, k) /\ ~(count_keep(t) < Cardinality(DOMAIN f))

(* As find_or_insert, but the table is cut down too late.                  *)
find_or_insertLate(t, f, k, n) ==
  Put(IF Full(t, f, k) /\ Cardinality(DOMAIN f) > count_max(t)
      THEN hashtable_reduce(f, count_keep(t)) ELSE f, k, n)

(* The entry for k, which may have to be made first, is set to n.          *)
find_or_insert(t, f, k, n) ==
  Put(IF Full(t, f, k) THEN hashtable_reduce(f, count_keep(t)) ELSE f, k, n)

mono_to_real(t) == t + offset
real_to_mono(t) == t - offset

(***************************************************************************)
(* The format.  Strings, tags and single bytes are read by readn, which    *)
(* wants them whole; numbers by read16, read32 and read64, which do not.   *)
(* The count of a table of protocols is a byte.                            *)
(***************************************************************************)
Numbers == {"host_count", "last_seen", "bytes", "count", "entry", "last", "bars"}

Count(t) == IF t = "ip" THEN "count8" ELSE "count"

Item(kind, v) == [kind |-> kind, v |-> v]

Export_table(t, f) ==
  <<Item("magic", t), Item(Count(t), Cardinality(DOMAIN f))>>
    \o LET keys == SetToSeq(DOMAIN f)
       IN  [i \in 1..Len(keys) |-> Item("entry", <<keys[i], f[keys[i]]>>)]

(* The subtables of a record of version v.                                 *)
TablesOf(v) == IF v = 4 THEN Tables ELSE SubSeq(Tables, 1, 3)

(* A record of version v, with the time of day as of the monotonic offset. *)
Export_host(v, a, h, t) ==
  <<Item("host", v), Item("addr", a)>>
    \o (IF v > 1 THEN <<Item("last_seen", t)>> ELSE <<>>)
    \o <<Item("name", h.name), Item("bytes", h.bytes)>>
    \o FlattenSeq([i \in 1..Len(TablesOf(v)) |->
                     Export_table(TablesOf(v)[i], h.tables[TablesOf(v)[i]])])

Export_db(v, H, g) ==
  LET addrs == SetToSeq(DOMAIN H)
  IN  <<Item("file", 1), Item("hosts", 1), Item("host_count", Len(addrs))>>
        \o FlattenSeq([i \in 1..Len(addrs) |->
             Export_host(v, addrs[i], H[addrs[i]],
                         mono_to_real(H[addrs[i]].last_seen))])
        \o <<Item("graph", 1), Item("last", g.last), Item("ring", 1),
             Item("bars", g.bars)>>

(* The database in terms that outlive the process.                         *)
Real(H) == [a \in DOMAIN H |->
              [H[a] EXCEPT !.last_seen = mono_to_real(@)]]

Database(v, H, g) == [version |-> v, hosts |-> Real(H), graph |-> g]

(* A first start finds no file, or one of an earlier version: a host whose *)
(* protocol 0 and port 1 were used, say.                                   *)
OldHost == [NewHost EXCEPT !.bytes = 1, !.tables["ip"]  = Put(None, 0, 1),
                                        !.tables["tcp"] = Put(None, 1, 1)]

Init ==
  /\ phase = "down"
  /\ offset \in Offsets /\ ports_max = 0
  /\ hosts = None /\ graph = NoGraph
  /\ out = <<>> /\ want = <<>> /\ at = 1 /\ cur = <<>>
  /\ \/ file = <<>> /\ exported = Database(4, None, NoGraph)
     \/ \E v \in OldVersions, a \in Addr :
          LET H == Put(None, a, OldHost)
          IN  file = Export_db(v, H, NoGraph) /\ exported = Database(v, H, NoGraph)

(***************************************************************************)
(* Running.                                                                *)
(***************************************************************************)

(* acct_for, for one of the subtables of a packet.  A packet that was not  *)
(* decoded counts for no protocol, and without --ports-max none counts for *)
(* a port.                                                                 *)
account(a, t, k, time) ==
  LET H       == host_get(hosts, a)
      f       == H[a].tables[t]
      counted == IF t = "ip" THEN k # IPPROTO_INVALID ELSE ports_max # 0
      total   == (IF k \in DOMAIN f THEN f[k] ELSE 0) + 1
  IN  /\ phase = "run" /\ graph.bars < MaxBytes
      /\ phase' = IF counted /\ ReduceAborts(t, f, k) THEN "aborted" ELSE phase
      /\ hosts' = [H EXCEPT ![a].bytes = @ + 1, ![a].last_seen = real_to_mono(time),
                            ![a].tables[t] = IF counted
                                             THEN find_or_insert(t, f, k, total) ELSE f]
      /\ graph' = [last |-> time, bars |-> graph.bars + 1]
      /\ UNCHANGED <<offset, ports_max, file, out, importVars, exported>>

(* dns_poll gives a host its name.                                         *)
dns_poll(a, n) ==
  /\ phase = "run"
  /\ a \in DOMAIN hosts /\ hosts[a].name = ""
  /\ hosts' = [hosts EXCEPT ![a].name = n]
  /\ UNCHANGED <<phase, offset, ports_max, graph, file, out, importVars, exported>>

(***************************************************************************)
(* db_export.                                                              *)
(***************************************************************************)

(* The file is opened, and emptied.                                        *)
db_export ==
  /\ phase = "run"
  /\ file' = <<>>
  /\ out' = Export_db(4, hosts, graph)
  /\ exported' = Database(4, hosts, graph)
  /\ phase' = "export"
  /\ UNCHANGED <<offset, ports_max, hosts, graph, importVars>>

(* The assertions on the number of entries of a subtable.                  *)
Assertion(item) == /\ item.kind = "count8" => item.v < ProtoLimit
                   /\ item.kind = "count"  => item.v < PortLimit

writen ==
  /\ phase = "export" /\ out # <<>>
  /\ IF Assertion(Head(out))
     THEN file' = Append(file, Head(out)) /\ out' = Tail(out) /\ UNCHANGED phase
     ELSE phase' = "aborted" /\ UNCHANGED <<file, out>>
  /\ UNCHANGED <<offset, ports_max, hosts, graph, importVars, exported>>

(* A write comes short, or fails altogether: the export is given up.       *)
writen_short ==
  /\ phase = "export" /\ out # <<>> /\ Assertion(Head(out))
  /\ file' \in {file, Append(file, Item("torn", Head(out).kind))}
  /\ out' = <<>>
  /\ UNCHANGED <<phase, offset, ports_max, hosts, graph, importVars, exported>>

db_export_done ==
  /\ phase = "export" /\ out = <<>>
  /\ phase' = "run"
  /\ UNCHANGED <<offset, ports_max, hosts, graph, file, out, importVars, exported>>

(* The process ends: it is killed, or has shut down or aborted.            *)
exit ==
  /\ phase \in {"run", "export", "import", "aborted"}
  /\ phase' = "down" /\ ports_max' = 0
  /\ hosts' = None /\ graph' = NoGraph /\ out' = <<>>
  /\ want' = <<>> /\ at' = 1 /\ cur' = <<>>
  /\ UNCHANGED <<offset, file, exported>>

(***************************************************************************)
(* db_import.                                                              *)
(***************************************************************************)
Import_db == <<"file", "hosts", "host_count", "graph", "last", "ring", "bars">>

(* Started again, perhaps after a reboot, with --import and --ports-max m. *)
start(o, m) ==
  /\ phase = "down"
  /\ offset' = o /\ ports_max' = m
  /\ phase' = "import" /\ want' = Import_db
  /\ UNCHANGED <<hosts, graph, file, out, at, cur, exported>>

Copies(n, x) == [i \in 1..n |-> x]

(* What is left to read of a host once its tag was read.                   *)
Import_host(v) ==
  <<"addr">> \o (IF v > 1 THEN <<"last_seen">> ELSE <<>>) \o <<"name", "bytes">>
    \o FlattenSeq([i \in 1..Len(TablesOf(v)) |->
                     <<TablesOf(v)[i], Count(TablesOf(v)[i])>>])

(* What is left to read after v, in the order in which hosts_db_import and *)
(* its likes call each other.                                              *)
After(kind, v) ==
  (CASE kind = "host_count" -> Copies(v, "host")
     [] kind = "host"       -> Import_host(v)
     [] kind \in {"count", "count8"} -> Copies(v, "entry")
     [] OTHER               -> <<>>) \o Tail(want)

(* Where the value goes.                                                   *)
Store(kind, v) ==
  LET a == cur[1]
  IN  /\ hosts' = CASE kind = "addr"      -> host_get(hosts, v)
                    [] kind = "last_seen" ->
                         [hosts EXCEPT ![a].last_seen = real_to_mono(v)]
                    [] kind = "name"      -> [hosts EXCEPT ![a].name = v]
                    [] kind = "bytes"     -> [hosts EXCEPT ![a].bytes = v]
                    [] kind = "entry"     ->
                         [hosts EXCEPT ![a].tables[cur[2]] =
                            find_or_insert(cur[2], @, v[1], v[2])]
                    [] OTHER              -> hosts
      /\ graph' = CASE kind = "last" -> [graph EXCEPT !.last = v]
                    [] kind = "bars" -> [graph EXCEPT !.bars = v]
                    [] OTHER         -> graph
      /\ cur' = CASE kind = "addr"  -> <<v, "">>
                  [] kind = "magic" -> <<a, v>>
                  [] OTHER          -> cur

(* The values that reading an item as one of this kind may give: its own,  *)
(* if it is of the kind; whatever was in memory before, if it is a number  *)
(* and torn: read16, read32 and read64 fail only when there is nothing.    *)
Reads(kind, item) ==
  IF item.kind = kind THEN {item.v}
  ELSE IF kind \in Numbers /\ item = Item("torn", kind)
  THEN CASE kind = "entry" -> {<<Garbage, Garbage>>}
         [] kind \in {"host_count", "count"} -> 0..2
         [] kind = "last_seen" -> Times
         [] OTHER -> {Garbage}
  ELSE {}

(* The kind of the next item: a subtable starts with its own magic byte.   *)
Kind(w) == IF w \in ToSet(Tables) THEN "magic" ELSE w

ReadNext == IF at > Len(file) THEN {} ELSE Reads(Kind(Head(want)), file[at])

(* There is no room for the entry v, and none can be made.                 *)
EntryAborts(v) ==
  Head(want) = "entry" /\ ReduceAborts(cur[2], hosts[cur[1]].tables[cur[2]], v[1])

import_aborts ==
  /\ phase = "import" /\ want # <<>>
  /\ \E v \in ReadNext : EntryAborts(v)
  /\ phase' = "aborted"
  /\ UNCHANGED <<offset, ports_max, hosts, graph, file, out, importVars, exported>>

(* The next item is read.                                                  *)
import_next ==
  /\ phase = "import" /\ want # <<>>
  /\ \E v \in ReadNext :
       /\ Kind(Head(want)) = "magic" => v = Head(want)
       /\ ~EntryAborts(v)
       /\ want' = After(Kind(Head(want)), v)
       /\ Store(Kind(Head(want)), v)
  /\ at' = at + 1
  /\ UNCHANGED <<phase, offset, ports_max, file, out, exported>>

(* As import_done, but the end of the file will do at any point.           *)
import_doneEarly ==
  /\ phase = "import" /\ (want = <<>> \/ at > Len(file))
  /\ phase' = "imported"
  /\ UNCHANGED <<offset, ports_max, hosts, graph, file, out, importVars, exported>>

import_done ==
  /\ phase = "import" /\ want = <<>>
  /\ phase' = "imported"
  /\ UNCHANGED <<offset, ports_max, hosts, graph, file, out, importVars, exported>>

Unreadable ==
  /\ phase = "import" /\ want # <<>>
  /\ \/ ReadNext = {}
     \/ Kind(Head(want)) = "magic" /\ ReadNext # {Head(want)}

(* As import_fails, but only the graphs are reset.                         *)
import_failsKeepsHosts ==
  /\ Unreadable
  /\ graph' = NoGraph
  /\ phase' = "failed"
  /\ UNCHANGED <<offset, ports_max, hosts, file, out, importVars, exported>>

(* "Don't stay in an inconsistent state."                                  *)
import_fails ==
  /\ Unreadable
  /\ hosts' = None /\ graph' = NoGraph
  /\ phase' = "failed"
  /\ UNCHANGED <<offset, ports_max, file, out, importVars, exported>>

enter_main_loop ==
  /\ phase \in {"imported", "failed"}
  /\ phase' = "run"
  /\ want' = <<>> /\ at' = 1 /\ cur' = <<>>
  /\ UNCHANGED <<offset, ports_max, hosts, graph, file, out, exported>>

Next ==
  \/ \E t \in Traffic, time \in Times : account(t[1], t[2], t[3], time)
  \/ \E a \in Addr, n \in Names : dns_poll(a, n)
  \/ db_export \/ writen \/ writen_short \/ db_export_done
  \/ exit
  \/ \E o \in Offsets, m \in PortsMax : start(o, m)
  \/ import_next \/ import_aborts \/ import_done \/ import_fails \/ enter_main_loop

Spec == Init /\ [][Next]_vars
----------------------------------------------------------------------------
(* What an import may make of the subtable t, if it was e: all of it, or,  *)
(* when it is larger than --ports-max allows, some of its entries.         *)
CutDown(t, f, e, max) ==
  /\ DOMAIN f \subseteq DOMAIN e /\ \A k \in DOMAIN f : f[k] = e[k]
  /\ IF t = "ip" \/ Cardinality(DOMAIN e) <= max
     THEN DOMAIN f = DOMAIN e
     ELSE Cardinality(DOMAIN f) <= max

(* What of the database does not depend on the last number in the file; a  *)
(* record of version 1 has no time.                                        *)
SameHosts(H, E, v, max) ==
  /\ DOMAIN H = DOMAIN E
  /\ \A a \in DOMAIN H :
       /\ H[a].name = E[a].name /\ H[a].bytes = E[a].bytes
       /\ v > 1 => H[a].last_seen = E[a].last_seen
       /\ \A t \in ToSet(Tables) : CutDown(t, H[a].tables[t], E[a].tables[t], max)

(* An import that succeeds has read all the hosts, their names, subtables  *)
(* and times, as the last export meant to write them, from a file that it  *)
(* or an earlier version wrote: a file that breaks off among the hosts, in *)
(* the middle of a number or not, is never taken for a database.  Only a   *)
(* subtable that --ports-max has become too small for loses entries.       *)
ImportedHostsAreExported ==
  phase = "imported" =>
    /\ SameHosts(Real(hosts), exported.hosts, exported.version, ports_max)
    /\ graph.last = exported.graph.last

(* The man page: "If the import is unsuccessful, darkstat will start with  *)
(* an empty database": nothing of what was read is left.                   *)
FailedImportIsEmpty ==
  phase = "failed" => hosts = None /\ graph = NoGraph

(* The assertions of hashtable_reduce, hosts_db_export_ip and              *)
(* hosts_db_export_tcp fail only at the two ends of what --ports-max may   *)
(* be, in whatever order databases grow, are exported, imported by a       *)
(* program with other limits, and cut down: 0, when a file with a port in  *)
(* it is imported, and 65536, when a host has used every port.             *)
AbortsOnlyAtTheEnds ==
  phase = "aborted" =>
    \/ ports_max = 0 /\ want # <<>>
    \/ /\ ports_max = PortLimit
       /\ \E a \in DOMAIN hosts, t \in ToSet(Tables) \ {"ip"} :
            DOMAIN hosts[a].tables[t] = 0..PortLimit - 1
=============================================================================
