-------------------------------- MODULE Acct --------------------------------
(***************************************************************************)
(* Accounting (acct.c): acct_for adds a packet to the totals, the graphs,  *)
(* its source and destination host, and their protocols and ports.  It     *)
(* holds pointers to the two hosts while it looks up others, and the       *)
(* tables it looks them up in are cut down when they are full, so the      *)
(* order of its steps matters.  The steps are taken one by one here; the   *)
(* hash tables are maps, as HashTable shows.                               *)
(***************************************************************************)
EXTENDS Integers, FiniteSets, FiniteSetsExt

CONSTANTS
  Addr,             \* addresses
  Local,            \* the ones addr_is_local says yes to
  Proto,            \* IP protocols; "tcp", "udp" and "invalid" are special
  Packet,           \* packet summaries
  hosts_max, hosts_keep, ports_max, ports_keep,
  highest_port,     \* --highest-port
  Imported,         \* the hosts tables that may have been imported
  NULL,             \* the null pointer
  MaxPackets        \* bound on the number of packets since a reset

Counters == [in : Nat, out : Nat]
Ports    == {"tcp", "udp"} \X {"local", "remote"}

(* What a host bucket holds: its counters and those of its subtables.      *)
IsHost(h) ==
  /\ DOMAIN h = {"in", "out", "protos", "ports"}
  /\ h.in \in Nat /\ h.out \in Nat
  /\ h.protos \in [Proto -> Counters]
  /\ DOMAIN h.ports = Ports
  /\ \A t \in Ports :
       /\ DOMAIN h.ports[t] \subseteq 0..highest_port
       /\ \A q \in DOMAIN h.ports[t] :
            h.ports[t][q] \in [in : Nat, out : Nat, syn : Nat]

ASSUME AcctAssumption ==
  /\ Local \subseteq Addr /\ IsFiniteSet(Addr) /\ NULL \notin Addr
  /\ IsFiniteSet(Proto)                         \* numbers of 8 bits
  /\ \A p \in Packet : /\ p.src \in Addr /\ p.dst \in Addr
                       /\ p.proto \in Proto \cup {"invalid"}
                       /\ p.len \in Nat /\ p.src_port \in Nat
                       /\ p.dst_port \in Nat /\ p.syn \in BOOLEAN
                       /\ p.syn => p.proto = "tcp"   \* tcp_flags == TH_SYN
  /\ hosts_max \in Nat /\ hosts_keep \in Nat
  /\ hosts_max # 0 => hosts_keep < hosts_max    \* parse_cmdline sees to it
  /\ ports_max \in Nat /\ ports_keep \in Nat
  /\ ports_max # 0 => ports_keep < ports_max
  /\ highest_port \in Nat
  /\ \A H \in Imported : /\ DOMAIN H \subseteq Addr
                         /\ \A a \in DOMAIN H : IsHost(H[a])
  /\ MaxPackets \in Nat

VARIABLES
  want_local_only,  \* --local-only, as given at the start
  packets, bytes,   \* acct_total_packets, acct_total_bytes
  graphed,          \* the bytes given to graph_acct and daylog_acct
  hosts,            \* hosts_db: from the addresses in it to hosts
  pc,               \* where acct_for is
  sm, hs, hd,       \* its parameter and its pointers
  within,           \* history: the bytes that stayed within the network
  gone              \* history: the bytes of hosts that left the table, less
                    \* those of the ones that were imported

vars == <<want_local_only, packets, bytes, graphed, hosts, pc, sm, hs, hd,
          within, gone>>

NoBytes  == [in |-> 0, out |-> 0]
Total(c) == c.in + c.out

(* make_func_host.  A protocol without a bucket counts nothing: a host's   *)
(* protocol table has room for all there are (PROTOS_MAX).                 *)
make_func_host ==
  [in |-> 0, out |-> 0,
   protos |-> [p \in Proto |-> NoBytes],
   ports  |-> [t \in Ports |-> [q \in {} |-> 0]]]

make_func_port == [in |-> 0, out |-> 0, syn |-> 0]

(* hashtable_reduce: the sort puts keep buckets before the one whose total *)
(* is the cutoff, and what is above the cutoff stays.                      *)
IsCutoff(f, keep, c) ==
  /\ Cardinality({k \in DOMAIN f : Total(f[k]) > c}) <= keep
  /\ Cardinality({k \in DOMAIN f : Total(f[k]) >= c}) > keep

Only(f, S)  == [k \in S |-> f[k]]
Above(f, c) == Only(f, {k \in DOMAIN f : Total(f[k]) > c})

hashtable_reduce(f, keep) ==
  Above(f, CHOOSE c \in {Total(f[k]) : k \in DOMAIN f} : IsCutoff(f, keep, c))

Inserted(f, k, new) ==
  [l \in DOMAIN f \cup {k} |-> IF l \in DOMAIN f THEN f[l] ELSE new]

(* hashtable_find_or_insert, with and without leave to reduce.             *)
find_or_insert(f, k, new) == Inserted(f, k, new)

find_or_insert_reduce(f, k, new, max, keep) ==
  IF k \in DOMAIN f THEN f
  ELSE Inserted(IF Cardinality(DOMAIN f) >= max
                THEN hashtable_reduce(f, keep) ELSE f, k, new)

SumOf(d, H) == MapThenSumSet(LAMBDA a : H[a][d], DOMAIN H)
Bytes(H) == [d \in {"in", "out"} |-> SumOf(d, H)]

Init ==
  /\ want_local_only \in BOOLEAN
  /\ packets = 0 /\ bytes = 0
  /\ graphed = NoBytes
  /\ hosts \in Imported
  /\ pc = "idle" /\ sm = NULL /\ hs = NULL /\ hd = NULL
  /\ within = 0
  /\ gone = [d \in {"in", "out"} |-> -SumOf(d, hosts)]

dir_out(p) == p.src \in Local
dir_in(p)  == p.dst \in Local

(* As acct_totals, but counting traffic within the network.                *)
acct_totalsAll(p) ==
  /\ pc = "idle" /\ packets < MaxPackets
  /\ packets' = packets + 1
  /\ bytes' = bytes + p.len
  /\ graphed' = [in  |-> graphed.in  + IF dir_in(p) THEN p.len ELSE 0,
                 out |-> graphed.out + IF dir_out(p) THEN p.len ELSE 0]
  /\ within' = within + IF dir_in(p) /\ dir_out(p) THEN p.len ELSE 0
  /\ sm' = p
  /\ pc' = IF hosts_max = 0 THEN "idle" ELSE "reduce"
  /\ UNCHANGED <<want_local_only, hosts, hs, hd, gone>>

(* acct_for is called: the totals and the graphs.  "Traffic staying within *)
(* the network isn't counted."                                             *)
acct_totals(p) ==
  /\ pc = "idle" /\ packets < MaxPackets
  /\ packets' = packets + 1
  /\ bytes' = bytes + p.len
  /\ graphed' =
       [in  |-> graphed.in  + IF dir_in(p) /\ ~dir_out(p) THEN p.len ELSE 0,
        out |-> graphed.out + IF dir_out(p) /\ ~dir_in(p) THEN p.len ELSE 0]
  /\ within' = within + IF dir_in(p) /\ dir_out(p) THEN p.len ELSE 0
  /\ sm' = p
  /\ pc' = IF hosts_max = 0 THEN "idle" ELSE "reduce"
  /\ UNCHANGED <<want_local_only, hosts, hs, hd, gone>>

(* What the hosts of H that are not in K add to the bytes that are gone.   *)
GoneWith(H, K) ==
  [d \in {"in", "out"} |->
     gone[d] + SumOf(d, Only(H, DOMAIN H \ DOMAIN K))]

(* As hosts_db_reduce, but only once the table has overflowed.             *)
hosts_db_reduceLate ==
  /\ pc = "reduce"
  /\ hosts' = IF Cardinality(DOMAIN hosts) > hosts_max + 1
              THEN hashtable_reduce(hosts, hosts_keep) ELSE hosts
  /\ gone' = GoneWith(hosts, hosts')
  /\ pc' = "src"
  /\ UNCHANGED <<want_local_only, packets, bytes, graphed, within, sm, hs, hd>>

hosts_db_reduce ==
  /\ pc = "reduce"
  /\ hosts' = IF Cardinality(DOMAIN hosts) >= hosts_max
              THEN hashtable_reduce(hosts, hosts_keep) ELSE hosts
  /\ gone' = GoneWith(hosts, hosts')
  /\ pc' = "src"
  /\ UNCHANGED <<want_local_only, packets, bytes, graphed, within, sm, hs, hd>>

(* As host_get, but with leave to reduce.                                  *)
host_getReduce(a) ==
  find_or_insert_reduce(hosts, a, make_func_host, hosts_max, hosts_keep)

host_get(a) == find_or_insert(hosts, a, make_func_host)

(* As acct_src, but for local hosts only whatever the option says.         *)
acct_srcLocal ==
  /\ pc = "src"
  /\ IF dir_out(sm)
     THEN LET H == host_get(sm.src)
          IN  /\ hosts' = [H EXCEPT ![sm.src].out = @ + sm.len]
              /\ gone' = GoneWith(hosts, H)
              /\ hs' = sm.src
     ELSE hs' = NULL /\ UNCHANGED <<hosts, gone>>
  /\ pc' = "dst"
  /\ UNCHANGED <<want_local_only, packets, bytes, graphed, within, sm, hd>>

(* The source host's counters; its MAC address and times are left out.     *)
acct_src ==
  /\ pc = "src"
  /\ IF want_local_only => dir_out(sm)
     THEN LET H == host_get(sm.src)
          IN  /\ hosts' = [H EXCEPT ![sm.src].out = @ + sm.len]
              /\ gone' = GoneWith(hosts, H)
              /\ hs' = sm.src
     ELSE hs' = NULL /\ UNCHANGED <<hosts, gone>>
  /\ pc' = "dst"
  /\ UNCHANGED <<want_local_only, packets, bytes, graphed, within, sm, hd>>

acct_dst ==
  /\ pc = "dst"
  /\ IF want_local_only => dir_in(sm)
     THEN LET H == host_get(sm.dst)
          IN  /\ hosts' = [H EXCEPT ![sm.dst].in = @ + sm.len]
              /\ gone' = GoneWith(hosts, H)
              /\ hd' = sm.dst
     ELSE hd' = NULL /\ UNCHANGED <<hosts, gone>>
  /\ pc' = "protos"
  /\ UNCHANGED <<want_local_only, packets, bytes, graphed, within, sm, hs>>

(* host_get_ip_proto and the update of what it returns, if a is not null.  *)
add_proto(H, a, d) ==
  IF a = NULL THEN H
  ELSE [H EXCEPT ![a].protos[sm.proto][d] = @ + sm.len]

acct_protos ==
  /\ pc = "protos"
  /\ hosts' = IF sm.proto = "invalid" THEN hosts
              ELSE add_proto(add_proto(hosts, hs, "out"), hd, "in")
  /\ pc' = "ports"
  /\ UNCHANGED <<want_local_only, packets, bytes, graphed, within, sm, hs, hd,
                 gone>>

(* host_get_port_tcp and its likes, and the update of what they return.    *)
(* SYNs are counted (for TCP) where the destination port is.               *)
add_port(H, a, where, port, d) ==
  IF a = NULL \/ port > highest_port THEN H
  ELSE [H EXCEPT ![a].ports[<<sm.proto, where>>] =
          LET f == find_or_insert_reduce(@, port, make_func_port,
                                         ports_max, ports_keep)
          IN  [f EXCEPT ![port][d] = @ + sm.len,
                        ![port].syn = @ + IF d = "in" /\ sm.syn THEN 1 ELSE 0]]

(* As add_ports, with the directions of the remote ports the wrong way.    *)
add_portsSwapped ==
  LET H1 == add_port(hosts, hs, "local", sm.src_port, "out")
      H2 == add_port(H1, hd, "local", sm.dst_port, "in")
      H3 == add_port(H2, hs, "remote", sm.src_port, "out")
  IN  add_port(H3, hd, "remote", sm.dst_port, "in")

add_ports ==
  LET H1 == add_port(hosts, hs, "local", sm.src_port, "out")
      H2 == add_port(H1, hd, "local", sm.dst_port, "in")
      H3 == add_port(H2, hd, "remote", sm.src_port, "out")
  IN  add_port(H3, hs, "remote", sm.dst_port, "in")

(* acct_for returns.                                                       *)
acct_ports ==
  /\ pc = "ports"
  /\ hosts' = IF ports_max # 0 /\ sm.proto \in {"tcp", "udp"}
              THEN add_ports ELSE hosts
  /\ pc' = "idle" /\ sm' = NULL /\ hs' = NULL /\ hd' = NULL
  /\ UNCHANGED <<want_local_only, packets, bytes, graphed, within, gone>>

(* SIGUSR1: hosts_db_reset and graph_reset.                                *)
reset ==
  /\ pc = "idle"
  /\ packets' = 0 /\ bytes' = 0 /\ graphed' = NoBytes
  /\ hosts' = [a \in {} |-> 0]
  /\ within' = 0 /\ gone' = NoBytes
  /\ UNCHANGED <<want_local_only, pc, sm, hs, hd>>

Next ==
  \/ \E p \in Packet : acct_totals(p)
  \/ hosts_db_reduce \/ acct_src \/ acct_dst \/ acct_protos \/ acct_ports
  \/ reset

Spec == Init /\ [][Next]_vars

----------------------------------------------------------------------------
TypeOK ==
  /\ want_local_only \in BOOLEAN
  /\ packets \in 0..MaxPackets /\ bytes \in Nat /\ graphed \in Counters
  /\ DOMAIN hosts \subseteq Addr /\ \A a \in DOMAIN hosts : IsHost(hosts[a])
  /\ pc \in {"idle", "reduce", "src", "dst", "protos", "ports"}
  /\ hs \in Addr \cup {NULL} /\ hd \in Addr \cup {NULL}
  /\ gone \in [{"in", "out"} -> Int]

(* acct_for never holds a pointer to a host that the table has dropped.    *)
NoDangling == hs \in DOMAIN hosts \cup {NULL} /\ hd \in DOMAIN hosts \cup {NULL}

(* What hosts_db_reduce and the two lookups after it guarantee: however    *)
(* large an imported table was, from the first packet on the table has at  *)
(* most one host more than --hosts-max (the man page says: no more than).  *)
HostsBounded ==
  packets > 0 /\ pc # "reduce" /\ hosts_max # 0
    => Cardinality(DOMAIN hosts) <= hosts_max + 1

(* Between packets the bytes of the hosts, with those of the hosts that    *)
(* are gone, are the total; or with --local-only, where only local hosts   *)
(* are kept, the bytes on the graphs and those between local hosts.        *)
HostsAddUp ==
  pc = "idle" /\ hosts_max # 0 =>
    LET in == SumOf("in", hosts) + gone.in
        out == SumOf("out", hosts) + gone.out
    IN  IF want_local_only
        THEN in = graphed.in + within /\ out = graphed.out + within
        ELSE in = bytes /\ out = bytes

(* A host's protocols add up to at most its own bytes, and the ports of a  *)
(* protocol, as far as they are still there, to at most the protocol's: a  *)
(* local port's direction is the host's own, a remote port's the opposite. *)
(* A table of ports never has more than --ports-max.                       *)
PortsFit(h) ==
  /\ ports_max # 0 =>
       \A t \in Ports : Cardinality(DOMAIN h.ports[t]) <= ports_max
  /\ \A d \in {"in", "out"} : SumOf(d, h.protos) <= h[d]
  /\ \A p \in {"tcp", "udp"} \cap Proto :
       LET n == h.protos[p]
           l == h.ports[<<p, "local">>]
           r == h.ports[<<p, "remote">>]
       IN  /\ SumOf("in", l) <= n.in  /\ SumOf("out", l) <= n.out
           /\ SumOf("in", r) <= n.out /\ SumOf("out", r) <= n.in

(* That is so of each host between packets, even where both ends of one    *)
(* fall into the same table.                                               *)
PortsWithinProtos == pc = "idle" => \A a \in DOMAIN hosts : PortsFit(hosts[a])
=============================================================================
