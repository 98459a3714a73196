----------------------------- MODULE AcctProofs -----------------------------
(***************************************************************************)
(* Proofs about Acct, for any packets, tables and limits.                  *)
(*                                                                         *)
(* hashtable_reduce leaves at most the buckets it is to keep, so that the  *)
(* pointers of acct_for stay good and the hosts table stays bounded.       *)
(*                                                                         *)
(* The bytes of the hosts, with those of hosts that are gone, are the      *)
(* total: while a packet is in the works, but for what of it is yet to be  *)
(* added.  The sums are MapThenSumSet's, of which only the definition is   *)
(* known: that the order does not matter is proved first.                  *)
(*                                                                         *)
(* A host's protocols fit in its bytes and its ports in their protocol: in *)
(* between, with room for what the next steps will count.                  *)
(***************************************************************************)
EXTENDS Acct, FiniteSetTheorems, WellFoundedInduction, TLAPS

(* Every set of numbers has a least one.                                 *)
LEMMA Least ==
  ASSUME NEW S \in SUBSET Nat, S # {}
  PROVE  \E m \in S : \A k \in S : m <= k
<1>1. PICK m \in S : \A k \in S : ~ (<<k, m>> \in OpToRel(<, Nat))
  BY NatLessThanWellFounded, WFMin
<1>2. ASSUME NEW k \in S PROVE m <= k
  <2>1. ~ (<<k, m>> \in OpToRel(<, Nat))
    BY <1>1
  <2>2. ~ (k < m)
    BY <2>1 DEF OpToRel
  <2> QED
    BY <2>2
<1> QED
  BY <1>2

(* hashtable_reduce has a cutoff: among more than keep numbers one has   *)
(* at most keep above it, and more than that from it up.                 *)
LEMMA CutoffExists ==
  ASSUME NEW S, IsFiniteSet(S), NEW g \in [S -> Nat],
         NEW keep \in Nat, keep < Cardinality(S)
  PROVE  \E c \in {g[k] : k \in S} :
           /\ Cardinality({k \in S : g[k] > c}) <= keep
           /\ Cardinality({k \in S : g[k] >= c}) > keep
<1> DEFINE Up(c) == {k \in S : g[k] >= c}
           V     == {g[k] : k \in S}
           N     == {Cardinality(Up(c)) : c \in {v \in V : Cardinality(Up(v)) > keep}}
<1>1. \A c : IsFiniteSet(Up(c)) /\ Cardinality(Up(c)) \in Nat
  <2> SUFFICES ASSUME NEW c
               PROVE  IsFiniteSet(Up(c)) /\ Cardinality(Up(c)) \in Nat
    OBVIOUS
  <2>1. IsFiniteSet(Up(c))
    BY FS_Subset
  <2> QED
    BY <2>1, FS_CardinalityType
<1>2. V \subseteq Nat /\ V # {}
  BY FS_EmptySet, FS_CardinalityType
<1>3. N # {}
  <2>1. PICK v \in V : \A w \in V : v <= w
    BY <1>2, Least
  <2>2. Up(v) = S
    BY <2>1, <1>2
  <2> QED
    BY <2>2
<1>4. N \subseteq Nat
  BY <1>1
<1>5. PICK n \in N : \A m \in N : n <= m
  <2> HIDE DEF N
  <2> QED
    BY <1>3, <1>4, Least
<1>6. PICK c \in V : Cardinality(Up(c)) > keep /\ n = Cardinality(Up(c))
  OBVIOUS
<1>7. SUFFICES ASSUME ~(Cardinality({k \in S : g[k] > c}) <= keep)
               PROVE  FALSE
  BY <1>6
<1>8. PICK w \in {v \in V : v > c} : \A u \in {v \in V : v > c} : w <= u
  <2>1. {k \in S : g[k] > c} # {}
    <3>1. keep >= 0
      OBVIOUS
    <3> QED
      BY <1>7, <3>1, FS_EmptySet
  <2>2. {v \in V : v > c} # {}
    BY <2>1
  <2>3. {v \in V : v > c} \in SUBSET Nat
    BY <1>2
  <2> HIDE DEF V
  <2> QED
    BY <2>2, <2>3, Least
<1>9. Up(w) = {k \in S : g[k] > c}
  <2>1. w \in Nat /\ c \in Nat /\ w > c
    BY <1>2
  <2>2. ASSUME NEW k \in S PROVE g[k] >= w <=> g[k] > c
    <3>1. g[k] \in Nat /\ g[k] \in V
      OBVIOUS
    <3>2. g[k] > c => w <= g[k]
      BY <1>8, <3>1
    <3> QED
      BY <3>1, <3>2, <2>1
  <2> QED
    BY <2>2
<1>10. Cardinality(Up(w)) > keep
  <2>1. Cardinality(Up(w)) \in Nat
    BY <1>1
  <2> QED
    BY <2>1, <1>7, <1>9
<1>11. Cardinality(Up(c)) <= Cardinality(Up(w))
  <2>1. Cardinality(Up(w)) \in N
    BY <1>10
  <2> HIDE DEF N, Up
  <2> QED
    BY <1>5, <1>6, <2>1
<1>12. Up(w) \subseteq Up(c)
  BY <1>9, <1>2
<1>13. Up(w) = Up(c)
  <2>1. Cardinality(Up(w)) <= Cardinality(Up(c))
    BY <1>1, <1>12, FS_Subset
  <2>2. Cardinality(Up(w)) = Cardinality(Up(c))
    BY <2>1, <1>11, <1>1
  <2> QED
    BY <2>2, <1>1, <1>12, FS_Subset
<1>14. PICK k \in S : g[k] = c
  OBVIOUS
<1>15. k \in Up(c) /\ k \notin {l \in S : g[l] > c}
  BY <1>14, <1>2
<1> QED
  BY <1>9, <1>13, <1>15

(* hashtable_reduce leaves at most keep buckets, as they were.           *)
LEMMA ReduceKeeps ==
  ASSUME NEW f, IsFiniteSet(DOMAIN f),
         \A k \in DOMAIN f : Total(f[k]) \in Nat,
         NEW keep \in Nat, keep < Cardinality(DOMAIN f)
  PROVE  /\ DOMAIN hashtable_reduce(f, keep) \subseteq DOMAIN f
         /\ Cardinality(DOMAIN hashtable_reduce(f, keep)) <= keep
         /\ \A k \in DOMAIN hashtable_reduce(f, keep) :
              hashtable_reduce(f, keep)[k] = f[k]
<1> DEFINE g == [k \in DOMAIN f |-> Total(f[k])]
           V == {Total(f[k]) : k \in DOMAIN f}
           c == CHOOSE v \in V : IsCutoff(f, keep, v)
<1>1. \E v \in {g[k] : k \in DOMAIN f} :
        /\ Cardinality({k \in DOMAIN f : g[k] > v}) <= keep
        /\ Cardinality({k \in DOMAIN f : g[k] >= v}) > keep
  <2>1. g \in [DOMAIN f -> Nat]
    OBVIOUS
  <2> HIDE DEF g
  <2> QED
    BY <2>1, CutoffExists
<1>2. \E v \in V : IsCutoff(f, keep, v)
  <2>1. {g[k] : k \in DOMAIN f} = V
    OBVIOUS
  <2>2. \A v : /\ {k \in DOMAIN f : g[k] > v} = {k \in DOMAIN f : Total(f[k]) > v}
              /\ {k \in DOMAIN f : g[k] >= v} = {k \in DOMAIN f : Total(f[k]) >= v}
    OBVIOUS
  <2> HIDE DEF g, V
  <2> QED
    BY <1>1, <2>1, <2>2 DEF IsCutoff
<1>3. IsCutoff(f, keep, c)
  <2> HIDE DEF V
  <2> QED
    BY <1>2
<1>4. hashtable_reduce(f, keep) = Above(f, c)
  BY DEF hashtable_reduce
<1> HIDE DEF c
<1> QED
  BY <1>3, <1>4 DEF Above, Only, IsCutoff

----------------------------------------------------------------------------
HostOK(h) ==
  /\ DOMAIN h = {"in", "out", "protos", "ports"}
  /\ h.in \in Nat /\ h.out \in Nat

HostsOK ==
  DOMAIN hosts \subseteq Addr /\ \A a \in DOMAIN hosts : HostOK(hosts[a])

(* Which pointers acct_for has set where, and that they are good.        *)
PointersOK ==
  /\ pc \in {"idle", "reduce", "src", "dst", "protos", "ports"}
  /\ pc \in {"idle", "reduce", "src"} => hs = NULL
  /\ pc \in {"idle", "reduce", "src", "dst"} => hd = NULL
  /\ pc # "idle" => sm \in Packet
  /\ NoDangling

(* The reduction makes room for the two hosts that are looked up after   *)
(* it.                                                                   *)
Room ==
  hosts_max # 0 =>
    /\ pc = "src" => Cardinality(DOMAIN hosts) < hosts_max
    /\ pc = "dst" => Cardinality(DOMAIN hosts) <= hosts_max
    /\ pc \in {"protos", "ports"} => Cardinality(DOMAIN hosts) <= hosts_max + 1
    /\ pc = "idle" /\ packets > 0 => Cardinality(DOMAIN hosts) <= hosts_max + 1

Inv == HostsOK /\ PointersOK /\ Room /\ (hosts_max = 0 => pc = "idle")

(* The hosts table is finite and its totals are numbers.                 *)
LEMMA FiniteHosts ==
  ASSUME HostsOK
  PROVE  /\ IsFiniteSet(DOMAIN hosts)
         /\ Cardinality(DOMAIN hosts) \in Nat
         /\ \A a \in DOMAIN hosts : Total(hosts[a]) \in Nat
<1>1. IsFiniteSet(DOMAIN hosts)
  BY AcctAssumption, FS_Subset DEF HostsOK
<1>2. Cardinality(DOMAIN hosts) \in Nat
  BY <1>1, FS_CardinalityType
<1>3. \A a \in DOMAIN hosts : Total(hosts[a]) \in Nat
  BY DEF HostsOK, HostOK, Total
<1> QED
  BY <1>1, <1>2, <1>3

(* host_get inserts at most one host, and touches no other.              *)
LEMMA HostGet ==
  ASSUME HostsOK, NEW a \in Addr
  PROVE  /\ DOMAIN host_get(a) = DOMAIN hosts \cup {a}
         /\ \A b \in DOMAIN host_get(a) : HostOK(host_get(a)[b])
         /\ Cardinality(DOMAIN host_get(a)) \in Nat
         /\ Cardinality(DOMAIN host_get(a)) <= Cardinality(DOMAIN hosts) + 1
<1>1. DOMAIN host_get(a) = DOMAIN hosts \cup {a}
  BY DEF host_get, find_or_insert, Inserted
<1>2. HostOK(make_func_host)
  BY DEF HostOK, make_func_host
<1>3. \A b \in DOMAIN host_get(a) : HostOK(host_get(a)[b])
  <2>1. \A b \in DOMAIN host_get(a) :
          host_get(a)[b] = IF b \in DOMAIN hosts THEN hosts[b] ELSE make_func_host
    BY DEF host_get, find_or_insert, Inserted
  <2> QED
    BY <2>1, <1>2 DEF HostsOK
<1>4. /\ Cardinality(DOMAIN host_get(a)) \in Nat
      /\ Cardinality(DOMAIN host_get(a)) <= Cardinality(DOMAIN hosts) + 1
  <2>1. /\ IsFiniteSet(DOMAIN hosts \cup {a})
        /\ Cardinality(DOMAIN hosts \cup {a}) =
             IF a \in DOMAIN hosts THEN Cardinality(DOMAIN hosts)
             ELSE Cardinality(DOMAIN hosts) + 1
    BY FiniteHosts, FS_AddElement
  <2> QED
    BY <1>1, <2>1, FiniteHosts
<1> QED
  BY <1>1, <1>3, <1>4

(* The updates of a host's protocols and ports leave the hosts in place, *)
(* with their own counters.                                              *)
Stays(h, k) == HostOK(k) /\ k.in = h.in /\ k.out = h.out

(* An update of a host's protocol keeps it well-formed.                  *)
LEMMA AddProto ==
  ASSUME NEW H, \A b \in DOMAIN H : HostOK(H[b]), NEW a, NEW d
  PROVE  /\ DOMAIN add_proto(H, a, d) = DOMAIN H
         /\ \A b \in DOMAIN H : Stays(H[b], add_proto(H, a, d)[b])
<1>1. CASE a = NULL
  BY <1>1 DEF add_proto, Stays
<1>2. CASE a # NULL
  <2>1. DOMAIN add_proto(H, a, d) = DOMAIN H
    BY <1>2 DEF add_proto
  <2>2. \E x : \A b \in DOMAIN H :
          add_proto(H, a, d)[b] = IF b = a THEN [H[b] EXCEPT !.protos = x] ELSE H[b]
    BY <1>2 DEF add_proto
  <2>3. \A h, x : HostOK(h) => Stays(h, [h EXCEPT !.protos = x])
    BY DEF HostOK, Stays
  <2>4. \A h : HostOK(h) => Stays(h, h)
    BY DEF Stays
  <2> QED
    BY <2>1, <2>2, <2>3, <2>4
<1> QED
  BY <1>1, <1>2

(* So does what acct_for makes of a packet's protocol.                   *)
LEMMA AddProtos ==
  ASSUME HostsOK, acct_protos
  PROVE  /\ DOMAIN hosts' = DOMAIN hosts
         /\ \A b \in DOMAIN hosts : Stays(hosts[b], hosts'[b])
<1>1. CASE sm.proto = "invalid"
  BY <1>1 DEF HostsOK, acct_protos, Stays
<1>2. CASE sm.proto # "invalid"
  <2> DEFINE H1 == add_proto(hosts, hs, "out")
             H2 == add_proto(H1, hd, "in")
  <2>1. DOMAIN H1 = DOMAIN hosts /\ \A b \in DOMAIN H1 : Stays(hosts[b], H1[b])
    BY AddProto DEF HostsOK
  <2>2. \A b \in DOMAIN H1 : HostOK(H1[b])
    BY <2>1 DEF Stays
  <2>3. DOMAIN H2 = DOMAIN H1 /\ \A b \in DOMAIN H1 : Stays(H1[b], H2[b])
    <3> HIDE DEF H1
    <3> QED BY <2>2, AddProto
  <2>4. hosts' = H2
    BY <1>2 DEF acct_protos
  <2> HIDE DEF H1, H2
  <2> QED
    BY <2>1, <2>3, <2>4 DEF Stays
<1> QED
  BY <1>1, <1>2

(* Looking up one port drops no host and leaves every host well-formed.  *)
LEMMA AddPort ==
  ASSUME NEW H, \A b \in DOMAIN H : HostOK(H[b]),
         NEW a, NEW where, NEW port, NEW d
  PROVE  /\ DOMAIN add_port(H, a, where, port, d) = DOMAIN H
         /\ \A b \in DOMAIN H : Stays(H[b], add_port(H, a, where, port, d)[b])
<1>1. CASE a = NULL \/ port > highest_port
  BY <1>1 DEF add_port, Stays
<1>2. CASE ~(a = NULL \/ port > highest_port)
  <2>1. DOMAIN add_port(H, a, where, port, d) = DOMAIN H
    BY <1>2 DEF add_port
  <2>2. \E x : \A b \in DOMAIN H :
          add_port(H, a, where, port, d)[b]
            = IF b = a THEN [H[b] EXCEPT !.ports = x] ELSE H[b]
    <3> DEFINE K == <<sm.proto, where>>
               f == find_or_insert_reduce(H[a].ports[K], port, make_func_port,
                                          ports_max, ports_keep)
               y == [f EXCEPT ![port][d] = @ + sm.len,
                              ![port].syn = @ + IF d = "in" /\ sm.syn THEN 1 ELSE 0]
    <3>1. add_port(H, a, where, port, d) = [H EXCEPT ![a].ports[K] = y]
      BY <1>2, Zenon DEF add_port
    <3> HIDE DEF K, y
    <3> QED
      BY <3>1
  <2>3. \A h, x : HostOK(h) => Stays(h, [h EXCEPT !.ports = x])
    BY DEF HostOK, Stays
  <2>4. \A h : HostOK(h) => Stays(h, h)
    BY DEF Stays
  <2> QED
    BY <2>1, <2>2, <2>3, <2>4
<1> QED
  BY <1>1, <1>2

(* Neither do the four look-ups that a packet takes.                     *)
LEMMA AddPorts ==
  ASSUME HostsOK
  PROVE  /\ DOMAIN add_ports = DOMAIN hosts
         /\ \A b \in DOMAIN hosts : Stays(hosts[b], add_ports[b])
<1> DEFINE H1 == add_port(hosts, hs, "local", sm.src_port, "out")
           H2 == add_port(H1, hd, "local", sm.dst_port, "in")
           H3 == add_port(H2, hd, "remote", sm.src_port, "out")
           H4 == add_port(H3, hs, "remote", sm.dst_port, "in")
           Kept(H) == DOMAIN H = DOMAIN hosts /\ \A b \in DOMAIN H :
                                                      Stays(hosts[b], H[b])
<1>1. Kept(H1)
  BY AddPort DEF HostsOK
<1>2. Kept(H2)
  <2>1. \A b \in DOMAIN H1 : HostOK(H1[b])
    BY <1>1 DEF Stays
  <2>2. DOMAIN H2 = DOMAIN H1 /\ \A b \in DOMAIN H1 : Stays(H1[b], H2[b])
    <3> HIDE DEF H1
    <3> QED BY <2>1, AddPort
  <2> HIDE DEF H1, H2
  <2> QED BY <1>1, <2>2 DEF Stays
<1>3. Kept(H3)
  <2>1. \A b \in DOMAIN H2 : HostOK(H2[b])
    BY <1>2 DEF Stays
  <2>2. DOMAIN H3 = DOMAIN H2 /\ \A b \in DOMAIN H2 : Stays(H2[b], H3[b])
    <3> HIDE DEF H2
    <3> QED BY <2>1, AddPort
  <2> HIDE DEF H2, H3
  <2> QED BY <1>2, <2>2 DEF Stays
<1>4. Kept(H4)
  <2>1. \A b \in DOMAIN H3 : HostOK(H3[b])
    BY <1>3 DEF Stays
  <2>2. DOMAIN H4 = DOMAIN H3 /\ \A b \in DOMAIN H3 : Stays(H3[b], H4[b])
    <3> HIDE DEF H3
    <3> QED BY <2>1, AddPort
  <2> HIDE DEF H3, H4
  <2> QED BY <1>3, <2>2 DEF Stays
<1>5. add_ports = H4
  BY DEF add_ports
<1> QED
  BY <1>4, <1>5

----------------------------------------------------------------------------
(* With an empty or imported table and no packet in the works the        *)
(* invariant holds.                                                      *)
LEMMA InitInv == Init => Inv
<1> SUFFICES ASSUME Init PROVE Inv
  OBVIOUS
<1>1. HostsOK
  BY AcctAssumption DEF Init, HostsOK, HostOK, IsHost
<1>2. PointersOK /\ Room /\ pc = "idle"
  BY DEF Init, PointersOK, Room, NoDangling
<1> QED
  BY <1>1, <1>2 DEF Inv

(* Counting a packet in the totals only begins acct_for.                 *)
LEMMA TotalsInv == ASSUME Inv, NEW p \in Packet, acct_totals(p) PROVE Inv'
BY DEF Inv, HostsOK, HostOK, PointersOK, Room, NoDangling, acct_totals

(* hosts_db_reduce drops hosts only, and makes room.                     *)
LEMMA Reduced ==
  ASSUME Inv, hosts_db_reduce
  PROVE  /\ DOMAIN hosts' \subseteq DOMAIN hosts
         /\ \A a \in DOMAIN hosts' : hosts'[a] = hosts[a]
         /\ Cardinality(DOMAIN hosts') < hosts_max
<1>1. /\ hosts_max \in Nat /\ hosts_keep \in Nat /\ hosts_keep < hosts_max
  BY AcctAssumption DEF Inv, hosts_db_reduce
<1>2. /\ IsFiniteSet(DOMAIN hosts) /\ Cardinality(DOMAIN hosts) \in Nat
      /\ \A a \in DOMAIN hosts : Total(hosts[a]) \in Nat
  BY FiniteHosts DEF Inv
<1>3. CASE Cardinality(DOMAIN hosts) >= hosts_max
  <2>1. hosts_keep < Cardinality(DOMAIN hosts)
    BY <1>1, <1>2, <1>3
  <2>2. hosts' = hashtable_reduce(hosts, hosts_keep)
    BY <1>3 DEF hosts_db_reduce
  <2>3. /\ DOMAIN hosts' \subseteq DOMAIN hosts
        /\ Cardinality(DOMAIN hosts') <= hosts_keep
        /\ \A a \in DOMAIN hosts' : hosts'[a] = hosts[a]
    BY <1>1, <1>2, <2>1, <2>2, ReduceKeeps
  <2>4. Cardinality(DOMAIN hosts') \in Nat
    BY <1>2, <2>3, FS_Subset, FS_CardinalityType
  <2> QED
    BY <1>1, <2>3, <2>4
<1>4. CASE ~(Cardinality(DOMAIN hosts) >= hosts_max)
  BY <1>1, <1>2, <1>4 DEF hosts_db_reduce
<1> QED
  BY <1>3, <1>4

(* It does so while no pointer is held.                                  *)
LEMMA ReduceInv == ASSUME Inv, hosts_db_reduce PROVE Inv'
<1>1. /\ DOMAIN hosts' \subseteq DOMAIN hosts
      /\ \A a \in DOMAIN hosts' : hosts'[a] = hosts[a]
      /\ Cardinality(DOMAIN hosts') < hosts_max
  BY Reduced
<1>2. HostsOK'
  BY <1>1 DEF Inv, HostsOK, HostOK
<1>3. hs = NULL /\ hd = NULL /\ sm \in Packet /\ hosts_max # 0
  BY DEF Inv, PointersOK, hosts_db_reduce
<1>4. /\ pc' = "src" /\ hs' = NULL /\ hd' = NULL /\ sm' \in Packet
  BY <1>3 DEF hosts_db_reduce
<1> QED
  BY <1>1, <1>2, <1>3, <1>4 DEF Inv, PointersOK, Room, NoDangling

(* Looking up the source adds at most one host, to which hs then points. *)
LEMMA SrcInv == ASSUME Inv, acct_src PROVE Inv'
<1> DEFINE a == sm.src
<1>1. sm \in Packet /\ a \in Addr /\ hosts_max \in Nat /\ hosts_max # 0 /\ HostsOK
  BY AcctAssumption DEF Inv, PointersOK, acct_src
<1>2. Cardinality(DOMAIN hosts) \in Nat
  BY <1>1, FiniteHosts
<1>3. CASE want_local_only => dir_out(sm)
  <2> DEFINE H == host_get(a)
  <2>1. /\ DOMAIN H = DOMAIN hosts \cup {a}
        /\ \A b \in DOMAIN H : HostOK(H[b])
        /\ Cardinality(DOMAIN H) \in Nat
        /\ Cardinality(DOMAIN H) <= Cardinality(DOMAIN hosts) + 1
    BY <1>1, HostGet
  <2>2. /\ hosts' = [H EXCEPT ![a].out = @ + sm.len] /\ hs' = a
        /\ pc' = "dst" /\ UNCHANGED <<sm, hd>>
    BY <1>3, Zenon DEF acct_src
  <2> HIDE DEF H, a
  <2>3. DOMAIN hosts' = DOMAIN hosts \cup {a} /\ DOMAIN hosts' = DOMAIN H
    BY <2>1, <2>2
  <2>4. HostsOK'
    <3>1. sm.len \in Nat
      BY <1>1, AcctAssumption
    <3>2. \A h : HostOK(h) => HostOK([h EXCEPT !.out = @ + sm.len])
      BY <3>1 DEF HostOK
    <3>3. \A b \in DOMAIN H : hosts'[b] =
            IF b = a THEN [H[b] EXCEPT !.out = @ + sm.len] ELSE H[b]
      BY <2>2
    <3>4. \A b \in DOMAIN H : HostOK(hosts'[b])
      BY <2>1, <3>2, <3>3, Zenon
    <3>5. DOMAIN hosts' \subseteq Addr
      BY <1>1, <2>3 DEF HostsOK
    <3>6. \A b \in DOMAIN hosts' : HostOK(hosts'[b])
      BY <2>3, <3>4
    <3> QED
      BY <3>5, <3>6 DEF HostsOK, HostOK
  <2>5. PointersOK'
    BY <1>1, <2>2, <2>3 DEF Inv, PointersOK, NoDangling, acct_src
  <2>6. Room'
    <3>1. Cardinality(DOMAIN hosts) < hosts_max
      BY <1>1 DEF Inv, Room, acct_src
    <3>2. Cardinality(DOMAIN hosts') <= Cardinality(DOMAIN hosts) + 1
      BY <2>1, <2>3
    <3>3. Cardinality(DOMAIN hosts') \in Nat
      BY <2>1, <2>3
    <3> QED
      BY <1>1, <1>2, <2>2, <3>1, <3>2, <3>3 DEF Room
  <2> QED
    BY <1>1, <2>4, <2>5, <2>6 DEF Inv
<1>4. CASE ~(want_local_only => dir_out(sm))
  <2>1. /\ hs' = NULL /\ hosts' = hosts /\ pc' = "dst" /\ UNCHANGED <<sm, hd>>
    BY <1>4, Zenon DEF acct_src
  <2>2. Room'
    BY <1>1, <1>2, <2>1 DEF Inv, Room, acct_src
  <2>3. HostsOK' /\ PointersOK'
    BY <1>1, <2>1 DEF Inv, HostsOK, HostOK, PointersOK, NoDangling, acct_src
  <2> QED
    BY <1>1, <2>2, <2>3 DEF Inv
<1> QED
  BY <1>3, <1>4

(* Looking up the destination adds at most one more and drops none.      *)
LEMMA DstInv == ASSUME Inv, acct_dst PROVE Inv'
<1> DEFINE a == sm.dst
<1>1. sm \in Packet /\ a \in Addr /\ hosts_max \in Nat /\ hosts_max # 0 /\ HostsOK
  BY AcctAssumption DEF Inv, PointersOK, acct_dst
<1>2. Cardinality(DOMAIN hosts) \in Nat
  BY <1>1, FiniteHosts
<1>3. CASE want_local_only => dir_in(sm)
  <2> DEFINE H == host_get(a)
  <2>1. /\ DOMAIN H = DOMAIN hosts \cup {a}
        /\ \A b \in DOMAIN H : HostOK(H[b])
        /\ Cardinality(DOMAIN H) \in Nat
        /\ Cardinality(DOMAIN H) <= Cardinality(DOMAIN hosts) + 1
    BY <1>1, HostGet
  <2>2. /\ hosts' = [H EXCEPT ![a].in = @ + sm.len] /\ hd' = a
        /\ pc' = "protos" /\ UNCHANGED <<sm, hs>>
    BY <1>3, Zenon DEF acct_dst
  <2> HIDE DEF H, a
  <2>3. DOMAIN hosts' = DOMAIN hosts \cup {a} /\ DOMAIN hosts' = DOMAIN H
    BY <2>1, <2>2
  <2>4. HostsOK'
    <3>1. sm.len \in Nat
      BY <1>1, AcctAssumption
    <3>2. \A h : HostOK(h) => HostOK([h EXCEPT !.in = @ + sm.len])
      BY <3>1 DEF HostOK
    <3>3. \A b \in DOMAIN H : hosts'[b] =
            IF b = a THEN [H[b] EXCEPT !.in = @ + sm.len] ELSE H[b]
      BY <2>2
    <3>4. \A b \in DOMAIN H : HostOK(hosts'[b])
      BY <2>1, <3>2, <3>3, Zenon
    <3>5. DOMAIN hosts' \subseteq Addr
      BY <1>1, <2>3 DEF HostsOK
    <3>6. \A b \in DOMAIN hosts' : HostOK(hosts'[b])
      BY <2>3, <3>4
    <3> QED
      BY <3>5, <3>6 DEF HostsOK, HostOK
  <2>5. PointersOK'
    BY <1>1, <2>2, <2>3 DEF Inv, PointersOK, NoDangling, acct_dst
  <2>6. Room'
    <3>1. Cardinality(DOMAIN hosts) <= hosts_max
      BY <1>1 DEF Inv, Room, acct_dst
    <3>2. Cardinality(DOMAIN hosts') <= Cardinality(DOMAIN hosts) + 1
      BY <2>1, <2>3
    <3>3. Cardinality(DOMAIN hosts') \in Nat
      BY <2>1, <2>3
    <3> QED
      BY <1>1, <1>2, <2>2, <3>1, <3>2, <3>3 DEF Room
  <2> QED
    BY <1>1, <2>4, <2>5, <2>6 DEF Inv
<1>4. CASE ~(want_local_only => dir_in(sm))
  <2>1. /\ hd' = NULL /\ hosts' = hosts /\ pc' = "protos" /\ UNCHANGED <<sm, hs>>
    BY <1>4, Zenon DEF acct_dst
  <2>2. Room'
    BY <1>1, <1>2, <2>1 DEF Inv, Room, acct_dst
  <2>3. HostsOK' /\ PointersOK'
    BY <1>1, <2>1 DEF Inv, HostsOK, HostOK, PointersOK, NoDangling, acct_dst
  <2> QED
    BY <1>1, <2>2, <2>3 DEF Inv
<1> QED
  BY <1>3, <1>4

(* Counting the protocol changes hosts, but not which there are.         *)
LEMMA ProtosInv == ASSUME Inv, acct_protos PROVE Inv'
<1>1. HostsOK
  BY DEF Inv
<1>2. DOMAIN hosts' = DOMAIN hosts /\ \A b \in DOMAIN hosts : HostOK(hosts'[b])
  BY <1>1, AddProtos DEF Stays
<1>3. HostsOK'
  BY <1>1, <1>2 DEF HostsOK, HostOK
<1>4. Room'
  BY <1>2 DEF Inv, Room, acct_protos
<1>5. PointersOK'
  BY <1>2 DEF Inv, PointersOK, NoDangling, acct_protos
<1> QED
  BY <1>3, <1>4, <1>5 DEF Inv, acct_protos

(* Nor does counting the ports.                                          *)
LEMMA PortsInv == ASSUME Inv, acct_ports PROVE Inv'
<1>1. HostsOK
  BY DEF Inv
<1>2. DOMAIN hosts' = DOMAIN hosts /\ \A b \in DOMAIN hosts : HostOK(hosts'[b])
  <2>1. hosts' = add_ports \/ hosts' = hosts
    BY DEF acct_ports
  <2> QED
    BY <1>1, <2>1, AddPorts DEF HostsOK, Stays
<1>3. HostsOK'
  BY <1>1, <1>2 DEF HostsOK, HostOK
<1>4. Room'
  BY <1>2 DEF Inv, Room, acct_ports
<1>5. PointersOK'
  BY <1>2 DEF Inv, PointersOK, NoDangling, acct_ports
<1> QED
  BY <1>3, <1>4, <1>5 DEF Inv, acct_ports

(* A reset empties the table between two packets.                        *)
LEMMA ResetInv == ASSUME Inv, reset PROVE Inv'
BY DEF Inv, HostsOK, PointersOK, Room, NoDangling, reset

(* The inductive invariant of acct_for.                                  *)
THEOREM AcctInv == Spec => []Inv
<1>1. Init => Inv
  BY InitInv
<1>2. Inv /\ [Next]_vars => Inv'
  <2> SUFFICES ASSUME Inv, [Next]_vars PROVE Inv'
    OBVIOUS
  <2>1. ASSUME NEW p \in Packet, acct_totals(p) PROVE Inv'
    BY <2>1, TotalsInv
  <2>2. CASE hosts_db_reduce
    BY <2>2, ReduceInv
  <2>3. CASE acct_src
    BY <2>3, SrcInv
  <2>4. CASE acct_dst
    BY <2>4, DstInv
  <2>5. CASE acct_protos
    BY <2>5, ProtosInv
  <2>6. CASE acct_ports
    BY <2>6, PortsInv
  <2>7. CASE reset
    BY <2>7, ResetInv
  <2>8. CASE UNCHANGED vars
    BY <2>8 DEF vars, Inv, HostsOK, HostOK, PointersOK, Room, NoDangling
  <2> QED
    BY <2>1, <2>2, <2>3, <2>4, <2>5, <2>6, <2>7, <2>8 DEF Next
<1> QED
  BY <1>1, <1>2, PTL DEF Spec

(* acct_for's host pointers stay good: the only reduction of the hosts   *)
(* table comes before the first of them is set.                          *)
THEOREM AcctNoDangling == Spec => []NoDangling
<1>1. Inv => NoDangling
  BY DEF Inv, PointersOK
<1> QED
  BY <1>1, AcctInv, PTL

(* Once a packet has been accounted the hosts table has at most one host *)
(* more than --hosts-max, whatever was imported.                         *)
THEOREM AcctHostsBounded == Spec => []HostsBounded
<1>1. Inv => HostsBounded
  <2> SUFFICES ASSUME Inv, packets > 0, pc # "reduce", hosts_max # 0
               PROVE  Cardinality(DOMAIN hosts) <= hosts_max + 1
    BY DEF HostsBounded
  <2>1. Cardinality(DOMAIN hosts) \in Nat /\ hosts_max \in Nat
    BY FiniteHosts, AcctAssumption DEF Inv
  <2> QED
    BY <2>1 DEF Inv, Room, PointersOK
<1> QED
  BY <1>1, AcctInv, PTL

----------------------------------------------------------------------------
(* Induction, for sets of numbers.                                       *)
LEMMA Induction ==
  ASSUME NEW S \in SUBSET Nat, 0 \in S, \A n \in S : n + 1 \in S
  PROVE  \A n \in Nat : n \in S
<1> SUFFICES ASSUME Nat \ S # {} PROVE FALSE
  OBVIOUS
<1>1. PICK m \in Nat \ S : \A k \in Nat \ S : m <= k
  BY Least
<1>2. m # 0 /\ m - 1 \in Nat /\ ~(m <= m - 1)
  OBVIOUS
<1>3. m - 1 \in S
  BY <1>1, <1>2
<1>4. (m - 1) + 1 = m
  OBVIOUS
<1> QED BY <1>1, <1>3, <1>4

(* One element less.                                                     *)
LEMMA OneLess ==
  ASSUME NEW S, IsFiniteSet(S), NEW s \in SUBSET S
  PROVE  /\ IsFiniteSet(s) /\ Cardinality(s) \in Nat
         /\ Cardinality(s) = 0 <=> s = {}
         /\ \A x \in s : /\ s \ {x} \in SUBSET S
                         /\ Cardinality(s \ {x}) = Cardinality(s) - 1
<1>1. IsFiniteSet(s) /\ Cardinality(s) \in Nat
  BY FS_Subset, FS_CardinalityType
<1>2. Cardinality(s) = 0 <=> s = {}
  BY <1>1, FS_EmptySet
<1>3. \A x \in s : Cardinality(s \ {x}) = Cardinality(s) - 1
  BY <1>1, FS_RemoveElement
<1> QED BY <1>1, <1>2, <1>3

----------------------------------------------------------------------------
(***************************************************************************)
(* Sums.  MapThenSumSet is a recursive function on the subsets of a set,   *)
(* that takes one element after the other.                                 *)
(***************************************************************************)
Pick(s) == CHOOSE x \in s : TRUE
Turn(g, it, s) == IF s = {} THEN 0 ELSE g[Pick(s)] + it[s \ {Pick(s)}]

Folds(it, g, S) == it = [s \in SUBSET S |-> Turn(g, it, s)]

(* it adds up g, in whatever order.                                      *)
Adds(it, g, S) ==
  /\ it \in [SUBSET S -> Int] /\ it[{}] = 0
  /\ \A s \in SUBSET S : \A x \in s : it[s] = g[x] + it[s \ {x}]

(* There is such a function.                                             *)
LEMMA FoldExists ==
  ASSUME NEW S, IsFiniteSet(S), NEW g \in [S -> Int]
  PROVE  \E it : Folds(it, g, S)
<1> DEFINE Small(n) == {s \in SUBSET S : Cardinality(s) <= n}
           Fold(it, n) == /\ it \in [Small(n) -> Int]
                          /\ \A s \in Small(n) : it[s] = Turn(g, it, s)
           Good == {n \in Nat : \E it : Fold(it, n)}
<1>1. \A s \in SUBSET S : /\ Cardinality(s) \in Nat
                          /\ s # {} => /\ Pick(s) \in s
                                       /\ s \ {Pick(s)} \in SUBSET S
                                       /\ Cardinality(s \ {Pick(s)}) = Cardinality(s) - 1
  BY OneLess DEF Pick
<1>2. 0 \in Good
  <2> DEFINE it == [s \in Small(0) |-> 0]
  <2>1. \A s \in Small(0) : s = {}
    <3> SUFFICES ASSUME NEW s \in SUBSET S, Cardinality(s) <= 0 PROVE s = {}
      OBVIOUS
    <3>1. Cardinality(s) = 0
      <4>1. Cardinality(s) \in Nat
        BY <1>1
      <4> QED BY <4>1
    <3> QED BY <3>1, OneLess
  <2>2. Fold(it, 0)
    BY <2>1 DEF Turn
  <2> QED BY <2>2
<1>3. ASSUME NEW n \in Good PROVE n + 1 \in Good
  <2>1. n \in Nat /\ n + 1 \in Nat
    OBVIOUS
  <2>2. PICK it : Fold(it, n)
    BY <1>3
  <2> DEFINE it2 == [s \in Small(n + 1) |-> Turn(g, it, s)]
  <2>3. \A s \in Small(n) : s \in Small(n + 1)
    <3> SUFFICES ASSUME NEW s \in SUBSET S, Cardinality(s) <= n
                 PROVE  Cardinality(s) <= n + 1
      OBVIOUS
    <3>1. Cardinality(s) \in Nat
      BY <1>1
    <3> QED BY <2>1, <3>1
  <2>4. ASSUME NEW s \in Small(n + 1), s # {}
        PROVE  /\ s \ {Pick(s)} \in Small(n) /\ Pick(s) \in S
               /\ it2[s \ {Pick(s)}] = it[s \ {Pick(s)}]
               /\ it[s \ {Pick(s)}] \in Int
    <3>1. s \in SUBSET S /\ Cardinality(s) <= n + 1
      OBVIOUS
    <3>2. s \ {Pick(s)} \in Small(n) /\ Pick(s) \in S
      <4>1. /\ Cardinality(s) \in Nat /\ Pick(s) \in s
            /\ s \ {Pick(s)} \in SUBSET S
            /\ Cardinality(s \ {Pick(s)}) = Cardinality(s) - 1
        BY <1>1, <2>4, <3>1
      <4>2. Cardinality(s \ {Pick(s)}) <= n
        BY <2>1, <3>1, <4>1
      <4> QED BY <3>1, <4>1, <4>2
    <3>3. it2[s \ {Pick(s)}] = Turn(g, it, s \ {Pick(s)})
      BY <2>3, <3>2
    <3>4. it[s \ {Pick(s)}] = Turn(g, it, s \ {Pick(s)}) /\ it[s \ {Pick(s)}] \in Int
      BY <2>2, <3>2
    <3> QED BY <3>2, <3>3, <3>4
  <2>5. ASSUME NEW s \in Small(n + 1)
        PROVE  it2[s] \in Int /\ it2[s] = Turn(g, it2, s)
    <3>1. it2[s] = Turn(g, it, s)
      OBVIOUS
    <3>2. CASE s = {}
      BY <3>1, <3>2 DEF Turn
    <3>3. CASE s # {}
      <4> HIDE DEF it2
      <4> QED BY <2>4, <3>1, <3>3 DEF Turn
    <3> QED BY <3>2, <3>3
  <2>6. it2 \in [Small(n + 1) -> Int]
    BY <2>5
  <2>7. Fold(it2, n + 1)
    BY <2>5, <2>6
  <2> HIDE DEF Fold, it2
  <2> QED BY <2>1, <2>7
<1>4. Cardinality(S) \in Good
  <2> HIDE DEF Good
  <2>1. Good \subseteq Nat
    BY DEF Good
  <2> QED BY <1>2, <1>3, <2>1, Induction, FS_CardinalityType
<1>5. PICK it : Fold(it, Cardinality(S))
  BY <1>4
<1>6. Small(Cardinality(S)) = SUBSET S
  BY FS_Subset
<1>7. it = [s \in SUBSET S |-> it[s]]
  BY <1>5, <1>6
<1>8. \A s \in SUBSET S : it[s] = Turn(g, it, s)
  BY <1>5, <1>6
<1>9. it = [s \in SUBSET S |-> Turn(g, it, s)]
  <2> HIDE DEF Fold
  <2> QED BY <1>7, <1>8, Zenon
<1> QED BY <1>9 DEF Folds

(* It gives the same in any order.                                       *)
LEMMA FoldAdds ==
  ASSUME NEW S, IsFiniteSet(S), NEW g \in [S -> Int],
         NEW it, Folds(it, g, S)
  PROVE  Adds(it, g, S)
<1>1. \A s \in SUBSET S : it[s] = Turn(g, it, s)
  BY DEF Folds
<1>2. it[{}] = 0
  BY <1>1 DEF Turn
<1>3. \A s \in SUBSET S : s # {} => /\ Pick(s) \in s
                                    /\ it[s] = g[Pick(s)] + it[s \ {Pick(s)}]
  BY <1>1 DEF Turn, Pick
<1> DEFINE Right(s) == it[s] \in Int /\ \A x \in s : it[s] = g[x] + it[s \ {x}]
           Good == {n \in Nat : \A s \in SUBSET S : Cardinality(s) <= n => Right(s)}
<1>4. 0 \in Good
  <2> SUFFICES ASSUME NEW s \in SUBSET S, Cardinality(s) <= 0 PROVE Right(s)
    OBVIOUS
  <2>1. s = {}
    BY OneLess
  <2> QED BY <1>2, <2>1
<1>5. ASSUME NEW n \in Good PROVE n + 1 \in Good
  <2>1. n \in Nat /\ \A s \in SUBSET S : Cardinality(s) <= n => Right(s)
    OBVIOUS
  <2>2. ASSUME NEW s \in SUBSET S, Cardinality(s) <= n + 1, s # {} PROVE Right(s)
    <3> DEFINE y == Pick(s)
    <3>1. /\ Cardinality(s) \in Nat
          /\ \A x \in s : /\ s \ {x} \in SUBSET S
                          /\ Cardinality(s \ {x}) = Cardinality(s) - 1
      BY OneLess
    <3>2. \A x \in s : Cardinality(s \ {x}) <= n
      BY <2>1, <2>2, <3>1
    <3>3. y \in s /\ it[s] = g[y] + it[s \ {y}] /\ g[y] \in Int
      BY <1>3, <2>2
    <3>4. \A x \in s : Right(s \ {x})
      <4> HIDE DEF Right
      <4> QED BY <2>1, <3>1, <3>2
    <3>5. it[s] \in Int
      <4>1. it[s \ {y}] \in Int
        BY <3>3, <3>4
      <4> HIDE DEF y
      <4> QED BY <3>3, <4>1
    <3> HIDE DEF y
    <3>6. ASSUME NEW x \in s, x # y PROVE it[s] = g[x] + it[s \ {x}]
      <4>1. it[s \ {y}] = g[x] + it[(s \ {y}) \ {x}]
        BY <3>3, <3>4, <3>6
      <4>2. it[s \ {x}] = g[y] + it[(s \ {x}) \ {y}]
        BY <3>3, <3>4, <3>6
      <4>3. (s \ {y}) \ {x} = (s \ {x}) \ {y}
        OBVIOUS
      <4>4. it[(s \ {x}) \ {y}] \in Int
        <5>1. s \ {x} \in SUBSET S /\ y \in s \ {x}
          BY <3>3, <3>6
        <5>2. /\ Cardinality((s \ {x}) \ {y}) = Cardinality(s \ {x}) - 1
              /\ (s \ {x}) \ {y} \in SUBSET S
          BY <5>1, OneLess
        <5>3. Cardinality((s \ {x}) \ {y}) <= n
          BY <2>1, <3>1, <3>2, <5>2
        <5>4. Right((s \ {x}) \ {y})
          <6> HIDE DEF Right
          <6> QED BY <2>1, <5>2, <5>3
        <5> QED BY <5>4
      <4>5. g[x] \in Int
        OBVIOUS
      <4> DEFINE r == it[(s \ {x}) \ {y}]
      <4>6. it[s] = g[y] + (g[x] + r) /\ it[s \ {x}] = g[y] + r /\ r \in Int
        BY <3>3, <4>1, <4>2, <4>3, <4>4
      <4> HIDE DEF r, Right
      <4> QED BY <3>3, <4>5, <4>6
    <3> QED BY <3>3, <3>5, <3>6
  <2>3. ASSUME NEW s \in SUBSET S, s = {} PROVE Right(s)
    BY <1>2, <2>3
  <2> HIDE DEF Right
  <2> QED BY <2>1, <2>2, <2>3
<1>6. Cardinality(S) \in Good
  <2> HIDE DEF Good
  <2>1. Good \subseteq Nat
    BY DEF Good
  <2> QED BY <1>4, <1>5, <2>1, Induction, FS_CardinalityType
<1>7. \A s \in SUBSET S : Right(s)
  BY <1>6, FS_Subset
<1>8. it = [s \in SUBSET S |-> it[s]]
  <2> HIDE DEF Right
  <2>1. it = [s \in SUBSET S |-> Turn(g, it, s)]
    BY DEF Folds
  <2>2. [s \in SUBSET S |-> Turn(g, it, s)] = [s \in SUBSET S |-> it[s]]
    BY <1>1
  <2> QED BY <2>1, <2>2
<1>9. it \in [SUBSET S -> Int]
  BY <1>7, <1>8
<1> QED BY <1>2, <1>7, <1>9 DEF Adds

(* Where two functions agree, so do their sums.                          *)
LEMMA AddsAlike ==
  ASSUME NEW S, NEW T, NEW g, NEW h, NEW it, NEW jt,
         Adds(it, g, S), Adds(jt, h, T),
         NEW U, IsFiniteSet(U), U \subseteq S, U \subseteq T, \A x \in U : g[x] = h[x]
  PROVE  it[U] = jt[U]
<1> DEFINE Good == {n \in Nat : \A s \in SUBSET U :
                                     Cardinality(s) <= n => it[s] = jt[s]}
<1>1. 0 \in Good
  <2> SUFFICES ASSUME NEW s \in SUBSET U, Cardinality(s) <= 0 PROVE it[s] = jt[s]
    OBVIOUS
  <2>1. s = {}
    BY OneLess
  <2> QED BY <2>1 DEF Adds
<1>2. ASSUME NEW n \in Good PROVE n + 1 \in Good
  <2>1. n \in Nat /\ \A s \in SUBSET U : Cardinality(s) <= n => it[s] = jt[s]
    OBVIOUS
  <2>2. ASSUME NEW s \in SUBSET U, Cardinality(s) <= n + 1 PROVE it[s] = jt[s]
    <3>1. CASE s = {}
      BY <3>1 DEF Adds
    <3>2. CASE s # {}
      <4>1. PICK x \in s : TRUE
        BY <3>2
      <4>2. /\ s \ {x} \in SUBSET U /\ Cardinality(s) \in Nat
            /\ Cardinality(s \ {x}) = Cardinality(s) - 1
        BY OneLess
      <4>3. Cardinality(s \ {x}) <= n
        BY <2>1, <2>2, <4>2
      <4>4. it[s \ {x}] = jt[s \ {x}]
        BY <2>1, <4>2, <4>3
      <4>5. it[s] = g[x] + it[s \ {x}] /\ jt[s] = h[x] + jt[s \ {x}]
        BY DEF Adds
      <4> QED BY <4>4, <4>5
    <3> QED BY <3>1, <3>2
  <2> QED BY <2>1, <2>2
<1>3. Cardinality(U) \in Good
  <2> HIDE DEF Good
  <2>1. Good \subseteq Nat
    BY DEF Good
  <2> QED BY <1>1, <1>2, <2>1, Induction, FS_CardinalityType
<1>4. Cardinality(U) \in Nat
  BY FS_CardinalityType
<1> QED BY <1>3, <1>4

(* A sum is that of any part and of the rest.                            *)
LEMMA AddsParts ==
  ASSUME NEW S, IsFiniteSet(S), NEW g \in [S -> Int], NEW it, Adds(it, g, S),
         NEW U \in SUBSET S
  PROVE  it[S] = it[U] + it[S \ U]
<1> DEFINE Split(s) == it[S] = it[s] + it[S \ s]
           Good == {n \in Nat : \A s \in SUBSET S : Cardinality(s) <= n => Split(s)}
<1>1. /\ \A s \in SUBSET S : it[s] \in Int
      /\ \A s \in SUBSET S : \A x \in s : it[s] = g[x] + it[s \ {x}]
      /\ it[{}] = 0
  BY DEF Adds
<1>2. 0 \in Good
  <2> SUFFICES ASSUME NEW s \in SUBSET S, Cardinality(s) <= 0 PROVE Split(s)
    OBVIOUS
  <2>1. s = {} /\ S \ s = S
    BY OneLess
  <2> QED BY <1>1, <2>1
<1>3. ASSUME NEW n \in Good PROVE n + 1 \in Good
  <2>1. n \in Nat /\ \A s \in SUBSET S : Cardinality(s) <= n => Split(s)
    OBVIOUS
  <2>2. ASSUME NEW s \in SUBSET S, Cardinality(s) <= n + 1 PROVE Split(s)
    <3>1. CASE s = {}
      <4>1. S \ s = S /\ it[S] \in Int
        BY <1>1, <3>1
      <4> QED BY <1>1, <3>1, <4>1
    <3>2. CASE s # {}
      <4>1. PICK x \in s : TRUE
        BY <3>2
      <4> DEFINE t == s \ {x}
      <4>2. /\ t \in SUBSET S
            /\ Cardinality(s) \in Nat /\ Cardinality(t) = Cardinality(s) - 1
        BY OneLess
      <4>3. Cardinality(t) <= n
        BY <2>1, <2>2, <4>2
      <4>4. Split(t)
        <5> HIDE DEF Split, t
        <5> QED BY <2>1, <4>2, <4>3
      <4>5. it[s] = g[x] + it[t]
        BY <1>1
      <4>6. it[S \ t] = g[x] + it[S \ s]
        <5>1. S \ t \in SUBSET S /\ x \in S \ t /\ (S \ t) \ {x} = S \ s
          OBVIOUS
        <5>2. it[S \ t] = g[x] + it[(S \ t) \ {x}]
          <6> HIDE DEF t
          <6> QED BY <1>1, <5>1
        <5> QED BY <5>1, <5>2
      <4>7. g[x] \in Int /\ it[t] \in Int /\ it[S \ s] \in Int
        BY <1>1
      <4> HIDE DEF t
      <4> QED BY <4>4, <4>5, <4>6, <4>7
    <3> QED BY <3>1, <3>2
  <2> HIDE DEF Split
  <2> QED BY <2>1, <2>2
<1>4. Cardinality(S) \in Good
  <2> HIDE DEF Good
  <2>1. Good \subseteq Nat
    BY DEF Good
  <2> QED BY <1>2, <1>3, <2>1, Induction, FS_CardinalityType
<1>5. Cardinality(U) <= Cardinality(S)
  BY FS_Subset
<1> QED BY <1>4, <1>5

(* A sum of members of a set that has 0 and all sums in it is one.       *)
LEMMA AddsIn ==
  ASSUME NEW M, 0 \in M, \A m, n \in M : m + n \in M,
         NEW S, IsFiniteSet(S), NEW g \in [S -> M], NEW it, Adds(it, g, S)
  PROVE  it[S] \in M
<1> DEFINE Good == {n \in Nat : \A s \in SUBSET S : Cardinality(s) <= n => it[s] \in M}
<1>1. 0 \in Good
  <2> SUFFICES ASSUME NEW s \in SUBSET S, Cardinality(s) <= 0 PROVE it[s] \in M
    OBVIOUS
  <2>1. s = {}
    BY OneLess
  <2> QED BY <2>1 DEF Adds
<1>2. ASSUME NEW n \in Good PROVE n + 1 \in Good
  <2>1. n \in Nat /\ \A s \in SUBSET S : Cardinality(s) <= n => it[s] \in M
    OBVIOUS
  <2>2. ASSUME NEW s \in SUBSET S, Cardinality(s) <= n + 1 PROVE it[s] \in M
    <3>1. CASE s = {}
      BY <3>1 DEF Adds
    <3>2. CASE s # {}
      <4>1. PICK x \in s : TRUE
        BY <3>2
      <4>2. /\ s \ {x} \in SUBSET S /\ Cardinality(s) \in Nat
            /\ Cardinality(s \ {x}) = Cardinality(s) - 1
        BY OneLess
      <4>3. Cardinality(s \ {x}) <= n
        BY <2>1, <2>2, <4>2
      <4>4. it[s \ {x}] \in M
        BY <2>1, <4>2, <4>3
      <4>5. it[s] = g[x] + it[s \ {x}] /\ g[x] \in M
        BY DEF Adds
      <4> QED BY <4>4, <4>5
    <3> QED BY <3>1, <3>2
  <2> QED BY <2>1, <2>2
<1>3. Cardinality(S) \in Good
  <2> HIDE DEF Good
  <2>1. Good \subseteq Nat
    BY DEF Good
  <2> QED BY <1>1, <1>2, <2>1, Induction, FS_CardinalityType
<1>4. Cardinality(S) \in Nat
  BY FS_CardinalityType
<1> QED BY <1>3, <1>4

(* Tables whose counters d can be added up.                              *)
Summable(d, H) == IsFiniteSet(DOMAIN H) /\ \A a \in DOMAIN H : H[a][d] \in Int

Counts(d, H) == [a \in DOMAIN H |-> H[a][d]]

(* Their sum is that of such a function.                                 *)
LEMMA SumAdds ==
  ASSUME NEW d, NEW H, Summable(d, H)
  PROVE  \E it : Adds(it, Counts(d, H), DOMAIN H) /\ SumOf(d, H) = it[DOMAIN H]
<1> DEFINE S == DOMAIN H
           Is(it) == it = [s \in SUBSET S |-> IF s = {} THEN 0
                                              ELSE H[Pick(s)][d] + it[s \ {Pick(s)}]]
           it == CHOOSE it : Is(it)
<1>1. Counts(d, H) \in [S -> Int]
  BY DEF Counts, Summable
<1>2. \A f : Folds(f, Counts(d, H), S) <=> Is(f)
  <2> SUFFICES ASSUME NEW f
               PROVE  [s \in SUBSET S |-> Turn(Counts(d, H), f, s)]
                        = [s \in SUBSET S |-> IF s = {} THEN 0
                                              ELSE H[Pick(s)][d] + f[s \ {Pick(s)}]]
    BY DEF Folds
  <2> SUFFICES ASSUME NEW s \in SUBSET S
               PROVE  Turn(Counts(d, H), f, s)
                        = IF s = {} THEN 0 ELSE H[Pick(s)][d] + f[s \ {Pick(s)}]
    OBVIOUS
  <2>1. CASE s = {}
    BY <2>1 DEF Turn
  <2>2. CASE s # {}
    <3>1. Pick(s) \in S
      BY <2>2 DEF Pick
    <3> QED BY <2>2, <3>1 DEF Turn, Counts
  <2> QED BY <2>1, <2>2
<1>3. IsFiniteSet(S)
  BY DEF Summable
<1>4. \E f : Folds(f, Counts(d, H), S)
  <2> HIDE DEF S
  <2> QED BY <1>1, <1>3, FoldExists
<1>5. \E f : Is(f)
  <2> HIDE DEF Is
  <2> QED BY <1>2, <1>4
<1>6. Is(it)
  BY <1>5, Zenon
<1>7. Folds(it, Counts(d, H), S)
  <2> HIDE DEF Is, it
  <2> QED BY <1>2, <1>6
<1>8. Adds(it, Counts(d, H), S)
  <2> HIDE DEF it, S
  <2> QED BY <1>1, <1>3, <1>7, FoldAdds
<1>9. SumOf(d, H) = it[S]
  BY Zenon DEF SumOf, MapThenSumSet, MapThenFoldSet, Pick
<1> QED BY <1>8, <1>9

(* Nothing adds up to nothing.                                           *)
LEMMA SumEmpty ==
  ASSUME NEW d, NEW H, DOMAIN H = {}
  PROVE  SumOf(d, H) = 0
BY DEF SumOf, MapThenSumSet, MapThenFoldSet

(* Sums of integers are integers, and those of natural numbers are natural. *)
LEMMA SumType ==
  ASSUME NEW d, NEW H, Summable(d, H)
  PROVE  /\ SumOf(d, H) \in Int
         /\ (\A a \in DOMAIN H : H[a][d] \in Nat) => SumOf(d, H) \in Nat
         /\ (\A a \in DOMAIN H : H[a][d] = 0) => SumOf(d, H) = 0
<1>1. PICK it : Adds(it, Counts(d, H), DOMAIN H) /\ SumOf(d, H) = it[DOMAIN H]
  BY SumAdds
<1>2. SumOf(d, H) \in Int
  BY <1>1 DEF Adds
<1>3. ASSUME \A a \in DOMAIN H : H[a][d] \in Nat PROVE SumOf(d, H) \in Nat
  <2>1. Counts(d, H) \in [DOMAIN H -> Nat]
    BY <1>3 DEF Counts
  <2>2. IsFiniteSet(DOMAIN H)
    BY DEF Summable
  <2>3. 0 \in Nat /\ \A m, n \in Nat : m + n \in Nat
    OBVIOUS
  <2> QED BY <1>1, <2>1, <2>2, <2>3, AddsIn
<1>4. ASSUME \A a \in DOMAIN H : H[a][d] = 0 PROVE SumOf(d, H) = 0
  <2>1. Counts(d, H) \in [DOMAIN H -> {0}]
    BY <1>4 DEF Counts
  <2>2. IsFiniteSet(DOMAIN H)
    BY DEF Summable
  <2>3. 0 \in {0} /\ \A m, n \in {0} : m + n \in {0}
    OBVIOUS
  <2>4. SumOf(d, H) \in {0}
    BY <1>1, <2>1, <2>2, <2>3, AddsIn
  <2> QED BY <2>4
<1> QED BY <1>2, <1>3, <1>4

(* Tables with the same counters have the same sum.                      *)
LEMMA SumSame ==
  ASSUME NEW d, NEW H, NEW G, Summable(d, H), DOMAIN G = DOMAIN H,
         \A a \in DOMAIN H : G[a][d] = H[a][d]
  PROVE  SumOf(d, G) = SumOf(d, H)
<1>1. PICK it : Adds(it, Counts(d, H), DOMAIN H) /\ SumOf(d, H) = it[DOMAIN H]
  BY SumAdds
<1>2. Summable(d, G)
  BY DEF Summable
<1>3. PICK jt : Adds(jt, Counts(d, G), DOMAIN G) /\ SumOf(d, G) = jt[DOMAIN G]
  BY <1>2, SumAdds
<1>4. Counts(d, G) = Counts(d, H)
  BY DEF Counts
<1>5. it[DOMAIN H] = jt[DOMAIN H]
  <2>1. IsFiniteSet(DOMAIN H)
    BY DEF Summable
  <2> QED BY <1>1, <1>3, <1>4, <2>1, AddsAlike
<1> QED BY <1>1, <1>3, <1>5

(* The sum of a part of a table is that of the function that adds up all.*)
LEMMA SumPart ==
  ASSUME NEW d, NEW H, Summable(d, H), NEW it, Adds(it, Counts(d, H), DOMAIN H),
         NEW K \in SUBSET DOMAIN H
  PROVE  Summable(d, Only(H, K)) /\ SumOf(d, Only(H, K)) = it[K]
<1>1. DOMAIN Only(H, K) = K /\ \A a \in K : Only(H, K)[a] = H[a]
  BY DEF Only
<1>2. IsFiniteSet(K)
  BY FS_Subset DEF Summable
<1>3. Summable(d, Only(H, K))
  BY <1>1, <1>2 DEF Summable
<1>4. PICK jt : Adds(jt, Counts(d, Only(H, K)), K) /\ SumOf(d, Only(H, K)) = jt[K]
  BY <1>1, <1>3, SumAdds
<1>5. \A a \in K : Counts(d, Only(H, K))[a] = Counts(d, H)[a]
  BY <1>1 DEF Counts
<1>6. it[K] = jt[K]
  BY <1>2, <1>4, <1>5, AddsAlike
<1> QED BY <1>3, <1>4, <1>6

(* A table's sum is that of what is kept of it and of what is dropped.   *)
LEMMA SumSplit ==
  ASSUME NEW d, NEW H, Summable(d, H), NEW K \in SUBSET DOMAIN H
  PROVE  /\ Summable(d, Only(H, K)) /\ Summable(d, Only(H, DOMAIN H \ K))
         /\ SumOf(d, H) = SumOf(d, Only(H, K)) + SumOf(d, Only(H, DOMAIN H \ K))
<1>1. PICK it : Adds(it, Counts(d, H), DOMAIN H) /\ SumOf(d, H) = it[DOMAIN H]
  BY SumAdds
<1>2. /\ Summable(d, Only(H, K)) /\ SumOf(d, Only(H, K)) = it[K]
      /\ Summable(d, Only(H, DOMAIN H \ K))
      /\ SumOf(d, Only(H, DOMAIN H \ K)) = it[DOMAIN H \ K]
  BY <1>1, SumPart
<1>3. it[DOMAIN H] = it[K] + it[DOMAIN H \ K]
  <2>1. Counts(d, H) \in [DOMAIN H -> Int] /\ IsFiniteSet(DOMAIN H)
    BY DEF Counts, Summable
  <2> QED BY <1>1, <2>1, AddsParts
<1> QED BY <1>1, <1>2, <1>3

(* Changing or adding one entry changes the sum by as much.              *)
LEMMA SumChange ==
  ASSUME NEW d, NEW H, NEW G, NEW x, Summable(d, H),
         DOMAIN G = DOMAIN H \cup {x}, G[x][d] \in Int,
         \A a \in DOMAIN H : a # x => G[a][d] = H[a][d]
  PROVE  /\ Summable(d, G)
         /\ x \in DOMAIN H    => SumOf(d, G) = SumOf(d, H) - H[x][d] + G[x][d]
         /\ x \notin DOMAIN H => SumOf(d, G) = SumOf(d, H) + G[x][d]
<1> DEFINE R == DOMAIN H \ {x}
<1>1. Summable(d, G)
  <2>1. IsFiniteSet(DOMAIN G)
    BY FS_AddElement DEF Summable
  <2> QED BY <2>1 DEF Summable
<1>2. PICK jt : Adds(jt, Counts(d, G), DOMAIN G) /\ SumOf(d, G) = jt[DOMAIN G]
  BY <1>1, SumAdds
<1>3. PICK it : Adds(it, Counts(d, H), DOMAIN H) /\ SumOf(d, H) = it[DOMAIN H]
  BY SumAdds
<1>4. it[R] = jt[R]
  <2>1. IsFiniteSet(R)
    BY FS_Subset DEF Summable
  <2>2. R \subseteq DOMAIN H /\ R \subseteq DOMAIN G
    OBVIOUS
  <2>3. \A a \in R : Counts(d, H)[a] = Counts(d, G)[a]
    BY DEF Counts
  <2> HIDE DEF R
  <2> QED BY <1>2, <1>3, <2>1, <2>2, <2>3, AddsAlike
<1>5. jt[DOMAIN G] = G[x][d] + jt[R]
  <2>1. DOMAIN G \ {x} = R /\ x \in DOMAIN G /\ Counts(d, G)[x] = G[x][d]
    BY DEF Counts
  <2> QED BY <1>2, <2>1 DEF Adds
<1>6. it[R] \in Int /\ jt[R] \in Int
  BY <1>2, <1>3 DEF Adds
<1>7. CASE x \in DOMAIN H
  <2>1. it[DOMAIN H] = H[x][d] + it[R] /\ H[x][d] \in Int
    BY <1>3, <1>7 DEF Adds, Counts, Summable
  <2> HIDE DEF R
  <2> QED BY <1>1, <1>2, <1>3, <1>4, <1>5, <1>6, <1>7, <2>1
<1>8. CASE x \notin DOMAIN H
  <2>1. R = DOMAIN H
    BY <1>8
  <2> QED BY <1>1, <1>2, <1>3, <1>4, <1>5, <1>6, <1>8, <2>1
<1> QED BY <1>7, <1>8

----------------------------------------------------------------------------
(***************************************************************************)
(* What the hosts have in common with the totals.                          *)
(***************************************************************************)
Way == {"in", "out"}

(* The bytes that should be found in the hosts and among those gone.     *)
Target(d) == IF want_local_only THEN graphed[d] + within ELSE bytes

(* Those of the packet in the works that are not there yet.              *)
LocalTo(d, p) == IF d = "in" THEN dir_in(p) ELSE dir_out(p)
Share(d, p) == IF want_local_only => LocalTo(d, p) THEN p.len ELSE 0
Pending(d) == pc \in {"reduce", "src"} \/ (pc = "dst" /\ d = "in")
Yet(d) == IF Pending(d) THEN Share(d, sm) ELSE 0

Numbers ==
  /\ want_local_only \in BOOLEAN
  /\ bytes \in Nat /\ within \in Nat
  /\ graphed = [in |-> graphed.in, out |-> graphed.out]
  /\ graphed.in \in Nat /\ graphed.out \in Nat
  /\ gone \in [Way -> Int]

Balance ==
  hosts_max # 0 => \A d \in Way : SumOf(d, hosts) + gone[d] + Yet(d) = Target(d)

SumInv == Inv /\ Numbers /\ Balance

(* The hosts of the table can be added up.                               *)
LEMMA HostsSummable ==
  ASSUME HostsOK
  PROVE  \A d \in Way : /\ Summable(d, hosts)
                        /\ SumOf(d, hosts) \in Nat
<1>1. /\ IsFiniteSet(DOMAIN hosts)
      /\ \A a \in DOMAIN hosts : \A d \in Way : hosts[a][d] \in Nat
  BY FiniteHosts DEF HostsOK, HostOK, Way
<1>2. \A d \in Way : Summable(d, hosts)
  BY <1>1 DEF Summable
<1> QED BY <1>1, <1>2, SumType

(* A look-up that drops nothing leaves what is gone.                     *)
LEMMA NothingGone ==
  ASSUME gone \in [Way -> Int], NEW K, DOMAIN hosts \subseteq DOMAIN K
  PROVE  GoneWith(hosts, K) = gone
<1>1. DOMAIN hosts \ DOMAIN K = {}
  OBVIOUS
<1>2. \A d \in Way : SumOf(d, Only(hosts, DOMAIN hosts \ DOMAIN K)) = 0
  BY <1>1, SumEmpty DEF Only
<1>3. GoneWith(hosts, K) = [d \in Way |-> gone[d] + 0]
  BY <1>2 DEF GoneWith, Way
<1> QED BY <1>3

(* Bytes are added to a counter of a host.                               *)
Credit(H, a, e, n) == [H EXCEPT ![a][e] = @ + n]

(* What a packet adds to a host it adds to the sum.                      *)
LEMMA Credited ==
  ASSUME HostsOK, NEW d \in Way, NEW e \in Way, NEW a \in Addr, NEW n \in Nat,
         NEW G, G = Credit(host_get(a), a, e, n)
  PROVE  SumOf(d, G) = SumOf(d, hosts) + IF d = e THEN n ELSE 0
<1> DEFINE H == host_get(a)
<1>1. /\ DOMAIN H = DOMAIN hosts \cup {a}
      /\ \A b \in DOMAIN H : HostOK(H[b])
  BY HostGet
<1>2. /\ \A b \in DOMAIN hosts : H[b] = hosts[b]
      /\ a \notin DOMAIN hosts => H[a][d] = 0
  BY DEF host_get, find_or_insert, Inserted, make_func_host, Way
<1>3. H[a][d] \in Nat /\ H[a][e] \in Nat /\ d \in DOMAIN H[a] /\ e \in DOMAIN H[a]
  BY <1>1 DEF HostOK, Way
<1> HIDE DEF H
<1>4. /\ DOMAIN G = DOMAIN hosts \cup {a}
      /\ \A b \in DOMAIN hosts : b # a => G[b][d] = hosts[b][d]
      /\ G[a] = [H[a] EXCEPT ![e] = @ + n]
  <2>1. G = [H EXCEPT ![a][e] = @ + n]
    BY DEF H, Credit
  <2> QED BY <1>1, <1>2, <2>1
<1>5. G[a][d] = IF d = e THEN H[a][e] + n ELSE H[a][d]
  BY <1>3, <1>4
<1>6. Summable(d, hosts) /\ SumOf(d, hosts) \in Nat
  BY HostsSummable
<1>7. G[a][d] \in Int
  BY <1>3, <1>5
<1>8. /\ a \in DOMAIN hosts    => SumOf(d, G) = SumOf(d, hosts) - hosts[a][d] + G[a][d]
      /\ a \notin DOMAIN hosts => SumOf(d, G) = SumOf(d, hosts) + G[a][d]
  <2>1. DOMAIN G = DOMAIN hosts \cup {a}
    BY <1>4
  <2>2. \A b \in DOMAIN hosts : b # a => G[b][d] = hosts[b][d]
    BY <1>4
  <2>3. Summable(d, hosts)
    BY <1>6
  <2> QED BY <1>7, <2>1, <2>2, <2>3, SumChange
<1>9. CASE a \in DOMAIN hosts
  <2>1. H[a][d] = hosts[a][d]
    BY <1>2, <1>9
  <2> QED BY <1>3, <1>5, <1>6, <1>8, <1>9, <2>1
<1>10. CASE a \notin DOMAIN hosts
  BY <1>2, <1>3, <1>5, <1>6, <1>8, <1>10
<1> QED BY <1>9, <1>10

(* At the start what was imported is taken off what is gone.             *)
LEMMA InitSums == Init => SumInv
<1> SUFFICES ASSUME Init PROVE SumInv
  OBVIOUS
<1>1. Inv
  BY InitInv
<1>2. \A d \in Way : SumOf(d, hosts) \in Nat
  BY <1>1, HostsSummable DEF Inv
<1>3. Numbers
  BY <1>2 DEF Init, Numbers, Way, NoBytes
<1>4. Balance
  <2> SUFFICES ASSUME NEW d \in Way
               PROVE  SumOf(d, hosts) + gone[d] + Yet(d) = Target(d)
    BY DEF Balance
  <2>1. gone[d] = -SumOf(d, hosts)
    BY DEF Init, Way
  <2>2. Yet(d) = 0 /\ Target(d) = 0
    BY DEF Init, Yet, Pending, Target, NoBytes, Way
  <2> QED BY <1>2, <2>1, <2>2
<1> QED BY <1>1, <1>3, <1>4 DEF SumInv

(* The packet is counted where it will be added to the hosts.            *)
LEMMA TotalsSums == ASSUME SumInv, NEW p \in Packet, acct_totals(p) PROVE SumInv'
<1>1. Inv'
  BY TotalsInv DEF SumInv
<1>2. p.len \in Nat
  BY AcctAssumption
<1>3. /\ bytes' = bytes + p.len
      /\ graphed' = [in  |-> graphed.in  + IF dir_in(p) /\ ~dir_out(p) THEN p.len ELSE 0,
                     out |-> graphed.out + IF dir_out(p) /\ ~dir_in(p) THEN p.len ELSE 0]
      /\ within' = within + IF dir_in(p) /\ dir_out(p) THEN p.len ELSE 0
      /\ sm' = p /\ hosts' = hosts /\ gone' = gone
      /\ want_local_only' = want_local_only
      /\ pc = "idle" /\ pc' = IF hosts_max = 0 THEN "idle" ELSE "reduce"
  BY Zenon DEF acct_totals
<1>4. Numbers'
  BY <1>2, <1>3 DEF SumInv, Numbers
<1>5. Balance'
  <2> SUFFICES ASSUME hosts_max # 0, NEW d \in Way
               PROVE  SumOf(d, hosts') + gone'[d] + Yet(d)' = Target(d)'
    BY DEF Balance
  <2>1. SumOf(d, hosts) + gone[d] + Yet(d) = Target(d)
    BY DEF SumInv, Balance
  <2>2. Yet(d) = 0 /\ Yet(d)' = Share(d, p)'
    BY <1>3 DEF Yet, Pending
  <2>3. Share(d, p)' = Share(d, p)
    BY <1>3 DEF Share, LocalTo, dir_in, dir_out
  <2>4. Target(d)' = Target(d) + Share(d, p)
    <3>1. CASE ~want_local_only
      BY <1>2, <1>3, <3>1 DEF Target, Share
    <3>2. CASE want_local_only /\ d = "in"
      BY <1>2, <1>3, <3>2 DEF Target, Share, LocalTo, SumInv, Numbers
    <3>3. CASE want_local_only /\ d = "out"
      BY <1>2, <1>3, <3>3 DEF Target, Share, LocalTo, SumInv, Numbers
    <3> QED BY <3>1, <3>2, <3>3 DEF SumInv, Numbers, Way
  <2>5. SumOf(d, hosts) \in Nat /\ gone[d] \in Int /\ Share(d, p) \in Nat
    BY <1>2, HostsSummable DEF SumInv, Inv, Numbers, Share
  <2>6. SumOf(d, hosts') = SumOf(d, hosts) /\ gone'[d] = gone[d]
    BY <1>3
  <2>7. Target(d) \in Int
    BY DEF SumInv, Numbers, Target, Way
  <2> QED BY <2>1, <2>2, <2>3, <2>4, <2>5, <2>6, <2>7
<1> QED BY <1>1, <1>4, <1>5 DEF SumInv

(* What a reduction drops is gone.                                       *)
LEMMA ReduceSums == ASSUME SumInv, hosts_db_reduce PROVE SumInv'
<1>1. Inv'
  BY ReduceInv DEF SumInv
<1>2. /\ DOMAIN hosts' \subseteq DOMAIN hosts
      /\ \A a \in DOMAIN hosts' : hosts'[a] = hosts[a]
  BY Reduced DEF SumInv
<1>3. \A d \in Way : /\ SumOf(d, hosts') \in Int
                     /\ gone'[d] = gone[d] + (SumOf(d, hosts) - SumOf(d, hosts'))
                     /\ gone'[d] \in Int
  <2> SUFFICES ASSUME NEW d \in Way
               PROVE  /\ SumOf(d, hosts') \in Int
                      /\ gone'[d] = gone[d] + (SumOf(d, hosts) - SumOf(d, hosts'))
                      /\ gone'[d] \in Int
    OBVIOUS
  <2> DEFINE K == DOMAIN hosts'
             R == DOMAIN hosts \ K
  <2>1. Summable(d, hosts)
    BY HostsSummable DEF SumInv, Inv
  <2>2. /\ Summable(d, Only(hosts, K)) /\ Summable(d, Only(hosts, R))
        /\ SumOf(d, hosts) = SumOf(d, Only(hosts, K)) + SumOf(d, Only(hosts, R))
    BY <1>2, <2>1, SumSplit
  <2>3. SumOf(d, Only(hosts, K)) \in Int /\ SumOf(d, Only(hosts, R)) \in Int
    BY <2>2, SumType
  <2>4. gone'[d] = gone[d] + SumOf(d, Only(hosts, R))
    BY DEF hosts_db_reduce, GoneWith, Way
  <2>5. gone[d] \in Int
    BY DEF SumInv, Numbers
  <2>6. SumOf(d, hosts') = SumOf(d, Only(hosts, K))
    <3>1. /\ DOMAIN hosts' = DOMAIN Only(hosts, K)
          /\ \A a \in DOMAIN Only(hosts, K) : hosts'[a][d] = Only(hosts, K)[a][d]
      BY <1>2 DEF Only
    <3> HIDE DEF K, R
    <3> QED BY <2>2, <3>1, SumSame
  <2> HIDE DEF K, R
  <2> QED BY <2>2, <2>3, <2>4, <2>5, <2>6
<1>4. /\ UNCHANGED <<want_local_only, packets, bytes, graphed, within, sm>>
      /\ pc = "reduce" /\ pc' = "src"
  BY DEF hosts_db_reduce
<1>5. Numbers'
  <2>1. gone' = [d \in Way |-> gone'[d]]
    BY DEF hosts_db_reduce, GoneWith, Way
  <2>2. gone' \in [Way -> Int]
    BY <1>3, <2>1
  <2> QED BY <1>4, <2>2 DEF SumInv, Numbers
<1>6. Balance'
  <2> SUFFICES ASSUME hosts_max # 0, NEW d \in Way
               PROVE  SumOf(d, hosts') + gone'[d] + Yet(d)' = Target(d)'
    BY DEF Balance
  <2>1. SumOf(d, hosts) + gone[d] + Yet(d) = Target(d)
    BY DEF SumInv, Balance
  <2>2. Yet(d)' = Yet(d) /\ Target(d)' = Target(d)
    BY <1>4 DEF Yet, Pending, Share, LocalTo, dir_in, dir_out, Target
  <2>3. SumOf(d, hosts) \in Nat /\ gone[d] \in Int
    BY HostsSummable DEF SumInv, Inv, Numbers
  <2>4. Yet(d) \in Nat
    <3>1. sm \in Packet
      BY <1>4 DEF SumInv, Inv, PointersOK
    <3> QED BY <3>1, AcctAssumption DEF Yet, Share
  <2> QED BY <1>3, <2>1, <2>2, <2>3, <2>4
<1> QED BY <1>1, <1>5, <1>6 DEF SumInv

(* The source's bytes move from what is yet to be counted to the host.   *)
LEMMA SrcSums == ASSUME SumInv, acct_src PROVE SumInv'
<1> DEFINE a == sm.src
<1>1. Inv'
  BY SrcInv DEF SumInv
<1>2. /\ UNCHANGED <<want_local_only, bytes, graphed, within, sm>>
      /\ pc = "src" /\ pc' = "dst"
  BY DEF acct_src
<1>3. sm \in Packet /\ a \in Addr /\ sm.len \in Nat /\ HostsOK /\ gone \in [Way -> Int]
  BY <1>2, AcctAssumption DEF SumInv, Inv, PointersOK, Numbers
<1>4. /\ gone' = gone
      /\ \A d \in Way :
              SumOf(d, hosts') = SumOf(d, hosts) + IF d = "out" THEN Share(d, sm) ELSE 0
  <2>1. CASE want_local_only => dir_out(sm)
    <3>1. /\ hosts' = [host_get(a) EXCEPT ![a].out = @ + sm.len]
          /\ gone' = GoneWith(hosts, host_get(a))
      BY <2>1, Zenon DEF acct_src
    <3>2. gone' = gone
      <4>1. DOMAIN hosts \subseteq DOMAIN host_get(a)
        BY <1>3, HostGet
      <4> QED BY <1>3, <3>1, <4>1, NothingGone
    <3>3. Share("out", sm) = sm.len
      BY <2>1 DEF Share, LocalTo
    <3>4. \A d \in Way :
               SumOf(d, hosts') = SumOf(d, hosts) + IF d = "out" THEN sm.len ELSE 0
      <4>1. hosts' = Credit(host_get(a), a, "out", sm.len) /\ "out" \in Way
        BY <3>1 DEF Way, Credit
      <4> HIDE DEF a
      <4> QED BY <1>3, <4>1, Credited
    <3> QED BY <3>2, <3>3, <3>4
  <2>2. CASE ~(want_local_only => dir_out(sm))
    <3>1. hosts' = hosts /\ gone' = gone
      BY <2>2, Zenon DEF acct_src
    <3>2. Share("out", sm) = 0
      BY <2>2 DEF Share, LocalTo
    <3>3. \A d \in Way : SumOf(d, hosts) \in Nat
      BY <1>3, HostsSummable
    <3> QED BY <3>1, <3>2, <3>3
  <2> QED BY <2>1, <2>2
<1>5. Numbers'
  BY <1>2, <1>4 DEF SumInv, Numbers
<1>6. Balance'
  <2> SUFFICES ASSUME hosts_max # 0, NEW d \in Way
               PROVE  SumOf(d, hosts') + gone'[d] + Yet(d)' = Target(d)'
    BY DEF Balance
  <2>1. SumOf(d, hosts) + gone[d] + Yet(d) = Target(d)
    BY DEF SumInv, Balance
  <2>2. Target(d)' = Target(d)
    BY <1>2 DEF Target
  <2>3. Share(d, sm)' = Share(d, sm) /\ Share(d, sm) \in Nat
    BY <1>2, <1>3 DEF Share, LocalTo, dir_in, dir_out
  <2>4. Yet(d) = Share(d, sm) /\ Yet(d)' = IF d = "in" THEN Share(d, sm) ELSE 0
    BY <1>2, <2>3 DEF Yet, Pending
  <2>5. SumOf(d, hosts) \in Nat /\ gone[d] \in Int
    BY <1>3, HostsSummable
  <2> QED BY <1>4, <2>1, <2>2, <2>3, <2>4, <2>5 DEF Way
<1> QED BY <1>1, <1>5, <1>6 DEF SumInv

(* And so do the destination's.                                          *)
LEMMA DstSums == ASSUME SumInv, acct_dst PROVE SumInv'
<1> DEFINE a == sm.dst
<1>1. Inv'
  BY DstInv DEF SumInv
<1>2. /\ UNCHANGED <<want_local_only, bytes, graphed, within, sm>>
      /\ pc = "dst" /\ pc' = "protos"
  BY DEF acct_dst
<1>3. sm \in Packet /\ a \in Addr /\ sm.len \in Nat /\ HostsOK /\ gone \in [Way -> Int]
  BY <1>2, AcctAssumption DEF SumInv, Inv, PointersOK, Numbers
<1>4. /\ gone' = gone
      /\ \A d \in Way :
              SumOf(d, hosts') = SumOf(d, hosts) + IF d = "in" THEN Share(d, sm) ELSE 0
  <2>1. CASE want_local_only => dir_in(sm)
    <3>1. /\ hosts' = [host_get(a) EXCEPT ![a].in = @ + sm.len]
          /\ gone' = GoneWith(hosts, host_get(a))
      BY <2>1, Zenon DEF acct_dst
    <3>2. gone' = gone
      <4>1. DOMAIN hosts \subseteq DOMAIN host_get(a)
        BY <1>3, HostGet
      <4> QED BY <1>3, <3>1, <4>1, NothingGone
    <3>3. Share("in", sm) = sm.len
      BY <2>1 DEF Share, LocalTo
    <3>4. \A d \in Way :
               SumOf(d, hosts') = SumOf(d, hosts) + IF d = "in" THEN sm.len ELSE 0
      <4>1. hosts' = Credit(host_get(a), a, "in", sm.len) /\ "in" \in Way
        BY <3>1 DEF Way, Credit
      <4> HIDE DEF a
      <4> QED BY <1>3, <4>1, Credited
    <3> QED BY <3>2, <3>3, <3>4
  <2>2. CASE ~(want_local_only => dir_in(sm))
    <3>1. hosts' = hosts /\ gone' = gone
      BY <2>2, Zenon DEF acct_dst
    <3>2. Share("in", sm) = 0
      BY <2>2 DEF Share, LocalTo
    <3>3. \A d \in Way : SumOf(d, hosts) \in Nat
      BY <1>3, HostsSummable
    <3> QED BY <3>1, <3>2, <3>3
  <2> QED BY <2>1, <2>2
<1>5. Numbers'
  BY <1>2, <1>4 DEF SumInv, Numbers
<1>6. Balance'
  <2> SUFFICES ASSUME hosts_max # 0, NEW d \in Way
               PROVE  SumOf(d, hosts') + gone'[d] + Yet(d)' = Target(d)'
    BY DEF Balance
  <2>1. SumOf(d, hosts) + gone[d] + Yet(d) = Target(d)
    BY DEF SumInv, Balance
  <2>2. Target(d)' = Target(d)
    BY <1>2 DEF Target
  <2>3. Share(d, sm) \in Nat
    BY <1>3 DEF Share
  <2>4. Yet(d) = (IF d = "in" THEN Share(d, sm) ELSE 0) /\ Yet(d)' = 0
    BY <1>2 DEF Yet, Pending
  <2>5. SumOf(d, hosts) \in Nat /\ gone[d] \in Int
    BY <1>3, HostsSummable
  <2> QED BY <1>4, <2>1, <2>2, <2>3, <2>4, <2>5 DEF Way
<1> QED BY <1>1, <1>5, <1>6 DEF SumInv

(* What is done to protocols and ports does not touch the balance.       *)
LEMMA StaySums ==
  ASSUME SumInv, Inv',
         UNCHANGED <<want_local_only, bytes, graphed, within, gone>>,
         DOMAIN hosts' = DOMAIN hosts,
         \A b \in DOMAIN hosts : Stays(hosts[b], hosts'[b]),
         \A d \in Way : Yet(d)' = Yet(d)
  PROVE  SumInv'
<1>1. Numbers'
  BY DEF SumInv, Numbers
<1>2. \A d \in Way : SumOf(d, hosts') = SumOf(d, hosts)
  <2> SUFFICES ASSUME NEW d \in Way PROVE SumOf(d, hosts') = SumOf(d, hosts)
    OBVIOUS
  <2>1. Summable(d, hosts)
    BY HostsSummable DEF SumInv, Inv
  <2>2. \A b \in DOMAIN hosts : hosts'[b][d] = hosts[b][d]
    BY DEF Stays, Way
  <2> QED BY <2>1, <2>2, SumSame
<1>3. Balance'
  <2> SUFFICES ASSUME hosts_max # 0, NEW d \in Way
               PROVE  SumOf(d, hosts') + gone'[d] + Yet(d)' = Target(d)'
    BY DEF Balance
  <2>1. SumOf(d, hosts) + gone[d] + Yet(d) = Target(d)
    BY DEF SumInv, Balance
  <2>2. Target(d)' = Target(d)
    BY DEF Target
  <2> QED BY <1>2, <2>1, <2>2
<1> QED BY <1>1, <1>3 DEF SumInv

(* What acct_for adds to the protocols of the two hosts.                 *)
LEMMA ProtosSums == ASSUME SumInv, acct_protos PROVE SumInv'
<1>1. Inv' /\ HostsOK
  BY ProtosInv DEF SumInv, Inv
<1>2. /\ DOMAIN hosts' = DOMAIN hosts
      /\ \A b \in DOMAIN hosts : Stays(hosts[b], hosts'[b])
  BY <1>1, AddProtos
<1>3. \A d \in Way : Yet(d)' = Yet(d)
  BY DEF acct_protos, Yet, Pending
<1>4. UNCHANGED <<want_local_only, bytes, graphed, within, gone>>
  BY DEF acct_protos
<1> QED BY <1>1, <1>2, <1>3, <1>4, StaySums

(* What it adds to their ports.                                          *)
LEMMA PortsSums == ASSUME SumInv, acct_ports PROVE SumInv'
<1>1. Inv' /\ HostsOK
  BY PortsInv DEF SumInv, Inv
<1>2. /\ DOMAIN hosts' = DOMAIN hosts
      /\ \A b \in DOMAIN hosts : Stays(hosts[b], hosts'[b])
  <2>1. hosts' = add_ports \/ hosts' = hosts
    BY DEF acct_ports
  <2> QED BY <1>1, <2>1, AddPorts DEF HostsOK, Stays
<1>3. \A d \in Way : Yet(d)' = Yet(d)
  BY DEF acct_ports, Yet, Pending
<1>4. UNCHANGED <<want_local_only, bytes, graphed, within, gone>>
  BY DEF acct_ports
<1> QED BY <1>1, <1>2, <1>3, <1>4, StaySums

(* A reset starts from nothing.                                          *)
LEMMA ResetSums == ASSUME SumInv, reset PROVE SumInv'
<1>1. Inv'
  BY ResetInv DEF SumInv
<1>2. /\ DOMAIN hosts' = {} /\ gone' = [in |-> 0, out |-> 0]
      /\ bytes' = 0 /\ within' = 0
      /\ graphed' = [in |-> 0, out |-> 0] /\ want_local_only' = want_local_only
      /\ pc = "idle" /\ pc' = pc
  BY DEF reset, NoBytes
<1>3. Numbers'
  BY <1>2 DEF SumInv, Numbers, Way
<1>4. Balance'
  <2> SUFFICES ASSUME NEW d \in Way
               PROVE  SumOf(d, hosts') + gone'[d] + Yet(d)' = Target(d)'
    BY DEF Balance
  <2>1. SumOf(d, hosts') = 0
    BY <1>2, SumEmpty
  <2>2. gone'[d] = 0 /\ Yet(d)' = 0 /\ Target(d)' = 0
    BY <1>2 DEF Way, Yet, Pending, Target
  <2> QED BY <2>1, <2>2
<1> QED BY <1>1, <1>3, <1>4 DEF SumInv

(* In every reachable state.                                             *)
THEOREM AcctSums == Spec => []SumInv
<1>1. SumInv /\ [Next]_vars => SumInv'
  <2> SUFFICES ASSUME SumInv, [Next]_vars PROVE SumInv'
    OBVIOUS
  <2>1. ASSUME NEW p \in Packet, acct_totals(p) PROVE SumInv'
    BY <2>1, TotalsSums
  <2>2. CASE hosts_db_reduce
    BY <2>2, ReduceSums
  <2>3. CASE acct_src
    BY <2>3, SrcSums
  <2>4. CASE acct_dst
    BY <2>4, DstSums
  <2>5. CASE acct_protos
    BY <2>5, ProtosSums
  <2>6. CASE acct_ports
    BY <2>6, PortsSums
  <2>7. CASE reset
    BY <2>7, ResetSums
  <2>8. CASE UNCHANGED vars
    BY <2>8
    DEF vars, SumInv, Inv, HostsOK, HostOK, PointersOK, Room, NoDangling, Numbers,
        Balance, Yet, Pending, Share, LocalTo, dir_in, dir_out, Target
  <2> QED
    BY <2>1, <2>2, <2>3, <2>4, <2>5, <2>6, <2>7, <2>8 DEF Next
<1> QED BY <1>1, InitSums, PTL DEF Spec

(* Between packets the hosts' bytes, with those of hosts that are gone,  *)
(* are the total, whatever was imported or evicted on the way (acct_for).*)
THEOREM AcctHostsAddUp == Spec => []HostsAddUp
<1>1. SumInv => HostsAddUp
  <2> SUFFICES ASSUME SumInv, pc = "idle", hosts_max # 0
               PROVE  \A d \in Way : SumOf(d, hosts) + gone[d] = Target(d)
    BY DEF HostsAddUp, Way, Target
  <2> SUFFICES ASSUME NEW d \in Way
               PROVE  SumOf(d, hosts) + gone[d] = Target(d)
    OBVIOUS
  <2>1. SumOf(d, hosts) + gone[d] + Yet(d) = Target(d) /\ Yet(d) = 0
    BY DEF SumInv, Balance, Yet, Pending
  <2>2. SumOf(d, hosts) \in Nat /\ gone[d] \in Int
    BY HostsSummable DEF SumInv, Inv, Numbers
  <2> QED BY <2>1, <2>2
<1> QED BY <1>1, AcctSums, PTL

----------------------------------------------------------------------------
(***************************************************************************)
(* What a host's own tables have in common with its counters.              *)
(***************************************************************************)
Opposite(d) == IF d = "in" THEN "out" ELSE "in"

(* The way of the host that way e of the ports in table t stands for.    *)
Side(t, e) == IF t[2] = "local" THEN e ELSE Opposite(e)

(* What of the host's bytes is in no protocol yet, and what of a         *)
(* protocol's in no port.                                                *)
Spare     == [Way -> Nat]
PortSpare == [Ports -> [Way -> Nat]]

Good(h, u, q) ==
  /\ IsHost(h)
  /\ ports_max # 0 => \A t \in Ports : Cardinality(DOMAIN h.ports[t]) <= ports_max
  /\ \A d \in Way : SumOf(d, h.protos) + u[d] <= h[d]
  /\ \A t \in Ports : t[1] \in Proto =>
       \A e \in Way : SumOf(e, h.ports[t]) + q[t][e] <= h.protos[t[1]][Side(t, e)]

(* The tables of a host can be added up.                                 *)
LEMMA HostNumbers ==
  ASSUME NEW h, IsHost(h)
  PROVE  /\ \A d \in Way : h[d] \in Nat
         /\ \A d \in Way : Summable(d, h.protos) /\ SumOf(d, h.protos) \in Nat
         /\ \A p \in Proto : \A d \in Way : h.protos[p][d] \in Nat
         /\ \A t \in Ports : \A e \in Way :
              Summable(e, h.ports[t]) /\ SumOf(e, h.ports[t]) \in Nat
         /\ \A t \in Ports : \A e \in Way : Side(t, e) \in Way
<1>1. \A d \in Way : h[d] \in Nat
  BY DEF IsHost, Way
<1>2. DOMAIN h.protos = Proto /\ \A p \in Proto : \A d \in Way : h.protos[p][d] \in Nat
  <2>1. h.protos \in [Proto -> Counters]
    BY DEF IsHost
  <2>2. \A c \in Counters : \A d \in Way : c[d] \in Nat
    BY DEF Counters, Way
  <2> QED BY <2>1, <2>2
<1>3. \A d \in Way : Summable(d, h.protos) /\ SumOf(d, h.protos) \in Nat
  <2>1. IsFiniteSet(Proto)
    BY AcctAssumption
  <2>2. \A d \in Way : Summable(d, h.protos)
    BY <1>2, <2>1 DEF Summable
  <2> QED BY <1>2, <2>2, SumType
<1>4. ASSUME NEW t \in Ports, NEW e \in Way
      PROVE  Summable(e, h.ports[t]) /\ SumOf(e, h.ports[t]) \in Nat
  <2>1. IsFiniteSet(DOMAIN h.ports[t])
    <3>1. 0 \in Int /\ highest_port \in Int
      BY AcctAssumption
    <3>2. IsFiniteSet(0..highest_port)
      BY <3>1, FS_Interval
    <3>3. DOMAIN h.ports[t] \subseteq 0..highest_port
      BY DEF IsHost
    <3> QED BY <3>2, <3>3, FS_Subset
  <2>2. \A k \in DOMAIN h.ports[t] : h.ports[t][k][e] \in Nat
    BY DEF IsHost, Way
  <2>3. Summable(e, h.ports[t])
    BY <2>1, <2>2 DEF Summable
  <2> QED BY <2>2, <2>3, SumType
<1>5. \A t \in Ports : \A e \in Way : Side(t, e) \in Way
  BY DEF Side, Opposite, Way
<1> QED BY <1>1, <1>2, <1>3, <1>4, <1>5

(* A host that fits does so with less to spare.                          *)
LEMMA LessSpare ==
  ASSUME NEW h, NEW u \in Spare, NEW q \in PortSpare, Good(h, u, q),
         NEW v \in Spare, NEW r \in PortSpare,
         \A d \in Way : v[d] <= u[d],
         \A t \in Ports : \A e \in Way : r[t][e] <= q[t][e]
  PROVE  Good(h, v, r)
<1>1. IsHost(h)
  BY DEF Good
<1>2. ASSUME NEW d \in Way PROVE SumOf(d, h.protos) + v[d] <= h[d]
  <2>1. SumOf(d, h.protos) \in Nat /\ u[d] \in Nat /\ v[d] \in Nat /\ h[d] \in Nat
    BY <1>1, HostNumbers DEF Spare
  <2>2. SumOf(d, h.protos) + u[d] <= h[d]
    BY DEF Good
  <2>3. v[d] <= u[d]
    OBVIOUS
  <2> QED BY <2>1, <2>2, <2>3
<1>3. ASSUME NEW t \in Ports, t[1] \in Proto, NEW e \in Way
      PROVE  SumOf(e, h.ports[t]) + r[t][e] <= h.protos[t[1]][Side(t, e)]
  <2>1. /\ SumOf(e, h.ports[t]) \in Nat /\ q[t][e] \in Nat /\ r[t][e] \in Nat
        /\ h.protos[t[1]][Side(t, e)] \in Nat
    BY <1>1, <1>3, HostNumbers DEF PortSpare
  <2>2. SumOf(e, h.ports[t]) + q[t][e] <= h.protos[t[1]][Side(t, e)]
    BY <1>3 DEF Good
  <2>3. r[t][e] <= q[t][e]
    OBVIOUS
  <2> QED BY <2>1, <2>2, <2>3
<1> QED BY <1>2, <1>3 DEF Good

(* A new host has nothing to spare.                                      *)
LEMMA NewHost ==
  ASSUME NEW u \in Spare, NEW q \in PortSpare,
         \A d \in Way : u[d] = 0, \A t \in Ports : \A e \in Way : q[t][e] = 0
  PROVE  Good(make_func_host, u, q)
<1> DEFINE h == make_func_host
<1>1. /\ h.in = 0 /\ h.out = 0
      /\ h.protos = [p \in Proto |-> NoBytes]
      /\ h.ports = [t \in Ports |-> [k \in {} |-> 0]]
      /\ DOMAIN h = {"in", "out", "protos", "ports"}
  BY DEF make_func_host
<1>2. NoBytes \in Counters /\ \A d \in Way : NoBytes[d] = 0
  BY DEF NoBytes, Counters, Way
<1> HIDE DEF h
<1>3. IsHost(h)
  BY <1>1, <1>2 DEF IsHost
<1>4. \A t \in Ports : DOMAIN h.ports[t] = {}
  BY <1>1
<1>5. \A d \in Way : SumOf(d, h.protos) = 0 /\ h[d] = 0
  <2>1. \A d \in Way : Summable(d, h.protos)
    BY <1>3, HostNumbers
  <2>2. \A d \in Way : \A p \in DOMAIN h.protos : h.protos[p][d] = 0
    BY <1>1, <1>2
  <2>3. \A d \in Way : h[d] = 0
    BY <1>1 DEF Way
  <2> QED BY <2>1, <2>2, <2>3, SumType
<1>6. \A t \in Ports : \A e \in Way : SumOf(e, h.ports[t]) = 0
  BY <1>4, SumEmpty
<1>7. \A t \in Ports : t[1] \in Proto =>
        \A e \in Way : h.protos[t[1]][Side(t, e)] \in Nat
  BY <1>3, HostNumbers
<1>8. \A t \in Ports : Cardinality(DOMAIN h.ports[t]) = 0
  BY <1>4, FS_EmptySet
<1>9. ports_max \in Nat
  BY AcctAssumption
<1>10. \A t \in Ports : t[1] \in Proto =>
         \A e \in Way : SumOf(e, h.ports[t]) + q[t][e] <= h.protos[t[1]][Side(t, e)]
  BY <1>6, <1>7
<1>11. \A d \in Way : SumOf(d, h.protos) + u[d] <= h[d]
  BY <1>5
<1>12. ports_max # 0 => \A t \in Ports : Cardinality(DOMAIN h.ports[t]) <= ports_max
  BY <1>8, <1>9
<1>13. Good(h, u, q)
  BY <1>3, <1>10, <1>11, <1>12 DEF Good
<1> QED BY <1>13 DEF h

(* Bytes of its own give a host as much to spare.                        *)
LEMMA OwnBytes ==
  ASSUME NEW h, NEW u \in Spare, NEW q \in PortSpare, Good(h, u, q),
         NEW d \in Way, NEW n \in Nat, NEW v \in Spare,
         \A e \in Way : v[e] = u[e] + IF e = d THEN n ELSE 0
  PROVE  Good([h EXCEPT ![d] = @ + n], v, q)
<1> DEFINE k == [h EXCEPT ![d] = @ + n]
<1>1. IsHost(h) /\ d \in {"in", "out"} /\ \A e \in Way : h[e] \in Nat
  BY HostNumbers DEF Good, Way
<1>2. /\ DOMAIN k = DOMAIN h /\ k.protos = h.protos /\ k.ports = h.ports
      /\ \A e \in Way : k[e] = h[e] + IF e = d THEN n ELSE 0
  BY <1>1 DEF IsHost, Way
<1>3. IsHost(k)
  BY <1>1, <1>2 DEF IsHost, Way
<1> HIDE DEF k
<1>4. ASSUME NEW e \in Way PROVE SumOf(e, k.protos) + v[e] <= k[e]
  <2>1. SumOf(e, h.protos) \in Nat /\ u[e] \in Nat /\ h[e] \in Nat
    BY <1>1, HostNumbers DEF Spare
  <2>2. SumOf(e, h.protos) + u[e] <= h[e]
    BY DEF Good
  <2> QED BY <1>2, <2>1, <2>2
<1>5. Good(k, v, q)
  BY <1>2, <1>3, <1>4 DEF Good
<1> QED BY <1>5 DEF k

(* Counting n of them for a protocol, the ports have n to spare.         *)
LEMMA ProtoBytes ==
  ASSUME NEW h, NEW u \in Spare, NEW q \in PortSpare, Good(h, u, q),
         NEW p \in Proto, NEW d \in Way, NEW n \in Nat,
         NEW v \in Spare, NEW r \in PortSpare,
         \A e \in Way : v[e] + (IF e = d THEN n ELSE 0) <= u[e],
         \A t \in Ports : \A e \in Way :
           r[t][e] <= q[t][e] + IF t[1] = p /\ Side(t, e) = d THEN n ELSE 0
  PROVE  Good([h EXCEPT !.protos[p][d] = @ + n], v, r)
<1> DEFINE k == [h EXCEPT !.protos[p][d] = @ + n]
           P == h.protos
           R == k.protos
<1>1. IsHost(h) /\ P \in [Proto -> Counters]
  BY DEF Good, IsHost
<1>2. /\ DOMAIN k = DOMAIN h /\ k.in = h.in /\ k.out = h.out /\ k.ports = h.ports
      /\ R = [P EXCEPT ![p][d] = @ + n]
  BY <1>1 DEF IsHost
<1> HIDE DEF k, P
<1>3. /\ DOMAIN R = Proto /\ R = [x \in Proto |-> R[x]]
      /\ \A x \in Proto : R[x] = IF x = p THEN [P[p] EXCEPT ![d] = @ + n] ELSE P[x]
  BY <1>1, <1>2
<1> HIDE DEF R
<1>4. \A x \in Proto : \A e \in Way :
        R[x][e] = P[x][e] + IF x = p /\ e = d THEN n ELSE 0
  <2> SUFFICES ASSUME NEW x \in Proto, NEW e \in Way
               PROVE  R[x][e] = P[x][e] + IF x = p /\ e = d THEN n ELSE 0
    OBVIOUS
  <2>1. P[x] \in Counters /\ P[x][e] \in Nat /\ e \in DOMAIN P[x]
    BY <1>1 DEF Counters, Way
  <2>2. CASE x = p
    BY <1>3, <2>1, <2>2
  <2>3. CASE x # p
    BY <1>3, <2>1, <2>3
  <2> QED BY <2>2, <2>3
<1>5. R \in [Proto -> Counters]
  <2>1. \A x \in Proto : R[x] \in Counters
    <3> SUFFICES ASSUME NEW x \in Proto PROVE R[x] \in Counters
      OBVIOUS
    <3>1. P[x] \in Counters
      BY <1>1
    <3>2. CASE x = p
      BY <1>3, <3>1, <3>2 DEF Counters, Way
    <3>3. CASE x # p
      BY <1>3, <3>1, <3>3
    <3> QED BY <3>2, <3>3
  <2> QED BY <1>3, <2>1
<1>6. IsHost(k)
  BY <1>1, <1>2, <1>5 DEF IsHost, R
<1>7. ASSUME NEW e \in Way PROVE SumOf(e, R) + v[e] <= k[e]
  <2>1. Summable(e, P) /\ SumOf(e, P) \in Nat /\ h[e] \in Nat
    BY <1>1, HostNumbers DEF P
  <2>2. SumOf(e, R) = SumOf(e, P) - P[p][e] + R[p][e]
    <3>1. DOMAIN R = DOMAIN P \cup {p} /\ p \in DOMAIN P
      BY <1>1, <1>3
    <3>2. \A x \in DOMAIN P : x # p => R[x][e] = P[x][e]
      BY <1>1, <1>3
    <3>3. R[p][e] \in Int
      BY <1>5 DEF Counters, Way
    <3> QED BY <2>1, <3>1, <3>2, <3>3, SumChange
  <2>3. P[p][e] \in Nat /\ R[p][e] = P[p][e] + IF e = d THEN n ELSE 0
    BY <1>1, <1>4, HostNumbers DEF P
  <2>4. SumOf(e, P) + u[e] <= h[e]
    BY DEF Good, P
  <2>5. v[e] + (IF e = d THEN n ELSE 0) <= u[e] /\ v[e] \in Nat /\ u[e] \in Nat
    BY DEF Spare
  <2>6. k[e] = h[e]
    BY <1>2 DEF Way
  <2> QED BY <2>1, <2>2, <2>3, <2>4, <2>5, <2>6
<1>8. ASSUME NEW t \in Ports, t[1] \in Proto, NEW e \in Way
      PROVE  SumOf(e, k.ports[t]) + r[t][e] <= R[t[1]][Side(t, e)]
  <2> DEFINE x == t[1]
             s == Side(t, e)
  <2>1. s \in Way /\ x \in Proto
    BY <1>1, <1>8, HostNumbers
  <2>2. /\ SumOf(e, h.ports[t]) \in Nat /\ P[x][s] \in Nat
        /\ q[t][e] \in Nat /\ r[t][e] \in Nat
    BY <1>1, <2>1, HostNumbers DEF PortSpare, P
  <2>3. SumOf(e, h.ports[t]) + q[t][e] <= P[x][s]
    BY <1>8 DEF Good, P
  <2>4. r[t][e] <= q[t][e] + IF x = p /\ s = d THEN n ELSE 0
    OBVIOUS
  <2>5. R[x][s] = P[x][s] + IF x = p /\ s = d THEN n ELSE 0
    BY <1>4, <2>1
  <2> HIDE DEF x, s
  <2>6. SumOf(e, h.ports[t]) + r[t][e] <= R[x][s]
    BY <2>2, <2>3, <2>4, <2>5
  <2> QED BY <1>2, <2>6 DEF x, s
<1>9. Good(k, v, r)
  BY <1>2, <1>6, <1>7, <1>8 DEF Good, R
<1> QED BY <1>9 DEF k

----------------------------------------------------------------------------
(***************************************************************************)
(* One port of a table.                                                    *)
(***************************************************************************)
PortCounters == [in : Nat, out : Nat, syn : Nat]
IsTable(f) ==
  DOMAIN f \subseteq 0..highest_port /\ \A k \in DOMAIN f : f[k] \in PortCounters

(* A table of ports can be added up.                                     *)
LEMMA TableNumbers ==
  ASSUME NEW f, IsTable(f)
  PROVE  /\ IsFiniteSet(DOMAIN f) /\ Cardinality(DOMAIN f) \in Nat
         /\ \A e \in Way : Summable(e, f) /\ SumOf(e, f) \in Nat
         /\ \A k \in DOMAIN f : Total(f[k]) \in Nat /\ \A e \in Way : f[k][e] \in Nat
<1>1. 0 \in Int /\ highest_port \in Int
  BY AcctAssumption
<1>2. IsFiniteSet(DOMAIN f)
  BY <1>1, FS_Interval, FS_Subset DEF IsTable
<1>3. \A k \in DOMAIN f : Total(f[k]) \in Nat /\ \A e \in Way : f[k][e] \in Nat
  BY DEF IsTable, PortCounters, Total, Way
<1>4. \A e \in Way : Summable(e, f)
  BY <1>2, <1>3 DEF Summable
<1> QED BY <1>2, <1>3, <1>4, FS_CardinalityType, SumType

(* What find_or_insert_reduce makes of it: nothing is counted that was not *)
(* before, and the port has a place.                                     *)
LEMMA PortFound ==
  ASSUME NEW f, IsTable(f), NEW port \in 0..highest_port, ports_max # 0,
         NEW g, g = find_or_insert_reduce(f, port, make_func_port, ports_max, ports_keep)
  PROVE  /\ IsTable(g) /\ port \in DOMAIN g
         /\ \A e \in Way : SumOf(e, g) <= SumOf(e, f)
         /\ Cardinality(DOMAIN f) <= ports_max => Cardinality(DOMAIN g) <= ports_max
<1>1. CASE port \in DOMAIN f
  <2>1. g = f
    BY <1>1 DEF find_or_insert_reduce
  <2>2. \A e \in Way : SumOf(e, f) \in Nat
    BY TableNumbers
  <2> QED BY <1>1, <2>1, <2>2
<1>2. CASE port \notin DOMAIN f
  <2> DEFINE full == Cardinality(DOMAIN f) >= ports_max
             f1 == IF full THEN hashtable_reduce(f, ports_keep) ELSE f
  <2>1. /\ ports_max \in Nat /\ ports_keep \in Nat /\ ports_keep < ports_max
    BY AcctAssumption
  <2>2. /\ IsFiniteSet(DOMAIN f) /\ Cardinality(DOMAIN f) \in Nat
        /\ \A k \in DOMAIN f : Total(f[k]) \in Nat
    BY TableNumbers
  <2>3. g = Inserted(f1, port, make_func_port)
    BY <1>2 DEF find_or_insert_reduce
  <2>4. /\ DOMAIN f1 \subseteq DOMAIN f /\ \A k \in DOMAIN f1 : f1[k] = f[k]
        /\ Cardinality(DOMAIN f1) < ports_max
        /\ IsFiniteSet(DOMAIN f1)
    <3>1. CASE full
      <4>1. ports_keep < Cardinality(DOMAIN f)
        BY <2>1, <2>2, <3>1
      <4>2. f1 = hashtable_reduce(f, ports_keep)
        BY <3>1
      <4>3. /\ DOMAIN f1 \subseteq DOMAIN f /\ \A k \in DOMAIN f1 : f1[k] = f[k]
            /\ Cardinality(DOMAIN f1) <= ports_keep
        BY <2>1, <2>2, <4>1, <4>2, ReduceKeeps
      <4>4. IsFiniteSet(DOMAIN f1) /\ Cardinality(DOMAIN f1) \in Nat
        BY <2>2, <4>3, FS_Subset, FS_CardinalityType
      <4> HIDE DEF f1, full
      <4> QED BY <2>1, <4>3, <4>4
    <3>2. CASE ~full
      <4>1. f1 = f
        BY <3>2
      <4>2. Cardinality(DOMAIN f) < ports_max
        BY <2>1, <2>2, <3>2
      <4> HIDE DEF f1, full
      <4> QED BY <2>2, <4>1, <4>2
    <3> QED BY <3>1, <3>2
  <2> HIDE DEF f1, full
  <2>5. IsTable(f1) /\ port \notin DOMAIN f1
    BY <1>2, <2>4 DEF IsTable
  <2>6. /\ DOMAIN g = DOMAIN f1 \cup {port} /\ g[port] = make_func_port
        /\ \A k \in DOMAIN f1 : k # port => g[k] = f1[k]
    BY <2>3, <2>5 DEF Inserted
  <2>7. make_func_port \in PortCounters /\ \A e \in Way : make_func_port[e] = 0
    BY DEF make_func_port, PortCounters, Way
  <2>8. IsTable(g)
    BY <2>5, <2>6, <2>7 DEF IsTable
  <2>9. ASSUME NEW e \in Way PROVE SumOf(e, g) <= SumOf(e, f)
    <3>1. Summable(e, f1) /\ SumOf(e, f1) \in Nat
      BY <2>5, TableNumbers
    <3>2. SumOf(e, g) = SumOf(e, f1) + g[port][e]
      <4>1. g[port][e] \in Int
        BY <2>6, <2>7
      <4>2. \A k \in DOMAIN f1 : k # port => g[k][e] = f1[k][e]
        BY <2>6
      <4> QED BY <2>5, <2>6, <3>1, <4>1, <4>2, SumChange
    <3>3. SumOf(e, f1) <= SumOf(e, f)
      <4> DEFINE K == DOMAIN f1
                 L == DOMAIN f \ K
      <4>1. Summable(e, f)
        BY TableNumbers
      <4>2. /\ SumOf(e, f) = SumOf(e, Only(f, K)) + SumOf(e, Only(f, L))
            /\ Summable(e, Only(f, K)) /\ Summable(e, Only(f, L))
        BY <2>4, <4>1, SumSplit
      <4>3. SumOf(e, Only(f, L)) \in Nat
        <5>1. DOMAIN Only(f, L) = L /\ \A k \in L : Only(f, L)[k] = f[k]
          BY DEF Only
        <5>2. \A k \in L : f[k][e] \in Nat
          BY TableNumbers
        <5> HIDE DEF L
        <5> QED BY <4>2, <5>1, <5>2, SumType
      <4>4. SumOf(e, f1) = SumOf(e, Only(f, K))
        <5>1. DOMAIN Only(f, K) = K /\ \A k \in K : f1[k][e] = Only(f, K)[k][e]
          BY <2>4 DEF Only
        <5> QED BY <4>2, <5>1, SumSame
      <4>5. SumOf(e, Only(f, K)) \in Int
        BY <4>2, SumType
      <4> HIDE DEF K, L
      <4> QED BY <4>2, <4>3, <4>4, <4>5
    <3>4. g[port][e] = 0
      BY <2>6, <2>7
    <3>5. SumOf(e, f) \in Nat
      BY TableNumbers
    <3> QED BY <3>1, <3>2, <3>3, <3>4, <3>5
  <2>10. Cardinality(DOMAIN g) <= ports_max
    <3>1. Cardinality(DOMAIN g) = Cardinality(DOMAIN f1) + 1
      BY <2>4, <2>5, <2>6, FS_AddElement
    <3>2. Cardinality(DOMAIN f1) \in Nat
      BY <2>4, FS_CardinalityType
    <3> QED BY <2>1, <2>4, <3>1, <3>2
  <2> QED BY <2>6, <2>8, <2>9, <2>10
<1> QED BY <1>1, <1>2

(* A record of counters by its fields.                                   *)
LEMMA Fields ==
  ASSUME NEW x, x = [f \in {"in", "out", "syn"} |-> x[f]],
         x.in \in Nat, x.out \in Nat, x.syn \in Nat
  PROVE  x \in PortCounters
BY DEF PortCounters

(* What a counter is after an addition.                                  *)
LEMMA Plus == \A i, j \in Nat : i + j \in Nat
OBVIOUS

(* The bytes and the SYN of a packet in a port's counters.               *)
PlusPacket(c, d, n, m) == [c EXCEPT ![d] = @ + n, !.syn = @ + m]

(* The bytes are added in the way of the packet only.                    *)
LEMMA Counted ==
  ASSUME NEW c \in PortCounters, NEW d \in Way, NEW n \in Nat, NEW m \in Nat,
         NEW x, x = PlusPacket(c, d, n, m)
  PROVE  /\ x \in PortCounters
         /\ x[d] = c[d] + n
         /\ \A e \in Way : e # d => x[e] = c[e]
<1>1. DOMAIN c = {"in", "out", "syn"} /\ c.in \in Nat /\ c.out \in Nat /\ c.syn \in Nat
  BY DEF PortCounters
<1>2. x = [f \in {"in", "out", "syn"} |-> x[f]]
  BY <1>1 DEF PlusPacket
<1>3. x.syn = c.syn + m
  BY <1>1 DEF Way, PlusPacket
<1>4. d = "in"  => x.in = c.in + n /\ x.out = c.out
  BY <1>1 DEF PlusPacket
<1>5. d = "out" => x.in = c.in /\ x.out = c.out + n
  BY <1>1 DEF PlusPacket
<1>6. c.in + n \in Nat /\ c.out + n \in Nat /\ c.syn + m \in Nat
  BY <1>1, Plus, Zenon
<1>7. x.in \in Nat /\ x.out \in Nat /\ x.syn \in Nat
  BY <1>1, <1>3, <1>4, <1>5, <1>6, Zenon DEF Way
<1>8. x \in PortCounters
  BY <1>2, <1>7, Fields
<1>9. x[d] = c[d] + n /\ \A e \in Way : e # d => x[e] = c[e]
  BY <1>4, <1>5, Zenon DEF Way
<1> QED BY <1>8, <1>9
(* y is the table g with n bytes more for the port.                      *)
PortPlus(y, g, port, d, n) ==
  /\ DOMAIN y = DOMAIN g
  /\ \A k \in DOMAIN g : k # port => y[k] = g[k]
  /\ y[port] \in PortCounters
  /\ \A e \in Way : y[port][e] = g[port][e] + IF e = d THEN n ELSE 0

(* What is counted for the port is added to the table.                   *)
LEMMA PortSum ==
  ASSUME NEW g, IsTable(g), NEW port \in DOMAIN g, NEW d \in Way,
         NEW n \in Nat, NEW y, PortPlus(y, g, port, d, n)
  PROVE  /\ IsTable(y)
         /\ \A e \in Way : SumOf(e, y) = SumOf(e, g) + IF e = d THEN n ELSE 0
<1>1. IsTable(y)
  BY DEF IsTable, PortPlus
<1>2. ASSUME NEW e \in Way
      PROVE  SumOf(e, y) = SumOf(e, g) + IF e = d THEN n ELSE 0
  <2>1. Summable(e, g)
    BY TableNumbers
  <2>2. SumOf(e, g) \in Nat /\ g[port][e] \in Nat
    BY TableNumbers
  <2>3. DOMAIN y = DOMAIN g \cup {port}
    BY DEF PortPlus
  <2>4. \A k \in DOMAIN g : k # port => y[k][e] = g[k][e]
    BY DEF PortPlus
  <2>5. y[port][e] \in Int
    BY <1>1, <2>3, TableNumbers
  <2>6. SumOf(e, y) = SumOf(e, g) - g[port][e] + y[port][e]
    BY <2>1, <2>3, <2>4, <2>5, SumChange
  <2>7. y[port][e] = g[port][e] + IF e = d THEN n ELSE 0
    BY DEF PortPlus
  <2> QED BY <2>2, <2>6, <2>7
<1> QED BY <1>1, <1>2

(* The update of a port is one of these.                                 *)
LEMMA PortCounted ==
  ASSUME NEW g, IsTable(g), NEW port \in DOMAIN g, NEW d \in Way,
         NEW n \in Nat, NEW m \in Nat
  PROVE  PortPlus([g EXCEPT ![port][d] = @ + n, ![port].syn = @ + m],
                  g, port, d, n)
<1> DEFINE y == [g EXCEPT ![port][d] = @ + n, ![port].syn = @ + m]
           c == g[port]
           x == y[port]
<1>1. DOMAIN y = DOMAIN g
  OBVIOUS
<1>2. \A k \in DOMAIN g : k # port => y[k] = g[k]
  OBVIOUS
<1>3. x = PlusPacket(c, d, n, m)
  BY DEF PlusPacket
<1>4. c \in PortCounters
  BY DEF IsTable
<1>5. x \in PortCounters /\ x[d] = c[d] + n /\ \A e \in Way : e # d => x[e] = c[e]
  <2> HIDE DEF x, c, y
  <2> QED BY <1>3, <1>4, Counted
<1>6. \A e \in Way : x[e] = c[e] + IF e = d THEN n ELSE 0
  <2>1. \A e \in Way : c[e] \in Nat
    BY <1>4, TableNumbers
  <2> HIDE DEF x, c, y
  <2> QED BY <1>5, <2>1
<1> HIDE DEF y
<1>7. PortPlus(y, g, port, d, n)
  BY <1>1, <1>2, <1>5, <1>6 DEF PortPlus
<1> QED BY <1>7 DEF y

(* A port table that takes n bytes more takes them from what is to spare.*)
LEMMA PortBytes ==
  ASSUME NEW h, NEW u \in Spare, NEW q \in PortSpare, Good(h, u, q),
         NEW t0 \in Ports, NEW d \in Way, NEW n \in Nat, NEW y, IsTable(y),
         \A e \in Way : SumOf(e, y) <= SumOf(e, h.ports[t0]) + IF e = d THEN n ELSE 0,
         ports_max # 0 => Cardinality(DOMAIN y) <= ports_max,
         NEW r \in PortSpare,
         \A t \in Ports : \A e \in Way :
           r[t][e] + (IF t = t0 /\ e = d THEN n ELSE 0) <= q[t][e]
  PROVE  Good([h EXCEPT !.ports[t0] = y], u, r)
<1> DEFINE k == [h EXCEPT !.ports[t0] = y]
<1>1. IsHost(h) /\ DOMAIN h.ports = Ports
  BY DEF Good, IsHost
<1>2. /\ DOMAIN k = DOMAIN h /\ k.in = h.in /\ k.out = h.out /\ k.protos = h.protos
      /\ DOMAIN k.ports = Ports
      /\ \A t \in Ports : k.ports[t] = IF t = t0 THEN y ELSE h.ports[t]
  BY <1>1 DEF IsHost
<1> HIDE DEF k
<1>3. IsHost(k)
  BY <1>1, <1>2 DEF IsHost, IsTable, PortCounters
<1>4. \A e \in Way : SumOf(e, k.protos) + u[e] <= k[e]
  BY <1>2 DEF Good, Way
<1>5. ports_max # 0 => \A t \in Ports : Cardinality(DOMAIN k.ports[t]) <= ports_max
  BY <1>2 DEF Good
<1>6. ASSUME NEW t \in Ports, t[1] \in Proto, NEW e \in Way
      PROVE  SumOf(e, k.ports[t]) + r[t][e] <= k.protos[t[1]][Side(t, e)]
  <2>1. /\ SumOf(e, h.ports[t]) \in Nat /\ SumOf(e, k.ports[t]) \in Nat
        /\ h.protos[t[1]][Side(t, e)] \in Nat
    BY <1>1, <1>3, <1>6, HostNumbers
  <2>2. SumOf(e, h.ports[t]) + q[t][e] <= h.protos[t[1]][Side(t, e)]
    BY <1>6 DEF Good
  <2>3. r[t][e] + (IF t = t0 /\ e = d THEN n ELSE 0) <= q[t][e]
        /\ r[t][e] \in Nat /\ q[t][e] \in Nat
    BY DEF PortSpare
  <2>4. SumOf(e, k.ports[t]) <= SumOf(e, h.ports[t]) + IF t = t0 /\ e = d THEN n ELSE 0
    <3>1. CASE t = t0
      BY <1>2, <3>1
    <3>2. CASE t # t0
      BY <1>2, <2>1, <3>2
    <3> QED BY <3>1, <3>2
  <2> QED BY <1>2, <2>1, <2>2, <2>3, <2>4
<1>7. Good(k, u, r)
  BY <1>3, <1>4, <1>5, <1>6 DEF Good
<1> QED BY <1>7 DEF k

----------------------------------------------------------------------------
(***************************************************************************)
(* The invariant: between the steps of acct_for a host has to spare what   *)
(* the next ones will count.                                               *)
(***************************************************************************)
Who(d) == IF d = "out" THEN hs ELSE hd

ToProtos(a) ==
  [d \in Way |-> IF a = Who(d) /\ (pc = "protos" \/ (pc = "dst" /\ d = "out"))
                 THEN sm.len ELSE 0]

(* The four look-ups of ports are by where and way; D are those done.    *)
Left(a, D) ==
  [t \in Ports |-> [e \in Way |->
     IF t[1] = sm.proto /\ a = Who(Side(t, e)) /\ <<t[2], e>> \notin D
     THEN sm.len ELSE 0]]

NothingLeft == [t \in Ports |-> [e \in Way |-> 0]]

ToPorts(a) == IF pc = "ports" THEN Left(a, {}) ELSE NothingLeft

FitInv == Inv /\ \A a \in DOMAIN hosts : Good(hosts[a], ToProtos(a), ToPorts(a))

(* What is to spare is so many bytes, for each way and each table.       *)
LEMMA SpareTypes ==
  ASSUME Inv, NEW a
  PROVE  /\ ToProtos(a) \in Spare /\ ToPorts(a) \in PortSpare
         /\ NothingLeft \in PortSpare
         /\ sm.len \in Nat => \A D : Left(a, D) \in PortSpare
<1>1. pc # "idle" => sm.len \in Nat
  BY AcctAssumption DEF Inv, PointersOK
<1>2. ToProtos(a) \in Spare
  BY <1>1 DEF ToProtos, Spare
<1>3. NothingLeft \in PortSpare
  BY DEF NothingLeft, PortSpare
<1>4. ASSUME sm.len \in Nat, NEW D PROVE Left(a, D) \in PortSpare
  BY <1>4 DEF Left, PortSpare
<1>5. ToPorts(a) \in PortSpare
  BY <1>1, <1>3, <1>4 DEF ToPorts
<1> QED BY <1>2, <1>3, <1>4, <1>5

(* A step that changes no host, and needs no more to spare.              *)
LEMMA QuietFit ==
  ASSUME FitInv, Inv',
         \A a \in DOMAIN hosts' : a \in DOMAIN hosts /\ hosts'[a] = hosts[a],
         \A a \in DOMAIN hosts' : \A d \in Way : ToProtos(a)'[d] <= ToProtos(a)[d],
         \A a \in DOMAIN hosts' : \A t \in Ports : \A e \in Way :
           ToPorts(a)'[t][e] <= ToPorts(a)[t][e]
  PROVE  FitInv'
<1> SUFFICES ASSUME NEW a \in DOMAIN hosts'
             PROVE  Good(hosts'[a], ToProtos(a)', ToPorts(a)')
  BY DEF FitInv
<1>1. /\ ToProtos(a) \in Spare /\ ToPorts(a) \in PortSpare
  BY SpareTypes DEF FitInv
<1>2. /\ ToProtos(a)' \in Spare /\ ToPorts(a)' \in PortSpare
  <2>1. Inv => ToProtos(a) \in Spare /\ ToPorts(a) \in PortSpare
    BY SpareTypes
  <2>2. (Inv => ToProtos(a) \in Spare /\ ToPorts(a) \in PortSpare)'
    BY SpareTypes, PTL
  <2> QED BY <2>2
<1>3. Good(hosts[a], ToProtos(a), ToPorts(a)) /\ hosts'[a] = hosts[a]
  BY DEF FitInv
<1>4. /\ \A d \in Way : ToProtos(a)'[d] <= ToProtos(a)[d]
      /\ \A t \in Ports : \A e \in Way : ToPorts(a)'[t][e] <= ToPorts(a)[t][e]
  OBVIOUS
<1> QED BY <1>1, <1>2, <1>3, <1>4, LessSpare

----------------------------------------------------------------------------
(* The bytes that a host has still to give to protocols: W are the ways  *)
(* that are not done.                                                    *)
Due(b, W) == [d \in Way |-> IF b = Who(d) /\ d \in W THEN sm.len ELSE 0]

(* Those that are done are its ports' to count.                          *)
PortDue(b, W) ==
  [t \in Ports |-> [e \in Way |->
     IF t[1] = sm.proto /\ b = Who(Side(t, e)) /\ Side(t, e) \notin W
     THEN sm.len ELSE 0]]

(* So is what is due, whoever is counted.                                *)
LEMMA DueTypes ==
  ASSUME sm.len \in Nat, NEW b, NEW W
  PROVE  Due(b, W) \in Spare /\ PortDue(b, W) \in PortSpare
BY DEF Due, PortDue, Spare, PortSpare

(* Counting a packet for its protocol, at one end.                       *)
LEMMA AddProtoFit ==
  ASSUME NEW H, NULL \notin DOMAIN H, NEW d \in Way,
         sm.len \in Nat, sm.proto \in Proto,
         NEW D, d \in D, NEW E, E = D \ {d},
         \A b \in DOMAIN H : Good(H[b], Due(b, D), PortDue(b, D)),
         NEW G, G = add_proto(H, Who(d), d)
  PROVE  /\ DOMAIN G = DOMAIN H
         /\ \A b \in DOMAIN G : Good(G[b], Due(b, E), PortDue(b, E))
<1> DEFINE a == Who(d)
<1>1. \A b : b # a =>
        /\ \A e \in Way : Due(b, E)[e] <= Due(b, D)[e]
        /\ \A t \in Ports : \A e \in Way : PortDue(b, E)[t][e] <= PortDue(b, D)[t][e]
  BY DEF Due, PortDue
<1>2. ASSUME NEW b \in DOMAIN H, b # a PROVE Good(H[b], Due(b, E), PortDue(b, E))
  <2>1. Good(H[b], Due(b, D), PortDue(b, D))
    OBVIOUS
  <2>2. \A e \in Way : Due(b, E)[e] <= Due(b, D)[e]
    BY <1>1, <1>2
  <2>3. \A t \in Ports : \A e \in Way : PortDue(b, E)[t][e] <= PortDue(b, D)[t][e]
    BY <1>1, <1>2
  <2>4. /\ Due(b, D) \in Spare /\ PortDue(b, D) \in PortSpare
        /\ Due(b, E) \in Spare /\ PortDue(b, E) \in PortSpare
    BY DueTypes
  <2> HIDE DEF a
  <2> QED BY <2>1, <2>2, <2>3, <2>4, LessSpare
<1>3. CASE a = NULL
  <2>1. G = H
    BY <1>3 DEF add_proto
  <2> HIDE DEF a
  <2> QED BY <1>2, <1>3, <2>1
<1>4. CASE a # NULL
  <2>1. /\ DOMAIN G = DOMAIN H
        /\ \A b \in DOMAIN H :
                G[b] = IF b = a THEN [H[b] EXCEPT !.protos[sm.proto][d] = @ + sm.len]
                                      ELSE H[b]
    BY <1>4 DEF add_proto
  <2>2. ASSUME a \in DOMAIN H
        PROVE  Good([H[a] EXCEPT !.protos[sm.proto][d] = @ + sm.len],
                    Due(a, E), PortDue(a, E))
    <3>1. Good(H[a], Due(a, D), PortDue(a, D))
      BY <2>2
    <3>2. /\ Due(a, D) \in Spare /\ PortDue(a, D) \in PortSpare
          /\ Due(a, E) \in Spare /\ PortDue(a, E) \in PortSpare
      BY DueTypes
    <3>3. \A e \in Way : Due(a, E)[e] + (IF e = d THEN sm.len ELSE 0) <= Due(a, D)[e]
      BY DEF Due
    <3>4. \A t \in Ports : \A e \in Way :
            PortDue(a, E)[t][e] <=
              PortDue(a, D)[t][e]
                + IF t[1] = sm.proto /\ Side(t, e) = d THEN sm.len ELSE 0
      BY DEF PortDue
    <3> HIDE DEF a
    <3> QED BY <3>1, <3>2, <3>3, <3>4, ProtoBytes
  <2> HIDE DEF a
  <2>3. ASSUME NEW b \in DOMAIN G PROVE Good(G[b], Due(b, E), PortDue(b, E))
    <3>1. CASE b = a
      BY <2>1, <2>2, <3>1
    <3>2. CASE b # a
      BY <1>2, <2>1, <3>2
    <3> QED BY <3>1, <3>2
  <2> QED BY <2>1, <2>3
<1> QED BY <1>3, <1>4

(* The hosts of H with what is left for their ports, D being done.       *)
Leaves(H, u, D) == \A b \in DOMAIN H : Good(H[b], u, Left(b, D))

(* A look-up of ports, and the table it is made in.                      *)
Place(where, d) == <<where, d>>
Table(where)    == <<sm.proto, where>>

(* Counting it for one of its ports: <<where, d>> says in which table of *)
(* which end, and D which of the four are done.                          *)
LEMMA AddPortFit ==
  ASSUME NEW H, NULL \notin DOMAIN H, NEW d \in Way, NEW where,
         Table(where) \in Ports,
         sm.len \in Nat, ports_max # 0, NEW port \in Nat,
         NEW D, Place(where, d) \notin D, NEW E, E = D \cup {Place(where, d)},
         NEW u \in Spare,
         Leaves(H, u, D),
         NEW G, G = add_port(H, Who(Side(Table(where), d)), where, port, d)
  PROVE  /\ DOMAIN G = DOMAIN H
         /\ Leaves(G, u, E)
<1> DEFINE t0 == Table(where)
           a  == Who(Side(t0, d))
<1>1. \A b : Left(b, D) \in PortSpare /\ Left(b, E) \in PortSpare
  BY DEF Left, PortSpare
<1>2. \A b : \A t \in Ports : \A e \in Way : Left(b, E)[t][e] <= Left(b, D)[t][e]
  BY DEF Left
<1>3. ASSUME NEW b \in DOMAIN H PROVE Good(H[b], u, Left(b, E))
  <2>1. Good(H[b], u, Left(b, D))
    BY DEF Leaves
  <2>2. \A t \in Ports : \A e \in Way : Left(b, E)[t][e] <= Left(b, D)[t][e]
    BY <1>2
  <2>3. Left(b, D) \in PortSpare /\ Left(b, E) \in PortSpare
    BY <1>1
  <2>4. \A e \in Way : u[e] <= u[e]
    BY DEF Spare
  <2> HIDE DEF a, t0
  <2> QED BY <2>1, <2>2, <2>3, <2>4, LessSpare
<1>4. CASE a = NULL \/ port > highest_port
  <2>1. G = H
    BY <1>4 DEF add_port
  <2> HIDE DEF a, t0
  <2> QED BY <1>3, <2>1 DEF Leaves
<1>5. CASE ~(a = NULL \/ port > highest_port)
  <2> DEFINE f == find_or_insert_reduce(H[a].ports[t0], port, make_func_port,
                                        ports_max, ports_keep)
             m == IF d = "in" /\ sm.syn THEN 1 ELSE 0
             y == [f EXCEPT ![port][d] = @ + sm.len, ![port].syn = @ + m]
  <2>1. G = [H EXCEPT ![a].ports[t0] = y]
    BY <1>5, Zenon DEF add_port, Table
  <2>2. /\ DOMAIN G = DOMAIN H
        /\ \A b \in DOMAIN H :
                G[b] = IF b = a THEN [H[b] EXCEPT !.ports[t0] = y] ELSE H[b]
    <3> HIDE DEF y, a, t0
    <3> QED BY <2>1
  <2>3. ASSUME a \in DOMAIN H
        PROVE  Good([H[a] EXCEPT !.ports[t0] = y], u, Left(a, E))
    <3> DEFINE g == H[a].ports[t0]
    <3>1. Good(H[a], u, Left(a, D))
      BY <2>3 DEF Leaves
    <3>2. IsTable(g) /\ Cardinality(DOMAIN g) <= ports_max
      BY <3>1 DEF Good, IsHost, IsTable, PortCounters
    <3>3. port \in 0..highest_port /\ m \in Nat
      BY <1>5, AcctAssumption
    <3>4. f = find_or_insert_reduce(g, port, make_func_port, ports_max, ports_keep)
      OBVIOUS
    <3> HIDE DEF a, t0, f, g, m
    <3>5. /\ IsTable(f) /\ port \in DOMAIN f
          /\ \A e \in Way : SumOf(e, f) <= SumOf(e, g)
          /\ Cardinality(DOMAIN f) <= ports_max
      BY <3>2, <3>3, <3>4, PortFound
    <3>6. PortPlus(y, f, port, d, sm.len)
      BY <3>3, <3>5, PortCounted
    <3> HIDE DEF y
    <3>7. /\ IsTable(y) /\ DOMAIN y = DOMAIN f
          /\ \A e \in Way : SumOf(e, y) = SumOf(e, f) + IF e = d THEN sm.len ELSE 0
      <4>1. DOMAIN y = DOMAIN f
        BY <3>6 DEF PortPlus
      <4> QED BY <3>5, <3>6, <4>1, PortSum
    <3>8. \A e \in Way : SumOf(e, y) <= SumOf(e, g) + IF e = d THEN sm.len ELSE 0
      <4>1. \A e \in Way : SumOf(e, f) \in Nat /\ SumOf(e, g) \in Nat
        BY <3>2, <3>5, TableNumbers
      <4> QED BY <3>5, <3>7, <4>1
    <3>9. \A t \in Ports : \A e \in Way :
            Left(a, E)[t][e] + (IF t = t0 /\ e = d THEN sm.len ELSE 0)
              <= Left(a, D)[t][e]
      <4> SUFFICES ASSUME NEW t \in Ports, NEW e \in Way
                   PROVE  Left(a, E)[t][e] + (IF t = t0 /\ e = d THEN sm.len ELSE 0)
                            <= Left(a, D)[t][e]
        OBVIOUS
      <4>1. CASE t = t0 /\ e = d
        <5>1. t[1] = sm.proto /\ t[2] = where
          BY <4>1 DEF t0, Table
        <5>2. <<t[2], e>> \notin D /\ <<t[2], e>> \in E
          BY <4>1, <5>1 DEF Place
        <5>3. a = Who(Side(t, e))
          BY <4>1 DEF a
        <5>4. Left(a, D)[t][e] = sm.len /\ Left(a, E)[t][e] = 0
          BY <5>1, <5>2, <5>3 DEF Left
        <5> QED BY <4>1, <5>4
      <4>2. CASE ~(t = t0 /\ e = d)
        <5>1. Left(a, E)[t][e] \in Nat /\ Left(a, D)[t][e] \in Nat
          BY DEF Left
        <5>2. Left(a, E)[t][e] <= Left(a, D)[t][e]
          BY <1>2
        <5> QED BY <4>2, <5>1, <5>2
      <4> QED BY <4>1, <4>2
    <3>10. Left(a, D) \in PortSpare /\ Left(a, E) \in PortSpare
      BY <1>1
    <3>11. \A e \in Way :
                SumOf(e, y) <= SumOf(e, H[a].ports[t0]) + IF e = d THEN sm.len ELSE 0
      BY <3>8 DEF g
    <3>12. ports_max # 0 => Cardinality(DOMAIN y) <= ports_max
      BY <3>5, <3>7
    <3>13. IsTable(y)
      BY <3>7
    <3>14. t0 \in Ports
      BY DEF t0
    <3> QED BY <3>1, <3>9, <3>10, <3>11, <3>12, <3>13, <3>14, PortBytes
  <2> HIDE DEF a, t0, y
  <2>4. ASSUME NEW b \in DOMAIN G PROVE Good(G[b], u, Left(b, E))
    <3>1. CASE b = a
      BY <2>2, <2>3, <3>1
    <3>2. CASE b # a
      BY <1>3, <2>2, <3>2
    <3> QED BY <3>1, <3>2
  <2> QED BY <2>2, <2>4 DEF Leaves
<1> QED BY <1>4, <1>5

----------------------------------------------------------------------------
(* Nothing is left to be counted: then a host is Good if it fits.        *)
LEMMA GoodFits ==
  ASSUME NEW h, NEW u \in Spare, NEW q \in PortSpare, IsHost(h),
         \A d \in Way : u[d] = 0, \A t \in Ports : \A e \in Way : q[t][e] = 0
  PROVE  Good(h, u, q) <=> PortsFit(h)
<1>1. /\ \A d \in Way : SumOf(d, h.protos) \in Nat
      /\ \A t \in Ports : \A e \in Way : SumOf(e, h.ports[t]) \in Nat
  BY HostNumbers
<1>2. (\A d \in Way : SumOf(d, h.protos) + u[d] <= h[d])
        <=> (\A d \in {"in", "out"} : SumOf(d, h.protos) <= h[d])
  BY <1>1 DEF Way
<1> DEFINE Fits(p, w) ==
             LET t == <<p, w>>
             IN  \A e \in Way : SumOf(e, h.ports[t]) <= h.protos[p][Side(t, e)]
<1>3. (\A t \in Ports : t[1] \in Proto =>
         \A e \in Way : SumOf(e, h.ports[t]) + q[t][e] <= h.protos[t[1]][Side(t, e)])
        <=> \A p \in {"tcp", "udp"} \cap Proto : Fits(p, "local") /\ Fits(p, "remote")
  <2>1. \A t \in Ports : \A e \in Way :
             SumOf(e, h.ports[t]) + q[t][e] = SumOf(e, h.ports[t])
    BY <1>1
  <2>2. \A p \in {"tcp", "udp"} : \A w \in {"local", "remote"} :
          <<p, w>> \in Ports /\ <<p, w>>[1] = p
    BY DEF Ports
  <2>3. \A t \in Ports :
             \E p \in {"tcp", "udp"}, w \in {"local", "remote"} : t = <<p, w>>
    BY DEF Ports
  <2>4. ASSUME NEW t \in Ports, t[1] \in Proto,
               \A p \in {"tcp", "udp"} \cap Proto :
                    Fits(p, "local") /\ Fits(p, "remote"),
               NEW e \in Way
        PROVE  SumOf(e, h.ports[t]) <= h.protos[t[1]][Side(t, e)]
    <3>1. PICK p \in {"tcp", "udp"}, w \in {"local", "remote"} : t = <<p, w>>
      BY <2>3
    <3>2. p = t[1] /\ p \in Proto
      BY <2>4, <3>1
    <3>3. Fits(p, w)
      BY <2>4, <3>2
    <3> QED BY <3>1, <3>2, <3>3
  <2>5. ASSUME \A t \in Ports : t[1] \in Proto =>
                 \A e \in Way : SumOf(e, h.ports[t]) <= h.protos[t[1]][Side(t, e)],
               NEW p \in {"tcp", "udp"} \cap Proto, NEW w \in {"local", "remote"}
        PROVE  Fits(p, w)
    <3>1. <<p, w>> \in Ports /\ <<p, w>>[1] = p
      BY <2>2
    <3> QED BY <2>5, <3>1
  <2>6. (\A t \in Ports : t[1] \in Proto =>
           \A e \in Way : SumOf(e, h.ports[t]) + q[t][e] <= h.protos[t[1]][Side(t, e)])
        <=> (\A t \in Ports : t[1] \in Proto =>
               \A e \in Way : SumOf(e, h.ports[t]) <= h.protos[t[1]][Side(t, e)])
    BY <2>1
  <2> HIDE DEF Fits
  <2> QED BY <2>4, <2>5, <2>6
<1>4. \A p \in {"tcp", "udp"} \cap Proto :
        Fits(p, "local") /\ Fits(p, "remote")
          <=> LET n == h.protos[p]
                  l == h.ports[<<p, "local">>]
                  r == h.ports[<<p, "remote">>]
              IN  /\ SumOf("in", l) <= n.in  /\ SumOf("out", l) <= n.out
                  /\ SumOf("in", r) <= n.out /\ SumOf("out", r) <= n.in
  BY DEF Side, Opposite, Way
<1> HIDE DEF Fits
<1> QED BY <1>2, <1>3, <1>4 DEF Good, PortsFit

(* The types of what is left, before and after a step.                   *)
LEMMA SpareNext ==
  ASSUME Inv', NEW a
  PROVE  /\ ToProtos(a)' \in Spare /\ ToPorts(a)' \in PortSpare
<1>1. Inv => ToProtos(a) \in Spare /\ ToPorts(a) \in PortSpare
  BY SpareTypes
<1>2. (Inv => ToProtos(a) \in Spare /\ ToPorts(a) \in PortSpare)'
  BY SpareTypes, PTL
<1> QED BY <1>2

(* Nothing is to be counted at the start: an imported host has to fit    *)
(* by itself.                                                            *)
LEMMA InitFit ==
  ASSUME \A H \in Imported : \A a \in DOMAIN H : PortsFit(H[a]), Init
  PROVE  FitInv
<1>1. Inv
  BY InitInv
<1> SUFFICES ASSUME NEW a \in DOMAIN hosts
             PROVE  Good(hosts[a], ToProtos(a), ToPorts(a))
  BY <1>1 DEF FitInv
<1>2. hosts \in Imported /\ pc = "idle"
  BY DEF Init
<1>3. PortsFit(hosts[a]) /\ IsHost(hosts[a])
  BY <1>2, AcctAssumption
<1>4. /\ ToProtos(a) \in Spare /\ ToPorts(a) \in PortSpare
  BY <1>1, SpareTypes
<1>5. \A d \in Way : ToProtos(a)[d] = 0
  BY <1>2 DEF ToProtos
<1>6. \A t \in Ports : \A e \in Way : ToPorts(a)[t][e] = 0
  BY <1>2 DEF ToPorts, NothingLeft
<1> QED BY <1>3, <1>4, <1>5, <1>6, GoodFits

(* A host that is found or made, with bytes of its own.                  *)
LEMMA CreditFit ==
  ASSUME FitInv, Inv', NEW a \in Addr, NEW e \in Way, NEW n \in Nat,
         hosts' = Credit(host_get(a), a, e, n),
         pc # "ports", pc' # "ports",
         \A b : \A d \in Way :
           ToProtos(b)'[d] = ToProtos(b)[d] + IF b = a /\ d = e THEN n ELSE 0,
         a \notin DOMAIN hosts => \A d \in Way : ToProtos(a)[d] = 0
  PROVE  FitInv'
<1> DEFINE H == host_get(a)
<1>1. HostsOK
  BY DEF FitInv, Inv
<1>2. /\ DOMAIN H = DOMAIN hosts \cup {a}
      /\ \A b \in DOMAIN hosts : H[b] = hosts[b]
      /\ a \notin DOMAIN hosts => H[a] = make_func_host
  BY DEF host_get, find_or_insert, Inserted
<1> HIDE DEF H
<1>3. \A b : ToPorts(b)' = NothingLeft /\ ToPorts(b) = NothingLeft
  BY DEF ToPorts, NothingLeft
<1>4. \A b : /\ ToProtos(b) \in Spare /\ ToPorts(b) \in PortSpare
             /\ ToProtos(b)' \in Spare /\ ToPorts(b)' \in PortSpare
  <2>1. Inv
    BY DEF FitInv
  <2> QED BY <2>1, SpareTypes, SpareNext
<1>5. ASSUME NEW b \in DOMAIN H PROVE Good(H[b], ToProtos(b), NothingLeft)
  <2>1. CASE b \in DOMAIN hosts
    BY <1>2, <1>3, <2>1 DEF FitInv
  <2>2. CASE b \notin DOMAIN hosts
    <3>1. b = a /\ H[b] = make_func_host
      BY <1>2, <1>5, <2>2
    <3>2. \A d \in Way : ToProtos(b)[d] = 0
      BY <2>2, <3>1
    <3>3. \A t \in Ports : \A f \in Way : NothingLeft[t][f] = 0
      BY DEF NothingLeft
    <3>4. ToProtos(b) \in Spare /\ NothingLeft \in PortSpare
      BY <1>3, <1>4
    <3> QED BY <3>1, <3>2, <3>3, <3>4, NewHost
  <2> QED BY <2>1, <2>2
<1>6. /\ DOMAIN hosts' = DOMAIN H
      /\ \A b \in DOMAIN H :
              hosts'[b] = IF b = a THEN [H[a] EXCEPT ![e] = @ + n] ELSE H[b]
  BY DEF H, Credit
<1>7. ASSUME NEW b \in DOMAIN H PROVE Good(hosts'[b], ToProtos(b)', NothingLeft)
  <2>1. Good(H[b], ToProtos(b), NothingLeft)
    BY <1>5
  <2>2. NothingLeft \in PortSpare /\ ToProtos(b) \in Spare /\ ToProtos(b)' \in Spare
    BY <1>3, <1>4
  <2>3. CASE b = a
    <3>1. \A d \in Way : ToProtos(b)'[d] = ToProtos(b)[d] + IF d = e THEN n ELSE 0
      BY <2>3
    <3>2. hosts'[b] = [H[b] EXCEPT ![e] = @ + n]
      BY <1>6, <2>3
    <3>3. Good([H[b] EXCEPT ![e] = @ + n], ToProtos(b)', NothingLeft)
      BY <2>1, <2>2, <3>1, OwnBytes
    <3> QED BY <3>2, <3>3
  <2>4. CASE b # a
    <3>1. \A d \in Way : ToProtos(b)'[d] <= ToProtos(b)[d]
      BY <2>2, <2>4 DEF Spare
    <3>2. \A t \in Ports : \A f \in Way : NothingLeft[t][f] <= NothingLeft[t][f]
      BY DEF NothingLeft
    <3>3. Good(H[b], ToProtos(b)', NothingLeft)
      BY <2>1, <2>2, <3>1, <3>2, LessSpare
    <3> QED BY <1>6, <2>4, <3>3
  <2> QED BY <2>3, <2>4
<1>8. \A b \in DOMAIN hosts' : Good(hosts'[b], ToProtos(b)', ToPorts(b)')
  BY <1>3, <1>6, <1>7
<1> QED BY <1>8 DEF FitInv

(* The steps before the hosts are looked up.                             *)
LEMMA TotalsFit == ASSUME FitInv, NEW p \in Packet, acct_totals(p) PROVE FitInv'
<1>1. Inv'
  BY TotalsInv DEF FitInv
<1>2. hosts' = hosts /\ pc = "idle" /\ pc' \in {"idle", "reduce"}
  BY DEF acct_totals
<1>3. \A a : /\ \A d \in Way : ToProtos(a)'[d] <= ToProtos(a)[d]
             /\ \A t \in Ports : \A e \in Way : ToPorts(a)'[t][e] <= ToPorts(a)[t][e]
  BY <1>2 DEF ToProtos, ToPorts, NothingLeft
<1> QED BY <1>1, <1>2, <1>3, QuietFit

(* A reduction drops hosts and changes none.                             *)
LEMMA ReduceFit == ASSUME FitInv, hosts_db_reduce PROVE FitInv'
<1>1. Inv'
  BY ReduceInv DEF FitInv
<1>2. \A a \in DOMAIN hosts' : a \in DOMAIN hosts /\ hosts'[a] = hosts[a]
  BY Reduced DEF FitInv
<1>3. pc = "reduce" /\ pc' = "src"
  BY DEF hosts_db_reduce
<1>4. \A a : /\ \A d \in Way : ToProtos(a)'[d] <= ToProtos(a)[d]
             /\ \A t \in Ports : \A e \in Way : ToPorts(a)'[t][e] <= ToPorts(a)[t][e]
  BY <1>3 DEF ToProtos, ToPorts, NothingLeft
<1> QED BY <1>1, <1>2, <1>4, QuietFit

(* The source's bytes are its own before they are a protocol's.          *)
LEMMA SrcFit == ASSUME FitInv, acct_src PROVE FitInv'
<1>1. Inv'
  BY SrcInv DEF FitInv
<1>2. pc = "src" /\ pc' = "dst" /\ sm' = sm
  BY DEF acct_src
<1>3. sm \in Packet /\ sm.src \in Addr /\ sm.len \in Nat /\ NULL \notin DOMAIN hosts
  BY <1>2, AcctAssumption DEF FitInv, Inv, PointersOK, HostsOK
<1>4. CASE want_local_only => dir_out(sm)
  <2> DEFINE a == sm.src
  <2>1. hosts' = Credit(host_get(a), a, "out", sm.len) /\ hs' = a
    BY <1>4, Zenon DEF acct_src, Credit
  <2>2. \A b : \A d \in Way : ToProtos(b)[d] = 0
    BY <1>2 DEF ToProtos
  <2>3. \A b : \A d \in Way :
          ToProtos(b)'[d] = ToProtos(b)[d] + IF b = a /\ d = "out" THEN sm.len ELSE 0
    BY <1>2, <1>3, <2>1, <2>2 DEF ToProtos, Who
  <2>4. "out" \in Way
    BY DEF Way
  <2> HIDE DEF a
  <2> QED BY <1>1, <1>2, <1>3, <2>1, <2>2, <2>3, <2>4, CreditFit DEF a
<1>5. CASE ~(want_local_only => dir_out(sm))
  <2>1. hosts' = hosts /\ hs' = NULL
    BY <1>5, Zenon DEF acct_src
  <2>2. \A b \in DOMAIN hosts' :
          /\ \A d \in Way : ToProtos(b)'[d] <= ToProtos(b)[d]
          /\ \A t \in Ports : \A e \in Way : ToPorts(b)'[t][e] <= ToPorts(b)[t][e]
    BY <1>2, <1>3, <2>1 DEF ToProtos, Who, ToPorts, NothingLeft
  <2> QED BY <1>1, <2>1, <2>2, QuietFit
<1> QED BY <1>4, <1>5

(* The destination's bytes are its own then; the source's are still      *)
(* due.                                                                  *)
LEMMA DstFit == ASSUME FitInv, acct_dst PROVE FitInv'
<1>1. Inv'
  BY DstInv DEF FitInv
<1>2. pc = "dst" /\ pc' = "protos" /\ sm' = sm /\ hs' = hs
  BY DEF acct_dst
<1>3. /\ sm \in Packet /\ sm.dst \in Addr /\ sm.len \in Nat
      /\ NULL \notin DOMAIN hosts /\ hs \in DOMAIN hosts \cup {NULL}
  BY <1>2, AcctAssumption DEF FitInv, Inv, PointersOK, HostsOK, NoDangling
<1>4. CASE want_local_only => dir_in(sm)
  <2> DEFINE a == sm.dst
  <2>1. hosts' = Credit(host_get(a), a, "in", sm.len) /\ hd' = a
    BY <1>4, Zenon DEF acct_dst, Credit
  <2>2. \A b : /\ ToProtos(b)["in"] = 0
               /\ ToProtos(b)["out"] = IF b = hs THEN sm.len ELSE 0
    BY <1>2 DEF ToProtos, Who, Way
  <2>3. \A b : \A d \in Way :
          ToProtos(b)'[d] = ToProtos(b)[d] + IF b = a /\ d = "in" THEN sm.len ELSE 0
    <3>1. \A b : /\ ToProtos(b)'["in"] = IF b = a THEN sm.len ELSE 0
                 /\ ToProtos(b)'["out"] = IF b = hs THEN sm.len ELSE 0
      BY <1>2, <2>1 DEF ToProtos, Who, Way
    <3> HIDE DEF a
    <3> QED BY <1>3, <2>2, <3>1 DEF Way
  <2>4. a \notin DOMAIN hosts => \A d \in Way : ToProtos(a)[d] = 0
    <3>1. a # NULL
      BY <1>3, AcctAssumption
    <3> QED BY <1>3, <2>2, <3>1 DEF Way
  <2>5. "in" \in Way
    BY DEF Way
  <2> HIDE DEF a
  <2> QED BY <1>1, <1>2, <1>3, <2>1, <2>3, <2>4, <2>5, CreditFit DEF a
<1>5. CASE ~(want_local_only => dir_in(sm))
  <2>1. hosts' = hosts /\ hd' = NULL
    BY <1>5, Zenon DEF acct_dst
  <2>2. \A b \in DOMAIN hosts' :
          /\ \A d \in Way : ToProtos(b)'[d] <= ToProtos(b)[d]
          /\ \A t \in Ports : \A e \in Way : ToPorts(b)'[t][e] <= ToPorts(b)[t][e]
    BY <1>2, <1>3, <2>1 DEF ToProtos, Who, ToPorts, NothingLeft
  <2> QED BY <1>1, <2>1, <2>2, QuietFit
<1> QED BY <1>4, <1>5

----------------------------------------------------------------------------
(* Both ends' protocols, then their ports have the bytes to count.       *)
LEMMA ProtosFit == ASSUME FitInv, acct_protos PROVE FitInv'
<1>1. Inv'
  BY ProtosInv DEF FitInv
<1>2. pc = "protos" /\ pc' = "ports" /\ sm' = sm /\ hs' = hs /\ hd' = hd
  BY DEF acct_protos
<1>3. /\ sm \in Packet /\ sm.len \in Nat /\ NULL \notin DOMAIN hosts
      /\ sm.proto \in Proto \cup {"invalid"}
  BY <1>2, AcctAssumption DEF FitInv, Inv, PointersOK, HostsOK
<1>4. CASE sm.proto = "invalid"
  <2>1. hosts' = hosts
    BY <1>4, Zenon DEF acct_protos
  <2>2. \A t \in Ports : t[1] # sm.proto
    BY <1>4 DEF Ports
  <2>3. \A b : \A d \in Way : ToProtos(b)'[d] <= ToProtos(b)[d]
    BY <1>2, <1>3 DEF ToProtos
  <2>4. \A b : \A t \in Ports : \A e \in Way : ToPorts(b)'[t][e] <= ToPorts(b)[t][e]
    BY <1>2, <2>2 DEF ToPorts, Left, NothingLeft
  <2> QED BY <1>1, <2>1, <2>3, <2>4, QuietFit
<1>5. CASE sm.proto # "invalid"
  <2> DEFINE H1 == add_proto(hosts, hs, "out")
             H2 == add_proto(H1, hd, "in")
  <2>1. hosts' = H2
    BY <1>5, Zenon DEF acct_protos
  <2>2. hs = Who("out") /\ hd = Who("in")
    BY DEF Who
  <2>3. sm.proto \in Proto
    BY <1>3, <1>5
  <2>4. \A b : ToProtos(b) = Due(b, Way) /\ ToPorts(b) = PortDue(b, Way)
    <3>1. \A t \in Ports : \A e \in Way : Side(t, e) \in Way
      BY DEF Side, Opposite, Way
    <3> QED BY <1>2, <3>1 DEF ToProtos, Due, ToPorts, NothingLeft, PortDue
  <2>5. \A b \in DOMAIN hosts : Good(hosts[b], Due(b, Way), PortDue(b, Way))
    BY <2>4 DEF FitInv
  <2>6. /\ DOMAIN H1 = DOMAIN hosts
        /\ \A b \in DOMAIN H1 : Good(H1[b], Due(b, {"in"}), PortDue(b, {"in"}))
    <3>1. "out" \in Way /\ {"in"} = Way \ {"out"}
      BY DEF Way
    <3>2. H1 = add_proto(hosts, Who("out"), "out")
      BY <2>2
    <3> HIDE DEF H1
    <3> QED BY <1>3, <2>3, <2>5, <3>1, <3>2, AddProtoFit
  <2>7. /\ DOMAIN H2 = DOMAIN hosts
        /\ \A b \in DOMAIN H2 : Good(H2[b], Due(b, {}), PortDue(b, {}))
    <3>1. "in" \in Way /\ "in" \in {"in"} /\ {} = {"in"} \ {"in"}
      BY DEF Way
    <3>2. H2 = add_proto(H1, Who("in"), "in")
      BY <2>2
    <3> HIDE DEF H1, H2
    <3> QED BY <1>3, <2>3, <2>6, <3>1, <3>2, AddProtoFit
  <2>8. \A b : ToProtos(b)' = Due(b, {}) /\ ToPorts(b)' = PortDue(b, {})
    BY <1>2 DEF ToProtos, Due, ToPorts, PortDue, Left, Who
  <2> HIDE DEF H1, H2
  <2>9. \A b \in DOMAIN hosts' : Good(hosts'[b], ToProtos(b)', ToPorts(b)')
    BY <2>1, <2>7, <2>8
  <2> QED BY <1>1, <2>9 DEF FitInv
<1> QED BY <1>4, <1>5

(* The four look-ups take no more than what is left for them.            *)
LEMMA PortsFitStep == ASSUME FitInv, acct_ports PROVE FitInv'
<1>1. Inv'
  BY PortsInv DEF FitInv
<1>2. pc = "ports" /\ pc' = "idle"
  BY DEF acct_ports
<1>3. /\ sm \in Packet /\ sm.len \in Nat /\ NULL \notin DOMAIN hosts
      /\ sm.src_port \in Nat /\ sm.dst_port \in Nat
  BY <1>2, AcctAssumption DEF FitInv, Inv, PointersOK, HostsOK
<1>4. CASE ~(ports_max # 0 /\ sm.proto \in {"tcp", "udp"})
  <2>1. hosts' = hosts
    BY <1>4, Zenon DEF acct_ports
  <2>2. \A b : \A d \in Way : ToProtos(b)'[d] <= ToProtos(b)[d]
    BY <1>2 DEF ToProtos
  <2>3. \A b : \A t \in Ports : \A e \in Way : ToPorts(b)'[t][e] <= ToPorts(b)[t][e]
    BY <1>2, <1>3 DEF ToPorts, Left, NothingLeft
  <2> QED BY <1>1, <2>1, <2>2, <2>3, QuietFit
<1>5. CASE ports_max # 0 /\ sm.proto \in {"tcp", "udp"}
  <2> DEFINE H1 == add_port(hosts, hs, "local", sm.src_port, "out")
             H2 == add_port(H1, hd, "local", sm.dst_port, "in")
             H3 == add_port(H2, hd, "remote", sm.src_port, "out")
             H4 == add_port(H3, hs, "remote", sm.dst_port, "in")
             u == [d \in Way |-> 0]
             D1 == {} \cup {Place("local", "out")}
             D2 == D1 \cup {Place("local", "in")}
             D3 == D2 \cup {Place("remote", "out")}
             D4 == D3 \cup {Place("remote", "in")}
  <2>1. hosts' = H4
    BY <1>5, Zenon DEF acct_ports, add_ports
  <2>2. /\ hs = Who(Side(Table("local"), "out")) /\ hd = Who(Side(Table("local"), "in"))
        /\ hd = Who(Side(Table("remote"), "out"))
        /\ hs = Who(Side(Table("remote"), "in"))
    BY DEF Who, Side, Opposite, Table
  <2>3. /\ Table("local") \in Ports /\ Table("remote") \in Ports
        /\ u \in Spare /\ "in" \in Way /\ "out" \in Way
    BY <1>5 DEF Ports, Spare, Way, Table
  <2>4. Leaves(hosts, u, {})
    <3>1. \A b : ToProtos(b) = u /\ ToPorts(b) = Left(b, {})
      BY <1>2 DEF ToProtos, ToPorts
    <3> QED BY <3>1 DEF FitInv, Leaves
  <2>5. /\ D1 = {} \cup {Place("local", "out")} /\ D2 = D1 \cup {Place("local", "in")}
        /\ D3 = D2 \cup {Place("remote", "out")} /\ D4 = D3 \cup {Place("remote", "in")}
    OBVIOUS
  <2>6. DOMAIN H1 = DOMAIN hosts /\ Leaves(H1, u, D1)
    <3>1. H1 =
             add_port(hosts, Who(Side(Table("local"), "out")), "local", sm.src_port, "out")
      BY <2>2
    <3>2. Place("local", "out") \notin {}
      BY DEF Place
    <3> HIDE DEF H1, u, D1
    <3>3. NULL \notin DOMAIN hosts
      BY <1>3
    <3>4. Leaves(hosts, u, {})
      BY <2>4
    <3>5. DOMAIN H1 = DOMAIN hosts /\ Leaves(H1, u, D1)
      BY <1>3, <1>5, <2>3, <2>5, <3>1, <3>2, <3>3, <3>4, AddPortFit
    <3> QED BY <3>5
  <2>7. DOMAIN H2 = DOMAIN hosts /\ Leaves(H2, u, D2)
    <3>1. H2 = add_port(H1, Who(Side(Table("local"), "in")), "local", sm.dst_port, "in")
      BY <2>2
    <3>2. Place("local", "in") \notin D1
      BY DEF Place
    <3> HIDE DEF H1, H2, u, D1, D2
    <3>3. NULL \notin DOMAIN H1
      BY <1>3, <2>6
    <3>4. Leaves(H1, u, D1)
      BY <2>6
    <3>5. DOMAIN H2 = DOMAIN H1 /\ Leaves(H2, u, D2)
      BY <1>3, <1>5, <2>3, <2>5, <3>1, <3>2, <3>3, <3>4, AddPortFit
    <3> QED BY <3>5, <2>6
  <2>8. DOMAIN H3 = DOMAIN hosts /\ Leaves(H3, u, D3)
    <3>1. H3 =
             add_port(H2, Who(Side(Table("remote"), "out")), "remote", sm.src_port, "out")
      BY <2>2
    <3>2. Place("remote", "out") \notin D2
      BY DEF Place
    <3> HIDE DEF H1, H2, H3, u, D1, D2, D3
    <3>3. NULL \notin DOMAIN H2
      BY <1>3, <2>7
    <3>4. Leaves(H2, u, D2)
      BY <2>7
    <3>5. DOMAIN H3 = DOMAIN H2 /\ Leaves(H3, u, D3)
      BY <1>3, <1>5, <2>3, <2>5, <3>1, <3>2, <3>3, <3>4, AddPortFit
    <3> QED BY <3>5, <2>7
  <2>9. DOMAIN H4 = DOMAIN hosts /\ Leaves(H4, u, D4)
    <3>1. H4 =
             add_port(H3, Who(Side(Table("remote"), "in")), "remote", sm.dst_port, "in")
      BY <2>2
    <3>2. Place("remote", "in") \notin D3
      BY DEF Place
    <3> HIDE DEF H1, H2, H3, H4, u, D1, D2, D3, D4
    <3>3. NULL \notin DOMAIN H3
      BY <1>3, <2>8
    <3>4. Leaves(H3, u, D3)
      BY <2>8
    <3>5. DOMAIN H4 = DOMAIN H3 /\ Leaves(H4, u, D4)
      BY <1>3, <1>5, <2>3, <2>5, <3>1, <3>2, <3>3, <3>4, AddPortFit
    <3> QED BY <3>5, <2>8
  <2>10. \A b : Left(b, D4) = NothingLeft
    <3>1. \A t \in Ports : \A e \in Way : <<t[2], e>> \in D4
      BY DEF Ports, Way, Place
    <3> HIDE DEF D4
    <3> QED BY <3>1 DEF Left, NothingLeft
  <2>11. \A b : ToProtos(b)' = u /\ ToPorts(b)' = NothingLeft
    BY <1>2 DEF ToProtos, ToPorts
  <2> HIDE DEF H1, H2, H3, H4, u, D4
  <2>12. \A b \in DOMAIN hosts' : Good(hosts'[b], ToProtos(b)', ToPorts(b)')
    BY <2>1, <2>9, <2>10, <2>11 DEF Leaves
  <2> QED BY <1>1, <2>12 DEF FitInv
<1> QED BY <1>4, <1>5

(* No host, nothing to fit.                                              *)
LEMMA ResetFit == ASSUME FitInv, reset PROVE FitInv'
<1>1. Inv'
  BY ResetInv DEF FitInv
<1>2. DOMAIN hosts' = {}
  BY DEF reset
<1> QED BY <1>1, <1>2 DEF FitInv

(* In every reachable state.                                             *)
THEOREM AcctFit ==
  ASSUME \A H \in Imported : \A a \in DOMAIN H : PortsFit(H[a])
  PROVE  Spec => []FitInv
<1>1. Init => FitInv
  BY InitFit
<1>2. FitInv /\ [Next]_vars => FitInv'
  <2> SUFFICES ASSUME FitInv, [Next]_vars PROVE FitInv'
    OBVIOUS
  <2>1. ASSUME NEW p \in Packet, acct_totals(p) PROVE FitInv'
    BY <2>1, TotalsFit
  <2>2. CASE hosts_db_reduce
    BY <2>2, ReduceFit
  <2>3. CASE acct_src
    BY <2>3, SrcFit
  <2>4. CASE acct_dst
    BY <2>4, DstFit
  <2>5. CASE acct_protos
    BY <2>5, ProtosFit
  <2>6. CASE acct_ports
    BY <2>6, PortsFitStep
  <2>7. CASE reset
    BY <2>7, ResetFit
  <2>8. CASE UNCHANGED vars
    <3>1. Inv'
      BY <2>8 DEF vars, FitInv, Inv, HostsOK, HostOK, PointersOK, Room, NoDangling
    <3>2. hosts' = hosts /\ pc' = pc /\ sm' = sm /\ hs' = hs /\ hd' = hd
      BY <2>8 DEF vars
    <3>3. \A b : ToProtos(b)' = ToProtos(b) /\ ToPorts(b)' = ToPorts(b)
      BY <3>2 DEF ToProtos, ToPorts, Left, NothingLeft, Who
    <3> QED BY <3>1, <3>2, <3>3 DEF FitInv
  <2> QED
    BY <2>1, <2>2, <2>3, <2>4, <2>5, <2>6, <2>7, <2>8 DEF Next
<1> QED BY <1>1, <1>2, PTL DEF Spec

(* A host's ports add up to no more than their protocol, and its protocols *)
(* to no more than its bytes, between packets (acct_for), if they do in  *)
(* the tables that are imported.                                         *)
THEOREM AcctPortsWithinProtos ==
  ASSUME \A H \in Imported : \A a \in DOMAIN H : PortsFit(H[a])
  PROVE  Spec => []PortsWithinProtos
<1>1. FitInv => PortsWithinProtos
  <2> SUFFICES ASSUME FitInv, pc = "idle", NEW a \in DOMAIN hosts
               PROVE  PortsFit(hosts[a])
    BY DEF PortsWithinProtos
  <2>1. Good(hosts[a], ToProtos(a), ToPorts(a)) /\ IsHost(hosts[a])
    BY DEF FitInv, Good
  <2>2. ToProtos(a) \in Spare /\ ToPorts(a) \in PortSpare
    BY SpareTypes DEF FitInv
  <2>3. \A d \in Way : ToProtos(a)[d] = 0
    BY DEF ToProtos
  <2>4. \A t \in Ports : \A e \in Way : ToPorts(a)[t][e] = 0
    BY DEF ToPorts, NothingLeft
  <2> QED BY <2>1, <2>2, <2>3, <2>4, GoodFits
<1> QED BY <1>1, AcctFit, PTL
=============================================================================
