------------------------------- MODULE MCAcct -------------------------------
(* Acct for TLC: two local and two remote addresses.  Packets between any  *)
(* of them move the hosts table; packets with ports fill the port tables   *)
(* of one of each.                                                         *)
EXTENDS Acct

CONSTANTS l1, l2, r1, r2

MCAddr  == {l1, l2, r1, r2}
MCLocal == {l1, l2}
MCProto == {"tcp", "udp", "icmp"}

Pkt(a, b, p, q1, q2, s) ==
  [src |-> a, dst |-> b, len |-> 1, proto |-> p,
   src_port |-> q1, dst_port |-> q2, syn |-> s]

(* With the highest port 3, ports 1 to 3 of either end, a packet from a    *)
(* host to itself, UDP, and a packet that could not be decoded.            *)
MCPacket ==
  {Pkt(a, b, "icmp", 0, 0, FALSE) : a \in MCAddr, b \in MCAddr}
    \cup {Pkt(l1, r1, "tcp", q, 4, FALSE) : q \in 1..3}
    \cup {Pkt(r1, l1, "tcp", 4, q, TRUE) : q \in 1..3}
    \cup {Pkt(l1, l1, "tcp", 1, 2, FALSE), Pkt(r1, l1, "udp", 1, 3, FALSE),
          Pkt(r1, l1, "invalid", 0, 0, FALSE)}

(* Nothing, or a table that is larger than --hosts-max.                    *)
MCImported ==
  {[a \in {} |-> 0],
   [a \in MCAddr |-> [make_func_host EXCEPT !.out = 1,
                                          !.in = IF a \in MCLocal THEN 1 ELSE 0]]}
=============================================================================
