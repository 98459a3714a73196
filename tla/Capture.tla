------------------------------ MODULE Capture ------------------------------
(***************************************************************************)
(* From the interfaces to the daily log: opening them (cap_start), taking  *)
(* packets from their buffers once per turn of the main loop (cap_poll),   *)
(* decoding them (Decode), telling by the interface's own addresses which  *)
(* way they go (localip.c, acct_for) and counting them per day (daylog.c). *)
(*                                                                         *)
(* Interfaces come up, go down and change their addresses at any time;     *)
(* packets arrive at any time; the clock is looked at once per turn.  This *)
(* is the Linux build, where a dispatch may leave packets behind.          *)
(***************************************************************************)
EXTENDS Decode, Sequences, FiniteSets

CONSTANTS
  NumIfs,         \* interfaces, in the order of the command line
  linktype,       \* the link type of each
  opt_want_pppoe,
  opt_want_snaplen,
  opt_wait_secs,  \* --wait, -1 without it
  Addr,           \* the addresses that interfaces may have
  AddrLists,      \* the lists of them that getifaddrs may return
  Packet,         \* the packets that may arrive, each once
  DaySecs,        \* seconds in a day
  BufMax,         \* packets that fit in an interface's buffer
  MaxReal,        \* bound on the real clock
  MaxMono,        \* and on the monotonic one
  MaxChanges      \* bound on the changes of addresses

Ifs == 1..NumIfs

ASSUME CaptureAssumption ==
  /\ NumIfs \in Nat \ {0}
  /\ linktype \in [Ifs -> Linktype]
  /\ opt_want_pppoe \in BOOLEAN
  /\ opt_want_snaplen \in Int /\ opt_wait_secs \in Int
  /\ AddrLists \subseteq Seq(Addr)
  /\ \A p \in Packet : p.headers \in Headers /\ p.len \in Length
  /\ DaySecs \in Nat \ {0} /\ BufMax \in Nat
  /\ MaxReal \in Nat /\ MaxMono \in Nat /\ MaxChanges \in Nat

VARIABLES
  pc,          \* the call main() is in
  cur,         \* the interface cap_start or cap_poll is at
  waited,      \* seconds that cap_start_one has slept
  up,          \* is the interface up?
  ifaddrs,     \* its addresses, as the system has them
  buffer,      \* packets captured on it and not dispatched yet
  local_ips,   \* what darkstat believes: addrs, num_addrs, is_valid
  updated,     \* last_update_mono
  now_mono, now_real,
  today_real, tomorrow_real, in_today, out_today,
               \* daylog.c: times, and the packets in its counters
  log,         \* the lines of the log
  arrived,     \* history: packets so far
  changes,     \* history: changes of addresses so far
  recent,      \* history: the lists each interface has had since its update
  owed,        \* history: what was in the buffers when the turn began
  counted,     \* history: where each packet should be: its way and its day
  unwritten,   \* history: packets in lines that could not be written
  set_back     \* history: was the real clock set back?

net     == <<up, ifaddrs, buffer>>
local   == <<local_ips, updated>>
clocks  == <<now_mono, now_real>>
daylog  == <<today_real, tomorrow_real, in_today, out_today, log>>
history == <<arrived, changes, recent, owed, counted, unwritten, set_back>>
vars == <<pc, cur, waited, net, local, clocks, daylog, history>>

(* localip_init                                                            *)
NoIps == [addrs |-> <<>>, num_addrs |-> 0, is_valid |-> FALSE]

Init ==
  /\ pc = "open" /\ cur = 1 /\ waited = 0
  /\ up \in [Ifs -> BOOLEAN]
  /\ ifaddrs \in [Ifs -> AddrLists]
  /\ buffer = [i \in Ifs |-> <<>>]
  /\ local_ips = [i \in Ifs |-> NoIps]
  /\ updated = [i \in Ifs |-> 0]
  /\ now_mono = 1 /\ now_real = 1
  /\ today_real = 0 /\ tomorrow_real = 0
  /\ in_today = {} /\ out_today = {} /\ log = <<>>
  /\ arrived = {} /\ changes = 0
  /\ recent = [i \in Ifs |-> {ifaddrs[i]}]
  /\ owed = {} /\ counted = {} /\ unwritten = {} /\ set_back = FALSE

----------------------------------------------------------------------------
(* The network.  An interface that is being captured from buffers packets  *)
(* while there is room.                                                    *)
Capturing(i) == pc \notin {"open", "reopen", "failed", "stopped"} \/
                (pc \in {"open", "reopen"} /\ i < cur)

arrive(i, p) ==
  /\ Capturing(i) /\ up[i]
  /\ p \notin arrived /\ Len(buffer[i]) < BufMax
  /\ buffer' = [buffer EXCEPT ![i] = Append(@, p)]
  /\ arrived' = arrived \cup {p}
  /\ UNCHANGED <<pc, cur, waited, up, ifaddrs, local, clocks, daylog, changes,
                 recent, owed, counted, unwritten, set_back>>

change_addrs(i, list) ==
  /\ changes < MaxChanges /\ list # ifaddrs[i]
  /\ changes' = changes + 1
  /\ ifaddrs' = [ifaddrs EXCEPT ![i] = list]
  /\ recent' = [recent EXCEPT ![i] = @ \cup {list}]
  /\ UNCHANGED <<pc, cur, waited, up, buffer, local, clocks, daylog, arrived,
                 owed, counted, unwritten, set_back>>

go_up_or_down(i) ==
  /\ changes < MaxChanges
  /\ changes' = changes + 1
  /\ up' = [up EXCEPT ![i] = ~@]
  /\ UNCHANGED <<pc, cur, waited, ifaddrs, buffer, local, clocks, daylog, arrived,
                 recent, owed, counted, unwritten, set_back>>

----------------------------------------------------------------------------
(* cap_start opens the interfaces one after the other, each twice: first   *)
(* to learn its link type, then with the right snaplen.                    *)
pcap_open_live ==
  /\ pc = "open" /\ up[cur]
  /\ pc' = "reopen"
  /\ UNCHANGED <<cur, waited, net, local, clocks, daylog, history>>

GivesUp == opt_wait_secs = -1 \/ (opt_wait_secs > 0 /\ waited >= opt_wait_secs)

(* Down: wait for a second, or for --wait 0, as long as it takes.          *)
not_up ==
  /\ pc = "open" /\ ~up[cur]
  /\ IF GivesUp
     THEN pc' = "failed" /\ UNCHANGED <<waited, clocks>>
     ELSE /\ waited' = IF opt_wait_secs = 0 THEN 0 ELSE waited + 1
          /\ UNCHANGED <<pc, clocks>>
  /\ UNCHANGED <<cur, net, local, daylog, history>>

(* An unknown link type, or --pppoe on anything but Ethernet, is fatal;    *)
(* and so is it if the interface went down since it was opened.            *)
cap_start_one ==
  /\ pc = "reopen"
  /\ IF up[cur] /\ Possible(linktype[cur], opt_want_pppoe)
     THEN /\ pc' = IF cur = NumIfs THEN "daylog_init" ELSE "open"
          /\ cur' = IF cur = NumIfs THEN 1 ELSE cur + 1
          /\ waited' = 0
     ELSE pc' = "failed" /\ UNCHANGED <<cur, waited>>
  /\ UNCHANGED <<net, local, clocks, daylog, history>>

(* The bytes of p that were captured.                                      *)
caplen(i, p) ==
  LET snap == snaplen(linktype[i], opt_want_pppoe, TRUE, opt_want_snaplen)
  IN  IF p.len < snap THEN p.len ELSE snap

----------------------------------------------------------------------------
(* daylog.c.                                                               *)
Day(t) == t \div DaySecs
tomorrow(t) == (Day(t) + 1) * DaySecs

daylog_init ==
  /\ pc = "daylog_init"
  /\ today_real' = now_real
  /\ tomorrow_real' = tomorrow(now_real)
  /\ pc' = "select"
  /\ UNCHANGED <<cur, waited, net, local, clocks, in_today, out_today, log, history>>

(* A line about the counters, unless it cannot be written; the packets in  *)
(* it are forgotten either way.                                            *)
daylog_emit(label) ==
  \/ /\ log' = Append(log, [day |-> Day(label), in |-> in_today, out |-> out_today])
     /\ UNCHANGED unwritten
  \/ /\ unwritten' = unwritten \cup in_today \cup out_today
     /\ UNCHANGED log

(* As daylog_acct, but the packet is counted before the log is updated.    *)
daylog_acctFirst(ins, outs) ==
  IF now_real >= tomorrow_real
  THEN /\ log' = Append(log, [day |-> Day(today_real), in |-> in_today \cup ins,
                              out |-> out_today \cup outs])
       /\ today_real' = now_real /\ tomorrow_real' = tomorrow(now_real)
       /\ in_today' = {} /\ out_today' = {} /\ UNCHANGED unwritten
  ELSE /\ in_today' = in_today \cup ins /\ out_today' = out_today \cup outs
       /\ UNCHANGED <<today_real, tomorrow_real, log, unwritten>>

(* Count packets that come in and go out: one, either way.                 *)
daylog_acct(ins, outs) ==
  IF now_real >= tomorrow_real
  THEN /\ daylog_emit(today_real)
       /\ today_real' = now_real
       /\ tomorrow_real' = tomorrow(now_real)
       /\ in_today' = ins /\ out_today' = outs
  ELSE /\ in_today' = in_today \cup ins /\ out_today' = out_today \cup outs
       /\ UNCHANGED <<today_real, tomorrow_real, log, unwritten>>

(* The last line has the time of stopping.                                 *)
daylog_free ==
  /\ today_real' = now_real
  /\ daylog_emit(now_real)
  /\ UNCHANGED <<tomorrow_real, in_today, out_today>>

----------------------------------------------------------------------------
(* A turn of the main loop begins: select returned, now_update.            *)
now_update ==
  /\ pc = "select"
  /\ \E dm \in 0..1, t \in 1..MaxReal :
       /\ now_mono + dm <= MaxMono
       /\ now_mono' = now_mono + dm
       /\ now_real' = t
       /\ set_back' = (set_back \/ t < now_real)
  /\ pc' = "poll" /\ cur' = 1
  /\ owed' = UNION {{buffer[i][k] : k \in 1..Len(buffer[i])} : i \in Ifs}
  /\ UNCHANGED <<waited, net, local, daylog, arrived, changes, recent, counted,
                 unwritten>>

(* As Refreshed, but the list never gets shorter.                          *)
RefreshedGrows(ips, list) ==
  LET n == Len(list)
      old == IF ips.num_addrs > n THEN SubSeq(ips.addrs, n + 1, ips.num_addrs)
             ELSE <<>>
  IN  IF n = 0 THEN [ips EXCEPT !.is_valid = FALSE]
      ELSE [addrs |-> list \o old, num_addrs |-> Len(list \o old), is_valid |-> TRUE]

(* add_ip overwrites the list from its start and makes it longer where     *)
(* needed; num_addrs is lowered afterwards, but not to 0.                  *)
Refreshed(ips, list) ==
  LET n == Len(list)
      old == IF Len(ips.addrs) > n THEN SubSeq(ips.addrs, n + 1, Len(ips.addrs))
             ELSE <<>>
  IN  IF n = 0 THEN [ips EXCEPT !.is_valid = FALSE]
      ELSE [addrs |-> list \o old, num_addrs |-> n, is_valid |-> TRUE]

(* Once per turn, and at most once per second.                             *)
localip_update ==
  /\ pc = "poll"
  /\ IF updated[cur] = now_mono
     THEN UNCHANGED <<local, recent>>
     ELSE /\ updated' = [updated EXCEPT ![cur] = now_mono]
          /\ local_ips' = [local_ips EXCEPT ![cur] = Refreshed(@, ifaddrs[cur])]
          /\ recent' = [recent EXCEPT ![cur] = {ifaddrs[cur]}]
  /\ pc' = "dispatch"
  /\ UNCHANGED <<cur, waited, net, clocks, daylog, arrived, changes, owed, counted,
                 unwritten, set_back>>

Addresses(ips) == SubSeq(ips.addrs, 1, ips.num_addrs)

is_localip(a, ips) == \E k \in 1..ips.num_addrs : ips.addrs[k] = a

(* callback: what can be decoded is accounted for.  Packets that stay      *)
(* within the network, or outside of it, are not counted here.             *)
callback(p) ==
  LET sm      == decoder(linktype[cur], p.headers, caplen(cur, p), opt_want_pppoe)
      dir_out == is_localip(p.src, local_ips[cur])
      dir_in  == is_localip(p.dst, local_ips[cur])
  IN  IF sm.ok /\ dir_in # dir_out
      THEN /\ daylog_acct(IF dir_in THEN {p} ELSE {}, IF dir_out THEN {p} ELSE {})
           /\ counted' = counted \cup
                {[packet |-> p, in |-> dir_in, day |-> Day(now_real)]}
      ELSE UNCHANGED <<daylog, counted, unwritten>>

(* A dispatch, of which one packet is enough here.                         *)
pcap_dispatch ==
  /\ pc = "dispatch"
  /\ buffer[cur] # <<>>
  /\ callback(Head(buffer[cur]))
  /\ buffer' = [buffer EXCEPT ![cur] = Tail(@)]
  /\ UNCHANGED <<pc, cur, waited, up, ifaddrs, local, clocks, arrived, changes,
                 recent, owed, set_back>>

NextIf == /\ pc' = IF cur = NumIfs THEN "select" ELSE "poll"
          /\ cur' = IF cur = NumIfs THEN 1 ELSE cur + 1

(* As dispatched_all, but "we get them all on the first shot".             *)
dispatched_once ==
  /\ pc = "dispatch" /\ up[cur]
  /\ NextIf
  /\ UNCHANGED <<waited, net, local, clocks, daylog, history>>

(* "keep looping until we've dispatched all the outstanding packets"       *)
dispatched_all ==
  /\ pc = "dispatch" /\ up[cur]
  /\ buffer[cur] = <<>>
  /\ NextIf
  /\ UNCHANGED <<waited, net, local, clocks, daylog, history>>

(* An interface that went down ends cap_poll, and then the program.        *)
dispatch_error ==
  /\ pc = "dispatch" /\ ~up[cur]
  /\ pc' = "stop"
  /\ UNCHANGED <<cur, waited, net, local, clocks, daylog, history>>

sig_shutdown ==
  /\ pc = "select"
  /\ pc' = "stop"
  /\ UNCHANGED <<cur, waited, net, local, clocks, daylog, history>>

(* cap_stop, then daylog_free.                                             *)
cap_stop ==
  /\ pc = "stop"
  /\ daylog_free
  /\ buffer' = [i \in Ifs |-> <<>>]
  /\ local_ips' = [i \in Ifs |-> NoIps]
  /\ pc' = "stopped"
  /\ UNCHANGED <<cur, waited, up, ifaddrs, updated, clocks, arrived, changes,
                 recent, owed, counted, set_back>>

Terminated == pc \in {"failed", "stopped"} /\ UNCHANGED vars

Next ==
  \/ \E i \in Ifs, p \in Packet : arrive(i, p)
  \/ \E i \in Ifs, list \in AddrLists : change_addrs(i, list)
  \/ \E i \in Ifs : go_up_or_down(i)
  \/ pcap_open_live \/ not_up \/ cap_start_one \/ daylog_init
  \/ now_update \/ localip_update \/ pcap_dispatch \/ dispatched_all
  \/ dispatch_error \/ sig_shutdown \/ cap_stop
  \/ Terminated

Spec == Init /\ [][Next]_vars

----------------------------------------------------------------------------
(* The packets in a line, or in the counters.                              *)
Packets(line) == line.in \cup line.out

(* Every packet that was counted is in exactly one line of the log, in the *)
(* counters, or in a line that could not be written, as what it was; and   *)
(* but for the last line, which has the time of stopping, a line's date is *)
(* that of the day on which its packets were counted, unless the clock was *)
(* set back (daylog_acct, daylog_emit, daylog_free).                       *)
DaylogIsRight ==
  LET lines == DOMAIN log
      inMemory == IF pc = "stopped" THEN {} ELSE in_today \cup out_today
      last == IF pc = "stopped" THEN Len(log) ELSE 0
  IN
  /\ \A j, k \in lines : j # k => Packets(log[j]) \cap Packets(log[k]) = {}
  /\ \A j \in lines : Packets(log[j]) \cap (inMemory \cup unwritten) = {}
  /\ inMemory \cap unwritten = {}
  /\ {c.packet : c \in counted} =
       (UNION {Packets(log[j]) : j \in lines}) \cup inMemory \cup unwritten
  /\ \A c \in counted, j \in lines :
       c.packet \in Packets(log[j]) =>
         /\ c.packet \in (IF c.in THEN log[j].in ELSE log[j].out)
         /\ j # last /\ ~set_back => log[j].day = c.day

(* A turn of the loop that does not fail dispatches everything that was in *)
(* the buffers when it began (cap_poll).                                   *)
AllDispatched ==
  pc = "select" =>
    \A i \in Ifs, p \in owed : \A k \in 1..Len(buffer[i]) : buffer[i][k] # p

(* The addresses by which packets are told apart are those the interface   *)
(* has, or had at some moment since the last look at them, which was in    *)
(* this second; but an interface that lost all of its addresses keeps the  *)
(* ones it had (localip_update, add_ip).                                   *)
LocalIsCurrent ==
  pc = "dispatch" =>
    /\ updated[cur] = now_mono
    /\ Addresses(local_ips[cur]) \in recent[cur] \/ <<>> \in recent[cur]

(* Whatever frame is dispatched, on whatever kind of link, its decoder     *)
(* does not look beyond what was captured of it: the lengths that are      *)
(* passed from one header to the next are unsigned, and one that was not   *)
(* asked for before it is subtracted would make them huge (decode.c).      *)
NoOverread == pc = "dispatch" => StaysInside

(* "minimum snaplen needed to decode everything up to and including the    *)
(* TCP/UDP packet headers": once the interfaces are open, any frame gives  *)
(* what it would give if it had been captured as a whole (getsnaplen,      *)
(* cap_start_one).                                                         *)
SnaplenIsEnough == pc = "dispatch" => CutIsEnough
=============================================================================
