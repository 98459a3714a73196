----------------------------- MODULE HostEvents -----------------------------
(***************************************************************************)
(* The sessions of hosts that /json reports (hosts_db.c).  A host has no   *)
(* timer: its session is opened and closed when it is listed, by how long  *)
(* ago it was last seen to send something.  What is long ago is up to the  *)
(* client (event_close_secs), and so is when and what it lists, while the  *)
(* state is the same for all clients.                                      *)
(*                                                                         *)
(* Times are seconds of the monotonic clock, which starts with the         *)
(* machine: those of imported hosts may be negative, or in the future if   *)
(* the real time was set back.                                             *)
(***************************************************************************)
EXTENDS Integers, FiniteSets

CONSTANTS
  Addr,         \* addresses
  CloseSecs,    \* the values of event_close_secs that clients ask with
  ListSecs,     \* some client lists all the hosts at least this often
  MAX_ENTRIES,  \* hosts in a listing that is not of all
  StartTime,    \* now_mono() when the program starts
  MaxTime,      \* bound on now_mono()
  ImportedSeen  \* last_seen_mono of imported hosts

ASSUME EventsAssumption ==
  /\ CloseSecs \subseteq Nat  \* 2^32 is cut off to 0
  /\ ListSecs \in Nat \ {0} /\ MAX_ENTRIES \in Nat \ {0}
  /\ StartTime \in Nat \ {0} /\ MaxTime \in Nat
  /\ ImportedSeen \subseteq Int

VARIABLES
  now,     \* now_mono()
  hosts,   \* hosts_db: from the addresses in it to what a listing looks at
  listed   \* the time of the last listing of all hosts

vars == <<now, hosts, listed>>

make_func_host ==
  [last_seen_mono |-> 0, event_seq |-> 0, event_opened_mono |-> 0,
   event_closed_mono |-> 0, event_is_open |-> FALSE]

(* Nothing was imported, or some hosts were: what is left of sessions in   *)
(* a file is when the hosts were last seen.                                *)
Init ==
  /\ now = StartTime /\ listed = StartTime
  /\ \E S \in SUBSET Addr : \E f \in [S -> ImportedSeen] :
       hosts = [a \in S |-> [make_func_host EXCEPT !.last_seen_mono = f[a]]]

(* now_update.  Some client lists all the hosts every ListSecs.            *)
tick ==
  /\ now < MaxTime /\ now - listed < ListSecs
  /\ now' = now + 1
  /\ UNCHANGED <<hosts, listed>>

host_get(a) ==
  [b \in DOMAIN hosts \cup {a} |-> IF b \in DOMAIN hosts THEN hosts[b]
                                   ELSE make_func_host]

(* acct_for: the source was seen; of the destination it only knows that it *)
(* is spoken to.                                                           *)
acct_src(a) ==
  /\ hosts' = [host_get(a) EXCEPT ![a].last_seen_mono = now]
  /\ UNCHANGED <<now, listed>>

acct_dst(a) == hosts' = host_get(a) /\ UNCHANGED <<now, listed>>

(* A reduction or a reset of the hosts table.                              *)
free_hosts(S) ==
  /\ S # {}
  /\ hosts' = [a \in DOMAIN hosts \ S |-> hosts[a]]
  /\ UNCHANGED <<now, listed>>

(* As host_is_active, but one second less.                                 *)
host_is_activeStrict(h, close_secs) ==
  /\ h.last_seen_mono # 0
  /\ now - h.last_seen_mono < close_secs

(* A host that will only be seen in the future is active, too.             *)
host_is_active(h, close_secs) ==
  /\ h.last_seen_mono # 0
  /\ now - h.last_seen_mono <= close_secs

(* The first listing of a host, with its session or without.               *)
first_event(h, active) ==
  [h EXCEPT !.event_seq = 1, !.event_opened_mono = h.last_seen_mono,
            !.event_is_open = active,
            !.event_closed_mono = IF active THEN 0 ELSE now]

(* As reopened, but the time of the opening stays.                         *)
reopenedAsBefore(h) ==
  [h EXCEPT !.event_seq = @ + 1, !.event_is_open = TRUE,
            !.event_closed_mono = 0]

reopened(h) ==
  [h EXCEPT !.event_seq = @ + 1, !.event_is_open = TRUE,
            !.event_opened_mono = h.last_seen_mono, !.event_closed_mono = 0]

closed(h) == [h EXCEPT !.event_is_open = FALSE, !.event_closed_mono = now]

host_event_update(h, close_secs) ==
  LET active == host_is_active(h, close_secs)
  IN  IF h.event_seq = 0 THEN first_event(h, active)
      ELSE IF active /\ ~h.event_is_open THEN reopened(h)
      ELSE IF ~active /\ h.event_is_open THEN closed(h)
      ELSE h

(* A listing of the hosts in S.                                            *)
text_json(S, close_secs) ==
  hosts' = [a \in DOMAIN hosts |->
              IF a \in S THEN host_event_update(hosts[a], close_secs)
              ELSE hosts[a]]

(* Of all hosts ("full"), or of those that come somewhere in some order.   *)
text_json_full(close_secs) ==
  /\ text_json(DOMAIN hosts, close_secs)
  /\ listed' = now
  /\ UNCHANGED now

text_json_page(S, close_secs) ==
  /\ S # {} /\ Cardinality(S) <= MAX_ENTRIES
  /\ text_json(S, close_secs)
  /\ UNCHANGED <<now, listed>>

(* The bound on time leaves nothing to do in the end but listings.         *)
Next ==
  \/ tick
  \/ \E a \in Addr : acct_src(a)
  \/ \E a \in Addr : acct_dst(a)
  \/ \E S \in SUBSET DOMAIN hosts : free_hosts(S)
  \/ \E c \in CloseSecs : text_json_full(c)
  \/ \E S \in SUBSET DOMAIN hosts, c \in CloseSecs : text_json_page(S, c)

Spec == Init /\ [][Next]_vars
----------------------------------------------------------------------------
Host ==
  [last_seen_mono : Int, event_seq : Nat, event_opened_mono : Int,
   event_closed_mono : 0..now, event_is_open : BOOLEAN]

(* A session is not closed in the future.                                  *)
TypeOK ==
  /\ now \in Nat /\ listed \in 0..now
  /\ DOMAIN hosts \subseteq Addr
  /\ \A a \in DOMAIN hosts : hosts[a] \in Host

(* A session that is reported to be open has no end, one that is closed    *)
(* has; before the first listing there is neither.                         *)
StatusAgrees ==
  \A a \in DOMAIN hosts :
    LET h == hosts[a]
    IN  IF h.event_seq = 0 THEN ~h.event_is_open /\ h.event_closed_mono = 0
        ELSE h.event_is_open <=> h.event_closed_mono = 0

Reopens(a) ==
  /\ a \in DOMAIN hosts /\ a \in DOMAIN hosts'
  /\ hosts[a].event_seq > 0
  /\ hosts'[a].event_seq > hosts[a].event_seq

(* "event_opened_mono/event_closed_mono track session boundaries": a new   *)
(* session does not begin before the one before it was over, so that it is *)
(* one of traffic that the one before did not have.                        *)
SessionsDisjoint ==
  [][ \A a \in Addr : Reopens(a) =>
        /\ hosts'[a].event_seq = hosts[a].event_seq + 1
        /\ hosts'[a].event_opened_mono >= hosts[a].event_closed_mono ]_vars

(* No traffic falls between two sessions, if all hosts are listed at least *)
(* every event_close_secs, whatever else is listed in between: a host that *)
(* was seen after its session was closed has not been so for longer than   *)
(* until the next listing.                                                 *)
NothingMissed ==
  \A a \in DOMAIN hosts :
    LET h == hosts[a]
    IN  h.event_seq > 0 /\ ~h.event_is_open =>
          \/ h.last_seen_mono < h.event_closed_mono
          \/ now - h.last_seen_mono <= ListSecs
=============================================================================
