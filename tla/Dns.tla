-------------------------------- MODULE Dns --------------------------------
(***************************************************************************)
(* Reverse DNS (dns.c).  The main process must never block on a lookup, so *)
(* it forks a child that does them: the two talk over a stream socketpair, *)
(* whole addresses one way and whole replies the other.                    *)
(*                                                                         *)
(* The main process remembers in ip_tree which addresses it has asked for. *)
(* It asks while it renders a page that shows an unresolved host, and      *)
(* collects replies once per turn of its loop; in between, hosts come and  *)
(* go from the hosts table.  The child runs concurrently with all of it,   *)
(* and may be killed at any moment.                                        *)
(***************************************************************************)
EXTENDS Naturals, Sequences

CONSTANTS Addr,     \* the addresses seen on the wire
          SockMax   \* whole messages that fit in one direction of the socket

ASSUME SockMaxAssumption == SockMax \in Nat \ {0}

VARIABLES
  main_pc,      \* the call the main loop is in
  running,      \* cleared by SIGTERM and SIGINT
  dns,          \* the dns field of every host: "absent" if it is not in the
                \* hosts table, "null" if it has no name yet
  ip_tree,      \* addresses the main process believes are being looked up
  parent_open,  \* is dns_sock[PARENT] open?
  requests,     \* main process -> child, in the socket
  replies,      \* child -> main process, in the socket
  child_pc,     \* where the child is in dns_main
  blocking,     \* may the child's next read wait for input?
  queue,        \* the child's own queue of addresses
  reply,        \* the reply it is about to write: at most one
  lost          \* history: requests that nothing will ever answer

mainVars  == <<main_pc, running, dns, ip_tree, parent_open>>
childVars == <<child_pc, blocking, queue, reply>>
vars == <<mainVars, requests, replies, childVars, lost>>

Names == {"name", "(none)"}             \* a lookup's outcome, as displayed
Reply == [addr : Addr, name : Names]

Members(s)    == {s[i] : i \in 1..Len(s)}
ReplyAddrs(s) == {s[i].addr : i \in 1..Len(s)}

(* The requests the child holds or has yet to read.                        *)
Unanswered == Members(requests) \cup Members(queue) \cup ReplyAddrs(reply)

Init ==
  /\ main_pc = "cap" /\ running = TRUE
  /\ dns = [a \in Addr |-> "absent"]
  /\ ip_tree = {} /\ parent_open = TRUE
  /\ requests = <<>> /\ replies = <<>>
  /\ child_pc = "loop" /\ blocking = FALSE
  /\ queue = <<>> /\ reply = <<>>
  /\ lost = {}

(***************************************************************************)
(* The main process.  cap_poll, dns_poll and http_poll follow one another. *)
(***************************************************************************)

(* cap_poll: accounting a packet makes its hosts.                          *)
host_get(a) ==
  /\ main_pc = "cap"
  /\ dns[a] = "absent"
  /\ dns' = [dns EXCEPT ![a] = "null"]
  /\ UNCHANGED <<main_pc, running, ip_tree, parent_open, requests, replies,
                 childVars, lost>>

(* hosts_db_reduce evicts some hosts, hosts_db_reset all: their names are  *)
(* freed with them, and ip_tree is left as it was.                         *)
free_hosts(S) ==
  /\ main_pc = "cap"
  /\ dns' = [a \in Addr |-> IF a \in S THEN "absent" ELSE dns[a]]
  /\ UNCHANGED <<main_pc, running, ip_tree, parent_open, requests, replies,
                 childVars, lost>>

CapDone ==
  /\ main_pc = "cap"
  /\ main_pc' = "dns"
  /\ UNCHANGED <<running, dns, ip_tree, parent_open, requests, replies,
                 childVars, lost>>

(* dns_unqueue forgets the address; one that is not there is only logged.  *)
dns_unqueue(a) == ip_tree' = ip_tree \ {a}

(* As dns_poll, but the address is forgotten only when the host is known.  *)
dns_pollKeepsUnknown ==
  /\ main_pc = "dns" /\ replies # <<>>
  /\ LET r == Head(replies) IN
       /\ replies' = Tail(replies)
       /\ IF dns[r.addr] = "null"
          THEN /\ dns' = [dns EXCEPT ![r.addr] = r.name]
               /\ dns_unqueue(r.addr) /\ UNCHANGED main_pc
          ELSE main_pc' = "http" /\ UNCHANGED <<dns, ip_tree>>
  /\ UNCHANGED <<running, parent_open, requests, childVars, lost>>

(* As dns_poll, but a failed lookup stays in ip_tree, to be retried.       *)
dns_pollKeepsFailed ==
  /\ main_pc = "dns" /\ replies # <<>>
  /\ LET r == Head(replies) IN
       /\ replies' = Tail(replies)
       /\ IF dns[r.addr] = "null"
          THEN dns' = [dns EXCEPT ![r.addr] = r.name] /\ UNCHANGED main_pc
          ELSE main_pc' = "http" /\ UNCHANGED dns
       /\ IF r.name = "name" THEN dns_unqueue(r.addr) ELSE UNCHANGED ip_tree
  /\ UNCHANGED <<running, parent_open, requests, childVars, lost>>

(* dns_poll takes one reply: dns_get_result unqueues the address, and the  *)
(* name goes to its host.  A host that is gone, or that has a name, makes  *)
(* dns_poll return with the rest of the replies unread.                    *)
dns_poll ==
  /\ main_pc = "dns"
  /\ replies # <<>>
  /\ LET r == Head(replies) IN
       /\ replies' = Tail(replies)
       /\ dns_unqueue(r.addr)
       /\ IF dns[r.addr] = "null"
          THEN dns' = [dns EXCEPT ![r.addr] = r.name] /\ UNCHANGED main_pc
          ELSE main_pc' = "http" /\ UNCHANGED dns
  /\ UNCHANGED <<running, parent_open, requests, childVars, lost>>

(* Nothing to read: EAGAIN, or end of file when the child is gone, which   *)
(* is only warned about.                                                   *)
dns_pollDone ==
  /\ main_pc = "dns"
  /\ replies = <<>>
  /\ main_pc' = "http"
  /\ UNCHANGED <<running, dns, ip_tree, parent_open, requests, replies,
                 childVars, lost>>

(* As dns_queue, but asking again for what is already being looked up.     *)
dns_queueAgain(a) ==
  /\ main_pc = "http" /\ dns[a] = "null"
  /\ ip_tree' = ip_tree \cup {a}
  /\ IF child_pc # "dead" /\ Len(requests) < SockMax
     THEN requests' = Append(requests, a) /\ UNCHANGED lost
     ELSE lost' = lost \cup {a} /\ UNCHANGED requests
  /\ UNCHANGED <<main_pc, running, dns, parent_open, replies, childVars>>

(* http_poll: rendering a host that has no name calls dns_queue.  The      *)
(* record goes into ip_tree first; the write does not wait, and when it    *)
(* fails (the socket is full, or the child is gone) that is only warned    *)
(* about, with the record left in the tree.                                *)
dns_queue(a) ==
  /\ main_pc = "http"
  /\ dns[a] = "null"
  /\ a \notin ip_tree
  /\ ip_tree' = ip_tree \cup {a}
  /\ IF child_pc # "dead" /\ Len(requests) < SockMax
     THEN requests' = Append(requests, a) /\ UNCHANGED lost
     ELSE lost' = lost \cup {a} /\ UNCHANGED requests
  /\ UNCHANGED <<main_pc, running, dns, parent_open, replies, childVars>>

(* The end of a turn of the main loop.                                     *)
HttpDone ==
  /\ main_pc = "http"
  /\ main_pc' = IF running THEN "cap" ELSE "stop"
  /\ UNCHANGED <<running, dns, ip_tree, parent_open, requests, replies,
                 childVars, lost>>

sig_shutdown ==
  /\ running
  /\ running' = FALSE
  /\ UNCHANGED <<main_pc, dns, ip_tree, parent_open, requests, replies,
                 childVars, lost>>

(* As dns_stop, but the socket is closed only once the child has exited,   *)
(* and the child is not signalled.                                         *)
dns_stopWaitsFirst ==
  /\ main_pc = "stop"
  /\ main_pc' = "waitpid"
  /\ UNCHANGED <<running, dns, ip_tree, parent_open, requests, replies,
                 childVars, lost>>

(* dns_stop: close the socket, kill(pid, SIGINT), waitpid.                 *)
dns_stop ==
  /\ main_pc = "stop"
  /\ parent_open' = FALSE
  /\ replies' = <<>>
  /\ main_pc' = "waitpid"
  /\ UNCHANGED <<running, dns, ip_tree, requests, childVars, lost>>

waitpid ==
  /\ main_pc = "waitpid"
  /\ child_pc = "dead"
  /\ main_pc' = "exited"
  /\ UNCHANGED <<running, dns, ip_tree, parent_open, requests, replies,
                 childVars, lost>>

(***************************************************************************)
(* The child: dns_main.                                                    *)
(***************************************************************************)

(* Wait for input only if the queue is empty.                              *)
child_loop ==
  /\ child_pc = "loop"
  /\ blocking' = (queue = <<>>)
  /\ child_pc' = "read"
  /\ UNCHANGED <<mainVars, requests, replies, queue, reply, lost>>

(* Read an address and enqueue it; after one blocking read, stop waiting.  *)
enqueue ==
  /\ child_pc = "read"
  /\ requests # <<>>
  /\ queue' = Append(queue, Head(requests))
  /\ requests' = Tail(requests)
  /\ blocking' = FALSE
  /\ UNCHANGED <<mainVars, replies, child_pc, reply, lost>>

(* EAGAIN: out of input.                                                   *)
ran_out_of_input ==
  /\ child_pc = "read"
  /\ requests = <<>> /\ parent_open
  /\ ~blocking
  /\ child_pc' = "process"
  /\ UNCHANGED <<mainVars, requests, replies, blocking, queue, reply, lost>>

(* getnameinfo or gethostbyaddr: a name or an error.                       *)
lookup(a) == {[addr |-> a, name |-> n] : n \in Names}

(* As dequeue, but a failed lookup is not worth a reply.                   *)
dequeueDropsFailed ==
  /\ child_pc = "process" /\ queue # <<>>
  /\ queue' = Tail(queue)
  /\ \E n \in Names :
       IF n = "name"
       THEN /\ reply' = <<[addr |-> Head(queue), name |-> n]>>
            /\ child_pc' = "write"
       ELSE child_pc' = "loop" /\ UNCHANGED reply
  /\ UNCHANGED <<mainVars, requests, replies, blocking, lost>>

(* Dequeue one address and look it up, for as long as that takes.          *)
dequeue ==
  /\ child_pc = "process"
  /\ queue # <<>>
  /\ queue' = Tail(queue)
  /\ \E r \in lookup(Head(queue)) : reply' = <<r>>
  /\ child_pc' = "write"
  /\ UNCHANGED <<mainVars, requests, replies, blocking, lost>>

(* A write that waits for room.                                            *)
xwrite ==
  /\ child_pc = "write"
  /\ parent_open
  /\ Len(replies) < SockMax
  /\ replies' = Append(replies, Head(reply))
  /\ reply' = <<>>
  /\ child_pc' = "loop"
  /\ UNCHANGED <<mainVars, requests, blocking, queue, lost>>

(* What the child held is gone with it; replies already written stay.      *)
child_gone ==
  /\ child_pc' = "dead"
  /\ lost' = lost \cup Unanswered
  /\ requests' = <<>> /\ queue' = <<>> /\ reply' = <<>>
  /\ UNCHANGED <<mainVars, replies, blocking>>

(* The main process closed its end: end of file on a read, or a broken     *)
(* pipe on a write.                                                        *)
child_exit ==
  /\ ~parent_open
  /\ \/ child_pc = "read" /\ requests = <<>>
     \/ child_pc = "write"
  /\ child_gone

(* dns_stop's SIGINT takes its default action, wherever the child is.      *)
child_sigint ==
  /\ main_pc = "waitpid" /\ ~parent_open
  /\ child_pc # "dead"
  /\ child_gone

(* Any other death: a signal meant for the main process, err(), the        *)
(* out-of-memory killer.                                                   *)
child_killed ==
  /\ child_pc # "dead"
  /\ child_gone

Main  == \/ CapDone \/ dns_poll \/ dns_pollDone \/ HttpDone
         \/ dns_stop \/ waitpid
Child == \/ child_loop \/ enqueue \/ ran_out_of_input \/ dequeue \/ xwrite
         \/ child_exit

(* The process has exited: nothing more happens.                           *)
Terminated == main_pc = "exited" /\ UNCHANGED vars

Next ==
  \/ \E a \in Addr : host_get(a)
  \/ \E S \in SUBSET Addr : free_hosts(S)
  \/ \E a \in Addr : dns_queue(a)
  \/ CapDone \/ dns_poll \/ dns_pollDone \/ HttpDone
  \/ sig_shutdown \/ dns_stop \/ waitpid
  \/ child_loop \/ enqueue \/ ran_out_of_input \/ dequeue \/ xwrite
  \/ child_exit \/ child_sigint \/ child_killed
  \/ Terminated

(***************************************************************************)
(* The main loop turns at least every half second (select has a timeout),  *)
(* whether or not the DNS socket, which it does not watch, has something   *)
(* to read; lookups end; a SIGINT that was sent is delivered.              *)
(***************************************************************************)
Fairness == WF_vars(Main) /\ WF_vars(Child) /\ WF_vars(child_sigint)

Spec     == Init /\ [][Next]_vars
FairSpec == Spec /\ Fairness

----------------------------------------------------------------------------
Distinct(s)      == \A i, j \in 1..Len(s) : i # j => s[i] # s[j]
DistinctAddrs(s) == \A i, j \in 1..Len(s) : i # j => s[i].addr # s[j].addr

TypeOK ==
  /\ main_pc \in {"cap", "dns", "http", "stop", "waitpid", "exited"}
  /\ running \in BOOLEAN
  /\ dns \in [Addr -> {"absent", "null"} \cup Names]
  /\ ip_tree \in SUBSET Addr
  /\ parent_open \in BOOLEAN
  /\ requests \in Seq(Addr)
  /\ replies \in Seq(Reply)
  /\ child_pc \in {"loop", "read", "process", "write", "dead"}
  /\ blocking \in BOOLEAN
  /\ queue \in Seq(Addr)
  /\ reply \in Seq(Reply) /\ Len(reply) <= 1
  /\ lost \in SUBSET Addr

(* An address is being looked up at most once: it is in at most one of the *)
(* two directions of the socket, the child's queue and the child's hands,  *)
(* and there only once.  This is what dns_queue's "already queued" is for. *)
AskedOnce ==
  /\ Distinct(requests) /\ Distinct(queue) /\ DistinctAddrs(replies)
  /\ Members(requests) \cap Members(queue) = {}
  /\ (Members(requests) \cup Members(queue)) \cap ReplyAddrs(reply) = {}
  /\ Unanswered \cap ReplyAddrs(replies) = {}

(* ip_tree is exactly the lookups under way and the requests that were     *)
(* lost, until dns_stop: nothing is forgotten while an answer may come,    *)
(* and a lost request is never asked again (dns_queue, dns_get_result).    *)
TreeIsOutstanding ==
  main_pc \in {"cap", "dns", "http"} =>
    /\ ip_tree = Unanswered \cup ReplyAddrs(replies) \cup lost
    /\ lost \cap (Unanswered \cup ReplyAddrs(replies)) = {}

(* While a lookup is outstanding its host, if still in the table (even as  *)
(* a new entry after eviction), has no name: dns_poll never meets a reply  *)
(* for a host that "is already in the DB", and never leaks or overwrites.  *)
OutstandingHasNoName == \A a \in ip_tree : dns[a] \in {"absent", "null"}

(* The child goes to its queue only when there is something in it: the     *)
(* loop of dns_main waits in read or works, it never spins.                *)
ChildNeverSpins == child_pc = "process" => queue # <<>>

(* What the child holds, by where it is: the inductive part of the above.  *)
ChildShape ==
  /\ child_pc = "write" <=> reply # <<>>
  /\ child_pc = "dead" => requests = <<>> /\ queue = <<>>
  /\ child_pc = "read" /\ ~blocking => queue # <<>>
  /\ ChildNeverSpins

Inv == /\ TypeOK /\ ChildShape /\ AskedOnce
       /\ TreeIsOutstanding /\ OutstandingHasNoName

(* Every lookup that was asked for and not lost is answered: the address   *)
(* leaves ip_tree, although dns_poll stops at the first unwanted reply.    *)
LookupsEnd ==
  \A a \in Addr :
    (a \in ip_tree /\ a \notin lost) ~>
      (a \notin ip_tree \/ a \in lost \/ main_pc = "exited")

(* After SIGTERM the main process gets past dns_stop's waitpid, wherever   *)
(* the child was: waiting for input, in a lookup or blocked on a reply.    *)
StopEnds == ~running ~> main_pc = "exited"
=============================================================================
