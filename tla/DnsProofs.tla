----------------------------- MODULE DnsProofs -----------------------------
(***************************************************************************)
(* The invariants of Dns, for any set of addresses and any socket size.    *)
(***************************************************************************)
EXTENDS Dns, TLAPS

(* What is known of a sequence that is not empty.                        *)
LEMMA NonEmptySeq ==
  ASSUME NEW S, NEW s \in Seq(S), s # <<>>
  PROVE  Len(s) \in Nat /\ Len(s) # 0 /\ Head(s) = s[1] /\ s[1] \in S
OBVIOUS

(* What Append and Tail do to the members of a sequence.                 *)
LEMMA AppendMembers ==
  ASSUME NEW S, NEW s \in Seq(S), NEW x \in S
  PROVE  /\ Append(s, x) \in Seq(S)
         /\ Members(Append(s, x)) = Members(s) \cup {x}
         /\ Distinct(s) /\ x \notin Members(s) => Distinct(Append(s, x))
<1> DEFINE t == Append(s, x)
<1>1. t \in Seq(S) /\ Len(t) = Len(s) + 1 /\ Len(s) \in Nat
  OBVIOUS
<1>2. \A i \in 1..Len(s) : t[i] = s[i]
  OBVIOUS
<1>3. t[Len(s) + 1] = x
  OBVIOUS
<1>4. Members(t) = Members(s) \cup {x}
  BY <1>1, <1>2, <1>3 DEF Members
<1>5. ASSUME Distinct(s), x \notin Members(s)  PROVE Distinct(t)
  BY <1>1, <1>2, <1>3, <1>5 DEF Distinct, Members
<1> QED BY <1>1, <1>4, <1>5

(* The elements of a queue whose first has been taken.                   *)
LEMMA TailMembers ==
  ASSUME NEW S, NEW s \in Seq(S), s # <<>>
  PROVE  /\ Tail(s) \in Seq(S) /\ Head(s) \in S
         /\ Members(s) = Members(Tail(s)) \cup {Head(s)}
         /\ Distinct(s) => Distinct(Tail(s)) /\ Head(s) \notin Members(Tail(s))
<1> DEFINE t == Tail(s)
<1>1. t \in Seq(S) /\ Len(t) = Len(s) - 1 /\ Len(s) \in Nat /\ Len(s) > 0
  OBVIOUS
<1>2. \A i \in 1..Len(t) : t[i] = s[i + 1]
  OBVIOUS
<1>3. Head(s) = s[1] /\ s[1] \in S
  OBVIOUS
<1>4. Members(s) = Members(t) \cup {s[1]}
  <2>1. \A i \in 1..Len(s) : i = 1 \/ (i - 1 \in 1..Len(t) /\ s[i] = t[i - 1])
    BY <1>1, <1>2
  <2>2. ASSUME NEW x \in Members(s) PROVE x \in Members(t) \cup {s[1]}
    <3>1. PICK i \in 1..Len(s) : x = s[i]
      BY <2>2, Zenon DEF Members
    <3>2. CASE i = 1
      BY <3>1, <3>2
    <3>3. CASE i - 1 \in 1..Len(t) /\ s[i] = t[i - 1]
      BY <3>1, <3>3, Zenon DEF Members
    <3> QED BY <2>1, <3>2, <3>3
  <2>3. Members(t) \cup {s[1]} \subseteq Members(s)
    <3>1. \A i \in 1..Len(t) : i + 1 \in 1..Len(s)
      BY <1>1
    <3> QED BY <1>1, <1>2, <3>1 DEF Members
  <2> QED BY <2>2, <2>3
<1>5. Distinct(s) => Distinct(t) /\ s[1] \notin Members(t)
  BY <1>1, <1>2 DEF Distinct, Members
<1> QED BY <1>1, <1>3, <1>4, <1>5

(* The same for the addresses in a sequence of replies.                  *)
LEMMA AppendReply ==
  ASSUME NEW s \in Seq(Reply), NEW r \in Reply
  PROVE  /\ Append(s, r) \in Seq(Reply)
         /\ ReplyAddrs(Append(s, r)) = ReplyAddrs(s) \cup {r.addr}
         /\ DistinctAddrs(s) /\ r.addr \notin ReplyAddrs(s)
              => DistinctAddrs(Append(s, r))
<1> DEFINE t == Append(s, r)
<1>1. t \in Seq(Reply) /\ Len(t) = Len(s) + 1 /\ Len(s) \in Nat
  OBVIOUS
<1>2. \A i \in 1..Len(s) : t[i] = s[i]
  OBVIOUS
<1>3. t[Len(s) + 1] = r
  OBVIOUS
<1>4. ReplyAddrs(t) = ReplyAddrs(s) \cup {r.addr}
  BY <1>1, <1>2, <1>3 DEF ReplyAddrs
<1>5. ASSUME DistinctAddrs(s), r.addr \notin ReplyAddrs(s)
      PROVE  DistinctAddrs(t)
  BY <1>1, <1>2, <1>3, <1>5 DEF DistinctAddrs, ReplyAddrs
<1> QED BY <1>1, <1>4, <1>5

(* Taking a reply off the socket, the addresses in the replies.          *)
LEMMA TailReply ==
  ASSUME NEW s \in Seq(Reply), s # <<>>
  PROVE  /\ Tail(s) \in Seq(Reply) /\ Head(s) \in Reply
         /\ ReplyAddrs(s) = ReplyAddrs(Tail(s)) \cup {Head(s).addr}
         /\ DistinctAddrs(s) => /\ DistinctAddrs(Tail(s))
                                /\ Head(s).addr \notin ReplyAddrs(Tail(s))
<1> DEFINE t == Tail(s)
<1>1. t \in Seq(Reply) /\ Len(t) = Len(s) - 1 /\ Len(s) \in Nat /\ Len(s) > 0
  OBVIOUS
<1>2. \A i \in 1..Len(t) : t[i] = s[i + 1]
  OBVIOUS
<1>3. Head(s) = s[1] /\ s[1] \in Reply
  OBVIOUS
<1>4. ReplyAddrs(s) = ReplyAddrs(t) \cup {s[1].addr}
  <2>1. \A i \in 1..Len(s) : i = 1 \/ (i - 1 \in 1..Len(t) /\ s[i] = t[i - 1])
    BY <1>1, <1>2
  <2>2. ASSUME NEW x \in ReplyAddrs(s) PROVE x \in ReplyAddrs(t) \cup {s[1].addr}
    <3>1. PICK i \in 1..Len(s) : x = s[i].addr
      BY <2>2, Zenon DEF ReplyAddrs
    <3>2. CASE i = 1
      BY <3>1, <3>2
    <3>3. CASE i - 1 \in 1..Len(t) /\ s[i] = t[i - 1]
      BY <3>1, <3>3, Zenon DEF ReplyAddrs
    <3> QED BY <2>1, <3>2, <3>3
  <2>3. ReplyAddrs(t) \cup {s[1].addr} \subseteq ReplyAddrs(s)
    <3>1. \A i \in 1..Len(t) : i + 1 \in 1..Len(s)
      BY <1>1
    <3> QED BY <1>1, <1>2, <3>1 DEF ReplyAddrs
  <2> QED BY <2>2, <2>3
<1>5. DistinctAddrs(s) => DistinctAddrs(t) /\ s[1].addr \notin ReplyAddrs(t)
  BY <1>1, <1>2 DEF DistinctAddrs, ReplyAddrs
<1> QED BY <1>1, <1>3, <1>4, <1>5

(* An empty socket has no addresses in it.                               *)
LEMMA EmptySeqs ==
  /\ Members(<<>>) = {} /\ ReplyAddrs(<<>>) = {}
  /\ Distinct(<<>>) /\ DistinctAddrs(<<>>)
BY DEF Members, ReplyAddrs, Distinct, DistinctAddrs

(* A reply in the child's hands is a sequence of one.                    *)
LEMMA OneReply ==
  ASSUME NEW r \in Reply
  PROVE  <<r>> \in Seq(Reply) /\ Len(<<r>>) = 1 /\ ReplyAddrs(<<r>>) = {r.addr}
         /\ <<r>> # <<>>
BY DEF ReplyAddrs

(* The reply the child holds is about the address it holds.              *)
LEMMA HeldReply ==
  ASSUME NEW s \in Seq(Reply), Len(s) <= 1, s # <<>>
  PROVE  Head(s) \in Reply /\ ReplyAddrs(s) = {Head(s).addr}
<1>1. Len(s) \in Nat /\ Len(s) # 0 /\ Head(s) = s[1] /\ s[1] \in Reply
  BY NonEmptySeq
<1>2. \A n \in Nat : n # 0 /\ n <= 1 => n = 1
  OBVIOUS
<1>3. Len(s) = 1
  BY <1>1, <1>2, Zenon
<1> QED BY <1>1, <1>3 DEF ReplyAddrs

----------------------------------------------------------------------------
(* The invariant holds when the child has just been forked.              *)
LEMMA InitInv == Init => Inv
<1> SUFFICES ASSUME Init PROVE Inv
  OBVIOUS
<1>1. TypeOK
  <2>1. running \in BOOLEAN /\ parent_open \in BOOLEAN /\ blocking \in BOOLEAN
    BY Zenon DEF Init
  <2>2. requests \in Seq(Addr) /\ queue \in Seq(Addr)
    BY DEF Init
  <2>3. replies \in Seq(Reply) /\ reply \in Seq(Reply) /\ Len(reply) <= 1
    BY DEF Init
  <2> QED BY <2>1, <2>2, <2>3 DEF Init, TypeOK
<1>2. ChildShape
  BY DEF Init, ChildShape, ChildNeverSpins
<1>3. AskedOnce /\ TreeIsOutstanding
  BY EmptySeqs DEF Init, AskedOnce, TreeIsOutstanding, Unanswered
<1>4. OutstandingHasNoName
  BY DEF Init, OutstandingHasNoName
<1> QED BY <1>1, <1>2, <1>3, <1>4 DEF Inv

(* The steps of the main process that leave the socket and the child be. *)
LEMMA QuietStep ==
  ASSUME Inv,
         UNCHANGED <<ip_tree, requests, replies, child_pc, blocking, queue,
                     reply, lost>>,
         main_pc' \in {"cap", "dns", "http", "stop", "waitpid", "exited"},
         main_pc' \in {"cap", "dns", "http"} =>
            main_pc \in {"cap", "dns", "http"},
         running' \in BOOLEAN, parent_open' \in BOOLEAN,
         dns' \in [Addr -> {"absent", "null"} \cup Names],
         \A a \in ip_tree : dns'[a] \in {"absent", "null"}
  PROVE  Inv'
<1>1. TypeOK'
  BY DEF Inv, TypeOK
<1>2. ChildShape'
  BY DEF Inv, ChildShape, ChildNeverSpins
<1>3. AskedOnce'
  BY DEF Inv, AskedOnce, Unanswered
<1>4. TreeIsOutstanding'
  BY DEF Inv, TreeIsOutstanding, Unanswered
<1>5. OutstandingHasNoName'
  BY DEF OutstandingHasNoName
<1> QED BY <1>1, <1>2, <1>3, <1>4, <1>5 DEF Inv

(* dns_poll: the reply's address leaves the socket and ip_tree together, *)
(* and its host, if there, gets the name.                                *)
LEMMA PollStep == ASSUME Inv, dns_poll PROVE Inv'
<1> USE DEF Inv
<1> DEFINE r == Head(replies)
<1>1. /\ Tail(replies) \in Seq(Reply) /\ r \in Reply
      /\ ReplyAddrs(replies) = ReplyAddrs(Tail(replies)) \cup {r.addr}
      /\ DistinctAddrs(Tail(replies)) /\ r.addr \notin ReplyAddrs(Tail(replies))
  BY TailReply DEF TypeOK, AskedOnce, dns_poll
<1>2. /\ replies' = Tail(replies) /\ ip_tree' = ip_tree \ {r.addr}
      /\ main_pc = "dns" /\ main_pc' \in {"dns", "http"}
      /\ UNCHANGED <<running, parent_open, requests, childVars, lost>>
      /\ dns' = dns \/ dns' = [dns EXCEPT ![r.addr] = r.name]
  BY DEF dns_poll, dns_unqueue
<1>3. r.addr \in Addr /\ r.name \in Names
  BY <1>1 DEF Reply
<1>4. TypeOK'
  BY <1>1, <1>2, <1>3 DEF TypeOK, childVars
<1>5. ChildShape'
  BY <1>2 DEF ChildShape, ChildNeverSpins, childVars
<1>6. Unanswered' = Unanswered
  BY <1>2 DEF Unanswered, childVars
<1>7. AskedOnce'
  BY <1>1, <1>2, <1>6 DEF AskedOnce, childVars
<1>8. TreeIsOutstanding'
  BY <1>1, <1>2, <1>6 DEF TreeIsOutstanding, AskedOnce
<1>9. OutstandingHasNoName'
  BY <1>2, <1>3 DEF OutstandingHasNoName, TypeOK
<1> QED BY <1>4, <1>5, <1>7, <1>8, <1>9

(* dns_queue: the address enters ip_tree and either the socket or lost.  *)
LEMMA QueueStep == ASSUME Inv, NEW a \in Addr, dns_queue(a) PROVE Inv'
<1> USE DEF Inv
<1>1. /\ main_pc = "http" /\ dns[a] = "null" /\ a \notin ip_tree
      /\ ip_tree' = ip_tree \cup {a}
      /\ UNCHANGED <<main_pc, running, dns, parent_open, replies, childVars>>
  BY DEF dns_queue
<1>2. a \notin Unanswered \cup ReplyAddrs(replies) \cup lost
  BY <1>1 DEF TreeIsOutstanding
<1>3. OutstandingHasNoName'
  BY <1>1 DEF OutstandingHasNoName
<1>4. CASE child_pc # "dead" /\ Len(requests) < SockMax
  <2>1. requests' = Append(requests, a) /\ lost' = lost
    BY <1>4 DEF dns_queue
  <2>2. /\ requests' \in Seq(Addr)
        /\ Members(requests') = Members(requests) \cup {a}
        /\ Distinct(requests')
    BY <1>2, <2>1, AppendMembers DEF TypeOK, AskedOnce, Unanswered
  <2>3. TypeOK'
    BY <1>1, <2>1, <2>2 DEF TypeOK, childVars
  <2>4. ChildShape'
    BY <1>1, <1>4 DEF ChildShape, ChildNeverSpins, childVars
  <2>5. AskedOnce'
    BY <1>1, <1>2, <2>2 DEF AskedOnce, Unanswered, childVars
  <2>6. TreeIsOutstanding'
    BY <1>1, <1>2, <2>1, <2>2 DEF TreeIsOutstanding, Unanswered, childVars
  <2> QED BY <1>3, <2>3, <2>4, <2>5, <2>6
<1>5. CASE ~(child_pc # "dead" /\ Len(requests) < SockMax)
  <2>1. requests' = requests /\ lost' = lost \cup {a}
    BY <1>5 DEF dns_queue
  <2>2. TypeOK'
    BY <1>1, <2>1 DEF TypeOK, childVars
  <2>3. ChildShape'
    BY <1>1, <2>1 DEF ChildShape, ChildNeverSpins, childVars
  <2>4. AskedOnce'
    BY <1>1, <2>1 DEF AskedOnce, Unanswered, childVars
  <2>5. TreeIsOutstanding'
    BY <1>1, <1>2, <2>1 DEF TreeIsOutstanding, Unanswered, childVars
  <2> QED BY <1>3, <2>2, <2>3, <2>4, <2>5
<1> QED BY <1>4, <1>5

(* enqueue: an address moves from the socket to the child's queue.       *)
LEMMA EnqueueStep == ASSUME Inv, enqueue PROVE Inv'
<1> USE DEF Inv
<1> DEFINE a == Head(requests)
<1>1. /\ child_pc = "read" /\ requests # <<>>
      /\ queue' = Append(queue, a) /\ requests' = Tail(requests)
      /\ blocking' = FALSE
      /\ UNCHANGED <<mainVars, replies, child_pc, reply, lost>>
  BY DEF enqueue
<1>2. /\ requests' \in Seq(Addr) /\ a \in Addr
      /\ Members(requests) = Members(requests') \cup {a}
      /\ Distinct(requests') /\ a \notin Members(requests')
  BY <1>1, TailMembers DEF TypeOK, AskedOnce
<1>3. /\ queue' \in Seq(Addr)
      /\ Members(queue') = Members(queue) \cup {a}
      /\ Distinct(queue')
  <2>1. a \notin Members(queue)
    BY <1>2 DEF AskedOnce
  <2> QED BY <1>1, <1>2, <2>1, AppendMembers DEF TypeOK, AskedOnce
<1>4. queue' # <<>>
  BY <1>1, <1>2 DEF TypeOK
<1>5. TypeOK'
  <2>1. blocking' \in BOOLEAN
    BY <1>1, Zenon
  <2> QED BY <1>1, <1>2, <1>3, <2>1 DEF TypeOK, mainVars
<1>6. ChildShape'
  BY <1>1, <1>4 DEF ChildShape, ChildNeverSpins
<1>7. Unanswered' = Unanswered
  BY <1>1, <1>2, <1>3 DEF Unanswered
<1>8. AskedOnce'
  BY <1>1, <1>2, <1>3, <1>7 DEF AskedOnce
<1>9. TreeIsOutstanding' /\ OutstandingHasNoName'
  BY <1>1, <1>7 DEF TreeIsOutstanding, OutstandingHasNoName, mainVars
<1> QED BY <1>5, <1>6, <1>8, <1>9

(* dequeue: an address moves from the queue to the reply being prepared. *)
LEMMA DequeueStep == ASSUME Inv, dequeue PROVE Inv'
<1> USE DEF Inv
<1> DEFINE a == Head(queue)
<1>1. /\ child_pc = "process" /\ queue # <<>>
      /\ queue' = Tail(queue) /\ child_pc' = "write"
      /\ UNCHANGED <<mainVars, requests, replies, blocking, lost>>
  BY DEF dequeue
<1>2. PICK n \in Names : reply' = <<[addr |-> a, name |-> n]>>
  BY DEF dequeue, lookup
<1>3. /\ queue' \in Seq(Addr) /\ a \in Addr
      /\ Members(queue) = Members(queue') \cup {a}
      /\ Distinct(queue') /\ a \notin Members(queue')
  BY <1>1, TailMembers DEF TypeOK, AskedOnce
<1>4. [addr |-> a, name |-> n] \in Reply
  BY <1>3 DEF Reply
<1>5. /\ reply' \in Seq(Reply) /\ Len(reply') <= 1 /\ reply' # <<>>
      /\ ReplyAddrs(reply') = {a}
  BY <1>2, <1>4, OneReply
<1>6. reply = <<>>
  BY <1>1 DEF ChildShape
<1>7. TypeOK'
  BY <1>1, <1>3, <1>5 DEF TypeOK, mainVars
<1>8. ChildShape'
  BY <1>1, <1>5 DEF ChildShape, ChildNeverSpins
<1>9. Unanswered' = Unanswered
  BY <1>1, <1>3, <1>5, <1>6, EmptySeqs DEF Unanswered
<1>10. AskedOnce'
  BY <1>1, <1>3, <1>5, <1>9 DEF AskedOnce
<1>11. TreeIsOutstanding' /\ OutstandingHasNoName'
  BY <1>1, <1>9 DEF TreeIsOutstanding, OutstandingHasNoName, mainVars
<1> QED BY <1>7, <1>8, <1>10, <1>11

(* xwrite: the reply enters the socket.                                  *)
LEMMA WriteStep == ASSUME Inv, xwrite PROVE Inv'
<1> USE DEF Inv
<1> DEFINE r == Head(reply)
<1>1. /\ child_pc = "write" /\ child_pc' = "loop"
      /\ replies' = Append(replies, r) /\ reply' = <<>>
      /\ UNCHANGED <<mainVars, requests, blocking, queue, lost>>
  BY DEF xwrite
<1>2. r \in Reply /\ ReplyAddrs(reply) = {r.addr}
  BY <1>1, HeldReply DEF TypeOK, ChildShape
<1>3. r.addr \notin ReplyAddrs(replies)
  BY <1>2 DEF AskedOnce, Unanswered
<1>4. /\ replies' \in Seq(Reply)
      /\ ReplyAddrs(replies') = ReplyAddrs(replies) \cup {r.addr}
      /\ DistinctAddrs(replies')
  BY <1>1, <1>2, <1>3, AppendReply DEF TypeOK, AskedOnce
<1>5. reply' \in Seq(Reply) /\ Len(reply') <= 1
  BY <1>1
<1>6. TypeOK'
  BY <1>1, <1>4, <1>5 DEF TypeOK, mainVars
<1>7. ChildShape'
  BY <1>1 DEF ChildShape, ChildNeverSpins
<1>8. /\ Unanswered' \cup ReplyAddrs(replies') = Unanswered \cup ReplyAddrs(replies)
      /\ ReplyAddrs(reply') = {}
      /\ Unanswered' = Members(requests) \cup Members(queue)
  BY <1>1, <1>2, <1>4, EmptySeqs DEF Unanswered
<1>9. AskedOnce'
  BY <1>1, <1>2, <1>4, <1>8 DEF AskedOnce, Unanswered
<1>10. TreeIsOutstanding' /\ OutstandingHasNoName'
  BY <1>1, <1>8 DEF TreeIsOutstanding, OutstandingHasNoName, mainVars
<1> QED BY <1>6, <1>7, <1>9, <1>10

(* The child's death: everything it held is lost.                        *)
LEMMA GoneStep == ASSUME Inv, child_gone PROVE Inv'
<1> USE DEF Inv
<1>1. /\ child_pc' = "dead" /\ lost' = lost \cup Unanswered
      /\ requests' = <<>> /\ queue' = <<>> /\ reply' = <<>>
      /\ UNCHANGED <<mainVars, replies, blocking>>
  BY DEF child_gone
<1>2. Unanswered' = {}
  BY <1>1, EmptySeqs DEF Unanswered
<1>3. TypeOK'
  <2>1. requests' \in Seq(Addr) /\ queue' \in Seq(Addr)
    BY <1>1
  <2>2. reply' \in Seq(Reply) /\ Len(reply') <= 1
    BY <1>1
  <2>3. Unanswered \subseteq Addr
    <3>1. \A s \in Seq(Addr) : Members(s) \subseteq Addr
      BY DEF Members
    <3>2. \A s \in Seq(Reply) : ReplyAddrs(s) \subseteq Addr
      <4>1. \A s \in Seq(Reply) : \A i \in 1..Len(s) : s[i] \in Reply
        OBVIOUS
      <4>2. \A r \in Reply : r.addr \in Addr
        BY DEF Reply
      <4> QED BY <4>1, <4>2 DEF ReplyAddrs
    <3> QED BY <3>1, <3>2 DEF Unanswered, TypeOK
  <2> QED BY <1>1, <2>1, <2>2, <2>3 DEF TypeOK, mainVars
<1>4. ChildShape'
  BY <1>1 DEF ChildShape, ChildNeverSpins
<1>5. AskedOnce'
  BY <1>1, <1>2, EmptySeqs DEF AskedOnce
<1>6. TreeIsOutstanding' /\ OutstandingHasNoName'
  BY <1>1, <1>2 DEF TreeIsOutstanding, OutstandingHasNoName, mainVars, AskedOnce
<1> QED BY <1>3, <1>4, <1>5, <1>6

(* dns_stop drops the replies nobody will read.                          *)
LEMMA StopStep == ASSUME Inv, dns_stop PROVE Inv'
<1> USE DEF Inv
<1>1. /\ main_pc' = "waitpid" /\ parent_open' = FALSE /\ replies' = <<>>
      /\ UNCHANGED <<running, dns, ip_tree, requests, childVars, lost>>
  BY DEF dns_stop
<1>2. TypeOK'
  <2>1. parent_open' \in BOOLEAN
    BY <1>1, Zenon
  <2>2. replies' \in Seq(Reply)
    BY <1>1
  <2> QED BY <1>1, <2>1, <2>2 DEF TypeOK, childVars
<1>3. ChildShape'
  BY <1>1 DEF ChildShape, ChildNeverSpins, childVars
<1>4. AskedOnce'
  BY <1>1, EmptySeqs DEF AskedOnce, Unanswered, childVars
<1>5. TreeIsOutstanding' /\ OutstandingHasNoName'
  BY <1>1 DEF TreeIsOutstanding, OutstandingHasNoName
<1> QED BY <1>2, <1>3, <1>4, <1>5

(* The child's steps that move no address.                               *)
LEMMA ChildTurn == ASSUME Inv, child_loop \/ ran_out_of_input PROVE Inv'
<1> USE DEF Inv
<1>1. UNCHANGED <<mainVars, requests, replies, queue, reply, lost>>
  BY DEF child_loop, ran_out_of_input
<1>2. TypeOK'
  <2>1. blocking' \in BOOLEAN
    BY Zenon DEF child_loop, ran_out_of_input, TypeOK
  <2>2. child_pc' \in {"read", "process"}
    BY DEF child_loop, ran_out_of_input
  <2> QED BY <1>1, <2>1, <2>2 DEF TypeOK, mainVars
<1>3. ChildShape'
  BY <1>1 DEF ChildShape, ChildNeverSpins, child_loop, ran_out_of_input, TypeOK
<1>4. AskedOnce'
  BY <1>1 DEF AskedOnce, Unanswered
<1>5. TreeIsOutstanding' /\ OutstandingHasNoName'
  BY <1>1 DEF TreeIsOutstanding, OutstandingHasNoName, Unanswered, mainVars
<1> QED BY <1>2, <1>3, <1>4, <1>5

----------------------------------------------------------------------------
(* Every step of either process keeps the invariant.                     *)
LEMMA StepInv == Inv /\ [Next]_vars => Inv'
<1> SUFFICES ASSUME Inv, [Next]_vars PROVE Inv'
  OBVIOUS
<1> USE DEF childVars
<1>1. ASSUME NEW a \in Addr, host_get(a) PROVE Inv'
  <2>1. \A b \in ip_tree : dns'[b] \in {"absent", "null"}
    BY <1>1 DEF host_get, Inv, TypeOK, OutstandingHasNoName
  <2> QED BY <1>1, <2>1, QuietStep DEF host_get, Inv, TypeOK
<1>2. ASSUME NEW S \in SUBSET Addr, free_hosts(S) PROVE Inv'
  <2>1. \A b \in ip_tree : dns'[b] \in {"absent", "null"}
    BY <1>2 DEF free_hosts, Inv, TypeOK, OutstandingHasNoName
  <2> QED BY <1>2, <2>1, QuietStep DEF free_hosts, Inv, TypeOK
<1>3. CASE CapDone
  BY <1>3, QuietStep DEF CapDone, Inv, TypeOK, OutstandingHasNoName
<1>4. CASE dns_pollDone
  BY <1>4, QuietStep DEF dns_pollDone, Inv, TypeOK, OutstandingHasNoName
<1>5. CASE HttpDone
  BY <1>5, QuietStep DEF HttpDone, Inv, TypeOK, OutstandingHasNoName
<1>6. CASE sig_shutdown
  <2>1. running' \in BOOLEAN
    BY <1>6, Zenon DEF sig_shutdown
  <2> QED BY <1>6, <2>1, QuietStep
          DEF sig_shutdown, Inv, TypeOK, OutstandingHasNoName
<1>7. CASE waitpid
  BY <1>7, QuietStep DEF waitpid, Inv, TypeOK, OutstandingHasNoName
<1>8. CASE Terminated \/ UNCHANGED vars
  <2>1. UNCHANGED <<main_pc, running, dns, ip_tree, parent_open, requests,
                    replies, child_pc, blocking, queue, reply, lost>>
    BY <1>8 DEF Terminated, vars, mainVars
  <2> QED BY <2>1, QuietStep DEF Inv, TypeOK, OutstandingHasNoName
<1>9. CASE child_exit \/ child_sigint \/ child_killed
  BY <1>9, GoneStep DEF child_exit, child_sigint, child_killed
<1> QED
  BY <1>1, <1>2, <1>3, <1>4, <1>5, <1>6, <1>7, <1>8, <1>9, PollStep, QueueStep,
     StopStep, ChildTurn, EnqueueStep, DequeueStep, WriteStep DEF Next

(* The conjunction of the invariants below and of ChildShape, which      *)
(* makes it inductive, holds in every reachable state.                   *)
THEOREM DnsInv == Spec => []Inv
BY InitInv, StepInv, PTL DEF Spec

(* Every variable of the main process, the socket and the child keeps    *)
(* its type, for any number of addresses and any size of the socket.     *)
THEOREM DnsTypeOK == Spec => []TypeOK
<1>1. Inv => TypeOK
  BY DEF Inv
<1> QED BY <1>1, DnsInv, PTL

(* dns_queue's check of ip_tree is enough: whatever the interleaving     *)
(* with the child, evictions and resets, no address is ever in two       *)
(* places.                                                               *)
THEOREM DnsAskedOnce == Spec => []AskedOnce
<1>1. Inv => AskedOnce
  BY DEF Inv
<1> QED BY <1>1, DnsInv, PTL

(* Until dns_stop, ip_tree is exactly the lookups under way and the lost *)
(* requests.                                                             *)
THEOREM DnsTreeIsOutstanding == Spec => []TreeIsOutstanding
<1>1. Inv => TreeIsOutstanding
  BY DEF Inv
<1> QED BY <1>1, DnsInv, PTL

(* dns_poll's branch for a host "already in the DB" cannot be taken.     *)
THEOREM DnsOutstandingHasNoName == Spec => []OutstandingHasNoName
<1>1. Inv => OutstandingHasNoName
  BY DEF Inv
<1> QED BY <1>1, DnsInv, PTL

(* The child looks at its queue only when it is not empty.               *)
THEOREM DnsChildNeverSpins == Spec => []ChildNeverSpins
<1>1. Inv => ChildNeverSpins
  BY DEF Inv, ChildShape
<1> QED BY <1>1, DnsInv, PTL
=============================================================================
