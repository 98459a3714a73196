-------------------------- MODULE EventLoopProofs ---------------------------
(***************************************************************************)
(* What the main loop promises, and the web server that it polls.          *)
(*                                                                         *)
(* The safety properties of MainLoop, for any packets, any number of       *)
(* signals, and with or without --export.                                  *)
(*                                                                         *)
(* Those of Http, for any number of connections, any requests, in any      *)
(* number of pieces, and headers and pages of any length.  The invariant   *)
(* relates each connection to its client: what the client has got is as    *)
(* many cells of header \o reply as the connection says it has sent, and   *)
(* the state it is in says which cells are left.                           *)
(***************************************************************************)
EXTENDS MainLoop, Http, SequenceTheorems, TLAPS

(***************************************************************************)
(* The main loop.                                                          *)
(***************************************************************************)

(* The invariant holds when the loop is entered.                         *)
LEMMA MainInitInv == MainInit => Inv
<1> SUFFICES ASSUME MainInit PROVE Inv
  OBVIOUS
<1>1. running \in BOOLEAN /\ reset_pending \in BOOLEAN
      /\ export_pending \in BOOLEAN /\ export_failed \in BOOLEAN
  BY Zenon DEF MainInit
<1>2. TypeOK
  BY <1>1, MainAssumption DEF MainInit, TypeOK, Pcs
<1>3. InBetween /\ InStep /\ NothingLostAtExit
  BY DEF MainInit, InBetween, InStep, NothingLostAtExit
<1>4. DiscardedIsSaved /\ RequestIsServed /\ ResetIsServed
  BY DEF MainInit, DiscardedIsSaved, RequestIsServed, ResetIsServed
<1> QED BY <1>2, <1>3, <1>4 DEF Inv

(* Each step keeps the types.                                            *)
LEMMA MainStepType == ASSUME TypeOK, [MainNext]_mainVars PROVE TypeOK'
<1> USE MainAssumption DEF TypeOK, Pcs, flags, history, owed
<1>1. CASE while
  BY <1>1 DEF while
<1>2. CASE select
  BY <1>2 DEF select
<1>3. CASE if_export_pending
  BY <1>3 DEF if_export_pending
<1>4. CASE export
  BY <1>4 DEF export, db_export
<1>5. CASE clear_export
  BY <1>5 DEF clear_export
<1>6. CASE if_reset_pending
  BY <1>6 DEF if_reset_pending
<1>7. CASE export_before_reset
  BY <1>7 DEF export_before_reset
<1>8. CASE hosts_db_reset
  BY <1>8 DEF hosts_db_reset
<1>9. CASE graph_reset
  BY <1>9 DEF graph_reset
<1>10. CASE clear_reset
  BY <1>10 DEF clear_reset
<1>11. CASE shutdown
  BY <1>11 DEF shutdown, db_export
<1>12. CASE sig_shutdown
  BY <1>12 DEF sig_shutdown, interrupt
<1>13. CASE sig_reset
  <2>1. signals' \in Nat
    <3> HIDE DEF TypeOK
    <3>1. signals \in Nat
      BY DEF TypeOK
    <3>2. signals' = signals + 1
      BY <1>13 DEF sig_reset, request
    <3> QED BY <3>1, <3>2
  <2>2. export_pending' \in BOOLEAN /\ reset_pending' \in BOOLEAN
    BY <1>13, Zenon DEF sig_reset, request
  <2> QED BY <1>13, <2>1, <2>2 DEF sig_reset, request, interrupt
<1>14. CASE sig_export
  <2>1. signals' \in Nat
    <3> HIDE DEF TypeOK
    <3>1. signals \in Nat
      BY DEF TypeOK
    <3>2. signals' = signals + 1
      BY <1>14 DEF sig_export, request
    <3> QED BY <3>1, <3>2
  <2>2. export_pending' \in BOOLEAN /\ reset_pending' \in BOOLEAN
    BY <1>14, Zenon DEF sig_export, request
  <2> QED BY <1>14, <2>1, <2>2 DEF sig_export, request, interrupt
<1>15. ASSUME NEW cap_ret \in BOOLEAN, cap_poll(cap_ret) PROVE TypeOK'
  BY <1>15 DEF cap_poll, account
<1>16. CASE MainTerminated \/ UNCHANGED mainVars
  BY <1>16 DEF MainTerminated, mainVars
<1> QED BY <1>1, <1>2, <1>3, <1>4, <1>5, <1>6, <1>7, <1>8, <1>9, <1>10, <1>11, <1>12, <1>13, <1>14, <1>15, <1>16 DEF MainNext

(* Each step keeps the rest of the invariant.                            *)
LEMMA MainStepSafe == ASSUME Inv, TypeOK', [MainNext]_mainVars PROVE Inv'
<1> USE DEF Inv, TypeOK, flags, history, owed, InBetween, DiscardedIsSaved,
            RequestIsServed, ResetIsServed, InStep, NothingLostAtExit, Exports
<1>1. CASE while
  BY <1>1 DEF while
<1>2. CASE select
  BY <1>2 DEF select
<1>3. CASE if_export_pending
  BY <1>3 DEF if_export_pending
<1>4. CASE export
  BY <1>4 DEF export, db_export
<1>5. CASE clear_export
  BY <1>5 DEF clear_export
<1>6. CASE if_reset_pending
  BY <1>6 DEF if_reset_pending
<1>7. CASE export_before_reset
  BY <1>7 DEF export_before_reset
<1>8. CASE hosts_db_reset
  BY <1>8 DEF hosts_db_reset
<1>9. CASE graph_reset
  BY <1>9 DEF graph_reset
<1>10. CASE clear_reset
  BY <1>10 DEF clear_reset
<1>11. CASE shutdown
  BY <1>11 DEF shutdown, db_export
<1>12. CASE sig_shutdown
  BY <1>12 DEF sig_shutdown, interrupt
<1>13. CASE sig_reset
  BY <1>13 DEF sig_reset, request, interrupt
<1>14. CASE sig_export
  BY <1>14 DEF sig_export, request, interrupt
<1>15. ASSUME NEW cap_ret \in BOOLEAN, cap_poll(cap_ret) PROVE Inv'
  BY <1>15 DEF cap_poll, account
<1>16. CASE MainTerminated \/ UNCHANGED mainVars
  BY <1>16 DEF MainTerminated, mainVars
<1> QED BY <1>1, <1>2, <1>3, <1>4, <1>5, <1>6, <1>7, <1>8, <1>9, <1>10, <1>11, <1>12, <1>13, <1>14, <1>15, <1>16 DEF MainNext

(* Every statement of the loop, signal and packet keeps it.              *)
LEMMA MainStepInv == Inv /\ [MainNext]_mainVars => Inv'
BY MainStepType, MainStepSafe DEF Inv

(* The safety properties and what InBetween adds to make them inductive  *)
(* hold in every reachable state.                                        *)
THEOREM MainInv == MainSpec => []Inv
BY MainInitInv, MainStepInv, PTL DEF MainSpec

(* A reset discards only packets that are in an export, wherever SIGUSR1 *)
(* falls.                                                                *)
THEOREM MainDiscardedIsSaved == MainSpec => []DiscardedIsSaved
<1>1. Inv => DiscardedIsSaved
  BY DEF Inv
<1> QED BY <1>1, MainInv, PTL

(* No request for an export is lost when the loop clears export_pending. *)
THEOREM MainRequestIsServed == MainSpec => []RequestIsServed
<1>1. Inv => RequestIsServed
  BY DEF Inv
<1> QED BY <1>1, MainInv, PTL

(* No request for a reset is lost when the loop clears reset_pending.    *)
THEOREM MainResetIsServed == MainSpec => []ResetIsServed
<1>1. Inv => ResetIsServed
  BY DEF Inv
<1> QED BY <1>1, MainInv, PTL

(* A clean exit leaves every accounted packet in some export.            *)
THEOREM MainNothingLostAtExit == MainSpec => []NothingLostAtExit
<1>1. Inv => NothingLostAtExit
  BY DEF Inv
<1> QED BY <1>1, MainInv, PTL

-----------------------------------------------------------------------------
(***************************************************************************)
(* The web server: types.                                                  *)
(***************************************************************************)
Encodings  == {"identity", "gzip"}
HeaderCell == [code : Nat, encoding : Encodings, length : Nat, part : Nat]
ReplyCell  == [code : Nat, encoding : Encodings, part : Nat]
Cell       == HeaderCell \cup ReplyCell

(* The fields of struct connection, and of a client.                     *)
ConnFields == {"state", "request", "header_only", "header", "header_sent",
               "reply", "reply_sent", "idle"}
ClientFields == {"request", "coming", "inbox", "got", "cut"}

IsConn(k)   == k = [f \in ConnFields |-> k[f]]
IsClient(l) == l = [f \in ClientFields |-> l[f]]

Sending == {"SEND_HEADER_AND_REPLY", "SEND_HEADER", "SEND_REPLY"}

ConnType(k, l) ==
  /\ IsConn(k) /\ IsClient(l)
  /\ k.state \in {"RECV_REQUEST", "DONE"} \cup Sending
  /\ k.header_only \in BOOLEAN
  /\ k.header \in Seq(Cell) /\ k.header_sent \in Nat
  /\ k.reply \in Seq(Cell) /\ k.reply_sent \in Nat
  /\ l.got \in Seq(Cell) /\ l.cut \in BOOLEAN /\ l.request \in Requests

(***************************************************************************)
(* The parts of the invariant, for a connection k and its client l.        *)
(***************************************************************************)
(* A header and a reply are generated together, when a request has come.   *)
Generated(k) ==
  /\ k.state = "RECV_REQUEST" =>
       k.header = <<>> /\ k.header_sent = 0 /\ k.reply_sent = 0 /\ ~k.header_only
  /\ k.state \in Sending => Len(k.header) > 0
  /\ Len(k.header) > 0 => Len(k.reply) > 0
  /\ Len(k.header) = 0 => Len(k.reply) = 0

(* What the header announces.                                            *)
Announced(k) ==
  Len(k.header) > 0 => /\ k.header[1].length = Len(k.reply)
                       /\ \A i \in 1..Len(k.reply) :
                            k.reply[i].encoding = k.header[1].encoding

(* How much has been sent.                                               *)
Sent(k) ==
  /\ k.header_sent <= Len(k.header) /\ k.reply_sent <= Len(k.reply)
  /\ k.reply_sent > 0 => k.header_sent = Len(k.header) /\ ~k.header_only
  /\ k.state = "SEND_HEADER_AND_REPLY" =>
       ~k.header_only /\ k.header_sent = 0 /\ k.reply_sent = 0
  /\ k.state = "SEND_HEADER" => k.header_sent < Len(k.header) /\ k.reply_sent = 0
  /\ k.state = "SEND_REPLY" =>
       ~k.header_only /\ k.header_sent = Len(k.header) /\ k.reply_sent < Len(k.reply)

(* The client has got what has been sent; all of it, unless it was cut   *)
(* off.                                                                  *)
Got(k, l) ==
  /\ Len(l.got) = k.header_sent + k.reply_sent
  /\ \A i \in 1..Len(l.got) : l.got[i] = (k.header \o k.reply)[i]
  /\ k.state = "DONE" /\ ~l.cut =>
       /\ k.header_sent = Len(k.header)
       /\ k.header_only \/ k.reply_sent = Len(k.reply)

Fits(k, l) == ConnType(k, l) /\ Generated(k) /\ Announced(k) /\ Sent(k) /\ Got(k, l)

(* Where the main loop is: a finished connection is seen by http_fd_set  *)
(* and by no one else; those yet to be visited are open.                 *)
LoopInv ==
  /\ conn = [c \in Conn |-> conn[c]] /\ client = [c \in Conn |-> client[c]]
  /\ phase # "invalid state"
  /\ phase \in {"select", "http_poll"} => \A c \in Open : conn[c].state # "DONE"
  /\ phase = "poll" => todo # {} /\ todo \subseteq Open

ConnInv == \A c \in Open : Fits(conn[c], client[c])

----------------------------------------------------------------------------
(***************************************************************************)
(* One connection.                                                         *)
(***************************************************************************)
(* Replies are not empty, and are what their header says (process_get and  *)
(* default_reply).                                                         *)
LEMMA AnswerShape ==
  ASSUME NEW r \in Requests, NEW a \in process_request(r)
  PROVE  \E code \in Nat, encoding \in Encodings, len \in Nat \ {0} :
           a = Answer(code, encoding, len)
<1>1. /\ default_reply(400) = Answer(400, "identity", 1)
      /\ default_reply(404) = Answer(404, "identity", 1)
      /\ default_reply(501) = Answer(501, "identity", 1)
  BY DEF default_reply
<1>2. \A n \in {m \in 1..PageLen : r.gzip} : n \in Nat \ {0}
  BY HttpAssumption
<1>3. PageLen \in Nat \ {0} /\ 1 \in Nat \ {0} /\ {200, 400, 404, 501} \subseteq Nat
      /\ "identity" \in Encodings /\ "gzip" \in Encodings
  BY HttpAssumption DEF Encodings
<1>4. \/ a = default_reply(400) \/ a = default_reply(404) \/ a = default_reply(501)
      \/ a = Answer(200, "identity", PageLen)
      \/ \E n \in {m \in 1..PageLen : r.gzip} : a = Answer(200, "gzip", n)
  BY DEF process_request, process_get, process_gzip
<1> HIDE DEF Encodings
<1> QED BY <1>1, <1>2, <1>3, <1>4

(* generate_header announces what the reply is.                          *)
LEMMA AnswerFits ==
  ASSUME NEW code \in Nat, NEW encoding \in Encodings, NEW len \in Nat \ {0}
  PROVE  LET a == Answer(code, encoding, len)
         IN  /\ a.header \in Seq(Cell) /\ Len(a.header) > 0
             /\ a.reply \in Seq(Cell) /\ Len(a.reply) > 0
             /\ a.header[1].length = Len(a.reply)
             /\ \A i \in 1..Len(a.reply) : a.reply[i].encoding = a.header[1].encoding
<1> DEFINE a == Answer(code, encoding, len)
<1>1. /\ a.header = [i \in 1..HeaderLen |-> [code |-> code, encoding |-> encoding,
                                             length |-> len, part |-> i]]
      /\ a.reply = [i \in 1..len |-> [code |-> code, encoding |-> encoding, part |-> i]]
  BY DEF Answer, Body, generate_header
<1> HIDE DEF a
<1>2. HeaderLen \in Nat \ {0}
  BY HttpAssumption
<1>3. a.header \in [1..HeaderLen -> Cell] /\ a.reply \in [1..len -> Cell]
  BY <1>1, <1>2 DEF Cell, HeaderCell, ReplyCell
<1>4. a.header \in Seq(Cell) /\ a.reply \in Seq(Cell)
  BY <1>2, <1>3
<1>5. Len(a.header) = HeaderLen /\ Len(a.reply) = len
  BY <1>2, <1>3, <1>4, LenProperties
<1>6. a.header[1].length = len /\ a.header[1].encoding = encoding
  BY <1>1, <1>2
<1>7. \A i \in 1..len : a.reply[i].encoding = encoding
  BY <1>1
<1> QED BY <1>2, <1>4, <1>5, <1>6, <1>7 DEF a

(* A new connection, of which the client has yet to get anything.        *)
LEMMA NewFits ==
  ASSUME NEW r \in Requests
  PROVE  Fits(new_connection, new_client(r)) /\ new_connection.state = "RECV_REQUEST"
<1>1. <<>> \in Seq(Cell) /\ Len(<<>>) = 0
  BY EmptySeq
<1>2. /\ IsConn(new_connection) /\ new_connection.state = "RECV_REQUEST"
      /\ new_connection.header = <<>> /\ new_connection.header_sent = 0
      /\ new_connection.reply = <<>> /\ new_connection.reply_sent = 0
      /\ new_connection.header_only = FALSE
  BY DEF new_connection, IsConn, ConnFields
<1>3. /\ IsClient(new_client(r)) /\ new_client(r).got = <<>> /\ new_client(r).cut = FALSE
      /\ new_client(r).request = r
  BY DEF new_client, IsClient, ClientFields
<1> DEFINE k == new_connection
           l == new_client(r)
<1> HIDE DEF k, l
<1>4. ConnType(k, l)
  <2>1. k.header \in Seq(Cell) /\ k.reply \in Seq(Cell) /\ l.got \in Seq(Cell)
    BY <1>1, <1>2, <1>3 DEF k, l
  <2>2. k.header_only \in BOOLEAN /\ l.cut \in BOOLEAN
    BY <1>2, <1>3 DEF k, l
  <2> QED BY <1>2, <1>3, <2>1, <2>2 DEF ConnType, k, l
<1>5. Generated(k) /\ Announced(k) /\ Sent(k) /\ Got(k, l)
  BY <1>1, <1>2, <1>3 DEF Generated, Announced, Sent, Got, Sending, k, l
<1> QED BY <1>2, <1>4, <1>5 DEF Fits, k, l

(* Time goes by.                                                         *)
LEMMA IdleFits ==
  ASSUME NEW k, NEW l, Fits(k, l), NEW t
  PROVE  Fits([k EXCEPT !.idle = t], l) /\ [k EXCEPT !.idle = t].state = k.state
<1> DEFINE m == [k EXCEPT !.idle = t]
<1>1. /\ IsConn(m) /\ m.state = k.state /\ m.header_only = k.header_only
      /\ m.header = k.header /\ m.header_sent = k.header_sent
      /\ m.reply = k.reply /\ m.reply_sent = k.reply_sent
  BY DEF Fits, ConnType, IsConn, ConnFields
<1> HIDE DEF m
<1>2. Fits(m, l)
  BY <1>1 DEF Fits, ConnType, Generated, Announced, Sent, Got
<1> QED BY <1>1, <1>2 DEF m

(* The client writes, or closes its side.                                *)
LEMMA InboxFits ==
  ASSUME NEW k, NEW l, Fits(k, l), NEW inbox, NEW coming
  PROVE  Fits(k, [l EXCEPT !.inbox = inbox, !.coming = coming])
<1> DEFINE m == [l EXCEPT !.inbox = inbox, !.coming = coming]
<1>1. IsClient(m) /\ m.got = l.got /\ m.cut = l.cut /\ m.request = l.request
  BY DEF Fits, ConnType, IsClient, ClientFields
<1> HIDE DEF m
<1>2. Fits(k, m)
  BY <1>1 DEF Fits, ConnType, Got
<1> QED BY <1>2 DEF m

(* recv or send fails.                                                   *)
LEMMA FailFits ==
  ASSUME NEW k, NEW l, Fits(k, l)
  PROVE  Fits([k EXCEPT !.state = "DONE"], [l EXCEPT !.cut = TRUE])
<1> DEFINE m == [k EXCEPT !.state = "DONE"]
           n == [l EXCEPT !.cut = TRUE]
<1>1. /\ IsConn(m) /\ m.state = "DONE" /\ m.header_only = k.header_only
      /\ m.header = k.header /\ m.header_sent = k.header_sent
      /\ m.reply = k.reply /\ m.reply_sent = k.reply_sent
  BY DEF Fits, ConnType, IsConn, ConnFields
<1>2. IsClient(n) /\ n.got = l.got /\ n.cut = TRUE /\ n.request = l.request
  BY DEF Fits, ConnType, IsClient, ClientFields
<1> HIDE DEF m, n
<1>3. ConnType(m, n)
  BY <1>1, <1>2 DEF Fits, ConnType
<1>4. Generated(m) /\ Announced(m) /\ Sent(m)
  BY <1>1 DEF Fits, Generated, Announced, Sent, Sending
<1>5. Got(m, n)
  BY <1>1, <1>2 DEF Fits, Got
<1>6. Fits(m, n)
  BY <1>3, <1>4, <1>5 DEF Fits
<1> QED BY <1>6 DEF m, n

(* A header and a reply are generated, none of which has been sent.      *)
LEMMA AnsweredFits ==
  ASSUME NEW code \in Nat, NEW encoding \in Encodings, NEW len \in Nat \ {0},
         NEW k, NEW l, ConnType(k, l), Len(l.got) = 0,
         NEW m, IsConn(m), NEW n, IsClient(n),
         n.got = l.got, n.cut = l.cut, n.request = l.request,
         m.header = Answer(code, encoding, len).header,
         m.reply = Answer(code, encoding, len).reply,
         m.header_sent = 0, m.reply_sent = 0, m.header_only \in BOOLEAN,
         \/ m.state = "SEND_HEADER"
         \/ m.state = "SEND_HEADER_AND_REPLY" /\ ~m.header_only
  PROVE  Fits(m, n)
<1>1. /\ m.header \in Seq(Cell) /\ Len(m.header) > 0
      /\ m.reply \in Seq(Cell) /\ Len(m.reply) > 0
      /\ m.header[1].length = Len(m.reply)
      /\ \A i \in 1..Len(m.reply) : m.reply[i].encoding = m.header[1].encoding
  BY AnswerFits
<1>2. Len(m.header) \in Nat /\ Len(m.reply) \in Nat
  BY <1>1, LenProperties
<1>3. ConnType(m, n)
  BY <1>1 DEF ConnType, Sending
<1>4. Generated(m) /\ Announced(m) /\ Sent(m)
  BY <1>1, <1>2 DEF Generated, Announced, Sent, Sending
<1>5. Got(m, n)
  <2>1. Len(n.got) = 0 /\ m.header_sent + m.reply_sent = 0 /\ m.state # "DONE"
    OBVIOUS
  <2>2. \A i \in 1..Len(n.got) : FALSE
    BY <2>1
  <2> QED BY <2>1, <2>2 DEF Got
<1> QED BY <1>3, <1>4, <1>5 DEF Fits

(* poll_recv_request: more of a request, or all of it and its answer.    *)
LEMMA RecvFits ==
  ASSUME NEW c, Fits(conn[c], client[c]), conn[c].state = "RECV_REQUEST",
         NEW req, NEW m \in after_recv(c, req), NEW inbox
  PROVE  Fits(m, [client[c] EXCEPT !.inbox = inbox])
<1> DEFINE k == conn[c]
           l == client[c]
           n == [l EXCEPT !.inbox = inbox]
           r == l.request
<1>1. IsConn(k) /\ IsClient(l) /\ k.header_only \in BOOLEAN /\ r \in Requests
  BY DEF Fits, ConnType
<1>2. IsClient(n) /\ n.got = l.got /\ n.cut = l.cut /\ n.request = l.request
  BY <1>1 DEF IsClient, ClientFields
<1>3. /\ k.header_sent = 0 /\ k.reply_sent = 0 /\ Len(l.got) = 0
      /\ k.header_only = FALSE /\ ConnType(k, l)
  BY DEF Fits, ConnType, Generated, Got
<1> HIDE DEF n
<1>4. CASE m = Prepared(c, req, default_reply(413), "SEND_HEADER")
  <2>1. /\ IsConn(m) /\ m.state = "SEND_HEADER" /\ m.header_only = k.header_only
        /\ m.header = default_reply(413).header /\ m.header_sent = k.header_sent
        /\ m.reply = default_reply(413).reply /\ m.reply_sent = k.reply_sent
    <3>1. \A a, s : m = Prepared(c, req, a, s) =>
            /\ IsConn(m) /\ m.state = s /\ m.header_only = k.header_only
            /\ m.header = a.header /\ m.header_sent = k.header_sent
            /\ m.reply = a.reply /\ m.reply_sent = k.reply_sent
      BY <1>1 DEF Prepared, IsConn, ConnFields
    <3> HIDE DEF k
    <3> QED BY <1>4, <3>1
  <2>2. default_reply(413) = Answer(413, "identity", 1) /\ "identity" \in Encodings
    BY DEF default_reply, Encodings
  <2> HIDE DEF k, l, r
  <2>3. Fits(m, n)
    BY <1>1, <1>2, <1>3, <2>1, <2>2, AnsweredFits
  <2> QED BY <2>3 DEF n, l
<1>5. ASSUME NEW a \in process_request(r),
             m = [Prepared(c, <<>>, a, IF r.method = "HEAD" THEN "SEND_HEADER"
                                       ELSE "SEND_HEADER_AND_REPLY")
                    EXCEPT !.header_only = (r.method = "HEAD")]
      PROVE  Fits(m, [client[c] EXCEPT !.inbox = inbox])
  <2>1. PICK code \in Nat, encoding \in Encodings, len \in Nat \ {0} :
          a = Answer(code, encoding, len)
    BY <1>1, AnswerShape
  <2> DEFINE head == r.method = "HEAD"
             state == IF head THEN "SEND_HEADER" ELSE "SEND_HEADER_AND_REPLY"
  <2>2. \A h \in BOOLEAN : \A s :
          m = [Prepared(c, <<>>, a, s) EXCEPT !.header_only = h] =>
            /\ IsConn(m) /\ m.state = s /\ m.header_only = h
            /\ m.header = a.header /\ m.header_sent = k.header_sent
            /\ m.reply = a.reply /\ m.reply_sent = k.reply_sent
    BY <1>1 DEF Prepared, IsConn, ConnFields
  <2>3. head \in BOOLEAN /\ m = [Prepared(c, <<>>, a, state) EXCEPT !.header_only = head]
    BY <1>5
  <2> HIDE DEF k, l, r, head
  <2>4. state = "SEND_HEADER" \/ (state = "SEND_HEADER_AND_REPLY" /\ ~head)
    OBVIOUS
  <2> HIDE DEF state
  <2>5. /\ IsConn(m) /\ m.state = state /\ m.header_only = head
        /\ m.header = a.header /\ m.header_sent = k.header_sent
        /\ m.reply = a.reply /\ m.reply_sent = k.reply_sent
    BY <2>2, <2>3
  <2>6. /\ m.header_sent = 0 /\ m.reply_sent = 0 /\ m.header_only \in BOOLEAN
        /\ m.state = "SEND_HEADER" \/ (m.state = "SEND_HEADER_AND_REPLY" /\ ~m.header_only)
        /\ m.header = Answer(code, encoding, len).header
        /\ m.reply = Answer(code, encoding, len).reply
    BY <1>3, <2>1, <2>3, <2>4, <2>5, Zenon
  <2>7. Fits(m, n)
    BY <1>2, <1>3, <2>5, <2>6, AnsweredFits
  <2> QED BY <2>7 DEF n, l
<1>6. CASE m = [conn[c] EXCEPT !.idle = 0, !.request = req]
  <2>1. /\ IsConn(m) /\ m.state = k.state /\ m.header_only = k.header_only
        /\ m.header = k.header /\ m.header_sent = k.header_sent
        /\ m.reply = k.reply /\ m.reply_sent = k.reply_sent
    BY <1>1, <1>6 DEF IsConn, ConnFields
  <2>2. Fits(m, n)
    BY <1>2, <2>1 DEF Fits, ConnType, Generated, Announced, Sent, Got
  <2> QED BY <2>2 DEF n
<1> QED BY <1>4, <1>5, <1>6 DEF after_recv

(* What the client has when n cells of s from the one after at on come.  *)
LEMMA Received ==
  ASSUME NEW g \in Seq(Cell), NEW s \in Seq(Cell), NEW at \in Nat, NEW n \in Nat \ {0},
         at + n <= Len(s)
  PROVE  /\ g \o SubSeq(s, at + 1, at + n) \in Seq(Cell)
         /\ Len(g \o SubSeq(s, at + 1, at + n)) = Len(g) + n
         /\ \A i \in 1..Len(g) : (g \o SubSeq(s, at + 1, at + n))[i] = g[i]
         /\ \A i \in 1..n : (g \o SubSeq(s, at + 1, at + n))[Len(g) + i] = s[at + i]
<1> DEFINE d == SubSeq(s, at + 1, at + n)
<1>1. \A i \in at + 1 .. at + n : s[i] \in Cell
  BY ElementOfSeq, LenProperties
<1>2. /\ d \in Seq(Cell)
      /\ Len(d) = IF at + 1 <= at + n THEN (at + n) - (at + 1) + 1 ELSE 0
      /\ \A i \in 1 .. (at + n) - (at + 1) + 1 : d[i] = s[(at + 1) + i - 1]
  <2>1. at + 1 \in Int /\ at + n \in Int
    OBVIOUS
  <2> QED BY <1>1, <2>1, SubSeqProperties
<1>3. (at + n) - (at + 1) + 1 = n /\ at + 1 <= at + n /\ \A i \in 1..n : (at + 1) + i - 1 = at + i
  OBVIOUS
<1> HIDE DEF d
<1>4. d \in Seq(Cell) /\ Len(d) = n /\ \A i \in 1..n : d[i] = s[at + i]
  BY <1>2, <1>3
<1>5. /\ g \o d \in Seq(Cell) /\ Len(g \o d) = Len(g) + n /\ Len(g) \in Nat
      /\ \A i \in 1 .. Len(g) + n : (g \o d)[i] = IF i <= Len(g) THEN g[i] ELSE d[i - Len(g)]
  BY <1>4, ConcatProperties, LenProperties
<1>6. \A i \in 1..Len(g) : i \in 1 .. Len(g) + n /\ i <= Len(g)
  BY <1>5
<1>7. \A i \in 1..n : /\ Len(g) + i \in 1 .. Len(g) + n /\ ~(Len(g) + i <= Len(g))
                      /\ (Len(g) + i) - Len(g) = i
  BY <1>5
<1>8. /\ g \o d \in Seq(Cell) /\ Len(g \o d) = Len(g) + n
      /\ \A i \in 1..Len(g) : (g \o d)[i] = g[i]
      /\ \A i \in 1..n : (g \o d)[Len(g) + i] = s[at + i]
  BY <1>4, <1>5, <1>6, <1>7
<1> QED BY <1>8 DEF d

(* Any of the three ways to send: n cells of s, which are those that are *)
(* next of header \o reply, and the connection counts them.              *)
LEMMA SendFits ==
  ASSUME NEW k, NEW l, Fits(k, l), k.state \in Sending,
         NEW s \in Seq(Cell), NEW at \in Nat, NEW n \in Nat \ {0}, at + n <= Len(s),
         \A i \in 1..n : s[at + i] = (k.header \o k.reply)[Len(l.got) + i],
         NEW m, IsConn(m), m.header = k.header, m.reply = k.reply,
         m.header_only = k.header_only, m.header_sent \in Nat, m.reply_sent \in Nat,
         m.state \in {"DONE"} \cup Sending,
         m.header_sent + m.reply_sent = Len(l.got) + n, Sent(m),
         m.state = "DONE" => /\ m.header_sent = Len(m.header)
                             /\ m.header_only \/ m.reply_sent = Len(m.reply)
  PROVE  Fits(m, [l EXCEPT !.got = @ \o SubSeq(s, at + 1, at + n)])
<1> DEFINE got == l.got \o SubSeq(s, at + 1, at + n)
           w   == k.header \o k.reply
           p   == [l EXCEPT !.got = got]
<1>1. l.got \in Seq(Cell) /\ IsClient(l) /\ Len(l.got) \in Nat
  BY LenProperties DEF Fits, ConnType
<1>2. /\ got \in Seq(Cell) /\ Len(got) = Len(l.got) + n
      /\ \A i \in 1..Len(l.got) : got[i] = l.got[i]
      /\ \A i \in 1..n : got[Len(l.got) + i] = s[at + i]
  <2>1. \A g \in Seq(Cell) :
          /\ g \o SubSeq(s, at + 1, at + n) \in Seq(Cell)
          /\ Len(g \o SubSeq(s, at + 1, at + n)) = Len(g) + n
          /\ \A i \in 1..Len(g) : (g \o SubSeq(s, at + 1, at + n))[i] = g[i]
          /\ \A i \in 1..n : (g \o SubSeq(s, at + 1, at + n))[Len(g) + i] = s[at + i]
    BY Received
  <2> QED BY <1>1, <2>1
<1>3. IsClient(p) /\ p.got = got /\ p.cut = l.cut /\ p.request = l.request
  <2> HIDE DEF got
  <2> QED BY <1>1 DEF IsClient, ClientFields
<1>4. \A i \in 1..Len(l.got) : l.got[i] = w[i]
  BY DEF Fits, Got
<1> HIDE DEF got, w, p
<1>5. \A i \in 1..Len(got) : got[i] = w[i]
  <2>1. SUFFICES ASSUME NEW i \in 1..Len(got), ~(i \in 1..Len(l.got)) PROVE got[i] = w[i]
    BY <1>2, <1>4
  <2>2. /\ i - Len(l.got) \in 1..n
        /\ i = Len(l.got) + (i - Len(l.got))
    BY <1>1, <1>2, <2>1
  <2>3. \A j \in 1..n : got[Len(l.got) + j] = w[Len(l.got) + j]
    BY <1>2 DEF w
  <2> QED BY <2>2, <2>3
<1>6. ConnType(m, p)
  BY <1>2, <1>3 DEF Fits, ConnType
<1>7. Generated(m) /\ Announced(m)
  BY DEF Fits, Generated, Announced, Sending
<1>8. Got(m, p)
  BY <1>2, <1>3, <1>5 DEF Got, w
<1>9. Fits(m, p)
  BY <1>6, <1>7, <1>8 DEF Fits
<1> QED BY <1>9 DEF p, got

(* What sending is about.                                                *)
LEMMA SendTypes ==
  ASSUME NEW k, NEW l, Fits(k, l)
  PROVE  /\ k.header \in Seq(Cell) /\ Len(k.header) \in Nat /\ k.header_sent \in Nat
         /\ k.reply \in Seq(Cell) /\ Len(k.reply) \in Nat /\ k.reply_sent \in Nat
         /\ Len(l.got) = k.header_sent + k.reply_sent /\ IsConn(k)
         /\ k.header \o k.reply \in Seq(Cell)
         /\ Len(k.header \o k.reply) = Len(k.header) + Len(k.reply)
         /\ \A i \in 1..Len(k.header) : (k.header \o k.reply)[i] = k.header[i]
         /\ \A i \in 1..Len(k.reply) :
              (k.header \o k.reply)[Len(k.header) + i] = k.reply[i]
<1>1. /\ k.header \in Seq(Cell) /\ Len(k.header) \in Nat /\ k.header_sent \in Nat
      /\ k.reply \in Seq(Cell) /\ Len(k.reply) \in Nat /\ k.reply_sent \in Nat
      /\ Len(l.got) = k.header_sent + k.reply_sent /\ IsConn(k)
  BY LenProperties DEF Fits, ConnType, Got
<1> DEFINE w == k.header \o k.reply
<1>2. /\ w \in Seq(Cell) /\ Len(w) = Len(k.header) + Len(k.reply)
      /\ \A i \in 1 .. Len(k.header) + Len(k.reply) :
           w[i] = IF i <= Len(k.header) THEN k.header[i] ELSE k.reply[i - Len(k.header)]
  BY <1>1, ConcatProperties
<1> HIDE DEF w
<1>3. \A a, b \in Nat : \A i \in 1..a : i \in 1 .. a + b /\ i <= a
  OBVIOUS
<1>4. \A a, b \in Nat : \A i \in 1..b :
        a + i \in 1 .. a + b /\ ~(a + i <= a) /\ (a + i) - a = i
  OBVIOUS
<1>5. /\ w \in Seq(Cell) /\ Len(w) = Len(k.header) + Len(k.reply)
      /\ \A i \in 1..Len(k.header) : w[i] = k.header[i]
      /\ \A i \in 1..Len(k.reply) : w[Len(k.header) + i] = k.reply[i]
  <2>1. \A i \in 1..Len(k.header) : w[i] = k.header[i]
    BY <1>1, <1>2, <1>3
  <2>2. \A i \in 1..Len(k.reply) : w[Len(k.header) + i] = k.reply[i]
    BY <1>1, <1>2, <1>4
  <2> QED BY <1>2, <2>1, <2>2
<1> QED BY <1>1, <1>5 DEF w

(* poll_send_header_and_reply: some of the header, or all of it and some *)
(* of the reply.                                                         *)
LEMMA HeaderAndReplyFits ==
  ASSUME NEW k, NEW l, Fits(k, l), k.state = "SEND_HEADER_AND_REPLY",
         NEW sent \in 1 .. Len(k.header) + Len(k.reply)
  PROVE  LET rest == sent - Len(k.header)
             m == IF sent < Len(k.header)
                  THEN [k EXCEPT !.idle = 0, !.header_sent = sent,
                                 !.state = "SEND_HEADER"]
                  ELSE [k EXCEPT !.idle = 0, !.header_sent = Len(k.header),
                                 !.reply_sent = rest,
                                 !.state = IF rest < Len(k.reply)
                                           THEN "SEND_REPLY" ELSE "DONE"]
         IN  Fits(m, [l EXCEPT !.got = @ \o SubSeq(k.header \o k.reply, 0 + 1, 0 + sent)])
<1> DEFINE rest == sent - Len(k.header)
           state == IF rest < Len(k.reply) THEN "SEND_REPLY" ELSE "DONE"
           m == IF sent < Len(k.header)
                THEN [k EXCEPT !.idle = 0, !.header_sent = sent,
                               !.state = "SEND_HEADER"]
                ELSE [k EXCEPT !.idle = 0, !.header_sent = Len(k.header),
                               !.reply_sent = rest, !.state = state]
           s == k.header \o k.reply
           S == [l EXCEPT !.got = @ \o SubSeq(s, 0 + 1, 0 + sent)]
<1>1. /\ Len(k.header) \in Nat /\ Len(k.reply) \in Nat /\ Len(l.got) = 0 /\ IsConn(k)
      /\ s \in Seq(Cell) /\ Len(s) = Len(k.header) + Len(k.reply)
      /\ k.header_sent = 0 /\ k.reply_sent = 0 /\ k.header_only = FALSE
      /\ k.state \in Sending
  <2>1. /\ Len(k.header) \in Nat /\ Len(k.reply) \in Nat /\ IsConn(k)
        /\ s \in Seq(Cell) /\ Len(s) = Len(k.header) + Len(k.reply)
        /\ Len(l.got) = k.header_sent + k.reply_sent
    BY SendTypes
  <2>2. k.header_sent = 0 /\ k.reply_sent = 0 /\ k.header_only = FALSE /\ k.state \in Sending
    BY DEF Fits, ConnType, Sent, Sending
  <2> HIDE DEF s
  <2> QED BY <2>1, <2>2
<1>2. /\ sent \in Nat \ {0} /\ 0 \in Nat /\ 0 + sent <= Len(s)
      /\ \A i \in 1..sent : s[0 + i] = (k.header \o k.reply)[Len(l.got) + i]
  <2>1. sent \in Nat \ {0} /\ sent <= Len(s)
    <3>1. \A a, b \in Nat : \A n \in 1 .. a + b : n \in Nat \ {0} /\ n <= a + b
      OBVIOUS
    <3> HIDE DEF s
    <3> QED BY <1>1, <3>1
  <2>2. \A i \in 1..sent : 0 + i = Len(l.got) + i
    BY <1>1, <2>1
  <2>3. \A i \in 1..sent : s[0 + i] = s[Len(l.got) + i]
    BY <2>2
  <2>4. 0 + sent = sent
    BY <2>1
  <2> HIDE DEF s
  <2>5. /\ sent \in Nat \ {0} /\ 0 \in Nat /\ 0 + sent <= Len(s)
        /\ \A i \in 1..sent : s[0 + i] = s[Len(l.got) + i]
    BY <2>1, <2>3, <2>4
  <2> QED BY <2>5 DEF s
<1> HIDE DEF s, state
<1>3. CASE sent < Len(k.header)
  <2>1. /\ IsConn(m) /\ m.header = k.header /\ m.reply = k.reply
        /\ m.header_only = k.header_only /\ m.header_sent = sent
        /\ m.reply_sent = k.reply_sent /\ m.state = "SEND_HEADER"
    BY <1>1, <1>3 DEF IsConn, ConnFields
  <2> HIDE DEF m
  <2>2. Sent(m)
    BY <1>1, <1>2, <1>3, <2>1 DEF Sent
  <2>3. /\ m.header_sent \in Nat /\ m.reply_sent \in Nat /\ m.state # "DONE"
        /\ m.state \in {"DONE"} \cup Sending
        /\ m.header_sent + m.reply_sent = Len(l.got) + sent
    BY <1>1, <1>2, <2>1 DEF Sending
  <2>4. Fits(m, S)
    BY <1>1, <1>2, <2>1, <2>2, <2>3, SendFits
  <2> QED BY <2>4 DEF m, s, state
<1>4. CASE ~(sent < Len(k.header))
  <2>1. /\ IsConn(m) /\ m.header = k.header /\ m.reply = k.reply
        /\ m.header_only = k.header_only /\ m.header_sent = Len(k.header)
        /\ m.reply_sent = rest /\ m.state = state
    BY <1>1, <1>4 DEF IsConn, ConnFields
  <2>2. rest \in Nat /\ rest <= Len(k.reply) /\ Len(k.header) + rest = sent
    <3>1. \A a, b \in Nat : \A n \in 1 .. a + b :
            ~(n < a) => n - a \in Nat /\ n - a <= b /\ a + (n - a) = n
      OBVIOUS
    <3> QED BY <1>1, <1>4, <3>1
  <2> HIDE DEF m, rest
  <2>3. Sent(m)
    BY <1>1, <2>1, <2>2 DEF Sent, state
  <2>4. /\ m.header_sent \in Nat /\ m.reply_sent \in Nat
        /\ m.state = "DONE" => m.header_sent = Len(m.header) /\ m.reply_sent = Len(m.reply)
        /\ m.state \in {"DONE"} \cup Sending
        /\ m.header_sent + m.reply_sent = Len(l.got) + sent
    BY <1>1, <1>2, <2>1, <2>2 DEF Sending, state
  <2>5. Fits(m, S)
    BY <1>1, <1>2, <2>1, <2>3, <2>4, SendFits
  <2> QED BY <2>5 DEF m, s, state, rest
<1> QED BY <1>3, <1>4

(* poll_send_header: more of the header.                                 *)
LEMMA HeaderFits ==
  ASSUME NEW k, NEW l, Fits(k, l), k.state = "SEND_HEADER",
         NEW sent \in 1 .. Len(k.header) - k.header_sent
  PROVE  Fits([k EXCEPT !.idle = 0, !.header_sent = @ + sent,
                        !.state = IF k.header_sent + sent < Len(k.header)
                                  THEN @ ELSE IF k.header_only
                                  THEN "DONE" ELSE "SEND_REPLY"],
              [l EXCEPT !.got = @ \o SubSeq(k.header, k.header_sent + 1,
                                            k.header_sent + sent)])
<1> DEFINE state == IF k.header_sent + sent < Len(k.header) THEN "SEND_HEADER"
                    ELSE IF k.header_only THEN "DONE" ELSE "SEND_REPLY"
           m == [k EXCEPT !.idle = 0, !.header_sent = k.header_sent + sent, !.state = state]
           S == [l EXCEPT !.got = @ \o SubSeq(k.header, k.header_sent + 1,
                                              k.header_sent + sent)]
<1>1. /\ Len(k.header) \in Nat /\ Len(k.reply) \in Nat /\ IsConn(k)
      /\ k.header \in Seq(Cell) /\ k.header_sent \in Nat /\ k.reply_sent = 0
      /\ Len(l.got) = k.header_sent
      /\ k.header_only \in BOOLEAN /\ k.state \in Sending
      /\ Len(k.header) > 0 /\ Len(k.reply) > 0
      /\ \A i \in 1..Len(k.header) : (k.header \o k.reply)[i] = k.header[i]
  <2>1. /\ Len(k.header) \in Nat /\ Len(k.reply) \in Nat /\ IsConn(k)
        /\ k.header \in Seq(Cell) /\ k.header_sent \in Nat
        /\ Len(l.got) = k.header_sent + k.reply_sent
        /\ \A i \in 1..Len(k.header) : (k.header \o k.reply)[i] = k.header[i]
    BY SendTypes
  <2>2. /\ k.reply_sent = 0 /\ k.header_only \in BOOLEAN /\ k.state \in Sending
    BY DEF Fits, ConnType, Sent, Sending
  <2>3. Len(k.header) > 0 /\ Len(k.reply) > 0
    BY <2>2 DEF Fits, Generated
  <2>4. Len(l.got) = k.header_sent
    BY <2>1, <2>2
  <2> QED BY <2>1, <2>2, <2>3, <2>4
<1>2. /\ sent \in Nat \ {0} /\ k.header_sent + sent <= Len(k.header)
      /\ \A i \in 1..sent : k.header_sent + i \in 1..Len(k.header)
  BY <1>1
<1>3. \A i \in 1..sent : k.header[k.header_sent + i] = (k.header \o k.reply)[Len(l.got) + i]
  BY <1>1, <1>2
<1> HIDE DEF state
<1>4. /\ IsConn(m) /\ m.header = k.header /\ m.reply = k.reply
      /\ m.header_only = k.header_only /\ m.header_sent = k.header_sent + sent
      /\ m.reply_sent = k.reply_sent /\ m.state = state
  BY <1>1 DEF IsConn, ConnFields
<1> HIDE DEF m
<1>5. /\ k.header_sent + sent < Len(k.header) => state = "SEND_HEADER"
      /\ ~(k.header_sent + sent < Len(k.header)) /\ k.header_only => state = "DONE"
      /\ ~(k.header_sent + sent < Len(k.header)) /\ ~k.header_only => state = "SEND_REPLY"
  BY DEF state
<1>6. Sent(m)
  <2> DEFINE hs == m.header_sent
  <2>1. /\ hs \in Nat /\ hs <= Len(k.header) /\ m.reply_sent = 0
        /\ ~(hs < Len(k.header)) => hs = Len(k.header)
    BY <1>1, <1>2, <1>4
  <2>2. \/ m.state = "SEND_HEADER" /\ hs < Len(k.header)
        \/ m.state = "DONE"
        \/ m.state = "SEND_REPLY" /\ ~m.header_only /\ hs = Len(k.header)
    BY <1>1, <1>4, <1>5, <2>1
  <2> QED BY <1>1, <1>4, <2>1, <2>2 DEF Sent
<1>7. /\ m.header_sent \in Nat /\ m.reply_sent \in Nat
      /\ m.state = "DONE" => m.header_sent = Len(m.header) /\ m.header_only
      /\ m.state \in {"DONE"} \cup Sending
      /\ m.header_sent + m.reply_sent = Len(l.got) + sent
  BY <1>1, <1>2, <1>4, <1>5 DEF Sending
<1>8. Fits(m, S)
  BY <1>1, <1>2, <1>3, <1>4, <1>6, <1>7, SendFits
<1> QED BY <1>8 DEF m, state

(* poll_send_reply: more of the reply.                                   *)
LEMMA ReplyFits ==
  ASSUME NEW k, NEW l, Fits(k, l), k.state = "SEND_REPLY",
         NEW sent \in 1 .. Len(k.reply) - k.reply_sent
  PROVE  Fits([k EXCEPT !.idle = 0, !.reply_sent = @ + sent,
                        !.state = IF k.reply_sent + sent < Len(k.reply)
                                  THEN @ ELSE "DONE"],
              [l EXCEPT !.got = @ \o SubSeq(k.reply, k.reply_sent + 1,
                                            k.reply_sent + sent)])
<1> DEFINE state == IF k.reply_sent + sent < Len(k.reply) THEN "SEND_REPLY" ELSE "DONE"
           m == [k EXCEPT !.idle = 0, !.reply_sent = k.reply_sent + sent, !.state = state]
           S == [l EXCEPT !.got = @ \o SubSeq(k.reply, k.reply_sent + 1,
                                              k.reply_sent + sent)]
<1>1. /\ Len(k.header) \in Nat /\ Len(k.reply) \in Nat /\ IsConn(k)
      /\ k.reply \in Seq(Cell) /\ k.header_sent = Len(k.header) /\ k.reply_sent \in Nat
      /\ Len(l.got) = Len(k.header) + k.reply_sent
      /\ k.header_only = FALSE /\ k.state \in Sending
      /\ \A i \in 1..Len(k.reply) : (k.header \o k.reply)[Len(k.header) + i] = k.reply[i]
  <2>1. /\ Len(k.header) \in Nat /\ Len(k.reply) \in Nat /\ IsConn(k)
        /\ k.reply \in Seq(Cell) /\ k.reply_sent \in Nat
        /\ Len(l.got) = k.header_sent + k.reply_sent
        /\ \A i \in 1..Len(k.reply) : (k.header \o k.reply)[Len(k.header) + i] = k.reply[i]
    BY SendTypes
  <2>2. /\ k.header_sent = Len(k.header) /\ k.header_only = FALSE /\ k.state \in Sending
    BY DEF Fits, ConnType, Sent, Sending
  <2> QED BY <2>1, <2>2
<1>2. /\ sent \in Nat \ {0} /\ k.reply_sent + sent <= Len(k.reply)
      /\ \A i \in 1..sent : k.reply_sent + i \in 1..Len(k.reply)
  BY <1>1
<1>3. \A i \in 1..sent : k.reply[k.reply_sent + i] = (k.header \o k.reply)[Len(l.got) + i]
  <2>1. \A a, b \in Nat : \A i \in 1..sent : (a + b) + i = a + (b + i)
    BY <1>2
  <2>2. \A i \in 1..sent : Len(l.got) + i = Len(k.header) + (k.reply_sent + i)
    BY <1>1, <2>1
  <2>3. \A i \in 1..sent :
          (k.header \o k.reply)[Len(k.header) + (k.reply_sent + i)] = k.reply[k.reply_sent + i]
    BY <1>1, <1>2, Zenon
  <2> QED BY <2>2, <2>3
<1> HIDE DEF state
<1>4. /\ IsConn(m) /\ m.header = k.header /\ m.reply = k.reply
      /\ m.header_only = k.header_only /\ m.header_sent = k.header_sent
      /\ m.reply_sent = k.reply_sent + sent /\ m.state = state
  BY <1>1 DEF IsConn, ConnFields
<1> HIDE DEF m
<1>5. /\ k.reply_sent + sent < Len(k.reply) => state = "SEND_REPLY"
      /\ ~(k.reply_sent + sent < Len(k.reply)) => state = "DONE"
  BY DEF state
<1>6. Sent(m)
  BY <1>1, <1>2, <1>4, <1>5 DEF Sent
<1>7. /\ m.header_sent \in Nat /\ m.reply_sent \in Nat
      /\ m.state = "DONE" => m.header_sent = Len(m.header) /\ m.reply_sent = Len(m.reply)
      /\ m.state \in {"DONE"} \cup Sending
      /\ m.header_sent + m.reply_sent = Len(l.got) + sent
  BY <1>1, <1>2, <1>4, <1>5 DEF Sending
<1>8. Fits(m, S)
  BY <1>1, <1>2, <1>3, <1>4, <1>6, <1>7, SendFits
<1> QED BY <1>8 DEF m, state

----------------------------------------------------------------------------
(***************************************************************************)
(* The steps.                                                              *)
(***************************************************************************)
(* A step of one connection and its client leaves the others as they were. *)
LEMMA OneStep ==
  ASSUME LoopInv, ConnInv, NEW c \in Conn, NEW m, NEW n, Fits(m, n),
         conn' = [conn EXCEPT ![c] = m], client' = [client EXCEPT ![c] = n]
  PROVE  /\ ConnInv'
         /\ conn' = [d \in Conn |-> conn'[d]] /\ client' = [d \in Conn |-> client'[d]]
         /\ \A d \in Conn \ {c} : conn'[d] = conn[d] /\ (d \in Open <=> d \in Open')
<1>1. /\ conn' = [d \in Conn |-> conn'[d]] /\ client' = [d \in Conn |-> client'[d]]
      /\ conn'[c] = m /\ client'[c] = n
      /\ \A d \in Conn \ {c} : conn'[d] = conn[d] /\ client'[d] = client[d]
  BY DEF LoopInv
<1> QED BY <1>1 DEF ConnInv, Open

(* The client's side of a connection changes.                            *)
LEMMA ClientStep ==
  ASSUME LoopInv, ConnInv, NEW c \in Open, NEW n, Fits(conn[c], n),
         client' = [client EXCEPT ![c] = n], UNCHANGED <<phase, conn, todo>>
  PROVE  LoopInv' /\ ConnInv'
<1>1. /\ client' = [d \in Conn |-> client'[d]]
      /\ client'[c] = n /\ \A d \in Conn \ {c} : client'[d] = client[d]
  BY DEF LoopInv, Open
<1> QED BY <1>1 DEF LoopInv, ConnInv, Open

(* A visit ends with one connection less to visit.                       *)
LEMMA VisitStep ==
  ASSUME LoopInv, ConnInv, NEW c \in Conn, NEW state, Visit(c, state),
         NEW m, NEW n, Fits(m, n),
         conn' = [conn EXCEPT ![c] = m], client' = [client EXCEPT ![c] = n]
  PROVE  LoopInv' /\ ConnInv'
<1>1. /\ ConnInv'
      /\ conn' = [d \in Conn |-> conn'[d]] /\ client' = [d \in Conn |-> client'[d]]
      /\ \A d \in Conn \ {c} : conn'[d] = conn[d] /\ (d \in Open <=> d \in Open')
  BY OneStep
<1>2. /\ phase = "poll" /\ todo' = todo \ {c}
      /\ phase' = IF todo' = {} THEN "fd_set" ELSE "poll"
  BY DEF Visit
<1>3. todo' \subseteq Open'
  BY <1>1, <1>2 DEF LoopInv, Open
<1> QED BY <1>1, <1>2, <1>3 DEF LoopInv

(* The connection that is visited is open.                               *)
LEMMA VisitOpen ==
  ASSUME LoopInv, ConnInv, NEW c \in Conn, NEW state, Visit(c, state)
  PROVE  c \in Open /\ conn[c].state = state /\ Fits(conn[c], client[c])
<1>1. phase = "poll" /\ c = (CHOOSE d \in todo : TRUE) /\ conn[c].state = state
  BY DEF Visit
<1>2. c \in todo /\ todo \subseteq Open
  BY <1>1 DEF LoopInv
<1> QED BY <1>1, <1>2 DEF ConnInv

(* recv or send failed.                                                  *)
LEMMA FailStep ==
  ASSUME LoopInv, ConnInv, NEW c \in Conn, NEW state, Visit(c, state), Fail(c)
  PROVE  LoopInv' /\ ConnInv'
<1> DEFINE m == [conn[c] EXCEPT !.state = "DONE"]
           n == [client[c] EXCEPT !.cut = TRUE]
<1>1. conn' = [conn EXCEPT ![c] = m] /\ client' = [client EXCEPT ![c] = n]
  BY DEF Fail
<1>2. Fits(m, n)
  BY VisitOpen, FailFits
<1> HIDE DEF m, n
<1> QED BY <1>1, <1>2, VisitStep

(* http_poll finds no connection that is finished.                       *)
LEMMA PollStep ==
  ASSUME LoopInv, ConnInv', PollAll,
         conn' = [d \in Conn |-> conn'[d]], client' = [d \in Conn |-> client'[d]],
         \A c \in Open' : conn'[c].state # "DONE"
  PROVE  LoopInv'
<1> DEFINE open  == {c \in Conn : conn'[c] # NoConn}
           ready == {c \in open : c \in IF conn'[c].state = "RECV_REQUEST"
                                         THEN recv_set ELSE send_set}
<1>1. /\ todo' = ready
      /\ phase' = IF \E c \in open : conn'[c].state = "DONE" THEN "invalid state"
                  ELSE IF ready = {} THEN "fd_set" ELSE "poll"
  BY DEF PollAll
<1>2. open = Open' /\ ready \subseteq open
  BY DEF Open
<1> HIDE DEF open, ready
<1>3. phase' = IF ready = {} THEN "fd_set" ELSE "poll"
  BY <1>1, <1>2
<1> QED BY <1>1, <1>2, <1>3 DEF LoopInv

(* Only those that go on are left when select is called.                 *)
LEMMA WatchStep ==
  ASSUME LoopInv, ConnInv, NEW live, live \subseteq Open,
         \A c \in live : conn[c].state # "DONE", Watch(live)
  PROVE  LoopInv' /\ ConnInv'
<1>1. /\ conn' = [c \in Conn |-> IF c \in live THEN conn[c] ELSE NoConn]
      /\ client' = [c \in Conn |-> IF c \in live THEN client[c] ELSE NoConn]
      /\ phase' = "select"
  BY DEF Watch
<1>2. \A c \in Open' : c \in live /\ conn'[c] = conn[c] /\ client'[c] = client[c]
  BY <1>1 DEF Open
<1>3. \A c \in live : c \in Open
  OBVIOUS
<1>4. conn' = [c \in Conn |-> conn'[c]] /\ client' = [c \in Conn |-> client'[c]]
  BY <1>1
<1> QED BY <1>1, <1>2, <1>3, <1>4 DEF LoopInv, ConnInv

(* The clock is read.                                                    *)
LEMMA ClockStep ==
  ASSUME LoopInv, ConnInv, now_update, client' = client
  PROVE  /\ ConnInv' /\ conn' = [c \in Conn |-> conn'[c]]
         /\ \A c \in Open' : c \in Open /\ conn'[c].state = conn[c].state
<1> DEFINE idle(c) == IF conn[c].idle + elapsed < idletime
                      THEN conn[c].idle + elapsed ELSE idletime
<1>1. conn' = [c \in Conn |-> IF c \notin Open THEN NoConn
                              ELSE [conn[c] EXCEPT !.idle = idle(c)]]
  BY DEF now_update
<1> HIDE DEF idle
<1>2. \A c \in Open' : c \in Open /\ conn'[c] = [conn[c] EXCEPT !.idle = idle(c)]
  BY <1>1 DEF Open
<1>3. \A c \in Open' : Fits(conn'[c], client'[c]) /\ conn'[c].state = conn[c].state
  <2> SUFFICES ASSUME NEW c \in Open'
               PROVE  Fits(conn'[c], client'[c]) /\ conn'[c].state = conn[c].state
    OBVIOUS
  <2>1. Fits(conn[c], client[c]) /\ client'[c] = client[c]
    BY <1>2 DEF ConnInv
  <2>2. PICK t : conn'[c] = [conn[c] EXCEPT !.idle = t]
    BY <1>2
  <2>3. Fits([conn[c] EXCEPT !.idle = t], client[c])
        /\ [conn[c] EXCEPT !.idle = t].state = conn[c].state
    BY <2>1, IdleFits
  <2> QED BY <2>1, <2>2, <2>3
<1>4. conn' = [c \in Conn |-> conn'[c]]
  BY <1>1
<1> QED BY <1>2, <1>3, <1>4 DEF ConnInv

(* The inductive invariant.                                              *)
HttpInv == LoopInv /\ ConnInv

(* Each step of the server and its clients.                              *)
LEMMA HttpStep == ASSUME HttpInv, [Next]_vars PROVE HttpInv'
<1>0. LoopInv /\ ConnInv
  BY DEF HttpInv
<1> USE DEF loopVars
<1>1. ASSUME NEW c \in Conn, arrive(c) \/ hang_up(c) PROVE HttpInv'
  <2>1. c \in Open /\ Fits(conn[c], client[c]) /\ UNCHANGED <<phase, conn, todo>>
    BY <1>0, <1>1 DEF arrive, hang_up, Receiving, ConnInv
  <2>2. \E inbox, coming :
          client' = [client EXCEPT ![c] = [client[c] EXCEPT !.inbox = inbox, !.coming = coming]]
    <3>1. CASE arrive(c)
      <4>1. client' = [client EXCEPT ![c] = [client[c] EXCEPT
                         !.inbox = Append(client[c].inbox, Head(client[c].coming)),
                         !.coming = Tail(client[c].coming)]]
        BY <3>1 DEF arrive
      <4> QED BY <4>1
    <3>2. CASE hang_up(c)
      <4>1. client' = [client EXCEPT ![c] = [client[c] EXCEPT
                         !.inbox = Append(client[c].inbox, "eof"), !.coming = <<>>]]
        BY <3>2 DEF hang_up
      <4> QED BY <4>1
    <3> QED BY <1>1, <3>1, <3>2
  <2>3. PICK inbox, coming :
          client' = [client EXCEPT ![c] = [client[c] EXCEPT !.inbox = inbox, !.coming = coming]]
    BY <2>2
  <2>4. Fits(conn[c], [client[c] EXCEPT !.inbox = inbox, !.coming = coming])
    BY <2>1, InboxFits
  <2> QED BY <1>0, <2>1, <2>3, <2>4, ClientStep DEF HttpInv
<1>2. CASE tick
  BY <1>0, <1>2 DEF tick, HttpInv, LoopInv, ConnInv, Open
<1>3. CASE http_fd_set
  <2> DEFINE live == {c \in Open : conn[c].state # "DONE" /\ ~idle_out(c)}
  <2>1. Watch(live)
    BY <1>3 DEF http_fd_set
  <2>2. live \subseteq Open /\ \A c \in live : conn[c].state # "DONE"
    OBVIOUS
  <2> HIDE DEF live
  <2> QED BY <1>0, <2>1, <2>2, WatchStep DEF HttpInv
<1>4. ASSUME NEW W \in SUBSET send_set, select_returns(W) PROVE HttpInv'
  <2>1. /\ phase = "select" /\ phase' = "http_poll" /\ now_update
        /\ client' = client /\ todo' = todo
    BY <1>4 DEF select_returns
  <2> QED BY <1>0, <2>1, ClockStep DEF HttpInv, LoopInv
<1>5. CASE interrupted
  <2>1. phase' = "fd_set" /\ client' = client /\ todo' = todo
    BY <1>5 DEF interrupted
  <2>2. CASE now_update
    BY <1>0, <2>1, <2>2, ClockStep DEF HttpInv, LoopInv
  <2>3. CASE UNCHANGED conn
    BY <1>0, <2>1, <2>3 DEF HttpInv, LoopInv, ConnInv, Open
  <2> QED BY <1>5, <2>2, <2>3 DEF interrupted
<1>6. ASSUME NEW c \in Conn, NEW r \in Requests, accept_connection(c, r) PROVE HttpInv'
  <2>1. /\ phase = "http_poll" /\ c \notin Open /\ PollAll
        /\ conn' = [conn EXCEPT ![c] = new_connection]
        /\ client' = [client EXCEPT ![c] = new_client(r)]
    BY <1>6 DEF accept_connection
  <2>2. Fits(new_connection, new_client(r)) /\ new_connection.state = "RECV_REQUEST"
    BY NewFits
  <2>3. /\ ConnInv'
        /\ conn' = [d \in Conn |-> conn'[d]] /\ client' = [d \in Conn |-> client'[d]]
        /\ \A d \in Conn \ {c} : conn'[d] = conn[d] /\ (d \in Open <=> d \in Open')
    BY <1>0, <2>1, <2>2, OneStep
  <2>4. \A d \in Open' : conn'[d].state # "DONE"
    BY <1>0, <2>1, <2>2, <2>3 DEF LoopInv, Open
  <2> QED BY <1>0, <2>1, <2>3, <2>4, PollStep DEF HttpInv
<1>7. CASE accept_nothing
  <2>1. phase = "http_poll" /\ PollAll /\ conn' = conn /\ client' = client
    BY <1>7 DEF accept_nothing
  <2>2. ConnInv' /\ \A d \in Open' : conn'[d].state # "DONE"
    BY <1>0, <2>1 DEF LoopInv, ConnInv, Open
  <2>3. conn' = [d \in Conn |-> conn'[d]] /\ client' = [d \in Conn |-> client'[d]]
    BY <1>0, <2>1 DEF LoopInv
  <2> QED BY <1>0, <2>1, <2>2, <2>3, PollStep DEF HttpInv
<1>8. ASSUME Exit PROVE HttpInv'
  <2>1. /\ conn' = [c \in Conn |-> NoConn] /\ client' = [c \in Conn |-> NoConn]
        /\ phase' = "exited"
    BY <1>8 DEF Exit
  <2>2. \A c : c \notin Open'
    BY <2>1 DEF Open
  <2> QED BY <2>1, <2>2 DEF HttpInv, LoopInv, ConnInv
<1>9. CASE accept_err \/ http_stop
  BY <1>8, <1>9 DEF accept_err, http_stop
<1>10. ASSUME NEW c \in Conn, poll_recv_request(c) PROVE HttpInv'
  <2> DEFINE recvd == SelectSeq(client[c].inbox, LAMBDA x : x # "eof")
             inbox == SubSeq(client[c].inbox, Len(recvd) + 1, Len(client[c].inbox))
             req   == conn[c].request \o recvd
  <2>1. Visit(c, "RECV_REQUEST")
    BY <1>10 DEF poll_recv_request
  <2>2. CASE Fail(c)
    BY <1>0, <2>1, <2>2, FailStep DEF HttpInv
  <2>3. ASSUME ~Fail(c) PROVE HttpInv'
    <3>1. PICK k \in after_recv(c, req) :
            /\ conn' = [conn EXCEPT ![c] = k]
            /\ client' = [client EXCEPT ![c].inbox = inbox]
      BY <1>10, <2>3 DEF poll_recv_request
    <3> HIDE DEF inbox, req
    <3>2. client' = [client EXCEPT ![c] = [client[c] EXCEPT !.inbox = inbox]]
      BY <3>1
    <3>3. Fits(k, [client[c] EXCEPT !.inbox = inbox])
      BY <1>0, <2>1, VisitOpen, RecvFits
    <3> QED BY <1>0, <2>1, <3>1, <3>2, <3>3, VisitStep DEF HttpInv
  <2> QED BY <2>2, <2>3
<1>11. ASSUME NEW c \in Conn, poll_send_header_and_reply(c) PROVE HttpInv'
  <2> DEFINE k == conn[c]
             l == client[c]
             m(sent) == IF sent < Len(k.header)
                        THEN [k EXCEPT !.idle = 0, !.header_sent = sent,
                                       !.state = "SEND_HEADER"]
                        ELSE [k EXCEPT !.idle = 0, !.header_sent = Len(k.header),
                                       !.reply_sent = sent - Len(k.header),
                                       !.state = IF sent - Len(k.header) < Len(k.reply)
                                                 THEN "SEND_REPLY" ELSE "DONE"]
             n(sent) == [l EXCEPT !.got = @ \o SubSeq(k.header \o k.reply, 0 + 1, 0 + sent)]
  <2>1. Visit(c, "SEND_HEADER_AND_REPLY")
    BY <1>11 DEF poll_send_header_and_reply
  <2>2. CASE Fail(c)
    BY <1>0, <2>1, <2>2, FailStep DEF HttpInv
  <2>3. ASSUME ~Fail(c) PROVE HttpInv'
    <3>1. PICK sent \in 1 .. Len(k.header) + Len(k.reply) :
            conn' = [conn EXCEPT ![c] = m(sent)] /\ client' = [client EXCEPT ![c] = n(sent)]
      BY <1>11, <2>3 DEF poll_send_header_and_reply, Send
    <3>2. Fits(k, l) /\ k.state = "SEND_HEADER_AND_REPLY"
      BY <1>0, <2>1, VisitOpen
    <3>3. Fits(m(sent), n(sent))
      BY <3>2, HeaderAndReplyFits
    <3> HIDE DEF m, n
    <3> QED BY <1>0, <2>1, <3>1, <3>3, VisitStep DEF HttpInv
  <2> QED BY <2>2, <2>3
<1>12. ASSUME NEW c \in Conn, poll_send_header(c) PROVE HttpInv'
  <2> DEFINE k == conn[c]
             l == client[c]
             m(sent) == [k EXCEPT !.idle = 0, !.header_sent = @ + sent,
                                  !.state = IF k.header_sent + sent < Len(k.header)
                                            THEN @ ELSE IF k.header_only
                                            THEN "DONE" ELSE "SEND_REPLY"]
             n(sent) == [l EXCEPT !.got = @ \o SubSeq(k.header, k.header_sent + 1,
                                                      k.header_sent + sent)]
  <2>1. Visit(c, "SEND_HEADER")
    BY <1>12 DEF poll_send_header
  <2>2. CASE Fail(c)
    BY <1>0, <2>1, <2>2, FailStep DEF HttpInv
  <2>3. ASSUME ~Fail(c) PROVE HttpInv'
    <3>1. PICK sent \in 1 .. Len(k.header) - k.header_sent :
            conn' = [conn EXCEPT ![c] = m(sent)] /\ client' = [client EXCEPT ![c] = n(sent)]
      BY <1>12, <2>3 DEF poll_send_header, Send
    <3>2. Fits(k, l) /\ k.state = "SEND_HEADER"
      BY <1>0, <2>1, VisitOpen
    <3>3. Fits(m(sent), n(sent))
      BY <3>2, HeaderFits
    <3> HIDE DEF m, n
    <3> QED BY <1>0, <2>1, <3>1, <3>3, VisitStep DEF HttpInv
  <2> QED BY <2>2, <2>3
<1>13. ASSUME NEW c \in Conn, poll_send_reply(c) PROVE HttpInv'
  <2> DEFINE k == conn[c]
             l == client[c]
             m(sent) == [k EXCEPT !.idle = 0, !.reply_sent = @ + sent,
                                  !.state = IF k.reply_sent + sent < Len(k.reply)
                                            THEN @ ELSE "DONE"]
             n(sent) == [l EXCEPT !.got = @ \o SubSeq(k.reply, k.reply_sent + 1,
                                                      k.reply_sent + sent)]
  <2>1. Visit(c, "SEND_REPLY")
    BY <1>13 DEF poll_send_reply
  <2>2. CASE Fail(c)
    BY <1>0, <2>1, <2>2, FailStep DEF HttpInv
  <2>3. ASSUME ~Fail(c) PROVE HttpInv'
    <3>1. PICK sent \in 1 .. Len(k.reply) - k.reply_sent :
            conn' = [conn EXCEPT ![c] = m(sent)] /\ client' = [client EXCEPT ![c] = n(sent)]
      BY <1>13, <2>3 DEF poll_send_reply, Send
    <3>2. Fits(k, l) /\ k.state = "SEND_REPLY"
      BY <1>0, <2>1, VisitOpen
    <3>3. Fits(m(sent), n(sent))
      BY <3>2, ReplyFits
    <3> HIDE DEF m, n
    <3> QED BY <1>0, <2>1, <3>1, <3>3, VisitStep DEF HttpInv
  <2> QED BY <2>2, <2>3
<1>14. CASE Terminated \/ UNCHANGED vars
  BY <1>0, <1>14 DEF Terminated, vars, HttpInv, LoopInv, ConnInv, Open
<1> QED BY <1>1, <1>2, <1>3, <1>4, <1>5, <1>6, <1>7, <1>9, <1>10, <1>11, <1>12, <1>13,
           <1>14 DEF Next

(* In every reachable state.                                             *)
THEOREM HttpIsRight == Spec => []HttpInv
<1>1. Init => HttpInv
  BY DEF Init, HttpInv, LoopInv, ConnInv, Open
<1>2. HttpInv /\ [Next]_vars => HttpInv'
  BY HttpStep
<1> QED BY <1>1, <1>2, PTL DEF Spec

(* http_poll never meets a finished connection, the assertions of        *)
(* poll_send_header_and_reply hold and send always has something to      *)
(* send, for any number of connections and replies of any length.        *)
THEOREM HttpPollIsSafe == Spec => []PollIsSafe
<1>1. HttpInv => PollIsSafe
  <2> SUFFICES ASSUME HttpInv, NEW c \in Open
               PROVE  LET k == conn[c]
                      IN  CASE k.state = "SEND_HEADER_AND_REPLY" ->
                                 ~k.header_only /\ k.header_sent = 0 /\ k.reply_sent = 0
                                   /\ Len(k.reply) > 0
                            [] k.state = "SEND_HEADER" -> k.header_sent < Len(k.header)
                            [] k.state = "SEND_REPLY" ->
                                 ~k.header_only /\ k.header_sent = Len(k.header)
                                   /\ k.reply_sent < Len(k.reply)
                            [] OTHER -> TRUE
    BY DEF PollIsSafe, HttpInv, LoopInv
  <2>1. Generated(conn[c]) /\ Sent(conn[c])
    BY DEF HttpInv, ConnInv, Fits
  <2> QED BY <2>1 DEF Generated, Sent, Sending
<1> QED BY <1>1, HttpIsRight, PTL

(* However writev and send cut up the reply, the client has got a prefix *)
(* of it, and all of it when the connection ends well, for any requests  *)
(* and replies of any length.                                            *)
THEOREM HttpClientGetsPrefix == Spec => []ClientGetsPrefix
<1>1. HttpInv => ClientGetsPrefix
  <2> SUFFICES ASSUME HttpInv, NEW c \in Open
               PROVE  LET whole == Response(conn[c])
                          got   == client[c].got
                      IN  /\ Len(got) <= Len(whole)
                          /\ got = SubSeq(whole, 1, Len(got))
                          /\ conn[c].state = "DONE" /\ ~client[c].cut => got = whole
    BY DEF ClientGetsPrefix
  <2> DEFINE k == conn[c]
             got == client[c].got
             whole == Response(k)
  <2>1. Fits(k, client[c])
    BY DEF HttpInv, ConnInv
  <2>2. /\ k.header \in Seq(Cell) /\ Len(k.header) \in Nat /\ k.header_sent \in Nat
        /\ k.reply \in Seq(Cell) /\ Len(k.reply) \in Nat /\ k.reply_sent \in Nat
        /\ got \in Seq(Cell) /\ Len(got) \in Nat
        /\ Len(got) = k.header_sent + k.reply_sent
        /\ k.header \o k.reply \in Seq(Cell)
        /\ Len(k.header \o k.reply) = Len(k.header) + Len(k.reply)
        /\ \A i \in 1..Len(k.header) : (k.header \o k.reply)[i] = k.header[i]
    BY <2>1, SendTypes, LenProperties DEF Fits, ConnType
  <2>3. /\ k.header_sent <= Len(k.header) /\ k.reply_sent <= Len(k.reply)
        /\ k.header_only => k.reply_sent = 0
        /\ k.header_only \in BOOLEAN
        /\ \A i \in 1..Len(got) : got[i] = (k.header \o k.reply)[i]
        /\ k.state = "DONE" /\ ~client[c].cut =>
             /\ k.header_sent = Len(k.header)
             /\ k.header_only \/ k.reply_sent = Len(k.reply)
    <3>1. /\ k.header_sent <= Len(k.header) /\ k.reply_sent <= Len(k.reply)
          /\ k.reply_sent > 0 => ~k.header_only
          /\ k.header_only \in BOOLEAN
      BY <2>1 DEF Fits, ConnType, Sent
    <3>2. k.header_only => k.reply_sent = 0
      BY <2>2, <3>1
    <3>3. Got(k, client[c])
      BY <2>1 DEF Fits
    <3> HIDE DEF k
    <3> QED BY <3>1, <3>2, <3>3 DEF Got
  <2>4. /\ whole \in Seq(Cell) /\ Len(whole) \in Nat /\ Len(got) <= Len(whole)
        /\ \A i \in 1..Len(got) : got[i] = whole[i]
        /\ k.state = "DONE" /\ ~client[c].cut => Len(got) = Len(whole)
    <3>1. CASE k.header_only
      <4>1. whole = k.header
        BY <2>2, <3>1, ConcatEmptySeq DEF Response
      <4>2. Len(got) = k.header_sent
        BY <2>2, <2>3, <3>1
      <4>3. \A i \in 1..Len(got) : i \in 1..Len(k.header)
        BY <2>2, <2>3, <4>2
      <4> HIDE DEF got, whole, k
      <4>4. \A i \in 1..Len(got) : got[i] = whole[i]
        BY <2>2, <2>3, <4>1, <4>3
      <4> QED BY <2>2, <2>3, <4>1, <4>2, <4>4
    <3>2. CASE ~k.header_only
      <4>1. whole = k.header \o k.reply
        BY <3>2 DEF Response
      <4> HIDE DEF got, whole, k
      <4>2. \A a, b, x, y \in Nat : x <= a /\ y <= b =>
              x + y <= a + b /\ (x = a /\ y = b => x + y = a + b) /\ a + b \in Nat
        OBVIOUS
      <4>3. Len(got) <= Len(whole) /\ Len(whole) \in Nat
        <5>1. Len(whole) = Len(k.header) + Len(k.reply) /\ Len(got) = k.header_sent + k.reply_sent
          BY <2>2, <4>1
        <5>2. /\ k.header_sent + k.reply_sent <= Len(k.header) + Len(k.reply)
              /\ Len(k.header) + Len(k.reply) \in Nat
          BY <2>2, <2>3, <4>2
        <5> QED BY <5>1, <5>2
      <4>4. k.state = "DONE" /\ ~client[c].cut => Len(got) = Len(whole)
        BY <2>2, <2>3, <3>2, <4>1
      <4> QED BY <2>2, <2>3, <4>1, <4>3, <4>4
    <3> QED BY <3>1, <3>2
  <2> HIDE DEF got, whole, k
  <2>5. \A i \in 1..Len(got) : whole[i] \in Cell
    BY <2>2, <2>4, ElementOfSeq
  <2>6. got = SubSeq(whole, 1, Len(got))
    <3> DEFINE n == Len(got)
               s == SubSeq(whole, 1, n)
    <3>1. 1 \in Int /\ n \in Int
      BY <2>2
    <3>2. /\ s \in Seq(Cell) /\ Len(s) = IF 1 <= n THEN n - 1 + 1 ELSE 0
          /\ \A i \in 1 .. n - 1 + 1 : s[i] = whole[1 + i - 1]
      BY <2>5, <3>1, SubSeqProperties
    <3>3. n - 1 + 1 = n /\ (~(1 <= n) => n = 0) /\ \A i \in 1..n : 1 + i - 1 = i
      BY <2>2
    <3> HIDE DEF s
    <3>4. s \in Seq(Cell) /\ Len(s) = n /\ \A i \in 1..n : s[i] = whole[i]
      BY <3>2, <3>3
    <3>5. got = s
      <4>1. got \in Seq(Cell) /\ s \in Seq(Cell) /\ Len(got) = Len(s)
        BY <2>2, <3>4
      <4>2. \A i \in 1..Len(got) : got[i] = s[i]
        BY <2>4, <3>4
      <4> HIDE DEF n
      <4> QED BY <4>1, <4>2, SeqEqual
    <3> QED BY <3>5 DEF s
  <2>7. Len(got) = Len(whole) => got = whole
    BY <2>2, <2>4, SeqEqual
  <2> QED BY <2>4, <2>6, <2>7 DEF got, whole, k
<1> QED BY <1>1, HttpIsRight, PTL

(* Content-Length and Content-Encoding are those of the reply that is    *)
(* sent, for pages of any length, compressed to any length or not at     *)
(* all.                                                                  *)
THEOREM HttpHeaderFitsReply == Spec => []HeaderFitsReply
<1>1. HttpInv => HeaderFitsReply
  <2> SUFFICES ASSUME HttpInv, NEW c \in Open, conn[c].header # <<>>
               PROVE  /\ conn[c].header[1].length = Len(conn[c].reply)
                      /\ \A i \in 1..Len(conn[c].reply) :
                           conn[c].reply[i].encoding = conn[c].header[1].encoding
    BY DEF HeaderFitsReply
  <2>1. conn[c].header \in Seq(Cell) /\ Announced(conn[c])
    BY DEF HttpInv, ConnInv, Fits, ConnType
  <2>2. Len(conn[c].header) > 0
    BY <2>1, EmptySeq
  <2> QED BY <2>1, <2>2 DEF Announced
<1> QED BY <1>1, HttpIsRight, PTL
=============================================================================
