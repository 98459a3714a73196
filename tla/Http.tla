-------------------------------- MODULE Http --------------------------------
(***************************************************************************)
(* The web server (http.c): one process serves all its connections from    *)
(* the main loop, without ever waiting for one of them.  Each turn of the  *)
(* loop http_fd_set throws out the connections that are finished or have   *)
(* been idle for too long and says what select should wait for; http_poll  *)
(* then takes one step of each connection that is ready.  Requests come in *)
(* any number of pieces and replies go out in any number of pieces.        *)
(*                                                                         *)
(* A request is a sequence of cells, some bytes each: "end" is the blank   *)
(* line (\r\n\r\n) and "x" anything else that is not.                      *)
(***************************************************************************)
EXTENDS Naturals, Sequences

CONSTANTS
  Conn,                \* file descriptors of connections
  Requests,            \* what clients send: [method, uri, gzip, cells]
  HeaderLen,           \* cells of a header
  PageLen,             \* cells of a page, before compression
  MAX_REQUEST_LENGTH,  \* in cells
  idletime,            \* in seconds
  linux,               \* there cap_fd_set has given select a short timeout
  NoTimeout, NoConn    \* "wait for ever" and "not connected"

Methods == {"GET", "HEAD", "POST", "none"}     \* "none": cannot be parsed
Uris    == {"page", "missing", "unsafe"}

ASSUME HttpAssumption ==
  /\ \A r \in Requests : /\ r.method \in Methods /\ r.uri \in Uris
                         /\ r.gzip \in BOOLEAN
                         /\ r.cells \in Seq({"x", "end"})
  /\ HeaderLen \in Nat \ {0} /\ PageLen \in Nat \ {0}
  /\ MAX_REQUEST_LENGTH \in Nat \ {0} /\ idletime \in Nat \ {0}
  /\ linux \in BOOLEAN
  /\ NoTimeout \notin Nat

VARIABLES
  phase,       \* where the main loop is
  conn,        \* conn[c]: the struct connection in connlist, or NoConn
  todo,        \* the connections http_poll has yet to take a step of
  recv_set, send_set, timeout,   \* select's arguments, local to the loop
  elapsed,     \* seconds since the clock was last read
  client       \* client[c]: the other end of the connection, or NoConn

loopVars == <<todo, recv_set, send_set, timeout>>
vars == <<loopVars, phase, conn, elapsed, client>>

Last(s)  == s[Len(s)]
Elements(s) == {s[i] : i \in 1..Len(s)}

(***************************************************************************)
(* The reply to a request.                                                 *)
(***************************************************************************)
Body(code, encoding, len) ==
  [i \in 1..len |-> [code |-> code, encoding |-> encoding, part |-> i]]

(* Headers announce the length and encoding of the reply.                  *)
generate_header(code, encoding, reply_length) ==
  [i \in 1..HeaderLen |-> [code |-> code, encoding |-> encoding,
                           length |-> reply_length, part |-> i]]

Answer(code, encoding, len) ==
  [header |-> generate_header(code, encoding, len),
   reply  |-> Body(code, encoding, len)]

default_reply(code) == Answer(code, "identity", 1)

(* As process_gzip, but after the header was generated.                    *)
process_gzipLate(code, gzip) ==
  {Answer(code, "identity", PageLen)}
    \cup {[Answer(code, "identity", PageLen) EXCEPT !.reply = Body(code, "gzip", n)] :
            n \in {m \in 1..PageLen : gzip}}

(* The page as it is, or compressed, if that is asked for and makes it no  *)
(* longer.                                                                 *)
process_gzip(code, gzip) ==
  {Answer(code, "identity", PageLen)}
    \cup {Answer(code, "gzip", n) : n \in {m \in 1..PageLen : gzip}}

process_get(r) ==
  IF r.uri = "unsafe" THEN {default_reply(400)}
  ELSE IF r.uri = "missing" THEN {default_reply(404)}
  ELSE process_gzip(200, r.gzip)

(* parse_request and the choice by method.                                 *)
process_request(r) ==
  IF r.method = "none" THEN {default_reply(400)}
  ELSE IF r.method \in {"GET", "HEAD"} THEN process_get(r)
  ELSE {default_reply(501)}

(***************************************************************************)
(* A connection and its client.                                            *)
(***************************************************************************)
new_connection ==
  [state |-> "RECV_REQUEST", request |-> <<>>, header_only |-> FALSE,
   header |-> <<>>, header_sent |-> 0, reply |-> <<>>, reply_sent |-> 0,
   idle |-> 0]   \* now_mono() - last_active_mono, up to idletime

new_client(r) ==
  [request |-> r, coming |-> r.cells, inbox |-> <<>>,
   got |-> <<>>, cut |-> FALSE]

Open == {c \in Conn : conn[c] # NoConn}

Init ==
  /\ phase = "fd_set"
  /\ todo = {}
  /\ conn = [c \in Conn |-> NoConn]
  /\ recv_set = {} /\ send_set = {} /\ timeout = NoTimeout
  /\ elapsed = 0
  /\ client = [c \in Conn |-> NoConn]

(* A connection that is still being read from; what comes later is not.    *)
Receiving == {c \in Open : /\ conn[c].state = "RECV_REQUEST"
                           /\ "eof" \notin Elements(client[c].inbox)}

(* A piece of the request arrives.                                         *)
arrive(c) ==
  /\ c \in Receiving /\ client[c].coming # <<>>
  /\ client' = [client EXCEPT ![c].inbox = Append(@, Head(client[c].coming)),
                              ![c].coming = Tail(@)]
  /\ UNCHANGED <<loopVars, phase, conn, elapsed>>

(* The client closes or resets the connection: no more will come.          *)
hang_up(c) ==
  /\ c \in Receiving
  /\ client' = [client EXCEPT ![c].inbox = Append(@, "eof"),
                              ![c].coming = <<>>]
  /\ UNCHANGED <<loopVars, phase, conn, elapsed>>

(* A second goes by, in select or anywhere since the clock was last read;  *)
(* no one asks for more than idletime of them.                             *)
tick ==
  /\ phase = "select" /\ elapsed < idletime
  /\ elapsed' = elapsed + 1
  /\ UNCHANGED <<loopVars, phase, conn, client>>

(***************************************************************************)
(* The main loop: http_fd_set, select, http_poll.                          *)
(***************************************************************************)
Smallest(S) == CHOOSE n \in S : \A m \in S : n <= m

idle_out(c) == conn[c].idle >= idletime

(* The shortest time before one of the connections in S has been idle for  *)
(* too long; more than idletime if there are none.                         *)
minidle(S) == Smallest({idletime + 1} \cup {idletime - conn[c].idle : c \in S})

(* Free all connections but those in live, which select is to watch for    *)
(* what they are waiting for.                                              *)
Watch(live) ==
  /\ phase = "fd_set"
  /\ conn' = [c \in Conn |-> IF c \in live THEN conn[c] ELSE NoConn]
  /\ client' = [c \in Conn |-> IF c \in live THEN client[c] ELSE NoConn]
  /\ recv_set' = {c \in live : conn[c].state = "RECV_REQUEST"}
  /\ send_set' = live \ recv_set'
  /\ phase' = "select"
  /\ UNCHANGED <<todo, elapsed>>

WaitFor(secs) ==
  timeout' = IF linux THEN 0 ELSE IF secs <= idletime THEN secs ELSE NoTimeout

(* As http_fd_set, but only a connection that is receiving times out.      *)
http_fd_setRecvOnly ==
  LET live == {c \in Open : /\ conn[c].state # "DONE"
                            /\ conn[c].state = "RECV_REQUEST" => ~idle_out(c)}
  IN  Watch(live) /\ WaitFor(minidle(live))

(* Free the finished and the idle connections; watch the others, and if    *)
(* the capture has no timeout, wake up in time for the next one to go.     *)
http_fd_set ==
  LET live == {c \in Open : conn[c].state # "DONE" /\ ~idle_out(c)}
  IN  Watch(live) /\ WaitFor(minidle(live))

now_update ==
  /\ conn' = [c \in Conn |->
       IF c \notin Open THEN NoConn
       ELSE [conn[c] EXCEPT !.idle = IF @ + elapsed < idletime
                                     THEN @ + elapsed ELSE idletime]]
  /\ elapsed' = 0

readable == {c \in recv_set : client[c].inbox # <<>>}

(* select returns what is ready: W is the sockets with room.  It may also  *)
(* be woken by a packet or by a new connection.                            *)
select_returns(W) ==
  /\ phase = "select"
  /\ recv_set' = readable /\ send_set' = W /\ timeout' = NoTimeout
  /\ now_update
  /\ phase' = "http_poll"
  /\ UNCHANGED <<todo, client>>

(* A signal: EINTR, or an "export before reset" after select returned.     *)
interrupted ==
  /\ phase = "select"
  /\ now_update \/ UNCHANGED <<conn, elapsed>>
  /\ phase' = "fd_set"
  /\ recv_set' = {} /\ send_set' = {} /\ timeout' = NoTimeout
  /\ UNCHANGED <<todo, client>>

(* http_poll goes through the connections and takes a step of those that   *)
(* are ready for what they are at.  One that is finished is "invalid       *)
(* state", and the end of the program.                                     *)
PollAll ==
  LET open  == {c \in Conn : conn'[c] # NoConn}
      ready == {c \in open : c \in IF conn'[c].state = "RECV_REQUEST"
                                    THEN recv_set ELSE send_set}
  IN  /\ todo' = ready
      /\ phase' = IF \E c \in open : conn'[c].state = "DONE" THEN "invalid state"
                  ELSE IF ready = {} THEN "fd_set" ELSE "poll"
      /\ recv_set' = {} /\ send_set' = {}
      /\ UNCHANGED <<timeout, elapsed>>

(* http_poll accepts a connection first, which it then goes through too.   *)
accept_connection(c, r) ==
  /\ phase = "http_poll"
  /\ c \notin Open
  /\ conn' = [conn EXCEPT ![c] = new_connection]
  /\ client' = [client EXCEPT ![c] = new_client(r)]
  /\ PollAll

(* Nothing to accept, or it was aborted.                                   *)
accept_nothing ==
  /\ phase = "http_poll"
  /\ UNCHANGED <<conn, client>>
  /\ PollAll

(* The next connection that is ready takes its step.  They do not affect   *)
(* each other, so their order is of no interest.                           *)
Visit(c, state) ==
  /\ phase = "poll" /\ c = CHOOSE d \in todo : TRUE
  /\ conn[c].state = state
  /\ todo' = todo \ {c}
  /\ phase' = IF todo' = {} THEN "fd_set" ELSE "poll"
  /\ UNCHANGED <<recv_set, send_set, timeout, elapsed>>

(* recv or send failed, or the client closed the connection.               *)
Fail(c) ==
  /\ conn' = [conn EXCEPT ![c].state = "DONE"]
  /\ client' = [client EXCEPT ![c].cut = TRUE]

(* The header and reply a for connection c, whose request is complete.     *)
Prepared(c, req, a, state) ==
  [conn[c] EXCEPT !.idle = 0, !.request = req, !.header = a.header,
                  !.reply = a.reply, !.state = state]

(* What becomes of connection c when its request has grown to req.         *)
after_recv(c, req) ==
  LET r == client[c].request
  IN  IF Len(req) > MAX_REQUEST_LENGTH
      THEN {Prepared(c, req, default_reply(413), "SEND_HEADER")}
      ELSE IF Len(req) > 1 /\ Last(req) = "end"
      THEN {[Prepared(c, <<>>, a, IF r.method = "HEAD" THEN "SEND_HEADER"
                                  ELSE "SEND_HEADER_AND_REPLY")
               EXCEPT !.header_only = (r.method = "HEAD")] :
              a \in process_request(r)}
      ELSE {[conn[c] EXCEPT !.idle = 0, !.request = req]}

(* recv takes all that is there; or it fails, or says end of file.         *)
poll_recv_request(c) ==
  /\ Visit(c, "RECV_REQUEST")
  /\ LET recvd == SelectSeq(client[c].inbox, LAMBDA x : x # "eof")
     IN  \/ Fail(c)
         \/ /\ recvd # <<>>
            /\ \E k \in after_recv(c, conn[c].request \o recvd) :
                 conn' = [conn EXCEPT ![c] = k]
            /\ client' = [client EXCEPT ![c].inbox =
                            SubSeq(@, Len(recvd) + 1, Len(@))]

(* The client is sent the cells of s from the one after at on, n of them.  *)
Send(c, s, at, n) ==
  client' = [client EXCEPT ![c].got = @ \o SubSeq(s, at + 1, at + n)]

(* As poll_send_header_and_reply, but the header's length is not taken off *)
(* what was sent.                                                          *)
poll_send_header_and_replyMiscounts(c) ==
  /\ Visit(c, "SEND_HEADER_AND_REPLY")
  /\ LET k == conn[c]
     IN  \/ Fail(c)
         \/ \E sent \in 1 .. Len(k.header) + Len(k.reply) :
              /\ Send(c, k.header \o k.reply, 0, sent)
              /\ conn' = [conn EXCEPT ![c] =
                   IF sent < Len(k.header)
                   THEN [k EXCEPT !.idle = 0, !.header_sent = sent,
                                  !.state = "SEND_HEADER"]
                   ELSE [k EXCEPT !.idle = 0, !.header_sent = Len(k.header),
                                  !.reply_sent = sent,
                                  !.state = IF sent < Len(k.reply)
                                            THEN "SEND_REPLY" ELSE "DONE"]]

(* writev of the header and the reply, any part of which may be taken.     *)
poll_send_header_and_reply(c) ==
  /\ Visit(c, "SEND_HEADER_AND_REPLY")
  /\ LET k == conn[c]
     IN  \/ Fail(c)
         \/ \E sent \in 1 .. Len(k.header) + Len(k.reply) :
              /\ Send(c, k.header \o k.reply, 0, sent)
              /\ conn' = [conn EXCEPT ![c] =
                   IF sent < Len(k.header)
                   THEN [k EXCEPT !.idle = 0, !.header_sent = sent,
                                  !.state = "SEND_HEADER"]
                   ELSE LET rest == sent - Len(k.header)
                        IN  [k EXCEPT !.idle = 0, !.header_sent = Len(k.header),
                                      !.reply_sent = rest,
                                      !.state = IF rest < Len(k.reply)
                                                THEN "SEND_REPLY" ELSE "DONE"]]

(* As poll_send_header, but done with the header when there is no more of  *)
(* it to send on the next call.                                            *)
poll_send_headerLate(c) ==
  /\ Visit(c, "SEND_HEADER")
  /\ LET k == conn[c]
     IN  \/ Fail(c)
         \/ \E sent \in 1 .. Len(k.header) - k.header_sent :
              /\ Send(c, k.header, k.header_sent, sent)
              /\ conn' = [conn EXCEPT ![c] =
                   [k EXCEPT !.idle = 0, !.header_sent = @ + sent,
                             !.state = IF k.header_sent < Len(k.header)
                                       THEN @ ELSE IF k.header_only
                                       THEN "DONE" ELSE "SEND_REPLY"]]

poll_send_header(c) ==
  /\ Visit(c, "SEND_HEADER")
  /\ LET k == conn[c]
     IN  \/ Fail(c)
         \/ \E sent \in 1 .. Len(k.header) - k.header_sent :
              /\ Send(c, k.header, k.header_sent, sent)
              /\ conn' = [conn EXCEPT ![c] =
                   [k EXCEPT !.idle = 0, !.header_sent = @ + sent,
                             !.state = IF k.header_sent + sent < Len(k.header)
                                       THEN @ ELSE IF k.header_only
                                       THEN "DONE" ELSE "SEND_REPLY"]]

poll_send_reply(c) ==
  /\ Visit(c, "SEND_REPLY")
  /\ LET k == conn[c]
     IN  \/ Fail(c)
         \/ \E sent \in 1 .. Len(k.reply) - k.reply_sent :
              /\ Send(c, k.reply, k.reply_sent, sent)
              /\ conn' = [conn EXCEPT ![c] =
                   [k EXCEPT !.idle = 0, !.reply_sent = @ + sent,
                             !.state = IF k.reply_sent + sent < Len(k.reply)
                                       THEN @ ELSE "DONE"]]

(* The end of the process: http_stop on shutdown, or accept failed and     *)
(* err() was called.                                                       *)
Exit ==
  /\ phase' = "exited"
  /\ todo' = {}
  /\ conn' = [c \in Conn |-> NoConn] /\ client' = [c \in Conn |-> NoConn]
  /\ recv_set' = {} /\ send_set' = {}
  /\ UNCHANGED <<timeout, elapsed>>

http_stop == phase = "fd_set" /\ Exit

accept_err == phase = "http_poll" /\ Exit

Terminated == phase = "exited" /\ UNCHANGED vars

Poll == \E c \in Conn : \/ poll_recv_request(c)
                        \/ poll_send_header_and_reply(c)
                        \/ poll_send_header(c) \/ poll_send_reply(c)

Next ==
  \/ \E c \in Conn : arrive(c) \/ hang_up(c)
  \/ tick
  \/ http_fd_set
  \/ \E W \in SUBSET send_set : select_returns(W)
  \/ interrupted
  \/ \E c \in Conn, r \in Requests : accept_connection(c, r)
  \/ accept_nothing \/ accept_err
  \/ \E c \in Conn : poll_recv_request(c)
  \/ \E c \in Conn : poll_send_header_and_reply(c)
  \/ \E c \in Conn : poll_send_header(c)
  \/ \E c \in Conn : poll_send_reply(c)
  \/ http_stop
  \/ Terminated

Spec == Init /\ [][Next]_vars

(***************************************************************************)
(* Time passes, in however many short waits; what is runnable runs; select *)
(* returns when a request is there to be read or its timeout is over, and  *)
(* is not interrupted for ever.  Nothing is assumed of clients, packets or *)
(* new connections.                                                        *)
(***************************************************************************)
Due == readable # {} \/ (timeout # NoTimeout /\ elapsed >= timeout)

Turn == http_fd_set \/ accept_nothing \/ Poll

FairSpec ==
  /\ Spec
  /\ SF_vars(tick) /\ WF_vars(Turn)
  /\ SF_vars(Due /\ \E W \in SUBSET send_set : select_returns(W))

----------------------------------------------------------------------------
(* http_poll never meets a finished connection, which would be fatal: all  *)
(* of them went in http_fd_set, and each is visited once per turn.  The    *)
(* assertions of poll_send_header_and_reply hold; and send is never asked  *)
(* to send nothing, whose result would be taken for a closed connection.   *)
PollIsSafe ==
  /\ phase # "invalid state"
  /\ \A c \in Open :
       LET k == conn[c]
       IN  CASE k.state = "SEND_HEADER_AND_REPLY" ->
                  ~k.header_only /\ k.header_sent = 0 /\ k.reply_sent = 0
                    /\ Len(k.reply) > 0
             [] k.state = "SEND_HEADER" -> k.header_sent < Len(k.header)
             [] k.state = "SEND_REPLY" ->
                  ~k.header_only /\ k.header_sent = Len(k.header)
                    /\ k.reply_sent < Len(k.reply)
             [] OTHER -> TRUE

(* All that the client is to get.                                          *)
Response(k) == k.header \o IF k.header_only THEN <<>> ELSE k.reply

(* However the reply was cut up by writev and send, the client has got a   *)
(* prefix of the header and the reply; all of it if nothing went wrong.    *)
ClientGetsPrefix ==
  \A c \in Open :
    LET whole == Response(conn[c])
        got   == client[c].got
    IN  /\ Len(got) <= Len(whole)
        /\ got = SubSeq(whole, 1, Len(got))
        /\ conn[c].state = "DONE" /\ ~client[c].cut => got = whole

(* Content-Length and Content-Encoding are those of the reply that is      *)
(* sent, compressed or not.                                                *)
HeaderFitsReply ==
  \A c \in Open :
    LET k == conn[c]
    IN  k.header # <<>> => /\ k.header[1].length = Len(k.reply)
                           /\ \A i \in 1..Len(k.reply) :
                                k.reply[i].encoding = k.header[1].encoding

(* Every connection ends, whatever its client does or fails to do: the     *)
(* idle timeout wakes select up in time, and each step makes progress.     *)
ConnectionsEnd == \A c \in Conn : c \in Open ~> c \notin Open
=============================================================================
