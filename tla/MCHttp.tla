------------------------------- MODULE MCHttp -------------------------------
(* Http for TLC.                                                           *)
EXTENDS Http

Req(m, u, z, s) == [method |-> m, uri |-> u, gzip |-> z, cells |-> s]

(* A page; and a HEAD, answered compressed or not, with more behind its    *)
(* blank line: too long unless the blank line ends what is received.       *)
MCRequests ==
  {Req("GET", "page", FALSE, <<"x", "end">>),
   Req("HEAD", "page", TRUE, <<"x", "end", "x">>)}
=============================================================================
