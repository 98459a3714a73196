------------------------------ MODULE MCDbFile ------------------------------
(* DbFile for TLC.  A host that the old file has may get all the TCP ports *)
(* there are; its other packets are not decoded.                           *)
EXTENDS DbFile

MCTraffic == {<<"a", "tcp", 0>>, <<"a", "tcp", 2>>, <<"a", "ip", 1>>}
=============================================================================
