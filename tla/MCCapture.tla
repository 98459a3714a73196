----------------------------- MODULE MCCapture -----------------------------
(* Capture for TLC, with Decode for every frame of up to 130 bytes.        *)
EXTENDS Capture

CONSTANTS a, b, r    \* two addresses that interfaces have, and one elsewhere

tcp == [link |-> "IP", session |-> "none", version |-> 4, proto |-> "TCP"]
MCPacket == {[src |-> a, dst |-> r, headers |-> tcp, len |-> 60],
             [src |-> r, dst |-> b, headers |-> tcp, len |-> 120]}
MCAddrLists == {<<>>, <<a>>, <<b, a>>}
MClinktype == <<"EN10MB", "LINUX_SLL">>
MCunset == -1
MCLength == 0..130
=============================================================================
