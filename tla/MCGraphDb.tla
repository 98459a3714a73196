----------------------------- MODULE MCGraphDb -----------------------------
(* GraphDb for TLC: a graph of 3 bars of a second and one of 2 bars of     *)
(* 3 seconds stand for the seconds, minutes, hours and days.               *)
EXTENDS GraphDb

MCGraph   == {"secs", "mins"}
MCNumBars == [secs |-> 3, mins |-> 2]
MCBarSecs == [secs |-> 1, mins |-> 3]
MCTime    == 1..12
=============================================================================
