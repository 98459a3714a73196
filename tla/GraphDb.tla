------------------------------ MODULE GraphDb ------------------------------
(***************************************************************************)
(* The traffic graphs (graph_db.c): for each graph a ring of bars, one per *)
(* second, minute, hour or day, and the position of the current one.  The  *)
(* position is always the second, minute, hour or day that localtime gives *)
(* for the real time last seen, so the ring is moved along as the clock    *)
(* runs, jumps forward or is set back, and across a restart that imports   *)
(* an exported database.                                                   *)
(***************************************************************************)
EXTENDS Integers

CONSTANTS
  Graph,         \* graph_secs, graph_mins, graph_hrs, graph_days
  NumBars,       \* num_bars of each
  BarSecs,       \* bar_secs of each
  Dir,           \* GRAPH_IN, GRAPH_OUT
  Time,          \* real times, in seconds; 0 stands for "not set"
  MaxBytes,      \* bound on the bytes of one bar
  AllowLongGaps  \* may a forward gap be one that LongGap describes?

ASSUME GraphAssumption ==
  /\ NumBars \in [Graph -> Nat \ {0}]
  /\ BarSecs \in [Graph -> Nat \ {0}]
  /\ Time \subseteq Nat \ {0}
  /\ MaxBytes \in Nat
  /\ AllowLongGaps \in BOOLEAN

VARIABLES
  bars,              \* bars[d][g][i]: the in and out arrays
  pos,               \* the current bar of each graph
  last_real,         \* the real time of the last rotation, 0 before the first
  file,              \* the graph part of the exported database
  phase              \* "fresh" until the first graph_rotate after a start or
                     \* a reset, then "live"

vars == <<bars, pos, last_real, file, phase>>

Bars(g) == 0..NumBars[g]-1
NoBars  == [d \in Dir |-> [g \in Graph |-> [i \in Bars(g) |-> 0]]]

(* localtime's tm_sec, tm_min, ... in a time zone of constant offset and   *)
(* without leap seconds.                                                   *)
localtime(g, t) == (t \div BarSecs[g]) % NumBars[g]

Init ==
  /\ bars = NoBars
  /\ pos = [g \in Graph |-> 0]
  /\ last_real = 0
  /\ file = [bars |-> bars, pos |-> pos, last_real |-> 0]
  /\ phase = "fresh"

(* Traffic goes to the current bar of every graph.  cap_poll comes after   *)
(* graph_rotate in the main loop.                                          *)
graph_acct(d, n) ==
  /\ phase = "live"
  /\ \A g \in Graph : bars[d][g][pos[g]] + n <= MaxBytes
  /\ bars' = [bars EXCEPT ![d] = [g \in Graph |->
                [bars[d][g] EXCEPT ![pos[g]] = @ + n]]]
  /\ UNCHANGED <<pos, last_real, file, phase>>

(* The bars advance visits, from the one after pos up to the new position; *)
(* none if it is already there.                                            *)
Visited(g, new) ==
  {i \in Bars(g) : 0 < (i - pos[g]) % NumBars[g]
                   /\ (i - pos[g]) % NumBars[g] <= (new - pos[g]) % NumBars[g]}

(* As advance, but the bar that becomes current is not emptied.            *)
advanceKeepsNew(b, g, new) ==
  [i \in Bars(g) |-> IF i \in Visited(g, new) \ {new} THEN 0 ELSE b[i]]

advance(b, g, new) ==
  [i \in Bars(g) |-> IF i \in Visited(g, new) THEN 0 ELSE b[i]]

(* All bars move so that the one at pos lands on the new position.         *)
rotate(b, g, new) ==
  [i \in Bars(g) |-> b[(i - (new - pos[g])) % NumBars[g]]]

(* graph_rotate's test for a graph that was completely rotated through.    *)
rotated_through(g, td) == td >= NumBars[g] * BarSecs[g]

(* A gap short enough for graph_rotate to keep graph g, and yet long       *)
(* enough for localtime to come round to the same bar.                     *)
LongGap(t) ==
  \E g \in Graph :
    /\ ~rotated_through(g, t - last_real)
    /\ (t \div BarSecs[g]) - (last_real \div BarSecs[g]) >= NumBars[g]

MoveTo(t) == /\ pos' = [g \in Graph |-> localtime(g, t)]
             /\ last_real' = t

first_rotate(t) ==
  /\ last_real = 0
  /\ MoveTo(t)
  /\ phase' = "live"
  /\ UNCHANGED <<bars, file>>

same_second(t) ==
  /\ last_real # 0 /\ t = last_real
  /\ phase' = "live"
  /\ UNCHANGED <<bars, pos, last_real, file>>

(* The clock went back: shift the display.                                 *)
graph_resync(t) ==
  /\ t < last_real
  /\ bars' = [d \in Dir |-> [g \in Graph |->
                rotate(bars[d][g], g, localtime(g, t))]]
  /\ MoveTo(t)
  /\ phase' = "live"
  /\ UNCHANGED file

rotate_forward(t) ==
  /\ last_real # 0 /\ t > last_real
  /\ AllowLongGaps \/ ~LongGap(t)
  /\ bars' = [d \in Dir |-> [g \in Graph |->
                IF rotated_through(g, t - last_real)
                THEN [i \in Bars(g) |-> 0]
                ELSE advance(bars[d][g], g, localtime(g, t))]]
  /\ MoveTo(t)
  /\ phase' = "live"
  /\ UNCHANGED file

graph_rotate(t) ==
  first_rotate(t) \/ same_second(t) \/ graph_resync(t) \/ rotate_forward(t)

(* The positions stay; the first rotation sets them.                       *)
graph_reset ==
  /\ bars' = NoBars
  /\ last_real' = 0
  /\ phase' = "fresh"
  /\ UNCHANGED <<pos, file>>

(* Upon a signal in the main loop, or on shutdown.                         *)
graph_export ==
  /\ file' = [bars |-> bars, pos |-> pos, last_real |-> last_real]
  /\ UNCHANGED <<bars, pos, last_real, phase>>

(* As graph_import, but the positions in the file are skipped.             *)
graph_importSkipsPos ==
  /\ bars' = file.bars /\ last_real' = file.last_real
  /\ pos' = [g \in Graph |-> 0]
  /\ phase' = "fresh"
  /\ UNCHANGED file

(* The program is started again and imports what it exported.              *)
graph_import ==
  /\ bars' = file.bars
  /\ pos' = file.pos
  /\ last_real' = file.last_real
  /\ phase' = "fresh"
  /\ UNCHANGED file

(* Started again without --import; or the import failed, after it had read *)
(* some of the positions, and db_import reset everything.                  *)
restart_empty ==
  /\ bars' = NoBars
  /\ \E S \in SUBSET Graph :
       pos' = [g \in Graph |-> IF g \in S THEN file.pos[g] ELSE 0]
  /\ last_real' = 0
  /\ phase' = "fresh"
  /\ UNCHANGED file

Next ==
  \/ \E d \in Dir, n \in 1..MaxBytes : graph_acct(d, n)
  \/ \E t \in Time : graph_rotate(t)
  \/ graph_reset \/ graph_export \/ graph_import \/ restart_empty

Spec == Init /\ [][Next]_vars

----------------------------------------------------------------------------
TypeOK ==
  /\ bars \in [Dir -> [Graph -> UNION {[Bars(g) -> 0..MaxBytes] : g \in Graph}]]
  /\ \A d \in Dir, g \in Graph : bars[d][g] \in [Bars(g) -> 0..MaxBytes]
  /\ pos \in [Graph -> Nat] /\ \A g \in Graph : pos[g] \in Bars(g)
  /\ last_real \in Time \cup {0}
  /\ phase \in {"fresh", "live"}

(* graphs.xml labels the bars by position: once the clock has been read,   *)
(* in this run or the one that exported the database, the current position *)
(* is the clock's own second, minute, ..., in memory and in the file.      *)
PosIsLocaltime ==
  /\ last_real # 0 => \A g \in Graph : pos[g] = localtime(g, last_real)
  /\ file.last_real # 0 =>
       \A g \in Graph : file.pos[g] = localtime(g, file.last_real)

(* The bars in the order xml_graphs walks them, backwards from pos.        *)
Window(b, p) ==
  [d \in Dir |-> [g \in Graph |->
     [k \in Bars(g) |-> b[d][g][(p[g] - k) % NumBars[g]]]]]

Abstract == INSTANCE GraphWindow
  WITH window <- Window(bars, pos), last <- last_real,
       saved  <- [window |-> Window(file.bars, file.pos),
                  last |-> file.last_real]

(* The rings implement the sliding windows: advance, rotate, zero_graph    *)
(* and the import move bars and position so that the bar k places before   *)
(* the current one always holds the traffic of k units ago.                *)
ImplementsWindow == Abstract!Spec

(* graph_resync's comment on a clock that is stepped forward: "it's        *)
(* treated as though there was no traffic during that time".  The bars of  *)
(* the units that began since the last rotation are empty.                 *)
ForwardIsQuiet ==
  [][ last_real # 0 /\ last_real' > last_real =>
        \A d \in Dir, g \in Graph : \A k \in Bars(g) :
          k < last_real' \div BarSecs[g] - last_real \div BarSecs[g]
            => Window(bars, pos)'[d][g][k] = 0 ]_vars
=============================================================================
