---------------------------- MODULE GraphWindow ----------------------------
(***************************************************************************)
(* What the graphs promise: each is a sliding window over the most recent  *)
(* NumBars[g] units of BarSecs[g] seconds, newest first.  Traffic counts   *)
(* for the newest unit.  When the clock moves forward the window slides by *)
(* the units that began, which had no traffic; when it is set back nothing *)
(* moves, only the labels do.                                              *)
(***************************************************************************)
EXTENDS Integers

CONSTANTS Graph, NumBars, BarSecs, Dir, Time, MaxBytes

VARIABLES window,   \* window[d][g][k]: bytes, k units ago
          last,     \* the real time it is for, or 0
          saved     \* the window of the last export and its time

Amount == 0..MaxBytes
Quiet == [d \in Dir |-> [g \in Graph |-> [k \in 0..NumBars[g]-1 |-> 0]]]

Units(g, t) == t \div BarSecs[g]

Slide(w, g, n) ==
  [k \in 0..NumBars[g]-1 |-> IF k < n THEN 0 ELSE w[k - n]]

Init == window = Quiet /\ last = 0 /\ saved = [window |-> Quiet, last |-> 0]

Account(d, n) ==
  /\ window' = [window EXCEPT ![d] = [g \in Graph |->
                   [window[d][g] EXCEPT ![0] = @ + n]]]
  /\ UNCHANGED <<last, saved>>

SetClock(t) ==
  /\ last' = t
  /\ window' = IF last = 0 \/ t <= last THEN window
               ELSE [d \in Dir |-> [g \in Graph |->
                      Slide(window[d][g], g, Units(g, t) - Units(g, last))]]
  /\ UNCHANGED saved

Reset == window' = Quiet /\ last' = 0 /\ UNCHANGED saved

Export == saved' = [window |-> window, last |-> last] /\ UNCHANGED <<window, last>>

Import == window' = saved.window /\ last' = saved.last /\ UNCHANGED saved

Next ==
  \/ \E d \in Dir, n \in Amount : Account(d, n)
  \/ \E t \in Time : SetClock(t)
  \/ Reset \/ Export \/ Import

Spec == Init /\ [][Next]_<<window, last, saved>>
=============================================================================
