------------------------------ MODULE TopTable ------------------------------
(***************************************************************************)
(* What a table of hosts, ports or protocols promises: a map from keys to  *)
(* byte totals that counts every byte for its key, except that it may at   *)
(* any time be cut down to at most Keep entries, each of which is larger   *)
(* than everything that goes.                                              *)
(***************************************************************************)
EXTENDS Naturals, FiniteSets

CONSTANTS Key, Keep, Amount

VARIABLE total    \* a function from the keys in the table to their totals

(* The tables that total may be cut down to.                               *)
Reduced ==
  {[k \in S |-> total[k]] :
     S \in {T \in SUBSET DOMAIN total :
              /\ Cardinality(T) <= Keep
              /\ \A k \in T, l \in DOMAIN total \ T : total[k] > total[l]}}

Add(t, k, n) ==
  [l \in DOMAIN t \cup {k} |->
     (IF l \in DOMAIN t THEN t[l] ELSE 0) + (IF l = k THEN n ELSE 0)]

Init == total = [k \in {} |-> 0]

Account(k, n) ==
  \/ total' = Add(total, k, n)
  \/ k \notin DOMAIN total /\ \E t \in Reduced : total' = Add(t, k, n)

Reduce == total' \in Reduced

Reset == total' = [k \in {} |-> 0]

Next == (\E k \in Key, n \in Amount : Account(k, n)) \/ Reduce \/ Reset

Spec == Init /\ [][Next]_total
=============================================================================
