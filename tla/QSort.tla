------------------------------- MODULE QSort -------------------------------
(***************************************************************************)
(* The partial quicksort of hosts_sort.c.  It puts the larger values       *)
(* first, and leaves out the parts of the array that the caller will not   *)
(* read: hashtable_reduce reads one element, a page reads one screenful.   *)
(*                                                                         *)
(* An array is a function on 0..N-1 to the values that cmp compares: the   *)
(* totals of the buckets, or their in, out or last_seen_mono.  A pointer   *)
(* is an index.                                                            *)
(***************************************************************************)
EXTENDS Naturals, FiniteSets, FiniteSetsExt

CONSTANTS
  SmallSort,    \* 7: fewer elements are sorted by insertion
  BigSort,      \* 40: of more than that, the median is taken of nine
  PageEntries,  \* MAX_ENTRIES, the rows of a page
  SortLens,     \* bound: the lengths of the arrays tried
  SortValues    \* bound: the values in them

ASSUME SortAssumption ==
  /\ {SmallSort, BigSort, PageEntries} \subseteq Nat \ {0}
  /\ SortLens \subseteq Nat /\ SortValues \subseteq Nat

(* cmp is positive: x belongs after y.                                     *)
After(x, y) == x < y

swap(A, i, j) == [A EXCEPT ![i] = A[j], ![j] = A[i]]

(* Exchange the n elements at i with those at j.                           *)
vecswap(A, i, j, n) ==
  [x \in DOMAIN A |-> CASE x \in i .. i + n - 1 -> A[x - i + j]
                        [] x \in j .. j + n - 1 -> A[x - j + i]
                        [] OTHER -> A[x]]

(* The index, of the three, of the median.                                 *)
med3(A, a, b, c) ==
  IF After(A[b], A[a])
  THEN IF After(A[c], A[b]) THEN b ELSE IF After(A[c], A[a]) THEN c ELSE a
  ELSE IF After(A[b], A[c]) THEN b ELSE IF After(A[c], A[a]) THEN a ELSE c

(* The insertion sort of the n elements at a: pm is the next to place, pl  *)
(* is where it has sunk to.                                                *)
RECURSIVE sink(_, _, _)
sink(A, a, pl) ==
  IF pl > a /\ After(A[pl - 1], A[pl])
  THEN sink(swap(A, pl, pl - 1), a, pl - 1)
  ELSE A

RECURSIVE insertion_sort(_, _, _, _)
insertion_sort(A, a, n, pm) ==
  IF pm < a + n THEN insertion_sort(sink(A, a, pm), a, n, pm + 1) ELSE A

(* The index of the element to partition by.                               *)
pivot(A, a, n) ==
  LET d == n \div 8
      h == a + n \div 2
      z == a + n - 1
  IN  CASE n <= SmallSort -> h
        [] n > SmallSort /\ n <= BigSort -> med3(A, a, h, z)
        [] OTHER -> med3(A, med3(A, a, a + d, a + 2 * d),
                            med3(A, h - d, h, h + d),
                            med3(A, z - 2 * d, z - d, z))

(* The two inner loops of the partition of s.A by the element at a.  What  *)
(* equals it is gathered at both ends, before pa and after pd.             *)
RECURSIVE go_up(_, _)
go_up(s, a) ==
  CASE s.pb > s.pc \/ After(s.A[s.pb], s.A[a]) -> s
    [] s.pb <= s.pc /\ s.A[s.pb] = s.A[a] ->
         go_up([s EXCEPT !.A = swap(s.A, s.pa, s.pb), !.pa = @ + 1,
                         !.pb = @ + 1, !.swap_cnt = 1], a)
    [] OTHER -> go_up([s EXCEPT !.pb = @ + 1], a)

RECURSIVE go_down(_, _)
go_down(s, a) ==
  CASE s.pb > s.pc \/ After(s.A[a], s.A[s.pc]) -> s
    [] s.pb <= s.pc /\ s.A[s.pc] = s.A[a] ->
         go_down([s EXCEPT !.A = swap(s.A, s.pc, s.pd), !.pd = @ - 1,
                           !.pc = @ - 1, !.swap_cnt = 1], a)
    [] OTHER -> go_down([s EXCEPT !.pc = @ - 1], a)

RECURSIVE partition(_, _)
partition(s, a) ==
  LET t == go_down(go_up(s, a), a)
  IN  IF t.pb > t.pc THEN t
      ELSE partition([t EXCEPT !.A = swap(t.A, t.pb, t.pc), !.pb = @ + 1,
                               !.pc = @ - 1, !.swap_cnt = 1], a)

(* As right_wanted, but for callers that do not read index right.          *)
right_wantedBefore(n, r, right) == r > 1 /\ n - r < right

(* Is any of the r elements before, or after, the middle to be read?       *)
left_wanted(r, left) == r > 1 /\ r >= left

right_wanted(n, r, right) == r > 1 /\ n - r <= right

(* Sort the n elements at a, as far as they are to be read.  The second    *)
(* part is sorted by going round the loop again.                           *)
RECURSIVE qsort_buckets(_, _, _, _, _)
qsort_buckets(A, a, n, left, right) ==
  IF n < SmallSort THEN insertion_sort(A, a, n, a + 1)
  ELSE LET p == partition([A |-> swap(A, a, pivot(A, a, n)), pa |-> a + 1,
                           pb |-> a + 1, pc |-> a + n - 1,
                           pd |-> a + n - 1, swap_cnt |-> 0], a)
           pn == a + n
           r1 == Min({p.pa - a, p.pb - p.pa})
           r2 == Min({p.pd - p.pc, pn - p.pd - 1})
           B  == vecswap(vecswap(p.A, a, p.pb - r1, r1), p.pb, pn - r2, r2)
           l  == p.pb - p.pa
           r  == p.pd - p.pc
           C  == IF left_wanted(l, left)
                 THEN qsort_buckets(B, a, l, left, right) ELSE B
       IN  IF p.swap_cnt = 0 THEN insertion_sort(p.A, a, n, a + 1)
           ELSE IF right_wanted(n, r, right)
           THEN qsort_buckets(C, a + n - r, r,
                              IF n - r > left THEN 0 ELSE left - (n - r),
                              right - (n - r))
           ELSE C

----------------------------------------------------------------------------
(* The calls for an array of n elements: of hashtable_reduce, whatever     *)
(* count_keep is, and of a page or a full listing.                         *)
Calls(n) ==
  {<<0, keep>> : keep \in 0 .. n - 1} \cup {<<0, n>>} \cup
  {<<start, Min({n, start + PageEntries})>> : start \in 0 .. n}

(* What is at index i once an array is sorted: at most i elements are      *)
(* larger, and more than i are at least as large.                          *)
Ranks(A, i, v) ==
  /\ Cardinality({j \in DOMAIN A : A[j] > v}) <= i
  /\ Cardinality({j \in DOMAIN A : A[j] >= v}) > i

Times(A, v) == Cardinality({j \in DOMAIN A : A[j] = v})

(* The partial sort loses no bucket and duplicates none, and every element *)
(* from left up to and including right is the one that a full sort would   *)
(* put there.                                                              *)
SortsRight ==
  \A n \in SortLens : \A A \in [0 .. n - 1 -> SortValues] :
    \A call \in Calls(n) :
      LET R == qsort_buckets(A, 0, n, call[1], call[2])
      IN  /\ \A v \in SortValues : Times(R, v) = Times(A, v)
          /\ \A i \in DOMAIN A \cap (call[1] .. call[2]) : Ranks(A, i, R[i])
=============================================================================
