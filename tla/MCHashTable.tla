---------------------------- MODULE MCHashTable ----------------------------
(* HashTable for TLC, with enough keys to double the table twice, and the  *)
(* sort that hashtable_reduce uses.                                        *)
EXTENDS HashTable, QSort

MCKeys == 1..6

(* However long a table is and in whatever order it lists its buckets when *)
(* hashtable_reduce sorts them, index count_keep has the total of rank     *)
(* count_keep, which is the cutoff; and the rows between start and end are *)
(* those that belong on a page (qsort_buckets).                            *)
SortIsRight == count > count_keep => SortsRight
=============================================================================
