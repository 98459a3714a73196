----------------------------- MODULE HashTable -----------------------------
(***************************************************************************)
(* The hash table of hosts_db.c, which holds the hosts, and per host its   *)
(* protocols and ports.  It is an array of chains that doubles when it     *)
(* fills up, which moves every bucket, and which is cut down to its        *)
(* largest buckets when their number reaches a limit.                      *)
(*                                                                         *)
(* The order of the buckets in a chain does not matter to anything, so a   *)
(* chain is a set.                                                         *)
(***************************************************************************)
EXTENDS Naturals, FiniteSets

CONSTANTS
  Key,          \* addresses, port numbers or protocol numbers
  count_max,    \* --hosts-max, --ports-max or PROTOS_MAX
  count_keep,   \* --hosts-keep, --ports-keep or PROTOS_KEEP
  Lens,         \* packet lengths
  MaxTotal      \* bound on a bucket's total

ASSUME TableAssumption ==
  /\ Key \subseteq Nat /\ IsFiniteSet(Key)
  /\ count_max \in Nat /\ count_keep \in Nat
  /\ count_max # 0 => count_keep < count_max    \* parse_cmdline sees to it
  /\ Lens \subseteq Nat /\ MaxTotal \in Nat

VARIABLES
  allow_reduce,  \* do the callers pass ALLOW_REDUCE?  All but host_get do, so
             \* this is fixed, and FALSE for the hosts table
  bits,      \* the table has 2^bits chains
  table,     \* table[i]: the buckets of chain i
  count,     \* the number of buckets
  aborted    \* an assertion failed

tableVars == <<allow_reduce, bits, table, count, aborted>>

(* 0.618... * u, made odd.                                                 *)
coprime(u) == LET f == (u * 618034) \div 1000000
              IN  IF f % 2 = 0 THEN f + 1 ELSE f

(* hash_func_short and hash_func_byte, masked: the coefficient depends on  *)
(* the size of the table.  hash_func_host has none, and leaves a small     *)
(* address as it is.                                                       *)
hash_func(k, b) == (IF allow_reduce THEN k * coprime(2^b) ELSE k) % 2^b

Chains(b) == 0 .. 2^b - 1

Buckets(t) == UNION {t[i] : i \in DOMAIN t}

(* The chains of a table of 2^b chains that holds the buckets B.           *)
Rehashed(B, b) ==
  [i \in Chains(b) |-> {x \in B : hash_func(x.key, b) = i}]

(* As hashtable_rehash, but each chain is moved as a whole, to where the   *)
(* old table's index puts it.                                              *)
rehashByChain(t, b) ==
  [i \in Chains(b) |-> IF i \in DOMAIN t THEN t[i] ELSE {}]

hashtable_rehash(t, b) == Rehashed(Buckets(t), b)

(* The bucket of chain hash(k) that has key k: none or one.                *)
hashtable_search(t, b, k) == {x \in t[hash_func(k, b)] : x.key = k}

(* hashtable_insert's "Rehash on 80% occupancy", in unsigned arithmetic.   *)
crowded(c, b) == c > 2^b \/ 2^b - c < 2^b \div 5

(* hashtable_reduce sorts the buckets by total; the cutoff is the total of *)
(* the one at index count_keep.                                            *)
IsCutoff(B, c) ==
  /\ Cardinality({x \in B : x.total > c}) <= count_keep
  /\ Cardinality({x \in B : x.total >= c}) > count_keep

cutoff(B) == CHOOSE c \in {x.total : x \in B} : IsCutoff(B, c)

(* As removed, but sparing the buckets on the cutoff.                      *)
removedBelow(B) == {x \in B : x.total < cutoff(B)}

(* "Remove all elements with total <= cutoff."                             *)
removed(B) == {x \in B : x.total <= cutoff(B)}

(* The assertion of hashtable_reduce.                                      *)
reducible == count_keep < count

TableInit ==
  /\ allow_reduce \in BOOLEAN
  /\ bits = 1
  /\ table = [i \in Chains(1) |-> {}]
  /\ count = 0
  /\ aborted = FALSE

(* Insert a bucket for k with n bytes into the table t of 2^b chains that  *)
(* holds c buckets.                                                        *)
hashtable_insert(t, b, c, k, n) ==
  LET b2 == IF crowded(c, b) THEN b + 1 ELSE b
      t2 == IF crowded(c, b) THEN hashtable_rehash(t, b + 1) ELSE t
  IN  /\ bits' = b2
      /\ table' = [t2 EXCEPT ![hash_func(k, b2)] =
                     @ \cup {[key |-> k, total |-> n]}]
      /\ count' = c + 1

Found(k) == hashtable_search(table, bits, k) # {}

(* A byte count for a key that is there.                                   *)
account_found(k, n) ==
  /\ ~aborted
  /\ \E x \in hashtable_search(table, bits, k) :
       /\ x.total + n <= MaxTotal
       /\ table' = [table EXCEPT ![hash_func(k, bits)] =
                      (@ \ {x}) \cup {[x EXCEPT !.total = @ + n]}]
  /\ UNCHANGED <<allow_reduce, bits, count, aborted>>

(* For one that is not, with room: it is inserted.                         *)
account_inserted(k, n) ==
  /\ ~aborted /\ ~Found(k)
  /\ ~(allow_reduce /\ count >= count_max)
  /\ hashtable_insert(table, bits, count, k, n)
  /\ UNCHANGED <<allow_reduce, aborted>>

(* The table after hashtable_reduce removed the buckets in B, which        *)
(* ends with a rehash to the same size.                                    *)
Without(B) == Rehashed(Buckets(table) \ B, bits)

(* As account_reduced, but the count is not brought down.                  *)
account_reducedMiscounts(k, n) ==
  /\ ~aborted /\ ~Found(k)
  /\ allow_reduce /\ count >= count_max
  /\ hashtable_insert(Without(removed(Buckets(table))), bits, count, k, n)
  /\ UNCHANGED <<allow_reduce, aborted>>

(* For one that is not, at the limit: hashtable_find_or_insert reduces the *)
(* table first, unless hashtable_reduce's assertion fails.                 *)
account_reduced(k, n) ==
  /\ ~aborted /\ ~Found(k)
  /\ allow_reduce /\ count >= count_max
  /\ IF reducible
     THEN LET gone == removed(Buckets(table))
          IN  /\ hashtable_insert(Without(gone), bits,
                                  count - Cardinality(gone), k, n)
              /\ UNCHANGED aborted
     ELSE aborted' = TRUE /\ UNCHANGED <<bits, table, count>>
  /\ UNCHANGED allow_reduce

(* acct_for reduces the hosts table before it looks up its hosts; it does  *)
(* neither with --hosts-max 0.                                             *)
hosts_db_reduce ==
  /\ ~aborted /\ ~allow_reduce
  /\ count_max # 0 /\ count >= count_max
  /\ IF reducible
     THEN LET gone == removed(Buckets(table))
          IN  /\ table' = Without(gone)
              /\ count' = count - Cardinality(gone)
              /\ UNCHANGED aborted
     ELSE aborted' = TRUE /\ UNCHANGED <<table, count>>
  /\ UNCHANGED <<allow_reduce, bits>>

(* SIGUSR1, and only for the hosts table.  The table keeps its size.       *)
hosts_db_reset ==
  /\ ~aborted /\ ~allow_reduce
  /\ table' = [i \in Chains(bits) |-> {}]
  /\ count' = 0
  /\ UNCHANGED <<allow_reduce, bits, aborted>>

TableNext ==
  \/ \E k \in Key, n \in Lens : account_found(k, n)
  \/ \E k \in Key, n \in Lens : account_inserted(k, n)
  \/ \E k \in Key, n \in Lens : account_reduced(k, n)
  \/ hosts_db_reduce \/ hosts_db_reset

TableSpec == TableInit /\ [][TableNext]_tableVars

----------------------------------------------------------------------------
(* Every bucket is found by its key, and is the only one for it, after any *)
(* number of rehashes and reductions: hashtable_insert computes the        *)
(* position after the rehash, with the coefficient of the new size.        *)
SearchFindsAll ==
  \A x \in Buckets(table) : hashtable_search(table, bits, x.key) = {x}

(* count is the number of buckets: hashtable_reduce allocates its array    *)
(* by it and asserts as much.  A table whose callers allow reduction does  *)
(* not exceed its limit, and the assertion of hashtable_reduce, that there *)
(* is something to remove, holds whenever it is called.                    *)
CountIsExact ==
  /\ count = Cardinality(Buckets(table))
  /\ allow_reduce => count <= count_max
  /\ ~aborted

Map == [k \in {x.key : x \in Buckets(table)} |->
          (CHOOSE x \in Buckets(table) : x.key = k).total]

Abstract == INSTANCE TopTable WITH Keep <- count_keep, Amount <- Lens, total <- Map

(* The hash table is a map from keys to totals that is cut down to at most *)
(* count_keep entries, none smaller than any it drops.                     *)
ImplementsTopTable == Abstract!Spec
=============================================================================
