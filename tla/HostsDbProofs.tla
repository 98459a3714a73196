---------------------------- MODULE HostsDbProofs ---------------------------
(***************************************************************************)
(* Proofs about the hosts database: its tables (HashTable), for any keys,  *)
(* limits and packet lengths, and the sessions of its hosts (HostEvents),  *)
(* for any number of hosts and any clients.                                *)
(***************************************************************************)
EXTENDS HashTable, HostEvents, FiniteSetTheorems, WellFoundedInduction, TLAPS

(***************************************************************************)
(* The tables.  The invariant is that the table is the set of its buckets, *)
(* each put in the chain of its hash; whatever the steps do, doubling,     *)
(* cutting down and rehashing included, is then a change of that set.      *)
(* Nothing is used of the hash function but that it gives the index of a   *)
(* chain.                                                                  *)
(***************************************************************************)

(* There is a positive number of chains.                                 *)
LEMMA Powers == ASSUME NEW b \in Nat PROVE 2^b \in Nat \ {0}
<1>1. IsFiniteSet(1..b) /\ Cardinality(1..b) = b
  BY FS_Interval
<1>2. IsFiniteSet(SUBSET (1..b)) /\ Cardinality(SUBSET (1..b)) = 2^b
  BY <1>1, FS_SUBSET
<1>3. Cardinality(SUBSET (1..b)) \in Nat /\ Cardinality(SUBSET (1..b)) # 0
  BY <1>2, FS_CardinalityType, FS_EmptySet
<1> QED BY <1>2, <1>3

(* The masked hash of a key is the index of a chain.                     *)
LEMMA HashInRange ==
  ASSUME NEW k \in Nat, NEW b \in Nat
  PROVE  hash_func(k, b) \in Chains(b)
<1> DEFINE n == 2^b
<1>1. n \in Nat \ {0}
  BY Powers
<1>2. coprime(n) \in Nat
  <2> DEFINE f == (n * 618034) \div 1000000
  <2>1. f \in Nat
    BY <1>1
  <2> HIDE DEF f
  <2>2. f + 1 \in Nat
    BY <2>1
  <2>3. (IF f % 2 = 0 THEN f + 1 ELSE f) \in Nat
    BY <2>1, <2>2, Zenon
  <2> QED BY <2>3 DEF coprime, f
<1>3. k * coprime(n) \in Nat
  BY <1>2
<1>4. \A m \in Nat : m % n \in 0 .. n - 1
  BY <1>1
<1>5. (k * coprime(n)) % n \in 0 .. n - 1
  BY <1>3, <1>4
<1>6. k % n \in 0 .. n - 1
  BY <1>4
<1> QED BY <1>5, <1>6 DEF hash_func, Chains

(* Buckets with numbers as keys and totals.                              *)
Bucket == [key : Key, total : Nat]

(* No key has two buckets.                                               *)
Unique(B) == \A x, y \in B : x.key = y.key => x = y

(* A table of 2^b chains that holds the buckets B, each in the chain of  *)
(* its key's hash.                                                       *)
LEMMA BucketsOfRehashed ==
  ASSUME NEW B \in SUBSET Bucket, NEW b \in Nat
  PROVE  Buckets(Rehashed(B, b)) = B
<1>1. DOMAIN Rehashed(B, b) = Chains(b)
  BY DEF Rehashed
<1>2. \A i \in Chains(b) : Rehashed(B, b)[i] = {x \in B : hash_func(x.key, b) = i}
  BY DEF Rehashed
<1>3. ASSUME NEW x \in B PROVE x \in Buckets(Rehashed(B, b))
  <2>1. x.key \in Nat
    BY TableAssumption DEF Bucket
  <2>2. hash_func(x.key, b) \in Chains(b)
    BY <2>1, HashInRange
  <2> QED BY <1>1, <1>2, <2>2 DEF Buckets
<1>4. ASSUME NEW x \in Buckets(Rehashed(B, b)) PROVE x \in B
  BY <1>1, <1>2 DEF Buckets
<1> QED BY <1>3, <1>4

(* A search there finds exactly the buckets of the key.                  *)
LEMMA SearchRehashed ==
  ASSUME NEW B \in SUBSET Bucket, NEW b \in Nat, NEW k \in Key
  PROVE  hashtable_search(Rehashed(B, b), b, k) = {x \in B : x.key = k}
<1>1. hash_func(k, b) \in Chains(b)
  BY TableAssumption, HashInRange
<1> QED BY <1>1 DEF hashtable_search, Rehashed

(* A bucket added to the chain of its hash.                              *)
LEMMA AddRehashed ==
  ASSUME NEW B \in SUBSET Bucket, NEW b \in Nat, NEW x \in Bucket
  PROVE  [Rehashed(B, b) EXCEPT ![hash_func(x.key, b)] = @ \cup {x}]
           = Rehashed(B \cup {x}, b)
<1>1. hash_func(x.key, b) \in Chains(b)
  BY TableAssumption, HashInRange DEF Bucket
<1>2. \A i \in Chains(b) :
        {y \in B \cup {x} : hash_func(y.key, b) = i}
          = IF i = hash_func(x.key, b) THEN {y \in B : hash_func(y.key, b) = i} \cup {x}
            ELSE {y \in B : hash_func(y.key, b) = i}
  OBVIOUS
<1> QED BY <1>1, <1>2 DEF Rehashed

(* A bucket replaced by another for the same key.                        *)
Replaced(t, i, x, y) == [t EXCEPT ![i] = (@ \ {x}) \cup {y}]

(* It stays in the chain of the key's hash.                              *)
LEMMA ReplaceRehashed ==
  ASSUME NEW B \in SUBSET Bucket, NEW b \in Nat, NEW k \in Key,
         NEW x \in Bucket, NEW y \in Bucket, x.key = k, y.key = k
  PROVE  Replaced(Rehashed(B, b), hash_func(k, b), x, y)
           = Rehashed((B \ {x}) \cup {y}, b)
<1>1. hash_func(k, b) \in Chains(b)
  BY TableAssumption, HashInRange
<1>2. \A i \in Chains(b) :
        {z \in (B \ {x}) \cup {y} : hash_func(z.key, b) = i}
          = IF i = hash_func(k, b)
            THEN ({z \in B : hash_func(z.key, b) = i} \ {x}) \cup {y}
            ELSE {z \in B : hash_func(z.key, b) = i}
  OBVIOUS
<1> QED BY <1>1, <1>2 DEF Rehashed, Replaced

----------------------------------------------------------------------------
(* Every set of numbers has a least one.                                 *)
LEMMA Least ==
  ASSUME NEW S \in SUBSET Nat, S # {}
  PROVE  \E m \in S : \A k \in S : m <= k
<1>1. PICK m \in S : \A k \in S : ~ (<<k, m>> \in OpToRel(<, Nat))
  BY NatLessThanWellFounded, WFMin
<1>2. ASSUME NEW k \in S PROVE m <= k
  <2>1. ~ (<<k, m>> \in OpToRel(<, Nat))
    BY <1>1
  <2>2. ~ (k < m)
    BY <2>1 DEF OpToRel
  <2> QED
    BY <2>2
<1> QED
  BY <1>2

(* hashtable_reduce has a cutoff: one total has at most count_keep       *)
(* buckets above it, and more than that from it up.                      *)
LEMMA CutoffExists ==
  ASSUME NEW S \in SUBSET Bucket, IsFiniteSet(S), count_keep < Cardinality(S)
  PROVE  \E c \in {x.total : x \in S} : IsCutoff(S, c)
<1>0. count_keep \in Nat /\ \A x \in S : x.total \in Nat
  BY TableAssumption DEF Bucket
<1> DEFINE Up(c) == {x \in S : x.total >= c}
           V     == {x.total : x \in S}
           W     == {v \in V : Cardinality(Up(v)) > count_keep}
           N     == {Cardinality(Up(c)) : c \in W}
<1>1. \A c : IsFiniteSet(Up(c)) /\ Cardinality(Up(c)) \in Nat
  <2> SUFFICES ASSUME NEW c
               PROVE  IsFiniteSet(Up(c)) /\ Cardinality(Up(c)) \in Nat
    OBVIOUS
  <2>1. IsFiniteSet(Up(c))
    BY FS_Subset
  <2> QED
    BY <2>1, FS_CardinalityType
<1>2. V \subseteq Nat /\ V # {}
  BY <1>0, FS_EmptySet, FS_CardinalityType
<1>3. N # {}
  <2>1. PICK v \in V : \A w \in V : v <= w
    BY <1>2, Least
  <2>2. Up(v) = S
    BY <2>1, <1>2
  <2> QED
    BY <2>2
<1>4. N \subseteq Nat
  BY <1>1
<1>5. PICK n \in N : \A m \in N : n <= m
  <2> HIDE DEF N
  <2> QED
    BY <1>3, <1>4, Least
<1>6. PICK c \in V : Cardinality(Up(c)) > count_keep /\ n = Cardinality(Up(c))
  OBVIOUS
<1>7. SUFFICES ASSUME ~(Cardinality({x \in S : x.total > c}) <= count_keep)
               PROVE  FALSE
  BY <1>6 DEF IsCutoff
<1>8. PICK w \in {v \in V : v > c} : \A u \in {v \in V : v > c} : w <= u
  <2>1. {x \in S : x.total > c} # {}
    <3>1. count_keep >= 0
      BY <1>0
    <3> QED
      BY <1>7, <3>1, FS_EmptySet
  <2>2. {v \in V : v > c} # {}
    BY <2>1
  <2>3. {v \in V : v > c} \in SUBSET Nat
    BY <1>2
  <2> HIDE DEF V
  <2> QED
    BY <2>2, <2>3, Least
<1>9. Up(w) = {x \in S : x.total > c}
  <2>1. w \in Nat /\ c \in Nat /\ w > c
    BY <1>2
  <2>2. ASSUME NEW x \in S PROVE x.total >= w <=> x.total > c
    <3>1. x.total \in Nat /\ x.total \in V
      BY <1>0
    <3>2. x.total > c => w <= x.total
      BY <1>8, <3>1
    <3> QED
      BY <3>1, <3>2, <2>1
  <2> QED
    BY <2>2
<1>10. Cardinality(Up(w)) > count_keep
  <2>1. Cardinality(Up(w)) \in Nat
    BY <1>1
  <2>2. ~(Cardinality(Up(w)) <= count_keep)
    BY <1>7, <1>9, Zenon
  <2> HIDE DEF Up
  <2> QED
    BY <2>1, <2>2, <1>0
<1>11. Cardinality(Up(c)) <= Cardinality(Up(w))
  <2>1. Cardinality(Up(w)) \in N
    BY <1>10
  <2> HIDE DEF N, Up
  <2> QED
    BY <1>5, <1>6, <2>1
<1>12. Up(w) \subseteq Up(c)
  BY <1>9, <1>2
<1>13. Up(w) = Up(c)
  <2>1. Cardinality(Up(w)) <= Cardinality(Up(c))
    BY <1>1, <1>12, FS_Subset
  <2>2. Cardinality(Up(w)) \in Nat /\ Cardinality(Up(c)) \in Nat
    BY <1>1
  <2> HIDE DEF Up
  <2>3. Cardinality(Up(w)) = Cardinality(Up(c))
    BY <2>1, <2>2, <1>11
  <2> QED
    BY <2>3, <1>1, <1>12, FS_Subset
<1>14. PICK x \in S : x.total = c
  OBVIOUS
<1>15. c \in Nat /\ c >= c /\ ~(c > c)
  BY <1>2
<1>16. x \in Up(c) /\ x \notin {y \in S : y.total > c}
  BY <1>14, <1>15
<1> QED
  BY <1>9, <1>13, <1>16

(* What hashtable_reduce leaves is no more than it is to keep, and each  *)
(* bucket of it is larger than all that go.                              *)
LEMMA ReduceKeeps ==
  ASSUME NEW B \in SUBSET Bucket, IsFiniteSet(B), count_keep < Cardinality(B)
  PROVE  /\ Cardinality(B \ removed(B)) <= count_keep
         /\ \A x \in B \ removed(B), y \in removed(B) : x.total > y.total
<1> DEFINE V == {x.total : x \in B}
<1>4. \E c \in V : IsCutoff(B, c)
  BY CutoffExists
<1>5. cutoff(B) \in V /\ IsCutoff(B, cutoff(B))
  <2>1. cutoff(B) = CHOOSE c \in V : IsCutoff(B, c)
    BY DEF cutoff
  <2> HIDE DEF V
  <2> QED BY <1>4, <2>1
<1>6. cutoff(B) \in Nat /\ \A x \in B : x.total \in Nat
  BY <1>5 DEF Bucket
<1>7. B \ removed(B) = {x \in B : x.total > cutoff(B)}
  BY <1>6 DEF removed
<1>8. Cardinality(B \ removed(B)) <= count_keep
  BY <1>5, <1>7 DEF IsCutoff
<1>9. ASSUME NEW x \in B \ removed(B), NEW y \in removed(B)
      PROVE  x.total > y.total
  BY <1>6 DEF removed
<1> QED BY <1>8, <1>9

(* A reduced table has fewer buckets, as many as the code counts.        *)
LEMMA ReduceCounts ==
  ASSUME NEW B \in SUBSET Bucket, IsFiniteSet(B), count_keep < Cardinality(B)
  PROVE  /\ IsFiniteSet(B \ removed(B))
         /\ Cardinality(B) - Cardinality(removed(B)) = Cardinality(B \ removed(B))
         /\ Cardinality(B \ removed(B)) <= count_keep
<1>1. removed(B) \subseteq B
  BY DEF removed
<1>2. IsFiniteSet(removed(B)) /\ IsFiniteSet(B \ removed(B))
  BY <1>1, FS_Subset
<1>3. B \cap removed(B) = removed(B)
  BY <1>1
<1>4. Cardinality(B \ removed(B)) = Cardinality(B) - Cardinality(B \cap removed(B))
  BY FS_Difference
<1> QED BY <1>2, <1>3, <1>4, ReduceKeeps

----------------------------------------------------------------------------
(* Each bucket is in the chain of its hash, there is one for a key, and  *)
(* count is how many there are.                                          *)
Placed ==
  /\ allow_reduce \in BOOLEAN /\ bits \in Nat
  /\ Buckets(table) \in SUBSET Bucket
  /\ table = Rehashed(Buckets(table), bits)

Counted ==
  /\ IsFiniteSet(Buckets(table))
  /\ count = Cardinality(Buckets(table))
  /\ allow_reduce => count <= count_max
  /\ count_max # 0 => ~aborted

Inv == Placed /\ Unique(Buckets(table)) /\ Counted

New(k, n) == [key |-> k, total |-> n]

(* What the steps do to the set of all buckets.                          *)
Holds(B, b) == table' = Rehashed(B, b) /\ bits' = b

(* A new table of one that holds the buckets B.                          *)
LEMMA HoldsThen ==
  ASSUME NEW B \in SUBSET Bucket, NEW b \in Nat, Holds(B, b),
         allow_reduce \in BOOLEAN, allow_reduce' = allow_reduce
  PROVE  Placed' /\ Buckets(table)' = B
<1>1. Buckets(table') = B
  BY BucketsOfRehashed DEF Holds
<1>2. Buckets(table)' = B
  BY <1>1 DEF Buckets
<1>3. table' = Rehashed(B, bits') /\ bits' \in Nat /\ allow_reduce' \in BOOLEAN
  BY DEF Holds
<1> HIDE DEF Holds
<1>4. Rehashed(B, bits)' = Rehashed(B, bits')
  BY Zenon DEF Rehashed, hash_func
<1>5. table' = Rehashed(B, bits)'
  BY <1>3, <1>4
<1>6. (table = Rehashed(Buckets(table), bits))'
  <2>1. Rehashed(Buckets(table), bits)' = Rehashed(B, bits)'
    BY <1>2 DEF Rehashed
  <2> QED BY <1>5, <2>1
<1> QED BY <1>2, <1>3, <1>6 DEF Placed

(* An insertion adds one bucket, whether or not it doubles the table.    *)
LEMMA InsertHolds ==
  ASSUME NEW B \in SUBSET Bucket, NEW b \in Nat, NEW c, NEW k \in Key, NEW n \in Lens,
         hashtable_insert(Rehashed(B, b), b, c, k, n)
  PROVE  /\ \E b2 \in Nat : Holds(B \cup {New(k, n)}, b2)
         /\ count' = c + 1
         /\ New(k, n) \in Bucket
<1> DEFINE b2 == IF crowded(c, b) THEN b + 1 ELSE b
           t2 == IF crowded(c, b) THEN hashtable_rehash(Rehashed(B, b), b + 1)
                 ELSE Rehashed(B, b)
<1>1. b2 \in Nat
  OBVIOUS
<1>2. t2 = Rehashed(B, b2)
  <2>1. hashtable_rehash(Rehashed(B, b), b + 1) = Rehashed(B, b + 1)
    BY BucketsOfRehashed DEF hashtable_rehash
  <2> QED BY <2>1
<1>3. New(k, n) \in Bucket /\ New(k, n).key = k
  BY TableAssumption DEF New, Bucket
<1>4. /\ bits' = b2 /\ count' = c + 1
      /\ table' = [t2 EXCEPT ![hash_func(k, b2)] = @ \cup {New(k, n)}]
  BY DEF hashtable_insert, New
<1>5. table' = Rehashed(B \cup {New(k, n)}, b2)
  <2> HIDE DEF b2, t2
  <2> QED BY <1>1, <1>2, <1>3, <1>4, AddRehashed
<1> QED
  <2> HIDE DEF b2, t2
  <2> QED BY <1>1, <1>3, <1>4, <1>5 DEF Holds

(* A key is found if it has a bucket.                                    *)
LEMMA FoundBucket ==
  ASSUME Placed, NEW k \in Key
  PROVE  hashtable_search(table, bits, k) = {x \in Buckets(table) : x.key = k}
BY SearchRehashed DEF Placed

(* One more bucket, for a key that had none.                             *)
LEMMA UniqueNew ==
  ASSUME NEW B, Unique(B), NEW k, NEW n, \A x \in B : x.key # k
  PROVE  Unique(B \cup {New(k, n)}) /\ New(k, n) \notin B
BY DEF Unique, New

(* The steps that insert: into B, the buckets that are left.             *)
LEMMA InsertInv ==
  ASSUME NEW B \in SUBSET Bucket, IsFiniteSet(B), Unique(B),
         Placed, NEW k \in Key, NEW n \in Lens, \A x \in B : x.key # k,
         allow_reduce' = allow_reduce, aborted' = aborted,
         count_max # 0 => ~aborted,
         allow_reduce => Cardinality(B) < count_max,
         hashtable_insert(Rehashed(B, bits), bits, Cardinality(B), k, n)
  PROVE  Inv' /\ Buckets(table)' = B \cup {New(k, n)}
<1>1. bits \in Nat /\ allow_reduce \in BOOLEAN
  BY DEF Placed
<1>2. /\ \E b2 \in Nat : Holds(B \cup {New(k, n)}, b2)
      /\ count' = Cardinality(B) + 1
      /\ New(k, n) \in Bucket
  BY <1>1, InsertHolds
<1> DEFINE B2 == B \cup {New(k, n)}
<1>3. B2 \in SUBSET Bucket
  BY <1>2
<1>4. Placed' /\ Buckets(table)' = B2
  <2> HIDE DEF B2
  <2> QED BY <1>1, <1>2, <1>3, HoldsThen DEF B2
<1>5. Unique(B2) /\ New(k, n) \notin B
  BY UniqueNew
<1>6. IsFiniteSet(B2) /\ Cardinality(B2) = Cardinality(B) + 1
  BY <1>5, FS_AddElement
<1>7. Cardinality(B) \in Nat
  BY FS_CardinalityType
<1>8. Counted'
  <2>1. allow_reduce' => count' <= count_max
    BY <1>2, <1>7, TableAssumption
  <2> HIDE DEF B2
  <2> QED BY <1>2, <1>4, <1>6, <2>1 DEF Counted
<1> HIDE DEF B2
<1>9. Unique(Buckets(table))'
  BY <1>4, <1>5
<1> QED BY <1>4, <1>8, <1>9 DEF Inv, B2

(* The empty table.                                                      *)
LEMMA InitInv == TableInit => Inv /\ Buckets(table) = {}
<1> SUFFICES ASSUME TableInit PROVE Inv /\ Buckets(table) = {}
  OBVIOUS
<1>1. table = [i \in Chains(1) |-> {}] /\ bits = 1 /\ count = 0 /\ aborted = FALSE
      /\ allow_reduce \in BOOLEAN
  BY Zenon DEF TableInit
<1>2. Buckets(table) = {}
  BY <1>1 DEF Buckets
<1>3. Rehashed({}, 1) = [i \in Chains(1) |-> {}]
  BY DEF Rehashed
<1>4. Placed
  BY <1>1, <1>2, <1>3 DEF Placed
<1>5. Counted
  BY <1>1, <1>2, FS_EmptySet, TableAssumption DEF Counted
<1>6. Unique(Buckets(table))
  BY <1>2 DEF Unique
<1> QED BY <1>2, <1>4, <1>5, <1>6 DEF Inv

(* The bucket x of key k counts n more bytes.                            *)
Counts(B, x, k, n) == (B \ {x}) \cup {New(k, x.total + n)}

(* A byte count for a key that is there changes its bucket only.         *)
LEMMA FoundInv ==
  ASSUME Inv, NEW k \in Key, NEW n \in Lens, account_found(k, n)
  PROVE  /\ Inv'
         /\ \E x \in Buckets(table) :
              x.key = k /\ Buckets(table)' = Counts(Buckets(table), x, k, n)
<1> DEFINE B == Buckets(table)
<1>1. Placed /\ Unique(B) /\ Counted /\ B \in SUBSET Bucket /\ bits \in Nat
      /\ IsFiniteSet(B)
  BY DEF Inv, Placed, Counted
<1>2. PICK x \in hashtable_search(table, bits, k) :
        table' = [table EXCEPT ![hash_func(k, bits)] =
                    (@ \ {x}) \cup {[x EXCEPT !.total = @ + n]}]
  BY DEF account_found
<1>3. x \in B /\ x.key = k
  BY <1>1, <1>2, FoundBucket
<1> DEFINE y == New(k, x.total + n)
<1>4. x \in Bucket /\ y \in Bucket /\ y.key = k /\ [x EXCEPT !.total = @ + n] = y
  <2>1. x \in Bucket
    BY <1>1, <1>3
  <2>2. x.total + n \in Nat
    BY <2>1, TableAssumption DEF Bucket
  <2> QED BY <1>3, <2>1, <2>2 DEF Bucket, New
<1> DEFINE B2 == (B \ {x}) \cup {y}
<1>5. B2 \in SUBSET Bucket
  BY <1>1, <1>4
<1>6. table' = Rehashed(B2, bits)
  <2>1. table = Rehashed(B, bits)
    BY <1>1 DEF Placed
  <2>2. table' = Replaced(table, hash_func(k, bits), x, y)
    BY <1>2, <1>4 DEF Replaced
  <2> HIDE DEF B, y
  <2>3. Replaced(Rehashed(B, bits), hash_func(k, bits), x, y)
          = Rehashed(B2, bits)
    BY <1>1, <1>3, <1>4, ReplaceRehashed
  <2> QED BY <2>1, <2>2, <2>3
<1>7. allow_reduce' = allow_reduce /\ bits' = bits /\ count' = count /\ aborted' = aborted
  BY DEF account_found
<1>8. Placed' /\ Buckets(table)' = B2
  <2>1. Holds(B2, bits) /\ allow_reduce \in BOOLEAN
    BY <1>1, <1>6, <1>7 DEF Holds, Placed
  <2> HIDE DEF B2
  <2> QED BY <1>1, <1>5, <1>7, <2>1, HoldsThen
<1>9. Unique(B2) /\ y \notin B \ {x}
  <2> HIDE DEF B, y
  <2> QED BY <1>1, <1>3, <1>4 DEF Unique
<1>10. IsFiniteSet(B2) /\ Cardinality(B2) = Cardinality(B)
  <2>1. IsFiniteSet(B \ {x}) /\ Cardinality(B \ {x}) = Cardinality(B) - 1
    BY <1>1, <1>3, FS_RemoveElement
  <2>2. IsFiniteSet(B2) /\ Cardinality(B2) = Cardinality(B \ {x}) + 1
    BY <1>9, <2>1, FS_AddElement
  <2>3. Cardinality(B) \in Nat
    BY <1>1, FS_CardinalityType
  <2> HIDE DEF B, B2
  <2> QED BY <2>1, <2>2, <2>3
<1>11. Counted'
  <2> HIDE DEF B2
  <2> QED BY <1>1, <1>7, <1>8, <1>10 DEF Counted
<1>12. Unique(Buckets(table))'
  <2> HIDE DEF B2
  <2> QED BY <1>8, <1>9
<1>13. Buckets(table)' = Counts(Buckets(table), x, k, n)
  BY <1>8 DEF Counts
<1> QED BY <1>3, <1>8, <1>11, <1>12, <1>13 DEF Inv

(* A key that is not found has no bucket.                                *)
LEMMA NotFound ==
  ASSUME Placed, NEW k \in Key, ~Found(k)
  PROVE  \A x \in Buckets(table) : x.key # k
BY FoundBucket DEF Found

(* A new key in a table with room.                                       *)
LEMMA InsertedInv ==
  ASSUME Inv, NEW k \in Key, NEW n \in Lens, account_inserted(k, n)
  PROVE  /\ Inv' /\ Buckets(table)' = Buckets(table) \cup {New(k, n)}
         /\ \A x \in Buckets(table) : x.key # k
<1> DEFINE B == Buckets(table)
<1>1. Placed /\ Unique(B) /\ Counted /\ B \in SUBSET Bucket /\ IsFiniteSet(B)
      /\ table = Rehashed(B, bits) /\ count = Cardinality(B)
      /\ (count_max # 0 => ~aborted)
  BY DEF Inv, Placed, Counted
<1>2. \A x \in B : x.key # k
  BY <1>1, NotFound DEF account_inserted
<1>3. allow_reduce => Cardinality(B) < count_max
  <2>1. Cardinality(B) \in Nat
    BY <1>1, FS_CardinalityType
  <2>2. ~(allow_reduce /\ Cardinality(B) >= count_max)
    BY <1>1 DEF account_inserted
  <2> HIDE DEF B
  <2> QED BY <2>1, <2>2, TableAssumption
<1>4. hashtable_insert(Rehashed(B, bits), bits, Cardinality(B), k, n)
  BY <1>1 DEF account_inserted
<1>5. allow_reduce' = allow_reduce /\ aborted' = aborted
  BY DEF account_inserted
<1> HIDE DEF B
<1>6. Inv' /\ Buckets(table)' = B \cup {New(k, n)}
  BY <1>1, <1>2, <1>3, <1>4, <1>5, InsertInv
<1> QED BY <1>2, <1>6 DEF B

(* The buckets that hashtable_reduce leaves.                             *)
KeptOf(B) == B \ removed(B)

(* Where hashtable_reduce's assertion holds, what is left is few enough, *)
(* as many as it counts.                                                 *)
LEMMA KeptBuckets ==
  ASSUME Inv, reducible
  PROVE  /\ KeptOf(Buckets(table)) \in SUBSET Bucket
         /\ Unique(KeptOf(Buckets(table)))
         /\ IsFiniteSet(KeptOf(Buckets(table)))
         /\ count - Cardinality(removed(Buckets(table)))
              = Cardinality(KeptOf(Buckets(table)))
         /\ Cardinality(KeptOf(Buckets(table))) \in Nat
         /\ Cardinality(KeptOf(Buckets(table))) <= count_keep
         /\ \A x \in KeptOf(Buckets(table)), y \in Buckets(table) \ KeptOf(Buckets(table)) :
              x.total > y.total
<1> DEFINE B == Buckets(table)
<1>1. B \in SUBSET Bucket /\ IsFiniteSet(B) /\ Unique(B) /\ count = Cardinality(B)
  BY DEF Inv, Placed, Counted
<1>2. count_keep < Cardinality(B)
  BY <1>1 DEF reducible
<1> HIDE DEF B
<1>3. /\ IsFiniteSet(KeptOf(B))
      /\ Cardinality(B) - Cardinality(removed(B)) = Cardinality(KeptOf(B))
      /\ Cardinality(KeptOf(B)) <= count_keep
  BY <1>1, <1>2, ReduceCounts DEF KeptOf
<1>4. Cardinality(KeptOf(B)) \in Nat
  BY <1>3, FS_CardinalityType
<1>5. \A x \in KeptOf(B), y \in B \ KeptOf(B) : x.total > y.total
  <2>1. B \ KeptOf(B) = removed(B)
    BY DEF KeptOf, removed
  <2>2. \A x \in B \ removed(B), y \in removed(B) : x.total > y.total
    BY <1>1, <1>2, ReduceKeeps
  <2> QED BY <2>1, <2>2 DEF KeptOf
<1>6. KeptOf(B) \in SUBSET Bucket /\ Unique(KeptOf(B))
  BY <1>1 DEF KeptOf, Unique
<1> QED BY <1>1, <1>3, <1>4, <1>5, <1>6 DEF B

(* With a limit there is something to remove when it is reached.         *)
LEMMA Reducible ==
  ASSUME Inv, count_max # 0, count >= count_max
  PROVE  reducible
<1>1. count \in Nat
  BY FS_CardinalityType DEF Inv, Counted
<1> QED BY <1>1, TableAssumption DEF reducible

(* A step that leaves the table alone leaves its buckets where they are. *)
LEMMA SamePlaces ==
  ASSUME Placed, Unique(Buckets(table)), UNCHANGED <<allow_reduce, bits, table>>
  PROVE  Placed' /\ Unique(Buckets(table))'
<1>1. Buckets(table)' = Buckets(table)
  BY DEF Buckets
<1>2. Rehashed(Buckets(table), bits)' = Rehashed(Buckets(table), bits)
  BY <1>1 DEF Rehashed, hash_func
<1> QED BY <1>1, <1>2 DEF Placed, Unique

(* A new key in a table at its limit.                                    *)
LEMMA ReducedInv ==
  ASSUME Inv, NEW k \in Key, NEW n \in Lens, account_reduced(k, n)
  PROVE  /\ Inv'
         /\ \A x \in Buckets(table) : x.key # k
         /\ \/ UNCHANGED table
            \/ /\ reducible
               /\ Buckets(table)' = KeptOf(Buckets(table)) \cup {New(k, n)}
<1> DEFINE B == Buckets(table)
<1>1. Placed /\ Counted /\ Unique(B) /\ (count_max # 0 => ~aborted) /\ allow_reduce
      /\ allow_reduce' = allow_reduce /\ count >= count_max
  BY DEF Inv, Counted, account_reduced
<1>2. \A x \in B : x.key # k
  BY <1>1, NotFound DEF account_reduced
<1>3. CASE reducible
  <2> DEFINE K == KeptOf(B)
  <2>1. /\ K \in SUBSET Bucket /\ Unique(K) /\ IsFiniteSet(K)
        /\ count - Cardinality(removed(B)) = Cardinality(K)
        /\ Cardinality(K) \in Nat /\ Cardinality(K) <= count_keep
    BY <1>3, KeptBuckets
  <2>2. hashtable_insert(Rehashed(K, bits), bits, Cardinality(K), k, n)
        /\ aborted' = aborted
    BY <1>3, <2>1 DEF account_reduced, Without, KeptOf
  <2>3. count_max # 0
    <3>1. count \in Nat /\ count <= count_max
      BY <1>1, FS_CardinalityType DEF Counted
    <3> QED BY <1>3, <3>1, TableAssumption DEF reducible
  <2>4. Cardinality(K) < count_max
    <3> HIDE DEF K
    <3> QED BY <2>1, <2>3, TableAssumption
  <2>5. \A x \in K : x.key # k
    BY <1>2 DEF KeptOf
  <2> HIDE DEF K
  <2>6. Inv' /\ Buckets(table)' = K \cup {New(k, n)}
    BY <1>1, <2>1, <2>2, <2>4, <2>5, InsertInv
  <2> QED BY <1>2, <1>3, <2>6 DEF K
<1>4. CASE ~reducible
  <2>1. aborted' = TRUE /\ UNCHANGED <<bits, table, count>>
    BY <1>4 DEF account_reduced
  <2>2. count_max = 0
    BY <1>1, <1>4, Reducible
  <2>3. Placed' /\ Unique(Buckets(table))'
    BY <1>1, <2>1, SamePlaces
  <2>4. Counted'
    BY <1>1, <2>1, <2>2 DEF Counted, Buckets
  <2>5. Inv'
    BY <2>3, <2>4 DEF Inv
  <2> QED BY <1>2, <2>1, <2>5
<1> QED BY <1>3, <1>4

(* The reduction of the hosts table.                                     *)
LEMMA ReduceInv ==
  ASSUME Inv, hosts_db_reduce
  PROVE  Inv' /\ reducible /\ Buckets(table)' = KeptOf(Buckets(table))
<1> DEFINE B == Buckets(table)
           K == KeptOf(B)
<1>1. /\ allow_reduce' = allow_reduce /\ bits' = bits /\ ~allow_reduce
      /\ count_max # 0 /\ count >= count_max
  BY DEF hosts_db_reduce
<1>2. reducible
  BY <1>1, Reducible
<1>3. /\ K \in SUBSET Bucket /\ Unique(K) /\ IsFiniteSet(K)
      /\ count - Cardinality(removed(B)) = Cardinality(K)
  BY <1>2, KeptBuckets
<1>4. /\ table' = Rehashed(K, bits) /\ count' = Cardinality(K) /\ aborted' = aborted
  BY <1>2, <1>3 DEF hosts_db_reduce, Without, KeptOf
<1>5. Placed /\ (count_max # 0 => ~aborted) /\ bits \in Nat /\ allow_reduce \in BOOLEAN
  BY DEF Inv, Placed, Counted
<1> HIDE DEF K
<1>6. Placed' /\ Buckets(table)' = K
  BY <1>1, <1>3, <1>4, <1>5, HoldsThen DEF Holds
<1>7. Counted' /\ Unique(Buckets(table))'
  BY <1>1, <1>3, <1>4, <1>5, <1>6 DEF Counted
<1> QED BY <1>2, <1>6, <1>7 DEF Inv, K

(* The reset of the hosts table.                                         *)
LEMMA ResetInv ==
  ASSUME Inv, hosts_db_reset
  PROVE  Inv' /\ Buckets(table)' = {}
<1>1. /\ table' = [i \in Chains(bits) |-> {}] /\ count' = 0 /\ ~allow_reduce
      /\ bits' = bits /\ allow_reduce' = allow_reduce /\ aborted' = aborted
  BY DEF hosts_db_reset
<1>2. Placed /\ (count_max # 0 => ~aborted) /\ bits \in Nat /\ allow_reduce \in BOOLEAN
  BY DEF Inv, Placed, Counted
<1>3. Rehashed({}, bits) = [i \in Chains(bits) |-> {}]
  BY DEF Rehashed
<1>4. Placed' /\ Buckets(table)' = {}
  BY <1>1, <1>2, <1>3, HoldsThen DEF Holds
<1>5. Counted' /\ Unique(Buckets(table))'
  BY <1>1, <1>2, <1>4, FS_EmptySet DEF Counted, Unique
<1> QED BY <1>4, <1>5 DEF Inv

(* Every step keeps the invariant.                                       *)
LEMMA NextInv == Inv /\ [TableNext]_tableVars => Inv'
<1> SUFFICES ASSUME Inv, [TableNext]_tableVars PROVE Inv'
  OBVIOUS
<1>1. ASSUME NEW k \in Key, NEW n \in Lens, account_found(k, n) PROVE Inv'
  BY <1>1, FoundInv
<1>2. ASSUME NEW k \in Key, NEW n \in Lens, account_inserted(k, n) PROVE Inv'
  BY <1>2, InsertedInv
<1>3. ASSUME NEW k \in Key, NEW n \in Lens, account_reduced(k, n) PROVE Inv'
  BY <1>3, ReducedInv
<1>4. CASE hosts_db_reduce
  BY <1>4, ReduceInv
<1>5. CASE hosts_db_reset
  BY <1>5, ResetInv
<1>6. CASE UNCHANGED tableVars
  <2>1. Placed' /\ Unique(Buckets(table))'
    BY <1>6, SamePlaces DEF tableVars, Inv
  <2>2. Counted'
    BY <1>6 DEF tableVars, Inv, Counted, Buckets
  <2> QED BY <2>1, <2>2 DEF Inv
<1> QED BY <1>1, <1>2, <1>3, <1>4, <1>5, <1>6 DEF TableNext

(* In every reachable state each bucket is in the chain of its hash, no  *)
(* key has two, and their number is counted right.                       *)
THEOREM TableInv == TableSpec => []Inv
BY InitInv, NextInv, PTL DEF TableSpec

(* Every bucket is found by its key, and is the only one for it, however *)
(* many times the table was doubled, cut down or emptied.                *)
THEOREM TableSearchFindsAll == TableSpec => []SearchFindsAll
<1>1. Inv => SearchFindsAll
  <2> SUFFICES ASSUME Inv, NEW x \in Buckets(table)
               PROVE  hashtable_search(table, bits, x.key) = {x}
    BY DEF SearchFindsAll
  <2>1. x.key \in Key /\ Placed /\ Unique(Buckets(table))
    BY DEF Inv, Placed, Bucket
  <2>2. hashtable_search(table, bits, x.key) = {y \in Buckets(table) : y.key = x.key}
    BY <2>1, FoundBucket
  <2> QED BY <2>1, <2>2 DEF Unique
<1> QED BY <1>1, TableInv, PTL

(* With a limit, as all tables but an unlimited hosts table have, the    *)
(* count is exact and hashtable_reduce's assertions hold.                *)
THEOREM TableCountIsExact ==
  ASSUME count_max # 0
  PROVE  TableSpec => []CountIsExact
<1>1. Inv => CountIsExact
  BY DEF Inv, Counted, CountIsExact
<1> QED BY <1>1, TableInv, PTL

----------------------------------------------------------------------------
(***************************************************************************)
(* The refinement: the table is a map from keys to totals.                 *)
(***************************************************************************)
Keys(B) == {x.key : x \in B}

(* The map that a set of buckets stands for.                             *)
Totals(B) == [k \in Keys(B) |-> (CHOOSE x \in B : x.key = k).total]

(* Map is that of the buckets in the table.                              *)
LEMMA MapIsTotals == Map = Totals(Buckets(table))
BY DEF Map, Totals, Keys

(* With one bucket for a key, the map has each bucket's total.           *)
LEMMA TotalsOf ==
  ASSUME NEW B, Unique(B)
  PROVE  /\ DOMAIN Totals(B) = Keys(B)
         /\ \A x \in B : Totals(B)[x.key] = x.total
<1>1. DOMAIN Totals(B) = Keys(B)
  BY DEF Totals
<1>2. ASSUME NEW x \in B PROVE Totals(B)[x.key] = x.total
  <2>1. x.key \in Keys(B)
    BY DEF Keys
  <2>2. (CHOOSE y \in B : y.key = x.key) = x
    BY DEF Unique
  <2> QED BY <2>1, <2>2 DEF Totals
<1> QED BY <1>1, <1>2

IsMap(f) == f = [k \in DOMAIN f |-> f[k]]

(* The map is determined by its keys and their totals.                   *)
LEMMA TotalsAre ==
  ASSUME NEW B, Unique(B), NEW f, IsMap(f), DOMAIN f = Keys(B),
         \A x \in B : f[x.key] = x.total
  PROVE  Totals(B) = f
<1>1. DOMAIN Totals(B) = DOMAIN f /\ \A x \in B : Totals(B)[x.key] = f[x.key]
  BY TotalsOf
<1>2. \A k \in DOMAIN f : Totals(B)[k] = f[k]
  BY <1>1 DEF Keys
<1>3. Totals(B) = [k \in DOMAIN Totals(B) |-> Totals(B)[k]]
  BY DEF Totals
<1> HIDE DEF Totals
<1> QED BY <1>1, <1>2, <1>3 DEF IsMap

Total0(t, l) == IF l \in DOMAIN t THEN t[l] ELSE 0

Plus(t, k, n, l) == Total0(t, l) + IF l = k THEN n ELSE 0

(* A new bucket adds its bytes for its key.                              *)
LEMMA NewAdds ==
  ASSUME NEW B \in SUBSET Bucket, Unique(B), NEW k \in Key, NEW n \in Nat,
         \A x \in B : x.key # k
  PROVE  Totals(B \cup {New(k, n)}) = Abstract!Add(Totals(B), k, n)
<1> DEFINE t == Totals(B)
           f == Abstract!Add(t, k, n)
           B2 == B \cup {New(k, n)}
<1>1. Unique(B2)
  BY UniqueNew
<1>2. DOMAIN t = Keys(B) /\ \A x \in B : t[x.key] = x.total /\ x.key \in Keys(B)
  BY TotalsOf DEF Keys
<1>3. New(k, n).key = k /\ New(k, n).total = n
  BY DEF New
<1> HIDE DEF t
<1>4. /\ DOMAIN f = Keys(B) \cup {k}
      /\ IsMap(f)
      /\ \A l \in Keys(B) \cup {k} : f[l] = Plus(t, k, n, l)
  BY <1>2 DEF Abstract!Add, Total0, Plus, IsMap
<1> HIDE DEF f
<1>5. Keys(B2) = Keys(B) \cup {k}
  BY <1>3 DEF Keys
<1>6. ASSUME NEW x \in B PROVE f[x.key] = x.total
  <2>1. x.key # k /\ x.total \in Nat
    BY DEF Bucket
  <2>2. Total0(t, x.key) = x.total
    BY <1>2 DEF Total0
  <2> QED BY <1>2, <1>4, <2>1, <2>2 DEF Plus
<1>7. f[k] = n
  <2>1. k \notin Keys(B)
    BY DEF Keys
  <2>2. Total0(t, k) = 0
    BY <1>2, <2>1 DEF Total0
  <2> QED BY <1>4, <2>2 DEF Plus
<1>8. \A x \in B2 : f[x.key] = x.total
  BY <1>3, <1>6, <1>7
<1> HIDE DEF B2
<1>9. Totals(B2) = f
  BY <1>1, <1>4, <1>5, <1>8, TotalsAre
<1> QED BY <1>9 DEF B2, f, t

(* Counting more bytes in a bucket adds them for its key.                *)
LEMMA CountsAdds ==
  ASSUME NEW B \in SUBSET Bucket, Unique(B), NEW k \in Key, NEW n \in Nat,
         NEW x \in B, x.key = k
  PROVE  Totals(Counts(B, x, k, n)) = Abstract!Add(Totals(B), k, n)
<1> DEFINE t == Totals(B)
           f == Abstract!Add(t, k, n)
           y == New(k, x.total + n)
           B2 == (B \ {x}) \cup {y}
<1>1. y.key = k /\ y.total = x.total + n /\ x.total \in Nat
  BY DEF New, Bucket
<1> HIDE DEF y
<1>2. Unique(B2) /\ \A z \in B \ {x} : z.key # k
  BY <1>1 DEF Unique
<1>3. DOMAIN t = Keys(B) /\ \A z \in B : t[z.key] = z.total /\ z.key \in Keys(B)
  BY TotalsOf DEF Keys
<1> HIDE DEF t
<1>4. /\ DOMAIN f = Keys(B) \cup {k}
      /\ IsMap(f)
      /\ \A l \in Keys(B) \cup {k} : f[l] = Plus(t, k, n, l)
  BY <1>3 DEF Abstract!Add, Total0, Plus, IsMap
<1> HIDE DEF f
<1>5. Keys(B2) = Keys(B) \cup {k}
  BY <1>1 DEF Keys
<1>6. ASSUME NEW z \in B \ {x} PROVE f[z.key] = z.total
  <2>1. z.key # k /\ z.total \in Nat
    BY <1>2 DEF Bucket
  <2>2. Total0(t, z.key) = z.total
    BY <1>3 DEF Total0
  <2> QED BY <1>3, <1>4, <2>1, <2>2 DEF Plus
<1>7. f[y.key] = y.total
  <2>1. Total0(t, k) = x.total
    BY <1>3 DEF Total0
  <2> QED BY <1>1, <1>4, <2>1 DEF Plus
<1>8. \A z \in B2 : f[z.key] = z.total
  BY <1>6, <1>7
<1> HIDE DEF B2
<1>9. Totals(B2) = f
  BY <1>2, <1>4, <1>5, <1>8, TotalsAre
<1> QED BY <1>9 DEF B2, f, t, y, Counts

(* There are no more keys than buckets.                                  *)
LEMMA FewKeys ==
  ASSUME NEW B, IsFiniteSet(B)
  PROVE  Cardinality(Keys(B)) <= Cardinality(B)
<1> DEFINE f == [x \in B |-> x.key]
<1>1. f \in Surjection(B, Keys(B))
  BY DEF Surjection, Keys
<1> HIDE DEF f
<1> QED BY <1>1, FS_Surjection

(* The abstract table counts its keys as the theorems on finite sets do. *)
LEMMA SameCardinality == \A S : Abstract!Cardinality(S) = Cardinality(S)
BY DEF Abstract!Cardinality, Cardinality

(* A reduction of the table is one that the abstract table allows.       *)
LEMMA KeptIsReduced ==
  ASSUME Inv, reducible
  PROVE  Totals(KeptOf(Buckets(table))) \in Abstract!Reduced
<1> DEFINE B == Buckets(table)
           K == KeptOf(B)
           S == Keys(K)
           g == [k \in S |-> Map[k]]
<1>1. /\ K \in SUBSET Bucket /\ Unique(K) /\ IsFiniteSet(K)
      /\ Cardinality(K) \in Nat /\ Cardinality(K) <= count_keep
      /\ \A x \in K, y \in B \ K : x.total > y.total
  BY KeptBuckets
<1>2. K \subseteq B /\ Unique(B)
  BY DEF KeptOf, Inv
<1>3. Map = Totals(B)
  BY MapIsTotals
<1>4. DOMAIN Map = Keys(B) /\ \A x \in B : Map[x.key] = x.total
  BY <1>2, <1>3, TotalsOf
<1> HIDE DEF K, B
<1>5. S \in SUBSET DOMAIN Map
  BY <1>2, <1>4 DEF Keys
<1>6. Cardinality(S) <= count_keep
  <2>1. Cardinality(S) <= Cardinality(K)
    BY <1>1, FewKeys
  <2>2. IsFiniteSet(S)
    <3> DEFINE f == [x \in K |-> x.key]
    <3>1. f \in Surjection(K, S)
      BY DEF Surjection, Keys
    <3> HIDE DEF f, S
    <3> QED BY <1>1, <3>1, FS_Surjection
  <2>3. Cardinality(S) \in Nat
    BY <2>2, FS_CardinalityType
  <2> HIDE DEF S
  <2> QED BY <1>1, <2>1, <2>3, TableAssumption
<1>7. ASSUME NEW k \in S, NEW l \in DOMAIN Map \ S PROVE Map[k] > Map[l]
  <2>1. PICK x \in K : x.key = k
    BY <1>7 DEF Keys
  <2>2. PICK y \in B : y.key = l
    BY <1>4, <1>7 DEF Keys
  <2>3. y \notin K
    BY <1>7, <2>2 DEF Keys
  <2>4. x.total > y.total /\ x \in B
    BY <1>1, <1>2, <2>1, <2>2, <2>3
  <2> QED BY <1>4, <2>1, <2>2, <2>4
<1>8. g \in Abstract!Reduced
  <2> DEFINE Ts == {T \in SUBSET DOMAIN Map :
                      /\ Cardinality(T) <= count_keep
                      /\ \A k \in T, l \in DOMAIN Map \ T : Map[k] > Map[l]}
  <2> HIDE DEF S
  <2>1. S \in Ts
    BY <1>5, <1>6, <1>7
  <2>2. Abstract!Reduced = {[k \in T |-> Map[k]] : T \in Ts}
    BY SameCardinality DEF Abstract!Reduced
  <2> HIDE DEF Ts
  <2> QED BY <2>1, <2>2
<1>9. Totals(K) = g
  <2>1. IsMap(g) /\ DOMAIN g = Keys(K) /\ \A x \in K : g[x.key] = x.total
    BY <1>2, <1>4 DEF IsMap, Keys
  <2> HIDE DEF g
  <2> QED BY <1>1, <2>1, TotalsAre
<1> QED BY <1>8, <1>9 DEF K, B

(* The table that is empty when the program starts.                      *)
LEMMA InitImplements == TableInit => Abstract!Init
<1> SUFFICES ASSUME TableInit PROVE Map = [k \in {} |-> 0]
  BY DEF Abstract!Init
<1>1. Buckets(table) = {}
  BY InitInv
<1> QED BY <1>1 DEF Map

(* The map after a step is that of the buckets after it.                 *)
LEMMA NextMap ==
  ASSUME NEW B, Buckets(table)' = B
  PROVE  Map' = Totals(B)
BY DEF Map, Totals, Keys

(* Counting a packet in a bucket accounts it for its key.                *)
LEMMA FoundImplements ==
  ASSUME Inv, NEW k \in Key, NEW n \in Lens, account_found(k, n)
  PROVE  Abstract!Account(k, n)
<1> DEFINE B == Buckets(table)
<1>1. PICK x \in B : x.key = k /\ Buckets(table)' = Counts(B, x, k, n)
  BY FoundInv
<1>2. Map' = Totals(Counts(B, x, k, n))
  BY <1>1, NextMap
<1>3. B \in SUBSET Bucket /\ Unique(B) /\ n \in Nat
  BY TableAssumption DEF Inv, Placed
<1>4. Totals(Counts(B, x, k, n)) = Abstract!Add(Totals(B), k, n)
  <2> HIDE DEF B
  <2> QED BY <1>1, <1>3, CountsAdds
<1>5. Map' = Abstract!Add(Map, k, n)
  BY <1>2, <1>4, MapIsTotals
<1> QED BY <1>5 DEF Abstract!Account

(* So does an insertion.                                                 *)
LEMMA InsertedImplements ==
  ASSUME Inv, NEW k \in Key, NEW n \in Lens, account_inserted(k, n)
  PROVE  Abstract!Account(k, n)
<1> DEFINE B == Buckets(table)
<1>1. Buckets(table)' = B \cup {New(k, n)} /\ \A x \in B : x.key # k
  BY InsertedInv
<1>2. Map' = Totals(B \cup {New(k, n)})
  BY <1>1, NextMap
<1>3. B \in SUBSET Bucket /\ Unique(B) /\ n \in Nat
  BY TableAssumption DEF Inv, Placed
<1>4. Totals(B \cup {New(k, n)}) = Abstract!Add(Totals(B), k, n)
  <2> HIDE DEF B
  <2> QED BY <1>1, <1>3, NewAdds
<1>5. Map' = Abstract!Add(Map, k, n)
  BY <1>2, <1>4, MapIsTotals
<1> QED BY <1>5 DEF Abstract!Account

(* An insertion after a reduction accounts it in the reduced table; one  *)
(* that ends in a failed assertion changes nothing.                      *)
LEMMA ReducedImplements ==
  ASSUME Inv, NEW k \in Key, NEW n \in Lens, account_reduced(k, n)
  PROVE  Abstract!Account(k, n) \/ Map' = Map
<1> DEFINE B == Buckets(table)
           K == KeptOf(B)
<1>1. \A x \in B : x.key # k
  BY ReducedInv
<1>2. CASE UNCHANGED table
  BY <1>2 DEF Map, Buckets
<1>3. CASE reducible /\ Buckets(table)' = K \cup {New(k, n)}
  <2>1. Map' = Totals(K \cup {New(k, n)})
    BY <1>3, NextMap
  <2>2. K \in SUBSET Bucket /\ Unique(K) /\ n \in Nat
    BY <1>3, KeptBuckets, TableAssumption
  <2>3. \A x \in K : x.key # k
    BY <1>1 DEF KeptOf
  <2>4. Totals(K \cup {New(k, n)}) = Abstract!Add(Totals(K), k, n)
    <3> HIDE DEF K
    <3> QED BY <2>2, <2>3, NewAdds
  <2>5. Totals(K) \in Abstract!Reduced
    BY <1>3, KeptIsReduced
  <2>6. k \notin DOMAIN Map
    BY <1>1 DEF Map
  <2> HIDE DEF K
  <2> QED BY <2>1, <2>4, <2>5, <2>6 DEF Abstract!Account
<1> QED BY <1>2, <1>3, ReducedInv

(* Every step is a step of the abstract table, or none.                  *)
LEMMA NextImplements == Inv /\ [TableNext]_tableVars => [Abstract!Next]_Map
<1> SUFFICES ASSUME Inv, [TableNext]_tableVars PROVE Abstract!Next \/ Map' = Map
  OBVIOUS
<1>1. ASSUME NEW k \in Key, NEW n \in Lens, account_found(k, n)
      PROVE  Abstract!Next
  BY <1>1, FoundImplements DEF Abstract!Next
<1>2. ASSUME NEW k \in Key, NEW n \in Lens, account_inserted(k, n)
      PROVE  Abstract!Next
  BY <1>2, InsertedImplements DEF Abstract!Next
<1>3. ASSUME NEW k \in Key, NEW n \in Lens, account_reduced(k, n)
      PROVE  Abstract!Next \/ Map' = Map
  BY <1>3, ReducedImplements DEF Abstract!Next
<1>4. CASE hosts_db_reduce
  <2>1. reducible /\ Buckets(table)' = KeptOf(Buckets(table))
    BY <1>4, ReduceInv
  <2>2. Map' = Totals(KeptOf(Buckets(table)))
    BY <2>1, NextMap
  <2>3. Map' \in Abstract!Reduced
    BY <2>1, <2>2, KeptIsReduced
  <2> QED BY <2>3 DEF Abstract!Next, Abstract!Reduce
<1>5. CASE hosts_db_reset
  <2>1. Buckets(table)' = {}
    BY <1>5, ResetInv
  <2>2. Map' = [k \in {} |-> 0]
    BY <2>1 DEF Map
  <2> QED BY <2>2 DEF Abstract!Next, Abstract!Reset
<1>6. CASE UNCHANGED tableVars
  BY <1>6 DEF tableVars, Map, Buckets
<1> QED BY <1>1, <1>2, <1>3, <1>4, <1>5, <1>6 DEF TableNext

(* The hash table implements the map that it stands for: no rehash loses *)
(* or duplicates a bucket, and a reduction drops only the smallest.      *)
THEOREM TableImplementsTopTable == TableSpec => ImplementsTopTable
BY InitImplements, TableInv, NextImplements, PTL
   DEF TableSpec, ImplementsTopTable, Abstract!Spec

(***************************************************************************)
(* The sessions.                                                           *)
(***************************************************************************)

(* The clients list all hosts at least as often as they let sessions     *)
(* last.                                                                 *)
ListedOften == \A c \in CloseSecs : ListSecs <= c

(* All clients ask with the same event_close_secs.                       *)
OneClient == \A c, d \in CloseSecs : c = d

ClockOK == /\ now \in Nat /\ listed \in Nat
           /\ StartTime <= listed /\ listed <= now
           /\ now - listed <= ListSecs

Closed(h) == h.event_seq > 0 /\ ~h.event_is_open

(* StatusAgrees for one host.                                            *)
Agrees(h) == IF h.event_seq = 0 THEN ~h.event_is_open /\ h.event_closed_mono = 0
             ELSE h.event_is_open <=> h.event_closed_mono = 0

(* Seen since the closing means seen since all hosts were listed.        *)
SeenLately(h) ==
  Closed(h) => h.last_seen_mono < h.event_closed_mono \/ h.last_seen_mono >= listed

(* The closing was due.                                                  *)
ClosedLate(h) ==
  Closed(h) => \/ h.last_seen_mono = 0
               \/ h.last_seen_mono >= h.event_closed_mono
               \/ \A c \in CloseSecs : h.event_closed_mono - h.last_seen_mono > c

(* What a step may do to a host.                                         *)
Kept(a)   == /\ a \in DOMAIN hosts /\ hosts'[a] = hosts[a]
             /\ listed' = listed
Made(a)   == hosts'[a] = make_func_host /\ now' = now /\ listed' = listed
Born(a)   == /\ hosts'[a] = [make_func_host EXCEPT !.last_seen_mono = now]
             /\ now' = now /\ listed' = listed
Seen(a)   == /\ a \in DOMAIN hosts
             /\ hosts'[a] = [hosts[a] EXCEPT !.last_seen_mono = now]
             /\ now' = now /\ listed' = listed
Listed(a) == /\ a \in DOMAIN hosts
             /\ \E c \in CloseSecs : hosts'[a] = host_event_update(hosts[a], c)
             /\ now' = now /\ listed' \in {listed, now}

----------------------------------------------------------------------------
(* Each host in the table after a step was kept, made, seen or listed.   *)
LEMMA HostSteps ==
  ASSUME [Next]_vars, NEW a \in DOMAIN hosts'
  PROVE  Kept(a) \/ Made(a) \/ Born(a) \/ Seen(a) \/ Listed(a)
<1>1. CASE UNCHANGED vars
  BY <1>1 DEF vars, Kept
<1>2. CASE tick
  BY <1>2 DEF tick, Kept
<1>3. ASSUME NEW b \in Addr, acct_src(b)
      PROVE  Kept(a) \/ Made(a) \/ Born(a) \/ Seen(a)
  <2>1. CASE a # b
    BY <1>3, <2>1 DEF acct_src, host_get, Kept
  <2>2. CASE a = b /\ a \in DOMAIN hosts
    BY <1>3, <2>2 DEF acct_src, host_get, Seen
  <2>3. CASE a = b /\ a \notin DOMAIN hosts
    BY <1>3, <2>3 DEF acct_src, host_get, Born
  <2> QED  BY <2>1, <2>2, <2>3
<1>4. ASSUME NEW b \in Addr, acct_dst(b)
      PROVE  Kept(a) \/ Made(a)
  BY <1>4 DEF acct_dst, host_get, Kept, Made
<1>5. ASSUME NEW S \in SUBSET DOMAIN hosts, free_hosts(S)
      PROVE  Kept(a)
  BY <1>5 DEF free_hosts, Kept
<1>6. ASSUME NEW c \in CloseSecs, text_json_full(c)
      PROVE  Listed(a)
  BY <1>6 DEF text_json_full, text_json, Listed
<1>7. ASSUME NEW S \in SUBSET DOMAIN hosts, NEW c \in CloseSecs,
             text_json_page(S, c)
      PROVE  Kept(a) \/ Listed(a)
  BY <1>7 DEF text_json_page, text_json, Kept, Listed
<1> QED  BY <1>1, <1>2, <1>3, <1>4, <1>5, <1>6, <1>7 DEF Next

(* The clock goes on, and lists all hosts in time.                       *)
LEMMA ClockStep ==
  ASSUME ClockOK, [Next]_vars
  PROVE  ClockOK' /\ now' >= now
<1>1. ListSecs \in Nat /\ StartTime \in Nat
  BY EventsAssumption
<1>2. CASE UNCHANGED vars
  BY <1>2 DEF vars, ClockOK
<1>3. CASE tick
  BY <1>1, <1>3 DEF tick, ClockOK
<1>4. ASSUME now' = now, listed' = listed \/ listed' = now
      PROVE  ClockOK' /\ now' >= now
  BY <1>1, <1>4 DEF ClockOK
<1>5. \/ UNCHANGED vars \/ tick
      \/ now' = now /\ (listed' = listed \/ listed' = now)
  BY DEF Next, acct_src, acct_dst, free_hosts, text_json_full, text_json_page
<1> QED  BY <1>2, <1>3, <1>4, <1>5

(* The clock starts at a time at which all hosts count as listed.        *)
LEMMA ClockInit == Init => ClockOK
BY EventsAssumption DEF Init, ClockOK

----------------------------------------------------------------------------
(* What a listing makes of a host, by whether it was active.             *)
LEMMA Updates ==
  ASSUME now \in Nat, NEW h \in Host, NEW c \in Nat, NEW g,
         g = host_event_update(h, c)
  PROVE  /\ g \in Host
         /\ g.last_seen_mono = h.last_seen_mono
         /\ g.event_seq > 0
         /\ g.event_is_open <=> host_is_active(h, c)
         /\ \/ g = h /\ h.event_seq > 0
            \/ g.event_is_open /\ g.event_closed_mono = 0
            \/ ~g.event_is_open /\ g.event_closed_mono = now
<1> DEFINE active == host_is_active(h, c)
<1>1. active \in BOOLEAN
  BY DEF host_is_active
<1>2. h.event_seq \in Nat /\ h.event_is_open \in BOOLEAN
  BY DEF Host
<1>t. now \in 0..now /\ 0 \in 0..now
  OBVIOUS
<1>u. /\ 1 \in Nat /\ h.event_seq + 1 \in Nat
      /\ h.last_seen_mono \in Int
  BY <1>2 DEF Host
<1>3. CASE h.event_seq = 0
  <2>1. g = first_event(h, active)
    BY <1>3 DEF host_event_update
  <2>2. g \in Host
    <3>1. CASE active
      <4>1. g = [h EXCEPT !.event_seq = 1, !.event_is_open = TRUE,
                          !.event_opened_mono = h.last_seen_mono,
                          !.event_closed_mono = 0]
        BY <1>1, <2>1, <3>1 DEF first_event, Host
      <4> QED  BY <1>t, <1>u, <4>1 DEF Host
    <3>2. CASE ~active
      <4>1. g = [h EXCEPT !.event_seq = 1, !.event_is_open = FALSE,
                          !.event_opened_mono = h.last_seen_mono,
                          !.event_closed_mono = now]
        BY <1>1, <2>1, <3>2 DEF first_event, Host
      <4> QED  BY <1>t, <1>u, <4>1 DEF Host
    <3> QED  BY <3>1, <3>2
  <2>3. /\ g.last_seen_mono = h.last_seen_mono /\ g.event_seq = 1
        /\ g.event_is_open = active
        /\ g.event_closed_mono = IF active THEN 0 ELSE now
    BY <2>1 DEF first_event, Host
  <2> HIDE DEF active
  <2>4. g.event_seq > 0
    BY <2>3
  <2> QED  BY <1>1, <2>2, <2>3, <2>4 DEF active
<1>4. CASE h.event_seq # 0 /\ active /\ ~h.event_is_open
  <2>1. g = reopened(h)
    BY <1>4 DEF host_event_update
  <2>2. g \in Host
    BY <1>t, <1>u, <2>1 DEF reopened, Host
  <2>3. /\ g.last_seen_mono = h.last_seen_mono
        /\ g.event_seq = h.event_seq + 1
        /\ g.event_is_open /\ g.event_closed_mono = 0
    BY <2>1 DEF reopened, Host
  <2>4. g.event_seq > 0
    BY <1>2, <2>3
  <2> QED  BY <1>4, <2>2, <2>3, <2>4
<1>5. CASE h.event_seq # 0 /\ ~active /\ h.event_is_open
  <2>1. g = closed(h)
    BY <1>5 DEF host_event_update
  <2>2. g \in Host
    BY <1>t, <2>1 DEF closed, Host
  <2>3. /\ g.last_seen_mono = h.last_seen_mono
        /\ g.event_seq = h.event_seq
        /\ ~g.event_is_open /\ g.event_closed_mono = now
    BY <2>1 DEF closed, Host
  <2>4. g.event_seq > 0
    BY <1>5, <1>2, <2>3
  <2> QED  BY <1>5, <2>2, <2>3, <2>4
<1>6. CASE h.event_seq # 0 /\ (active <=> h.event_is_open)
  <2>1. g = h
    BY <1>6 DEF host_event_update
  <2> QED  BY <1>6, <1>2, <2>1
<1> QED  BY <1>1, <1>2, <1>3, <1>4, <1>5, <1>6

(* A host that was just made is one, whenever it was seen.               *)
LEMMA Fresh ==
  ASSUME now \in Nat
  PROVE  /\ make_func_host \in Host
         /\ \A t \in Int : [make_func_host EXCEPT !.last_seen_mono = t] \in Host
<1>1. 0 \in 0..now /\ 0 \in Nat /\ 0 \in Int
  OBVIOUS
<1> QED  BY <1>1 DEF make_func_host, Host

(* Every step leaves hosts a table of addresses.                         *)
LEMMA DomainStep ==
  ASSUME DOMAIN hosts \subseteq Addr, [Next]_vars
  PROVE  DOMAIN hosts' \subseteq Addr
BY DEF Next, vars, tick, acct_src, acct_dst, host_get, free_hosts,
       text_json_full, text_json_page, text_json

(* Every step keeps the types, and closes no session in the future.      *)
LEMMA TypeStep ==
  ASSUME TypeOK, ClockOK, [Next]_vars
  PROVE  TypeOK'
<1>1. ClockOK' /\ now' >= now
  BY ClockStep
<1>2. now \in Nat /\ now' \in Nat /\ listed' \in 0..now'
  BY <1>1 DEF ClockOK
<1>3. DOMAIN hosts' \subseteq Addr
  BY DomainStep DEF TypeOK
<1>4. ASSUME NEW h \in Host
      PROVE  h \in Host'
  <2>1. 0..now \subseteq 0..now'
    BY <1>1, <1>2
  <2> QED  BY <2>1 DEF Host
<1>5. ASSUME NEW a \in DOMAIN hosts'
      PROVE  hosts'[a] \in Host
  <2>1. CASE Kept(a)
    BY <2>1 DEF Kept, TypeOK
  <2>2. CASE Made(a)
    BY <1>2, <2>2, Fresh DEF Made
  <2>3. CASE Born(a)
    <3>1. now \in Int
      BY <1>2
    <3> QED  BY <1>2, <2>3, <3>1, Fresh DEF Born
  <2>4. CASE Seen(a)
    <3>1. now \in Int
      BY <1>2
    <3>2. hosts[a] \in Host
      BY <2>4 DEF Seen, TypeOK
    <3> QED  BY <2>4, <3>1, <3>2 DEF Seen, Host
  <2>5. CASE Listed(a)
    <3>1. PICK c \in CloseSecs : hosts'[a] = host_event_update(hosts[a], c)
      BY <2>5 DEF Listed
    <3>2. hosts[a] \in Host /\ c \in Nat
      BY <2>5, EventsAssumption DEF Listed, TypeOK
    <3> QED  BY <1>2, <3>1, <3>2, Updates
  <2> QED  BY <2>1, <2>2, <2>3, <2>4, <2>5, HostSteps
<1> QED  BY <1>2, <1>3, <1>4, <1>5 DEF TypeOK

(* Hosts have them at the start, imported or not.                        *)
LEMMA TypeInit == Init => TypeOK
<1> SUFFICES ASSUME Init PROVE TypeOK
  OBVIOUS
<1>1. now \in Nat /\ listed \in 0..now
  BY EventsAssumption DEF Init
<1>2. PICK S \in SUBSET Addr : \E f \in [S -> ImportedSeen] :
        hosts = [a \in S |-> [make_func_host EXCEPT !.last_seen_mono = f[a]]]
  BY DEF Init
<1>3. PICK f \in [S -> ImportedSeen] :
        hosts = [a \in S |-> [make_func_host EXCEPT !.last_seen_mono = f[a]]]
  BY <1>2
<1>4. \A a \in S : f[a] \in Int
  BY EventsAssumption
<1>5. \A a \in S : hosts[a] \in Host
  BY <1>1, <1>3, <1>4, Fresh
<1> QED  BY <1>1, <1>3, <1>5 DEF TypeOK

(* The two parts hold together in every reachable state.                 *)
LEMMA Invariance == Spec => [](ClockOK /\ TypeOK)
<1>1. Init => ClockOK /\ TypeOK
  BY ClockInit, TypeInit
<1>2. (ClockOK /\ TypeOK) /\ [Next]_vars => (ClockOK /\ TypeOK)'
  BY ClockStep, TypeStep
<1> QED  BY <1>1, <1>2, PTL DEF Spec

(* The types of the sessions; in particular, no session of any host is   *)
(* closed at a time that has not come.                                   *)
THEOREM EventsTypeOK == Spec => []TypeOK
BY Invariance, PTL

----------------------------------------------------------------------------
(* A host that has not been listed.                                      *)
Unlisted(h) == h.event_seq = 0 /\ ~h.event_is_open /\ h.event_closed_mono = 0

(* No host starts with a session.                                        *)
LEMMA InitUnlisted == Init => \A a \in DOMAIN hosts : Unlisted(hosts[a])
<1> SUFFICES ASSUME Init, NEW a \in DOMAIN hosts
             PROVE  Unlisted(hosts[a])
  OBVIOUS
<1>1. \E t : hosts[a] = [make_func_host EXCEPT !.last_seen_mono = t]
  BY DEF Init
<1> QED  BY <1>1 DEF make_func_host, Unlisted

(* A step by its effect on the fields of a host.                         *)
LEMMA FieldSteps ==
  ASSUME TypeOK, ClockOK, [Next]_vars, NEW a \in DOMAIN hosts'
  PROVE  LET g == hosts'[a]
             h == hosts[a]
         IN  \/ Unlisted(g)
             \/ a \in DOMAIN hosts /\ g = h /\ listed' = listed
             \/ /\ a \in DOMAIN hosts /\ listed' = listed
                /\ g.event_seq = h.event_seq
                /\ g.event_is_open = h.event_is_open
                /\ g.event_closed_mono = h.event_closed_mono
                /\ g.last_seen_mono = now
             \/ Listed(a)
<1>1. CASE Kept(a)
  BY <1>1 DEF Kept
<1>2. CASE Made(a)
  BY <1>2 DEF Made, make_func_host, Unlisted
<1>3. CASE Born(a)
  BY <1>3 DEF Born, make_func_host, Unlisted
<1>4. CASE Seen(a)
  <2>1. hosts[a] \in Host
    BY <1>4 DEF Seen, TypeOK
  <2> QED  BY <1>4, <2>1 DEF Seen, Host
<1> QED  BY <1>1, <1>2, <1>3, <1>4, HostSteps

(* What a listing leaves: a host that is open has no time of closing;    *)
(* one that is not was closed before or is closed now.                   *)
LEMMA ListedFields ==
  ASSUME TypeOK, ClockOK, NEW a, Listed(a)
  PROVE  LET g == hosts'[a]
             h == hosts[a]
         IN  \E c \in CloseSecs :
               /\ g.last_seen_mono = h.last_seen_mono
               /\ g.event_seq > 0
               /\ g.event_is_open <=> host_is_active(h, c)
               /\ \/ g = h /\ h.event_seq > 0
                  \/ g.event_is_open /\ g.event_closed_mono = 0
                  \/ ~g.event_is_open /\ g.event_closed_mono = now
<1>1. PICK c \in CloseSecs : hosts'[a] = host_event_update(hosts[a], c)
  BY DEF Listed
<1>2. hosts[a] \in Host /\ c \in Nat /\ now \in Nat
  BY EventsAssumption DEF Listed, TypeOK
<1> QED  BY <1>1, <1>2, Updates

(* Every step keeps the status and the time of closing in agreement.     *)
LEMMA StatusStep ==
  ASSUME ClockOK, TypeOK, StatusAgrees, [Next]_vars
  PROVE  StatusAgrees'
<1> SUFFICES ASSUME NEW a \in DOMAIN hosts'
             PROVE  Agrees(hosts'[a])
  BY DEF StatusAgrees, Agrees
<1>1. now # 0
  BY EventsAssumption DEF ClockOK
<1>2. a \in DOMAIN hosts => Agrees(hosts[a])
  BY DEF StatusAgrees, Agrees
<1>3. CASE Unlisted(hosts'[a])
  BY <1>3 DEF Unlisted, Agrees
<1>4. CASE Listed(a)
  <2>1. a \in DOMAIN hosts
    BY <1>4 DEF Listed
  <2>2. /\ hosts'[a].event_seq > 0
        /\ \/ hosts'[a] = hosts[a]
           \/ hosts'[a].event_is_open /\ hosts'[a].event_closed_mono = 0
           \/ ~hosts'[a].event_is_open /\ hosts'[a].event_closed_mono = now
    BY <1>4, ListedFields
  <2>3. hosts'[a].event_seq # 0
    BY <2>2
  <2> QED  BY <1>1, <1>2, <2>1, <2>2, <2>3, Zenon DEF Agrees
<1>5. CASE /\ a \in DOMAIN hosts
           /\ hosts'[a].event_seq = hosts[a].event_seq
           /\ hosts'[a].event_is_open = hosts[a].event_is_open
           /\ hosts'[a].event_closed_mono = hosts[a].event_closed_mono
  BY <1>2, <1>5, Zenon DEF Agrees
<1> QED  BY <1>3, <1>4, <1>5, FieldSteps

(* An open session has no time of closing and a closed one has, however  *)
(* many clients list hosts with whatever event_close_secs.               *)
THEOREM EventsStatusAgrees == Spec => []StatusAgrees
<1>1. Init => StatusAgrees
  BY InitUnlisted DEF Unlisted, StatusAgrees
<1>2. StatusAgrees /\ (ClockOK /\ TypeOK) /\ [Next]_vars => StatusAgrees'
  BY StatusStep
<1> QED  BY <1>1, <1>2, Invariance, PTL DEF Spec

----------------------------------------------------------------------------
AllSeenLately == \A a \in DOMAIN hosts : SeenLately(hosts[a])

(* As long as all hosts are listed often enough, traffic after the       *)
(* closing of a session is no older than the last listing.               *)
LEMMA SeenLatelyStep ==
  ASSUME ListedOften, ClockOK, TypeOK, AllSeenLately, [Next]_vars
  PROVE  AllSeenLately'
<1> SUFFICES ASSUME NEW a \in DOMAIN hosts', Closed(hosts'[a])
             PROVE  \/ hosts'[a].last_seen_mono < hosts'[a].event_closed_mono
                    \/ hosts'[a].last_seen_mono >= listed'
  BY DEF AllSeenLately, SeenLately, Closed
<1>1. /\ now \in Nat /\ listed \in Nat /\ listed > 0 /\ listed <= now
      /\ now - listed <= ListSecs /\ ListSecs \in Nat
  BY EventsAssumption DEF ClockOK
<1>2. ~Unlisted(hosts'[a])
  BY DEF Unlisted, Closed
<1>3. ASSUME a \in DOMAIN hosts
      PROVE  /\ hosts[a].last_seen_mono \in Int
             /\ hosts[a].event_closed_mono \in 0..now
             /\ SeenLately(hosts[a])
  BY <1>3 DEF TypeOK, Host, AllSeenLately
<1>4. CASE a \in DOMAIN hosts /\ hosts'[a] = hosts[a] /\ listed' = listed
  BY <1>3, <1>4 DEF SeenLately
<1>5. CASE a \in DOMAIN hosts /\ listed' = listed /\ hosts'[a].last_seen_mono = now
  BY <1>1, <1>5
<1>6. CASE Listed(a)
  <2>1. a \in DOMAIN hosts /\ (listed' = listed \/ listed' = now)
    BY <1>6 DEF Listed
  <2>2. PICK c \in CloseSecs :
          /\ hosts'[a].last_seen_mono = hosts[a].last_seen_mono
          /\ ~host_is_active(hosts[a], c)
          /\ \/ hosts'[a] = hosts[a]
             \/ hosts'[a].event_closed_mono = now
    BY <1>6, ListedFields DEF Closed
  <2>3. c \in Nat /\ ListSecs <= c
    BY EventsAssumption DEF ListedOften
  <2>4. hosts[a].last_seen_mono = 0 \/ now - hosts[a].last_seen_mono > c
    BY <1>1, <1>3, <2>1, <2>2, <2>3 DEF host_is_active
  <2>5. hosts[a].last_seen_mono < now /\ hosts[a].last_seen_mono < listed
    BY <1>1, <1>3, <2>1, <2>3, <2>4
  <2>6. CASE hosts'[a].event_closed_mono = now
    BY <2>2, <2>5, <2>6
  <2>7. CASE hosts'[a] = hosts[a]
    BY <1>1, <1>3, <2>1, <2>5, <2>7 DEF SeenLately
  <2> QED  BY <2>2, <2>6, <2>7
<1> QED  BY <1>2, <1>4, <1>5, <1>6, FieldSteps

(* However many hosts there are, and whatever parts of the list other    *)
(* clients ask for: if all hosts are listed at least as often as         *)
(* sessions end (event_close_secs), no traffic falls between two         *)
(* sessions.                                                             *)
THEOREM EventsNothingMissed ==
  ASSUME ListedOften
  PROVE  Spec => []NothingMissed
<1>1. Init => AllSeenLately
  BY InitUnlisted DEF Unlisted, AllSeenLately, SeenLately, Closed
<1>2. AllSeenLately /\ (ClockOK /\ TypeOK) /\ [Next]_vars => AllSeenLately'
  BY SeenLatelyStep
<1>3. ASSUME ClockOK, TypeOK, AllSeenLately
      PROVE  NothingMissed
  <2> SUFFICES ASSUME NEW a \in DOMAIN hosts, Closed(hosts[a])
               PROVE  \/ hosts[a].last_seen_mono < hosts[a].event_closed_mono
                      \/ now - hosts[a].last_seen_mono <= ListSecs
    BY DEF NothingMissed, Closed
  <2>1. /\ now \in Nat /\ listed \in Nat
        /\ now - listed <= ListSecs /\ ListSecs \in Nat
    BY <1>3, EventsAssumption DEF ClockOK
  <2>2. /\ hosts[a].last_seen_mono \in Int
        /\ \/ hosts[a].last_seen_mono < hosts[a].event_closed_mono
           \/ hosts[a].last_seen_mono >= listed
    BY <1>3 DEF TypeOK, Host, AllSeenLately, SeenLately
  <2> QED  BY <2>1, <2>2
<1>4. ClockOK /\ TypeOK /\ AllSeenLately => NothingMissed
  BY <1>3
<1> QED  BY <1>1, <1>2, <1>4, Invariance, PTL DEF Spec

----------------------------------------------------------------------------
AllClosedLate == \A a \in DOMAIN hosts : ClosedLate(hosts[a])

(* With one event_close_secs for all, a session is closed only once its  *)
(* last traffic is older than that.                                      *)
LEMMA ClosedLateStep ==
  ASSUME OneClient, ClockOK, TypeOK, AllClosedLate, [Next]_vars
  PROVE  AllClosedLate'
<1> SUFFICES ASSUME NEW a \in DOMAIN hosts', Closed(hosts'[a])
             PROVE  ClosedLate(hosts'[a])
  BY DEF AllClosedLate, ClosedLate, Closed
<1>1. now \in Nat
  BY DEF ClockOK
<1>2. ~Unlisted(hosts'[a])
  BY DEF Unlisted, Closed
<1>3. ASSUME a \in DOMAIN hosts
      PROVE  /\ hosts[a].last_seen_mono \in Int
             /\ hosts[a].event_closed_mono \in 0..now
             /\ ClosedLate(hosts[a])
  BY <1>3 DEF TypeOK, Host, AllClosedLate
<1>4. CASE a \in DOMAIN hosts /\ hosts'[a] = hosts[a]
  BY <1>3, <1>4
<1>5. CASE /\ a \in DOMAIN hosts /\ hosts'[a].last_seen_mono = now
           /\ hosts'[a].event_closed_mono = hosts[a].event_closed_mono
  BY <1>1, <1>3, <1>5 DEF ClosedLate
<1>6. CASE Listed(a)
  <2>1. a \in DOMAIN hosts
    BY <1>6 DEF Listed
  <2>2. PICK c \in CloseSecs :
          /\ hosts'[a].last_seen_mono = hosts[a].last_seen_mono
          /\ ~host_is_active(hosts[a], c)
          /\ \/ hosts'[a] = hosts[a]
             \/ hosts'[a].event_closed_mono = now
    BY <1>6, ListedFields DEF Closed
  <2>3. c \in Nat /\ \A d \in CloseSecs : d = c
    BY EventsAssumption DEF OneClient
  <2>4. hosts[a].last_seen_mono = 0 \/ now - hosts[a].last_seen_mono > c
    BY <1>1, <1>3, <2>1, <2>2, <2>3 DEF host_is_active
  <2>5. CASE hosts'[a].event_closed_mono = now
    BY <2>2, <2>3, <2>4, <2>5 DEF ClosedLate
  <2> QED  BY <1>4, <2>1, <2>2, <2>5
<1> QED  BY <1>2, <1>4, <1>5, <1>6, FieldSteps

(* A session that is opened again was closed before and begins now.      *)
LEMMA ReopensLate ==
  ASSUME OneClient, ClockOK, TypeOK, AllClosedLate, [Next]_vars,
         NEW a, Reopens(a)
  PROVE  /\ hosts'[a].event_seq = hosts[a].event_seq + 1
         /\ hosts'[a].event_opened_mono >= hosts[a].event_closed_mono
<1> DEFINE h == hosts[a]
<1>1. /\ a \in DOMAIN hosts /\ a \in DOMAIN hosts' /\ h.event_seq > 0
      /\ hosts'[a].event_seq > h.event_seq
  BY DEF Reopens
<1>2. /\ h \in Host /\ now \in Nat /\ ClosedLate(h)
  BY <1>1 DEF TypeOK, AllClosedLate
<1>3. /\ h.event_seq \in Nat /\ h.last_seen_mono \in Int
      /\ h.event_closed_mono \in 0..now /\ h.event_is_open \in BOOLEAN
  BY <1>2 DEF Host
<1>4. Listed(a)
  <2>1. ~(hosts'[a].event_seq = h.event_seq)
    BY <1>1, <1>3
  <2>2. ~Unlisted(hosts'[a])
    BY <1>1, <1>3 DEF Unlisted
  <2> QED  BY <1>1, <2>1, <2>2, FieldSteps
<1>5. PICK c \in CloseSecs : hosts'[a] = host_event_update(h, c)
  BY <1>4 DEF Listed
<1>6. c \in Nat
  BY EventsAssumption
<1>7. host_is_active(h, c) /\ ~h.event_is_open
  <2> SUFFICES ASSUME ~(host_is_active(h, c) /\ ~h.event_is_open)
               PROVE  hosts'[a].event_seq = h.event_seq
    BY <1>1, <1>3
  <2>1. h.event_seq # 0
    BY <1>1, <1>3
  <2>2. hosts'[a] = h \/ hosts'[a] = closed(h)
    BY <1>5, <2>1, Zenon DEF host_event_update
  <2> QED  BY <1>2, <2>2 DEF closed, Host
<1>8. hosts'[a] = reopened(h)
  <2>1. h.event_seq # 0
    BY <1>1, <1>3
  <2> QED  BY <1>5, <1>7, <2>1, Zenon DEF host_event_update
<1>9. /\ hosts'[a].event_seq = h.event_seq + 1
      /\ hosts'[a].event_opened_mono = h.last_seen_mono
  BY <1>2, <1>8 DEF reopened, Host
<1>10. h.last_seen_mono # 0 /\ now - h.last_seen_mono <= c
  BY <1>7 DEF host_is_active
<1>11. \/ h.last_seen_mono >= h.event_closed_mono
       \/ h.event_closed_mono - h.last_seen_mono > c
  BY <1>1, <1>2, <1>7, <1>10 DEF ClosedLate, Closed
<1>12. h.last_seen_mono >= h.event_closed_mono
  BY <1>2, <1>3, <1>6, <1>10, <1>11
<1> QED  BY <1>9, <1>12

(* However many hosts there are and however many clients list them: if   *)
(* they all ask with the same event_close_secs, a session that follows   *)
(* another begins after that one was closed and has the next number.     *)
THEOREM EventsSessionsDisjoint ==
  ASSUME OneClient
  PROVE  Spec => SessionsDisjoint
<1>1. Init => AllClosedLate
  BY InitUnlisted DEF Unlisted, AllClosedLate, ClosedLate, Closed
<1>2. AllClosedLate /\ (ClockOK /\ TypeOK) /\ [Next]_vars => AllClosedLate'
  BY ClosedLateStep
<1>3. AllClosedLate /\ (ClockOK /\ TypeOK) /\ [Next]_vars =>
        [ \A a \in Addr : Reopens(a) =>
            /\ hosts'[a].event_seq = hosts[a].event_seq + 1
            /\ hosts'[a].event_opened_mono >= hosts[a].event_closed_mono ]_vars
  BY ReopensLate
<1> QED  BY <1>1, <1>2, <1>3, Invariance, PTL DEF Spec, SessionsDisjoint
=============================================================================
