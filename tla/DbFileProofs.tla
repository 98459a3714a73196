---------------------------- MODULE DbFileProofs ----------------------------
(***************************************************************************)
(* What an import makes of what an export left, for any addresses, names,  *)
(* traffic and times, databases of any size, and files that break off at   *)
(* any item, torn or not.                                                  *)
(*                                                                         *)
(* Items(D) is the file of a database D, and its shape says where in it    *)
(* each host, subtable and entry is.  What is in the file is always a      *)
(* beginning of Items(D) for the D of the last export, but for its last    *)
(* item, which may be torn.  An import is then at one of the places of     *)
(* that file: what it wants next is what the file has there, and what came *)
(* before is in hosts.  At a torn item it may be given anything, but then  *)
(* the file ends, with something left to read, unless the item was the     *)
(* last of all.                                                            *)
(***************************************************************************)
EXTENDS DbFile, SequenceTheorems, FiniteSetTheorems, WellFoundedInduction,
        TLAPS

(***************************************************************************)
(* Induction over the natural numbers, and sequences.                      *)
(***************************************************************************)
(* Every set of numbers has a least one.                                 *)
LEMMA Least ==
  ASSUME NEW S \in SUBSET Nat, S # {}
  PROVE  \E m \in S : \A k \in S : m <= k
<1>1. PICK m \in S : \A k \in S : ~ (<<k, m>> \in OpToRel(<, Nat))
  BY NatLessThanWellFounded, WFMin
<1>2. ASSUME NEW k \in S PROVE m <= k
  <2>1. ~ (<<k, m>> \in OpToRel(<, Nat))
    BY <1>1
  <2>2. ~ (k < m)
    BY <2>1 DEF OpToRel
  <2> QED
    BY <2>2
<1> QED
  BY <1>2

(* Induction, for sets of numbers.                                       *)
LEMMA Induction ==
  ASSUME NEW S \in SUBSET Nat, 0 \in S, \A n \in S : n + 1 \in S
  PROVE  \A n \in Nat : n \in S
<1> SUFFICES ASSUME Nat \ S # {} PROVE FALSE
  OBVIOUS
<1>1. PICK m \in Nat \ S : \A k \in Nat \ S : m <= k
  BY Least
<1>2. m # 0 /\ m - 1 \in Nat /\ ~(m <= m - 1)
  OBVIOUS
<1>3. m - 1 \in S
  BY <1>1, <1>2
<1>4. (m - 1) + 1 = m
  OBVIOUS
<1> QED BY <1>1, <1>3, <1>4

(* Sums of lengths.                                                      *)
LEMMA Sums ==
  /\ \A a, b, c, d \in Nat : c <= a /\ d = a + b => c <= d
  /\ \A a, b, d \in Nat : \A r \in 1..b : d = a + b => a + r \in 1..d
OBVIOUS

(* u is s followed by t.                                                 *)
Joint(u, s, t) ==
  /\ Len(u) = Len(s) + Len(t)
  /\ \A j \in 1..Len(s) : u[j] = s[j]
  /\ \A r \in 1..Len(t) : u[Len(s) + r] = t[r]

(* Two sequences joined.                                                 *)
LEMMA Concat ==
  ASSUME NEW S, NEW s \in Seq(S), NEW t \in Seq(S)
  PROVE  /\ s \o t \in Seq(S) /\ Len(s) \in Nat /\ Len(t) \in Nat
         /\ Joint(s \o t, s, t)
<1>1. Len(s) \in Nat /\ Len(t) \in Nat
  BY LenProperties
<1>2. /\ s \o t \in Seq(S)
      /\ Len(s \o t) = Len(s) + Len(t)
      /\ \A i \in 1 .. Len(s) + Len(t) :
           (s \o t)[i] = IF i <= Len(s) THEN s[i] ELSE t[i - Len(s)]
  BY ConcatProperties
<1>3. ASSUME NEW j \in 1..Len(s) PROVE (s \o t)[j] = s[j]
  BY <1>1, <1>2
<1>4. ASSUME NEW r \in 1..Len(t) PROVE (s \o t)[Len(s) + r] = t[r]
  <2> DEFINE p == Len(s) + r
  <2>1. p \in 1 .. Len(s) + Len(t) /\ ~(p <= Len(s)) /\ p - Len(s) = r
    BY <1>1
  <2> HIDE DEF p
  <2>2. (s \o t)[p] = t[r]
    BY <1>2, <2>1
  <2> QED BY <2>2 DEF p
<1> QED BY <1>1, <1>2, <1>3, <1>4 DEF Joint

(***************************************************************************)
(* FlattenSeq, a recursive function: where each of the sequences it joins  *)
(* starts.                                                                 *)
(***************************************************************************)
(* fl[i] is what the first i sequences come to.                          *)
Joined(seqs, fl) ==
  fl[0] = <<>> /\ \A i \in 1..Len(seqs) : fl[i] = fl[i-1] \o seqs[i]

(* There is such a function.                                             *)
LEMMA JoinedExists ==
  ASSUME NEW S, NEW seqs \in Seq(Seq(S))
  PROVE  \E fl : Joined(seqs, fl)
<1> DEFINE Upto(fl, n) == /\ fl[0] = <<>>
                          /\ \A i \in 1..Len(seqs) : i <= n => fl[i] = fl[i-1] \o seqs[i]
           Good == {n \in Nat : \E fl : Upto(fl, n)}
<1>1. 0 \in Good
  <2> DEFINE fl == [i \in {0} |-> <<>>]
  <2>1. fl[0] = <<>>
    OBVIOUS
  <2>2. \A i \in 1..Len(seqs) : ~(i <= 0)
    OBVIOUS
  <2> HIDE DEF fl
  <2>3. Upto(fl, 0)
    BY <2>1, <2>2
  <2> QED BY <2>3
<1>2. ASSUME NEW n \in Good PROVE n + 1 \in Good
  <2>1. PICK fl : Upto(fl, n)
    OBVIOUS
  <2> DEFINE fl2 == [i \in 0..n+1 |-> IF i = n + 1 THEN fl[n] \o seqs[n+1] ELSE fl[i]]
  <2>2. fl2[0] = <<>>
    BY <2>1
  <2>3. ASSUME NEW i \in 1..Len(seqs), i <= n + 1 PROVE fl2[i] = fl2[i-1] \o seqs[i]
    <3>1. CASE i = n + 1
      <4>1. fl2[i] = fl[n] \o seqs[i]
        <5>1. i \in 0..n+1
          <6>1. n \in Nat
            OBVIOUS
          <6> HIDE DEF fl2, Upto, Good
          <6> QED BY <3>1, <6>1
        <5> QED BY <3>1, <5>1
      <4>2. i - 1 = n /\ n # n + 1 /\ n \in 0..n+1
        <5>1. n \in Nat
          OBVIOUS
        <5> HIDE DEF fl2, Upto, Good
        <5> QED BY <3>1, <5>1
      <4>3. fl2[i-1] = fl[n]
        BY <4>2
      <4> HIDE DEF fl2
      <4> QED BY <4>1, <4>3
    <3>2. CASE i <= n
      <4>1. fl2[i] = fl[i] /\ fl2[i-1] = fl[i-1]
        BY <3>2
      <4> QED BY <4>1, <3>2, <2>1
    <3>3. i = n + 1 \/ i <= n
      BY <2>3
    <3> QED BY <3>1, <3>2, <3>3
  <2>4. Upto(fl2, n + 1)
    BY <2>2, <2>3
  <2> HIDE DEF fl2, Upto
  <2> QED BY <2>4
<1>3. Len(seqs) \in Good
  <2> HIDE DEF Good
  <2>1. Good \subseteq Nat
    BY DEF Good
  <2> QED BY <1>1, <1>2, <2>1, Induction, LenProperties
<1>4. PICK fl : Upto(fl, Len(seqs))
  BY <1>3
<1>5. \A i \in 1..Len(seqs) : i <= Len(seqs)
  BY LenProperties
<1>6. Joined(seqs, fl)
  BY <1>4, <1>5 DEF Joined
<1> QED BY <1>6

(* The joins of seqs.                                                    *)
Joins(seqs) == CHOOSE fl : Joined(seqs, fl)

(* Where the sequence after the first i starts.                          *)
Start(seqs, i) == Len(Joins(seqs)[i])

(* Each of the joins is a sequence.                                      *)
LEMMA JoinTypes ==
  ASSUME NEW S, NEW seqs \in Seq(Seq(S))
  PROVE  Joined(seqs, Joins(seqs)) /\ \A i \in 0..Len(seqs) : Joins(seqs)[i] \in Seq(S)
<1> DEFINE fl == Joins(seqs)
           Good == {n \in Nat : n <= Len(seqs) => fl[n] \in Seq(S)}
<1>1. Joined(seqs, fl)
  BY JoinedExists DEF Joins
<1> HIDE DEF fl
<1>2. 0 \in Good
  BY <1>1, EmptySeq DEF Joined
<1>3. ASSUME NEW n \in Good PROVE n + 1 \in Good
  <2> SUFFICES ASSUME n + 1 <= Len(seqs) PROVE fl[n+1] \in Seq(S)
    OBVIOUS
  <2>1. fl[n] \in Seq(S) /\ n + 1 \in 1..Len(seqs) /\ (n + 1) - 1 = n
    BY LenProperties
  <2>2. seqs[n+1] \in Seq(S)
    BY <2>1, ElementOfSeq
  <2>3. fl[n+1] = fl[n] \o seqs[n+1]
    BY <1>1, <2>1 DEF Joined
  <2> QED BY <2>1, <2>2, <2>3, ConcatProperties
<1>4. \A n \in Nat : n \in Good
  <2> HIDE DEF Good
  <2>1. Good \subseteq Nat
    BY DEF Good
  <2> QED BY <1>2, <1>3, <2>1, Induction
<1>5. \A i \in 0..Len(seqs) : fl[i] \in Seq(S)
  BY <1>4, LenProperties
<1> QED BY <1>1, <1>5 DEF fl

(* The last of the joins is what FlattenSeq computes.                    *)
LEMMA JoinsFlatten ==
  ASSUME NEW S, NEW seqs \in Seq(Seq(S))
  PROVE  FlattenSeq(seqs) = Joins(seqs)[Len(seqs)]
<1> DEFINE J == Joins(seqs)
           n == Len(seqs)
<1>1. Joined(seqs, J) /\ n \in Nat
  BY JoinTypes, LenProperties
<1> HIDE DEF J
<1>2. CASE n = 0
  <2>1. seqs = <<>>
    BY <1>2, EmptySeq, LenProperties
  <2>2. FlattenSeq(seqs) = seqs
    BY <1>2 DEF FlattenSeq
  <2> QED BY <1>1, <1>2, <2>1, <2>2 DEF Joined, J
<1>3. CASE n # 0
  <2> DEFINE Flattens(g) == g = [i \in 1..n |-> IF i = 1 THEN seqs[i] ELSE g[i-1] \o seqs[i]]
             g == [i \in 1..n |-> J[i]]
             h == CHOOSE f : Flattens(f)
  <2>1. Flattens(g)
    <3>1. ASSUME NEW i \in 1..n
          PROVE  g[i] = IF i = 1 THEN seqs[i] ELSE g[i-1] \o seqs[i]
      <4>1. J[i] = J[i-1] \o seqs[i] /\ g[i] = J[i]
        BY <1>1 DEF Joined
      <4>2. CASE i = 1
        <5>1. J[i-1] = <<>> /\ seqs[i] \in Seq(S)
          BY <1>1, <4>2, ElementOfSeq DEF Joined
        <5> QED BY <4>1, <4>2, <5>1, ConcatEmptySeq
      <4>3. CASE i # 1
        <5>1. i - 1 \in 1..n
          BY <1>1, <4>3
        <5>2. g[i-1] = J[i-1]
          BY <5>1
        <5> HIDE DEF g
        <5> QED BY <4>1, <4>3, <5>2
      <4> QED BY <4>2, <4>3
    <3> QED BY <3>1
  <2>2. Flattens(h)
    <3> HIDE DEF Flattens, g
    <3> QED BY <2>1
  <2>3. FlattenSeq(seqs) = h[n]
    BY <1>3 DEF FlattenSeq
  <2> DEFINE Good == {m \in Nat : m \in 1..n => h[m] = J[m]}
  <2>4. 0 \in Good
    OBVIOUS
  <2>5. ASSUME NEW m \in Good PROVE m + 1 \in Good
    <3> SUFFICES ASSUME m + 1 \in 1..n PROVE h[m+1] = J[m+1]
      OBVIOUS
    <3> DEFINE k == m + 1
    <3>1. k \in 1..n /\ k - 1 = m /\ m \in Nat
      OBVIOUS
    <3>2. h[k] = IF k = 1 THEN seqs[k] ELSE h[k-1] \o seqs[k]
      <4> HIDE DEF h, k
      <4> QED BY <2>2, <3>1
    <3>3. J[k] = J[k-1] \o seqs[k]
      BY <1>1, <3>1 DEF Joined
    <3>4. CASE m = 0
      <4>1. J[k-1] = <<>> /\ seqs[k] \in Seq(S) /\ k = 1
        BY <1>1, <3>1, <3>4, ElementOfSeq DEF Joined
      <4> HIDE DEF h
      <4> QED BY <3>2, <3>3, <4>1, ConcatEmptySeq
    <3>5. CASE m # 0
      <4>1. m \in 1..n /\ k # 1
        BY <3>1, <3>5, <1>1
      <4>2. h[m] = J[m]
        BY <4>1
      <4> HIDE DEF h
      <4> QED BY <3>1, <3>2, <3>3, <4>1, <4>2
    <3> QED BY <3>4, <3>5
  <2>6. n \in Good
    <3> HIDE DEF Good
    <3>1. Good \subseteq Nat
      BY DEF Good
    <3> QED BY <1>1, <2>4, <2>5, <3>1, Induction
  <2>7. n \in 1..n
    BY <1>1, <1>3
  <2> HIDE DEF h
  <2> QED BY <2>3, <2>6, <2>7 DEF J
<1> QED BY <1>2, <1>3

(* An earlier join is the beginning of a later one.                      *)
LEMMA JoinsExtend ==
  ASSUME NEW S, NEW seqs \in Seq(Seq(S)), NEW i \in 0..Len(seqs)
  PROVE  \A m \in i..Len(seqs) :
           /\ Len(Joins(seqs)[i]) <= Len(Joins(seqs)[m])
           /\ \A j \in 1..Len(Joins(seqs)[i]) : Joins(seqs)[m][j] = Joins(seqs)[i][j]
<1> DEFINE J == Joins(seqs)
           n == Len(seqs)
           Extends(m) == /\ Len(J[i]) <= Len(J[m])
                         /\ \A j \in 1..Len(J[i]) : J[m][j] = J[i][j]
           Good == {m \in Nat : i <= m /\ m <= n => Extends(m)}
<1>1. /\ Joined(seqs, J) /\ n \in Nat /\ i \in Nat /\ i <= n
      /\ \A k \in 0..n : J[k] \in Seq(S) /\ Len(J[k]) \in Nat
  BY JoinTypes, LenProperties
<1> HIDE DEF J, n
<1>2. Extends(i)
  BY <1>1
<1>3. 0 \in Good
  BY <1>1, <1>2
<1>4. ASSUME NEW m \in Good PROVE m + 1 \in Good
  <2> SUFFICES ASSUME i <= m + 1, m + 1 <= n PROVE Extends(m + 1)
    OBVIOUS
  <2>1. m \in Nat /\ (i = m + 1 \/ i <= m)
    BY <1>1
  <2>2. CASE i = m + 1
    BY <1>2, <2>2
  <2>3. CASE i <= m
    <3>1. Extends(m)
      BY <1>1, <2>1, <2>3
    <3>2. m + 1 \in 1..n /\ m \in 0..n /\ (m + 1) - 1 = m
      BY <1>1, <2>1
    <3>3. J[m+1] = J[m] \o seqs[m+1]
      BY <1>1, <3>2 DEF Joined, n
    <3>4. J[m] \in Seq(S) /\ seqs[m+1] \in Seq(S) /\ Len(J[m]) \in Nat
          /\ Len(seqs[m+1]) \in Nat /\ Len(J[i]) \in Nat
      BY <1>1, <3>2, ElementOfSeq, LenProperties DEF n
    <3>5. /\ Len(J[m+1]) = Len(J[m]) + Len(seqs[m+1])
          /\ \A j \in 1..Len(J[m]) : J[m+1][j] = J[m][j]
      <4>1. Joint(J[m] \o seqs[m+1], J[m], seqs[m+1])
        BY <3>4, Concat
      <4> QED BY <3>3, <4>1 DEF Joint
    <3>6. Len(J[i]) <= Len(J[m+1])
      <4>1. Len(J[i]) <= Len(J[m])
        BY <3>1
      <4>2. Len(J[m+1]) = Len(J[m]) + Len(seqs[m+1])
        BY <3>5
      <4>3. Len(J[m]) \in Nat /\ Len(seqs[m+1]) \in Nat /\ Len(J[i]) \in Nat
        BY <3>4
      <4> DEFINE a == Len(J[m])
                 b == Len(seqs[m+1])
                 c == Len(J[i])
                 d == Len(J[m+1])
      <4>4. c <= a /\ d = a + b /\ a \in Nat /\ b \in Nat /\ c \in Nat
        BY <4>1, <4>2, <4>3
      <4>5. c <= d
        <5> HIDE DEF a, b, c, d
        <5> QED BY <4>4
      <4> QED BY <4>5
    <3>7. ASSUME NEW j \in 1..Len(J[i]) PROVE J[m+1][j] = J[i][j]
      <4>1. j \in 1..Len(J[m])
        BY <3>1, <3>4
      <4> QED BY <3>1, <3>5, <4>1
    <3> QED BY <3>6, <3>7
  <2> QED BY <2>1, <2>2, <2>3
<1>5. \A m \in Nat : m \in Good
  <2> HIDE DEF Good
  <2>1. Good \subseteq Nat
    BY DEF Good
  <2> QED BY <1>3, <1>4, <2>1, Induction
<1>6. ASSUME NEW m \in i..n PROVE Extends(m)
  <2>1. m \in Nat /\ i <= m /\ m <= n
    BY <1>1
  <2>2. m \in Good
    BY <1>5, <2>1
  <2> HIDE DEF Extends
  <2> QED BY <2>1, <2>2
<1> QED BY <1>6 DEF n, J

(* Where FlattenSeq puts the sequences it joins.                         *)
LEMMA Flattened ==
  ASSUME NEW S, NEW seqs \in Seq(Seq(S))
  PROVE  /\ FlattenSeq(seqs) \in Seq(S)
         /\ Len(FlattenSeq(seqs)) = Start(seqs, Len(seqs))
         /\ Start(seqs, 0) = 0
         /\ \A i \in 0..Len(seqs) : Start(seqs, i) \in Nat
         /\ \A i \in 1..Len(seqs) :
              /\ Start(seqs, i) = Start(seqs, i-1) + Len(seqs[i])
              /\ Start(seqs, i) <= Start(seqs, Len(seqs))
              /\ \A r \in 1..Len(seqs[i]) :
                   FlattenSeq(seqs)[Start(seqs, i-1) + r] = seqs[i][r]
<1> DEFINE J == Joins(seqs)
           n == Len(seqs)
<1>1. /\ Joined(seqs, J) /\ n \in Nat
      /\ \A k \in 0..n : J[k] \in Seq(S) /\ Len(J[k]) \in Nat
  BY JoinTypes, LenProperties
<1>2. FlattenSeq(seqs) = J[n]
  BY JoinsFlatten
<1>3. \A i : Start(seqs, i) = Len(J[i])
  BY DEF Start
<1> HIDE DEF J
<1>4. FlattenSeq(seqs) \in Seq(S) /\ n \in 0..n
  BY <1>1, <1>2
<1>5. Start(seqs, 0) = 0
  BY <1>1, <1>3, EmptySeq DEF Joined
<1>6. ASSUME NEW i \in 1..n
      PROVE  /\ Start(seqs, i) = Start(seqs, i-1) + Len(seqs[i])
             /\ Start(seqs, i) <= Start(seqs, n)
             /\ \A r \in 1..Len(seqs[i]) :
                  FlattenSeq(seqs)[Start(seqs, i-1) + r] = seqs[i][r]
  <2>1. i - 1 \in 0..n /\ i \in 0..n
    BY <1>1
  <2>2. J[i] = J[i-1] \o seqs[i]
    BY <1>1 DEF Joined
  <2>3. J[i-1] \in Seq(S) /\ seqs[i] \in Seq(S)
    BY <1>1, <2>1, ElementOfSeq
  <2>4. /\ Len(J[i-1]) \in Nat /\ Len(seqs[i]) \in Nat
        /\ Len(J[i]) = Len(J[i-1]) + Len(seqs[i])
        /\ \A r \in 1..Len(seqs[i]) : J[i][Len(J[i-1]) + r] = seqs[i][r]
    <3>1. /\ Len(J[i-1]) \in Nat /\ Len(seqs[i]) \in Nat
          /\ Joint(J[i-1] \o seqs[i], J[i-1], seqs[i])
      BY <2>3, Concat
    <3> QED BY <2>2, <3>1 DEF Joint
  <2>5. n \in i..n
    BY <1>1
  <2>6. /\ Len(J[i]) <= Len(J[n])
        /\ \A j \in 1..Len(J[i]) : J[n][j] = J[i][j]
    BY <2>1, <2>5, JoinsExtend DEF J
  <2>7. ASSUME NEW r \in 1..Len(seqs[i])
        PROVE  J[n][Len(J[i-1]) + r] = seqs[i][r]
    <3>1. Len(J[i-1]) + r \in 1..Len(J[i])
      <4>1. Len(J[i]) \in Nat
        BY <1>1, <2>1
      <4> QED BY <2>4, <4>1, Sums
    <3> QED BY <2>4, <2>6, <3>1
  <2>8. Start(seqs, i) = Start(seqs, i-1) + Len(seqs[i])
    BY <1>3, <2>4
  <2>9. Start(seqs, i) <= Start(seqs, n)
    BY <1>3, <2>6
  <2>10. ASSUME NEW r \in 1..Len(seqs[i])
         PROVE  FlattenSeq(seqs)[Start(seqs, i-1) + r] = seqs[i][r]
    BY <1>2, <1>3, <2>7
  <2> QED BY <2>8, <2>9, <2>10
<1> QED BY <1>1, <1>2, <1>3, <1>4, <1>5, <1>6

(* SetToSeq lists the elements of a finite set, each once.               *)
LEMMA Listed ==
  ASSUME NEW S, IsFiniteSet(S)
  PROVE  /\ SetToSeq(S) \in Seq(S)
         /\ Len(SetToSeq(S)) = Cardinality(S)
         /\ Len(SetToSeq(S)) \in Nat
         /\ \A i \in 1..Len(SetToSeq(S)) : SetToSeq(S)[i] \in S
         /\ \A x \in S : \E i \in 1..Len(SetToSeq(S)) : SetToSeq(S)[i] = x
<1> DEFINE n == Cardinality(S)
           f == SetToSeq(S)
<1>1. n \in Nat /\ ExistsBijection(1..n, S)
  BY FS_CardinalityType
<1>2. \E g \in [1..n -> S] : IsInjective(g)
  BY <1>1 DEF ExistsBijection, Bijection, Injection
<1>3. f \in [1..n -> S] /\ IsInjective(f)
  BY <1>2 DEF SetToSeq
<1>4. f \in Injection(1..n, S)
  BY <1>3 DEF Injection
<1>5. IsFiniteSet(1..n) /\ Cardinality(1..n) = n
  BY <1>1, FS_Interval
<1>6. f \in Surjection(1..n, S)
  BY <1>4, <1>5, FS_Injection
<1>7. \A x \in S : \E i \in 1..n : f[i] = x
  BY <1>6 DEF Surjection
<1> HIDE DEF f, n
<1>8. f \in Seq(S) /\ Len(f) = n
  BY <1>1, <1>3
<1> QED BY <1>1, <1>3, <1>7, <1>8 DEF f, n

(***************************************************************************)
(* Sequences with elements of no particular set: the values in a file are  *)
(* of many kinds.                                                          *)
(***************************************************************************)
(* A sequence of something.                                              *)
Sequence(s) == \E S : s \in Seq(S)

(* What a sequence is made of.                                           *)
LEMMA SeqShape ==
  ASSUME NEW s, Sequence(s)
  PROVE  /\ Len(s) \in Nat /\ DOMAIN s = 1..Len(s)
         /\ s # <<>> <=> Len(s) # 0
         /\ s = [i \in 1..Len(s) |-> s[i]]
<1>1. PICK S : s \in Seq(S)
  BY DEF Sequence
<1> QED BY <1>1, LenProperties, EmptySeq

(* Sequences with the same elements are the same.                        *)
LEMMA SameSeq ==
  ASSUME NEW s, NEW t, Sequence(s), Sequence(t), Len(s) = Len(t),
         \A i \in 1..Len(s) : s[i] = t[i]
  PROVE  s = t
<1>1. s = [i \in 1..Len(s) |-> s[i]] /\ t = [i \in 1..Len(t) |-> t[i]]
  BY SeqShape
<1> QED BY <1>1

(* A sequence over a set is one over a larger set.                       *)
LEMMA Widen ==
  ASSUME NEW S, NEW T, NEW s \in Seq(S), S \subseteq T
  PROVE  s \in Seq(T)
OBVIOUS

(* Concat, for sequences of whatever.                                    *)
LEMMA SeqConcat ==
  ASSUME NEW s, NEW t, Sequence(s), Sequence(t)
  PROVE  /\ Sequence(s \o t) /\ Joint(s \o t, s, t)
<1>1. PICK S : s \in Seq(S)
  BY DEF Sequence
<1>2. PICK T : t \in Seq(T)
  BY DEF Sequence
<1> DEFINE U == S \cup T
<1>3. s \in Seq(U) /\ t \in Seq(U)
  BY <1>1, <1>2, Widen
<1> HIDE DEF U
<1> QED BY <1>3, Concat DEF Sequence

(* Joining sequences is associative.                                     *)
LEMMA Assoc ==
  ASSUME NEW s, NEW t, NEW u, Sequence(s), Sequence(t), Sequence(u)
  PROVE  (s \o t) \o u = s \o (t \o u)
<1> DEFINE st == s \o t
           tu == t \o u
           l  == st \o u
           r  == s \o tu
           a  == Len(s)
           b  == Len(t)
           c  == Len(u)
<1>1. /\ Sequence(st) /\ Sequence(tu) /\ Joint(st, s, t) /\ Joint(tu, t, u)
  BY SeqConcat
<1> HIDE DEF st, tu
<1>2. Sequence(l) /\ Sequence(r) /\ Joint(l, st, u) /\ Joint(r, s, tu)
  BY <1>1, SeqConcat
<1> HIDE DEF l, r
<1>3. a \in Nat /\ b \in Nat /\ c \in Nat
  BY SeqShape
<1>4. Len(st) = a + b /\ Len(tu) = b + c /\ Len(l) = Len(st) + c /\ Len(r) = a + Len(tu)
  BY <1>1, <1>2 DEF Joint
<1>5. \A i \in 1..a : st[i] = s[i] /\ r[i] = s[i]
  BY <1>1, <1>2 DEF Joint
<1>6. \A i \in 1..b : st[a + i] = t[i] /\ tu[i] = t[i]
  BY <1>1, <1>2 DEF Joint
<1>7. \A i \in 1..c : tu[b + i] = u[i] /\ l[Len(st) + i] = u[i]
  BY <1>1, <1>2 DEF Joint
<1>8. /\ \A i \in 1..Len(st) : l[i] = st[i]
      /\ \A i \in 1..Len(tu) : r[a + i] = tu[i]
  BY <1>1, <1>2 DEF Joint
<1> HIDE DEF a, b, c
<1>9. ASSUME NEW i \in 1..Len(l) PROVE l[i] = r[i]
  <2>1. CASE i \in 1..a
    <3>1. i \in 1..Len(st)
      BY <2>1, <1>3, <1>4
    <3> QED BY <2>1, <3>1, <1>5, <1>8
  <2>2. CASE i \in (a+1)..(a+b)
    <3> DEFINE j == i - a
    <3>1. j \in 1..b /\ i = a + j /\ j \in 1..Len(tu) /\ i \in 1..Len(st)
      BY <2>2, <1>3, <1>4
    <3> HIDE DEF j
    <3> QED BY <3>1, <1>6, <1>8
  <2>3. CASE i \in (a+b+1)..(a+b+c)
    <3> DEFINE j == i - a - b
    <3>1. j \in 1..c /\ i = Len(st) + j /\ b + j \in 1..Len(tu) /\ i = a + (b + j)
      BY <2>3, <1>3, <1>4
    <3> HIDE DEF j
    <3>2. l[i] = u[j]
      BY <3>1, <1>7
    <3>3. r[a + (b + j)] = tu[b + j]
      BY <3>1, <1>8
    <3>4. tu[b + j] = u[j]
      BY <3>1, <1>7
    <3> QED BY <3>1, <3>2, <3>3, <3>4
  <2> QED BY <2>1, <2>2, <2>3, <1>3, <1>4
<1>10. Len(l) = Len(r)
  BY <1>3, <1>4
<1>11. l = r
  BY <1>2, <1>9, <1>10, SameSeq
<1> QED BY <1>11 DEF l, r, st, tu

(* q is a list of n things.                                              *)
IsList(q, n) == q = [i \in 1..n |-> q[i]]

(* Flattened, for sequences of whatever.                                 *)
LEMMA Flat ==
  ASSUME NEW n \in Nat, NEW q, IsList(q, n),
         \A i \in 1..n : Sequence(q[i])
  PROVE  /\ Sequence(FlattenSeq(q))
         /\ Len(FlattenSeq(q)) = Start(q, n)
         /\ Start(q, 0) = 0
         /\ \A i \in 0..n : Start(q, i) \in Nat
         /\ \A i \in 1..n :
              /\ Start(q, i) = Start(q, i-1) + Len(q[i])
              /\ Start(q, i) <= Start(q, n)
              /\ \A r \in 1..Len(q[i]) : FlattenSeq(q)[Start(q, i-1) + r] = q[i][r]
<1> DEFINE S == UNION {{q[i][j] : j \in 1..Len(q[i])} : i \in 1..n}
<1>1. ASSUME NEW i \in 1..n PROVE q[i] \in Seq(S)
  <2> DEFINE s == q[i]
  <2>1. Len(s) \in Nat /\ s = [j \in 1..Len(s) |-> s[j]]
    BY SeqShape
  <2>2. \A j \in 1..Len(s) : s[j] \in S
    OBVIOUS
  <2> HIDE DEF s, S
  <2>3. s \in Seq(S)
    BY <2>1, <2>2
  <2> QED BY <2>3 DEF s
<1> HIDE DEF S
<1>2. q \in Seq(Seq(S)) /\ Len(q) = n
  BY <1>1 DEF IsList
<1> QED BY <1>2, Flattened DEF Sequence

(***************************************************************************)
(* The hosts, and the file of a subtable and of a host.                    *)
(***************************************************************************)
(* A host as the code keeps it, with finite subtables.                   *)
IsTable(f) == IsFiniteSet(DOMAIN f) /\ f = [k \in DOMAIN f |-> f[k]]
IsHost(h) ==
  /\ h = [last_seen |-> h.last_seen, name |-> h.name, bytes |-> h.bytes,
          tables |-> h.tables]
  /\ h.last_seen \in Int
  /\ h.tables = [T \in ToSet(Tables) |-> h.tables[T]]
  /\ \A T \in ToSet(Tables) : IsTable(h.tables[T])
IsDb(H) ==
  /\ IsFiniteSet(DOMAIN H) /\ H = [a \in DOMAIN H |-> H[a]]
  /\ \A a \in DOMAIN H : IsHost(H[a])

(* The keys of a subtable are protocols or ports, and it counts.         *)
ProperKeys(T) == IF T = "ip" THEN (0..ProtoLimit - 1) \ {IPPROTO_INVALID}
                             ELSE 0..PortLimit - 1
ProperTable(T, f) ==
  /\ IsTable(f) /\ DOMAIN f \subseteq ProperKeys(T)
  /\ \A k \in DOMAIN f : f[k] \in Nat
Proper(H) == \A a \in DOMAIN H : \A T \in ToSet(Tables) : ProperTable(T, H[a].tables[T])

(* No subtable of ports is fuller than --ports-max allows.               *)
SmallTable(T, f, m) == ProperTable(T, f) /\ (T # "ip" => Cardinality(DOMAIN f) <= m)
Small(H, m) == \A a \in DOMAIN H : \A T \in ToSet(Tables) : SmallTable(T, H[a].tables[T], m)

(* Sequences written out.                                                *)
LEMMA ShortSeqs ==
  /\ Sequence(<<>>)
  /\ \A a : Sequence(<<a>>) /\ Len(<<a>>) = 1 /\ <<a>>[1] = a
  /\ \A a, b : Sequence(<<a, b>>) /\ Len(<<a, b>>) = 2
               /\ <<a, b>>[1] = a /\ <<a, b>>[2] = b
<1>1. \A a : <<a>> \in Seq({a})
  OBVIOUS
<1>2. \A a, b : <<a, b>> \in Seq({a, b})
  OBVIOUS
<1>3. <<>> \in Seq({})
  OBVIOUS
<1> QED BY <1>1, <1>2, <1>3 DEF Sequence

(* The same, of three elements and more.                                 *)
LEMMA LongerSeqs ==
  /\ \A a, b, c : Sequence(<<a, b, c>>) /\ Len(<<a, b, c>>) = 3
  /\ \A a, b, c, d : Sequence(<<a, b, c, d>>) /\ Len(<<a, b, c, d>>) = 4
  /\ \A a, b, c, d, e : Sequence(<<a, b, c, d, e>>) /\ Len(<<a, b, c, d, e>>) = 5
<1>1. \A a, b, c : <<a, b, c>> \in Seq({a, b, c})
  OBVIOUS
<1>2. \A a, b, c, d : <<a, b, c, d>> \in Seq({a, b, c, d})
  OBVIOUS
<1>3. \A a, b, c, d, e : <<a, b, c, d, e>> \in Seq({a, b, c, d, e})
  OBVIOUS
<1> QED BY <1>1, <1>2, <1>3 DEF Sequence

(* What SubSeq cuts out.                                                 *)
LEMMA SubSeqShape ==
  ASSUME NEW s, Sequence(s), NEW m \in Nat \ {0}, NEW n \in Nat, n <= Len(s), m <= n + 1
  PROVE  /\ Sequence(SubSeq(s, m, n)) /\ Len(SubSeq(s, m, n)) = n - m + 1
         /\ \A i \in 1..(n - m + 1) : SubSeq(s, m, n)[i] = s[m + i - 1]
<1>1. PICK S : s \in Seq(S)
  BY DEF Sequence
<1>2. Len(s) \in Nat /\ \A i \in 1..Len(s) : s[i] \in S
  BY <1>1
<1>3. \A i \in m..n : s[i] \in S
  BY <1>2
<1>4. /\ SubSeq(s, m, n) \in Seq(S)
      /\ Len(SubSeq(s, m, n)) = IF m <= n THEN n - m + 1 ELSE 0
      /\ \A i \in 1..n-m+1 : SubSeq(s, m, n)[i] = s[m + i - 1]
  BY <1>3, SubSeqProperties
<1> QED BY <1>4 DEF Sequence

(* The number of fields before the subtables of a record of version v,   *)
(* and their kinds.                                                      *)
Fields(v) == IF v > 1 THEN <<"host", "addr", "last_seen", "name", "bytes">>
             ELSE <<"host", "addr", "name", "bytes">>

(* The value of the field f in the record, of version v, of the host h   *)
(* at a, seen at t.                                                      *)
Field(f, v, a, h, t) ==
  CASE f = "host" -> v [] f = "addr" -> a [] f = "last_seen" -> t
    [] f = "name" -> h.name [] f = "bytes" -> h.bytes

(* The five subtables.                                                   *)
LEMMA TablesFacts ==
  /\ Sequence(Tables) /\ Len(Tables) = 5 /\ ToSet(Tables) = {Tables[t] : t \in 1..5}
  /\ Tables[1] = "ip" /\ Tables[2] = "tcp" /\ Tables[3] = "udp"
  /\ Tables[4] = "tcp_remote" /\ Tables[5] = "udp_remote"
<1>1. Sequence(Tables) /\ Len(Tables) = 5
  BY LongerSeqs DEF Tables
<1>2. ToSet(Tables) = {Tables[t] : t \in 1..5}
  BY <1>1, SeqShape DEF ToSet
<1> QED BY <1>1, <1>2 DEF Tables, Sequence

(* Those of a version are the first three, or all of them.               *)
LEMMA TablesOfFacts ==
  ASSUME NEW v \in 1..4
  PROVE  /\ Sequence(TablesOf(v)) /\ Len(TablesOf(v)) \in {3, 5}
         /\ v = 4 => Len(TablesOf(v)) = 5
         /\ \A t \in 1..Len(TablesOf(v)) : TablesOf(v)[t] = Tables[t]
                                           /\ TablesOf(v)[t] \in ToSet(Tables)
<1>1. Sequence(Tables) /\ Len(Tables) = 5
  BY LongerSeqs DEF Tables
<1>2. CASE v = 4
  BY <1>2, TablesFacts DEF TablesOf
<1>3. CASE v # 4
  <2>1. TablesOf(v) = SubSeq(Tables, 1, 3)
    BY <1>3 DEF TablesOf
  <2>2. /\ Sequence(SubSeq(Tables, 1, 3)) /\ Len(SubSeq(Tables, 1, 3)) = 3
        /\ \A t \in 1..3 : SubSeq(Tables, 1, 3)[t] = Tables[t]
    <3>1. \A i \in 1..3 : 1 + i - 1 = i
      OBVIOUS
    <3>2. /\ Sequence(SubSeq(Tables, 1, 3)) /\ Len(SubSeq(Tables, 1, 3)) = 3 - 1 + 1
          /\ \A t \in 1..(3 - 1 + 1) : SubSeq(Tables, 1, 3)[t] = Tables[1 + t - 1]
      <4> HIDE DEF Tables
      <4>1. 3 <= Len(Tables) /\ 1 <= 3 + 1 /\ 1 \in Nat \ {0} /\ 3 \in Nat
        BY <1>1
      <4> DEFINE b == 1
                 e == 3
      <4>2. b \in Nat \ {0} /\ e \in Nat /\ e <= Len(Tables) /\ b <= e + 1
        BY <4>1
      <4> HIDE DEF b, e
      <4>3. /\ Sequence(SubSeq(Tables, b, e)) /\ Len(SubSeq(Tables, b, e)) = e - b + 1
        BY <1>1, <4>2, SubSeqShape
      <4>4. \A t \in 1..(e - b + 1) : SubSeq(Tables, b, e)[t] = Tables[b + t - 1]
        BY <1>1, <4>2, SubSeqShape
      <4> QED BY <4>3, <4>4 DEF b, e
    <3> QED BY <3>1, <3>2
  <2> QED BY <1>3, <2>1, <2>2, TablesFacts DEF Sequence
<1> QED BY <1>2, <1>3

(* What hosts_db_export_tcp and its likes write for one subtable.        *)
LEMMA TableShape ==
  ASSUME NEW T, NEW f, IsTable(f)
  PROVE  /\ Sequence(Export_table(T, f))
         /\ Len(SetToSeq(DOMAIN f)) \in Nat
         /\ Len(SetToSeq(DOMAIN f)) = Cardinality(DOMAIN f)
         /\ Len(Export_table(T, f)) = 2 + Len(SetToSeq(DOMAIN f))
         /\ Export_table(T, f)[1] = Item("magic", T)
         /\ Export_table(T, f)[2] = Item(Count(T), Len(SetToSeq(DOMAIN f)))
         /\ \A r \in 1..Len(SetToSeq(DOMAIN f)) :
              Export_table(T, f)[2 + r] =
                Item("entry", <<SetToSeq(DOMAIN f)[r], f[SetToSeq(DOMAIN f)[r]]>>)
<1> DEFINE keys == SetToSeq(DOMAIN f)
           hd == <<Item("magic", T), Item(Count(T), Cardinality(DOMAIN f))>>
           es == [i \in 1..Len(keys) |-> Item("entry", <<keys[i], f[keys[i]]>>)]
           m  == Len(keys)
           x  == Export_table(T, f)
<1>1. m \in Nat /\ m = Cardinality(DOMAIN f)
  BY Listed DEF IsTable
<1>2. Sequence(hd) /\ Len(hd) = 2 /\ hd[1] = Item("magic", T)
      /\ hd[2] = Item(Count(T), m)
  BY ShortSeqs, <1>1
<1>3. Sequence(es) /\ Len(es) = m
      /\ \A r \in 1..m : es[r] = Item("entry", <<keys[r], f[keys[r]]>>)
  <2> DEFINE S == {Item("entry", <<keys[i], f[keys[i]]>>) : i \in 1..m}
  <2>1. \A r \in 1..m : es[r] \in S
    OBVIOUS
  <2> HIDE DEF S
  <2>2. es \in Seq(S) /\ Len(es) = m
    BY <1>1, <2>1
  <2> QED BY <2>2 DEF Sequence
<1>4. x = hd \o es
  BY DEF Export_table
<1> HIDE DEF hd, es, x, m
<1>5. Sequence(x) /\ Joint(x, hd, es)
  BY <1>2, <1>3, <1>4, SeqConcat
<1>6. /\ Len(x) = 2 + m /\ x[1] = hd[1] /\ x[2] = hd[2]
      /\ \A r \in 1..m : x[2 + r] = es[r]
  <2>1. /\ Len(x) = Len(hd) + Len(es)
        /\ \A j \in 1..Len(hd) : x[j] = hd[j]
        /\ \A r \in 1..Len(es) : x[Len(hd) + r] = es[r]
    BY <1>5 DEF Joint
  <2>2. Len(hd) = 2 /\ Len(es) = m /\ 1 \in 1..2 /\ 2 \in 1..2
    BY <1>2, <1>3
  <2> QED BY <2>1, <2>2
<1> QED BY <1>1, <1>2, <1>3, <1>5, <1>6 DEF m, x

(* The subtables of h in the file.                                       *)
TableSeqs(v, h) ==
  [t \in 1..Len(TablesOf(v)) |-> Export_table(TablesOf(v)[t], h.tables[TablesOf(v)[t]])]

(* What comes before them.                                               *)
Prefix(v, a, h, t) ==
  <<Item("host", v), Item("addr", a)>>
    \o (IF v > 1 THEN <<Item("last_seen", t)>> ELSE <<>>)
    \o <<Item("name", h.name), Item("bytes", h.bytes)>>

(* The fields of each version.                                           *)
LEMMA FieldsFacts ==
  ASSUME NEW v \in 1..4
  PROVE  /\ Sequence(Fields(v)) /\ Len(Fields(v)) \in {4, 5}
         /\ Fields(v)[1] = "host" /\ Fields(v)[2] = "addr"
         /\ v > 1 => Len(Fields(v)) = 5 /\ Fields(v)[3] = "last_seen"
                     /\ Fields(v)[4] = "name" /\ Fields(v)[5] = "bytes"
         /\ ~(v > 1) => Len(Fields(v)) = 4 /\ Fields(v)[3] = "name" /\ Fields(v)[4] = "bytes"
<1>1. CASE v > 1
  <2> DEFINE s == <<"host", "addr", "last_seen", "name", "bytes">>
  <2>1. Sequence(s) /\ Len(s) = 5
    BY LongerSeqs
  <2>2. Fields(v) = s
    BY <1>1 DEF Fields
  <2> QED BY <1>1, <2>1, <2>2
<1>2. CASE ~(v > 1)
  <2> DEFINE s == <<"host", "addr", "name", "bytes">>
  <2>1. Sequence(s) /\ Len(s) = 4
    BY LongerSeqs
  <2>2. Fields(v) = s
    BY <1>2 DEF Fields
  <2> QED BY <1>2, <2>1, <2>2
<1> QED BY <1>1, <1>2

(* The fields come in this order, with these values.                     *)
LEMMA PrefixShape ==
  ASSUME NEW v \in 1..4, NEW a, NEW h, NEW t
  PROVE  /\ Sequence(Prefix(v, a, h, t))
         /\ Len(Prefix(v, a, h, t)) = Len(Fields(v))
         /\ \A q \in 1..Len(Fields(v)) :
              Prefix(v, a, h, t)[q] = Item(Fields(v)[q], Field(Fields(v)[q], v, a, h, t))
<1> DEFINE p1 == <<Item("host", v), Item("addr", a)>>
           p2 == IF v > 1 THEN <<Item("last_seen", t)>> ELSE <<>>
           p3 == <<Item("name", h.name), Item("bytes", h.bytes)>>
           p12 == p1 \o p2
           p   == Prefix(v, a, h, t)
<1>1. /\ Sequence(p1) /\ Len(p1) = 2 /\ p1[1] = Item("host", v) /\ p1[2] = Item("addr", a)
      /\ Sequence(p3) /\ Len(p3) = 2 /\ p3[1] = Item("name", h.name)
      /\ p3[2] = Item("bytes", h.bytes)
  BY ShortSeqs
<1>2. /\ v > 1 => Sequence(p2) /\ Len(p2) = 1 /\ p2[1] = Item("last_seen", t)
      /\ ~(v > 1) => Sequence(p2) /\ Len(p2) = 0
  BY ShortSeqs, SeqShape
<1>3. p = p12 \o p3
  BY DEF Prefix
<1> HIDE DEF p1, p2, p3, p
<1>4. Sequence(p12) /\ Joint(p12, p1, p2)
  BY <1>1, <1>2, SeqConcat
<1> HIDE DEF p12
<1>5. Sequence(p) /\ Joint(p, p12, p3)
  BY <1>1, <1>3, <1>4, SeqConcat
<1>6. /\ Len(p) = Len(p12) + 2 /\ Len(p12) = 2 + Len(p2)
      /\ \A j \in 1..Len(p12) : p[j] = p12[j]
      /\ \A j \in 1..2 : p[Len(p12) + j] = p3[j]
      /\ \A j \in 1..2 : p12[j] = p1[j]
      /\ \A j \in 1..Len(p2) : p12[2 + j] = p2[j]
  BY <1>1, <1>4, <1>5 DEF Joint
<1>7. CASE v > 1
  <2>1. Len(p2) = 1 /\ Len(p12) = 3 /\ Len(p) = 5
    <3>1. Len(p2) = 1
      BY <1>2, <1>7
    <3>2. Len(p) = Len(p12) + 2 /\ Len(p12) = 2 + Len(p2)
      BY <1>6
    <3> QED BY <3>1, <3>2
  <2>2. /\ p[1] = Item("host", v) /\ p[2] = Item("addr", a) /\ p[3] = Item("last_seen", t)
        /\ p[4] = Item("name", h.name) /\ p[5] = Item("bytes", h.bytes)
    <3>1. p[1] = p1[1] /\ p[2] = p1[2]
      BY <1>6, <2>1
    <3>2. p[3] = p2[1]
      BY <1>6, <2>1
    <3>3. p[4] = p3[1] /\ p[5] = p3[2]
      BY <1>6, <2>1
    <3> QED BY <1>1, <1>2, <1>7, <3>1, <3>2, <3>3
  <2>3. /\ Field("host", v, a, h, t) = v /\ Field("addr", v, a, h, t) = a
        /\ Field("last_seen", v, a, h, t) = t /\ Field("name", v, a, h, t) = h.name
        /\ Field("bytes", v, a, h, t) = h.bytes
    BY DEF Field
  <2> HIDE DEF p
  <2> QED BY <1>5, <1>7, <2>1, <2>2, <2>3, FieldsFacts DEF p
<1>8. CASE ~(v > 1)
  <2>1. Len(p2) = 0 /\ Len(p12) = 2 /\ Len(p) = 4
    BY <1>2, <1>6, <1>8
  <2>2. /\ p[1] = Item("host", v) /\ p[2] = Item("addr", a)
        /\ p[3] = Item("name", h.name) /\ p[4] = Item("bytes", h.bytes)
    <3>1. p[1] = p1[1] /\ p[2] = p1[2]
      BY <1>6, <2>1
    <3>3. p[3] = p3[1] /\ p[4] = p3[2]
      BY <1>6, <2>1
    <3> QED BY <1>1, <3>1, <3>3
  <2>3. /\ Field("host", v, a, h, t) = v /\ Field("addr", v, a, h, t) = a
        /\ Field("name", v, a, h, t) = h.name
        /\ Field("bytes", v, a, h, t) = h.bytes
    BY DEF Field
  <2> QED BY <1>5, <1>8, <2>1, <2>2, <2>3, FieldsFacts DEF p
<1> QED BY <1>7, <1>8

(* Where the subtables of h are in x.                                    *)
TablesIn(x, v, h) ==
  \A i \in 1..Len(TablesOf(v)) :
    /\ Start(TableSeqs(v, h), i) =
         Start(TableSeqs(v, h), i-1) + (2 + Len(SetToSeq(DOMAIN h.tables[TablesOf(v)[i]])))
    /\ \A r \in 1 .. 2 + Len(SetToSeq(DOMAIN h.tables[TablesOf(v)[i]])) :
         /\ Start(TableSeqs(v, h), i-1) + r \in 1..Start(TableSeqs(v, h), Len(TablesOf(v)))
         /\ x[Len(Fields(v)) + (Start(TableSeqs(v, h), i-1) + r)] =
              Export_table(TablesOf(v)[i], h.tables[TablesOf(v)[i]])[r]

(* What hosts_db_export_ip and its likes write for one host.             *)
LEMMA HostShape ==
  ASSUME NEW v \in 1..4, NEW a, NEW h, NEW t, IsHost(h)
  PROVE  /\ Sequence(Export_host(v, a, h, t))
         /\ Len(Export_host(v, a, h, t)) =
              Len(Fields(v)) + Start(TableSeqs(v, h), Len(TablesOf(v)))
         /\ \A q \in 1..Len(Fields(v)) : Export_host(v, a, h, t)[q] =
                          Item(Fields(v)[q], Field(Fields(v)[q], v, a, h, t))
         /\ Start(TableSeqs(v, h), 0) = 0
         /\ \A i \in 0..Len(TablesOf(v)) : Start(TableSeqs(v, h), i) \in Nat
         /\ TablesIn(Export_host(v, a, h, t), v, h)
<1> DEFINE TS == TableSeqs(v, h)
           n  == Len(TablesOf(v))
           p  == Prefix(v, a, h, t)
           fl == FlattenSeq(TS)
           x  == Export_host(v, a, h, t)
           m  == Len(Fields(v))
<1>1. n \in Nat /\ m \in Nat
  BY TablesOfFacts, FieldsFacts
<1>2. IsList(TS, n)
  BY DEF TableSeqs, IsList
<1>3. ASSUME NEW i \in 1..n
      PROVE  /\ TS[i] = Export_table(TablesOf(v)[i], h.tables[TablesOf(v)[i]])
             /\ Sequence(TS[i])
             /\ Len(TS[i]) = 2 + Len(SetToSeq(DOMAIN h.tables[TablesOf(v)[i]]))
  <2>1. TS[i] = Export_table(TablesOf(v)[i], h.tables[TablesOf(v)[i]])
    BY DEF TableSeqs
  <2>2. IsTable(h.tables[TablesOf(v)[i]])
    BY TablesOfFacts DEF IsHost
  <2> QED BY <2>1, <2>2, TableShape
<1>4. x = p \o fl
  BY DEF Export_host, Prefix, TableSeqs
<1> HIDE DEF TS, p, x, n
<1>5. /\ Sequence(fl) /\ Len(fl) = Start(TS, n) /\ Start(TS, 0) = 0
      /\ \A i \in 0..n : Start(TS, i) \in Nat
      /\ \A i \in 1..n :
           /\ Start(TS, i) = Start(TS, i-1) + Len(TS[i])
           /\ Start(TS, i) <= Start(TS, n)
           /\ \A r \in 1..Len(TS[i]) : fl[Start(TS, i-1) + r] = TS[i][r]
  <2>1. \A i \in 1..n : Sequence(TS[i])
    BY <1>3
  <2>2. n \in Nat
    BY <1>1
  <2> HIDE DEF fl, m
  <2>3. /\ Sequence(FlattenSeq(TS))
        /\ Len(FlattenSeq(TS)) = Start(TS, n)
        /\ Start(TS, 0) = 0
        /\ \A i \in 0..n : Start(TS, i) \in Nat
        /\ \A i \in 1..n :
             /\ Start(TS, i) = Start(TS, i-1) + Len(TS[i])
             /\ Start(TS, i) <= Start(TS, n)
             /\ \A r \in 1..Len(TS[i]) : FlattenSeq(TS)[Start(TS, i-1) + r] = TS[i][r]
    BY <1>2, <2>1, <2>2, Flat
  <2> QED BY <2>3 DEF fl
<1>6. /\ Sequence(p) /\ Len(p) = m
      /\ \A q \in 1..m : p[q] = Item(Fields(v)[q], Field(Fields(v)[q], v, a, h, t))
  BY PrefixShape DEF p
<1> HIDE DEF fl, m
<1>7. Sequence(x) /\ Joint(x, p, fl)
  BY <1>4, <1>5, <1>6, SeqConcat
<1>8. /\ Len(x) = m + Start(TS, n)
      /\ \A j \in 1..m : x[j] = p[j]
      /\ \A j \in 1..Start(TS, n) : x[m + j] = fl[j]
  BY <1>5, <1>6, <1>7 DEF Joint
<1>9. ASSUME NEW i \in 1..n, NEW r \in 1..Len(TS[i])
      PROVE  /\ Start(TS, i-1) + r \in 1..Start(TS, n)
             /\ x[m + (Start(TS, i-1) + r)] = TS[i][r]
  <2>1. /\ Start(TS, i-1) \in Nat /\ Start(TS, i) \in Nat /\ Start(TS, n) \in Nat
        /\ Len(TS[i]) \in Nat
    <3>1. i - 1 \in 0..n /\ i \in 0..n /\ n \in 0..n
      BY <1>1
    <3> QED BY <3>1, <1>3, <1>5, SeqShape
  <2>2. Start(TS, i) = Start(TS, i-1) + Len(TS[i]) /\ Start(TS, i) <= Start(TS, n)
    BY <1>5
  <2>3. Start(TS, i-1) + r \in 1..Start(TS, n)
    BY <2>1, <2>2
  <2> QED BY <2>3, <1>5, <1>8
<1>10. /\ Sequence(x) /\ Len(x) = m + Start(TS, n)
       /\ \A q \in 1..m : x[q] = Item(Fields(v)[q], Field(Fields(v)[q], v, a, h, t))
  BY <1>6, <1>7, <1>8
<1>11. ASSUME NEW i \in 1..n
       PROVE  /\ Start(TS, i) =
                   Start(TS, i-1) + (2 + Len(SetToSeq(DOMAIN h.tables[TablesOf(v)[i]])))
              /\ \A r \in 1 .. 2 + Len(SetToSeq(DOMAIN h.tables[TablesOf(v)[i]])) :
                   /\ Start(TS, i-1) + r \in 1..Start(TS, n)
                   /\ x[m + (Start(TS, i-1) + r)] =
                        Export_table(TablesOf(v)[i], h.tables[TablesOf(v)[i]])[r]
  <2> DEFINE k == 2 + Len(SetToSeq(DOMAIN h.tables[TablesOf(v)[i]]))
             e == Export_table(TablesOf(v)[i], h.tables[TablesOf(v)[i]])
  <2>1. TS[i] = e /\ Len(TS[i]) = k
    BY <1>3
  <2> HIDE DEF e, k
  <2>2. /\ Start(TS, i) = Start(TS, i-1) + k
        /\ \A r \in 1..k : /\ Start(TS, i-1) + r \in 1..Start(TS, n)
                           /\ x[m + (Start(TS, i-1) + r)] = e[r]
    BY <2>1, <1>5, <1>9
  <2> QED BY <2>2 DEF e, k
<1>12. Start(TS, 0) = 0 /\ \A i \in 0..n : Start(TS, i) \in Nat
  BY <1>5
<1>13. TablesIn(x, v, h)
  BY <1>11, Zenon DEF TablesIn, TS, n, m
<1> QED BY <1>10, <1>12, <1>13, Zenon DEF TS, n, x, m

(***************************************************************************)
(* The file of a database.                                                 *)
(***************************************************************************)
(* A database as an export, of any version, may have meant to write it.  *)
GoodDb(D) ==
  /\ D.version \in 1..4 /\ IsDb(D.hosts) /\ Proper(D.hosts)
  /\ D.version < 4 =>
       \A a \in DOMAIN D.hosts : \A T \in {"tcp_remote", "udp_remote"} :
         D.hosts[a].tables[T] = None

(* The hosts of D in the order of the file, their subtables, and the     *)
(* keys of those.                                                        *)
Addrs(D)   == SetToSeq(DOMAIN D.hosts)
Host(D, i) == D.hosts[Addrs(D)[i]]
Table(D, i, t) == Host(D, i).tables[TablesOf(D.version)[t]]
Keys(D, i, t)  == SetToSeq(DOMAIN Table(D, i, t))
HostSeqs(D) == [i \in 1..Len(Addrs(D)) |->
                  Export_host(D.version, Addrs(D)[i], Host(D, i), Host(D, i).last_seen)]

(* The file: header, hosts, graphs.                                      *)
Header(D)  == <<Item("file", 1), Item("hosts", 1), Item("host_count", Len(Addrs(D)))>>
Trailer(D) == <<Item("graph", 1), Item("last", D.graph.last), Item("ring", 1),
                Item("bars", D.graph.bars)>>
Items(D) == Header(D) \o FlattenSeq(HostSeqs(D)) \o Trailer(D)

(* The number of fields of a host, and of subtables.                     *)
FieldCount(D) == Len(Fields(D.version))
TableCount(D) == Len(TablesOf(D.version))

(* The position before the first item of the host i, and of its subtable *)
(* t.                                                                    *)
HostAt(D, i) == 3 + Start(HostSeqs(D), i-1)
TableAt(D, i, t) ==
  HostAt(D, i) + (FieldCount(D) + Start(TableSeqs(D.version, Host(D, i)), t-1))

(* Every host is in that order somewhere.                                *)
LEMMA AddrsFacts ==
  ASSUME NEW D, GoodDb(D)
  PROVE  /\ Len(Addrs(D)) \in Nat
         /\ \A i \in 1..Len(Addrs(D)) : Addrs(D)[i] \in DOMAIN D.hosts /\ IsHost(Host(D, i))
         /\ \A a \in DOMAIN D.hosts : \E i \in 1..Len(Addrs(D)) : Addrs(D)[i] = a
<1>1. IsFiniteSet(DOMAIN D.hosts) /\ \A a \in DOMAIN D.hosts : IsHost(D.hosts[a])
  BY DEF GoodDb, IsDb
<1>2. /\ Len(Addrs(D)) \in Nat
      /\ \A i \in 1..Len(Addrs(D)) : Addrs(D)[i] \in DOMAIN D.hosts
      /\ \A a \in DOMAIN D.hosts : \E i \in 1..Len(Addrs(D)) : Addrs(D)[i] = a
  BY <1>1, Listed DEF Addrs
<1> QED BY <1>1, <1>2 DEF Host

(* Every key of a subtable is in the order of the keys.                  *)
LEMMA KeysFacts ==
  ASSUME NEW D, GoodDb(D), NEW i \in 1..Len(Addrs(D)), NEW t \in 1..TableCount(D)
  PROVE  /\ IsTable(Table(D, i, t)) /\ Len(Keys(D, i, t)) \in Nat
         /\ Len(Keys(D, i, t)) = Cardinality(DOMAIN Table(D, i, t))
         /\ \A r \in 1..Len(Keys(D, i, t)) : Keys(D, i, t)[r] \in DOMAIN Table(D, i, t)
         /\ \A k \in DOMAIN Table(D, i, t) :
              \E r \in 1..Len(Keys(D, i, t)) : Keys(D, i, t)[r] = k
<1>1. IsTable(Table(D, i, t))
  <2>1. TablesOf(D.version)[t] \in ToSet(Tables)
    BY TablesOfFacts DEF GoodDb, TableCount
  <2> QED BY <2>1, AddrsFacts DEF Table, IsHost
<1>2. IsFiniteSet(DOMAIN Table(D, i, t))
  BY <1>1 DEF IsTable
<1> QED BY <1>1, <1>2, Listed DEF Keys

(* What is written before and after the hosts.                           *)
LEMMA TrailerShape ==
  ASSUME NEW D
  PROVE  /\ Sequence(Header(D)) /\ Len(Header(D)) = 3
         /\ Header(D)[1] = Item("file", 1) /\ Header(D)[2] = Item("hosts", 1)
         /\ Header(D)[3] = Item("host_count", Len(Addrs(D)))
         /\ Sequence(Trailer(D)) /\ Len(Trailer(D)) = 4
         /\ Trailer(D)[1] = Item("graph", 1) /\ Trailer(D)[2] = Item("last", D.graph.last)
         /\ Trailer(D)[3] = Item("ring", 1) /\ Trailer(D)[4] = Item("bars", D.graph.bars)
BY LongerSeqs, Zenon DEF Header, Trailer

(* The header, the hosts one after another, the graphs.                  *)
LEMMA Shape ==
  ASSUME NEW D, GoodDb(D)
  PROVE  /\ Sequence(Items(D))
         /\ \A i \in 1..(Len(Addrs(D)) + 1) : HostAt(D, i) \in Nat
         /\ HostAt(D, 1) = 3 /\ Len(Items(D)) = HostAt(D, Len(Addrs(D)) + 1) + 4
         /\ \A p \in 1..3 : Items(D)[p] = Header(D)[p]
         /\ \A p \in 1..4 : Items(D)[HostAt(D, Len(Addrs(D)) + 1) + p] = Trailer(D)[p]
         /\ \A i \in 1..Len(Addrs(D)) :
              /\ HostAt(D, i + 1) = HostAt(D, i) + Len(HostSeqs(D)[i])
              /\ \A r \in 1..Len(HostSeqs(D)[i]) :
                   Items(D)[HostAt(D, i) + r] = HostSeqs(D)[i][r]
<1> DEFINE hd == Header(D)
           tr == Trailer(D)
           HS == HostSeqs(D)
           n  == Len(Addrs(D))
           fl == FlattenSeq(HS)
           hf == hd \o fl
           x  == Items(D)
<1>1. n \in Nat /\ IsList(HS, n)
  BY AddrsFacts DEF HostSeqs, IsList
<1>2. ASSUME NEW i \in 1..n PROVE Sequence(HS[i])
  <2>1. HS[i] = Export_host(D.version, Addrs(D)[i], Host(D, i), Host(D, i).last_seen)
    BY DEF HostSeqs
  <2>2. D.version \in 1..4 /\ IsHost(Host(D, i))
    BY AddrsFacts DEF GoodDb
  <2> QED BY <2>1, <2>2, HostShape
<1>3. x = hf \o tr
  BY DEF Items
<1> HIDE DEF HS, n, x
<1>4. /\ Sequence(fl) /\ Len(fl) = Start(HS, n) /\ Start(HS, 0) = 0
      /\ \A i \in 0..n : Start(HS, i) \in Nat
      /\ \A i \in 1..n :
           /\ Start(HS, i) = Start(HS, i-1) + Len(HS[i])
           /\ Start(HS, i) <= Start(HS, n)
           /\ \A r \in 1..Len(HS[i]) : fl[Start(HS, i-1) + r] = HS[i][r]
  BY <1>1, <1>2, Flat
<1>5. Sequence(hd) /\ Len(hd) = 3 /\ Sequence(tr) /\ Len(tr) = 4
  BY TrailerShape
<1> HIDE DEF fl, hd, tr
<1>6. Sequence(hf) /\ Joint(hf, hd, fl)
  BY <1>4, <1>5, SeqConcat
<1> HIDE DEF hf
<1>7. Sequence(x) /\ Joint(x, hf, tr)
  BY <1>3, <1>5, <1>6, SeqConcat
<1>8. /\ Len(hf) = 3 + Start(HS, n) /\ Len(x) = Len(hf) + 4
      /\ \A j \in 1..3 : hf[j] = hd[j]
      /\ \A j \in 1..Start(HS, n) : hf[3 + j] = fl[j]
      /\ \A j \in 1..Len(hf) : x[j] = hf[j]
      /\ \A j \in 1..4 : x[Len(hf) + j] = tr[j]
  BY <1>4, <1>5, <1>6, <1>7 DEF Joint
<1>9. ASSUME NEW i \in 1..(n+1)
      PROVE  HostAt(D, i) = 3 + Start(HS, i-1) /\ HostAt(D, i) \in Nat
  <2>1. i - 1 \in 0..n
    BY <1>1
  <2>2. HostAt(D, i) = 3 + Start(HS, i-1)
    BY DEF HostAt, HS
  <2> QED BY <2>1, <2>2, <1>4
<1>10. HostAt(D, 1) = 3 /\ HostAt(D, n + 1) = Len(hf)
  <2>1. 1 \in 1..(n+1) /\ n + 1 \in 1..(n+1) /\ 1 - 1 = 0 /\ (n + 1) - 1 = n
    BY <1>1
  <2> QED BY <2>1, <1>4, <1>8, <1>9
<1>11. ASSUME NEW i \in 1..n
       PROVE  /\ HostAt(D, i + 1) = HostAt(D, i) + Len(HS[i])
              /\ \A r \in 1..Len(HS[i]) : x[HostAt(D, i) + r] = HS[i][r]
  <2> DEFINE s == Start(HS, i-1)
             e == Start(HS, i)
             N == Start(HS, n)
             l == Len(HS[i])
  <2>1. i - 1 \in 0..n /\ i \in 0..n /\ n \in 0..n /\ i \in 1..(n+1)
        /\ i + 1 \in 1..(n+1) /\ (i + 1) - 1 = i
    BY <1>1
  <2>2. s \in Nat /\ e \in Nat /\ N \in Nat /\ e = s + l /\ e <= N
    BY <2>1, <1>4
  <2>3. l \in Nat
    BY <1>2, SeqShape
  <2>4. HostAt(D, i) = 3 + s /\ HostAt(D, i+1) = 3 + e
    BY <2>1, <1>9
  <2>5. \A r \in 1..l : fl[s + r] = HS[i][r]
    BY <1>4
  <2> HIDE DEF s, e, N, l
  <2>6. ASSUME NEW r \in 1..l PROVE x[HostAt(D, i) + r] = HS[i][r]
    <3>1. s + r \in 1..N
      BY <2>2, <2>3
    <3>2. hf[3 + (s + r)] = fl[s + r]
      BY <3>1, <1>8 DEF N
    <3>3. 3 + (s + r) \in 1..Len(hf)
      BY <3>1, <1>8, <2>2 DEF N
    <3>4. x[3 + (s + r)] = hf[3 + (s + r)]
      BY <3>3, <1>8
    <3>5. HostAt(D, i) + r = 3 + (s + r)
      BY <2>2, <2>4
    <3> QED BY <3>2, <3>4, <3>5, <2>5
  <2>7. HostAt(D, i + 1) = HostAt(D, i) + l
    BY <2>2, <2>3, <2>4
  <2> QED BY <2>6, <2>7 DEF l
<1>12. \A p \in 1..3 : x[p] = hd[p]
  <2>1. Start(HS, n) \in Nat
    BY <1>1, <1>4
  <2>2. \A p \in 1..3 : p \in 1..Len(hf)
    BY <2>1, <1>8
  <2> QED BY <2>2, <1>8
<1> QED BY <1>7, <1>8, <1>9, <1>10, <1>11, <1>12, Zenon DEF HS, n, x, hd, tr

(* The name of the subtable t, and the value of the field q of a host.   *)
TableName(D, t) == TablesOf(D.version)[t]
FieldOf(D, i, q) ==
  Field(Fields(D.version)[q], D.version, Addrs(D)[i], Host(D, i),
        Host(D, i).last_seen)

(* Where the fields of the host i are in the file.                       *)
LEMMA FieldItems ==
  ASSUME NEW D, GoodDb(D), NEW i \in 1..Len(Addrs(D))
  PROVE  /\ HostAt(D, i) \in Nat /\ FieldCount(D) \in {4, 5}
         /\ TableAt(D, i, 1) = HostAt(D, i) + FieldCount(D)
         /\ TableAt(D, i, TableCount(D) + 1) = HostAt(D, i + 1)
         /\ \A q \in 1..FieldCount(D) : Items(D)[HostAt(D, i) + q] =
                               Item(Fields(D.version)[q], FieldOf(D, i, q))
<1> DEFINE v == D.version
           h == Host(D, i)
           a == Addrs(D)[i]
           m == FieldCount(D)
           n == TableCount(D)
           TS == TableSeqs(v, h)
           x == HostSeqs(D)[i]
           p == HostAt(D, i)
<1>1. v \in 1..4 /\ IsHost(h) /\ Len(Addrs(D)) \in Nat
  BY AddrsFacts DEF GoodDb
<1>2. x = Export_host(v, a, h, h.last_seen)
  BY DEF HostSeqs
<1>3. m \in {4, 5} /\ n \in {3, 5}
  BY <1>1, FieldsFacts, TablesOfFacts DEF FieldCount, TableCount
<1>4. /\ Len(x) = m + Start(TS, n) /\ Start(TS, 0) = 0 /\ Start(TS, n) \in Nat
      /\ \A q \in 1..m : x[q] = Item(Fields(v)[q], Field(Fields(v)[q], v, a, h, h.last_seen))
  <2>1. n \in 0..n
    BY <1>3
  <2>2. m = Len(Fields(v)) /\ n = Len(TablesOf(v))
    BY DEF FieldCount, TableCount
  <2> HIDE DEF v, a, h, x
  <2>3. /\ Len(Export_host(v, a, h, h.last_seen)) =
             Len(Fields(v)) + Start(TableSeqs(v, h), Len(TablesOf(v)))
        /\ Start(TableSeqs(v, h), 0) = 0
    BY <1>1, HostShape
  <2>4. \A j \in 0..Len(TablesOf(v)) : Start(TableSeqs(v, h), j) \in Nat
    BY <1>1, HostShape
  <2>5. \A q \in 1..Len(Fields(v)) : Export_host(v, a, h, h.last_seen)[q] =
                    Item(Fields(v)[q], Field(Fields(v)[q], v, a, h, h.last_seen))
    BY <1>1, HostShape
  <2> HIDE DEF m, n
  <2> QED BY <2>1, <2>2, <2>3, <2>4, <2>5, <1>2
<1>5. /\ p \in Nat /\ HostAt(D, i + 1) = p + Len(x)
      /\ \A r \in 1..Len(x) : Items(D)[p + r] = x[r]
  <2>1. i \in 1..(Len(Addrs(D)) + 1)
    BY <1>1
  <2>2. p \in Nat
    BY <2>1, Shape
  <2>3. HostAt(D, i + 1) = p + Len(x) /\ \A r \in 1..Len(x) : Items(D)[p + r] = x[r]
    BY Shape
  <2> QED BY <2>2, <2>3
<1>6. \A q \in 1..m : Items(D)[p + q] = Item(Fields(v)[q], FieldOf(D, i, q))
  <2> SUFFICES ASSUME NEW q \in 1..m
               PROVE  Items(D)[p + q] = Item(Fields(v)[q], FieldOf(D, i, q))
    OBVIOUS
  <2>1. q \in 1..Len(x)
    <3> HIDE DEF x, m
    <3> QED BY <1>3, <1>4
  <2>2. Items(D)[p + q] = x[q]
    BY <2>1, <1>5
  <2> QED BY <2>2, <1>4 DEF FieldOf
<1>7. TableAt(D, i, 1) = p + m
  <2>1. Start(TS, 1 - 1) = 0
    BY <1>4
  <2> QED BY <2>1, <1>3, <1>5 DEF TableAt
<1>8. TableAt(D, i, n + 1) = HostAt(D, i + 1)
  <2>1. (n + 1) - 1 = n
    BY <1>3
  <2>2. TableAt(D, i, n + 1) = p + (m + Start(TS, n))
    BY <2>1 DEF TableAt
  <2> QED BY <2>2, <1>4, <1>5
<1> QED BY <1>3, <1>5, <1>6, <1>7, <1>8

(* Where its subtables are.                                              *)
LEMMA TableItems ==
  ASSUME NEW D, GoodDb(D), NEW i \in 1..Len(Addrs(D)), NEW t \in 1..TableCount(D)
  PROVE  /\ TableAt(D, i, t) \in Nat
         /\ TableAt(D, i, t + 1) = TableAt(D, i, t) + 2 + Len(Keys(D, i, t))
         /\ Items(D)[TableAt(D, i, t) + 1] = Item("magic", TableName(D, t))
         /\ Items(D)[TableAt(D, i, t) + 2] =
              Item(Count(TableName(D, t)), Len(Keys(D, i, t)))
         /\ \A r \in 1..Len(Keys(D, i, t)) :
              Items(D)[TableAt(D, i, t) + 2 + r] =
                Item("entry", <<Keys(D, i, t)[r], Table(D, i, t)[Keys(D, i, t)[r]]>>)
<1> DEFINE v == D.version
           h == Host(D, i)
           a == Addrs(D)[i]
           m == FieldCount(D)
           n == TableCount(D)
           TS == TableSeqs(v, h)
           x == HostSeqs(D)[i]
           p == HostAt(D, i)
           s == Start(TS, t-1)
           f == Table(D, i, t)
           l == Len(SetToSeq(DOMAIN f))
           e == Export_table(TableName(D, t), f)
           q == TableAt(D, i, t)
<1>1. v \in 1..4 /\ IsHost(h) /\ Len(Addrs(D)) \in Nat
  BY AddrsFacts DEF GoodDb
<1>2. x = Export_host(v, a, h, h.last_seen)
  BY DEF HostSeqs
<1>3. m \in {4, 5} /\ n \in {3, 5}
  BY <1>1, FieldsFacts, TablesOfFacts DEF FieldCount, TableCount
<1>4. f = h.tables[TablesOf(v)[t]] /\ TableName(D, t) = TablesOf(v)[t]
  BY DEF Table, TableName
<1>5. IsTable(f)
  BY KeysFacts
<1>6. /\ Len(e) = 2 + l /\ l \in Nat /\ e[1] = Item("magic", TableName(D, t))
      /\ e[2] = Item(Count(TableName(D, t)), l)
      /\ \A r \in 1..l : e[2 + r] =
           Item("entry", <<SetToSeq(DOMAIN f)[r], f[SetToSeq(DOMAIN f)[r]]>>)
  <2> HIDE DEF f
  <2> QED BY <1>5, TableShape
<1>7. t-1 \in 0..n /\ t \in 1..n /\ t \in 0..n
  BY <1>3
<1>8. /\ Len(x) = m + Start(TS, n) /\ s \in Nat /\ Start(TS, n) \in Nat
      /\ Start(TS, t) = s + (2 + l)
      /\ \A r \in 1..(2 + l) : s + r \in 1..Start(TS, n) /\ x[m + (s + r)] = e[r]
  <2> HIDE DEF v, a, h, x, f
  <2>1. Len(x) = m + Start(TS, n)
    BY <1>1, <1>2, HostShape DEF TableCount, FieldCount, v
  <2>2. \A j \in 0..Len(TablesOf(v)) : Start(TS, j) \in Nat
    BY <1>1, HostShape
  <2>3. s \in Nat /\ Start(TS, n) \in Nat
    <3>1. n = Len(TablesOf(v)) /\ n \in 0..n
      BY <1>3 DEF TableCount, v
    <3> QED BY <2>2, <3>1, <1>7
  <2>4. t \in 1..Len(TablesOf(v)) /\ Len(TablesOf(v)) = n /\ Len(Fields(v)) = m
    BY <1>7 DEF TableCount, FieldCount, v
  <2> DEFINE g == h.tables[TablesOf(v)[t]]
             k == 2 + Len(SetToSeq(DOMAIN g))
             T == TablesOf(v)[t]
  <2>5. /\ Start(TS, t) = Start(TS, t-1) + k
        /\ \A r \in 1..k : /\ Start(TS, t-1) + r \in 1..Start(TS, Len(TablesOf(v)))
                           /\ Export_host(v, a, h, h.last_seen)[Len(Fields(v)) + (Start(TS, t-1) + r)]
                                = Export_table(T, g)[r]
    <3>1. TablesIn(Export_host(v, a, h, h.last_seen), v, h)
      BY <1>1, HostShape
    <3> HIDE DEF TS
    <3> QED BY <3>1, <2>4, Zenon DEF TablesIn, TS
  <2>6. f = g /\ TableName(D, t) = T
    BY <1>4
  <2>7. k = 2 + l /\ e = Export_table(T, g)
    BY <2>6
  <2> HIDE DEF k, g, T, s, e, l
  <2>8. Start(TS, t) = s + (2 + l)
    BY <2>5, <2>7 DEF s
  <2>9. \A r \in 1..(2 + l) : s + r \in 1..Start(TS, n) /\ x[m + (s + r)] = e[r]
    BY <2>4, <2>5, <2>7, <1>2 DEF s
  <2> QED BY <2>1, <2>3, <2>8, <2>9
<1>9. /\ p \in Nat /\ \A r \in 1..Len(x) : Items(D)[p + r] = x[r]
  <2>1. i \in 1..(Len(Addrs(D)) + 1)
    BY <1>1
  <2>2. p \in Nat
    BY <2>1, Shape
  <2>3. \A r \in 1..Len(x) : Items(D)[p + r] = x[r]
    BY Shape
  <2> QED BY <2>2, <2>3
<1>10. q = p + (m + s) /\ TableAt(D, i, t + 1) = p + (m + Start(TS, t))
  <2>1. (t + 1) - 1 = t
    BY <1>3
  <2> QED BY <2>1 DEF TableAt
<1>11. ASSUME NEW r \in 1..(2 + l) PROVE Items(D)[q + r] = e[r]
  <2> HIDE DEF p, m, s, l, e, x, q, TS, n
  <2>1. s + r \in 1..Start(TS, n)
    BY <1>8
  <2>2. m + (s + r) \in 1..Len(x)
    BY <2>1, <1>3, <1>8
  <2>3. q + r = p + (m + (s + r))
    BY <1>3, <1>6, <1>8, <1>9, <1>10
  <2> QED BY <2>2, <2>3, <1>8, <1>9
<1>12. q \in Nat /\ TableAt(D, i, t + 1) = q + 2 + l
  <2> HIDE DEF p, m, s, l, e, x, q, TS, n
  <2> QED BY <1>3, <1>6, <1>8, <1>9, <1>10
<1>13. Items(D)[q + 1] = e[1] /\ Items(D)[q + 2] = e[2]
       /\ \A r \in 1..l : Items(D)[q + 2 + r] = e[2 + r]
  <2> HIDE DEF p, m, s, l, e, x, q, TS, n
  <2>1. 1 \in 1..(2 + l) /\ 2 \in 1..(2 + l) /\ \A r \in 1..l : 2 + r \in 1..(2 + l)
    BY <1>6
  <2>2. \A r \in 1..l : q + 2 + r = q + (2 + r)
    BY <1>6, <1>12
  <2> QED BY <2>1, <2>2, <1>11
<1>14. l = Len(Keys(D, i, t)) /\ Keys(D, i, t) = SetToSeq(DOMAIN f)
  BY DEF Keys
<1> HIDE DEF f, l, e, q
<1> QED BY <1>6, <1>12, <1>13, <1>14 DEF q, f, l

(***************************************************************************)
(* What is left of a sequence, as it is read from its front.               *)
(***************************************************************************)
(* What is left of s from j on.                                          *)
From(s, j) == SubSeq(s, j, Len(s))

(* Its elements.                                                         *)
LEMMA FromShape ==
  ASSUME NEW s, Sequence(s), NEW j \in 1..(Len(s) + 1)
  PROVE  /\ Sequence(From(s, j)) /\ Len(From(s, j)) = Len(s) - j + 1
         /\ \A i \in 1..(Len(s) - j + 1) : From(s, j)[i] = s[j + i - 1]
<1>1. Len(s) \in Nat /\ j \in Nat \ {0} /\ Len(s) <= Len(s) /\ j <= Len(s) + 1
  BY SeqShape
<1> QED BY <1>1, SubSeqShape DEF From

(* The first element of a sequence, and the rest.                        *)
LEMMA HeadAndTail ==
  ASSUME NEW s, Sequence(s), Len(s) # 0
  PROVE  /\ Head(s) = s[1] /\ Sequence(Tail(s)) /\ Len(Tail(s)) = Len(s) - 1
         /\ \A i \in 1..(Len(s) - 1) : Tail(s)[i] = s[i + 1]
<1>1. PICK S : s \in Seq(S)
  BY DEF Sequence
<1>2. s # <<>>
  BY SeqShape
<1>3. Head(s) = s[1]
  BY <1>1, <1>2
<1>4. /\ Tail(s) \in Seq(S) /\ Len(Tail(s)) = Len(s) - 1
      /\ \A i \in 1..Len(Tail(s)) : Tail(s)[i] = s[i + 1]
  BY <1>1, <1>2, HeadTailProperties
<1> QED BY <1>3, <1>4 DEF Sequence

(* Reading one element leaves what is left from the next one on.         *)
LEMMA NextFrom ==
  ASSUME NEW s, Sequence(s), NEW j \in 1..Len(s)
  PROVE  /\ Sequence(From(s, j)) /\ Head(From(s, j)) = s[j] /\ From(s, j) # <<>>
         /\ Tail(From(s, j)) = From(s, j + 1)
<1> DEFINE u == From(s, j)
           w == From(s, j + 1)
<1>1. Len(s) \in Nat /\ j \in 1..(Len(s) + 1) /\ j + 1 \in 1..(Len(s) + 1)
  BY SeqShape
<1>2. /\ Sequence(u) /\ Len(u) = Len(s) - j + 1
      /\ \A i \in 1..(Len(s) - j + 1) : u[i] = s[j + i - 1]
  BY <1>1, FromShape
<1>3. /\ Sequence(w) /\ Len(w) = Len(s) - (j + 1) + 1
      /\ \A i \in 1..(Len(s) - (j + 1) + 1) : w[i] = s[(j + 1) + i - 1]
  BY <1>1, FromShape
<1> HIDE DEF u, w
<1>4. Len(u) # 0
  BY <1>1, <1>2
<1>5. /\ Head(u) = u[1] /\ Sequence(Tail(u)) /\ Len(Tail(u)) = Len(u) - 1
      /\ \A i \in 1..(Len(u) - 1) : Tail(u)[i] = u[i + 1]
  BY <1>2, <1>4, HeadAndTail
<1>6. u[1] = s[j]
  <2>1. 1 \in 1..(Len(s) - j + 1) /\ j + 1 - 1 = j
    BY <1>1
  <2> QED BY <2>1, <1>2
<1>7. Len(Tail(u)) = Len(w)
  BY <1>1, <1>2, <1>3, <1>5
<1>8. ASSUME NEW i \in 1..Len(Tail(u)) PROVE Tail(u)[i] = w[i]
  <2>1. /\ i \in 1..(Len(u) - 1) /\ i + 1 \in 1..(Len(s) - j + 1)
        /\ i \in 1..(Len(s) - (j + 1) + 1) /\ j + (i + 1) - 1 = (j + 1) + i - 1
    BY <1>1, <1>2, <1>5
  <2> QED BY <2>1, <1>2, <1>3, <1>5
<1>9. Tail(u) = w
  BY <1>3, <1>5, <1>7, <1>8, SameSeq
<1>10. u # <<>>
  BY <1>2, <1>4, SeqShape
<1> QED BY <1>2, <1>5, <1>6, <1>9, <1>10 DEF u, w

(* The first element of s followed by X is that of s.                    *)
LEMMA NextOf ==
  ASSUME NEW s, NEW X, Sequence(s), Sequence(X), Len(s) # 0
  PROVE  /\ Head(s \o X) = Head(s) /\ Tail(s \o X) = Tail(s) \o X /\ s \o X # <<>>
         /\ Sequence(s \o X) /\ Len(s \o X) = Len(s) + Len(X)
<1> DEFINE u == s \o X
           a == Len(s)
           b == Len(X)
<1>1. a \in Nat /\ b \in Nat
  BY SeqShape
<1>2. Sequence(u) /\ Joint(u, s, X)
  BY SeqConcat
<1> HIDE DEF u
<1>3. Len(u) = a + b /\ (\A i \in 1..a : u[i] = s[i]) /\ (\A i \in 1..b : u[a + i] = X[i])
  BY <1>2 DEF Joint
<1>4. Len(u) # 0
  BY <1>1, <1>3
<1>5. /\ Head(u) = u[1] /\ Sequence(Tail(u)) /\ Len(Tail(u)) = Len(u) - 1
      /\ \A i \in 1..(Len(u) - 1) : Tail(u)[i] = u[i + 1]
  BY <1>2, <1>4, HeadAndTail
<1>6. /\ Head(s) = s[1] /\ Sequence(Tail(s)) /\ Len(Tail(s)) = a - 1
      /\ \A i \in 1..(a - 1) : Tail(s)[i] = s[i + 1]
  BY HeadAndTail
<1> DEFINE w == Tail(s) \o X
<1>7. Sequence(w) /\ Joint(w, Tail(s), X)
  BY <1>6, SeqConcat
<1> HIDE DEF w
<1>8. /\ Len(w) = (a - 1) + b /\ (\A i \in 1..(a - 1) : w[i] = Tail(s)[i])
      /\ (\A i \in 1..b : w[(a - 1) + i] = X[i])
  BY <1>6, <1>7 DEF Joint
<1> HIDE DEF a, b
<1>9. ASSUME NEW i \in 1..Len(w) PROVE Tail(u)[i] = w[i]
  <2>1. Tail(u)[i] = u[i + 1]
    BY <1>1, <1>3, <1>5, <1>8
  <2>2. CASE i \in 1..(a - 1)
    <3>1. i + 1 \in 1..a
      BY <2>2, <1>1
    <3> QED BY <2>1, <2>2, <3>1, <1>3, <1>6, <1>8
  <2>3. CASE i \notin 1..(a - 1)
    <3> DEFINE k == i - (a - 1)
    <3>1. k \in 1..b /\ i = (a - 1) + k /\ i + 1 = a + k
      BY <2>3, <1>1, <1>8
    <3> HIDE DEF k
    <3>2. w[i] = X[k]
      BY <3>1, <1>8
    <3>3. u[i + 1] = X[k]
      BY <3>1, <1>3
    <3> QED BY <3>2, <3>3, <2>1
  <2> QED BY <2>2, <2>3
<1>10. Len(Tail(u)) = Len(w)
  BY <1>1, <1>3, <1>5, <1>8
<1>11. Tail(u) = w
  BY <1>5, <1>7, <1>9, <1>10, SameSeq
<1>12. 1 \in 1..a
  BY <1>1 DEF a
<1>13. Head(u) = Head(s) /\ u # <<>>
  BY <1>2, <1>3, <1>4, <1>5, <1>6, <1>12, SeqShape
<1> QED BY <1>2, <1>3, <1>11, <1>13 DEF u, w, a, b

(* Reading one element of s with X to follow.                            *)
LEMMA NextIn ==
  ASSUME NEW s, NEW X, Sequence(s), Sequence(X), NEW j \in 1..Len(s)
  PROVE  /\ Head(From(s, j) \o X) = s[j] /\ From(s, j) \o X # <<>>
         /\ Tail(From(s, j) \o X) = From(s, j + 1) \o X
         /\ Sequence(From(s, j) \o X) /\ Len(From(s, j) \o X) > Len(X)
<1>0. Len(s) \in Nat /\ j \in 1..(Len(s) + 1) /\ Len(X) \in Nat
  BY SeqShape
<1>1. Sequence(From(s, j)) /\ Len(From(s, j)) = Len(s) - j + 1
  BY <1>0, FromShape
<1>2. /\ Head(From(s, j)) = s[j] /\ Tail(From(s, j)) = From(s, j + 1)
  BY NextFrom
<1>3. Len(From(s, j)) # 0
  BY <1>0, <1>1
<1>4. /\ Head(From(s, j) \o X) = Head(From(s, j))
      /\ Tail(From(s, j) \o X) = Tail(From(s, j)) \o X
      /\ From(s, j) \o X # <<>> /\ Sequence(From(s, j) \o X)
      /\ Len(From(s, j) \o X) = Len(From(s, j)) + Len(X)
  BY <1>1, <1>3, NextOf
<1>5. Len(From(s, j) \o X) > Len(X)
  BY <1>0, <1>1, <1>4
<1> QED BY <1>2, <1>4, <1>5

(* Nothing is left after the last element, and everything before the     *)
(* first.                                                                *)
LEMMA NoneLeft ==
  ASSUME NEW s, Sequence(s)
  PROVE  /\ From(s, Len(s) + 1) = <<>> /\ From(s, 1) = s
         /\ \A X : Sequence(X) => <<>> \o X = X
<1>1. Len(s) \in Nat
  BY SeqShape
<1>2. /\ 1 \in 1..(Len(s) + 1) /\ Len(s) + 1 \in 1..(Len(s) + 1)
      /\ Len(s) - 1 + 1 = Len(s) /\ Len(s) - (Len(s) + 1) + 1 = 0
      /\ \A i \in 1..Len(s) : 1 + i - 1 = i
  BY <1>1
<1>3. Sequence(From(s, 1)) /\ Len(From(s, 1)) = Len(s)
      /\ \A i \in 1..Len(s) : From(s, 1)[i] = s[i]
  <2>1. /\ Sequence(From(s, 1)) /\ Len(From(s, 1)) = Len(s) - 1 + 1
        /\ \A i \in 1..(Len(s) - 1 + 1) : From(s, 1)[i] = s[1 + i - 1]
    BY <1>2, FromShape
  <2> QED BY <1>2, <2>1
<1>4. From(s, 1) = s
  BY <1>3, SameSeq
<1>5. Sequence(From(s, Len(s) + 1)) /\ Len(From(s, Len(s) + 1)) = 0
  BY <1>2, FromShape
<1>6. From(s, Len(s) + 1) = <<>>
  BY <1>5, SeqShape
<1>7. ASSUME NEW X, Sequence(X) PROVE <<>> \o X = X
  <2>1. PICK S : X \in Seq(S)
    BY <1>7 DEF Sequence
  <2> QED BY <2>1
<1> QED BY <1>4, <1>6, <1>7

(***************************************************************************)
(* What an import wants: tags, counts, entries.                            *)
(***************************************************************************)
(* What Copies makes.                                                    *)
LEMMA CopiesShape ==
  ASSUME NEW n \in Nat, NEW x
  PROVE  /\ Sequence(Copies(n, x)) /\ Len(Copies(n, x)) = n
         /\ \A i \in 1..n : Copies(n, x)[i] = x
<1>1. Copies(n, x) \in Seq({x}) /\ Len(Copies(n, x)) = n
  BY DEF Copies
<1> QED BY <1>1 DEF Sequence, Copies

(* What db_import reads, apart from the hosts.                           *)
LEMMA ImportShape ==
  /\ Sequence(Import_db) /\ Len(Import_db) = 7
  /\ Import_db[1] = "file" /\ Import_db[2] = "hosts" /\ Import_db[3] = "host_count"
  /\ Import_db[4] = "graph" /\ Import_db[5] = "last" /\ Import_db[6] = "ring"
  /\ Import_db[7] = "bars"
<1>1. \A a, b, c, d, e, f, g : <<a, b, c, d, e, f, g>> \in Seq({a, b, c, d, e, f, g})
                               /\ Len(<<a, b, c, d, e, f, g>>) = 7
  OBVIOUS
<1> QED BY <1>1 DEF Import_db, Sequence

(* The tags of the subtables and the counts after them.                  *)
Pairs(v) == [i \in 1..Len(TablesOf(v)) |-> <<TablesOf(v)[i], Count(TablesOf(v)[i])>>]
Tags(v)  == FlattenSeq(Pairs(v))

(* Each subtable has a tag and a count.                                  *)
LEMMA TagsShape ==
  ASSUME NEW v \in 1..4
  PROVE  /\ Sequence(Tags(v)) /\ Len(Tags(v)) = 2 * Len(TablesOf(v))
         /\ \A t \in 1..Len(TablesOf(v)) : /\ Tags(v)[2*t - 1] = TablesOf(v)[t]
                                           /\ Tags(v)[2*t] = Count(TablesOf(v)[t])
<1> DEFINE P == Pairs(v)
           n == Len(TablesOf(v))
           fl == FlattenSeq(P)
<1>1. n \in {3, 5} /\ n \in Nat
  BY TablesOfFacts
<1>2. IsList(P, n)
  BY DEF IsList, Pairs
<1>3. ASSUME NEW i \in 1..n
      PROVE  /\ Sequence(P[i]) /\ Len(P[i]) = 2 /\ P[i][1] = TablesOf(v)[i]
             /\ P[i][2] = Count(TablesOf(v)[i])
  <2>1. P[i] = <<TablesOf(v)[i], Count(TablesOf(v)[i])>>
    BY DEF Pairs
  <2> QED BY <2>1, ShortSeqs
<1> HIDE DEF P, n
<1>4. /\ Sequence(fl) /\ Len(fl) = Start(P, n) /\ Start(P, 0) = 0
      /\ \A i \in 1..n : Start(P, i) = Start(P, i-1) + Len(P[i])
      /\ \A i \in 1..n : \A r \in 1..Len(P[i]) : fl[Start(P, i-1) + r] = P[i][r]
  <2>1. \A i \in 1..n : Sequence(P[i])
    BY <1>3
  <2> QED BY <1>1, <1>2, <2>1, Flat
<1> HIDE DEF fl
<1>5. \A i \in 1..n : Start(P, i) = Start(P, i-1) + 2
  BY <1>3, <1>4
<1>6. \A i \in 0..n : Start(P, i) = 2 * i
  <2>0. Start(P, 0) = 0
    BY <1>4
  <2>1. /\ 1 \in 1..n /\ 2 \in 1..n /\ 3 \in 1..n
        /\ 1-1 = 0 /\ 2-1 = 1 /\ 3-1 = 2 /\ 4-1 = 3 /\ 5-1 = 4
    BY <1>1
  <2>2. Start(P, 1) = 2 /\ Start(P, 2) = 4 /\ Start(P, 3) = 6
    BY <2>0, <2>1, <1>5
  <2>3. CASE n = 3
    BY <2>0, <2>2, <2>3
  <2>4. CASE n = 5
    <3>1. 4 \in 1..n /\ 5 \in 1..n
      BY <2>4
    <3>2. Start(P, 4) = 8
      BY <2>1, <2>2, <3>1, <1>5
    <3>3. Start(P, 5) = 10
      BY <2>1, <3>2, <3>1, <1>5
    <3> QED BY <2>0, <2>2, <2>4, <3>2, <3>3
  <2> QED BY <2>3, <2>4, <1>1
<1>7. ASSUME NEW t \in 1..n
      PROVE  fl[2*t - 1] = TablesOf(v)[t] /\ fl[2*t] = Count(TablesOf(v)[t])
  <2>1. t - 1 \in 0..n /\ 2 * (t - 1) + 1 = 2*t - 1 /\ 2 * (t - 1) + 2 = 2*t
    BY <1>1
  <2>2. Start(P, t - 1) = 2 * (t - 1)
    BY <2>1, <1>6
  <2>3. /\ fl[Start(P, t-1) + 1] = P[t][1] /\ fl[Start(P, t-1) + 2] = P[t][2]
    BY <1>3, <1>4
  <2> QED BY <2>1, <2>2, <2>3, <1>3
<1>8. Len(fl) = 2 * n
  <2>1. n \in 0..n
    BY <1>1
  <2> QED BY <2>1, <1>4, <1>6
<1> QED BY <1>4, <1>7, <1>8 DEF fl, n, P, Tags

(* After the tag of a host come the rest of its fields and its           *)
(* subtables.                                                            *)
LEMMA ImportHostShape ==
  ASSUME NEW v \in 1..4
  PROVE  Import_host(v) = From(Fields(v), 2) \o Tags(v)
<1> DEFINE p2 == IF v > 1 THEN <<"last_seen">> ELSE <<>>
           p1 == <<"addr">>
           p3 == <<"name", "bytes">>
           p12 == p1 \o p2
           p == p12 \o p3
<1>1. Import_host(v) = p \o Tags(v)
  BY DEF Import_host, Tags, Pairs
<1>2. p = From(Fields(v), 2)
  <2>1. CASE v > 1
    <3>0. ASSUME NEW a, NEW b, NEW c, NEW d
          PROVE  (<<a>> \o <<b>>) \o <<c, d>> = <<a, b, c, d>>
      <4> DEFINE u == <<a>> \o <<b>>
                 w == u \o <<c, d>>
                 r == <<a, b, c, d>>
      <4>1. Sequence(u) /\ Joint(u, <<a>>, <<b>>)
        BY ShortSeqs, SeqConcat
      <4> HIDE DEF u
      <4>2. Sequence(w) /\ Joint(w, u, <<c, d>>)
        BY <4>1, ShortSeqs, SeqConcat
      <4> HIDE DEF w
      <4>3. Len(<<b>>) = 1 /\ Len(<<a>>) = 1 /\ Len(<<c, d>>) = 2
        BY ShortSeqs, SeqShape
      <4>4. Len(u) = 2 /\ u[1] = a /\ u[2] = b
        <5>1. /\ Len(u) = 1 + 1 /\ \A j \in 1..1 : u[j] = <<a>>[j]
              /\ \A j \in 1..1 : u[1 + j] = <<b>>[j]
          BY <4>1, <4>3 DEF Joint
        <5>2. u[1] = <<a>>[1] /\ u[1 + 1] = <<b>>[1] /\ 1 + 1 = 2
          BY <5>1
        <5> QED BY <5>1, <5>2, ShortSeqs
      <4>5. Len(w) = 4 /\ w[1] = u[1] /\ w[2] = u[2] /\ w[2 + 1] = c /\ w[2 + 2] = d
        BY <4>2, <4>3, <4>4, ShortSeqs DEF Joint
      <4>6. Sequence(r) /\ Len(r) = 4 /\ r[1] = a /\ r[2] = b /\ r[3] = c /\ r[4] = d
        BY LongerSeqs
      <4> HIDE DEF r
      <4>7. \A i \in 1..Len(w) : w[i] = r[i]
        BY <4>4, <4>5, <4>6
      <4>8. w = r
        BY <4>2, <4>5, <4>6, <4>7, SameSeq
      <4> QED BY <4>8 DEF w, u, r
    <3>1. p = <<"addr", "last_seen", "name", "bytes">>
      BY <2>1, <3>0
    <3>2. From(Fields(v), 2) = <<"addr", "last_seen", "name", "bytes">>
      <4> DEFINE r == <<"addr", "last_seen", "name", "bytes">>
                 F == Fields(v)
      <4>1. /\ Sequence(F) /\ Len(F) = 5 /\ F[2] = "addr" /\ F[3] = "last_seen"
            /\ F[4] = "name" /\ F[5] = "bytes"
        BY <2>1, FieldsFacts
      <4> HIDE DEF F
      <4>2. /\ 2 \in 1..(Len(F) + 1) /\ Len(F) - 2 + 1 = 4
            /\ \A i \in 1..4 : 2 + i - 1 = i + 1
        BY <4>1
      <4>3. /\ Sequence(From(F, 2)) /\ Len(From(F, 2)) = 4
            /\ \A i \in 1..4 : From(F, 2)[i] = F[i + 1]
        <5> DEFINE w == From(F, 2)
        <5>1. /\ Sequence(w) /\ Len(w) = Len(F) - 2 + 1
              /\ \A i \in 1..(Len(F) - 2 + 1) : w[i] = F[2 + i - 1]
          BY <4>1, <4>2, FromShape
        <5> HIDE DEF w
        <5> QED BY <5>1, <4>2 DEF w
      <4>4. Sequence(r) /\ Len(r) = 4 /\ r[1] = "addr" /\ r[2] = "last_seen"
            /\ r[3] = "name" /\ r[4] = "bytes"
        BY LongerSeqs
      <4> HIDE DEF r
      <4>5. \A i \in 1..4 : From(F, 2)[i] = r[i]
        BY <4>1, <4>3, <4>4
      <4>6. From(F, 2) = r
        BY <4>3, <4>4, <4>5, SameSeq
      <4> QED BY <4>6 DEF r, F
    <3> QED BY <3>1, <3>2
  <2>2. CASE ~(v > 1)
    <3>0. ASSUME NEW a, NEW b, NEW c, NEW d
          PROVE  (<<a>> \o <<>>) \o <<c, d>> = <<a, c, d>>
      <4> DEFINE u == <<a>> \o <<>>
                 w == u \o <<c, d>>
                 r == <<a, c, d>>
      <4>1. Sequence(u) /\ Joint(u, <<a>>, <<>>)
        BY ShortSeqs, SeqConcat
      <4> HIDE DEF u
      <4>2. Sequence(w) /\ Joint(w, u, <<c, d>>)
        BY <4>1, ShortSeqs, SeqConcat
      <4> HIDE DEF w
      <4>3. Len(<<>>) = 0 /\ Len(<<a>>) = 1 /\ Len(<<c, d>>) = 2
        BY ShortSeqs, SeqShape
      <4>4. Len(u) = 1 /\ u[1] = a
        BY <4>1, <4>3, ShortSeqs DEF Joint
      <4>5. Len(w) = 3 /\ w[1] = u[1] /\ w[1 + 1] = c /\ w[1 + 2] = d
        BY <4>2, <4>3, <4>4, ShortSeqs DEF Joint
      <4>6. Sequence(r) /\ Len(r) = 3 /\ r[1] = a /\ r[2] = c /\ r[3] = d
        BY LongerSeqs
      <4> HIDE DEF r
      <4>7. \A i \in 1..Len(w) : w[i] = r[i]
        BY <4>4, <4>5, <4>6
      <4>8. w = r
        BY <4>2, <4>5, <4>6, <4>7, SameSeq
      <4> QED BY <4>8 DEF w, u, r
    <3>1. p = <<"addr", "name", "bytes">>
      BY <2>2, <3>0
    <3>2. From(Fields(v), 2) = <<"addr", "name", "bytes">>
      <4> DEFINE r == <<"addr", "name", "bytes">>
                 F == Fields(v)
      <4>1. /\ Sequence(F) /\ Len(F) = 4 /\ F[2] = "addr" /\ F[3] = "name"
            /\ F[4] = "bytes"
        BY <2>2, FieldsFacts
      <4> HIDE DEF F
      <4>2. /\ 2 \in 1..(Len(F) + 1) /\ Len(F) - 2 + 1 = 3
            /\ \A i \in 1..3 : 2 + i - 1 = i + 1
        BY <4>1
      <4>3. /\ Sequence(From(F, 2)) /\ Len(From(F, 2)) = 3
            /\ \A i \in 1..3 : From(F, 2)[i] = F[i + 1]
        <5> DEFINE w == From(F, 2)
        <5>1. /\ Sequence(w) /\ Len(w) = Len(F) - 2 + 1
              /\ \A i \in 1..(Len(F) - 2 + 1) : w[i] = F[2 + i - 1]
          BY <4>1, <4>2, FromShape
        <5> HIDE DEF w
        <5> QED BY <5>1, <4>2 DEF w
      <4>4. Sequence(r) /\ Len(r) = 3 /\ r[1] = "addr" /\ r[2] = "name"
            /\ r[3] = "bytes"
        BY LongerSeqs
      <4> HIDE DEF r
      <4>5. \A i \in 1..3 : From(F, 2)[i] = r[i]
        BY <4>1, <4>3, <4>4
      <4>6. From(F, 2) = r
        BY <4>3, <4>4, <4>5, SameSeq
      <4> QED BY <4>6 DEF r, F
    <3> QED BY <3>1, <3>2
  <2> QED BY <2>1, <2>2
<1> QED BY <1>1, <1>2

(***************************************************************************)
(* The places that an import passes through, and what it has read at each. *)
(***************************************************************************)
(* What is left to read at each place.                                   *)
WantGraph(q) == From(Import_db, q)
WantHosts(D, i) == From(Copies(Len(Addrs(D)), "host"), i) \o WantGraph(4)
WantTags(D, i, j) == From(Tags(D.version), j) \o WantHosts(D, i + 1)
WantFields(D, i, q) == From(Fields(D.version), q) \o WantTags(D, i, 1)
WantEntries(D, i, t, r) ==
  From(Copies(Len(Keys(D, i, t)), "entry"), r) \o WantTags(D, i, 2*t + 1)

(* What of the database has been read into H, started at offset o with   *)
(* m for --ports-max: only of a subtable that this is enough for must     *)
(* every entry be there.                                                 *)
FieldOK(D, H, o, a, f) ==
  /\ f = "last_seen" => H[a].last_seen + o = D.hosts[a].last_seen
  /\ f = "name"  => H[a].name  = D.hosts[a].name
  /\ f = "bytes" => H[a].bytes = D.hosts[a].bytes
Fits(D, m, a, T) == T = "ip" \/ Cardinality(DOMAIN D.hosts[a].tables[T]) <= m
Has(D, h, a, T, k) ==
  k \in DOMAIN h.tables[T] /\ h.tables[T][k] = D.hosts[a].tables[T][k]
EntryOK(D, H, m, a, T, k) == Fits(D, m, a, T) => Has(D, H[a], a, T, k)
TableOK(D, H, m, a, T) == \A k \in DOMAIN D.hosts[a].tables[T] : EntryOK(D, H, m, a, T, k)
HostOK(D, H, o, m, a) ==
  /\ a \in DOMAIN H
  /\ \A q \in 1..FieldCount(D) : FieldOK(D, H, o, a, Fields(D.version)[q])
  /\ \A t \in 1..TableCount(D) : TableOK(D, H, m, a, TableName(D, t))
HostsOK(D, H, o, m, i) == \A j \in 1..(i-1) : HostOK(D, H, o, m, Addrs(D)[j])
FieldsOK(D, H, o, i, q) ==
  /\ Addrs(D)[i] \in DOMAIN H
  /\ \A p \in 1..(q-1) : FieldOK(D, H, o, Addrs(D)[i], Fields(D.version)[p])
TablesOK(D, H, m, i, t) ==
  \A u \in 1..(t-1) : TableOK(D, H, m, Addrs(D)[i], TableName(D, u))
EntriesOK(D, H, m, i, t, r) ==
  \A s \in 1..(r-1) : EntryOK(D, H, m, Addrs(D)[i], TableName(D, t), Keys(D, i, t)[s])

(* f is some of the subtable e, and within the limit.                    *)
PartOf(f, e, T, m) ==
  /\ DOMAIN f \subseteq DOMAIN e /\ \A k \in DOMAIN f : f[k] = e[k]
  /\ T # "ip" => Cardinality(DOMAIN f) <= m

(* Nothing else has.                                                     *)
Within(D, H, m) ==
  /\ IsDb(H) /\ DOMAIN H \subseteq DOMAIN D.hosts
  /\ \A a \in DOMAIN H : \A T \in ToSet(Tables) :
       PartOf(H[a].tables[T], D.hosts[a].tables[T], T, m)

(* The places where an import of D may be.                               *)
AtHeader(D, q) == at = q /\ want = WantGraph(q)
AtHost(D, i) ==
  at = HostAt(D, i) + 1 /\ want = WantHosts(D, i) /\ HostsOK(D, hosts, offset, ports_max, i)
AtField(D, i, q) ==
  /\ at = HostAt(D, i) + q /\ want = WantFields(D, i, q)
  /\ HostsOK(D, hosts, offset, ports_max, i)
  /\ q > 2 => FieldsOK(D, hosts, offset, i, q) /\ cur[1] = Addrs(D)[i]
InHost(D, i, t) ==
  /\ HostsOK(D, hosts, offset, ports_max, i)
  /\ FieldsOK(D, hosts, offset, i, FieldCount(D) + 1)
  /\ TablesOK(D, hosts, ports_max, i, t) /\ cur[1] = Addrs(D)[i]
AtTag(D, i, t) ==
  at = TableAt(D, i, t) + 1 /\ want = WantTags(D, i, 2*t - 1) /\ InHost(D, i, t)
AtCount(D, i, t) ==
  /\ at = TableAt(D, i, t) + 2 /\ want = WantTags(D, i, 2*t)
  /\ InHost(D, i, t) /\ cur[2] = TableName(D, t)
AtEntry(D, i, t, r) ==
  /\ at = TableAt(D, i, t) + 2 + r /\ want = WantEntries(D, i, t, r)
  /\ InHost(D, i, t) /\ cur[2] = TableName(D, t)
  /\ EntriesOK(D, hosts, ports_max, i, t, r)
AtGraph(D, q) ==
  /\ at = HostAt(D, Len(Addrs(D)) + 1) + q - 3 /\ want = WantGraph(q)
  /\ HostsOK(D, hosts, offset, ports_max, Len(Addrs(D)) + 1)
  /\ q > 5 => graph.last = D.graph.last

OnTrack(D) ==
  /\ Within(D, hosts, ports_max)
  /\ \/ \E q \in 1..3 : AtHeader(D, q)
     \/ \E q \in 4..8 : AtGraph(D, q)
     \/ \E i \in 1..(Len(Addrs(D)) + 1) : AtHost(D, i)
     \/ \E i \in 1..Len(Addrs(D)) :
          \/ \E q \in 2..(FieldCount(D) + 1) : AtField(D, i, q)
          \/ \E t \in 1..(TableCount(D) + 1) : AtTag(D, i, t)
          \/ \E t \in 1..TableCount(D) :
               \/ AtCount(D, i, t)
               \/ \E r \in 1..(Len(Keys(D, i, t)) + 1) : AtEntry(D, i, t, r)

(* A number that was cut short has been read, and the end of the file is *)
(* found out.                                                            *)
Stuck == at > Len(file) /\ want # <<>>

(* The file has what was exported, as far as it goes; what was written   *)
(* last may be torn.                                                     *)
FileOK(D) ==
  /\ Sequence(file) /\ Len(file) <= Len(Items(D))
  /\ \A p \in 1..Len(file) :
       \/ file[p] = Items(D)[p]
       \/ p = Len(file) /\ file[p] = Item("torn", Items(D)[p].kind)

(* What is yet to be exported.                                           *)
OutOK(D) ==
  /\ Sequence(out)
  /\ out # <<>> =>
       /\ Len(file) + Len(out) = Len(Items(D))
       /\ \A p \in 1..Len(file) : file[p] = Items(D)[p]
       /\ \A r \in 1..Len(out) : out[r] = Items(D)[Len(file) + r]

(***************************************************************************)
(* What is wanted first at each place.                                     *)
(***************************************************************************)
(* The want w starts with x, and goes on with u.                         *)
Leads(w, x, u) == w # <<>> /\ Head(w) = x /\ Tail(w) = u /\ Sequence(u)

(* It has something left.                                                *)
Left(w) == Sequence(w) /\ w # <<>>

(* Within a list, the next element is wanted first.                      *)
LEMMA LeadsIn ==
  ASSUME NEW s, NEW X, Sequence(s), Sequence(X), NEW j \in 1..Len(s)
  PROVE  Leads(From(s, j) \o X, s[j], From(s, j + 1) \o X)
<1>1. j + 1 \in 1..(Len(s) + 1) /\ Len(s) \in Nat
  BY SeqShape
<1>2. Sequence(From(s, j + 1))
  BY <1>1, FromShape
<1> QED BY <1>2, NextIn, SeqConcat DEF Leads

(* With X to follow, something is left.                                  *)
LEMMA LeftIn ==
  ASSUME NEW s, NEW X, Sequence(s), Left(X)
  PROVE  Left(s \o X)
<1>1. Sequence(s \o X) /\ Joint(s \o X, s, X)
  BY SeqConcat DEF Left
<1>2. Len(X) \in Nat /\ Len(X) # 0 /\ Len(s) \in Nat
  BY SeqShape DEF Left
<1>3. Len(s \o X) # 0
  BY <1>1, <1>2 DEF Joint
<1> QED BY <1>1, <1>3, SeqShape DEF Left

(* What db_import wants first, apart from hosts.                         *)
LEMMA GraphWants ==
  /\ WantGraph(8) = <<>> /\ Left(WantGraph(7)) /\ WantGraph(1) = Import_db
  /\ \A q \in 1..7 : Leads(WantGraph(q), Import_db[q], WantGraph(q + 1))
  /\ \A q \in 1..7 : Left(WantGraph(q))
<1>1. Sequence(Import_db) /\ Len(Import_db) = 7
  BY ImportShape
<1>2. From(Import_db, 8) = <<>> /\ From(Import_db, 1) = Import_db
  <2>1. From(Import_db, Len(Import_db) + 1) = <<>> /\ From(Import_db, 1) = Import_db
    BY <1>1, NoneLeft
  <2>2. Len(Import_db) + 1 = 8
    BY <1>1
  <2> QED BY <2>1, <2>2
<1>3. ASSUME NEW q \in 1..7
      PROVE  Leads(WantGraph(q), Import_db[q], WantGraph(q + 1)) /\ Left(WantGraph(q))
  <2>1. q \in 1..Len(Import_db) /\ q + 1 \in 1..(Len(Import_db) + 1)
    BY <1>1
  <2>2. Sequence(From(Import_db, q + 1))
    BY <1>1, <2>1, FromShape
  <2> QED BY <1>1, <2>1, <2>2, NextFrom DEF Leads, WantGraph, Left
<1>4. Left(WantGraph(7))
  <2>1. 7 \in 1..7
    OBVIOUS
  <2> QED BY <2>1, <1>3
<1> QED BY <1>2, <1>3, <1>4 DEF WantGraph

(* At a host, its tag; after the last host, the graphs.                  *)
LEMMA HostsWants ==
  ASSUME NEW D, GoodDb(D)
  PROVE  /\ WantHosts(D, Len(Addrs(D)) + 1) = WantGraph(4)
         /\ Copies(Len(Addrs(D)), "host") \o WantGraph(4) = WantHosts(D, 1)
         /\ \A i \in 1..(Len(Addrs(D)) + 1) : Left(WantHosts(D, i))
         /\ \A i \in 1..Len(Addrs(D)) : Leads(WantHosts(D, i), "host", WantHosts(D, i + 1))
<1> DEFINE n == Len(Addrs(D))
           C == Copies(n, "host")
           X == WantGraph(4)
<1>1. n \in Nat
  BY AddrsFacts
<1> HIDE DEF n
<1>2. Sequence(C) /\ Len(C) = n /\ \A i \in 1..n : C[i] = "host"
  BY <1>1, CopiesShape
<1>3. Left(X)
  <2>1. 4 \in 1..7
    OBVIOUS
  <2> QED BY <2>1, GraphWants
<1> HIDE DEF C, X
<1>4. From(C, n + 1) = <<>> /\ From(C, 1) = C /\ <<>> \o X = X
  <2>1. From(C, Len(C) + 1) = <<>> /\ From(C, 1) = C /\ \A Y : Sequence(Y) => <<>> \o Y = Y
    BY <1>2, NoneLeft, Zenon
  <2> QED BY <1>2, <1>3, <2>1 DEF Left
<1>5. \A i : WantHosts(D, i) = From(C, i) \o X
  BY DEF WantHosts, C, X, n
<1>6. ASSUME NEW i \in 1..(n+1) PROVE Left(WantHosts(D, i))
  <2>1. Sequence(From(C, i))
    BY <1>2, FromShape
  <2> QED BY <2>1, <1>3, <1>5, LeftIn
<1>7. ASSUME NEW i \in 1..n PROVE Leads(WantHosts(D, i), "host", WantHosts(D, i + 1))
  <2>1. i \in 1..Len(C) /\ C[i] = "host" /\ Sequence(X)
    BY <1>2, <1>3 DEF Left
  <2> QED BY <2>1, <1>2, <1>5, LeadsIn
<1> QED BY <1>4, <1>5, <1>6, <1>7 DEF n, C, X

(* At a subtable its tag, then its count; after the last, the next host. *)
LEMMA TagsWants ==
  ASSUME NEW D, GoodDb(D), NEW i \in 1..Len(Addrs(D))
  PROVE  /\ WantTags(D, i, 2 * TableCount(D) + 1) = WantHosts(D, i + 1)
         /\ WantTags(D, i, 1) = Tags(D.version) \o WantHosts(D, i + 1)
         /\ \A j \in 1..(2 * TableCount(D) + 1) : Left(WantTags(D, i, j))
         /\ \A t \in 1..TableCount(D) :
              /\ Leads(WantTags(D, i, 2*t - 1), TableName(D, t), WantTags(D, i, 2*t))
              /\ Leads(WantTags(D, i, 2*t), Count(TableName(D, t)), WantTags(D, i, 2*t + 1))
<1> DEFINE n == TableCount(D)
           C == Tags(D.version)
           X == WantHosts(D, i + 1)
<1>1. D.version \in 1..4 /\ n \in {3, 5}
  BY TablesOfFacts DEF GoodDb, TableCount
<1>2. Sequence(C) /\ Len(C) = 2*n
      /\ \A t \in 1..n : C[2*t - 1] = TableName(D, t) /\ C[2*t] = Count(TableName(D, t))
  BY <1>1, TagsShape DEF TableCount, TableName
<1>3. Left(X)
  <2>1. i + 1 \in 1..(Len(Addrs(D)) + 1)
    BY AddrsFacts
  <2> QED BY <2>1, HostsWants
<1> HIDE DEF C, X, n
<1>4. From(C, 2*n + 1) = <<>> /\ From(C, 1) = C /\ <<>> \o X = X
  <2>1. From(C, Len(C) + 1) = <<>> /\ From(C, 1) = C /\ \A Y : Sequence(Y) => <<>> \o Y = Y
    BY <1>2, NoneLeft, Zenon
  <2> QED BY <1>2, <1>3, <2>1 DEF Left
<1>5. \A j : WantTags(D, i, j) = From(C, j) \o X
  BY DEF WantTags, C, X
<1>6. ASSUME NEW j \in 1..(2*n+1) PROVE Left(WantTags(D, i, j))
  <2>1. Sequence(From(C, j))
    BY <1>2, FromShape
  <2> QED BY <2>1, <1>3, <1>5, LeftIn
<1>7. ASSUME NEW j \in 1..(2*n) PROVE Leads(WantTags(D, i, j), C[j], WantTags(D, i, j + 1))
  <2>1. j \in 1..Len(C) /\ Sequence(X)
    BY <1>2, <1>3 DEF Left
  <2> QED BY <2>1, <1>2, <1>5, LeadsIn
<1>8. ASSUME NEW t \in 1..n
      PROVE  /\ Leads(WantTags(D, i, 2*t - 1), TableName(D, t), WantTags(D, i, 2*t))
             /\ Leads(WantTags(D, i, 2*t), Count(TableName(D, t)), WantTags(D, i, 2*t + 1))
  <2>1. 2*t - 1 \in 1..(2*n) /\ 2*t \in 1..(2*n) /\ (2*t - 1) + 1 = 2*t
    BY <1>1
  <2>2. C[2*t - 1] = TableName(D, t) /\ C[2*t] = Count(TableName(D, t))
    BY <1>2
  <2>3. Leads(WantTags(D, i, 2*t - 1), C[2*t - 1], WantTags(D, i, (2*t - 1) + 1))
    BY <2>1, <1>7, Zenon
  <2>4. Leads(WantTags(D, i, 2*t), C[2*t], WantTags(D, i, 2*t + 1))
    BY <2>1, <1>7, Zenon
  <2> QED BY <2>1, <2>2, <2>3, <2>4
<1> QED BY <1>4, <1>5, <1>6, <1>8 DEF n, C, X

(* At a field, that field; after the last, the subtables.                *)
LEMMA FieldsWants ==
  ASSUME NEW D, GoodDb(D), NEW i \in 1..Len(Addrs(D))
  PROVE  /\ WantFields(D, i, FieldCount(D) + 1) = WantTags(D, i, 1)
         /\ Import_host(D.version) \o WantHosts(D, i + 1) = WantFields(D, i, 2)
         /\ \A q \in 1..(FieldCount(D) + 1) : Left(WantFields(D, i, q))
         /\ \A q \in 1..FieldCount(D) :
              Leads(WantFields(D, i, q), Fields(D.version)[q], WantFields(D, i, q + 1))
<1> DEFINE n == FieldCount(D)
           C == Fields(D.version)
           X == WantTags(D, i, 1)
<1>1. D.version \in 1..4 /\ n \in {4, 5} /\ n = Len(C) /\ Sequence(C)
  BY FieldsFacts DEF GoodDb, FieldCount
<1>3. Left(X)
  <2>0. TableCount(D) \in {3, 5}
    BY TablesOfFacts DEF GoodDb, TableCount
  <2>1. 1 \in 1..(2 * TableCount(D) + 1)
    BY <2>0
  <2> QED BY <2>1, TagsWants
<1>2. Import_host(D.version) \o WantHosts(D, i + 1) = WantFields(D, i, 2)
  <2>1. Import_host(D.version) = From(C, 2) \o Tags(D.version)
    BY <1>1, ImportHostShape
  <2>2. Sequence(From(C, 2)) /\ Sequence(Tags(D.version))
    <3>1. 2 \in 1..(Len(C) + 1)
      <4> HIDE DEF C, n
      <4> QED BY <1>1
    <3> QED BY <3>1, <1>1, FromShape, TagsShape
  <2>3. Sequence(WantHosts(D, i + 1))
    <3>1. i + 1 \in 1..(Len(Addrs(D)) + 1)
      BY AddrsFacts
    <3> QED BY <3>1, HostsWants DEF Left
  <2>4. X = Tags(D.version) \o WantHosts(D, i + 1)
    BY TagsWants
  <2>5. WantFields(D, i, 2) = From(C, 2) \o X
    BY DEF WantFields
  <2> HIDE DEF C, X
  <2> DEFINE F == From(C, 2)
             T == Tags(D.version)
             H == WantHosts(D, i + 1)
  <2>6. (F \o T) \o H = F \o (T \o H)
    <3>1. Sequence(F) /\ Sequence(T) /\ Sequence(H)
      BY <2>2, <2>3
    <3> HIDE DEF F, T, H
    <3> QED BY <3>1, Assoc
  <2> QED BY <2>1, <2>4, <2>5, <2>6
<1> HIDE DEF C, X, n
<1>4. From(C, n + 1) = <<>> /\ <<>> \o X = X
  <2>1. From(C, Len(C) + 1) = <<>> /\ \A Y : Sequence(Y) => <<>> \o Y = Y
    BY <1>1, NoneLeft, Zenon
  <2> QED BY <1>1, <1>3, <2>1 DEF Left
<1>5. \A j : WantFields(D, i, j) = From(C, j) \o X
  BY DEF WantFields, C, X
<1>6. ASSUME NEW j \in 1..(n+1) PROVE Left(WantFields(D, i, j))
  <2>1. Sequence(From(C, j))
    BY <1>1, FromShape
  <2> QED BY <2>1, <1>3, <1>5, LeftIn
<1>7. ASSUME NEW j \in 1..n PROVE Leads(WantFields(D, i, j), C[j], WantFields(D, i, j + 1))
  <2>1. j \in 1..Len(C) /\ Sequence(X)
    BY <1>1, <1>3 DEF Left
  <2> QED BY <2>1, <1>1, <1>5, LeadsIn
<1> QED BY <1>2, <1>4, <1>5, <1>6, <1>7 DEF n, C, X

(* At an entry, an entry; after the last, the next subtable.             *)
LEMMA EntriesWants ==
  ASSUME NEW D, GoodDb(D), NEW i \in 1..Len(Addrs(D)), NEW t \in 1..TableCount(D)
  PROVE  /\ WantEntries(D, i, t, Len(Keys(D, i, t)) + 1) = WantTags(D, i, 2*t + 1)
         /\ Copies(Len(Keys(D, i, t)), "entry") \o WantTags(D, i, 2*t + 1)
              = WantEntries(D, i, t, 1)
         /\ \A r \in 1..(Len(Keys(D, i, t)) + 1) : Left(WantEntries(D, i, t, r))
         /\ \A r \in 1..Len(Keys(D, i, t)) :
              Leads(WantEntries(D, i, t, r), "entry", WantEntries(D, i, t, r + 1))
<1> DEFINE n == Len(Keys(D, i, t))
           C == Copies(n, "entry")
           X == WantTags(D, i, 2*t + 1)
<1>1. n \in Nat
  BY KeysFacts
<1> HIDE DEF n
<1>2. Sequence(C) /\ Len(C) = n /\ \A r \in 1..n : C[r] = "entry"
  BY <1>1, CopiesShape
<1>3. Left(X)
  <2>0. TableCount(D) \in {3, 5}
    BY TablesOfFacts DEF GoodDb, TableCount
  <2>1. 2*t + 1 \in 1..(2 * TableCount(D) + 1)
    BY <2>0
  <2> QED BY <2>1, TagsWants
<1> HIDE DEF C, X
<1>4. From(C, n + 1) = <<>> /\ From(C, 1) = C /\ <<>> \o X = X
  <2>1. From(C, Len(C) + 1) = <<>> /\ From(C, 1) = C /\ \A Y : Sequence(Y) => <<>> \o Y = Y
    BY <1>2, NoneLeft, Zenon
  <2> QED BY <1>2, <1>3, <2>1 DEF Left
<1>5. \A r : WantEntries(D, i, t, r) = From(C, r) \o X
  BY DEF WantEntries, C, X, n
<1>6. ASSUME NEW r \in 1..(n+1) PROVE Left(WantEntries(D, i, t, r))
  <2>1. Sequence(From(C, r))
    BY <1>2, FromShape
  <2> QED BY <2>1, <1>3, <1>5, LeftIn
<1>7. ASSUME NEW r \in 1..n
      PROVE  Leads(WantEntries(D, i, t, r), "entry", WantEntries(D, i, t, r + 1))
  <2>1. r \in 1..Len(C) /\ C[r] = "entry" /\ Sequence(X)
    BY <1>2, <1>3 DEF Left
  <2> QED BY <2>1, <1>2, <1>5, LeadsIn
<1> QED BY <1>4, <1>5, <1>6, <1>7 DEF n, C, X

(***************************************************************************)
(* The reading of an item.                                                 *)
(***************************************************************************)
(* The next item to read is of kind K, has value V and leaves u to read. *)
Reading(D, K, V, u) ==
  /\ want # <<>> /\ Kind(Head(want)) = K /\ Tail(want) = u /\ Sequence(u)
  /\ at \in Nat \ {0} /\ Items(D)[at] = Item(K, V)
  /\ K # "torn" /\ (K = "bars" \/ u # <<>>)

(* It is read, as v.                                                     *)
Taken(K, v) ==
  ~EntryAborts(v) /\ want' = After(K, v) /\ Store(K, v) /\ at' = at + 1

(* What is wanted is an item of its own kind, but for the magic bytes.   *)
LEMMA Kinds ==
  /\ \A w \in {"file", "hosts", "host_count", "graph", "last", "ring", "bars", "host",
               "addr", "last_seen", "name", "bytes", "count", "count8", "entry"} :
       Kind(w) = w
  /\ \A T \in ToSet(Tables) : Kind(T) = "magic" /\ Count(T) \in {"count", "count8"}
<1>1. ToSet(Tables) = {"ip", "tcp", "udp", "tcp_remote", "udp_remote"}
  <2>1. \A x : x \in ToSet(Tables) <=> \E t \in 1..5 : x = Tables[t]
    BY TablesFacts
  <2>2. \A t \in 1..5 : t = 1 \/ t = 2 \/ t = 3 \/ t = 4 \/ t = 5
    OBVIOUS
  <2>3. /\ 1 \in 1..5 /\ 2 \in 1..5 /\ 3 \in 1..5 /\ 4 \in 1..5 /\ 5 \in 1..5
    OBVIOUS
  <2> QED BY <2>1, <2>2, <2>3, TablesFacts
<1> QED BY <1>1 DEF Kind, Count

(* Most values do not change what else is wanted.                        *)
LEMMA WantAfter ==
  ASSUME NEW K, NEW v, Sequence(Tail(want)),
         K \notin {"host_count", "host", "count", "count8"}
  PROVE  After(K, v) = Tail(want)
<1>1. After(K, v) = <<>> \o Tail(want)
  BY DEF After
<1>2. Sequence(<<>>)
  BY ShortSeqs
<1> QED BY <1>1, <1>2, NoneLeft, Zenon

(* An import reads the item that is in the file. Otherwise the item is   *)
(* torn, and is not the last of all: the file ends there, with more to   *)
(* read. The last item is the bars of the graphs, and they may be        *)
(* anything.                                                             *)
LEMMA ReadStep ==
  ASSUME NEW D, NEW K, NEW V, NEW u, Reading(D, K, V, u), FileOK(D), import_next,
         Sequence(Items(D))
  PROVE  \/ Taken(K, V)
         \/ Stuck'
         \/ K = "bars" /\ \E v : Taken(K, v)
<1> USE DEF Reading
<1>1. /\ want # <<>> /\ at' = at + 1 /\ file' = file /\ ReadNext # {}
      /\ \E v \in ReadNext : ~EntryAborts(v) /\ want' = After(K, v) /\ Store(K, v)
  BY DEF import_next
<1>2. at <= Len(file) /\ ReadNext = Reads(K, file[at])
  BY <1>1 DEF ReadNext
<1>3. Len(file) \in Nat /\ at \in Nat /\ at \in 1..Len(file)
  BY <1>2, SeqShape DEF FileOK
<1>4. \/ file[at] = Item(K, V)
      \/ at = Len(file) /\ file[at] = Item("torn", Items(D)[at].kind)
  BY <1>3 DEF FileOK
<1>5. PICK v \in ReadNext : ~EntryAborts(v) /\ want' = After(K, v) /\ Store(K, v)
  BY <1>1
<1>6. CASE file[at] = Item(K, V)
  <2>1. Reads(K, file[at]) = {V}
    BY <1>6 DEF Reads, Item
  <2>2. v = V
    BY <2>1, <1>2, <1>5
  <2> QED BY <2>2, <1>1, <1>5 DEF Taken
<1>7. CASE at = Len(file) /\ file[at] = Item("torn", Items(D)[at].kind)
  <2>1. Items(D)[at].kind = K
    BY DEF Item
  <2>2. file[at] = Item("torn", K) /\ file[at].kind = "torn"
    BY <1>7, <2>1 DEF Item
  <2>3. K \in Numbers
    BY <2>2, <1>2, <1>1 DEF Reads
  <2>4. CASE K = "bars"
    BY <2>4, <1>1, <1>5 DEF Taken
  <2>5. CASE K \in {"host_count", "count"}
    <3>1. v \in 0..2
      BY <2>2, <2>3, <2>5, <1>2, <1>5 DEF Reads
    <3>2. \E s : Sequence(s) /\ After(K, v) = s \o u
      <4>1. K = "host_count" => After(K, v) = Copies(v, "host") \o u
        BY DEF After
      <4>2. K = "count" => After(K, v) = Copies(v, "entry") \o u
        BY DEF After
      <4>3. v \in Nat
        BY <3>1
      <4>4. Sequence(Copies(v, "host")) /\ Sequence(Copies(v, "entry"))
        BY <4>3, CopiesShape
      <4> QED BY <4>1, <4>2, <4>4, <2>5
    <3>3. Left(u)
      BY <2>5 DEF Left
    <3>4. Left(After(K, v))
      BY <3>2, <3>3, LeftIn
    <3>5. at' > Len(file')
      BY <1>1, <1>3, <1>7
    <3> QED BY <3>4, <3>5, <1>5 DEF Stuck, Left
  <2>6. CASE K \in Numbers \ {"bars", "host_count", "count"}
    <3>1. After(K, v) = Tail(want)
      BY <2>6, WantAfter DEF Numbers
    <3>2. want' # <<>>
      BY <3>1, <2>6, <1>5
    <3>3. at' > Len(file')
      BY <1>1, <1>3, <1>7
    <3> QED BY <3>2, <3>3 DEF Stuck
  <2> QED BY <2>3, <2>4, <2>5, <2>6
<1> QED BY <1>4, <1>6, <1>7

(***************************************************************************)
(* Where one list ends, the import is at the place after it.               *)
(***************************************************************************)
(* The ranges of what counts places.                                     *)
LEMMA Sizes ==
  ASSUME NEW D, GoodDb(D)
  PROVE  /\ D.version \in 1..4 /\ Len(Addrs(D)) \in Nat
         /\ FieldCount(D) \in {4, 5} /\ TableCount(D) \in {3, 5}
         /\ \A t \in 1..TableCount(D) : TableName(D, t) \in ToSet(Tables)
BY AddrsFacts, FieldsFacts, TablesOfFacts DEF GoodDb, FieldCount, TableCount, TableName

(* After the last entry of a subtable comes the next subtable.           *)
LEMMA EntriesEnd ==
  ASSUME NEW D, GoodDb(D), NEW i \in 1..Len(Addrs(D)), NEW t \in 1..TableCount(D),
         AtEntry(D, i, t, Len(Keys(D, i, t)) + 1)
  PROVE  AtTag(D, i, t + 1)
<1> DEFINE l == Len(Keys(D, i, t))
           a == Addrs(D)[i]
<1>1. l \in Nat /\ TableAt(D, i, t) \in Nat
      /\ TableAt(D, i, t + 1) = TableAt(D, i, t) + 2 + l
  BY KeysFacts, TableItems
<1>2. t \in Nat /\ 2*t + 1 = 2*(t + 1) - 1
  BY Sizes
<1>3. at = TableAt(D, i, t) + 2 + (l + 1) /\ want = WantEntries(D, i, t, l + 1)
      /\ InHost(D, i, t) /\ EntriesOK(D, hosts, ports_max, i, t, l + 1)
  BY DEF AtEntry
<1>4. want = WantTags(D, i, 2*(t + 1) - 1)
  BY <1>2, <1>3, EntriesWants
<1>5. TableOK(D, hosts, ports_max, a, TableName(D, t))
  <2> SUFFICES ASSUME NEW k \in DOMAIN Table(D, i, t)
               PROVE  EntryOK(D, hosts, ports_max, a, TableName(D, t), k)
    BY DEF TableOK, Table, Host, TableName
  <2>1. PICK r \in 1..l : Keys(D, i, t)[r] = k
    BY KeysFacts
  <2>2. r \in 1..((l + 1) - 1)
    BY <1>1
  <2> QED BY <1>3, <2>1, <2>2 DEF EntriesOK
<1>6. TablesOK(D, hosts, ports_max, i, t + 1)
  <2> SUFFICES ASSUME NEW w \in 1..((t + 1) - 1)
               PROVE  TableOK(D, hosts, ports_max, a, TableName(D, w))
    BY DEF TablesOK
  <2>1. w \in 1..(t - 1) \/ w = t
    BY <1>2
  <2> QED BY <2>1, <1>3, <1>5 DEF InHost, TablesOK
<1>7. at = TableAt(D, i, t + 1) + 1
  BY <1>1, <1>3
<1> QED BY <1>3, <1>4, <1>6, <1>7 DEF AtTag, InHost

(* After the last subtable of a host comes the next host.                *)
LEMMA TagsEnd ==
  ASSUME NEW D, GoodDb(D), NEW i \in 1..Len(Addrs(D)),
         AtTag(D, i, TableCount(D) + 1)
  PROVE  AtHost(D, i + 1)
<1> DEFINE T == TableCount(D)
           a == Addrs(D)[i]
<1>1. T \in {3, 5} /\ FieldCount(D) \in {4, 5} /\ i \in Nat
  BY Sizes
<1>2. 2*(T + 1) - 1 = 2*T + 1 /\ (T + 1) - 1 = T
      /\ (FieldCount(D) + 1) - 1 = FieldCount(D)
  BY <1>1
<1>3. at = TableAt(D, i, T + 1) + 1 /\ want = WantTags(D, i, 2*(T + 1) - 1)
      /\ InHost(D, i, T + 1)
  BY DEF AtTag
<1>4. want = WantHosts(D, i + 1)
  BY <1>2, <1>3, TagsWants
<1>5. at = HostAt(D, i + 1) + 1
  BY <1>3, FieldItems
<1>6. HostOK(D, hosts, offset, ports_max, a)
  <2>1. a \in DOMAIN hosts
        /\ \A q \in 1..FieldCount(D) : FieldOK(D, hosts, offset, a, Fields(D.version)[q])
    BY <1>2, <1>3 DEF InHost, FieldsOK
  <2>2. \A t \in 1..T : TableOK(D, hosts, ports_max, a, TableName(D, t))
    BY <1>2, <1>3 DEF InHost, TablesOK
  <2> QED BY <2>1, <2>2 DEF HostOK
<1>7. HostsOK(D, hosts, offset, ports_max, i + 1)
  <2> SUFFICES ASSUME NEW j \in 1..((i + 1) - 1)
               PROVE  HostOK(D, hosts, offset, ports_max, Addrs(D)[j])
    BY DEF HostsOK
  <2>1. j \in 1..(i - 1) \/ j = i
    BY <1>1
  <2> QED BY <2>1, <1>3, <1>6 DEF InHost, HostsOK
<1> QED BY <1>4, <1>5, <1>7 DEF AtHost

(* After the last host come the graphs.                                  *)
LEMMA HostsEnd ==
  ASSUME NEW D, GoodDb(D), AtHost(D, Len(Addrs(D)) + 1)
  PROVE  AtGraph(D, 4)
<1> DEFINE n == Len(Addrs(D)) + 1
<1>1. HostAt(D, n) \in Nat
  <2>1. n \in 1..(Len(Addrs(D)) + 1)
    BY Sizes
  <2> QED BY <2>1, Shape
<1>2. at = HostAt(D, n) + 1 /\ want = WantHosts(D, n) /\ HostsOK(D, hosts, offset, ports_max, n)
  BY DEF AtHost
<1>3. at = HostAt(D, n) + 4 - 3
  BY <1>1, <1>2
<1>4. want = WantGraph(4)
  BY <1>2, HostsWants
<1>5. ~(4 > 5)
  OBVIOUS
<1> QED BY <1>2, <1>3, <1>4, <1>5 DEF AtGraph

(* After the last field of a host come its subtables.                    *)
LEMMA FieldsEnd ==
  ASSUME NEW D, GoodDb(D), NEW i \in 1..Len(Addrs(D)),
         AtField(D, i, FieldCount(D) + 1)
  PROVE  AtTag(D, i, 1)
<1> DEFINE m == FieldCount(D)
<1>1. m \in {4, 5} /\ m + 1 > 2 /\ 2*1 - 1 = 1
  BY Sizes
<1>2. /\ at = HostAt(D, i) + (m + 1) /\ want = WantFields(D, i, m + 1)
      /\ HostsOK(D, hosts, offset, ports_max, i)
      /\ FieldsOK(D, hosts, offset, i, m + 1) /\ cur[1] = Addrs(D)[i]
  BY <1>1 DEF AtField
<1>3. want = WantTags(D, i, 2*1 - 1)
  BY <1>1, <1>2, FieldsWants
<1>4. at = TableAt(D, i, 1) + 1
  <2>1. TableAt(D, i, 1) = HostAt(D, i) + m /\ HostAt(D, i) \in Nat
    BY FieldItems
  <2> QED BY <1>1, <1>2, <2>1
<1>5. TablesOK(D, hosts, ports_max, i, 1)
  BY DEF TablesOK
<1> QED BY <1>2, <1>3, <1>4, <1>5 DEF AtTag, InHost

(* The places at which an item is to be read.                            *)
Unfinished(D) ==
  \/ \E q \in 1..3 : AtHeader(D, q)
  \/ \E q \in 4..7 : AtGraph(D, q)
  \/ \E i \in 1..Len(Addrs(D)) :
       \/ AtHost(D, i)
       \/ \E q \in 2..FieldCount(D) : AtField(D, i, q)
       \/ \E t \in 1..TableCount(D) :
            \/ AtTag(D, i, t) \/ AtCount(D, i, t)
            \/ \E r \in 1..Len(Keys(D, i, t)) : AtEntry(D, i, t, r)

(* An import that is on track is at one of them, or at the end.          *)
LEMMA Places ==
  ASSUME NEW D, GoodDb(D), OnTrack(D)
  PROVE  Unfinished(D) \/ AtGraph(D, 8)
<1>0. Len(Addrs(D)) \in Nat /\ TableCount(D) \in {3, 5} /\ FieldCount(D) \in {4, 5}
  BY Sizes
<1> DEFINE Good == Unfinished(D) \/ AtGraph(D, 8)
<1>1. ASSUME NEW q \in 4..8, AtGraph(D, q) PROVE Good
  <2>1. q \in 4..7 \/ q = 8
    OBVIOUS
  <2> QED BY <2>1, <1>1 DEF Unfinished
<1>2. ASSUME NEW i \in 1..(Len(Addrs(D)) + 1), AtHost(D, i) PROVE Good
  <2>1. i \in 1..Len(Addrs(D)) \/ i = Len(Addrs(D)) + 1
    BY <1>0
  <2>2. CASE i \in 1..Len(Addrs(D))
    BY <2>2, <1>2 DEF Unfinished
  <2>3. CASE i = Len(Addrs(D)) + 1
    <3>1. AtGraph(D, 4)
      BY <2>3, <1>2, HostsEnd
    <3>2. 4 \in 4..8
      OBVIOUS
    <3> HIDE DEF Good
    <3> QED BY <3>1, <3>2, <1>1
  <2> QED BY <2>1, <2>2, <2>3
<1>3. ASSUME NEW i \in 1..Len(Addrs(D)), NEW t \in 1..(TableCount(D) + 1), AtTag(D, i, t)
      PROVE  Good
  <2>1. t \in 1..TableCount(D) \/ t = TableCount(D) + 1
    BY <1>0
  <2>2. CASE t \in 1..TableCount(D)
    BY <2>2, <1>3 DEF Unfinished
  <2>3. CASE t = TableCount(D) + 1
    <3>1. AtHost(D, i + 1)
      BY <2>3, <1>3, TagsEnd
    <3>2. i + 1 \in 1..(Len(Addrs(D)) + 1)
      BY <1>0
    <3> HIDE DEF Good
    <3> QED BY <3>1, <3>2, <1>2
  <2> QED BY <2>1, <2>2, <2>3
<1>4. ASSUME NEW i \in 1..Len(Addrs(D)), NEW q \in 2..(FieldCount(D) + 1), AtField(D, i, q)
      PROVE  Good
  <2>1. q \in 2..FieldCount(D) \/ q = FieldCount(D) + 1
    BY <1>0
  <2>2. CASE q \in 2..FieldCount(D)
    BY <2>2, <1>4 DEF Unfinished
  <2>3. CASE q = FieldCount(D) + 1
    <3>1. AtTag(D, i, 1)
      BY <2>3, <1>4, FieldsEnd
    <3>2. 1 \in 1..(TableCount(D) + 1)
      BY <1>0
    <3> HIDE DEF Good
    <3> QED BY <3>1, <3>2, <1>3
  <2> QED BY <2>1, <2>2, <2>3
<1>5. ASSUME NEW i \in 1..Len(Addrs(D)), NEW t \in 1..TableCount(D),
             NEW r \in 1..(Len(Keys(D, i, t)) + 1), AtEntry(D, i, t, r)
      PROVE  Good
  <2>1. r \in 1..Len(Keys(D, i, t)) \/ r = Len(Keys(D, i, t)) + 1
    BY KeysFacts
  <2>2. CASE r \in 1..Len(Keys(D, i, t))
    BY <2>2, <1>5 DEF Unfinished
  <2>3. CASE r = Len(Keys(D, i, t)) + 1
    <3>1. AtTag(D, i, t + 1)
      BY <2>3, <1>5, EntriesEnd
    <3>2. t + 1 \in 1..(TableCount(D) + 1)
      BY <1>0
    <3> HIDE DEF Good
    <3> QED BY <3>1, <3>2, <1>3
  <2> QED BY <2>1, <2>2, <2>3
<1>6. ASSUME NEW q \in 1..3, AtHeader(D, q) PROVE Good
  BY <1>6 DEF Unfinished
<1>7. ASSUME NEW i \in 1..Len(Addrs(D)), NEW t \in 1..TableCount(D), AtCount(D, i, t)
      PROVE  Good
  BY <1>7 DEF Unfinished
<1> HIDE DEF Good
<1>8. Good
  BY <1>1, <1>2, <1>3, <1>4, <1>5, <1>6, <1>7, Zenon DEF OnTrack
<1> QED BY <1>8 DEF Good

(***************************************************************************)
(* At each place, the item that the file has is the one that is wanted.    *)
(***************************************************************************)
(* The values in the header, and among the graphs.                       *)
HeaderValue(D, q) == IF q = 3 THEN Len(Addrs(D)) ELSE 1
GraphValue(D, q) == CASE q = 5 -> D.graph.last [] q = 7 -> D.graph.bars [] OTHER -> 1

(* What a want that leads with x says of reading.                        *)
LEMMA LeadsReading ==
  ASSUME NEW x, NEW u, Leads(want, x, u), NEW K, Kind(x) = K
  PROVE  want # <<>> /\ Kind(Head(want)) = K /\ Tail(want) = u /\ Sequence(u)
BY DEF Leads

(* In the header.                                                        *)
LEMMA ReadHeader ==
  ASSUME NEW D, GoodDb(D), NEW q \in 1..3, AtHeader(D, q)
  PROVE  Reading(D, Import_db[q], HeaderValue(D, q), WantGraph(q + 1))
<1>1. at = q /\ want = WantGraph(q) /\ q \in 1..7 /\ q + 1 \in 1..7
  BY DEF AtHeader
<1>2. Leads(want, Import_db[q], WantGraph(q + 1)) /\ WantGraph(q + 1) # <<>>
  BY <1>1, GraphWants DEF Left
<1>3. Import_db[q] \in {"file", "hosts", "host_count"}
      /\ Items(D)[at] = Item(Import_db[q], HeaderValue(D, q))
  <2>1. Items(D)[at] = Header(D)[q]
    BY <1>1, Shape
  <2>2. q = 1 \/ q = 2 \/ q = 3
    OBVIOUS
  <2>3. CASE q = 1
    BY <2>1, <2>3, TrailerShape, ImportShape DEF HeaderValue
  <2>4. CASE q = 2
    BY <2>1, <2>4, TrailerShape, ImportShape DEF HeaderValue
  <2>5. CASE q = 3
    BY <2>1, <2>5, TrailerShape, ImportShape DEF HeaderValue
  <2> QED BY <2>2, <2>3, <2>4, <2>5
<1>4. Kind(Import_db[q]) = Import_db[q] /\ Import_db[q] # "torn"
  BY <1>3, Kinds
<1>5. at \in Nat \ {0}
  BY <1>1
<1>20. want # <<>> /\ Kind(Head(want)) = Import_db[q]
       /\ Tail(want) = WantGraph(q + 1) /\ Sequence(WantGraph(q + 1))
  BY <1>2, <1>3, <1>4, <1>5, LeadsReading, Zenon
<1> QED BY <1>2, <1>3, <1>4, <1>5, <1>20 DEF Reading

(* Among the graphs.                                                     *)
LEMMA ReadGraph ==
  ASSUME NEW D, GoodDb(D), NEW q \in 4..7, AtGraph(D, q)
  PROVE  Reading(D, Import_db[q], GraphValue(D, q), WantGraph(q + 1))
<1> DEFINE h == HostAt(D, Len(Addrs(D)) + 1)
<1>1. at = h + q - 3 /\ want = WantGraph(q) /\ q \in 1..7
  BY DEF AtGraph
<1>2. h \in Nat
  <2>1. Len(Addrs(D)) + 1 \in 1..(Len(Addrs(D)) + 1)
    BY Sizes
  <2> QED BY <2>1, Shape
<1>3. Leads(want, Import_db[q], WantGraph(q + 1))
  BY <1>1, GraphWants
<1>4. /\ Import_db[q] \in {"graph", "last", "ring", "bars"}
      /\ q = 7 => Import_db[q] = "bars"
      /\ Items(D)[at] = Item(Import_db[q], GraphValue(D, q))
  <2>1. at = h + (q - 3) /\ q - 3 \in 1..4
    BY <1>1, <1>2
  <2>2. Items(D)[at] = Trailer(D)[q - 3]
    BY <2>1, Shape
  <2>3. q = 4 \/ q = 5 \/ q = 6 \/ q = 7
    OBVIOUS
  <2>4. 4 - 3 = 1 /\ 5 - 3 = 2 /\ 6 - 3 = 3 /\ 7 - 3 = 4
    OBVIOUS
  <2>5. CASE q = 4
    BY <2>2, <2>4, <2>5, TrailerShape, ImportShape DEF GraphValue
  <2>6. CASE q = 5
    BY <2>2, <2>4, <2>6, TrailerShape, ImportShape DEF GraphValue
  <2>7. CASE q = 6
    BY <2>2, <2>4, <2>7, TrailerShape, ImportShape DEF GraphValue
  <2>8. CASE q = 7
    BY <2>2, <2>4, <2>8, TrailerShape, ImportShape DEF GraphValue
  <2> QED BY <2>3, <2>5, <2>6, <2>7, <2>8
<1>5. Kind(Import_db[q]) = Import_db[q] /\ Import_db[q] # "torn"
  BY <1>4, Kinds
<1>6. at \in Nat \ {0}
  BY <1>1, <1>2
<1>7. Import_db[q] = "bars" \/ WantGraph(q + 1) # <<>>
  <2>1. q = 7 \/ q + 1 \in 1..7
    OBVIOUS
  <2> QED BY <2>1, <1>4, GraphWants DEF Left
<1>20. want # <<>> /\ Kind(Head(want)) = Import_db[q]
       /\ Tail(want) = WantGraph(q + 1) /\ Sequence(WantGraph(q + 1))
  BY <1>3, <1>4, <1>5, <1>6, <1>7, LeadsReading, Zenon
<1> QED BY <1>3, <1>4, <1>5, <1>6, <1>7, <1>20 DEF Reading

(* At a host.                                                            *)
LEMMA ReadHost ==
  ASSUME NEW D, GoodDb(D), NEW i \in 1..Len(Addrs(D)), AtHost(D, i)
  PROVE  Reading(D, "host", D.version, WantHosts(D, i + 1))
<1>1. at = HostAt(D, i) + 1 /\ want = WantHosts(D, i)
  BY DEF AtHost
<1>2. i + 1 \in 1..(Len(Addrs(D)) + 1) /\ 1 \in 1..FieldCount(D)
  BY Sizes
<1>3. Leads(want, "host", WantHosts(D, i + 1)) /\ WantHosts(D, i + 1) # <<>>
  BY <1>1, <1>2, HostsWants DEF Left
<1>4. Items(D)[at] = Item("host", D.version)
  <2>1. Items(D)[at] = Item(Fields(D.version)[1], FieldOf(D, i, 1))
    BY <1>1, <1>2, FieldItems
  <2>2. Fields(D.version)[1] = "host"
    BY Sizes, FieldsFacts
  <2> QED BY <2>1, <2>2 DEF FieldOf, Field
<1>5. at \in Nat \ {0}
  BY <1>1, FieldItems
<1>6. Kind("host") = "host"
  BY Kinds
<1>20. want # <<>> /\ Kind(Head(want)) = "host"
       /\ Tail(want) = WantHosts(D, i + 1) /\ Sequence(WantHosts(D, i + 1))
  BY <1>3, <1>4, <1>5, <1>6, LeadsReading, Zenon
<1> QED BY <1>3, <1>4, <1>5, <1>6, <1>20 DEF Reading

(* At a field, of which only the second is the address.                  *)
LEMMA ReadField ==
  ASSUME NEW D, GoodDb(D), NEW i \in 1..Len(Addrs(D)), NEW q \in 2..FieldCount(D),
         AtField(D, i, q)
  PROVE  /\ Reading(D, Fields(D.version)[q], FieldOf(D, i, q), WantFields(D, i, q + 1))
         /\ Fields(D.version)[q] \in {"addr", "last_seen", "name", "bytes"}
         /\ Fields(D.version)[q] = "addr" <=> q = 2
<1>1. at = HostAt(D, i) + q /\ want = WantFields(D, i, q)
  BY DEF AtField
<1>2. q + 1 \in 1..(FieldCount(D) + 1) /\ q \in 1..FieldCount(D)
  BY Sizes
<1>3. Leads(want, Fields(D.version)[q], WantFields(D, i, q + 1))
      /\ WantFields(D, i, q + 1) # <<>>
  BY <1>1, <1>2, FieldsWants DEF Left
<1>4. Items(D)[at] = Item(Fields(D.version)[q], FieldOf(D, i, q))
  BY <1>1, <1>2, FieldItems
<1>5. at \in Nat \ {0}
  BY <1>1, <1>2, FieldItems
<1>6. /\ Fields(D.version)[q] \in {"addr", "last_seen", "name", "bytes"}
      /\ Fields(D.version)[q] = "addr" <=> q = 2
  <2>1. D.version \in 1..4 /\ FieldCount(D) = Len(Fields(D.version))
    BY Sizes DEF FieldCount
  <2>2. CASE D.version > 1
    <3>0. FieldCount(D) = 5
      BY <2>1, <2>2, FieldsFacts
    <3>1. q = 2 \/ q = 3 \/ q = 4 \/ q = 5
      BY <3>0
    <3> QED BY <3>1, <2>1, <2>2, FieldsFacts
  <2>3. CASE ~(D.version > 1)
    <3>0. FieldCount(D) = 4
      BY <2>1, <2>3, FieldsFacts
    <3>1. q = 2 \/ q = 3 \/ q = 4
      BY <3>0
    <3> QED BY <3>1, <2>1, <2>3, FieldsFacts
  <2> QED BY <2>2, <2>3
<1>7. Kind(Fields(D.version)[q]) = Fields(D.version)[q] /\ Fields(D.version)[q] # "torn"
  BY <1>6, Kinds
<1>20. want # <<>> /\ Kind(Head(want)) = Fields(D.version)[q]
       /\ Tail(want) = WantFields(D, i, q + 1) /\ Sequence(WantFields(D, i, q + 1))
  BY <1>3, <1>7, LeadsReading, Zenon
<1> QED BY <1>3, <1>4, <1>5, <1>6, <1>7, <1>20 DEF Reading

(* At a subtable.                                                        *)
LEMMA ReadTag ==
  ASSUME NEW D, GoodDb(D), NEW i \in 1..Len(Addrs(D)), NEW t \in 1..TableCount(D),
         AtTag(D, i, t)
  PROVE  Reading(D, "magic", TableName(D, t), WantTags(D, i, 2*t))
<1>1. at = TableAt(D, i, t) + 1 /\ want = WantTags(D, i, 2*t - 1)
  BY DEF AtTag
<1>2. 2*t \in 1..(2 * TableCount(D) + 1)
  BY Sizes
<1>3. Leads(want, TableName(D, t), WantTags(D, i, 2*t)) /\ WantTags(D, i, 2*t) # <<>>
  BY <1>1, <1>2, TagsWants DEF Left
<1>4. Items(D)[at] = Item("magic", TableName(D, t)) /\ at \in Nat \ {0}
  BY <1>1, TableItems
<1>5. Kind(TableName(D, t)) = "magic"
  BY Sizes, Kinds
<1>20. want # <<>> /\ Kind(Head(want)) = "magic"
       /\ Tail(want) = WantTags(D, i, 2*t) /\ Sequence(WantTags(D, i, 2*t))
  BY <1>3, <1>4, <1>5, LeadsReading, Zenon
<1> QED BY <1>3, <1>4, <1>5, <1>20 DEF Reading

(* At its count.                                                         *)
LEMMA ReadCount ==
  ASSUME NEW D, GoodDb(D), NEW i \in 1..Len(Addrs(D)), NEW t \in 1..TableCount(D),
         AtCount(D, i, t)
  PROVE  /\ Reading(D, Count(TableName(D, t)), Len(Keys(D, i, t)), WantTags(D, i, 2*t + 1))
         /\ Count(TableName(D, t)) \in {"count", "count8"}
<1>1. at = TableAt(D, i, t) + 2 /\ want = WantTags(D, i, 2*t)
  BY DEF AtCount
<1>2. 2*t + 1 \in 1..(2 * TableCount(D) + 1)
  BY Sizes
<1>3. Leads(want, Count(TableName(D, t)), WantTags(D, i, 2*t + 1))
      /\ WantTags(D, i, 2*t + 1) # <<>>
  BY <1>1, <1>2, TagsWants DEF Left
<1>4. Items(D)[at] = Item(Count(TableName(D, t)), Len(Keys(D, i, t)))
      /\ at \in Nat \ {0}
  BY <1>1, TableItems
<1>5. Count(TableName(D, t)) \in {"count", "count8"}
  BY Sizes, Kinds
<1>6. /\ Kind(Count(TableName(D, t))) = Count(TableName(D, t))
      /\ Count(TableName(D, t)) # "torn"
  BY <1>5, Kinds
<1>20. want # <<>> /\ Kind(Head(want)) = Count(TableName(D, t))
       /\ Tail(want) = WantTags(D, i, 2*t + 1) /\ Sequence(WantTags(D, i, 2*t + 1))
  BY <1>3, <1>4, <1>5, <1>6, LeadsReading, Zenon
<1> QED BY <1>3, <1>4, <1>5, <1>6, <1>20 DEF Reading

(* The value of an entry: the key, and what is counted under it.         *)
EntryValue(D, i, t, r) == <<Keys(D, i, t)[r], Table(D, i, t)[Keys(D, i, t)[r]]>>

(* At an entry.                                                          *)
LEMMA ReadEntry ==
  ASSUME NEW D, GoodDb(D), NEW i \in 1..Len(Addrs(D)), NEW t \in 1..TableCount(D),
         NEW r \in 1..Len(Keys(D, i, t)), AtEntry(D, i, t, r)
  PROVE  Reading(D, "entry", EntryValue(D, i, t, r), WantEntries(D, i, t, r + 1))
<1>1. at = TableAt(D, i, t) + 2 + r /\ want = WantEntries(D, i, t, r)
  BY DEF AtEntry
<1>2. r + 1 \in 1..(Len(Keys(D, i, t)) + 1)
  BY KeysFacts
<1>3. Leads(want, "entry", WantEntries(D, i, t, r + 1))
      /\ WantEntries(D, i, t, r + 1) # <<>>
  BY <1>1, <1>2, EntriesWants DEF Left
<1>4. Items(D)[at] = Item("entry", EntryValue(D, i, t, r)) /\ at \in Nat \ {0}
  <2>1. at \in Nat \ {0}
    BY <1>1, <1>2, TableItems
  <2>2. Items(D)[at] = Item("entry", EntryValue(D, i, t, r))
    BY <1>1, TableItems DEF EntryValue
  <2> QED BY <2>1, <2>2
<1>5. Kind("entry") = "entry"
  BY Kinds
<1>20. want # <<>> /\ Kind(Head(want)) = "entry"
       /\ Tail(want) = WantEntries(D, i, t, r + 1) /\ Sequence(WantEntries(D, i, t, r + 1))
  BY <1>3, <1>4, <1>5, LeadsReading, Zenon
<1> QED BY <1>3, <1>4, <1>5, <1>20 DEF Reading

(***************************************************************************)
(* Storing a value forgets nothing that was stored before it.              *)
(***************************************************************************)
(* What of D is in H is in G.                                            *)
Keeps(D, H, G, o, m) ==
  \A a \in DOMAIN H :
    /\ a \in DOMAIN G
    /\ \A f : FieldOK(D, H, o, a, f) => FieldOK(D, G, o, a, f)
    /\ \A T \in ToSet(Tables) : \A k : EntryOK(D, H, m, a, T, k) => EntryOK(D, G, m, a, T, k)

(* A host that has been read stays read.                                 *)
LEMMA HostKept ==
  ASSUME NEW D, NEW H, NEW G, NEW o, NEW m, GoodDb(D), Keeps(D, H, G, o, m),
         NEW a, HostOK(D, H, o, m, a)
  PROVE  HostOK(D, G, o, m, a)
<1>1. a \in DOMAIN H /\ a \in DOMAIN G
  BY DEF HostOK, Keeps
<1>2. \A q \in 1..FieldCount(D) : FieldOK(D, G, o, a, Fields(D.version)[q])
  BY <1>1, Zenon DEF HostOK, Keeps
<1>3. \A t \in 1..TableCount(D) : TableOK(D, G, m, a, TableName(D, t))
  <2> SUFFICES ASSUME NEW t \in 1..TableCount(D) PROVE TableOK(D, G, m, a, TableName(D, t))
    OBVIOUS
  <2>1. TableName(D, t) \in ToSet(Tables) /\ TableOK(D, H, m, a, TableName(D, t))
    BY Sizes DEF HostOK
  <2> QED BY <2>1, <1>1, Zenon DEF TableOK, Keeps
<1> QED BY <1>1, <1>2, <1>3 DEF HostOK

(* So does the part of D before any place.                               *)
LEMMA PlacesKept ==
  ASSUME NEW D, NEW H, NEW G, NEW o, NEW m, GoodDb(D), Keeps(D, H, G, o, m)
  PROVE  /\ \A i : HostsOK(D, H, o, m, i) => HostsOK(D, G, o, m, i)
         /\ \A i, q : FieldsOK(D, H, o, i, q) => FieldsOK(D, G, o, i, q)
         /\ \A i : Addrs(D)[i] \in DOMAIN H =>
              \A t \in 1..(TableCount(D) + 1) : TablesOK(D, H, m, i, t) => TablesOK(D, G, m, i, t)
         /\ \A i : Addrs(D)[i] \in DOMAIN H =>
              \A t \in 1..TableCount(D) : \A r :
                EntriesOK(D, H, m, i, t, r) => EntriesOK(D, G, m, i, t, r)
<1>1. ASSUME NEW i, HostsOK(D, H, o, m, i) PROVE HostsOK(D, G, o, m, i)
  BY <1>1, HostKept DEF HostsOK
<1>2. ASSUME NEW i, NEW q, FieldsOK(D, H, o, i, q) PROVE FieldsOK(D, G, o, i, q)
  BY <1>2, Zenon DEF FieldsOK, Keeps
<1>3. ASSUME NEW i, Addrs(D)[i] \in DOMAIN H, NEW t \in 1..(TableCount(D) + 1),
             TablesOK(D, H, m, i, t)
      PROVE  TablesOK(D, G, m, i, t)
  <2> SUFFICES ASSUME NEW u \in 1..(t - 1)
               PROVE  TableOK(D, G, m, Addrs(D)[i], TableName(D, u))
    BY DEF TablesOK
  <2>1. u \in 1..TableCount(D)
    BY Sizes
  <2>2. TableName(D, u) \in ToSet(Tables) /\ TableOK(D, H, m, Addrs(D)[i], TableName(D, u))
    BY <2>1, <1>3, Sizes DEF TablesOK
  <2> QED BY <2>2, <1>3, Zenon DEF TableOK, Keeps
<1>4. ASSUME NEW i, Addrs(D)[i] \in DOMAIN H, NEW t \in 1..TableCount(D), NEW r,
             EntriesOK(D, H, m, i, t, r)
      PROVE  EntriesOK(D, G, m, i, t, r)
  <2>1. TableName(D, t) \in ToSet(Tables)
    BY Sizes
  <2> QED BY <2>1, <1>4, Zenon DEF EntriesOK, Keeps
<1> QED BY <1>1, <1>2, <1>3, <1>4

(* A new host has no entries.                                            *)
LEMMA NewHosts ==
  IsHost(NewHost) /\ IsTable(None) /\ DOMAIN None = {}
  /\ \A T \in ToSet(Tables) : NewHost.tables[T] = None
<1>1. DOMAIN None = {} /\ IsTable(None)
  BY FS_EmptySet DEF IsTable, None
<1>2. \A T \in ToSet(Tables) : NewHost.tables[T] = None
  BY DEF NewHost
<1>3. NewHost.tables = [T \in ToSet(Tables) |-> NewHost.tables[T]]
  BY DEF NewHost
<1>4. NewHost = [last_seen |-> NewHost.last_seen, name |-> NewHost.name,
                 bytes |-> NewHost.bytes, tables |-> NewHost.tables]
      /\ NewHost.last_seen \in Int
  BY DEF NewHost
<1> QED BY <1>1, <1>2, <1>3, <1>4 DEF IsHost

(* Nothing is a part of any subtable, and it is small.                   *)
LEMMA NoPart ==
  ASSUME NEW m \in Nat, NEW T
  PROVE  SmallTable(T, None, m) /\ \A e : PartOf(None, e, T, m)
<1>1. DOMAIN None = {} /\ IsTable(None) /\ Cardinality(DOMAIN None) = 0
  BY NewHosts, FS_EmptySet
<1> QED BY <1>1 DEF SmallTable, ProperTable, PartOf

(* A host has fewer protocols than there are: the one that is not        *)
(* decoded is never counted.                                             *)
LEMMA ProtocolsFew ==
  ASSUME NEW f, ProperTable("ip", f)
  PROVE  Cardinality(DOMAIN f) < ProtoLimit
<1> DEFINE A == 0..ProtoLimit - 1
           S == A \ {IPPROTO_INVALID}
<1>1. ProtoLimit \in Nat /\ IPPROTO_INVALID \in A
  BY DbAssumption
<1>2. IsFiniteSet(A) /\ Cardinality(A) = ProtoLimit
  BY <1>1, FS_Interval
<1>3. IsFiniteSet(S) /\ Cardinality(S) = ProtoLimit - 1
  <2> HIDE DEF A
  <2> QED BY <1>1, <1>2, FS_RemoveElement
<1>4. DOMAIN f \subseteq S /\ IsFiniteSet(DOMAIN f)
  BY DEF ProperTable, ProperKeys, IsTable
<1> HIDE DEF S
<1>5. Cardinality(DOMAIN f) <= Cardinality(S)
  BY <1>3, <1>4, FS_Subset
<1>6. Cardinality(DOMAIN f) \in Nat
  BY <1>4, FS_CardinalityType
<1> QED BY <1>1, <1>3, <1>5, <1>6

(* What Put makes of a table.                                            *)
LEMMA PutShape ==
  ASSUME NEW f, NEW k, NEW x
  PROVE  /\ DOMAIN Put(f, k, x) = DOMAIN f \cup {k} /\ Put(f, k, x)[k] = x
         /\ \A l \in DOMAIN f : l # k => Put(f, k, x)[l] = f[l]
         /\ Put(f, k, x) = [l \in DOMAIN Put(f, k, x) |-> Put(f, k, x)[l]]
         /\ IsFiniteSet(DOMAIN f) => IsFiniteSet(DOMAIN Put(f, k, x))
<1>1. DOMAIN Put(f, k, x) = DOMAIN f \cup {k} /\ Put(f, k, x)[k] = x
      /\ \A l \in DOMAIN f : l # k => Put(f, k, x)[l] = f[l]
  BY DEF Put
<1>2. Put(f, k, x) = [l \in DOMAIN Put(f, k, x) |-> Put(f, k, x)[l]]
  BY DEF Put
<1>3. IsFiniteSet(DOMAIN f) => IsFiniteSet(DOMAIN f \cup {k})
  BY FS_AddElement
<1> QED BY <1>1, <1>2, <1>3

(* host_get, with the address of a host of D.                            *)
LEMMA AddrStored ==
  ASSUME NEW D, NEW H, NEW o, NEW m \in Nat, GoodDb(D), Within(D, H, m),
         NEW a \in DOMAIN D.hosts
  PROVE  /\ Within(D, host_get(H, a), m) /\ a \in DOMAIN host_get(H, a)
         /\ Keeps(D, H, host_get(H, a), o, m)
<1>1. CASE a \in DOMAIN H
  <2>1. host_get(H, a) = H
    BY <1>1 DEF host_get
  <2> QED BY <1>1, <2>1 DEF Keeps
<1>2. CASE a \notin DOMAIN H
  <2> DEFINE G == Put(H, a, NewHost)
  <2>1. host_get(H, a) = G
    BY <1>2 DEF host_get
  <2>2. /\ DOMAIN G = DOMAIN H \cup {a} /\ G[a] = NewHost
        /\ \A b \in DOMAIN H : G[b] = H[b]
        /\ G = [l \in DOMAIN G |-> G[l]] /\ IsFiniteSet(DOMAIN G)
    <3>1. IsFiniteSet(DOMAIN H)
      BY DEF Within, IsDb
    <3>2. \A b \in DOMAIN H : b # a
      BY <1>2
    <3>3. /\ DOMAIN G = DOMAIN H \cup {a} /\ G[a] = NewHost
          /\ \A b \in DOMAIN H : b # a => G[b] = H[b]
          /\ G = [l \in DOMAIN G |-> G[l]]
          /\ IsFiniteSet(DOMAIN H) => IsFiniteSet(DOMAIN G)
      BY PutShape, Zenon
    <3> HIDE DEF G
    <3> QED BY <3>1, <3>2, <3>3
  <2> HIDE DEF G
  <2>3. Keeps(D, H, G, o, m)
    BY <2>2 DEF Keeps, FieldOK, EntryOK, Has
  <2>4. IsDb(G)
    BY <2>2, NewHosts DEF Within, IsDb
  <2>5. \A b \in DOMAIN G : \A T \in ToSet(Tables) :
          PartOf(G[b].tables[T], D.hosts[b].tables[T], T, m)
    <3>1. ASSUME NEW b \in DOMAIN H, NEW T \in ToSet(Tables)
          PROVE  PartOf(G[b].tables[T], D.hosts[b].tables[T], T, m)
      BY <2>2 DEF Within
    <3>2. ASSUME NEW T \in ToSet(Tables)
          PROVE  PartOf(G[a].tables[T], D.hosts[a].tables[T], T, m)
      <4>1. G[a].tables[T] = None
        BY <2>2, NewHosts
      <4> QED BY <4>1, NoPart
    <3> QED BY <2>2, <3>1, <3>2
  <2> QED BY <2>1, <2>2, <2>3, <2>4, <2>5 DEF Within
<1> QED BY <1>1, <1>2

(* A host of H is changed, towards what it is in D.                      *)
LEMMA HostChanged ==
  ASSUME NEW D, NEW H, NEW o, NEW m, GoodDb(D), Within(D, H, m), NEW a \in DOMAIN H,
         NEW h, IsHost(h),
         h.last_seen = H[a].last_seen \/ h.last_seen + o = D.hosts[a].last_seen,
         h.name = H[a].name \/ h.name = D.hosts[a].name,
         h.bytes = H[a].bytes \/ h.bytes = D.hosts[a].bytes,
         \A T \in ToSet(Tables) :
           PartOf(h.tables[T], D.hosts[a].tables[T], T, m),
         \A T \in ToSet(Tables) : \A k :
           Fits(D, m, a, T) /\ Has(D, H[a], a, T, k) => Has(D, h, a, T, k)
  PROVE  /\ Within(D, [H EXCEPT ![a] = h], m) /\ Keeps(D, H, [H EXCEPT ![a] = h], o, m)
         /\ a \in DOMAIN [H EXCEPT ![a] = h] /\ [H EXCEPT ![a] = h][a] = h
<1> DEFINE G == [H EXCEPT ![a] = h]
<1>1. /\ DOMAIN G = DOMAIN H /\ G[a] = h
      /\ \A b \in DOMAIN H : b # a => G[b] = H[b]
      /\ G = [b \in DOMAIN G |-> G[b]]
  OBVIOUS
<1> HIDE DEF G
<1>2. IsDb(G)
  <2>1. IsFiniteSet(DOMAIN H) /\ \A b \in DOMAIN H : IsHost(H[b])
    BY DEF Within, IsDb
  <2> QED BY <1>1, <2>1 DEF IsDb
<1>3. \A b \in DOMAIN G : \A T \in ToSet(Tables) :
        PartOf(G[b].tables[T], D.hosts[b].tables[T], T, m)
  <2> SUFFICES ASSUME NEW b \in DOMAIN G, NEW T \in ToSet(Tables)
               PROVE  PartOf(G[b].tables[T], D.hosts[b].tables[T], T, m)
    OBVIOUS
  <2>1. CASE b = a
    BY <2>1, <1>1
  <2>2. CASE b # a
    BY <2>2, <1>1 DEF Within
  <2> QED BY <2>1, <2>2
<1>4. Within(D, G, m)
  BY <1>1, <1>2, <1>3 DEF Within
<1>5. ASSUME NEW b \in DOMAIN H, NEW f, FieldOK(D, H, o, b, f)
      PROVE  FieldOK(D, G, o, b, f)
  <2>1. CASE b = a
    BY <2>1, <1>1, <1>5 DEF FieldOK
  <2>2. CASE b # a
    BY <2>2, <1>1, <1>5 DEF FieldOK
  <2> QED BY <2>1, <2>2
<1>6. ASSUME NEW b \in DOMAIN H, NEW T \in ToSet(Tables), NEW k, EntryOK(D, H, m, b, T, k)
      PROVE  EntryOK(D, G, m, b, T, k)
  <2>1. CASE b = a
    <3>1. Fits(D, m, a, T) => Has(D, h, a, T, k)
      BY <2>1, <1>6 DEF EntryOK
    <3> QED BY <2>1, <3>1, <1>1 DEF EntryOK
  <2>2. CASE b # a
    BY <2>2, <1>1, <1>6 DEF EntryOK
  <2> QED BY <2>1, <2>2
<1>7. Keeps(D, H, G, o, m)
  BY <1>1, <1>5, <1>6 DEF Keeps
<1> QED BY <1>1, <1>4, <1>7 DEF G

(* The kinds of items whose value is not stored.                         *)
Unstored == {"file", "hosts", "host_count", "graph", "ring", "host", "count", "count8"}

(* What each kind of item changes.                                       *)
LEMMA StoreShape ==
  ASSUME NEW v
  PROVE  /\ \A K \in Unstored : Store(K, v) => hosts' = hosts /\ graph' = graph /\ cur' = cur
         /\ Store("magic", v) => hosts' = hosts /\ graph' = graph /\ cur' = <<cur[1], v>>
         /\ Store("addr", v) => hosts' = host_get(hosts, v) /\ cur' = <<v, "">>
         /\ Store("last_seen", v) =>
              hosts' = [hosts EXCEPT ![cur[1]].last_seen = real_to_mono(v)] /\ cur' = cur
         /\ Store("name", v) => hosts' = [hosts EXCEPT ![cur[1]].name = v] /\ cur' = cur
         /\ Store("bytes", v) => hosts' = [hosts EXCEPT ![cur[1]].bytes = v] /\ cur' = cur
         /\ Store("entry", v) =>
              /\ hosts' = [hosts EXCEPT ![cur[1]].tables[cur[2]] =
                                             find_or_insert(cur[2], @, v[1], v[2])]
              /\ cur' = cur
         /\ Store("last", v) =>
              hosts' = hosts /\ graph' = [graph EXCEPT !.last = v] /\ cur' = cur
         /\ Store("bars", v) =>
              hosts' = hosts /\ graph' = [graph EXCEPT !.bars = v] /\ cur' = cur
<1>1. \A K \in Unstored : Store(K, v) => hosts' = hosts /\ graph' = graph /\ cur' = cur
  BY DEF Store, Unstored
<1>2. Store("magic", v) => hosts' = hosts /\ graph' = graph /\ cur' = <<cur[1], v>>
  BY DEF Store
<1>3. Store("addr", v) => hosts' = host_get(hosts, v) /\ cur' = <<v, "">>
  BY DEF Store
<1>4. Store("last_seen", v) =>
        hosts' = [hosts EXCEPT ![cur[1]].last_seen = real_to_mono(v)] /\ cur' = cur
  BY DEF Store
<1>5. /\ Store("name", v) => hosts' = [hosts EXCEPT ![cur[1]].name = v] /\ cur' = cur
      /\ Store("bytes", v) => hosts' = [hosts EXCEPT ![cur[1]].bytes = v] /\ cur' = cur
  BY DEF Store
<1>6. Store("entry", v) =>
        /\ hosts' = [hosts EXCEPT ![cur[1]].tables[cur[2]] =
                                       find_or_insert(cur[2], @, v[1], v[2])]
        /\ cur' = cur
  BY DEF Store
<1>7. Store("last", v) =>
        hosts' = hosts /\ graph' = [graph EXCEPT !.last = v] /\ cur' = cur
  BY DEF Store
<1>8. Store("bars", v) =>
        hosts' = hosts /\ graph' = [graph EXCEPT !.bars = v] /\ cur' = cur
  BY DEF Store
<1> QED BY <1>1, <1>2, <1>3, <1>4, <1>5, <1>6, <1>7, <1>8, Zenon

(***************************************************************************)
(* With the item of one place read, the import is at the next.             *)
(***************************************************************************)
(* In the header, hosts_db_import and hosts_db_import_host are on the    *)
(* way.                                                                  *)
LEMMA HeaderStep ==
  ASSUME NEW D, GoodDb(D), NEW q \in 1..3, AtHeader(D, q),
         Reading(D, Import_db[q], HeaderValue(D, q), WantGraph(q + 1)),
         Taken(Import_db[q], HeaderValue(D, q))
  PROVE  /\ hosts' = hosts
         /\ q < 3 => AtHeader(D, q + 1)'
         /\ q = 3 => AtHost(D, 1)'
<1>1. at' = at + 1 /\ at = q /\ Tail(want) = WantGraph(q + 1)
      /\ Sequence(Tail(want)) /\ want' = After(Import_db[q], HeaderValue(D, q))
  BY DEF Taken, AtHeader, Reading
<1>2. hosts' = hosts
  <2>1. Import_db[q] \in Unstored
    <3>1. q = 1 \/ q = 2 \/ q = 3
      OBVIOUS
    <3> QED BY <3>1, ImportShape DEF Unstored
  <2> QED BY <2>1, StoreShape DEF Taken
<1>3. CASE q < 3
  <2>1. Import_db[q] \notin {"host_count", "host", "count", "count8"}
    <3>1. q = 1 \/ q = 2
      BY <1>3
    <3> QED BY <3>1, ImportShape
  <2>2. want' = WantGraph(q + 1)
    BY <2>1, <1>1, WantAfter
  <2> QED BY <2>2, <1>1, <1>2, <1>3 DEF AtHeader
<1>4. CASE q = 3
  <2>1. want' = Copies(Len(Addrs(D)), "host") \o WantGraph(4)
    <3>1. Import_db[q] = "host_count" /\ HeaderValue(D, q) = Len(Addrs(D)) /\ q + 1 = 4
      BY <1>4, ImportShape DEF HeaderValue
    <3> QED BY <3>1, <1>1 DEF After
  <2>2. want' = WantHosts(D, 1)
    BY <2>1, HostsWants
  <2>3. at' = HostAt(D, 1) + 1
    BY <1>1, <1>4, Shape
  <2>4. HostsOK(D, hosts', offset', ports_max', 1)
    BY DEF HostsOK
  <2> QED BY <2>2, <2>3, <2>4, <1>2, <1>4 DEF AtHost
<1> QED BY <1>2, <1>3, <1>4

(* At a host.                                                            *)
LEMMA HostStep ==
  ASSUME NEW D, GoodDb(D), NEW i \in 1..Len(Addrs(D)), AtHost(D, i),
         Reading(D, "host", D.version, WantHosts(D, i + 1)),
         Taken("host", D.version), offset' = offset /\ ports_max' = ports_max
  PROVE  hosts' = hosts /\ AtField(D, i, 2)'
<1>1. at' = at + 1 /\ at = HostAt(D, i) + 1 /\ HostsOK(D, hosts, offset, ports_max, i)
      /\ Tail(want) = WantHosts(D, i + 1) /\ want' = After("host", D.version)
  BY DEF Taken, AtHost, Reading
<1>2. hosts' = hosts
  BY StoreShape DEF Taken, Unstored
<1>3. want' = WantFields(D, i, 2)
  <2>1. want' = Import_host(D.version) \o WantHosts(D, i + 1)
    BY <1>1 DEF After
  <2> QED BY <2>1, FieldsWants
<1>4. at' = HostAt(D, i) + 2
  BY <1>1, FieldItems
<1>5. ~(2 > 2)
  OBVIOUS
<1> QED BY <1>1, <1>2, <1>3, <1>4, <1>5 DEF AtField

(* At the tag of a subtable.                                             *)
LEMMA TagStep ==
  ASSUME NEW D, GoodDb(D), NEW i \in 1..Len(Addrs(D)), NEW t \in 1..TableCount(D),
         AtTag(D, i, t), Reading(D, "magic", TableName(D, t), WantTags(D, i, 2*t)),
         Taken("magic", TableName(D, t)), offset' = offset /\ ports_max' = ports_max
  PROVE  hosts' = hosts /\ AtCount(D, i, t)'
<1>1. at' = at + 1 /\ at = TableAt(D, i, t) + 1 /\ InHost(D, i, t)
      /\ Tail(want) = WantTags(D, i, 2*t) /\ Sequence(Tail(want))
      /\ want' = After("magic", TableName(D, t))
  BY DEF Taken, AtTag, Reading
<1>2. hosts' = hosts /\ cur' = <<cur[1], TableName(D, t)>>
  BY StoreShape, Zenon DEF Taken
<1>3. want' = WantTags(D, i, 2*t)
  BY <1>1, WantAfter
<1>4. at' = TableAt(D, i, t) + 2
  BY <1>1, TableItems
<1>5. cur'[1] = cur[1] /\ cur'[2] = TableName(D, t)
  BY <1>2
<1>6. InHost(D, i, t)'
  BY <1>1, <1>2, <1>5 DEF InHost
<1> QED BY <1>2, <1>3, <1>4, <1>5, <1>6 DEF AtCount

(* At its count.                                                         *)
LEMMA CountStep ==
  ASSUME NEW D, GoodDb(D), NEW i \in 1..Len(Addrs(D)), NEW t \in 1..TableCount(D),
         AtCount(D, i, t),
         Reading(D, Count(TableName(D, t)), Len(Keys(D, i, t)), WantTags(D, i, 2*t + 1)),
         Count(TableName(D, t)) \in {"count", "count8"},
         Taken(Count(TableName(D, t)), Len(Keys(D, i, t))), offset' = offset /\ ports_max' = ports_max
  PROVE  hosts' = hosts /\ AtEntry(D, i, t, 1)'
<1>1. at' = at + 1 /\ at = TableAt(D, i, t) + 2 /\ InHost(D, i, t)
      /\ cur[2] = TableName(D, t) /\ Tail(want) = WantTags(D, i, 2*t + 1)
      /\ want' = After(Count(TableName(D, t)), Len(Keys(D, i, t)))
  BY DEF Taken, AtCount, Reading
<1>2. hosts' = hosts /\ cur' = cur
  BY StoreShape DEF Taken, Unstored
<1>3. want' = WantEntries(D, i, t, 1)
  <2>1. want' = Copies(Len(Keys(D, i, t)), "entry") \o WantTags(D, i, 2*t + 1)
    BY <1>1 DEF After
  <2> QED BY <2>1, EntriesWants
<1>4. at' = TableAt(D, i, t) + 2 + 1
  BY <1>1, TableItems
<1>5. InHost(D, i, t)'
  BY <1>1, <1>2 DEF InHost
<1>6. EntriesOK(D, hosts', ports_max, i, t, 1)
  BY DEF EntriesOK
<1> QED BY <1>1, <1>2, <1>3, <1>4, <1>5, <1>6 DEF AtEntry

(* Among the graphs, where the bars may be anything.                     *)
LEMMA GraphStep ==
  ASSUME NEW D, GoodDb(D), NEW q \in 4..7, AtGraph(D, q), NEW v,
         Reading(D, Import_db[q], GraphValue(D, q), WantGraph(q + 1)),
         Taken(Import_db[q], v), q = 7 \/ v = GraphValue(D, q), offset' = offset,
         ports_max' = ports_max, DOMAIN graph = {"last", "bars"}
  PROVE  hosts' = hosts /\ AtGraph(D, q + 1)' /\ DOMAIN graph' = {"last", "bars"}
<1> DEFINE h == HostAt(D, Len(Addrs(D)) + 1)
<1>0. h \in Nat
  <2>1. Len(Addrs(D)) + 1 \in 1..(Len(Addrs(D)) + 1)
    BY Sizes
  <2> QED BY <2>1, Shape
<1>1. at' = at + 1 /\ at = h + q - 3 /\ HostsOK(D, hosts, offset, ports_max, Len(Addrs(D)) + 1)
      /\ Tail(want) = WantGraph(q + 1) /\ Sequence(Tail(want))
      /\ want' = After(Import_db[q], v) /\ Store(Import_db[q], v)
      /\ (q > 5 => graph.last = D.graph.last)
  BY DEF Taken, AtGraph, Reading
<1>2. q = 4 \/ q = 5 \/ q = 6 \/ q = 7
  OBVIOUS
<1>3. Import_db[q] \notin {"host_count", "host", "count", "count8"}
  BY <1>2, ImportShape
<1>4. want' = WantGraph(q + 1)
  BY <1>1, <1>3, WantAfter
<1>5. hosts' = hosts /\ (q + 1 > 5 => graph'.last = D.graph.last)
      /\ DOMAIN graph' = {"last", "bars"}
  <2>1. CASE q = 4 \/ q = 6
    <3>1. Import_db[q] \in Unstored
      BY <2>1, ImportShape DEF Unstored
    <3>2. hosts' = hosts /\ graph' = graph
      BY <3>1, <1>1, StoreShape
    <3> QED BY <2>1, <3>2, <1>1
  <2>2. CASE q = 5
    <3>1. Import_db[q] = "last" /\ v = D.graph.last
      BY <2>2, ImportShape DEF GraphValue
    <3>0. Store("last", v)
      BY <3>1, <1>1
    <3>2. hosts' = hosts /\ graph' = [graph EXCEPT !.last = v]
      BY <3>0, StoreShape, Zenon
    <3> QED BY <2>2, <3>1, <3>2
  <2>3. CASE q = 7
    <3>1. Import_db[q] = "bars"
      BY <2>3, ImportShape
    <3>0. Store("bars", v)
      BY <3>1, <1>1
    <3>2. hosts' = hosts /\ graph' = [graph EXCEPT !.bars = v]
      BY <3>0, StoreShape, Zenon
    <3> QED BY <2>3, <3>2, <1>1
  <2> QED BY <2>1, <2>2, <2>3, <1>2
<1>6. at' = h + (q + 1) - 3
  BY <1>0, <1>1
<1> HIDE DEF h
<1> QED BY <1>1, <1>4, <1>5, <1>6 DEF AtGraph, h

(* A host with one of its fields changed.                                *)
WithSeen(g, x)   == [g EXCEPT !.last_seen = x]
WithName(g, x)   == [g EXCEPT !.name = x]
WithBytes(g, x)  == [g EXCEPT !.bytes = x]
WithTables(g, x) == [g EXCEPT !.tables = x]

(* The subtables of a host.                                              *)
IsTables(x) == x = [T \in ToSet(Tables) |-> x[T]] /\ \A T \in ToSet(Tables) : IsTable(x[T])

(* The change leaves the other fields alone.                             *)
LEMMA HostWith ==
  ASSUME NEW g, IsHost(g), NEW x
  PROVE  /\ x \in Int =>
              /\ IsHost(WithSeen(g, x))
              /\ WithSeen(g, x).last_seen = x
              /\ WithSeen(g, x).name = g.name
              /\ WithSeen(g, x).bytes = g.bytes
              /\ WithSeen(g, x).tables = g.tables
         /\ /\ IsHost(WithName(g, x))
            /\ WithName(g, x).last_seen = g.last_seen
            /\ WithName(g, x).name = x
            /\ WithName(g, x).bytes = g.bytes
            /\ WithName(g, x).tables = g.tables
         /\ /\ IsHost(WithBytes(g, x))
            /\ WithBytes(g, x).last_seen = g.last_seen
            /\ WithBytes(g, x).name = g.name
            /\ WithBytes(g, x).bytes = x
            /\ WithBytes(g, x).tables = g.tables
         /\ IsTables(x) =>
              /\ IsHost(WithTables(g, x))
              /\ WithTables(g, x).last_seen = g.last_seen
              /\ WithTables(g, x).name = g.name
              /\ WithTables(g, x).bytes = g.bytes
              /\ WithTables(g, x).tables = x
<1> DEFINE R(l, n, b, t) == [last_seen |-> l, name |-> n, bytes |-> b, tables |-> t]
           l == g.last_seen
           n == g.name
           b == g.bytes
           t == g.tables
<1>1. g = R(l, n, b, t)
  BY DEF IsHost
<1>2. /\ l \in Int /\ t = [T \in ToSet(Tables) |-> t[T]]
      /\ \A T \in ToSet(Tables) : IsTable(t[T])
  BY DEF IsHost
<1>3. \A l1, n1, b1, t1 :
        (/\ l1 \in Int /\ t1 = [T \in ToSet(Tables) |-> t1[T]]
         /\ \A T \in ToSet(Tables) : IsTable(t1[T])) => IsHost(R(l1, n1, b1, t1))
  BY DEF IsHost
<1> HIDE DEF l, n, b, t
<1>4. WithSeen(g, x) = R(x, n, b, t)
  BY <1>1 DEF WithSeen
<1>5. WithName(g, x) = R(l, x, b, t)
  BY <1>1 DEF WithName
<1>6. WithBytes(g, x) = R(l, n, x, t)
  BY <1>1 DEF WithBytes
<1>7. WithTables(g, x) = R(l, n, b, x)
  BY <1>1 DEF WithTables
<1>8. \A l1, n1, b1, t1 :
        /\ R(l1, n1, b1, t1).last_seen = l1 /\ R(l1, n1, b1, t1).name = n1
        /\ R(l1, n1, b1, t1).bytes = b1 /\ R(l1, n1, b1, t1).tables = t1
  OBVIOUS
<1> HIDE DEF R
<1>9. ASSUME x \in Int
      PROVE  IsHost(WithSeen(g, x))
  BY <1>2, <1>3, <1>4, <1>9
<1>10. IsHost(WithName(g, x))
  BY <1>2, <1>3, <1>5
<1>11. IsHost(WithBytes(g, x))
  BY <1>2, <1>3, <1>6
<1>12. ASSUME IsTables(x) PROVE IsHost(WithTables(g, x))
  BY <1>2, <1>3, <1>7, <1>12 DEF IsTables
<1>13. /\ WithSeen(g, x).last_seen = x
       /\ WithSeen(g, x).name = g.name
       /\ WithSeen(g, x).bytes = g.bytes
       /\ WithSeen(g, x).tables = g.tables
  BY <1>4, <1>8 DEF n, b, t
<1>14. /\ WithName(g, x).last_seen = g.last_seen
       /\ WithName(g, x).name = x
       /\ WithName(g, x).bytes = g.bytes
       /\ WithName(g, x).tables = g.tables
  BY <1>5, <1>8 DEF l, b, t
<1>15. /\ WithBytes(g, x).last_seen = g.last_seen
       /\ WithBytes(g, x).name = g.name
       /\ WithBytes(g, x).bytes = x
       /\ WithBytes(g, x).tables = g.tables
  BY <1>6, <1>8 DEF l, n, t
<1>16. /\ WithTables(g, x).last_seen = g.last_seen
       /\ WithTables(g, x).name = g.name
       /\ WithTables(g, x).bytes = g.bytes
       /\ WithTables(g, x).tables = x
  BY <1>7, <1>8 DEF l, n, b
<1> QED BY <1>9, <1>10, <1>11, <1>12, <1>13, <1>14, <1>15, <1>16, Zenon

(* A field of D's is stored in a host.                                   *)
LEMMA FieldStored ==
  ASSUME NEW D, NEW H, GoodDb(D), NEW o \in Int, NEW m, Within(D, H, m), NEW a \in DOMAIN H,
         NEW f \in {"last_seen", "name", "bytes"}, NEW g,
         \/ f = "last_seen" /\ g = WithSeen(H[a], D.hosts[a].last_seen - o)
         \/ f = "name" /\ g = WithName(H[a], D.hosts[a].name)
         \/ f = "bytes" /\ g = WithBytes(H[a], D.hosts[a].bytes)
  PROVE  LET G == [H EXCEPT ![a] = g]
         IN  Within(D, G, m) /\ Keeps(D, H, G, o, m) /\ a \in DOMAIN G /\ FieldOK(D, G, o, a, f)
<1> DEFINE G == [H EXCEPT ![a] = g]
           d == D.hosts[a]
<1>1. IsHost(H[a]) /\ IsHost(d)
      /\ \A T \in ToSet(Tables) : PartOf(H[a].tables[T], d.tables[T], T, m)
  BY DEF Within, IsDb, GoodDb
<1>2. d.last_seen \in Int /\ d.last_seen - o \in Int /\ (d.last_seen - o) + o = d.last_seen
  BY <1>1 DEF IsHost
<1> HIDE DEF d
<1>3. /\ IsHost(g) /\ g.tables = H[a].tables
      /\ g.last_seen = H[a].last_seen \/ g.last_seen + o = d.last_seen
      /\ g.name = H[a].name \/ g.name = d.name
      /\ g.bytes = H[a].bytes \/ g.bytes = d.bytes
      /\ f = "last_seen" => g.last_seen + o = d.last_seen
      /\ f = "name" => g.name = d.name
      /\ f = "bytes" => g.bytes = d.bytes
  <2>1. CASE f = "last_seen"
    <3>1. g = WithSeen(H[a], d.last_seen - o)
      BY <2>1 DEF d
    <3> DEFINE c == H[a]
               y == d.last_seen - o
               r == WithSeen(c, y)
    <3>2. IsHost(c) /\ y \in Int
      BY <1>1, <1>2
    <3> HIDE DEF c, y
    <3>3. /\ IsHost(r) /\ r.last_seen = y /\ r.name = c.name
          /\ r.bytes = c.bytes /\ r.tables = c.tables
      BY <3>2, HostWith
    <3> HIDE DEF r
    <3>4. g = r
      BY <3>1 DEF c, y, r
    <3> QED BY <2>1, <3>3, <3>4, <1>2 DEF c, y
  <2>2. CASE f = "name"
    <3>1. g = WithName(H[a], d.name)
      BY <2>2 DEF d
    <3> DEFINE c == H[a]
               y == d.name
               r == WithName(c, y)
    <3>2. IsHost(c)
      BY <1>1
    <3> HIDE DEF c, y
    <3>3. /\ IsHost(r) /\ r.last_seen = c.last_seen /\ r.name = y
          /\ r.bytes = c.bytes /\ r.tables = c.tables
      BY <3>2, HostWith
    <3> HIDE DEF r
    <3>4. g = r
      BY <3>1 DEF c, y, r
    <3> QED BY <2>2, <3>3, <3>4 DEF c, y
  <2>3. CASE f = "bytes"
    <3>1. g = WithBytes(H[a], d.bytes)
      BY <2>3 DEF d
    <3> DEFINE c == H[a]
               y == d.bytes
               r == WithBytes(c, y)
    <3>2. IsHost(c)
      BY <1>1
    <3> HIDE DEF c, y
    <3>3. /\ IsHost(r) /\ r.last_seen = c.last_seen /\ r.name = c.name
          /\ r.bytes = y /\ r.tables = c.tables
      BY <3>2, HostWith
    <3> HIDE DEF r
    <3>4. g = r
      BY <3>1 DEF c, y, r
    <3> QED BY <2>3, <3>3, <3>4 DEF c, y
  <2> QED BY <2>1, <2>2, <2>3
<1>4. \A T \in ToSet(Tables) : PartOf(g.tables[T], D.hosts[a].tables[T], T, m)
  BY <1>1, <1>3 DEF d
<1>5. \A T \in ToSet(Tables) : \A k : Has(D, H[a], a, T, k) => Has(D, g, a, T, k)
  BY <1>3 DEF Has
<1>6. /\ g.last_seen = H[a].last_seen \/ g.last_seen + o = D.hosts[a].last_seen
      /\ g.name = H[a].name \/ g.name = D.hosts[a].name
      /\ g.bytes = H[a].bytes \/ g.bytes = D.hosts[a].bytes
  BY <1>3 DEF d
<1>7. IsHost(g)
  BY <1>3
<1>8. Within(D, G, m) /\ Keeps(D, H, G, o, m) /\ a \in DOMAIN G /\ G[a] = g
  BY <1>4, <1>5, <1>6, <1>7, HostChanged
<1> HIDE DEF G
<1>9. FieldOK(D, G, o, a, f)
  BY <1>3, <1>8 DEF FieldOK, d
<1> QED BY <1>8, <1>9 DEF G

(***************************************************************************)
(* The limits of a subtable.                                               *)
(***************************************************************************)
(* A subtable that is reduced keeps no more than it should.              *)
LEMMA Reduced ==
  ASSUME NEW f, IsTable(f), \A k \in DOMAIN f : f[k] \in Nat, NEW n \in Nat
  PROVE  /\ IsTable(hashtable_reduce(f, n))
         /\ DOMAIN hashtable_reduce(f, n) \subseteq DOMAIN f
         /\ \A k \in DOMAIN hashtable_reduce(f, n) : hashtable_reduce(f, n)[k] = f[k]
         /\ Cardinality(DOMAIN hashtable_reduce(f, n)) <= n
<1> DEFINE Above(k) == {l \in DOMAIN f : f[l] >= f[k]}
           S == {k \in DOMAIN f : Cardinality(Above(k)) <= n}
           g == hashtable_reduce(f, n)
<1>1. g = [k \in S |-> f[k]]
  BY DEF hashtable_reduce, Restrict
<1> HIDE DEF g
<1>2. IsFiniteSet(DOMAIN f) /\ S \subseteq DOMAIN f
  BY DEF IsTable
<1>3. IsFiniteSet(S)
  BY <1>2, FS_Subset
<1>4. Cardinality(S) <= n
  <2>1. CASE S = {}
    <3> HIDE DEF S
    <3> QED BY <2>1, FS_EmptySet
  <2>2. CASE S # {}
    <3> DEFINE V == {f[k] : k \in S}
    <3>1. V \in SUBSET Nat /\ V # {}
      BY <2>2
    <3>2. PICK x \in V : \A y \in V : x <= y
      BY <3>1, Least
    <3>3. PICK k \in S : f[k] = x
      BY <3>2
    <3>4. S \subseteq Above(k)
      <4> SUFFICES ASSUME NEW l \in S PROVE f[l] >= f[k]
        OBVIOUS
      <4>1. f[l] \in V /\ x <= f[l] /\ x \in Nat /\ f[l] \in Nat
        BY <3>2
      <4> QED BY <4>1, <3>3
    <3>5. Above(k) \subseteq DOMAIN f /\ Cardinality(Above(k)) <= n
      BY <3>3
    <3> HIDE DEF S, Above
    <3>6. IsFiniteSet(Above(k))
      BY <1>2, <3>5, FS_Subset
    <3>7. Cardinality(S) <= Cardinality(Above(k))
      BY <3>4, <3>6, FS_Subset
    <3>8. Cardinality(S) \in Nat /\ Cardinality(Above(k)) \in Nat
      BY <1>3, <3>6, FS_CardinalityType
    <3> QED BY <3>5, <3>7, <3>8
  <2> QED BY <2>1, <2>2
<1> HIDE DEF S
<1>5. DOMAIN g = S /\ g = [k \in DOMAIN g |-> g[k]] /\ \A k \in S : g[k] = f[k]
  BY <1>1
<1> QED BY <1>2, <1>3, <1>4, <1>5 DEF IsTable, g

(* What is kept is a number.                                             *)
LEMMA KeepType ==
  ASSUME ports_max \in Nat
  PROVE  /\ ports_keep \in Nat /\ (ports_max # 0 => ports_keep < ports_max)
         /\ \A T : count_keep(T) \in Nat
<1>1. ports_keep \in Nat /\ (ports_max # 0 => ports_keep < ports_max)
  BY DbAssumption DEF ports_keep
<1>2. ProtoLimit \in Nat
  BY DbAssumption
<1> QED BY <1>1, <1>2 DEF count_keep

(* An entry is found, or inserted, with room made for it; a subtable of  *)
(* ports stays within its limit.                                         *)
LEMMA Inserted ==
  ASSUME ports_max \in Nat, NEW T, NEW f, IsTable(f), \A k \in DOMAIN f : f[k] \in Nat,
         T # "ip" => Cardinality(DOMAIN f) <= ports_max,
         NEW k, ~ReduceAborts(T, f, k), NEW n
  PROVE  /\ IsTable(find_or_insert(T, f, k, n)) /\ k \in DOMAIN find_or_insert(T, f, k, n)
         /\ find_or_insert(T, f, k, n)[k] = n
         /\ DOMAIN find_or_insert(T, f, k, n) \subseteq DOMAIN f \cup {k}
         /\ \A l \in DOMAIN find_or_insert(T, f, k, n) :
              l # k => find_or_insert(T, f, k, n)[l] = f[l]
         /\ ~Full(T, f, k) => DOMAIN f \subseteq DOMAIN find_or_insert(T, f, k, n)
         /\ T # "ip" => Cardinality(DOMAIN find_or_insert(T, f, k, n)) <= ports_max
<1> DEFINE g == IF Full(T, f, k) THEN hashtable_reduce(f, count_keep(T)) ELSE f
           p == find_or_insert(T, f, k, n)
<1>1. p = Put(g, k, n)
  BY DEF find_or_insert
<1>2. count_keep(T) \in Nat
  BY KeepType
<1>3. /\ IsTable(g) /\ DOMAIN g \subseteq DOMAIN f /\ \A l \in DOMAIN g : g[l] = f[l]
      /\ ~Full(T, f, k) => g = f
      /\ Full(T, f, k) => Cardinality(DOMAIN g) <= count_keep(T)
  BY <1>2, Reduced
<1> HIDE DEF g, p
<1>4. IsFiniteSet(DOMAIN f) /\ IsFiniteSet(DOMAIN g)
      /\ Cardinality(DOMAIN f) \in Nat /\ Cardinality(DOMAIN g) \in Nat
  BY <1>3, FS_CardinalityType DEF IsTable
<1>5. /\ DOMAIN p = DOMAIN g \cup {k} /\ p[k] = n
      /\ \A l \in DOMAIN g : l # k => p[l] = g[l]
      /\ IsTable(p)
  <2>1. /\ DOMAIN Put(g, k, n) = DOMAIN g \cup {k} /\ Put(g, k, n)[k] = n
        /\ \A l \in DOMAIN g : l # k => Put(g, k, n)[l] = g[l]
        /\ Put(g, k, n) = [l \in DOMAIN Put(g, k, n) |-> Put(g, k, n)[l]]
        /\ IsFiniteSet(DOMAIN g) => IsFiniteSet(DOMAIN Put(g, k, n))
    BY PutShape, Zenon
  <2> QED BY <2>1, <1>1, <1>4 DEF IsTable
<1>6. ASSUME T # "ip" PROVE Cardinality(DOMAIN p) <= ports_max
  <2>0. count_max(T) = ports_max
    BY <1>6 DEF count_max
  <2>1. Cardinality(DOMAIN p) = IF k \in DOMAIN g THEN Cardinality(DOMAIN g)
                                ELSE Cardinality(DOMAIN g) + 1
    BY <1>4, <1>5, FS_AddElement
  <2>2. CASE Full(T, f, k)
    <3>1. count_keep(T) < Cardinality(DOMAIN f)
      BY <2>2 DEF ReduceAborts
    <3> QED BY <3>1, <2>1, <2>2, <1>2, <1>3, <1>4, <1>6
  <2>3. CASE ~Full(T, f, k)
    <3>1. k \in DOMAIN f \/ Cardinality(DOMAIN f) < ports_max
      BY <2>0, <2>3, <1>4 DEF Full
    <3> QED BY <3>1, <2>1, <2>3, <1>3, <1>4, <1>6
  <2> QED BY <2>2, <2>3
<1> QED BY <1>3, <1>5, <1>6 DEF p

(* The host a of H, with the entry k of its subtable T as in D.           *)
TablesWith(D, H, a, T, k) ==
  [H[a].tables EXCEPT ![T] = find_or_insert(T, H[a].tables[T], k, D.hosts[a].tables[T][k])]
HostWithEntry(D, H, a, T, k) == WithTables(H[a], TablesWith(D, H, a, T, k))

(* A subtable that is to be whole is never full: it has fewer entries    *)
(* than there are protocols, or than --ports-max allows.                 *)
LEMMA RoomFor ==
  ASSUME NEW D, GoodDb(D), ports_max \in Nat, NEW a \in DOMAIN D.hosts,
         NEW T \in ToSet(Tables), Fits(D, ports_max, a, T),
         NEW f, PartOf(f, D.hosts[a].tables[T], T, ports_max),
         NEW k \in DOMAIN D.hosts[a].tables[T]
  PROVE  ~Full(T, f, k)
<1> DEFINE e == D.hosts[a].tables[T]
<1>1. ProperTable(T, e)
  BY DEF GoodDb, Proper
<1> SUFFICES ASSUME k \notin DOMAIN f PROVE Cardinality(DOMAIN f) < count_max(T)
  <2>1. IsFiniteSet(DOMAIN f)
    BY <1>1, FS_Subset DEF ProperTable, IsTable, PartOf
  <2>2. Cardinality(DOMAIN f) \in Nat
    BY <2>1, FS_CardinalityType
  <2>3. count_max(T) \in Nat
    BY DbAssumption DEF count_max
  <2> QED BY <2>2, <2>3 DEF Full
<1>2. DOMAIN f \subseteq DOMAIN e /\ k \in DOMAIN e /\ IsFiniteSet(DOMAIN e)
  BY <1>1 DEF ProperTable, IsTable, PartOf
<1>3. T = "ip" \/ Cardinality(DOMAIN e) <= ports_max
  BY DEF Fits
<1> HIDE DEF e
<1>4. Cardinality(DOMAIN f) < Cardinality(DOMAIN e)
  <2>1. IsFiniteSet(DOMAIN f) /\ Cardinality(DOMAIN f) <= Cardinality(DOMAIN e)
        /\ (Cardinality(DOMAIN e) = Cardinality(DOMAIN f) => DOMAIN e = DOMAIN f)
    BY <1>2, FS_Subset
  <2>2. Cardinality(DOMAIN f) \in Nat /\ Cardinality(DOMAIN e) \in Nat
    BY <1>2, <2>1, FS_CardinalityType
  <2> QED BY <2>1, <2>2, <1>2
<1>5. Cardinality(DOMAIN f) \in Nat /\ Cardinality(DOMAIN e) \in Nat
  BY <1>2, FS_Subset, FS_CardinalityType
<1>6. CASE T = "ip"
  <2>1. Cardinality(DOMAIN e) < ProtoLimit
    BY <1>1, <1>6, ProtocolsFew DEF e
  <2>2. count_max(T) = 2 * ProtoLimit /\ ProtoLimit \in Nat
    BY <1>6, DbAssumption DEF count_max
  <2> QED BY <2>1, <2>2, <1>4, <1>5
<1>7. CASE T # "ip"
  BY <1>3, <1>4, <1>5, <1>7 DEF count_max
<1> QED BY <1>6, <1>7

(* An entry of D's is stored in a subtable.                              *)
LEMMA EntryStored ==
  ASSUME NEW D, NEW H, GoodDb(D), NEW o \in Int, ports_max \in Nat,
         Within(D, H, ports_max), NEW a \in DOMAIN H,
         NEW T \in ToSet(Tables), NEW k \in DOMAIN D.hosts[a].tables[T],
         ~ReduceAborts(T, H[a].tables[T], k)
  PROVE  LET G == [H EXCEPT ![a] = HostWithEntry(D, H, a, T, k)]
         IN  /\ Within(D, G, ports_max) /\ Keeps(D, H, G, o, ports_max)
             /\ a \in DOMAIN G /\ EntryOK(D, G, ports_max, a, T, k)
<1> DEFINE g == HostWithEntry(D, H, a, T, k)
           tb == TablesWith(D, H, a, T, k)
           G == [H EXCEPT ![a] = g]
           c == H[a]
           d == D.hosts[a].tables
           f == c.tables[T]
           p == find_or_insert(T, f, k, d[T][k])
<1>0. a \in DOMAIN D.hosts /\ PartOf(f, d[T], T, ports_max)
  BY DEF Within
<1>1. /\ IsHost(c) /\ c.tables = [S \in ToSet(Tables) |-> c.tables[S]]
      /\ \A S \in ToSet(Tables) : IsTable(c.tables[S])
      /\ \A S \in ToSet(Tables) : PartOf(c.tables[S], d[S], S, ports_max)
  <2>1. IsHost(c) /\ \A S \in ToSet(Tables) : PartOf(c.tables[S], d[S], S, ports_max)
    BY DEF Within, IsDb
  <2> HIDE DEF c, d
  <2> QED BY <2>1 DEF IsHost
<1>2. tb = [c.tables EXCEPT ![T] = p] /\ g = WithTables(c, tb)
  BY DEF TablesWith, HostWithEntry
<1>3. /\ IsTable(p) /\ k \in DOMAIN p /\ p[k] = d[T][k]
      /\ DOMAIN p \subseteq DOMAIN f \cup {k}
      /\ \A l \in DOMAIN p : l # k => p[l] = f[l]
      /\ ~Full(T, f, k) => DOMAIN f \subseteq DOMAIN p
      /\ T # "ip" => Cardinality(DOMAIN p) <= ports_max
  <2>1. \A l \in DOMAIN f : f[l] \in Nat
    <3>1. ProperTable(T, d[T])
      BY <1>0 DEF GoodDb, Proper
    <3> HIDE DEF f, d
    <3> QED BY <3>1, <1>0 DEF ProperTable, PartOf
  <2>2. IsTable(f) /\ (T # "ip" => Cardinality(DOMAIN f) <= ports_max)
    BY <1>0, <1>1 DEF PartOf
  <2> DEFINE z == d[T][k]
  <2>3. ~ReduceAborts(T, f, k)
    OBVIOUS
  <2> HIDE DEF f, z
  <2> QED BY <2>1, <2>2, <2>3, Inserted DEF z
<1>20. Fits(D, ports_max, a, T) => DOMAIN f \subseteq DOMAIN p
  BY <1>0, <1>3, RoomFor
<1> HIDE DEF c, d, tb, g, f, p
<1>4. /\ tb = [S \in ToSet(Tables) |-> tb[S]] /\ tb[T] = p
      /\ \A S \in ToSet(Tables) : S # T => tb[S] = c.tables[S]
  BY <1>1, <1>2
<1>5. IsTables(tb)
  BY <1>1, <1>3, <1>4 DEF IsTables
<1>6. /\ IsHost(g) /\ g.last_seen = c.last_seen /\ g.name = c.name
      /\ g.bytes = c.bytes /\ g.tables = tb
  <2>1. g = WithTables(c, tb)
    BY <1>2
  <2>2. /\ IsHost(WithTables(c, tb)) /\ WithTables(c, tb).last_seen = c.last_seen
        /\ WithTables(c, tb).name = c.name /\ WithTables(c, tb).bytes = c.bytes
        /\ WithTables(c, tb).tables = tb
    <3>1. IsHost(c)
      BY <1>1
    <3> QED BY <3>1, <1>5, HostWith
  <2> QED BY <2>1, <2>2
<1>7. \A S \in ToSet(Tables) : PartOf(g.tables[S], D.hosts[a].tables[S], S, ports_max)
  <2> SUFFICES ASSUME NEW S \in ToSet(Tables)
               PROVE  PartOf(tb[S], d[S], S, ports_max)
    BY <1>6 DEF d
  <2>1. CASE S = T
    <3>1. /\ DOMAIN f \subseteq DOMAIN d[T] /\ k \in DOMAIN d[T]
          /\ \A l \in DOMAIN f : f[l] = d[T][l]
      BY <1>0 DEF d, PartOf
    <3>2. PartOf(p, d[T], T, ports_max)
      BY <3>1, <1>3 DEF PartOf
    <3> QED BY <2>1, <3>2, <1>4
  <2>2. CASE S # T
    BY <2>2, <1>1, <1>4
  <2> QED BY <2>1, <2>2
<1>8. ASSUME NEW S \in ToSet(Tables), NEW l, Fits(D, ports_max, a, S), Has(D, H[a], a, S, l)
      PROVE  Has(D, g, a, S, l)
  <2>1. l \in DOMAIN c.tables[S] /\ c.tables[S][l] = d[S][l]
    BY <1>8 DEF Has, c, d
  <2>2. CASE S = T
    <3>1. l \in DOMAIN f /\ f[l] = d[T][l]
      BY <2>1, <2>2 DEF f
    <3>2. l \in DOMAIN p /\ p[l] = d[T][l]
      BY <3>1, <2>2, <1>3, <1>8, <1>20
    <3> QED BY <2>2, <3>2, <1>4, <1>6 DEF d, Has
  <2>3. CASE S # T
    BY <2>1, <2>3, <1>4, <1>6 DEF d, Has
  <2> QED BY <2>2, <2>3
<1>9. /\ Within(D, G, ports_max) /\ Keeps(D, H, G, o, ports_max)
      /\ a \in DOMAIN G /\ G[a] = g
  <2>1. IsHost(g)
    BY <1>6
  <2>2. /\ g.last_seen = H[a].last_seen \/ g.last_seen + o = D.hosts[a].last_seen
        /\ g.name = H[a].name \/ g.name = D.hosts[a].name
        /\ g.bytes = H[a].bytes \/ g.bytes = D.hosts[a].bytes
    BY <1>6 DEF c
  <2> QED BY <2>1, <2>2, <1>7, <1>8, HostChanged
<1> HIDE DEF G
<1>10. EntryOK(D, G, ports_max, a, T, k)
  <2>1. G[a].tables[T] = p
    BY <1>4, <1>6, <1>9
  <2> QED BY <2>1, <1>3 DEF EntryOK, Has, d
<1> QED BY <1>9, <1>10 DEF G, g

(* At an entry.                                                          *)
LEMMA EntryStep ==
  ASSUME NEW D, GoodDb(D), NEW i \in 1..Len(Addrs(D)), NEW t \in 1..TableCount(D),
         NEW r \in 1..Len(Keys(D, i, t)), AtEntry(D, i, t, r),
         Reading(D, "entry", EntryValue(D, i, t, r), WantEntries(D, i, t, r + 1)),
         Taken("entry", EntryValue(D, i, t, r)), offset' = offset, offset \in Int,
         ports_max' = ports_max, ports_max \in Nat, Within(D, hosts, ports_max)
  PROVE  Within(D, hosts', ports_max) /\ AtEntry(D, i, t, r + 1)'
<1> DEFINE a == Addrs(D)[i]
           T == TableName(D, t)
           k == Keys(D, i, t)[r]
           x == D.hosts[a].tables[T][k]
           v == EntryValue(D, i, t, r)
           g == HostWithEntry(D, hosts, a, T, k)
<1>1. at' = at + 1 /\ at = TableAt(D, i, t) + 2 + r /\ InHost(D, i, t)
      /\ cur[2] = T /\ EntriesOK(D, hosts, ports_max, i, t, r)
      /\ Tail(want) = WantEntries(D, i, t, r + 1) /\ Sequence(Tail(want))
      /\ want' = After("entry", v) /\ Store("entry", v)
  BY DEF Taken, AtEntry, Reading
<1>2. /\ HostsOK(D, hosts, offset, ports_max, i)
      /\ FieldsOK(D, hosts, offset, i, FieldCount(D) + 1)
      /\ TablesOK(D, hosts, ports_max, i, t) /\ cur[1] = a
  BY <1>1 DEF InHost
<1>3. a \in DOMAIN hosts
  BY <1>2 DEF FieldsOK
<1>4. T \in ToSet(Tables) /\ k \in DOMAIN D.hosts[a].tables[T]
      /\ v[1] = k /\ v[2] = x
  <2>1. T \in ToSet(Tables)
    BY Sizes
  <2>2. Table(D, i, t) = D.hosts[a].tables[T]
    BY DEF Table, TableName, Host
  <2>3. k \in DOMAIN Table(D, i, t)
    BY KeysFacts
  <2>4. v[1] = k /\ v[2] = Table(D, i, t)[k]
    BY DEF EntryValue
  <2> QED BY <2>1, <2>2, <2>3, <2>4
<1>5. hosts' = [hosts EXCEPT ![a] = g] /\ cur' = cur
  <2>1. /\ hosts' = [hosts EXCEPT ![cur[1]].tables[cur[2]] =
                                     find_or_insert(cur[2], @, v[1], v[2])]
        /\ cur' = cur
    BY <1>1, StoreShape, Zenon
  <2> HIDE DEF a, T, k, x, v
  <2>2. hosts' = [hosts EXCEPT ![a].tables[T] = find_or_insert(T, @, k, x)]
    BY <2>1, <1>1, <1>2, <1>4
  <2> QED BY <2>1, <2>2 DEF WithTables, TablesWith, HostWithEntry, x
<1>20. ~ReduceAborts(T, hosts[a].tables[T], k)
  <2>1. ~EntryAborts(v) /\ Kind(Head(want)) = "entry"
    BY DEF Taken, Reading
  <2>2. Head(want) = "entry"
    BY <2>1 DEF Kind
  <2> HIDE DEF a, T, k, v
  <2> QED BY <2>1, <2>2, <1>1, <1>2, <1>4 DEF EntryAborts
<1>6. /\ Within(D, hosts', ports_max) /\ Keeps(D, hosts, hosts', offset, ports_max)
      /\ a \in DOMAIN hosts' /\ EntryOK(D, hosts', ports_max, a, T, k)
  <2> DEFINE G == [hosts EXCEPT ![a] = g]
  <2>1. Within(D, G, ports_max) /\ Keeps(D, hosts, G, offset, ports_max) /\ a \in DOMAIN G
        /\ EntryOK(D, G, ports_max, a, T, k)
    <3> HIDE DEF a, T, k
    <3> QED BY <1>3, <1>4, <1>20, EntryStored
  <2> QED BY <2>1, <1>5
<1>7. want' = WantEntries(D, i, t, r + 1)
  BY <1>1, WantAfter
<1>8. at' = TableAt(D, i, t) + 2 + (r + 1) /\ r \in Nat
  <2>1. TableAt(D, i, t) \in Nat /\ r \in Nat
    BY TableItems, KeysFacts
  <2> QED BY <2>1, <1>1
<1>9. EntriesOK(D, hosts', ports_max, i, t, r + 1)
  <2>1. EntriesOK(D, hosts', ports_max, i, t, r)
    BY <1>1, <1>3, <1>6, PlacesKept
  <2>2. \A s \in 1..((r + 1) - 1) : s \in 1..(r - 1) \/ s = r
    BY <1>8
  <2> QED BY <2>1, <2>2, <1>6 DEF EntriesOK
<1>10. InHost(D, i, t)'
  <2>1. t \in 1..(TableCount(D) + 1)
    BY Sizes
  <2>2. /\ HostsOK(D, hosts', offset, ports_max, i)
        /\ FieldsOK(D, hosts', offset, i, FieldCount(D) + 1)
        /\ TablesOK(D, hosts', ports_max, i, t)
    BY <2>1, <1>2, <1>3, <1>6, PlacesKept
  <2> QED BY <2>2, <1>2, <1>5 DEF InHost
<1> QED BY <1>1, <1>5, <1>6, <1>7, <1>8, <1>9, <1>10 DEF AtEntry

(* At a field.                                                           *)
LEMMA FieldStep ==
  ASSUME NEW D, GoodDb(D), NEW i \in 1..Len(Addrs(D)), NEW q \in 2..FieldCount(D),
         AtField(D, i, q),
         Reading(D, Fields(D.version)[q], FieldOf(D, i, q), WantFields(D, i, q + 1)),
         Fields(D.version)[q] \in {"addr", "last_seen", "name", "bytes"},
         Fields(D.version)[q] = "addr" <=> q = 2,
         Taken(Fields(D.version)[q], FieldOf(D, i, q)), offset' = offset, offset \in Int,
         ports_max' = ports_max, ports_max \in Nat, Within(D, hosts, ports_max)
  PROVE  Within(D, hosts', ports_max) /\ AtField(D, i, q + 1)'
<1> DEFINE a == Addrs(D)[i]
           K == Fields(D.version)[q]
           v == FieldOf(D, i, q)
           d == D.hosts[a]
<1>0. FieldCount(D) \in {4, 5} /\ D.version \in 1..4 /\ HostAt(D, i) \in Nat /\ q \in Nat
      /\ a \in DOMAIN D.hosts /\ IsHost(d)
  <2>1. FieldCount(D) \in {4, 5} /\ D.version \in 1..4 /\ HostAt(D, i) \in Nat
    BY Sizes, FieldItems
  <2>2. a \in DOMAIN D.hosts /\ IsHost(d)
    BY AddrsFacts DEF Host
  <2> QED BY <2>1, <2>2
<1>1. at' = at + 1 /\ at = HostAt(D, i) + q /\ HostsOK(D, hosts, offset, ports_max, i)
      /\ (q > 2 => FieldsOK(D, hosts, offset, i, q) /\ cur[1] = a)
      /\ Tail(want) = WantFields(D, i, q + 1) /\ Sequence(Tail(want))
      /\ want' = After(K, v) /\ Store(K, v)
  BY DEF Taken, AtField, Reading
<1>2. want' = WantFields(D, i, q + 1)
  <2>1. K \notin {"host_count", "host", "count", "count8"}
    OBVIOUS
  <2> QED BY <2>1, <1>1, WantAfter
<1>3. at' = HostAt(D, i) + (q + 1)
  BY <1>0, <1>1
<1>4. v = Field(K, D.version, a, d, d.last_seen)
  BY DEF FieldOf, Host
<1> HIDE DEF v, d
<1>5. /\ Within(D, hosts', ports_max) /\ Keeps(D, hosts, hosts', offset, ports_max)
      /\ a \in DOMAIN hosts'
      /\ FieldOK(D, hosts', offset, a, K) /\ cur'[1] = a
  <2>1. CASE q = 2
    <3>1. K = "addr" /\ v = a
      BY <2>1, <1>4 DEF Field
    <3>2. hosts' = host_get(hosts, a) /\ cur' = <<a, "">>
      <4>1. Store("addr", a)
        BY <3>1, <1>1
      <4> QED BY <4>1, StoreShape, Zenon
    <3>3. /\ Within(D, hosts', ports_max) /\ Keeps(D, hosts, hosts', offset, ports_max)
          /\ a \in DOMAIN hosts'
      BY <3>2, <1>0, AddrStored
    <3>4. FieldOK(D, hosts', offset, a, K)
      BY <3>1 DEF FieldOK
    <3> QED BY <3>2, <3>3, <3>4
  <2>2. CASE q # 2
    <3>1. q > 2 /\ K \in {"last_seen", "name", "bytes"}
      BY <2>2, <1>0
    <3>2. cur[1] = a /\ a \in DOMAIN hosts
      BY <3>1, <1>1 DEF FieldsOK
    <3> DEFINE g == CASE K = "last_seen" -> WithSeen(hosts[a], d.last_seen - offset)
                      [] K = "name"      -> WithName(hosts[a], d.name)
                      [] K = "bytes"     -> WithBytes(hosts[a], d.bytes)
    <3> HIDE DEF a, K
    <3>3. hosts' = [hosts EXCEPT ![a] = g] /\ cur' = cur
      <4>1. CASE K = "last_seen"
        <5>1. Store("last_seen", v) /\ v = d.last_seen
          BY <4>1, <1>1, <1>4 DEF Field
        <5>2. hosts' = [hosts EXCEPT ![cur[1]].last_seen = real_to_mono(v)] /\ cur' = cur
          BY <5>1, StoreShape, Zenon
        <5> QED BY <5>1, <5>2, <4>1, <3>2 DEF WithSeen, real_to_mono
      <4>2. CASE K = "name"
        <5>1. Store("name", v) /\ v = d.name
          BY <4>2, <1>1, <1>4 DEF Field
        <5>2. hosts' = [hosts EXCEPT ![cur[1]].name = v] /\ cur' = cur
          BY <5>1, StoreShape, Zenon
        <5> QED BY <5>1, <5>2, <4>2, <3>2 DEF WithName
      <4>3. CASE K = "bytes"
        <5>1. Store("bytes", v) /\ v = d.bytes
          BY <4>3, <1>1, <1>4 DEF Field
        <5>2. hosts' = [hosts EXCEPT ![cur[1]].bytes = v] /\ cur' = cur
          BY <5>1, StoreShape, Zenon
        <5> QED BY <5>1, <5>2, <4>3, <3>2 DEF WithBytes
      <4> QED BY <4>1, <4>2, <4>3, <3>1
    <3>4. \/ K = "last_seen" /\ g = WithSeen(hosts[a], D.hosts[a].last_seen - offset)
          \/ K = "name" /\ g = WithName(hosts[a], D.hosts[a].name)
          \/ K = "bytes" /\ g = WithBytes(hosts[a], D.hosts[a].bytes)
      BY <3>1 DEF d
    <3> HIDE DEF g
    <3> DEFINE G == [hosts EXCEPT ![a] = g]
    <3>5. Within(D, G, ports_max) /\ Keeps(D, hosts, G, offset, ports_max) /\ a \in DOMAIN G
          /\ FieldOK(D, G, offset, a, K)
      BY <3>1, <3>2, <3>4, FieldStored
    <3> QED BY <3>2, <3>3, <3>5
  <2> QED BY <2>1, <2>2
<1>6. HostsOK(D, hosts', offset, ports_max, i)
  BY <1>1, <1>5, PlacesKept
<1>7. FieldsOK(D, hosts', offset, i, q + 1)
  <2> SUFFICES ASSUME NEW p \in 1..((q + 1) - 1)
               PROVE  FieldOK(D, hosts', offset, a, Fields(D.version)[p])
    BY <1>5 DEF FieldsOK
  <2>1. p \in 1..(q - 1) \/ p = q
    BY <1>0
  <2>2. CASE p = q
    BY <2>2, <1>5
  <2>3. CASE p \in 1..(q - 1)
    <3>1. CASE q > 2
      <4>1. FieldsOK(D, hosts', offset, i, q)
        BY <3>1, <1>1, <1>5, PlacesKept
      <4> QED BY <4>1, <2>3 DEF FieldsOK
    <3>2. CASE ~(q > 2)
      <4>1. p = 1
        BY <3>2, <2>3, <1>0
      <4>2. Fields(D.version)[p] = "host"
        BY <4>1, <1>0, FieldsFacts
      <4> QED BY <4>2 DEF FieldOK
    <3> QED BY <3>1, <3>2
  <2> QED BY <2>1, <2>2, <2>3
<1> HIDE DEF a, K
<1> QED BY <1>1, <1>2, <1>3, <1>5, <1>6, <1>7 DEF AtField, a

(* The graphs keep their shape.                                          *)
LEMMA GraphKept ==
  ASSUME NEW K, NEW v, Store(K, v), DOMAIN graph = {"last", "bars"}
  PROVE  DOMAIN graph' = {"last", "bars"}
<1>1. \/ graph' = graph \/ graph' = [graph EXCEPT !.last = v]
      \/ graph' = [graph EXCEPT !.bars = v]
  BY DEF Store
<1> QED BY <1>1

(* An import stays on track, or is stuck at the end of the file.         *)
LEMMA ImportKeeps ==
  ASSUME NEW D, GoodDb(D), FileOK(D), offset \in Int, ports_max \in Nat,
         DOMAIN graph = {"last", "bars"}, Stuck \/ OnTrack(D), import_next
  PROVE  /\ Stuck' \/ OnTrack(D)'
         /\ DOMAIN graph' = {"last", "bars"}
<1>1. offset' = offset /\ ports_max' = ports_max /\ ReadNext # {} /\ want # <<>>
  BY DEF import_next
<1>2. DOMAIN graph' = {"last", "bars"}
  BY GraphKept DEF import_next
<1>3. ~Stuck
  BY <1>1 DEF Stuck, ReadNext
<1>4. Within(D, hosts, ports_max) /\ (Unfinished(D) \/ AtGraph(D, 8))
  BY <1>3, Places DEF OnTrack
<1>5. ~AtGraph(D, 8)
  BY <1>1, GraphWants DEF AtGraph
<1>6. Sequence(Items(D)) /\ Len(Addrs(D)) \in Nat
  BY Shape, Sizes
<1>7. \A K, V, u : Reading(D, K, V, u) =>
        Taken(K, V) \/ Stuck' \/ (K = "bars" /\ \E v : Taken(K, v))
  BY <1>6, ReadStep
<1> DEFINE Goal == Stuck' \/ OnTrack(D)'
<1>8. ASSUME NEW q \in 1..3, AtHeader(D, q) PROVE Goal
  <2> DEFINE K == Import_db[q]
             V == HeaderValue(D, q)
             u == WantGraph(q + 1)
  <2>1. Reading(D, K, V, u)
    BY <1>8, ReadHeader
  <2>2. K # "bars"
    <3>1. q = 1 \/ q = 2 \/ q = 3
      OBVIOUS
    <3> QED BY <3>1, ImportShape
  <2>3. Taken(K, V) \/ Stuck'
    BY <2>1, <2>2, <1>7, Zenon
  <2>4. CASE Taken(K, V)
    <3>1. /\ hosts' = hosts /\ (q < 3 => AtHeader(D, q + 1)')
          /\ (q = 3 => AtHost(D, 1)')
      BY <2>1, <2>4, <1>8, HeaderStep
    <3>2. Within(D, hosts, ports_max)'
      BY <3>1, <1>1, <1>4
    <3>3. (q < 3 /\ q + 1 \in 1..3) \/ (q = 3 /\ 1 \in 1..(Len(Addrs(D)) + 1))
      BY <1>6
    <3> QED BY <3>1, <3>2, <3>3 DEF OnTrack
  <2> QED BY <2>3, <2>4
<1>9. ASSUME NEW q \in 4..7, AtGraph(D, q) PROVE Goal
  <2> DEFINE K == Import_db[q]
             V == GraphValue(D, q)
             u == WantGraph(q + 1)
  <2>1. Reading(D, K, V, u)
    BY <1>9, ReadGraph
  <2>2. K = "bars" => q = 7
    <3>1. q = 4 \/ q = 5 \/ q = 6 \/ q = 7
      OBVIOUS
    <3> QED BY <3>1, ImportShape
  <2>3. Stuck' \/ \E v : Taken(K, v) /\ (q = 7 \/ v = V)
    BY <2>1, <2>2, <1>7, Zenon
  <2>4. ASSUME NEW v, Taken(K, v), q = 7 \/ v = V PROVE OnTrack(D)'
    <3>1. hosts' = hosts /\ AtGraph(D, q + 1)'
      BY <2>1, <2>4, <1>1, <1>9, GraphStep
    <3>2. Within(D, hosts, ports_max)'
      BY <3>1, <1>1, <1>4
    <3>3. q + 1 \in 4..8
      OBVIOUS
    <3> QED BY <3>1, <3>2, <3>3 DEF OnTrack
  <2> QED BY <2>3, <2>4
<1>10. ASSUME NEW i \in 1..Len(Addrs(D)), AtHost(D, i) PROVE Goal
  <2>1. Reading(D, "host", D.version, WantHosts(D, i + 1))
    BY <1>10, ReadHost
  <2>2. Taken("host", D.version) \/ Stuck'
    BY <2>1, <1>7
  <2>3. CASE Taken("host", D.version)
    <3>1. hosts' = hosts /\ AtField(D, i, 2)'
      BY <2>1, <2>3, <1>1, <1>10, HostStep
    <3>2. Within(D, hosts, ports_max)'
      BY <3>1, <1>1, <1>4
    <3>3. 2 \in 2..(FieldCount(D) + 1)
      BY Sizes
    <3> QED BY <3>1, <3>2, <3>3 DEF OnTrack
  <2> QED BY <2>2, <2>3
<1>11. ASSUME NEW i \in 1..Len(Addrs(D)), NEW q \in 2..FieldCount(D), AtField(D, i, q)
       PROVE  Goal
  <2> DEFINE K == Fields(D.version)[q]
             V == FieldOf(D, i, q)
             u == WantFields(D, i, q + 1)
  <2>1. Reading(D, K, V, u) /\ K \in {"addr", "last_seen", "name", "bytes"}
        /\ (K = "addr" <=> q = 2)
    BY <1>11, ReadField
  <2>2. Taken(K, V) \/ Stuck'
    <3>1. K # "bars"
      BY <2>1
    <3> QED BY <2>1, <3>1, <1>7, Zenon
  <2>3. CASE Taken(K, V)
    <3>1. Within(D, hosts', ports_max) /\ AtField(D, i, q + 1)'
      BY <2>1, <2>3, <1>1, <1>4, <1>11, FieldStep
    <3>2. Within(D, hosts, ports_max)'
      BY <3>1, <1>1
    <3>3. q + 1 \in 2..(FieldCount(D) + 1)
      BY Sizes
    <3> QED BY <3>1, <3>2, <3>3 DEF OnTrack
  <2> QED BY <2>2, <2>3
<1>12. ASSUME NEW i \in 1..Len(Addrs(D)), NEW t \in 1..TableCount(D), AtTag(D, i, t)
       PROVE  Goal
  <2>1. Reading(D, "magic", TableName(D, t), WantTags(D, i, 2*t))
    BY <1>12, ReadTag
  <2>2. Taken("magic", TableName(D, t)) \/ Stuck'
    BY <2>1, <1>7
  <2>3. CASE Taken("magic", TableName(D, t))
    <3>1. hosts' = hosts /\ AtCount(D, i, t)'
      BY <2>1, <2>3, <1>1, <1>12, TagStep
    <3>2. Within(D, hosts, ports_max)'
      BY <3>1, <1>1, <1>4
    <3> QED BY <3>1, <3>2 DEF OnTrack
  <2> QED BY <2>2, <2>3
<1>13. ASSUME NEW i \in 1..Len(Addrs(D)), NEW t \in 1..TableCount(D), AtCount(D, i, t)
       PROVE  Goal
  <2> DEFINE K == Count(TableName(D, t))
             V == Len(Keys(D, i, t))
             u == WantTags(D, i, 2*t + 1)
  <2>1. Reading(D, K, V, u) /\ K \in {"count", "count8"}
    BY <1>13, ReadCount
  <2>2. Taken(K, V) \/ Stuck'
    <3>1. K # "bars"
      BY <2>1
    <3> QED BY <2>1, <3>1, <1>7, Zenon
  <2>3. CASE Taken(K, V)
    <3>1. hosts' = hosts /\ AtEntry(D, i, t, 1)'
      BY <2>1, <2>3, <1>1, <1>13, CountStep
    <3>2. Within(D, hosts, ports_max)'
      BY <3>1, <1>1, <1>4
    <3>3. 1 \in 1..(Len(Keys(D, i, t)) + 1)
      BY KeysFacts
    <3> QED BY <3>1, <3>2, <3>3 DEF OnTrack
  <2> QED BY <2>2, <2>3
<1>14. ASSUME NEW i \in 1..Len(Addrs(D)), NEW t \in 1..TableCount(D),
              NEW r \in 1..Len(Keys(D, i, t)), AtEntry(D, i, t, r)
       PROVE  Goal
  <2> DEFINE V == EntryValue(D, i, t, r)
             u == WantEntries(D, i, t, r + 1)
  <2>1. Reading(D, "entry", V, u)
    BY <1>14, ReadEntry
  <2>2. Taken("entry", V) \/ Stuck'
    BY <2>1, <1>7
  <2>3. CASE Taken("entry", V)
    <3>1. Within(D, hosts', ports_max) /\ AtEntry(D, i, t, r + 1)'
      BY <2>1, <2>3, <1>1, <1>4, <1>14, EntryStep
    <3>2. Within(D, hosts, ports_max)'
      BY <3>1, <1>1
    <3>3. r + 1 \in 1..(Len(Keys(D, i, t)) + 1)
      BY KeysFacts
    <3> QED BY <3>1, <3>2, <3>3 DEF OnTrack
  <2> QED BY <2>2, <2>3
<1> HIDE DEF Goal
<1>15. Goal
  BY <1>4, <1>5, <1>8, <1>9, <1>10, <1>11, <1>12, <1>13, <1>14, Zenon DEF Unfinished
<1> QED BY <1>2, <1>15 DEF Goal

(***************************************************************************)
(* At the end, all has been read.                                          *)
(***************************************************************************)
(* The subtables of a host that has been read are those of D, but for    *)
(* those that were cut down.                                             *)
LEMMA TablesCut ==
  ASSUME NEW D, GoodDb(D), NEW H, NEW m \in Nat, Within(D, H, m), NEW o,
         NEW a \in DOMAIN D.hosts, HostOK(D, H, o, m, a), NEW T \in ToSet(Tables)
  PROVE  CutDown(T, H[a].tables[T], D.hosts[a].tables[T], m)
<1> DEFINE f == H[a].tables[T]
           e == D.hosts[a].tables[T]
<1>1. PartOf(f, e, T, m)
  BY DEF HostOK, Within
<1>2. TableOK(D, H, m, a, T)
  <2>1. PICK t \in 1..5 : T = Tables[t]
    BY TablesFacts
  <2>2. CASE t \in 1..TableCount(D)
    <3>1. TableName(D, t) = T
      BY <2>1, <2>2, Sizes, TablesOfFacts DEF TableName, TableCount
    <3> QED BY <2>2, <3>1 DEF HostOK
  <2>3. CASE t \notin 1..TableCount(D)
    <3>1. D.version < 4 /\ (t = 4 \/ t = 5)
      <4>1. TableCount(D) = 3 /\ D.version # 4
        BY <2>3, Sizes, TablesOfFacts DEF TableCount
      <4> QED BY <4>1, <2>3, Sizes
    <3>2. T \in {"tcp_remote", "udp_remote"}
      BY <2>1, <3>1, TablesFacts
    <3>3. D.hosts[a].tables[T] = None
      BY <3>1, <3>2 DEF GoodDb
    <3> QED BY <3>3, NewHosts DEF TableOK
  <2> QED BY <2>2, <2>3
<1>3. CASE Fits(D, m, a, T)
  <2>1. \A k \in DOMAIN e : k \in DOMAIN f
    BY <1>2, <1>3 DEF TableOK, EntryOK, Has
  <2>2. T = "ip" \/ Cardinality(DOMAIN e) <= m
    BY <1>3 DEF Fits
  <2> HIDE DEF f, e
  <2>3. CutDown(T, f, e, m)
    BY <1>1, <2>1, <2>2 DEF PartOf, CutDown
  <2> QED BY <2>3 DEF f, e
<1>4. CASE ~Fits(D, m, a, T)
  <2>1. ~(T = "ip" \/ Cardinality(DOMAIN e) <= m)
    BY <1>4 DEF Fits
  <2> HIDE DEF f, e
  <2>2. CutDown(T, f, e, m)
    BY <1>1, <2>1 DEF PartOf, CutDown
  <2> QED BY <2>2 DEF f, e
<1> QED BY <1>3, <1>4

(* So are its fields.                                                    *)
LEMMA FieldsSame ==
  ASSUME NEW D, GoodDb(D), NEW H, NEW o, NEW m, NEW a, HostOK(D, H, o, m, a)
  PROVE  /\ H[a].name = D.hosts[a].name /\ H[a].bytes = D.hosts[a].bytes
         /\ D.version > 1 => H[a].last_seen + o = D.hosts[a].last_seen
<1> DEFINE F == Fields(D.version)
<1>1. \A q \in 1..FieldCount(D) : FieldOK(D, H, o, a, F[q])
  BY DEF HostOK
<1>2. FieldCount(D) = Len(F) /\ D.version \in 1..4
  BY Sizes DEF FieldCount
<1>3. CASE D.version > 1
  <2>1. FieldCount(D) = 5 /\ F[3] = "last_seen" /\ F[4] = "name" /\ F[5] = "bytes"
    BY <1>2, <1>3, FieldsFacts
  <2>2. 3 \in 1..FieldCount(D) /\ 4 \in 1..FieldCount(D) /\ 5 \in 1..FieldCount(D)
    BY <2>1
  <2> HIDE DEF F
  <2>3. FieldOK(D, H, o, a, "last_seen") /\ FieldOK(D, H, o, a, "name")
        /\ FieldOK(D, H, o, a, "bytes")
    BY <2>1, <2>2, <1>1
  <2> QED BY <2>3 DEF FieldOK
<1>4. CASE ~(D.version > 1)
  <2>1. FieldCount(D) = 4 /\ F[3] = "name" /\ F[4] = "bytes"
    BY <1>2, <1>4, FieldsFacts
  <2>2. 3 \in 1..FieldCount(D) /\ 4 \in 1..FieldCount(D)
    BY <2>1
  <2> HIDE DEF F
  <2>3. FieldOK(D, H, o, a, "name") /\ FieldOK(D, H, o, a, "bytes")
    BY <2>1, <2>2, <1>1
  <2> QED BY <2>3, <1>4 DEF FieldOK
<1> QED BY <1>3, <1>4

(***************************************************************************)
(* What db_export writes is the file of a database.                        *)
(***************************************************************************)
(* In real time, the hosts have everything they had.                     *)
LEMMA RealFacts ==
  ASSUME NEW H, IsDb(H), offset \in Int
  PROVE  /\ DOMAIN Real(H) = DOMAIN H
         /\ \A a \in DOMAIN H :
              /\ Real(H)[a].last_seen = mono_to_real(H[a].last_seen)
              /\ Real(H)[a].name = H[a].name /\ Real(H)[a].bytes = H[a].bytes
              /\ Real(H)[a].tables = H[a].tables /\ IsHost(Real(H)[a])
         /\ IsDb(Real(H))
<1> DEFINE R == Real(H)
<1>1. R = [a \in DOMAIN H |-> WithSeen(H[a], mono_to_real(H[a].last_seen))]
  BY DEF Real, WithSeen
<1> HIDE DEF R
<1>2. DOMAIN R = DOMAIN H /\ R = [a \in DOMAIN R |-> R[a]]
      /\ \A a \in DOMAIN H : R[a] = WithSeen(H[a], mono_to_real(H[a].last_seen))
  BY <1>1
<1>3. ASSUME NEW a \in DOMAIN H
      PROVE  /\ R[a].last_seen = mono_to_real(H[a].last_seen)
             /\ R[a].name = H[a].name /\ R[a].bytes = H[a].bytes
             /\ R[a].tables = H[a].tables /\ IsHost(R[a])
  <2> DEFINE h == H[a]
             x == mono_to_real(h.last_seen)
  <2>1. IsHost(h)
    BY DEF IsDb
  <2>2. x \in Int
    BY <2>1 DEF IsHost, mono_to_real
  <2>3. R[a] = WithSeen(h, x)
    BY <1>2
  <2> HIDE DEF h, x
  <2>4. /\ IsHost(WithSeen(h, x)) /\ WithSeen(h, x).last_seen = x
        /\ WithSeen(h, x).name = h.name /\ WithSeen(h, x).bytes = h.bytes
        /\ WithSeen(h, x).tables = h.tables
    BY <2>1, <2>2, HostWith
  <2> QED BY <2>3, <2>4 DEF h, x
<1>4. IsDb(R)
  <2>1. IsFiniteSet(DOMAIN H)
    BY DEF IsDb
  <2> QED BY <2>1, <1>2, <1>3 DEF IsDb
<1> QED BY <1>2, <1>3, <1>4 DEF R

(* At the end of the file, the hosts are those of D: all of them were    *)
(* read, and nothing else was.                                           *)
LEMMA AllRead ==
  ASSUME NEW D, GoodDb(D), ports_max \in Nat, Within(D, hosts, ports_max), AtGraph(D, 8),
         offset \in Int
  PROVE  /\ SameHosts(Real(hosts), D.hosts, D.version, ports_max)
         /\ graph.last = D.graph.last
<1>1. /\ HostsOK(D, hosts, offset, ports_max, Len(Addrs(D)) + 1)
      /\ graph.last = D.graph.last
  BY DEF AtGraph
<1>2. ASSUME NEW a \in DOMAIN D.hosts PROVE HostOK(D, hosts, offset, ports_max, a)
  <2>1. PICK i \in 1..Len(Addrs(D)) : Addrs(D)[i] = a
    BY AddrsFacts
  <2>2. i \in 1..((Len(Addrs(D)) + 1) - 1)
    BY Sizes
  <2> QED BY <2>1, <2>2, <1>1 DEF HostsOK
<1>3. DOMAIN hosts = DOMAIN D.hosts
  BY <1>2 DEF Within, HostOK
<1> DEFINE R == Real(hosts)
<1>4. /\ DOMAIN R = DOMAIN hosts
      /\ \A a \in DOMAIN hosts :
           /\ R[a].last_seen = hosts[a].last_seen + offset
           /\ R[a].name = hosts[a].name /\ R[a].bytes = hosts[a].bytes
           /\ R[a].tables = hosts[a].tables
  BY RealFacts DEF Within, mono_to_real
<1> HIDE DEF R
<1>5. ASSUME NEW a \in DOMAIN D.hosts
      PROVE  /\ R[a].name = D.hosts[a].name /\ R[a].bytes = D.hosts[a].bytes
             /\ D.version > 1 => R[a].last_seen = D.hosts[a].last_seen
  BY <1>2, <1>3, <1>4, FieldsSame
<1>6. ASSUME NEW a \in DOMAIN D.hosts, NEW T \in ToSet(Tables)
      PROVE  CutDown(T, R[a].tables[T], D.hosts[a].tables[T], ports_max)
  <2>1. CutDown(T, hosts[a].tables[T], D.hosts[a].tables[T], ports_max)
    BY <1>2, TablesCut
  <2> QED BY <2>1, <1>3, <1>4
<1>7. SameHosts(R, D.hosts, D.version, ports_max)
  BY <1>3, <1>4, <1>5, <1>6 DEF SameHosts
<1> QED BY <1>1, <1>7 DEF R

(* An export writes the file of its database.                            *)
LEMMA ExportedItems ==
  ASSUME NEW v \in 1..4, NEW H, NEW g, IsDb(H), offset \in Int
  PROVE  Export_db(v, H, g) = Items(Database(v, H, g))
<1> DEFINE D == Database(v, H, g)
           as == SetToSeq(DOMAIN H)
<1>1. D.version = v /\ D.hosts = Real(H) /\ D.graph = g
  BY DEF Database
<1>2. Addrs(D) = as
  BY <1>1, RealFacts DEF Addrs
<1>3. \A i \in 1..Len(as) : as[i] \in DOMAIN H
  BY Listed DEF IsDb
<1> HIDE DEF as
<1> DEFINE E == [i \in 1..Len(as) |->
                   Export_host(v, as[i], H[as[i]], mono_to_real(H[as[i]].last_seen))]
<1>4. HostSeqs(D) = E
  <2>1. ASSUME NEW i \in 1..Len(as)
        PROVE  Export_host(v, as[i], Host(D, i), Host(D, i).last_seen)
                 = Export_host(v, as[i], H[as[i]], mono_to_real(H[as[i]].last_seen))
    <3> DEFINE d == Real(H)[as[i]]
               h == H[as[i]]
    <3>1. Host(D, i) = d
      BY <1>1, <1>2 DEF Host
    <3>2. d.last_seen = mono_to_real(h.last_seen) /\ d.name = h.name /\ d.bytes = h.bytes
          /\ d.tables = h.tables
      BY <1>3, RealFacts
    <3> HIDE DEF d, h
    <3>3. \A t : Export_host(v, as[i], d, t) = Export_host(v, as[i], h, t)
      BY <3>2 DEF Export_host
    <3> QED BY <3>1, <3>2, <3>3 DEF d, h
  <2>2. HostSeqs(D) = [i \in 1..Len(as) |->
                         Export_host(v, as[i], Host(D, i), Host(D, i).last_seen)]
    BY <1>1, <1>2 DEF HostSeqs
  <2> HIDE DEF D
  <2> QED BY <2>1, <2>2
<1>5. Items(D) = <<Item("file", 1), Item("hosts", 1), Item("host_count", Len(as))>>
                   \o FlattenSeq(E)
                   \o <<Item("graph", 1), Item("last", g.last), Item("ring", 1),
                        Item("bars", g.bars)>>
  <2> HIDE DEF E, D
  <2> QED BY <1>1, <1>2, <1>4 DEF Items, Header, Trailer
<1>6. Export_db(v, H, g) = <<Item("file", 1), Item("hosts", 1), Item("host_count", Len(as))>>
                   \o FlattenSeq(E)
                   \o <<Item("graph", 1), Item("last", g.last), Item("ring", 1),
                        Item("bars", g.bars)>>
  BY DEF Export_db, as
<1> QED BY <1>5, <1>6

(* And the database of an export is one that a file may hold.            *)
LEMMA GoodExport ==
  ASSUME NEW v \in 1..4, NEW H, NEW g, IsDb(H), Proper(H), offset \in Int,
         v = 4 \/ \A a \in DOMAIN H : \A T \in {"tcp_remote", "udp_remote"} :
                    H[a].tables[T] = None
  PROVE  GoodDb(Database(v, H, g))
<1> DEFINE D == Database(v, H, g)
<1>1. D.version = v /\ D.hosts = Real(H) /\ D.graph = g
  BY DEF Database
<1> HIDE DEF D
<1>2. Proper(D.hosts)
  BY <1>1, RealFacts DEF Proper
<1>3. GoodDb(D)
  BY <1>1, <1>2, RealFacts DEF GoodDb
<1> QED BY <1>3 DEF D

(* What an import has read is within the limits.                         *)
LEMMA SmallWithin ==
  ASSUME NEW D, GoodDb(D), NEW H, NEW m, Within(D, H, m)
  PROVE  IsDb(H) /\ Small(H, m)
<1>1. ASSUME NEW a \in DOMAIN H, NEW T \in ToSet(Tables)
      PROVE  SmallTable(T, H[a].tables[T], m)
  <2> DEFINE f == H[a].tables[T]
             e == D.hosts[a].tables[T]
  <2>1. PartOf(f, e, T, m) /\ a \in DOMAIN D.hosts /\ IsTable(f)
    BY DEF Within, IsDb, IsHost
  <2>2. ProperTable(T, e)
    BY <2>1 DEF GoodDb, Proper
  <2> HIDE DEF f, e
  <2>3. SmallTable(T, f, m)
    BY <2>1, <2>2 DEF PartOf, ProperTable, SmallTable
  <2> QED BY <2>3 DEF f
<1> QED BY <1>1 DEF Small, Within

(***************************************************************************)
(* The assertions on the counts.                                           *)
(***************************************************************************)
(* All items satisfy the assertion.                                      *)
Sound(s) == Sequence(s) /\ \A j \in 1..Len(s) : Assertion(s[j])

(* Two sequences of sound items, joined.                                 *)
LEMMA SoundConcat ==
  ASSUME NEW s, NEW t, Sound(s), Sound(t)
  PROVE  Sound(s \o t)
<1> DEFINE u == s \o t
           a == Len(s)
           b == Len(t)
<1>1. Sequence(s) /\ Sequence(t) /\ a \in Nat /\ b \in Nat
  BY SeqShape DEF Sound
<1>2. Sequence(u) /\ Joint(u, s, t)
  BY <1>1, SeqConcat
<1> HIDE DEF u
<1>3. Len(u) = a + b /\ (\A i \in 1..a : u[i] = s[i]) /\ (\A i \in 1..b : u[a + i] = t[i])
  BY <1>2 DEF Joint
<1>4. ASSUME NEW j \in 1..Len(u) PROVE Assertion(u[j])
  <2>1. CASE j \in 1..a
    BY <2>1, <1>3 DEF Sound
  <2>2. CASE j \notin 1..a
    <3> DEFINE k == j - a
    <3> HIDE DEF a, b
    <3>1. k \in 1..b /\ j = a + k
      BY <2>2, <1>1, <1>3
    <3> HIDE DEF k
    <3>2. u[j] = t[k]
      BY <3>1, <1>3
    <3>3. Assertion(t[k])
      BY <3>1 DEF Sound, b
    <3> QED BY <3>2, <3>3
  <2> QED BY <2>1, <2>2
<1> QED BY <1>2, <1>4 DEF Sound, u

(* And any number of them.                                               *)
LEMMA SoundFlat ==
  ASSUME NEW n \in Nat, NEW q, IsList(q, n), \A i \in 1..n : Sound(q[i])
  PROVE  Sound(FlattenSeq(q))
<1> DEFINE S == UNION {{q[i][j] : j \in 1..Len(q[i])} : i \in 1..n}
<1>1. ASSUME NEW i \in 1..n PROVE q[i] \in Seq(S)
  <2> DEFINE s == q[i]
  <2>1. Len(s) \in Nat /\ s = [j \in 1..Len(s) |-> s[j]]
    BY SeqShape DEF Sound
  <2>2. \A j \in 1..Len(s) : s[j] \in S
    OBVIOUS
  <2> HIDE DEF s, S
  <2>3. s \in Seq(S)
    BY <2>1, <2>2
  <2> QED BY <2>3 DEF s
<1>2. \A x \in S : Assertion(x)
  BY DEF Sound
<1> HIDE DEF S
<1>3. q \in Seq(Seq(S)) /\ Len(q) = n
  BY <1>1 DEF IsList
<1>4. FlattenSeq(q) \in Seq(S)
  BY <1>3, Flattened
<1> DEFINE f == FlattenSeq(q)
<1> HIDE DEF f
<1>5. f \in Seq(S)
  BY <1>4 DEF f
<1>6. \A j \in 1..Len(f) : Assertion(f[j])
  BY <1>2, <1>5
<1> QED BY <1>5, <1>6 DEF Sound, Sequence, f

(* A subtable with fewer entries than there are keys.                    *)
LEMMA SoundTable ==
  ASSUME NEW T, NEW f, IsTable(f), Cardinality(DOMAIN f) < KeyLimit(T)
  PROVE  Sound(Export_table(T, f))
<1> DEFINE e == Export_table(T, f)
           l == Len(SetToSeq(DOMAIN f))
<1>1. /\ Sequence(e) /\ l \in Nat /\ l = Cardinality(DOMAIN f) /\ Len(e) = 2 + l
      /\ e[1] = Item("magic", T) /\ e[2] = Item(Count(T), l)
      /\ \A r \in 1..l :
           e[2 + r] = Item("entry", <<SetToSeq(DOMAIN f)[r], f[SetToSeq(DOMAIN f)[r]]>>)
  <2> HIDE DEF e, l
  <2>1. /\ Sequence(Export_table(T, f))
        /\ Len(SetToSeq(DOMAIN f)) \in Nat
        /\ Len(SetToSeq(DOMAIN f)) = Cardinality(DOMAIN f)
        /\ Len(Export_table(T, f)) = 2 + Len(SetToSeq(DOMAIN f))
        /\ Export_table(T, f)[1] = Item("magic", T)
        /\ Export_table(T, f)[2] = Item(Count(T), Len(SetToSeq(DOMAIN f)))
        /\ \A r \in 1..Len(SetToSeq(DOMAIN f)) :
             Export_table(T, f)[2 + r] =
               Item("entry", <<SetToSeq(DOMAIN f)[r], f[SetToSeq(DOMAIN f)[r]]>>)
    BY TableShape
  <2> QED BY <2>1 DEF e, l
<1> HIDE DEF e, l
<1>2. \A v : Assertion(Item("magic", v)) /\ Assertion(Item("entry", v))
  BY DEF Assertion, Item
<1>3. Assertion(Item(Count(T), l))
  BY <1>1 DEF Assertion, Item, Count, KeyLimit
<1>4. ASSUME NEW j \in 1..Len(e) PROVE Assertion(e[j])
  <2>1. j = 1 \/ j = 2 \/ (j - 2 \in 1..l /\ 2 + (j - 2) = j)
    BY <1>1
  <2>2. CASE j - 2 \in 1..l /\ 2 + (j - 2) = j
    <3> DEFINE r == j - 2
    <3>1. r \in 1..l /\ 2 + r = j
      BY <2>2
    <3> HIDE DEF r
    <3> QED BY <3>1, <1>1, <1>2
  <2>3. CASE j = 1
    BY <2>3, <1>1, <1>2
  <2>4. CASE j = 2
    BY <2>4, <1>1, <1>3
  <2> QED BY <2>1, <2>2, <2>3, <2>4
<1> QED BY <1>1, <1>4 DEF Sound, e

(* A host with such subtables.                                           *)
LEMMA SoundHost ==
  ASSUME NEW v \in 1..4, NEW a, NEW h, NEW t, IsHost(h),
         \A T \in ToSet(Tables) : Cardinality(DOMAIN h.tables[T]) < KeyLimit(T)
  PROVE  Sound(Export_host(v, a, h, t))
<1> DEFINE TS == TableSeqs(v, h)
           n  == Len(TablesOf(v))
           p  == Prefix(v, a, h, t)
<1>1. Export_host(v, a, h, t) = p \o FlattenSeq(TS)
  BY DEF Export_host, Prefix, TableSeqs
<1>2. n \in Nat /\ IsList(TS, n)
  BY TablesOfFacts DEF TableSeqs, IsList
<1>3. ASSUME NEW i \in 1..n PROVE Sound(TS[i])
  <2> DEFINE T == TablesOf(v)[i]
  <2>1. TS[i] = Export_table(T, h.tables[T])
    BY DEF TableSeqs
  <2>2. T \in ToSet(Tables)
    BY TablesOfFacts
  <2>3. IsTable(h.tables[T]) /\ Cardinality(DOMAIN h.tables[T]) < KeyLimit(T)
    BY <2>2 DEF IsHost
  <2> QED BY <2>1, <2>3, SoundTable
<1> HIDE DEF TS, n
<1>4. Sound(FlattenSeq(TS))
  BY <1>2, <1>3, SoundFlat
<1>5. Sound(p)
  <2>1. Sequence(p) /\ Len(p) = Len(Fields(v))
        /\ \A q \in 1..Len(Fields(v)) :
             p[q] = Item(Fields(v)[q], Field(Fields(v)[q], v, a, h, t))
    BY PrefixShape
  <2> HIDE DEF p
  <2>2. \A q \in 1..Len(Fields(v)) : Fields(v)[q] \notin {"count", "count8"}
    <3>1. CASE v > 1
      <4>1. Len(Fields(v)) = 5
        BY <3>1, FieldsFacts
      <4>2. \A q \in 1..5 : q = 1 \/ q = 2 \/ q = 3 \/ q = 4 \/ q = 5
        OBVIOUS
      <4> QED BY <4>1, <4>2, <3>1, FieldsFacts
    <3>2. CASE ~(v > 1)
      <4>1. Len(Fields(v)) = 4
        BY <3>2, FieldsFacts
      <4>2. \A q \in 1..4 : q = 1 \/ q = 2 \/ q = 3 \/ q = 4
        OBVIOUS
      <4> QED BY <4>1, <4>2, <3>2, FieldsFacts
    <3> QED BY <3>1, <3>2
  <2>3. \A k, x : k \notin {"count", "count8"} => Assertion(Item(k, x))
    BY DEF Assertion, Item
  <2> QED BY <2>1, <2>2, <2>3 DEF Sound
<1> HIDE DEF p
<1> QED BY <1>1, <1>4, <1>5, SoundConcat

(* Every count in the file of such a database passes its assertion.      *)
LEMMA SoundItems ==
  ASSUME NEW D, GoodDb(D),
         \A a \in DOMAIN D.hosts : \A T \in ToSet(Tables) :
           Cardinality(DOMAIN D.hosts[a].tables[T]) < KeyLimit(T)
  PROVE  Sound(Items(D))
<1> DEFINE HS == HostSeqs(D)
           n == Len(Addrs(D))
<1>1. n \in Nat /\ IsList(HS, n)
  BY AddrsFacts DEF HostSeqs, IsList
<1>2. ASSUME NEW i \in 1..n PROVE Sound(HS[i])
  <2> DEFINE h == Host(D, i)
             a == Addrs(D)[i]
  <2>1. HS[i] = Export_host(D.version, a, h, h.last_seen)
    BY DEF HostSeqs
  <2>2. D.version \in 1..4 /\ IsHost(h) /\ a \in DOMAIN D.hosts /\ h = D.hosts[a]
    BY AddrsFacts DEF GoodDb, Host
  <2>3. ASSUME NEW T \in ToSet(Tables) PROVE Cardinality(DOMAIN h.tables[T]) < KeyLimit(T)
    BY <2>2
  <2> HIDE DEF h, a
  <2> QED BY <2>1, <2>2, <2>3, SoundHost
<1> HIDE DEF HS, n
<1>3. Sound(FlattenSeq(HS))
  BY <1>1, <1>2, SoundFlat
<1>4. Sound(Header(D)) /\ Sound(Trailer(D))
  <2>0. \A k, x : k \notin {"count", "count8"} => Assertion(Item(k, x))
    BY DEF Assertion, Item
  <2>1. \A q \in 1..3 : Assertion(Header(D)[q])
    <3>1. \A q \in 1..3 : q = 1 \/ q = 2 \/ q = 3
      OBVIOUS
    <3>2. Assertion(Header(D)[1]) /\ Assertion(Header(D)[2]) /\ Assertion(Header(D)[3])
      <4>1. /\ Header(D)[1] = Item("file", 1) /\ Header(D)[2] = Item("hosts", 1)
            /\ Header(D)[3] = Item("host_count", Len(Addrs(D)))
        BY TrailerShape, Zenon
      <4> QED BY <4>1, <2>0
    <3> QED BY <3>1, <3>2
  <2>2. \A q \in 1..4 : Assertion(Trailer(D)[q])
    <3>1. \A q \in 1..4 : q = 1 \/ q = 2 \/ q = 3 \/ q = 4
      OBVIOUS
    <3>2. /\ Assertion(Trailer(D)[1]) /\ Assertion(Trailer(D)[2])
          /\ Assertion(Trailer(D)[3]) /\ Assertion(Trailer(D)[4])
      <4>1. /\ Trailer(D)[1] = Item("graph", 1) /\ Trailer(D)[2] = Item("last", D.graph.last)
            /\ Trailer(D)[3] = Item("ring", 1) /\ Trailer(D)[4] = Item("bars", D.graph.bars)
        BY TrailerShape, Zenon
      <4> QED BY <4>1, <2>0
    <3> QED BY <3>1, <3>2
  <2> QED BY <2>1, <2>2, TrailerShape DEF Sound
<1>5. Sound(Header(D) \o FlattenSeq(HS))
  BY <1>3, <1>4, SoundConcat
<1>6. Items(D) = (Header(D) \o FlattenSeq(HS)) \o Trailer(D)
  BY DEF Items, HS
<1> QED BY <1>4, <1>5, <1>6, SoundConcat

(* One that does not has a host that has used all ports.                 *)
LEMMA AllPorts ==
  ASSUME NEW D, GoodDb(D), ~Sound(Items(D))
  PROVE  \E a \in DOMAIN D.hosts, T \in ToSet(Tables) \ {"ip"} :
           /\ DOMAIN D.hosts[a].tables[T] = 0..PortLimit - 1
           /\ Cardinality(DOMAIN D.hosts[a].tables[T]) = PortLimit
<1>1. PICK a \in DOMAIN D.hosts, T \in ToSet(Tables) :
        ~(Cardinality(DOMAIN D.hosts[a].tables[T]) < KeyLimit(T))
  BY SoundItems
<1> DEFINE f == D.hosts[a].tables[T]
<1>2. ProperTable(T, f)
  BY DEF GoodDb, Proper
<1>3. ~(Cardinality(DOMAIN f) < KeyLimit(T))
  BY <1>1
<1> HIDE DEF f
<1>4. T # "ip"
  BY <1>2, <1>3, ProtocolsFew DEF KeyLimit
<1> DEFINE S == 0..PortLimit - 1
<1>5. PortLimit \in Nat /\ PortLimit > 0
  BY DbAssumption
<1>6. IsFiniteSet(S) /\ Cardinality(S) = PortLimit
  BY <1>5, FS_Interval
<1>7. DOMAIN f \subseteq S /\ IsFiniteSet(DOMAIN f)
  BY <1>2, <1>4 DEF ProperTable, ProperKeys, IsTable
<1> HIDE DEF S
<1>8. /\ Cardinality(DOMAIN f) <= Cardinality(S) /\ Cardinality(DOMAIN f) \in Nat
      /\ Cardinality(S) = Cardinality(DOMAIN f) => S = DOMAIN f
  BY <1>6, <1>7, FS_Subset, FS_CardinalityType
<1>9. Cardinality(DOMAIN f) = PortLimit /\ DOMAIN f = S
  BY <1>3, <1>4, <1>5, <1>6, <1>8 DEF KeyLimit
<1> QED BY <1>4, <1>9 DEF f, S

(***************************************************************************)
(* The tables of the running program.                                      *)
(***************************************************************************)
(* A host is replaced by one with small subtables.                       *)
LEMMA SmallReplaced ==
  ASSUME NEW H, NEW m, IsDb(H), Small(H, m), NEW a \in DOMAIN H, NEW h, IsHost(h),
         \A T \in ToSet(Tables) : SmallTable(T, h.tables[T], m)
  PROVE  IsDb([H EXCEPT ![a] = h]) /\ Small([H EXCEPT ![a] = h], m)
<1> DEFINE G == [H EXCEPT ![a] = h]
<1>1. /\ DOMAIN G = DOMAIN H /\ G[a] = h
      /\ \A b \in DOMAIN H : b # a => G[b] = H[b]
      /\ G = [b \in DOMAIN G |-> G[b]]
  OBVIOUS
<1> HIDE DEF G
<1>2. IsDb(G)
  <2>1. IsFiniteSet(DOMAIN H) /\ \A b \in DOMAIN H : IsHost(H[b])
    BY DEF IsDb
  <2> QED BY <1>1, <2>1 DEF IsDb
<1>3. ASSUME NEW b \in DOMAIN G, NEW T \in ToSet(Tables)
      PROVE  SmallTable(T, G[b].tables[T], m)
  <2>1. CASE b = a
    BY <2>1, <1>1
  <2>2. CASE b # a
    BY <2>2, <1>1 DEF Small
  <2> QED BY <2>1, <2>2
<1> QED BY <1>2, <1>3 DEF G, Small

(* The empty database.                                                   *)
LEMMA EmptyDb ==
  IsDb(None) /\ Proper(None) /\ \A m : Small(None, m) /\ \A D : Within(D, None, m)
<1>1. DOMAIN None = {} /\ IsFiniteSet(DOMAIN None) /\ None = [k \in DOMAIN None |-> None[k]]
  BY NewHosts DEF IsTable
<1> QED BY <1>1 DEF IsDb, Proper, Small, Within

(* host_get adds a host whose subtables are empty.                       *)
LEMMA SmallGet ==
  ASSUME NEW H, NEW m \in Nat, IsDb(H), Small(H, m), NEW a
  PROVE  IsDb(host_get(H, a)) /\ Small(host_get(H, a), m) /\ a \in DOMAIN host_get(H, a)
<1>1. CASE a \in DOMAIN H
  BY <1>1 DEF host_get
<1>2. CASE a \notin DOMAIN H
  <2> DEFINE G == Put(H, a, NewHost)
  <2>1. host_get(H, a) = G
    BY <1>2 DEF host_get
  <2>2. /\ DOMAIN G = DOMAIN H \cup {a} /\ G[a] = NewHost
        /\ \A b \in DOMAIN H : b # a => G[b] = H[b]
        /\ G = [l \in DOMAIN G |-> G[l]]
        /\ IsFiniteSet(DOMAIN H) => IsFiniteSet(DOMAIN G)
    BY PutShape, Zenon
  <2> HIDE DEF G
  <2>3. IsFiniteSet(DOMAIN H) /\ \A b \in DOMAIN H : IsHost(H[b]) /\ b # a
    BY <1>2 DEF IsDb
  <2>4. IsDb(G)
    BY <2>2, <2>3, NewHosts DEF IsDb
  <2>5. Small(G, m)
    BY <2>2, <2>3, NewHosts, NoPart DEF Small
  <2> QED BY <2>1, <2>2, <2>4, <2>5
<1> QED BY <1>1, <1>2

(* A subtable of a host is replaced by a small one.                      *)
LEMMA SmallAfter ==
  ASSUME NEW h, NEW m, IsHost(h), \A S \in ToSet(Tables) : SmallTable(S, h.tables[S], m),
         NEW T \in ToSet(Tables), NEW p, SmallTable(T, p, m)
  PROVE  LET tb == [h.tables EXCEPT ![T] = p]
         IN  IsTables(tb) /\ \A S \in ToSet(Tables) : SmallTable(S, tb[S], m)
<1> DEFINE tb == [h.tables EXCEPT ![T] = p]
<1>1. h.tables = [S \in ToSet(Tables) |-> h.tables[S]]
      /\ \A S \in ToSet(Tables) : IsTable(h.tables[S])
  BY DEF IsHost
<1>2. /\ tb = [S \in ToSet(Tables) |-> tb[S]] /\ tb[T] = p
      /\ \A S \in ToSet(Tables) : S # T => tb[S] = h.tables[S]
  BY <1>1
<1> HIDE DEF tb
<1>3. IsTables(tb)
  <2>1. IsTable(p)
    BY DEF SmallTable, ProperTable
  <2>2. \A S \in ToSet(Tables) : IsTable(tb[S])
    BY <2>1, <1>1, <1>2
  <2> QED BY <2>2, <1>2 DEF IsTables
<1>4. \A S \in ToSet(Tables) : SmallTable(S, tb[S], m)
  BY <1>2
<1> QED BY <1>3, <1>4 DEF tb

(* A subtable that is full has more than it is to keep: hashtable_reduce *)
(* does not abort, unless it is of ports, and --ports-max is 0.          *)
LEMMA NoAbort ==
  ASSUME ports_max \in Nat, NEW T, T = "ip" \/ ports_max # 0,
         NEW f, SmallTable(T, f, ports_max), NEW k
  PROVE  ~ReduceAborts(T, f, k)
<1> DEFINE n == Cardinality(DOMAIN f)
<1>1. n \in Nat
  BY FS_CardinalityType DEF SmallTable, ProperTable, IsTable
<1>2. CASE T = "ip"
  <2>1. n < ProtoLimit
    BY <1>2, ProtocolsFew DEF SmallTable
  <2>2. count_max(T) = 2 * ProtoLimit /\ ProtoLimit \in Nat
    BY <1>2, DbAssumption DEF count_max
  <2> HIDE DEF n
  <2>3. ~(n >= count_max(T))
    BY <1>1, <2>1, <2>2
  <2> QED BY <2>3 DEF ReduceAborts, Full, n
<1>3. CASE T # "ip"
  <2>1. count_max(T) = ports_max /\ count_keep(T) = ports_keep
    BY <1>3 DEF count_max, count_keep
  <2>2. ports_keep \in Nat /\ ports_keep < ports_max
    BY <1>3, KeepType
  <2> HIDE DEF n
  <2>3. n >= count_max(T) => count_keep(T) < n
    BY <1>1, <2>1, <2>2
  <2> QED BY <2>3 DEF ReduceAborts, Full, n
<1> QED BY <1>2, <1>3

(* acct_for leaves a subtable within its limit.                          *)
LEMMA AccountFits ==
  ASSUME ports_max \in Nat, NEW T, T = "ip" \/ ports_max # 0,
         NEW f, SmallTable(T, f, ports_max), NEW k \in ProperKeys(T), NEW n \in Nat
  PROVE  SmallTable(T, find_or_insert(T, f, k, n), ports_max)
<1> DEFINE p == find_or_insert(T, f, k, n)
<1>1. /\ IsTable(f) /\ DOMAIN f \subseteq ProperKeys(T) /\ \A l \in DOMAIN f : f[l] \in Nat
      /\ T # "ip" => Cardinality(DOMAIN f) <= ports_max
  BY DEF SmallTable, ProperTable
<1>2. ~ReduceAborts(T, f, k)
  BY NoAbort
<1>3. /\ IsTable(p) /\ p[k] = n /\ DOMAIN p \subseteq DOMAIN f \cup {k}
      /\ \A l \in DOMAIN p : l # k => p[l] = f[l]
      /\ T # "ip" => Cardinality(DOMAIN p) <= ports_max
  BY <1>1, <1>2, Inserted
<1> HIDE DEF p
<1>4. DOMAIN p \subseteq ProperKeys(T)
  BY <1>1, <1>3
<1>5. ASSUME NEW l \in DOMAIN p PROVE p[l] \in Nat
  <2>1. CASE l = k
    BY <2>1, <1>3
  <2>2. CASE l # k
    BY <2>2, <1>1, <1>3
  <2> QED BY <2>1, <2>2
<1>6. SmallTable(T, p, ports_max)
  BY <1>3, <1>4, <1>5 DEF SmallTable, ProperTable
<1> QED BY <1>6 DEF p

(* acct_for stores the subtable, and the bytes and time of the host.     *)
LEMMA SmallAccounted ==
  ASSUME NEW H, NEW m, IsDb(H), Small(H, m), NEW a \in DOMAIN H, NEW t \in ToSet(Tables),
         NEW p, SmallTable(t, p, m), NEW n, NEW s \in Int
  PROVE  LET G == [H EXCEPT ![a].bytes = n, ![a].last_seen = s, ![a].tables[t] = p]
         IN  IsDb(G) /\ Small(G, m)
<1> DEFINE c == H[a]
           tb == [c.tables EXCEPT ![t] = p]
           g1 == WithBytes(c, n)
           g2 == WithSeen(g1, s)
           g  == WithTables(g2, tb)
           G  == [H EXCEPT ![a].bytes = n, ![a].last_seen = s, ![a].tables[t] = p]
<1>1. IsHost(c) /\ \A S \in ToSet(Tables) : SmallTable(S, c.tables[S], m)
  BY DEF IsDb, Small
<1> HIDE DEF c
<1>4. IsTables(tb) /\ \A S \in ToSet(Tables) : SmallTable(S, tb[S], m)
  BY <1>1, SmallAfter
<1>5. IsHost(g1) /\ g1.tables = c.tables
  BY <1>1, HostWith
<1> HIDE DEF g1
<1>6. IsHost(g2) /\ g2.tables = c.tables
  BY <1>5, HostWith
<1> HIDE DEF g2, tb
<1>7. IsHost(g) /\ g.tables = tb
  BY <1>4, <1>6, HostWith
<1>8. G = [H EXCEPT ![a] = g]
  <2>1. H[a] = [last_seen |-> c.last_seen, name |-> c.name, bytes |-> c.bytes,
                tables |-> c.tables]
    BY <1>1 DEF IsHost, c
  <2> QED BY <2>1 DEF WithBytes, WithSeen, WithTables, g1, g2, tb, c
<1> HIDE DEF g
<1>9. IsDb([H EXCEPT ![a] = g]) /\ Small([H EXCEPT ![a] = g], m)
  BY <1>4, <1>7, SmallReplaced
<1> QED BY <1>8, <1>9

(* dns_poll does not touch the subtables.                                *)
LEMMA SmallNamed ==
  ASSUME NEW H, NEW m, IsDb(H), Small(H, m), NEW a \in DOMAIN H, NEW n
  PROVE  LET G == [H EXCEPT ![a].name = n] IN IsDb(G) /\ Small(G, m)
<1> DEFINE c == H[a]
           g == WithName(c, n)
<1>1. IsHost(c) /\ \A S \in ToSet(Tables) : SmallTable(S, c.tables[S], m)
  BY DEF IsDb, Small
<1> HIDE DEF c
<1>2. IsHost(g) /\ g.tables = c.tables
  BY <1>1, HostWith
<1>3. [H EXCEPT ![a].name = n] = [H EXCEPT ![a] = g]
  BY DEF WithName, c
<1> HIDE DEF g
<1>4. IsDb([H EXCEPT ![a] = g]) /\ Small([H EXCEPT ![a] = g], m)
  BY <1>1, <1>2, SmallReplaced
<1> QED BY <1>3, <1>4

(***************************************************************************)
(* The inductive invariant, for the database D that the file is meant to   *)
(* hold.                                                                   *)
(***************************************************************************)
InvOf(D) ==
  /\ offset \in Int /\ ports_max \in 0..PortLimit /\ DOMAIN graph = {"last", "bars"}
  /\ GoodDb(D) /\ FileOK(D)
  /\ phase = "down" => hosts = None /\ at = 1
  /\ phase \in {"run", "export"} => IsDb(hosts) /\ Small(hosts, ports_max)
  /\ phase = "export" => OutOK(D) /\ D.hosts = Real(hosts)
  /\ phase = "import" => Stuck \/ OnTrack(D)
  /\ phase = "imported" =>
       /\ Within(D, hosts, ports_max)
       /\ SameHosts(Real(hosts), D.hosts, D.version, ports_max)
       /\ graph.last = D.graph.last
  /\ phase = "failed" => hosts = None /\ graph = NoGraph

DbInv == \E D \in {exported} : InvOf(D)

(* The invariant is about the database exported.                         *)
LEMMA InvNow ==
  ASSUME NEW D, D = exported
  PROVE  DbInv <=> InvOf(D)
BY DEF DbInv

(* Also in the next state.                                               *)
LEMMA InvNext ==
  ASSUME NEW D, D = exported', InvOf(D)'
  PROVE  DbInv'
BY DEF DbInv

(* In the file of an earlier version, the host has proper subtables, and *)
(* none that the version does not know.                                  *)
LEMMA OldFileHosts ==
  ASSUME NEW a
  PROVE  LET H == Put(None, a, OldHost)
         IN  /\ IsDb(H) /\ Proper(H)
             /\ \A b \in DOMAIN H : \A T \in {"tcp_remote", "udp_remote"} :
                  H[b].tables[T] = None
<1> DEFINE p == Put(None, 0, 1)
           q == Put(None, 1, 1)
           tp == [NewHost.tables EXCEPT !["ip"] = p]
           tq == [tp EXCEPT !["tcp"] = q]
           g == WithBytes(NewHost, 1)
           gp == WithTables(g, tp)
           h == WithTables(gp, tq)
           H == Put(None, a, OldHost)
<1>0. {"ip", "tcp", "tcp_remote", "udp_remote"} \subseteq ToSet(Tables)
  <2>1. 1 \in 1..5 /\ 2 \in 1..5 /\ 4 \in 1..5 /\ 5 \in 1..5
    OBVIOUS
  <2> QED BY <2>1, TablesFacts
<1>1. SmallTable("ip", p, 1) /\ SmallTable("tcp", q, 1)
  <2> DEFINE one(k) == Put(None, k, 1)
  <2>1. ASSUME NEW k PROVE DOMAIN one(k) = {k} /\ one(k)[k] = 1 /\ IsTable(one(k))
    <3>1. /\ DOMAIN one(k) = DOMAIN None \cup {k} /\ one(k)[k] = 1
          /\ \A l \in DOMAIN None : l # k => one(k)[l] = None[l]
          /\ one(k) = [l \in DOMAIN one(k) |-> one(k)[l]]
          /\ IsFiniteSet(DOMAIN None) => IsFiniteSet(DOMAIN one(k))
      BY PutShape, Zenon
    <3> HIDE DEF one
    <3> QED BY <3>1, NewHosts DEF IsTable
  <2>2. p = one(0) /\ q = one(1)
    OBVIOUS
  <2> HIDE DEF p, q, one
  <2>3. 0 \in ProperKeys("ip") /\ 1 \in ProperKeys("tcp")
    BY DbAssumption DEF ProperKeys
  <2>4. Cardinality({1}) = 1
    BY FS_Singleton
  <2>7. /\ DOMAIN p = {0} /\ p[0] = 1 /\ IsTable(p)
        /\ DOMAIN q = {1} /\ q[1] = 1 /\ IsTable(q)
    BY <2>1, <2>2
  <2>5. ProperTable("ip", p)
    <3> USE DEF ProperTable
    <3> QED BY <2>3, <2>7, SMT
  <2>6. ProperTable("tcp", q)
    <3> USE DEF ProperTable
    <3> QED BY <2>3, <2>7, SMT
  <2> QED BY <2>1, <2>2, <2>4, <2>5, <2>6 DEF SmallTable
<1>2. IsHost(NewHost) /\ \A S \in ToSet(Tables) : SmallTable(S, NewHost.tables[S], 1)
  BY NewHosts, NoPart
<1> HIDE DEF p, q
<1>3. IsTables(tp) /\ \A S \in ToSet(Tables) : SmallTable(S, tp[S], 1)
  BY <1>0, <1>1, <1>2, SmallAfter
<1>4. tp["tcp_remote"] = None /\ tp["udp_remote"] = None
  <2>1. DOMAIN NewHost.tables = ToSet(Tables)
    BY DEF NewHost
  <2> QED BY <2>1, <1>0, NewHosts
<1> HIDE DEF tp
<1>5. IsHost(g)
  BY <1>2, HostWith
<1> HIDE DEF g
<1>6. IsHost(gp) /\ gp.tables = tp
  BY <1>3, <1>5, HostWith
<1> HIDE DEF gp
<1>7. IsTables(tq) /\ \A S \in ToSet(Tables) : SmallTable(S, tq[S], 1)
  <2>1. tq = [gp.tables EXCEPT !["tcp"] = q]
    BY <1>6
  <2>2. \A S \in ToSet(Tables) : SmallTable(S, gp.tables[S], 1)
    BY <1>3, <1>6
  <2> HIDE DEF tq
  <2> QED BY <2>1, <2>2, <1>0, <1>1, <1>6, SmallAfter
<1>8. tq["tcp_remote"] = None /\ tq["udp_remote"] = None
  <2>1. DOMAIN tp = ToSet(Tables)
    BY <1>3 DEF IsTables
  <2> QED BY <2>1, <1>0, <1>4
<1> HIDE DEF tq
<1>9. IsHost(h) /\ h.tables = tq
  BY <1>6, <1>7, HostWith
<1>10. OldHost = h
  BY DEF OldHost, h, gp, g, tq, tp, p, q, WithTables, WithBytes, NewHost
<1>11. /\ DOMAIN H = DOMAIN None \cup {a} /\ H[a] = OldHost
       /\ \A l \in DOMAIN None : l # a => H[l] = None[l]
       /\ H = [l \in DOMAIN H |-> H[l]]
       /\ IsFiniteSet(DOMAIN None) => IsFiniteSet(DOMAIN H)
  BY PutShape, Zenon
<1> HIDE DEF H, h
<1>12. DOMAIN H = {a} /\ H[a] = h /\ IsFiniteSet(DOMAIN H)
  BY <1>10, <1>11, NewHosts DEF IsTable
<1>13. IsDb(H)
  BY <1>9, <1>11, <1>12 DEF IsDb
<1>14. Proper(H)
  BY <1>7, <1>9, <1>12 DEF Proper, SmallTable
<1>15. \A b \in DOMAIN H : \A T \in {"tcp_remote", "udp_remote"} : H[b].tables[T] = None
  BY <1>8, <1>9, <1>12
<1> QED BY <1>13, <1>14, <1>15 DEF H

(* The program starts with no file, or with one of an earlier version.   *)
LEMMA InvInit ==
  Init => DbInv
<1> SUFFICES ASSUME Init, NEW D, D = exported PROVE InvOf(D)
  BY InvNow
<1>1. /\ offset \in Int /\ phase = "down" /\ hosts = None /\ graph = NoGraph /\ at = 1
      /\ ports_max \in 0..PortLimit
  BY DbAssumption DEF Init
<1>2. DOMAIN graph = {"last", "bars"}
  BY <1>1 DEF NoGraph
<1>3. CASE file = <<>> /\ exported = Database(4, None, NoGraph)
  <2>1. GoodDb(D)
    BY <1>1, <1>3, EmptyDb, GoodExport
  <2>2. Sequence(Items(D)) /\ Sequence(file) /\ Len(file) = 0
    BY <1>3, <2>1, Shape, ShortSeqs, SeqShape
  <2>3. FileOK(D)
    BY <2>2, SeqShape DEF FileOK
  <2> QED BY <1>1, <1>2, <2>1, <2>3 DEF InvOf
<1>4. CASE \E v \in OldVersions, a \in Addr :
             LET H == Put(None, a, OldHost)
             IN  file = Export_db(v, H, NoGraph) /\ exported = Database(v, H, NoGraph)
  <2>1. PICK v \in OldVersions, a \in Addr :
          LET H == Put(None, a, OldHost)
          IN  file = Export_db(v, H, NoGraph) /\ exported = Database(v, H, NoGraph)
    BY <1>4
  <2> DEFINE H == Put(None, a, OldHost)
  <2>2. v \in 1..4
    BY DbAssumption
  <2>3. /\ IsDb(H) /\ Proper(H)
        /\ \A b \in DOMAIN H : \A T \in {"tcp_remote", "udp_remote"} :
             H[b].tables[T] = None
    BY OldFileHosts, Zenon
  <2>4. file = Export_db(v, H, NoGraph) /\ D = Database(v, H, NoGraph)
    BY <2>1
  <2> HIDE DEF H
  <2>5. GoodDb(D)
    BY <1>1, <2>2, <2>3, <2>4, GoodExport
  <2>6. file = Items(D)
    BY <1>1, <2>2, <2>3, <2>4, ExportedItems
  <2>7. FileOK(D)
    <3>1. Sequence(file) /\ Len(file) \in Nat
      BY <2>5, <2>6, Shape, SeqShape
    <3> QED BY <3>1, <2>6 DEF FileOK
  <2> QED BY <1>1, <1>2, <2>5, <2>7 DEF InvOf
<1> QED BY <1>3, <1>4 DEF Init

(* Traffic is counted, without an abort, and leaves small subtables.     *)
LEMMA AccountRuns ==
  ASSUME IsDb(hosts), ports_max \in Nat, Small(hosts, ports_max), offset \in Int,
         NEW t \in Traffic, NEW time \in Times, account(t[1], t[2], t[3], time)
  PROVE  phase' = "run" /\ IsDb(hosts') /\ Small(hosts', ports_max)
<1> DEFINE a == t[1]
           T == t[2]
           k == t[3]
           H == host_get(hosts, a)
           f == H[a].tables[T]
           n == (IF k \in DOMAIN f THEN f[k] ELSE 0) + 1
           counted == IF T = "ip" THEN k # IPPROTO_INVALID ELSE ports_max # 0
           p == IF counted THEN find_or_insert(T, f, k, n) ELSE f
           b == H[a].bytes + 1
           s == real_to_mono(time)
<1>1. /\ phase = "run"
      /\ phase' = IF counted /\ ReduceAborts(T, f, k) THEN "aborted" ELSE phase
      /\ hosts' = [H EXCEPT ![a].bytes = b, ![a].last_seen = s, ![a].tables[T] = p]
  BY DEF account
<1>2. T \in ToSet(Tables) /\ k \in 0..KeyLimit(T) - 1 /\ s \in Int
  BY DbAssumption DEF real_to_mono
<1>3. IsDb(H) /\ Small(H, ports_max) /\ a \in DOMAIN H
  BY SmallGet
<1> HIDE DEF H
<1>4. SmallTable(T, f, ports_max)
  BY <1>2, <1>3 DEF Small
<1>5. n \in Nat
  <2> HIDE DEF f
  <2> QED BY <1>4 DEF SmallTable, ProperTable
<1>6. ASSUME counted
      PROVE  /\ k \in ProperKeys(T) /\ (T = "ip" \/ ports_max # 0)
             /\ ~ReduceAborts(T, f, k)
  <2>1. k \in ProperKeys(T) /\ (T = "ip" \/ ports_max # 0)
    BY <1>2, <1>6 DEF ProperKeys, KeyLimit
  <2> HIDE DEF f
  <2> QED BY <2>1, <1>4, NoAbort
<1>7. SmallTable(T, p, ports_max)
  <2>1. CASE counted
    <3>1. p = find_or_insert(T, f, k, n)
      BY <2>1
    <3> HIDE DEF p, f, n, k
    <3> QED BY <3>1, <2>1, <1>4, <1>5, <1>6, AccountFits
  <2>2. CASE ~counted
    <3>1. p = f
      BY <2>2
    <3> QED BY <3>1, <1>4
  <2> QED BY <2>1, <2>2
<1> HIDE DEF p, f, b, s, n
<1>8. phase' = "run"
  BY <1>1, <1>6
<1>9. IsDb(hosts') /\ Small(hosts', ports_max)
  <2> HIDE DEF a, T, k
  <2> QED BY <1>1, <1>2, <1>3, <1>7, SmallAccounted
<1> QED BY <1>8, <1>9

(* Traffic.                                                              *)
LEMMA InvAccount ==
  ASSUME NEW D, InvOf(D), NEW t \in Traffic, NEW time \in Times,
         account(t[1], t[2], t[3], time)
  PROVE  phase' = "run" /\ InvOf(D)'
<1>1. /\ phase = "run" /\ offset' = offset
      /\ ports_max' = ports_max /\ file' = file
      /\ graph' = [last |-> time, bars |-> graph.bars + 1]
  BY DEF account
<1>2. IsDb(hosts) /\ Small(hosts, ports_max) /\ offset \in Int /\ GoodDb(D)
      /\ FileOK(D) /\ ports_max \in 0..PortLimit /\ ports_max \in Nat
  BY <1>1, DbAssumption DEF InvOf
<1>3. phase' = "run" /\ IsDb(hosts') /\ Small(hosts', ports_max)
  BY <1>2, AccountRuns
<1>4. DOMAIN graph' = {"last", "bars"}
  BY <1>1
<1>5. FileOK(D)'
  BY <1>1, <1>2 DEF FileOK
<1> QED BY <1>1, <1>2, <1>3, <1>4, <1>5 DEF InvOf

(* A host gets its name.                                                 *)
LEMMA InvName ==
  ASSUME NEW D, InvOf(D), NEW a, NEW n, dns_poll(a, n)
  PROVE  InvOf(D)'
<1>1. /\ phase = "run" /\ phase' = "run" /\ offset' = offset
      /\ ports_max' = ports_max /\ file' = file
      /\ graph' = graph /\ a \in DOMAIN hosts /\ hosts' = [hosts EXCEPT ![a].name = n]
  BY DEF dns_poll
<1>2. IsDb(hosts) /\ Small(hosts, ports_max) /\ offset \in Int /\ GoodDb(D)
      /\ ports_max \in 0..PortLimit /\ FileOK(D) /\ DOMAIN graph = {"last", "bars"}
  BY <1>1 DEF InvOf
<1>3. IsDb(hosts') /\ Small(hosts', ports_max)
  BY <1>1, <1>2, SmallNamed
<1>4. FileOK(D)'
  BY <1>1, <1>2 DEF FileOK
<1> QED BY <1>1, <1>2, <1>3, <1>4 DEF InvOf

(* The hosts stay the same in real time, too.                            *)
LEMMA RealKept ==
  ASSUME hosts' = hosts, offset' = offset
  PROVE  Real(hosts)' = Real(hosts)
BY DEF Real, mono_to_real

(* db_export truncates the file, and has it all to write.                *)
LEMMA InvExport ==
  ASSUME DbInv, db_export
  PROVE  DbInv'
<1> SUFFICES ASSUME NEW D, D = exported' PROVE InvOf(D)'
  BY InvNext
<1>1. /\ phase = "run" /\ phase' = "export" /\ offset' = offset
      /\ ports_max' = ports_max /\ file' = <<>>
      /\ graph' = graph /\ hosts' = hosts /\ out' = Export_db(4, hosts, graph)
      /\ D = Database(4, hosts, graph)
  BY DEF db_export
<1>2. /\ IsDb(hosts) /\ Small(hosts, ports_max) /\ offset \in Int
      /\ ports_max \in 0..PortLimit /\ DOMAIN graph = {"last", "bars"}
  BY <1>1 DEF DbInv, InvOf
<1>3. GoodDb(D) /\ out' = Items(D) /\ D.hosts = Real(hosts)
  <2>1. Proper(hosts)
    BY <1>2 DEF Small, SmallTable, Proper
  <2>2. D.hosts = Real(hosts)
    BY <1>1 DEF Database
  <2> QED BY <2>1, <2>2, <1>1, <1>2, GoodExport, ExportedItems
<1>8. Real(hosts)' = Real(hosts)
  BY <1>1, RealKept
<1>4. Sequence(Items(D)) /\ Len(Items(D)) \in Nat
  BY <1>3, Shape, SeqShape
<1>5. Sequence(file') /\ Len(file') = 0
  BY <1>1, ShortSeqs, SeqShape
<1>6. FileOK(D)'
  BY <1>4, <1>5 DEF FileOK
<1>7. OutOK(D)'
  BY <1>3, <1>4, <1>5 DEF OutOK
<1> QED BY <1>1, <1>2, <1>3, <1>6, <1>7, <1>8 DEF InvOf

(* What Append makes of a sequence.                                      *)
LEMMA AppendShape ==
  ASSUME NEW s, Sequence(s), NEW x
  PROVE  /\ Sequence(Append(s, x)) /\ Len(Append(s, x)) = Len(s) + 1
         /\ Append(s, x)[Len(s) + 1] = x
         /\ \A i \in 1..Len(s) : Append(s, x)[i] = s[i]
<1>1. PICK S : s \in Seq(S)
  BY DEF Sequence
<1> DEFINE U == S \cup {x}
<1>2. s \in Seq(U) /\ x \in U
  BY <1>1, Widen
<1> HIDE DEF U
<1>3. Append(s, x) \in Seq(U)
  BY <1>2
<1> QED BY <1>2, <1>3 DEF Sequence

(* The next item to write is the one that the file lacks.                *)
LEMMA NextToWrite ==
  ASSUME NEW D, GoodDb(D), FileOK(D), OutOK(D), out # <<>>
  PROVE  /\ Sequence(file) /\ Len(file) + 1 \in 1..Len(Items(D)) /\ Len(file) \in Nat
         /\ Head(out) = Items(D)[Len(file) + 1]
         /\ Sequence(Tail(out)) /\ Len(Tail(out)) = Len(out) - 1 /\ Len(out) \in Nat
         /\ \A r \in 1..(Len(out) - 1) : Tail(out)[r] = Items(D)[(Len(file) + 1) + r]
<1> DEFINE m == Len(file)
           n == Len(out)
           I == Items(D)
<1>1. Sequence(file) /\ Sequence(out) /\ m \in Nat /\ n \in Nat /\ n # 0
      /\ m + n = Len(I) /\ \A r \in 1..n : out[r] = I[m + r]
  BY SeqShape DEF FileOK, OutOK
<1>2. /\ Head(out) = out[1] /\ Sequence(Tail(out)) /\ Len(Tail(out)) = n - 1
      /\ \A r \in 1..(n - 1) : Tail(out)[r] = out[r + 1]
  BY <1>1, HeadAndTail
<1> HIDE DEF m, n, I
<1>3. \A r \in 1..(n - 1) : r + 1 \in 1..n /\ m + (r + 1) = (m + 1) + r
  BY <1>1
<1>4. 1 \in 1..n /\ m + 1 \in 1..Len(I)
  BY <1>1
<1> QED BY <1>1, <1>2, <1>3, <1>4 DEF m, n, I

(* An item is written, or the program aborts.                            *)
LEMMA InvWriten ==
  ASSUME NEW D, InvOf(D), writen
  PROVE  InvOf(D)'
<1>1. /\ phase = "export" /\ out # <<>> /\ offset' = offset
      /\ ports_max' = ports_max /\ graph' = graph
      /\ hosts' = hosts
  BY DEF writen
<1>2. IsDb(hosts) /\ Small(hosts, ports_max) /\ offset \in Int /\ GoodDb(D)
      /\ ports_max \in 0..PortLimit /\ FileOK(D) /\ OutOK(D)
      /\ DOMAIN graph = {"last", "bars"} /\ D.hosts = Real(hosts)
  BY <1>1 DEF InvOf
<1>8. Real(hosts)' = Real(hosts)
  BY <1>1, RealKept
<1>3. CASE ~Assertion(Head(out))
  <2>1. phase' = "aborted" /\ file' = file
    BY <1>3 DEF writen
  <2>2. FileOK(D)'
    BY <2>1, <1>2 DEF FileOK
  <2> QED BY <2>1, <2>2, <1>1, <1>2 DEF InvOf
<1>4. CASE Assertion(Head(out))
  <2>1. phase' = "export" /\ file' = Append(file, Head(out)) /\ out' = Tail(out)
    BY <1>1, <1>4 DEF writen
  <2> DEFINE m == Len(file)
             I == Items(D)
  <2>2. /\ Sequence(file) /\ m + 1 \in 1..Len(I) /\ m \in Nat
        /\ Head(out) = I[m + 1]
        /\ Sequence(Tail(out)) /\ Len(Tail(out)) = Len(out) - 1 /\ Len(out) \in Nat
        /\ \A r \in 1..(Len(out) - 1) : Tail(out)[r] = I[(m + 1) + r]
    BY <1>1, <1>2, NextToWrite
  <2>3. /\ Sequence(file') /\ Len(file') = m + 1 /\ file'[m + 1] = Head(out)
        /\ \A i \in 1..m : file'[i] = file[i]
    BY <2>1, <2>2, AppendShape
  <2>4. m + Len(out) = Len(I) /\ \A p \in 1..m : file[p] = I[p]
    BY <1>1, <1>2 DEF OutOK
  <2> HIDE DEF m, I
  <2>5. \A p \in 1..Len(file') : file'[p] = I[p]
    <3>1. \A p \in 1..(m + 1) : p \in 1..m \/ p = m + 1
      BY <2>2
    <3> QED BY <3>1, <2>2, <2>3, <2>4
  <2>6. FileOK(D)'
    BY <2>2, <2>3, <2>5 DEF FileOK, I
  <2>7. OutOK(D)'
    <3>1. Len(file') + Len(out') = Len(I)
      <4>1. Len(file') = m + 1 /\ Len(out') = Len(out) - 1 /\ m + Len(out) = Len(I)
        BY <2>1, <2>2, <2>3, <2>4
      <4>2. m \in Nat /\ Len(out) \in Nat
        BY <2>2
      <4> HIDE DEF I
      <4> QED BY <4>1, <4>2
    <3>2. \A r \in 1..Len(out') : out'[r] = I[Len(file') + r]
      BY <2>1, <2>2, <2>3
    <3> QED BY <3>1, <3>2, <2>1, <2>2, <2>5 DEF OutOK, I
  <2> QED BY <2>1, <2>6, <2>7, <1>1, <1>2, <1>8 DEF InvOf
<1> QED BY <1>3, <1>4

(* A write comes short, and leaves a torn item or none.                  *)
LEMMA InvShort ==
  ASSUME NEW D, InvOf(D), writen_short
  PROVE  InvOf(D)'
<1>1. /\ phase = "export" /\ phase' = "export" /\ out # <<>> /\ offset' = offset
      /\ ports_max' = ports_max
      /\ graph' = graph /\ hosts' = hosts /\ out' = <<>>
      /\ file' = file \/ file' = Append(file, Item("torn", Head(out).kind))
  BY DEF writen_short
<1>2. IsDb(hosts) /\ Small(hosts, ports_max) /\ offset \in Int /\ GoodDb(D)
      /\ ports_max \in 0..PortLimit /\ FileOK(D) /\ OutOK(D)
      /\ DOMAIN graph = {"last", "bars"} /\ D.hosts = Real(hosts)
  BY <1>1 DEF InvOf
<1>8. Real(hosts)' = Real(hosts)
  BY <1>1, RealKept
<1>3. OutOK(D)'
  BY <1>1, ShortSeqs DEF OutOK
<1>4. FileOK(D)'
  <2> DEFINE m == Len(file)
             I == Items(D)
  <2>1. /\ Sequence(file) /\ m + 1 \in 1..Len(I) /\ m \in Nat
        /\ Head(out) = I[m + 1]
    BY <1>1, <1>2, NextToWrite
  <2>2. CASE file' = file
    BY <2>2, <1>2 DEF FileOK
  <2>3. CASE file' = Append(file, Item("torn", Head(out).kind))
    <3>1. /\ Sequence(file') /\ Len(file') = m + 1
          /\ file'[m + 1] = Item("torn", I[m + 1].kind)
          /\ \A i \in 1..m : file'[i] = file[i]
      BY <2>1, <2>3, AppendShape
    <3>2. \A p \in 1..m : file[p] = I[p]
      BY <1>1, <1>2 DEF OutOK
    <3> HIDE DEF m, I
    <3>3. \A p \in 1..(m + 1) : p \in 1..m \/ p = m + 1
      BY <2>1
    <3> QED BY <3>1, <3>2, <3>3, <2>1 DEF FileOK, I
  <2> QED BY <1>1, <2>2, <2>3
<1> QED BY <1>1, <1>2, <1>3, <1>4, <1>8 DEF InvOf

(* A file that is not written to stays as it is.                         *)
LEMMA FileKept ==
  ASSUME NEW D, FileOK(D), file' = file
  PROVE  FileOK(D)'
BY DEF FileOK

(* The export is over, and the program runs on.                          *)
LEMMA InvExportDone ==
  ASSUME NEW D, InvOf(D), db_export_done
  PROVE  InvOf(D)'
<1>1. /\ phase = "export" /\ phase' = "run" /\ offset' = offset
      /\ ports_max' = ports_max /\ file' = file
      /\ graph' = graph /\ hosts' = hosts
  BY DEF db_export_done
<1>2. FileOK(D)'
  BY <1>1, FileKept DEF InvOf
<1> QED BY <1>1, <1>2 DEF InvOf

(* The program ends, or is killed.                                       *)
LEMMA InvExit ==
  ASSUME NEW D, InvOf(D), exit
  PROVE  InvOf(D)'
<1>1. /\ phase' = "down" /\ offset' = offset
      /\ ports_max' = 0 /\ file' = file
      /\ graph' = NoGraph /\ hosts' = None /\ at' = 1
  BY DEF exit
<1>2. FileOK(D)'
  BY <1>1, FileKept DEF InvOf
<1>3. DOMAIN NoGraph = {"last", "bars"}
  BY DEF NoGraph
<1>4. 0 \in 0..PortLimit
  BY DbAssumption
<1> QED BY <1>1, <1>2, <1>3, <1>4 DEF InvOf

(* It starts, and is to read the header.                                 *)
LEMMA InvStart ==
  ASSUME NEW D, InvOf(D), NEW o \in Offsets, NEW m \in PortsMax, start(o, m)
  PROVE  InvOf(D)'
<1>1. /\ phase = "down" /\ phase' = "import" /\ offset' = o /\ ports_max' = m
      /\ file' = file
      /\ graph' = graph /\ hosts' = hosts /\ at' = at /\ want' = Import_db
  BY DEF start
<1>2. FileOK(D)'
  BY <1>1, FileKept DEF InvOf
<1>3. o \in Int /\ m \in 0..PortLimit
  BY DbAssumption
<1>4. hosts' = None /\ at' = 1 /\ GoodDb(D)
      /\ DOMAIN graph' = {"last", "bars"}
  BY <1>1 DEF InvOf
<1>5. Within(D, hosts, ports_max)'
  BY <1>4, EmptyDb
<1>6. AtHeader(D, 1)'
  BY <1>1, <1>4, GraphWants DEF AtHeader
<1>7. OnTrack(D)'
  <2>1. 1 \in 1..3
    OBVIOUS
  <2> QED BY <2>1, <1>5, <1>6 DEF OnTrack
<1> QED BY <1>1, <1>2, <1>3, <1>4, <1>7 DEF InvOf

(* db_import reads an item.                                              *)
LEMMA InvImportNext ==
  ASSUME NEW D, InvOf(D), import_next
  PROVE  InvOf(D)'
<1>1. phase = "import" /\ phase' = "import" /\ offset' = offset
      /\ ports_max' = ports_max /\ file' = file
  BY DEF import_next
<1>2. /\ offset \in Int /\ ports_max \in 0..PortLimit /\ ports_max \in Nat
      /\ DOMAIN graph = {"last", "bars"}
      /\ GoodDb(D) /\ FileOK(D) /\ (Stuck \/ OnTrack(D))
  BY <1>1, DbAssumption DEF InvOf
<1>3. (Stuck' \/ OnTrack(D)') /\ DOMAIN graph' = {"last", "bars"}
  BY <1>2, ImportKeeps
<1>4. FileOK(D)'
  BY <1>1, <1>2, FileKept
<1> QED BY <1>1, <1>2, <1>3, <1>4 DEF InvOf

(* There is no room for an entry.                                        *)
LEMMA InvImportAborts ==
  ASSUME NEW D, InvOf(D), import_aborts
  PROVE  InvOf(D)'
<1>1. /\ phase' = "aborted" /\ offset' = offset /\ ports_max' = ports_max
      /\ file' = file /\ graph' = graph
  BY DEF import_aborts
<1>2. FileOK(D)'
  BY <1>1, FileKept DEF InvOf
<1> QED BY <1>1, <1>2 DEF InvOf

(* It has read them all. A stuck import never gets here.                 *)
LEMMA InvImported ==
  ASSUME NEW D, InvOf(D), import_done
  PROVE  InvOf(D)'
<1>1. /\ phase = "import" /\ phase' = "imported" /\ offset' = offset
      /\ ports_max' = ports_max /\ file' = file
      /\ want = <<>> /\ hosts' = hosts /\ graph' = graph
  BY DEF import_done
<1>2. /\ offset \in Int /\ ports_max \in 0..PortLimit /\ ports_max \in Nat
      /\ DOMAIN graph = {"last", "bars"}
      /\ GoodDb(D) /\ FileOK(D) /\ (Stuck \/ OnTrack(D))
  BY <1>1, DbAssumption DEF InvOf
<1>3. FileOK(D)'
  BY <1>1, <1>2, FileKept
<1>4. OnTrack(D)
  BY <1>1, <1>2 DEF Stuck
<1>5. ~Unfinished(D)
  <2>1. \A K, V, u : ~Reading(D, K, V, u)
    BY <1>1 DEF Reading
  <2>2. ASSUME NEW q \in 1..3 PROVE ~AtHeader(D, q)
    BY <2>1, <1>2, ReadHeader
  <2>3. ASSUME NEW q \in 4..7 PROVE ~AtGraph(D, q)
    BY <2>1, <1>2, ReadGraph
  <2>4. ASSUME NEW i \in 1..Len(Addrs(D)) PROVE ~AtHost(D, i)
    BY <2>1, <1>2, ReadHost
  <2>5. ASSUME NEW i \in 1..Len(Addrs(D)), NEW q \in 2..FieldCount(D)
        PROVE  ~AtField(D, i, q)
    BY <2>1, <1>2, ReadField, Zenon
  <2>6. ASSUME NEW i \in 1..Len(Addrs(D)), NEW t \in 1..TableCount(D)
        PROVE  ~AtTag(D, i, t)
    BY <2>1, <1>2, ReadTag
  <2>7. ASSUME NEW i \in 1..Len(Addrs(D)), NEW t \in 1..TableCount(D)
        PROVE  ~AtCount(D, i, t)
    BY <2>1, <1>2, ReadCount, Zenon
  <2>8. ASSUME NEW i \in 1..Len(Addrs(D)), NEW t \in 1..TableCount(D),
               NEW r \in 1..Len(Keys(D, i, t))
        PROVE  ~AtEntry(D, i, t, r)
    BY <2>1, <1>2, ReadEntry
  <2> QED BY <2>2, <2>3, <2>4, <2>5, <2>6, <2>7, <2>8, Zenon DEF Unfinished
<1>6. AtGraph(D, 8) /\ Within(D, hosts, ports_max)
  BY <1>2, <1>4, <1>5, Places DEF OnTrack
<1>7. SameHosts(Real(hosts), D.hosts, D.version, ports_max) /\ graph.last = D.graph.last
  BY <1>2, <1>6, AllRead
<1>8. Real(hosts)' = Real(hosts)
  BY <1>1, RealKept
<1>9. /\ Within(D, hosts', ports_max)
      /\ SameHosts(Real(hosts)', D.hosts, D.version, ports_max)
      /\ graph'.last = D.graph.last
  BY <1>1, <1>6, <1>7, <1>8
<1> QED BY <1>1, <1>2, <1>3, <1>9 DEF InvOf

(* It meets an item it cannot read, and empties the database.            *)
LEMMA InvFailed ==
  ASSUME NEW D, InvOf(D), import_fails
  PROVE  InvOf(D)'
<1>1. /\ phase' = "failed" /\ offset' = offset
      /\ ports_max' = ports_max /\ file' = file
      /\ hosts' = None /\ graph' = NoGraph
  BY DEF import_fails
<1>2. FileOK(D)'
  BY <1>1, FileKept DEF InvOf
<1>3. DOMAIN NoGraph = {"last", "bars"}
  BY DEF NoGraph
<1> QED BY <1>1, <1>2, <1>3 DEF InvOf

(* The main loop is entered.                                             *)
LEMMA InvEnter ==
  ASSUME NEW D, InvOf(D), enter_main_loop
  PROVE  InvOf(D)'
<1>1. /\ phase \in {"imported", "failed"} /\ phase' = "run" /\ offset' = offset
      /\ ports_max' = ports_max
      /\ file' = file /\ hosts' = hosts /\ graph' = graph
  BY DEF enter_main_loop
<1>2. FileOK(D)'
  BY <1>1, FileKept DEF InvOf
<1>3. IsDb(hosts) /\ Small(hosts, ports_max)
  <2>1. CASE phase = "imported"
    BY <2>1, SmallWithin DEF InvOf
  <2>2. CASE phase = "failed"
    BY <2>2, EmptyDb DEF InvOf
  <2> QED BY <2>1, <2>2, <1>1
<1> QED BY <1>1, <1>2, <1>3 DEF InvOf

(* Nothing happens.                                                      *)
LEMMA InvStutter ==
  ASSUME NEW D, InvOf(D), UNCHANGED vars
  PROVE  InvOf(D)'
<1>1. /\ phase' = phase /\ offset' = offset
      /\ ports_max' = ports_max /\ hosts' = hosts /\ graph' = graph
      /\ file' = file /\ out' = out /\ want' = want /\ at' = at /\ cur' = cur
  BY DEF vars
<1>2. FileOK(D)'
  BY <1>1, FileKept DEF InvOf
<1>3. OutOK(D)' <=> OutOK(D)
  BY <1>1 DEF OutOK
<1>4. Stuck' <=> Stuck
  BY <1>1 DEF Stuck
<1>5. OnTrack(D)' <=> OnTrack(D)
  BY <1>1 DEF OnTrack, AtHeader, AtGraph, AtHost, AtField, AtTag, AtCount, AtEntry, InHost
<1>6. Real(hosts)' = Real(hosts)
  BY <1>1, RealKept
<1> QED BY <1>1, <1>2, <1>3, <1>4, <1>5, <1>6 DEF InvOf

(* In every reachable state the file is a beginning of the last export,  *)
(* but for a torn item at its end, and an import is at one of the places *)
(* of that file with everything before it in memory, or is stuck at its  *)
(* end.                                                                  *)
THEOREM DbFileInv ==
  Spec => []DbInv
<1>1. Init => DbInv
  BY InvInit
<1>2. DbInv /\ [Next]_vars => DbInv'
  <2> SUFFICES ASSUME DbInv, [Next]_vars, NEW D, D = exported PROVE DbInv'
    OBVIOUS
  <2>0. InvOf(D)
    BY InvNow
  <2>1. CASE db_export
    BY <2>1, InvExport
  <2>2. ASSUME exported' = exported, InvOf(D)' PROVE DbInv'
    BY <2>2, InvNext
  <2>3. ASSUME NEW t \in Traffic, NEW time \in Times, account(t[1], t[2], t[3], time)
        PROVE  DbInv'
    BY <2>0, <2>2, <2>3, InvAccount DEF account
  <2>4. ASSUME NEW a \in Addr, NEW n \in Names, dns_poll(a, n) PROVE DbInv'
    BY <2>0, <2>2, <2>4, InvName DEF dns_poll
  <2>5. CASE writen
    BY <2>0, <2>2, <2>5, InvWriten DEF writen
  <2>6. CASE writen_short
    BY <2>0, <2>2, <2>6, InvShort DEF writen_short
  <2>7. CASE db_export_done
    BY <2>0, <2>2, <2>7, InvExportDone DEF db_export_done
  <2>8. CASE exit
    BY <2>0, <2>2, <2>8, InvExit DEF exit
  <2>9. ASSUME NEW o \in Offsets, NEW m \in PortsMax, start(o, m) PROVE DbInv'
    BY <2>0, <2>2, <2>9, InvStart DEF start
  <2>10. CASE import_next
    BY <2>0, <2>2, <2>10, InvImportNext DEF import_next
  <2>15. CASE import_aborts
    BY <2>0, <2>2, <2>15, InvImportAborts DEF import_aborts
  <2>11. CASE import_done
    BY <2>0, <2>2, <2>11, InvImported DEF import_done
  <2>12. CASE import_fails
    BY <2>0, <2>2, <2>12, InvFailed DEF import_fails
  <2>13. CASE enter_main_loop
    BY <2>0, <2>2, <2>13, InvEnter DEF enter_main_loop
  <2>14. CASE UNCHANGED vars
    BY <2>0, <2>2, <2>14, InvStutter DEF vars
  <2> QED BY <2>1, <2>3, <2>4, <2>5, <2>6, <2>7, <2>8, <2>9, <2>10, <2>11, <2>12,
             <2>13, <2>14, <2>15, Zenon DEF Next
<1> QED BY <1>1, <1>2, PTL DEF Spec

(* hosts_db_import, and those it calls, restore every host, name, time,  *)
(* subtable and counter that the last export meant to write, or fail:    *)
(* whatever the kill or the short write that ended the export, no        *)
(* database that is incomplete is taken for a whole one.  A subtable of  *)
(* ports that is larger than --ports-max is cut down to entries it had.  *)
THEOREM ImportRestores ==
  Spec => []ImportedHostsAreExported
<1>1. DbInv => ImportedHostsAreExported
  BY DEF DbInv, InvOf, ImportedHostsAreExported
<1> QED BY <1>1, DbFileInv, PTL

(* An import that fails leaves nothing of what it read: db_import ends   *)
(* with hosts_db_reset and graph_reset.                                  *)
THEOREM ImportFailsClean ==
  Spec => []FailedImportIsEmpty
<1>1. DbInv => FailedImportIsEmpty
  BY DEF DbInv, InvOf, FailedImportIsEmpty
<1> QED BY <1>1, DbFileInv, PTL

(* An import finds room for every entry, unless --ports-max is 0.        *)
LEMMA ImportHasRoom ==
  ASSUME NEW D, InvOf(D), import_aborts
  PROVE  ports_max = 0 /\ want # <<>>
<1>1. phase = "import" /\ want # <<>>
  BY DEF import_aborts
<1>2. PICK v \in ReadNext : EntryAborts(v)
  BY DEF import_aborts
<1> SUFFICES ASSUME ports_max # 0 PROVE FALSE
  BY <1>1
<1>3. GoodDb(D) /\ (Stuck \/ OnTrack(D)) /\ ports_max \in Nat
  BY <1>1, DbAssumption DEF InvOf
<1>4. OnTrack(D)
  BY <1>2, <1>3 DEF Stuck, ReadNext
<1>5. Within(D, hosts, ports_max) /\ (Unfinished(D) \/ AtGraph(D, 8))
  BY <1>3, <1>4, Places DEF OnTrack
<1>6. ~AtGraph(D, 8)
  BY <1>1, GraphWants DEF AtGraph
<1>7. /\ Head(want) = "entry" /\ Kind(Head(want)) = "entry"
      /\ ReduceAborts(cur[2], hosts[cur[1]].tables[cur[2]], v[1])
  BY <1>2, Kinds DEF EntryAborts
<1>8. \A K, V, u : Reading(D, K, V, u) => K = "entry"
  BY <1>7 DEF Reading
<1>9. PICK i \in 1..Len(Addrs(D)), t \in 1..TableCount(D) :
        \E r \in 1..Len(Keys(D, i, t)) : AtEntry(D, i, t, r)
  <2>1. ASSUME NEW q \in 1..7 PROVE Import_db[q] # "entry"
    <3>1. q = 1 \/ q = 2 \/ q = 3 \/ q = 4 \/ q = 5 \/ q = 6 \/ q = 7
      OBVIOUS
    <3> QED BY <3>1, ImportShape
  <2>2. ASSUME NEW q \in 1..3 PROVE ~AtHeader(D, q)
    <3>1. Import_db[q] # "entry"
      BY <2>1
    <3> QED BY <3>1, <1>3, <1>8, ReadHeader
  <2>3. ASSUME NEW q \in 4..7 PROVE ~AtGraph(D, q)
    <3>1. Import_db[q] # "entry"
      BY <2>1
    <3> QED BY <3>1, <1>3, <1>8, ReadGraph
  <2>4. ASSUME NEW j \in 1..Len(Addrs(D)) PROVE ~AtHost(D, j)
    BY <1>3, <1>8, ReadHost
  <2>5. ASSUME NEW j \in 1..Len(Addrs(D)), NEW q \in 2..FieldCount(D)
        PROVE  ~AtField(D, j, q)
    BY <1>3, <1>8, ReadField
  <2>6. ASSUME NEW j \in 1..Len(Addrs(D)), NEW t \in 1..TableCount(D)
        PROVE  ~AtTag(D, j, t)
    BY <1>3, <1>8, ReadTag
  <2>7. ASSUME NEW j \in 1..Len(Addrs(D)), NEW t \in 1..TableCount(D)
        PROVE  ~AtCount(D, j, t)
    BY <1>3, <1>8, ReadCount
  <2> QED BY <2>2, <2>3, <2>4, <2>5, <2>6, <2>7, <1>5, <1>6, Zenon DEF Unfinished
<1> DEFINE a == Addrs(D)[i]
           T == TableName(D, t)
<1>10. cur[1] = a /\ cur[2] = T /\ a \in DOMAIN hosts /\ T \in ToSet(Tables)
  BY <1>3, <1>9, Sizes DEF AtEntry, InHost, FieldsOK
<1> HIDE DEF a, T
<1>11. SmallTable(T, hosts[a].tables[T], ports_max)
  BY <1>3, <1>5, <1>10, SmallWithin DEF Small
<1>12. ~ReduceAborts(T, hosts[a].tables[T], v[1])
  BY <1>3, <1>11, NoAbort
<1> QED BY <1>7, <1>10, <1>12

(* A count that fails its assertion is that of all the ports.            *)
LEMMA AllPortsUsed ==
  ASSUME NEW D, InvOf(D), phase = "export", out # <<>>, ~Assertion(Head(out))
  PROVE  /\ ports_max = PortLimit
         /\ \E a \in DOMAIN hosts, T \in ToSet(Tables) \ {"ip"} :
              DOMAIN hosts[a].tables[T] = 0..PortLimit - 1
<1>1. /\ GoodDb(D) /\ FileOK(D) /\ OutOK(D) /\ D.hosts = Real(hosts)
      /\ IsDb(hosts) /\ Small(hosts, ports_max) /\ offset \in Int
      /\ ports_max \in 0..PortLimit
  BY DEF InvOf
<1>2. Len(file) + 1 \in 1..Len(Items(D)) /\ Head(out) = Items(D)[Len(file) + 1]
  BY <1>1, NextToWrite
<1>3. ~Sound(Items(D))
  BY <1>2 DEF Sound
<1>4. PICK a \in DOMAIN D.hosts, T \in ToSet(Tables) \ {"ip"} :
        /\ DOMAIN D.hosts[a].tables[T] = 0..PortLimit - 1
        /\ Cardinality(DOMAIN D.hosts[a].tables[T]) = PortLimit
  BY <1>1, <1>3, AllPorts
<1>5. a \in DOMAIN hosts /\ D.hosts[a].tables = hosts[a].tables
  BY <1>1, RealFacts
<1>6. PortLimit <= ports_max
  <2>1. SmallTable(T, hosts[a].tables[T], ports_max)
    BY <1>1, <1>5 DEF Small
  <2> QED BY <2>1, <1>4, <1>5 DEF SmallTable
<1>7. ports_max = PortLimit
  BY <1>1, <1>6, DbAssumption
<1> QED BY <1>4, <1>5, <1>7

(* The assertions of hashtable_reduce and of the exports hold for every  *)
(* database that the program can build, export, and import again under   *)
(* other limits, but for the two ends of what --ports-max may be: 0 when *)
(* there are ports in the file, and 65536 when a host has used them all. *)
THEOREM AbortsAtTheEnds ==
  Spec => []AbortsOnlyAtTheEnds
<1>1. Init => AbortsOnlyAtTheEnds
  BY DEF Init, AbortsOnlyAtTheEnds
<1>2. DbInv /\ AbortsOnlyAtTheEnds /\ [Next]_vars => AbortsOnlyAtTheEnds'
  <2> SUFFICES ASSUME DbInv, AbortsOnlyAtTheEnds, [Next]_vars, NEW D, D = exported
               PROVE  AbortsOnlyAtTheEnds'
    OBVIOUS
  <2>0. InvOf(D)
    BY InvNow
  <2>1. ASSUME NEW t \in Traffic, NEW time \in Times, account(t[1], t[2], t[3], time)
        PROVE  AbortsOnlyAtTheEnds'
    <3>1. phase' = "run"
      BY <2>0, <2>1, InvAccount
    <3> QED BY <3>1 DEF AbortsOnlyAtTheEnds
  <2>2. CASE import_aborts
    <3>1. ports_max' = 0 /\ want' # <<>>
      BY <2>0, <2>2, ImportHasRoom DEF import_aborts, importVars
    <3> QED BY <3>1 DEF AbortsOnlyAtTheEnds
  <2>3. CASE writen
    <3>1. /\ phase = "export" /\ out # <<>> /\ hosts' = hosts /\ ports_max' = ports_max
          /\ phase' = "aborted" => ~Assertion(Head(out))
      BY <2>3 DEF writen
    <3>2. CASE ~Assertion(Head(out))
      BY <3>1, <3>2, <2>0, AllPortsUsed DEF AbortsOnlyAtTheEnds
    <3>3. CASE Assertion(Head(out))
      BY <3>1, <3>3 DEF AbortsOnlyAtTheEnds
    <3> QED BY <3>2, <3>3
  <2>4. CASE UNCHANGED vars
    BY <2>4 DEF vars, AbortsOnlyAtTheEnds
  <2>5. ASSUME phase' # "aborted" PROVE AbortsOnlyAtTheEnds'
    BY <2>5 DEF AbortsOnlyAtTheEnds
  <2>6. ASSUME NEW a \in Addr, NEW n \in Names, dns_poll(a, n) PROVE AbortsOnlyAtTheEnds'
    BY <2>5, <2>6 DEF dns_poll
  <2>7. ASSUME NEW o \in Offsets, NEW m \in PortsMax, start(o, m)
        PROVE  AbortsOnlyAtTheEnds'
    BY <2>5, <2>7 DEF start
  <2>8. CASE db_export \/ writen_short \/ db_export_done \/ exit
    BY <2>5, <2>8 DEF db_export, writen_short, db_export_done, exit
  <2>9. CASE import_next \/ import_done \/ import_fails \/ enter_main_loop
    BY <2>5, <2>9 DEF import_next, import_done, import_fails, enter_main_loop
  <2> QED BY <2>1, <2>2, <2>3, <2>4, <2>6, <2>7, <2>8, <2>9, Zenon DEF Next
<1> QED BY <1>1, <1>2, DbFileInv, PTL DEF Spec
=============================================================================
