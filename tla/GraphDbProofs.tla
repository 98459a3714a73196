--------------------------- MODULE GraphDbProofs ---------------------------
(***************************************************************************)
(* The rings of GraphDb implement the sliding windows of GraphWindow, for*)
(* graphs of any number of bars of any length and for any times.  A ring *)
(* is walked backwards from its position, modulo its number of bars, so  *)
(* the proofs come down to where advance and rotate put things, modulo   *)
(* that number.                                                          *)
(***************************************************************************)
EXTENDS GraphDb, TLAPS

(* What % and \div are.                                                  *)
LEMMA DivMod ==
  ASSUME NEW x \in Int, NEW N \in Nat \ {0}
  PROVE  /\ x = N * (x \div N) + (x % N) /\ x % N \in 0..N-1 /\ x \div N \in Int
<1>1. x \div N \in Int
  OBVIOUS
<1>2. x % N \in 0..N-1
  OBVIOUS
<1>3. x = N * (x \div N) + (x % N)
  BY Z3
<1> QED BY <1>1, <1>2, <1>3

(* A multiple of N other than 0 is N away from it.                       *)
LEMMA TimesLarge ==
  ASSUME NEW N \in Nat \ {0}, NEW q \in Int
  PROVE  /\ q > 0 => N * q >= N
         /\ q < 0 => N * q <= -N
OBVIOUS

(* There is one way to divide with a remainder.                          *)
LEMMA ModUnique ==
  ASSUME NEW N \in Nat \ {0}, NEW q \in Int, NEW r \in 0..N-1
  PROVE  (N * q + r) % N = r /\ (N * q + r) \div N = q
<1> DEFINE x == N * q + r
<1>1. x \in Int /\ N * q \in Int /\ r \in Int
  OBVIOUS
<1> HIDE DEF x
<1>2. x = N * (x \div N) + (x % N) /\ x % N \in 0..N-1 /\ x \div N \in Int
  BY <1>1, DivMod
<1> DEFINE d == q - x \div N
<1>3. N * d = (x % N) - r
  <2> DEFINE m == x \div N
             a == x % N
  <2>1. x = N * m + a /\ m \in Int /\ a \in Int /\ d = q - m
    BY <1>2
  <2>2. x = N * q + r
    BY DEF x
  <2> HIDE DEF m, a, d
  <2>3. N * d = N * q - N * m
    BY <2>1
  <2>4. N * q + r = N * m + a /\ N * q \in Int /\ N * m \in Int
    BY <2>1, <2>2
  <2>5. N * d = a - r
    BY <1>1, <2>1, <2>3, <2>4
  <2> QED BY <2>5 DEF a
<1>4. d = 0
  <2> HIDE DEF d
  <2>1. d \in Int
    BY <1>2 DEF d
  <2>2. N * d > -N /\ N * d < N
    BY <1>2, <1>3
  <2> QED BY <2>1, <2>2, TimesLarge
<1> QED BY <1>1, <1>2, <1>3, <1>4 DEF x

(* The remainder of a sum.                                               *)
LEMMA ModAdd ==
  ASSUME NEW N \in Nat \ {0}, NEW x \in Int, NEW y \in Int
  PROVE  ((x % N) + y) % N = (x + y) % N
<1> DEFINE q == x \div N
           a == x % N
           p == (a + y) \div N
           r == (a + y) % N
<1>1. x = N * q + a /\ a \in Int /\ q \in Int
  BY DivMod
<1>2. a + y = N * p + r /\ r \in 0..N-1 /\ p \in Int
  <2> HIDE DEF a
  <2>1. a + y \in Int
    BY <1>1
  <2> QED BY <2>1, DivMod
<1> HIDE DEF q, a, p, r
<1>3. x + y = N * (q + p) + r
  <2>1. N * (q + p) = N * q + N * p
    BY <1>1, <1>2
  <2> QED BY <1>1, <1>2, <2>1
<1>4. (x + y) % N = r
  <2>1. q + p \in Int /\ r \in 0..N-1
    BY <1>1, <1>2
  <2>2. (N * (q + p) + r) % N = r
    BY <2>1, ModUnique
  <2> QED BY <1>3, <2>2
<1> QED BY <1>4 DEF a, r

(* The remainder of what is less than N away from 0.                     *)
LEMMA ModNear ==
  ASSUME NEW N \in Nat \ {0}, NEW x \in Int
  PROVE  /\ 0 <= x /\ x < N => x % N = x
         /\ -N <= x /\ x < 0 => x % N = x + N
<1>1. ASSUME 0 <= x, x < N PROVE x % N = x
  <2>1. N * 0 + x = x /\ x \in 0..N-1
    BY <1>1
  <2>2. (N * 0 + x) % N = x
    BY <2>1, ModUnique
  <2> QED BY <2>1, <2>2
<1>2. ASSUME -N <= x, x < 0 PROVE x % N = x + N
  <2>1. N * (-1) + (x + N) = x /\ x + N \in 0..N-1 /\ -1 \in Int
    BY <1>2
  <2>2. (N * (-1) + (x + N)) % N = x + N
    BY <2>1, ModUnique
  <2> QED BY <2>1, <2>2
<1> QED BY <1>1, <1>2

(***************************************************************************)
(* Where the bars are: N of them, the current one at p.                  *)
(***************************************************************************)
(* The bar at p is the current one.                                      *)
LEMMA AcctPlace ==
  ASSUME NEW N \in Nat \ {0}, NEW p \in 0..N-1, NEW k \in 0..N-1
  PROVE  (p - k) % N \in 0..N-1 /\ ((p - k) % N = p <=> k = 0)
<1>1. p - k \in Int /\ (0 <= p - k \/ p - k < 0) /\ -N <= p - k /\ p - k < N
  OBVIOUS
<1>2. (p - k) % N = p - k \/ ((p - k) % N = p - k + N /\ k # 0)
  <2>1. 0 <= p - k => (p - k) % N = p - k
    BY <1>1, ModNear
  <2>2. p - k < 0 => (p - k) % N = p - k + N /\ k # 0
    BY <1>1, ModNear
  <2> QED BY <1>1, <2>1, <2>2
<1>3. (p - k) % N \in 0..N-1
  BY <1>1, DivMod
<1> QED BY <1>2, <1>3

(* rotate moves the bars along with the position.                        *)
LEMMA RotatePlace ==
  ASSUME NEW N \in Nat \ {0}, NEW p \in Int, NEW new \in Int, NEW k \in Int
  PROVE  (((new - k) % N) - (new - p)) % N = (p - k) % N
<1>1. new - k \in Int /\ -(new - p) \in Int
  OBVIOUS
<1>2. (((new - k) % N) + (-(new - p))) % N = ((new - k) + (-(new - p))) % N
  BY <1>1, ModAdd
<1>3. (new - k) + (-(new - p)) = p - k
  OBVIOUS
<1>4. (new - k) % N \in Int
  BY <1>1, DivMod
<1>5. ((new - k) % N) + (-(new - p)) = ((new - k) % N) - (new - p)
  BY <1>4
<1> QED BY <1>2, <1>3, <1>5

(* n units later, n less than N, advance has visited the bars of the last*)
(* n units and no other.                                                 *)
LEMMA AdvancePlace ==
  ASSUME NEW N \in Nat \ {0}, NEW a \in Int, NEW c \in Int, c <= a, a - c < N,
         NEW k \in 0..N-1
  PROVE  LET p   == c % N
             new == a % N
             i   == (new - k) % N
             n   == a - c
         IN  /\ (new - p) % N = n
             /\ (i - p) % N = IF k <= n THEN n - k ELSE n - k + N
             /\ k >= n => i = (p - (k - n)) % N
<1> DEFINE p   == c % N
           q   == c \div N
           new == a % N
           i   == (new - k) % N
           n   == a - c
<1>1. c = N * q + p /\ p \in Int /\ q \in Int /\ new \in Int /\ i \in Int
  <2>1. c = N * q + p /\ p \in Int /\ q \in Int /\ new \in Int
    BY DivMod
  <2> HIDE DEF new
  <2>2. new - k \in Int
    BY <2>1
  <2> QED BY <2>1, <2>2, DivMod
<1>2. \A y \in Int : (new + y) % N = (a + y) % N
  BY ModAdd
<1>3. \A y \in Int : (p + y) % N = (c + y) % N
  BY ModAdd
<1> HIDE DEF p, q, new
<1>4. (new - p) % N = n
  <2>1. new - p = new + (-p) /\ -p \in Int /\ a + (-p) = N * q + n /\ n \in 0..N-1
    BY <1>1
  <2>2. (N * q + n) % N = n
    BY <1>1, <2>1, ModUnique
  <2> QED BY <1>2, <2>1, <2>2
<1>5. (i - p) % N = (n - k) % N
  <2>1. new - k \in Int /\ -p \in Int
    BY <1>1
  <2>2. (i + (-p)) % N = ((new - k) + (-p)) % N
    BY <2>1, ModAdd
  <2>3. i + (-p) = i - p /\ (new - k) + (-p) = new + (-k - p) /\ -k - p \in Int
    BY <1>1
  <2>4. (new + (-k - p)) % N = (a + (-k - p)) % N
    BY <1>2, <2>3
  <2> DEFINE u == (n - k) \div N
             v == (n - k) % N
  <2>5. n - k \in Int /\ n - k = N * u + v /\ v \in 0..N-1 /\ u \in Int
    <3>1. n - k \in Int
      OBVIOUS
    <3> HIDE DEF n
    <3> QED BY <3>1, DivMod
  <2>6. a + (-k - p) = (n - k) + N * q /\ N * q \in Int
    BY <1>1
  <2> HIDE DEF u, v
  <2>7. a + (-k - p) = N * (q + u) + v /\ q + u \in Int
    <3>1. N * (q + u) = N * q + N * u /\ N * u \in Int
      BY <1>1, <2>5
    <3> HIDE DEF n
    <3> QED BY <1>1, <2>5, <2>6, <3>1
  <2>8. (N * (q + u) + v) % N = v
    BY <2>5, <2>7, ModUnique
  <2> QED BY <2>2, <2>3, <2>4, <2>7, <2>8 DEF v
<1>6. (n - k) % N = IF k <= n THEN n - k ELSE n - k + N
  <2>1. n - k \in Int /\ -N <= n - k /\ n - k < N /\ (k <= n <=> 0 <= n - k)
        /\ (~(k <= n) <=> n - k < 0)
    OBVIOUS
  <2> HIDE DEF n
  <2> QED BY <2>1, ModNear
<1>7. k >= n => i = (p - (k - n)) % N
  <2>1. /\ new - k = new + (-k) /\ -k \in Int
        /\ p - (k - n) = p + (n - k) /\ n - k \in Int
        /\ a + (-k) = c + (n - k)
    BY <1>1
  <2> QED BY <1>2, <1>3, <2>1
<1> QED BY <1>4, <1>5, <1>6, <1>7 DEF p, new

(* A gap of N units or more leaves nothing of the window; and time that  *)
(* goes forward does not go back a unit.                                 *)
LEMMA UnitsPassed ==
  ASSUME NEW N \in Nat \ {0}, NEW B \in Nat \ {0}, NEW l \in Nat, NEW t \in Nat, l <= t
  PROVE  /\ l \div B \in Int /\ t \div B \in Int /\ l \div B <= t \div B
         /\ t - l >= N * B => (t \div B) - (l \div B) >= N
<1> DEFINE a == t \div B
           c == l \div B
           r == l % B
           s == t % B
<1>1. /\ l = B * c + r /\ r \in 0..B-1 /\ c \in Int
      /\ t = B * a + s /\ s \in 0..B-1 /\ a \in Int
  BY DivMod
<1> HIDE DEF a, c, r, s
<1>2. B * (a - c) = B * a - B * c /\ B * a \in Int /\ B * c \in Int
  BY <1>1
<1>3. B * (a - c) = (t - l) + (r - s)
  BY <1>1, <1>2
<1>4. c <= a
  <2>1. B * (a - c) > -B
    BY <1>1, <1>3
  <2>2. a - c \in Int
    BY <1>1
  <2> QED BY <1>1, <2>1, <2>2, TimesLarge
<1>5. ASSUME t - l >= N * B PROVE a - c >= N
  <2>1. B * ((a - c) - N) = B * (a - c) - B * N /\ B * N = N * B /\ N * B \in Int
    BY <1>1
  <2>2. B * ((a - c) - N) > -B
    BY <1>1, <1>3, <1>5, <2>1
  <2>3. (a - c) - N \in Int
    BY <1>1
  <2>4. ~((a - c) - N < 0)
    BY <2>2, <2>3, TimesLarge
  <2> QED BY <1>1, <2>4
<1> QED BY <1>1, <1>4, <1>5 DEF a, c

----------------------------------------------------------------------------
(***************************************************************************)
(* The inductive invariant.                                              *)
(***************************************************************************)
(* What the database has in it is what was in memory.                    *)
FileOK ==
  /\ \A d \in Dir, g \in Graph : file.bars[d][g] \in [Bars(g) -> 0..MaxBytes]
  /\ file.bars = [d \in Dir |-> [g \in Graph |-> file.bars[d][g]]]
  /\ file.pos \in [Graph -> Nat] /\ \A g \in Graph : file.pos[g] \in Bars(g)
  /\ file.last_real \in Time \cup {0}

(* Before the clock was read there is no traffic: the first rotation can *)
(* put the position anywhere.                                            *)
Empty(b) == \A d \in Dir, g \in Graph : \A i \in Bars(g) : b[d][g][i] = 0

NotSet ==
  /\ phase = "live" => last_real # 0
  /\ last_real = 0 => Empty(bars)
  /\ file.last_real = 0 => Empty(file.bars)

GraphInv == TypeOK /\ FileOK /\ NotSet /\ PosIsLocaltime

(* The constants, and times that are not set.                            *)
LEMMA Constants ==
  /\ \A g \in Graph : NumBars[g] \in Nat \ {0} /\ BarSecs[g] \in Nat \ {0}
  /\ \A g \in Graph : Bars(g) = 0..NumBars[g]-1 /\ 0 \in Bars(g)
  /\ \A t \in Time : t \in Nat \ {0}
  /\ 0 \in 0..MaxBytes /\ MaxBytes \in Nat
BY GraphAssumption DEF Bars

(* What localtime says of a time that is set is a position in each graph.*)
LEMMA LocaltimeType ==
  ASSUME NEW g \in Graph, NEW t \in Time
  PROVE  localtime(g, t) \in Bars(g) /\ localtime(g, t) \in Nat
<1>1. /\ NumBars[g] \in Nat \ {0} /\ BarSecs[g] \in Nat \ {0} /\ t \in Int
      /\ Bars(g) = 0..NumBars[g]-1
  BY Constants
<1>2. t \div BarSecs[g] \in Int
  BY <1>1, DivMod
<1>3. (t \div BarSecs[g]) % NumBars[g] \in 0..NumBars[g]-1
  BY <1>1, <1>2, DivMod
<1> QED BY <1>1, <1>3 DEF localtime

(* Bars that are in range are rings of them.                             *)
LEMMA RingsType ==
  ASSUME NEW b, b = [d \in Dir |-> [g \in Graph |-> b[d][g]]],
         \A d \in Dir, g \in Graph : b[d][g] \in [Bars(g) -> 0..MaxBytes]
  PROVE  b \in [Dir -> [Graph -> UNION {[Bars(g) -> 0..MaxBytes] : g \in Graph}]]
<1> DEFINE U == UNION {[Bars(g) -> 0..MaxBytes] : g \in Graph}
<1>1. \A d \in Dir, g \in Graph : b[d][g] \in U
  OBVIOUS
<1> HIDE DEF U
<1>2. \A d \in Dir : [g \in Graph |-> b[d][g]] \in [Graph -> U]
  BY <1>1
<1>3. [d \in Dir |-> [g \in Graph |-> b[d][g]]] \in [Dir -> [Graph -> U]]
  BY <1>2
<1>4. b \in [Dir -> [Graph -> U]]
  BY <1>3
<1> QED BY <1>4 DEF U

(* What is in rings: each graph has one bar per position, and a bar is a *)
(* number of bytes.                                                      *)
LEMMA RingsShape ==
  ASSUME TypeOK
  PROVE  bars = [d \in Dir |-> [g \in Graph |-> bars[d][g]]]
<1> DEFINE U == UNION {[Bars(g) -> 0..MaxBytes] : g \in Graph}
<1>1. bars \in [Dir -> [Graph -> U]]
  BY DEF TypeOK
<1> HIDE DEF U
<1>2. \A d \in Dir : bars[d] = [g \in Graph |-> bars[d][g]]
  BY <1>1
<1>3. bars = [d \in Dir |-> bars[d]]
  BY <1>1
<1>4. [d \in Dir |-> bars[d]] = [d \in Dir |-> [g \in Graph |-> bars[d][g]]]
  BY <1>2
<1> QED BY <1>3, <1>4

(* Rings without traffic.                                                *)
LEMMA NoBarsType ==
  /\ \A d \in Dir, g \in Graph : NoBars[d][g] \in [Bars(g) -> 0..MaxBytes]
  /\ NoBars = [d \in Dir |-> [g \in Graph |-> NoBars[d][g]]]
  /\ Empty(NoBars)
<1>1. \A d \in Dir, g \in Graph : NoBars[d][g] = [i \in Bars(g) |-> 0]
  BY DEF NoBars
<1>2. \A g \in Graph : [i \in Bars(g) |-> 0] \in [Bars(g) -> 0..MaxBytes]
  BY Constants
<1>3. NoBars = [d \in Dir |-> [g \in Graph |-> NoBars[d][g]]]
  BY DEF NoBars
<1>4. Empty(NoBars)
  <2>1. \A d \in Dir, g \in Graph : \A i \in Bars(g) : NoBars[d][g][i] = 0
    <3> SUFFICES ASSUME NEW d \in Dir, NEW g \in Graph, NEW i \in Bars(g)
                 PROVE  NoBars[d][g][i] = 0
      OBVIOUS
    <3>1. NoBars[d][g] = [j \in Bars(g) |-> 0]
      BY <1>1
    <3> QED BY <3>1
  <2> QED BY <2>1 DEF Empty
<1>5. \A d \in Dir, g \in Graph : NoBars[d][g] \in [Bars(g) -> 0..MaxBytes]
  BY <1>1, <1>2
<1> QED BY <1>3, <1>4, <1>5

(* The remainders by which rings are walked and moved are bars.          *)
LEMMA RemType ==
  ASSUME NEW g \in Graph, NEW x \in Int
  PROVE  x % NumBars[g] \in Bars(g)
BY Constants, DivMod

(* Rings stay rings when bars are added to, moved or emptied.            *)
LEMMA MovedType ==
  ASSUME NEW g \in Graph, NEW b \in [Bars(g) -> 0..MaxBytes],
         NEW p \in Bars(g), NEW new \in Bars(g)
  PROVE  /\ [i \in Bars(g) |-> b[(i - (new - p)) % NumBars[g]]] \in [Bars(g) -> 0..MaxBytes]
         /\ \A S : [i \in Bars(g) |-> IF i \in S THEN 0 ELSE b[i]] \in [Bars(g) -> 0..MaxBytes]
<1>1. \A i \in Bars(g) : i - (new - p) \in Int
  BY Constants
<1>2. \A i \in Bars(g) : (i - (new - p)) % NumBars[g] \in Bars(g)
  BY <1>1, RemType
<1>3. 0 \in 0..MaxBytes
  BY Constants
<1> QED BY <1>2, <1>3

(* The rotations leave the rings rings.                                  *)
LEMMA RotateTypes ==
  ASSUME GraphInv, NEW t \in Time, graph_rotate(t)
  PROVE  /\ \A d \in Dir, g \in Graph : bars'[d][g] \in [Bars(g) -> 0..MaxBytes]
         /\ bars' = [d \in Dir |-> [g \in Graph |-> bars'[d][g]]]
         /\ pos' = [g \in Graph |-> localtime(g, t)]
         /\ last_real' = t /\ phase' = "live" /\ file' = file
<1>1. /\ \A d \in Dir, g \in Graph : bars[d][g] \in [Bars(g) -> 0..MaxBytes]
      /\ bars = [d \in Dir |-> [g \in Graph |-> bars[d][g]]]
      /\ \A g \in Graph : pos[g] \in Bars(g)
      /\ pos \in [Graph -> Nat]
  BY RingsShape DEF GraphInv, TypeOK
<1>2. \A g \in Graph : localtime(g, t) \in Bars(g)
  BY LocaltimeType
<1>3. CASE first_rotate(t)
  BY <1>1, <1>3 DEF first_rotate, MoveTo
<1>4. CASE same_second(t)
  <2>1. pos = [g \in Graph |-> localtime(g, t)]
    BY <1>1, <1>4 DEF same_second, GraphInv, PosIsLocaltime
  <2> QED BY <1>1, <1>4, <2>1 DEF same_second
<1>5. CASE graph_resync(t)
  <2>1. /\ bars' = [d \in Dir |-> [g \in Graph |-> rotate(bars[d][g], g, localtime(g, t))]]
        /\ pos' = [g \in Graph |-> localtime(g, t)]
        /\ last_real' = t /\ phase' = "live" /\ file' = file
    BY <1>5 DEF graph_resync, MoveTo
  <2>2. \A d \in Dir, g \in Graph :
          rotate(bars[d][g], g, localtime(g, t)) \in [Bars(g) -> 0..MaxBytes]
    <3> SUFFICES ASSUME NEW d \in Dir, NEW g \in Graph
                 PROVE  rotate(bars[d][g], g, localtime(g, t)) \in [Bars(g) -> 0..MaxBytes]
      OBVIOUS
    <3>1. [i \in Bars(g) |-> bars[d][g][(i - (localtime(g, t) - pos[g])) % NumBars[g]]]
            \in [Bars(g) -> 0..MaxBytes]
      BY <1>1, <1>2, MovedType
    <3> QED BY <3>1 DEF rotate
  <2>3. \A d \in Dir, g \in Graph : bars'[d][g] = rotate(bars[d][g], g, localtime(g, t))
    BY <2>1
  <2>4. bars' = [d \in Dir |-> [g \in Graph |-> bars'[d][g]]]
    BY <2>1, <2>3
  <2> QED BY <2>1, <2>2, <2>3, <2>4
<1>6. CASE rotate_forward(t)
  <2> DEFINE F(d, g) == IF rotated_through(g, t - last_real)
                        THEN [i \in Bars(g) |-> 0]
                        ELSE advance(bars[d][g], g, localtime(g, t))
  <2>1. /\ bars' = [d \in Dir |-> [g \in Graph |-> F(d, g)]]
        /\ pos' = [g \in Graph |-> localtime(g, t)]
        /\ last_real' = t /\ phase' = "live" /\ file' = file
    BY <1>6 DEF rotate_forward, MoveTo
  <2>2. \A d \in Dir, g \in Graph : F(d, g) \in [Bars(g) -> 0..MaxBytes]
    <3> SUFFICES ASSUME NEW d \in Dir, NEW g \in Graph
                 PROVE  F(d, g) \in [Bars(g) -> 0..MaxBytes]
      OBVIOUS
    <3>1. [i \in Bars(g) |-> 0] \in [Bars(g) -> 0..MaxBytes]
      BY Constants
    <3>2. advance(bars[d][g], g, localtime(g, t)) \in [Bars(g) -> 0..MaxBytes]
      BY <1>1, <1>2, MovedType DEF advance
    <3> QED BY <3>1, <3>2
  <2> HIDE DEF F
  <2>3. \A d \in Dir, g \in Graph : bars'[d][g] = F(d, g)
    BY <2>1
  <2>4. bars' = [d \in Dir |-> [g \in Graph |-> bars'[d][g]]]
    BY <2>1, <2>3
  <2> QED BY <2>1, <2>2, <2>3, <2>4
<1> QED BY <1>3, <1>4, <1>5, <1>6 DEF graph_rotate

(* Traffic is added to one bar of each ring of one direction.            *)
LEMMA AcctTypes ==
  ASSUME GraphInv, NEW d \in Dir, NEW n \in 1..MaxBytes, graph_acct(d, n)
  PROVE  /\ \A e \in Dir, g \in Graph : bars'[e][g] \in [Bars(g) -> 0..MaxBytes]
         /\ bars' = [e \in Dir |-> [g \in Graph |-> bars'[e][g]]]
         /\ \A e \in Dir, g \in Graph : bars'[e][g] =
              IF e = d THEN [bars[d][g] EXCEPT ![pos[g]] = @ + n] ELSE bars[e][g]
<1>1. /\ \A e \in Dir, g \in Graph : bars[e][g] \in [Bars(g) -> 0..MaxBytes]
      /\ bars = [e \in Dir |-> [g \in Graph |-> bars[e][g]]]
      /\ \A g \in Graph : pos[g] \in Bars(g)
  BY RingsShape DEF GraphInv, TypeOK
<1>2. /\ bars' = [bars EXCEPT ![d] = [g \in Graph |-> [bars[d][g] EXCEPT ![pos[g]] = @ + n]]]
      /\ \A g \in Graph : bars[d][g][pos[g]] + n <= MaxBytes
  BY DEF graph_acct
<1>3. \A g \in Graph : [bars[d][g] EXCEPT ![pos[g]] = @ + n] \in [Bars(g) -> 0..MaxBytes]
  <2> SUFFICES ASSUME NEW g \in Graph
               PROVE  [bars[d][g] EXCEPT ![pos[g]] = @ + n] \in [Bars(g) -> 0..MaxBytes]
    OBVIOUS
  <2>1. bars[d][g][pos[g]] + n \in 0..MaxBytes
    BY <1>1, <1>2, Constants
  <2> QED BY <1>1, <2>1
<1> DEFINE F == [g \in Graph |-> [bars[d][g] EXCEPT ![pos[g]] = @ + n]]
<1>4. bars' = [e \in Dir |-> IF e = d THEN F ELSE bars[e]]
  <2> HIDE DEF F
  <2>1. bars = [e \in Dir |-> bars[e]]
    BY <1>1
  <2>2. bars' = [bars EXCEPT ![d] = F]
    BY <1>2 DEF F
  <2> QED BY <2>1, <2>2
<1>5. \A e \in Dir, g \in Graph : bars'[e][g] =
        IF e = d THEN [bars[d][g] EXCEPT ![pos[g]] = @ + n] ELSE bars[e][g]
  BY <1>4
<1>6. \A e \in Dir : bars'[e] = [g \in Graph |-> bars'[e][g]]
  <2>1. \A e \in Dir : bars[e] = [g \in Graph |-> bars[e][g]]
    BY <1>1
  <2> QED BY <1>4, <2>1
<1>7. bars' = [e \in Dir |-> bars'[e]]
  BY <1>4
<1>8. [e \in Dir |-> bars'[e]] = [e \in Dir |-> [g \in Graph |-> bars'[e][g]]]
  BY <1>6
<1>9. \A e \in Dir, g \in Graph : bars'[e][g] \in [Bars(g) -> 0..MaxBytes]
  BY <1>1, <1>3, <1>5
<1> QED BY <1>5, <1>7, <1>8, <1>9

(* A position for each ring.                                             *)
LEMMA PosType ==
  ASSUME NEW p, p = [g \in Graph |-> p[g]], \A g \in Graph : p[g] \in Bars(g)
  PROVE  p \in [Graph -> Nat]
<1>1. \A g \in Graph : \A i \in Bars(g) : i \in Nat
  BY Constants
<1>2. \A g \in Graph : p[g] \in Nat
  BY <1>1
<1>3. [g \in Graph |-> p[g]] \in [Graph -> Nat]
  BY <1>2
<1> QED BY <1>3

(* graph_init leaves rings without traffic, positions that are not set   *)
(* and no file.                                                          *)
LEMMA GraphInit == Init => GraphInv
<1> SUFFICES ASSUME Init PROVE GraphInv
  OBVIOUS
<1>1. /\ bars = NoBars /\ pos = [g \in Graph |-> 0] /\ last_real = 0 /\ phase = "fresh"
      /\ file.bars = NoBars /\ file.pos = pos /\ file.last_real = 0
  BY DEF Init
<1>2. \A g \in Graph : pos[g] \in Bars(g)
  BY <1>1, Constants
<1>3. TypeOK
  BY <1>1, <1>2, NoBarsType, RingsType, PosType DEF TypeOK
<1>4. FileOK
  <2>1. pos \in [Graph -> Nat]
    BY <1>1
  <2> QED BY <1>1, <1>2, <2>1, NoBarsType DEF FileOK
<1>5. NotSet /\ PosIsLocaltime
  BY <1>1, NoBarsType DEF NotSet, PosIsLocaltime
<1> QED BY <1>3, <1>4, <1>5 DEF GraphInv

(* Every step of the program keeps the invariant: packets, the turn of   *)
(* the loop with a rotation, resets, exports, and the end and start of   *)
(* the program.                                                          *)
LEMMA GraphStep == ASSUME GraphInv, [Next]_vars PROVE GraphInv'
<1>0. TypeOK /\ FileOK /\ NotSet /\ PosIsLocaltime
  BY DEF GraphInv
<1>a. /\ \A d \in Dir, g \in Graph : bars[d][g] \in [Bars(g) -> 0..MaxBytes]
      /\ bars = [d \in Dir |-> [g \in Graph |-> bars[d][g]]]
      /\ pos \in [Graph -> Nat] /\ \A g \in Graph : pos[g] \in Bars(g)
      /\ last_real \in Time \cup {0} /\ phase \in {"fresh", "live"}
  BY <1>0, RingsShape DEF TypeOK
<1>b. pos = [g \in Graph |-> pos[g]]
  BY <1>a
<1>f. file' = file => FileOK'
  BY <1>0 DEF FileOK
<1>1. ASSUME NEW d \in Dir, NEW n \in 1..MaxBytes, graph_acct(d, n) PROVE GraphInv'
  <2>1. phase = "live" /\ UNCHANGED <<pos, last_real, file, phase>>
    BY <1>1 DEF graph_acct
  <2>2. TypeOK'
    BY <1>1, <1>a, <1>b, <2>1, AcctTypes, RingsType, PosType DEF TypeOK
  <2>3. NotSet' /\ PosIsLocaltime'
    BY <1>0, <2>1 DEF NotSet, PosIsLocaltime, Empty
  <2> QED BY <1>f, <2>1, <2>2, <2>3 DEF GraphInv
<1>2. ASSUME NEW t \in Time, graph_rotate(t) PROVE GraphInv'
  <2>1. /\ \A d \in Dir, g \in Graph : bars'[d][g] \in [Bars(g) -> 0..MaxBytes]
        /\ bars' = [d \in Dir |-> [g \in Graph |-> bars'[d][g]]]
        /\ pos' = [g \in Graph |-> localtime(g, t)]
        /\ last_real' = t /\ phase' = "live" /\ file' = file
    BY <1>2, RotateTypes
  <2>2. /\ \A g \in Graph : pos'[g] = localtime(g, t) /\ pos'[g] \in Bars(g)
        /\ pos' = [g \in Graph |-> pos'[g]]
    BY <2>1, LocaltimeType
  <2>3. TypeOK'
    BY <2>1, <2>2, RingsType, PosType DEF TypeOK
  <2>4. NotSet' /\ PosIsLocaltime'
    <3>1. t # 0
      BY Constants
    <3> QED BY <1>0, <2>1, <2>2, <3>1 DEF NotSet, PosIsLocaltime, Empty
  <2> QED BY <1>f, <2>1, <2>3, <2>4 DEF GraphInv
<1>3. CASE graph_reset
  <2>1. /\ bars' = NoBars /\ last_real' = 0 /\ phase' = "fresh"
        /\ pos' = pos /\ file' = file
    BY <1>3 DEF graph_reset
  <2>2. TypeOK'
    BY <1>a, <1>b, <2>1, NoBarsType, RingsType, PosType DEF TypeOK
  <2>3. NotSet' /\ PosIsLocaltime'
    BY <1>0, <2>1, NoBarsType DEF NotSet, PosIsLocaltime, Empty
  <2> QED BY <1>f, <2>1, <2>2, <2>3 DEF GraphInv
<1>4. CASE graph_export
  <2>1. /\ file'.bars = bars /\ file'.pos = pos /\ file'.last_real = last_real
        /\ UNCHANGED <<bars, pos, last_real, phase>>
    BY <1>4 DEF graph_export
  <2>2. TypeOK'
    BY <1>0, <2>1 DEF TypeOK
  <2>3. FileOK'
    BY <1>a, <2>1 DEF FileOK
  <2>4. NotSet' /\ PosIsLocaltime'
    BY <1>0, <2>1 DEF NotSet, PosIsLocaltime, Empty
  <2> QED BY <2>2, <2>3, <2>4 DEF GraphInv
<1>5. CASE graph_import
  <2>1. /\ bars' = file.bars /\ pos' = file.pos /\ last_real' = file.last_real
        /\ phase' = "fresh" /\ file' = file
    BY <1>5 DEF graph_import
  <2>2. file.pos = [g \in Graph |-> file.pos[g]]
    BY <1>0 DEF FileOK
  <2>3. TypeOK'
    BY <1>0, <2>1, <2>2, RingsType, PosType DEF TypeOK, FileOK
  <2>4. NotSet' /\ PosIsLocaltime'
    BY <1>0, <2>1 DEF NotSet, PosIsLocaltime, Empty
  <2> QED BY <1>f, <2>1, <2>3, <2>4 DEF GraphInv
<1>6. CASE restart_empty
  <2>1. /\ bars' = NoBars /\ last_real' = 0 /\ phase' = "fresh" /\ file' = file
    BY <1>6 DEF restart_empty
  <2>2. PICK S \in SUBSET Graph :
          pos' = [g \in Graph |-> IF g \in S THEN file.pos[g] ELSE 0]
    BY <1>6 DEF restart_empty
  <2>3. /\ pos' = [g \in Graph |-> pos'[g]]
        /\ \A g \in Graph : pos'[g] \in Bars(g)
    BY <1>0, <2>2, Constants DEF FileOK
  <2>4. TypeOK'
    BY <2>1, <2>3, NoBarsType, RingsType, PosType DEF TypeOK
  <2>5. NotSet' /\ PosIsLocaltime'
    BY <1>0, <2>1, NoBarsType DEF NotSet, PosIsLocaltime, Empty
  <2> QED BY <1>f, <2>1, <2>4, <2>5 DEF GraphInv
<1>7. CASE UNCHANGED vars
  BY <1>0, <1>7 DEF vars, GraphInv, TypeOK, FileOK, NotSet, PosIsLocaltime, Empty
<1> QED BY <1>1, <1>2, <1>3, <1>4, <1>5, <1>6, <1>7 DEF Next

(* In every reachable state, whatever the clock does and however often   *)
(* the program is started again.                                         *)
THEOREM GraphIsRight == Spec => []GraphInv
<1> QED BY GraphInit, GraphStep, PTL DEF Spec

(* The current bar is always the clock's own second, minute, hour or day,*)
(* in memory and in the exported file (graph_rotate, graph_resync,       *)
(* graph_import), for any graphs and times.                              *)
THEOREM GraphPosIsLocaltime == Spec => []PosIsLocaltime
<1>1. GraphInv => PosIsLocaltime
  BY DEF GraphInv
<1> QED BY <1>1, GraphIsRight, PTL

----------------------------------------------------------------------------
(***************************************************************************)
(* The window, bar by bar.                                               *)
(***************************************************************************)
(* The bar of the window that is k units old is the one k places before  *)
(* the current one in its ring.                                          *)
LEMMA WindowBar ==
  ASSUME NEW b, NEW p, NEW d \in Dir, NEW g \in Graph
  PROVE  /\ Window(b, p)[d][g] = [k \in Bars(g) |-> b[d][g][(p[g] - k) % NumBars[g]]]
         /\ \A k \in Bars(g) : Window(b, p)[d][g][k] = b[d][g][(p[g] - k) % NumBars[g]]
BY DEF Window

(* An empty ring is an empty window.                                     *)
LEMMA WindowQuiet ==
  ASSUME NEW b, NEW p, Empty(b), \A g \in Graph : p[g] \in Bars(g)
  PROVE  Window(b, p) = Abstract!Quiet
<1>1. \A d \in Dir, g \in Graph : \A k \in Bars(g) : b[d][g][(p[g] - k) % NumBars[g]] = 0
  <2> SUFFICES ASSUME NEW d \in Dir, NEW g \in Graph, NEW k \in Bars(g)
               PROVE  b[d][g][(p[g] - k) % NumBars[g]] = 0
    OBVIOUS
  <2>1. p[g] - k \in Int
    BY Constants
  <2>2. (p[g] - k) % NumBars[g] \in Bars(g)
    BY <2>1, RemType
  <2> QED BY <2>2 DEF Empty
<1>2. \A d \in Dir, g \in Graph :
        [k \in Bars(g) |-> b[d][g][(p[g] - k) % NumBars[g]]] = [k \in Bars(g) |-> 0]
  BY <1>1
<1>3. Window(b, p) = [d \in Dir |-> [g \in Graph |-> [k \in Bars(g) |-> 0]]]
  BY <1>2 DEF Window
<1> QED BY <1>3 DEF Abstract!Quiet, Bars

(* Traffic counts for the newest unit.                                   *)
LEMMA WindowAcct ==
  ASSUME GraphInv, NEW d \in Dir, NEW n \in 1..MaxBytes, graph_acct(d, n)
  PROVE  Abstract!Account(d, n)
<1>1. /\ \A e \in Dir, g \in Graph : bars'[e][g] =
           IF e = d THEN [bars[d][g] EXCEPT ![pos[g]] = @ + n] ELSE bars[e][g]
      /\ UNCHANGED <<pos, last_real, file>>
  BY AcctTypes DEF graph_acct
<1>2. /\ \A e \in Dir, g \in Graph : bars[e][g] \in [Bars(g) -> 0..MaxBytes]
      /\ \A g \in Graph : pos[g] \in Bars(g)
  BY DEF GraphInv, TypeOK
<1> DEFINE w == Window(bars, pos)
<1>3. \A g \in Graph : w'[d][g] = [w[d][g] EXCEPT ![0] = @ + n]
  <2> SUFFICES ASSUME NEW g \in Graph PROVE w'[d][g] = [w[d][g] EXCEPT ![0] = @ + n]
    OBVIOUS
  <2> DEFINE N == NumBars[g]
             p == pos[g]
             b == bars[d][g]
  <2>1. /\ w[d][g] = [k \in Bars(g) |-> b[(p - k) % N]]
        /\ w'[d][g] = [k \in Bars(g) |-> [b EXCEPT ![p] = @ + n][(p - k) % N]]
    BY <1>1 DEF Window
  <2>2. N \in Nat \ {0} /\ Bars(g) = 0..N-1 /\ p \in 0..N-1 /\ b \in [0..N-1 -> 0..MaxBytes]
    BY <1>2, Constants
  <2> HIDE DEF N, p, b, w
  <2>3. \A k \in 0..N-1 : (p - k) % N \in 0..N-1 /\ ((p - k) % N = p <=> k = 0)
    BY <2>2, AcctPlace
  <2>4. \A k \in 0..N-1 : [b EXCEPT ![p] = @ + n][(p - k) % N] =
          IF k = 0 THEN b[(p - k) % N] + n ELSE b[(p - k) % N]
    BY <2>2, <2>3
  <2>5. w'[d][g] = [k \in 0..N-1 |-> IF k = 0 THEN b[(p - k) % N] + n ELSE b[(p - k) % N]]
    BY <2>1, <2>2, <2>4
  <2>6. [w[d][g] EXCEPT ![0] = @ + n] =
          [k \in 0..N-1 |-> IF k = 0 THEN b[(p - k) % N] + n ELSE b[(p - k) % N]]
    BY <2>1, <2>2
  <2> QED BY <2>5, <2>6
<1>4. \A e \in Dir, g \in Graph : e # d => w'[e][g] = w[e][g]
  BY <1>1 DEF Window
<1>5. /\ w = [e \in Dir |-> [g \in Graph |-> w[e][g]]]
      /\ w' = [e \in Dir |-> [g \in Graph |-> w'[e][g]]]
  BY DEF Window
<1> HIDE DEF w
<1>6. w' = [w EXCEPT ![d] = [g \in Graph |-> [w[d][g] EXCEPT ![0] = @ + n]]]
  <2> DEFINE F == [g \in Graph |-> [w[d][g] EXCEPT ![0] = @ + n]]
  <2>1. [g \in Graph |-> w'[d][g]] = F
    BY <1>3
  <2>2. \A e \in Dir : e # d => [g \in Graph |-> w'[e][g]] = [g \in Graph |-> w[e][g]]
    BY <1>4
  <2>3. \A e \in Dir : /\ w[e] = [g \in Graph |-> w[e][g]]
                        /\ w'[e] = [g \in Graph |-> w'[e][g]]
    BY <1>5
  <2>4. w = [e \in Dir |-> w[e]] /\ w' = [e \in Dir |-> w'[e]]
    BY <1>5
  <2> HIDE DEF F
  <2>5. \A e \in Dir : w'[e] = IF e = d THEN F ELSE w[e]
    BY <2>1, <2>2, <2>3
  <2>6. w' = [w EXCEPT ![d] = F]
    BY <2>4, <2>5
  <2> QED BY <2>6 DEF F
<1>7. Window(file.bars, file.pos)' = Window(file.bars, file.pos) /\ last_real' = last_real
  BY <1>1 DEF Window
<1> QED BY <1>1, <1>6, <1>7 DEF Abstract!Account, w

(* When the clock is set back no bar of the window changes.              *)
LEMMA WindowBack ==
  ASSUME GraphInv, NEW t \in Time, graph_resync(t)
  PROVE  Window(bars, pos)' = Window(bars, pos)
<1>1. /\ \A d \in Dir, g \in Graph : bars'[d][g] =
           [i \in Bars(g) |-> bars[d][g][(i - (localtime(g, t) - pos[g])) % NumBars[g]]]
      /\ \A g \in Graph : pos'[g] = localtime(g, t)
  BY DEF graph_resync, MoveTo, rotate
<1>2. \A d \in Dir, g \in Graph :
        [k \in Bars(g) |-> bars'[d][g][(pos'[g] - k) % NumBars[g]]]
          = [k \in Bars(g) |-> bars[d][g][(pos[g] - k) % NumBars[g]]]
  <2> SUFFICES ASSUME NEW d \in Dir, NEW g \in Graph
               PROVE  [k \in Bars(g) |-> bars'[d][g][(pos'[g] - k) % NumBars[g]]]
                        = [k \in Bars(g) |-> bars[d][g][(pos[g] - k) % NumBars[g]]]
    OBVIOUS
  <2> DEFINE N == NumBars[g]
             p == pos[g]
             b == bars[d][g]
             new == localtime(g, t)
             c == bars'[d][g]
  <2>1. c = [i \in Bars(g) |-> b[(i - (new - p)) % N]] /\ pos'[g] = new
    BY <1>1
  <2>2. N \in Nat \ {0} /\ Bars(g) = 0..N-1 /\ p \in Int /\ new \in Int
    BY Constants, LocaltimeType DEF GraphInv, TypeOK
  <2> HIDE DEF N, p, b, new, c
  <2>3. ASSUME NEW k \in Bars(g) PROVE c[(new - k) % N] = b[(p - k) % N]
    <3>1. k \in Int /\ new - k \in Int
      BY <2>2
    <3>2. (new - k) % N \in Bars(g)
      BY <2>2, <3>1, DivMod
    <3>3. (((new - k) % N) - (new - p)) % N = (p - k) % N
      BY <2>2, <3>1, RotatePlace
    <3> QED BY <2>1, <3>2, <3>3
  <2>4. [k \in Bars(g) |-> c[(new - k) % N]] = [k \in Bars(g) |-> b[(p - k) % N]]
    BY <2>3
  <2> QED BY <2>1, <2>4 DEF N, p, b, c
<1> QED BY <1>2 DEF Window

(* When it moves forward, the window slides by the units that began.     *)
LEMMA WindowForward ==
  ASSUME GraphInv, ~AllowLongGaps, NEW t \in Time, rotate_forward(t)
  PROVE  Window(bars, pos)' =
           [d \in Dir |-> [g \in Graph |->
              Abstract!Slide(Window(bars, pos)[d][g], g,
                             Abstract!Units(g, t) - Abstract!Units(g, last_real))]]
<1>1. /\ \A d \in Dir, g \in Graph : bars'[d][g] =
           IF rotated_through(g, t - last_real) THEN [i \in Bars(g) |-> 0]
           ELSE [i \in Bars(g) |-> IF i \in Visited(g, localtime(g, t)) THEN 0
                                   ELSE bars[d][g][i]]
      /\ \A g \in Graph : pos'[g] = localtime(g, t)
      /\ last_real \in Time /\ t > last_real
  BY DEF rotate_forward, MoveTo, advance, GraphInv, TypeOK
<1>2. \A g \in Graph : rotated_through(g, t - last_real)
                        \/ (t \div BarSecs[g]) - (last_real \div BarSecs[g]) < NumBars[g]
  <2>1. ~LongGap(t)
    BY DEF rotate_forward
  <2> SUFFICES ASSUME NEW g \in Graph, ~rotated_through(g, t - last_real)
               PROVE  (t \div BarSecs[g]) - (last_real \div BarSecs[g]) < NumBars[g]
    OBVIOUS
  <2>2. ~((t \div BarSecs[g]) - (last_real \div BarSecs[g]) >= NumBars[g])
    BY <2>1 DEF LongGap
  <2>3. /\ t \in Int /\ last_real \in Int
        /\ BarSecs[g] \in Nat \ {0} /\ NumBars[g] \in Int
    BY <1>1, Constants
  <2>4. t \div BarSecs[g] \in Int /\ last_real \div BarSecs[g] \in Int
    BY <2>3, DivMod
  <2> QED BY <2>2, <2>3, <2>4
<1>3. \A d \in Dir, g \in Graph :
        [k \in Bars(g) |-> bars'[d][g][(pos'[g] - k) % NumBars[g]]]
          = [k \in Bars(g) |->
               IF k < (t \div BarSecs[g]) - (last_real \div BarSecs[g]) THEN 0
               ELSE Window(bars, pos)[d][g][k - ((t \div BarSecs[g])
                                                 - (last_real \div BarSecs[g]))]]
  <2> SUFFICES ASSUME NEW d \in Dir, NEW g \in Graph
               PROVE  [k \in Bars(g) |-> bars'[d][g][(pos'[g] - k) % NumBars[g]]]
                        = [k \in Bars(g) |->
                             IF k < (t \div BarSecs[g]) - (last_real \div BarSecs[g]) THEN 0
                             ELSE Window(bars, pos)[d][g][k - ((t \div BarSecs[g])
                                                        - (last_real \div BarSecs[g]))]]
    OBVIOUS
  <2> DEFINE N == NumBars[g]
             B == BarSecs[g]
             p == pos[g]
             b == bars[d][g]
             new == localtime(g, t)
             a == t \div B
             u == last_real \div B
             c == bars'[d][g]
             w == Window(bars, pos)[d][g]
  <2>1. /\ N \in Nat \ {0} /\ Bars(g) = 0..N-1 /\ B \in Nat \ {0}
        /\ t \in Nat /\ last_real \in Nat /\ last_real <= t
    BY <1>1, Constants
  <2>2. /\ a \in Int /\ u \in Int /\ u <= a
        /\ t - last_real >= N * B => a - u >= N
    BY <2>1, UnitsPassed
  <2>3. p = u % N /\ new = a % N /\ pos'[g] = new
    BY <1>1, Constants DEF GraphInv, PosIsLocaltime, localtime
  <2>4. w = [k \in Bars(g) |-> b[(p - k) % N]]
    BY WindowBar
  <2>5. p \in Int /\ new \in Int
    <3> HIDE DEF N, u, a, p, new
    <3> QED BY <2>1, <2>2, <2>3, DivMod
  <2>6. ASSUME NEW k \in Bars(g)
        PROVE  c[(new - k) % N] = IF k < a - u THEN 0 ELSE w[k - (a - u)]
    <3> DEFINE i == (new - k) % N
    <3>1. i \in Bars(g) /\ k \in 0..N-1
      <4> HIDE DEF N, new
      <4>1. new - k \in Int
        BY <2>1, <2>5
      <4> QED BY <2>1, <4>1, DivMod
    <3>2. CASE rotated_through(g, t - last_real)
      <4>1. c = [j \in Bars(g) |-> 0]
        BY <1>1, <3>2
      <4>2. a - u >= N
        BY <2>2, <3>2 DEF rotated_through
      <4> HIDE DEF N, a, u, c, new
      <4>3. k < a - u
        BY <2>1, <2>2, <3>1, <4>2
      <4> HIDE DEF i
      <4>4. c[i] = 0
        BY <3>1, <4>1
      <4> QED BY <4>3, <4>4 DEF i
    <3>3. CASE ~rotated_through(g, t - last_real)
      <4>1. c[i] = IF i \in Visited(g, new) THEN 0 ELSE b[i]
        <5>1. c = [j \in Bars(g) |-> IF j \in Visited(g, new) THEN 0 ELSE b[j]]
          BY <1>1, <3>3
        <5> HIDE DEF c, i, b, new
        <5> QED BY <3>1, <5>1
      <4>2. i \in Visited(g, new) <=> 0 < (i - p) % N /\ (i - p) % N <= (new - p) % N
        <5> HIDE DEF i, new
        <5> QED BY <3>1 DEF Visited
      <4>3. a - u < N
        BY <1>2, <3>3
      <4> HIDE DEF N, B, p, b, new, a, u, c, w
      <4>4. /\ (new - p) % N = a - u
            /\ (i - p) % N = IF k <= a - u THEN (a - u) - k ELSE (a - u) - k + N
            /\ k >= a - u => i = (p - (k - (a - u))) % N
        <5>1. /\ ((a % N) - (u % N)) % N = a - u
              /\ ((((a % N) - k) % N) - (u % N)) % N =
                   IF k <= a - u THEN (a - u) - k ELSE (a - u) - k + N
              /\ k >= a - u => ((a % N) - k) % N = ((u % N) - (k - (a - u))) % N
          BY <2>1, <2>2, <3>1, <4>3, AdvancePlace
        <5> QED BY <2>3, <5>1
      <4> HIDE DEF i
      <4>5. CASE k < a - u
        <5>1. i \in Visited(g, new)
          BY <2>1, <2>2, <3>1, <4>2, <4>4, <4>5
        <5> QED BY <4>1, <4>5, <5>1 DEF i
      <4>6. CASE ~(k < a - u)
        <5>1. i \notin Visited(g, new)
          BY <2>1, <2>2, <3>1, <4>2, <4>3, <4>4, <4>6
        <5>2. i = (p - (k - (a - u))) % N /\ k - (a - u) \in Bars(g)
          BY <2>1, <2>2, <3>1, <4>4, <4>6
        <5>3. w[k - (a - u)] = b[(p - (k - (a - u))) % N]
          BY <2>4, <5>2
        <5>4. c[i] = w[k - (a - u)]
          BY <4>1, <5>1, <5>2, <5>3
        <5> QED BY <4>6, <5>4 DEF i
      <4> QED BY <4>5, <4>6
    <3> QED BY <3>2, <3>3
  <2> HIDE DEF N, B, p, b, new, a, u, c, w
  <2>7. [k \in Bars(g) |-> c[(new - k) % N]]
          = [k \in Bars(g) |-> IF k < a - u THEN 0 ELSE w[k - (a - u)]]
    BY <2>6
  <2> QED BY <2>3, <2>7 DEF N, B, a, u, c, w
<1> QED BY <1>3 DEF Window, Abstract!Slide, Abstract!Units, Bars

(* A rotation sets the clock of the window.                              *)
LEMMA WindowRotate ==
  ASSUME GraphInv, ~AllowLongGaps, NEW t \in Time, graph_rotate(t)
  PROVE  Abstract!SetClock(t)
<1>1. last_real' = t /\ file' = file /\ pos' = [g \in Graph |-> localtime(g, t)]
  BY RotateTypes
<1>2. Window(file.bars, file.pos)' = Window(file.bars, file.pos) /\ file'.last_real = file.last_real
  BY <1>1 DEF Window
<1>3. CASE first_rotate(t)
  <2>1. last_real = 0 /\ bars' = bars /\ Empty(bars)
    BY <1>3 DEF first_rotate, GraphInv, NotSet
  <2>2. \A g \in Graph : pos[g] \in Bars(g) /\ pos'[g] \in Bars(g)
    BY <1>1, LocaltimeType DEF GraphInv, TypeOK
  <2>3. Window(bars, pos) = Abstract!Quiet /\ Window(bars, pos') = Abstract!Quiet
    BY <2>1, <2>2, WindowQuiet
  <2>4. Window(bars, pos)' = Window(bars, pos)
    BY <2>1, <2>3 DEF Window
  <2> QED BY <1>1, <1>2, <2>1, <2>4 DEF Abstract!SetClock
<1>4. CASE same_second(t)
  <2>1. Window(bars, pos)' = Window(bars, pos) /\ t <= last_real
    <3>1. t = last_real /\ bars' = bars /\ pos' = pos /\ t \in Nat
      BY <1>4, Constants DEF same_second
    <3> QED BY <3>1 DEF Window
  <2> QED BY <1>1, <1>2, <2>1 DEF Abstract!SetClock
<1>5. CASE graph_resync(t)
  <2>1. t <= last_real
    <3>1. t < last_real /\ t \in Nat /\ last_real \in Nat
      BY <1>5, Constants DEF graph_resync, GraphInv, TypeOK
    <3> QED BY <3>1
  <2> QED BY <1>1, <1>2, <1>5, <2>1, WindowBack DEF Abstract!SetClock
<1>6. CASE rotate_forward(t)
  <2>1. ~(last_real = 0 \/ t <= last_real)
    <3>1. last_real # 0 /\ t > last_real /\ t \in Nat /\ last_real \in Nat
      BY <1>6, Constants DEF rotate_forward, GraphInv, TypeOK
    <3> QED BY <3>1
  <2> QED BY <1>1, <1>2, <1>6, <2>1, WindowForward DEF Abstract!SetClock
<1> QED BY <1>3, <1>4, <1>5, <1>6 DEF graph_rotate

(* At the start both the rings and the window are empty.                 *)
LEMMA InitImplements ==
  ASSUME Init PROVE Abstract!Init
<1>1. /\ bars = NoBars /\ pos = [g \in Graph |-> 0] /\ last_real = 0
      /\ file.bars = NoBars /\ file.pos = pos /\ file.last_real = 0
  BY DEF Init
<1>2. Window(bars, pos) = Abstract!Quiet /\ Window(file.bars, file.pos) = Abstract!Quiet
  BY <1>1, Constants, NoBarsType, WindowQuiet
<1> QED BY <1>1, <1>2 DEF Abstract!Init

(* Every step of the rings is one of the window, or leaves it as it is.  *)
LEMMA StepImplements ==
  ASSUME GraphInv, ~AllowLongGaps, [Next]_vars
  PROVE  \/ Abstract!Next
         \/ /\ Window(bars, pos)' = Window(bars, pos) /\ last_real' = last_real
            /\ Window(file.bars, file.pos)' = Window(file.bars, file.pos)
            /\ file'.last_real = file.last_real
<1>p. \A g \in Graph : pos[g] \in Bars(g) /\ file.pos[g] \in Bars(g)
  BY DEF GraphInv, TypeOK, FileOK
<1>q. file' = file => /\ Window(file.bars, file.pos)' = Window(file.bars, file.pos)
                      /\ file'.last_real = file.last_real
  BY DEF Window
<1>1. ASSUME NEW d \in Dir, NEW n \in 1..MaxBytes, graph_acct(d, n) PROVE Abstract!Next
  <2>1. n \in 0..MaxBytes
    BY Constants
  <2> QED BY <1>1, <2>1, WindowAcct DEF Abstract!Next, Abstract!Amount
<1>2. ASSUME NEW t \in Time, graph_rotate(t) PROVE Abstract!Next
  BY <1>2, WindowRotate DEF Abstract!Next
<1>3. CASE graph_reset
  <2>1. bars' = NoBars /\ pos' = pos /\ last_real' = 0 /\ file' = file
    BY <1>3 DEF graph_reset
  <2>2. Window(NoBars, pos) = Abstract!Quiet
    BY <1>p, NoBarsType, WindowQuiet
  <2>3. Window(bars, pos)' = Abstract!Quiet
    BY <2>1, <2>2 DEF Window
  <2> QED BY <1>q, <2>1, <2>3 DEF Abstract!Next, Abstract!Reset
<1>4. CASE graph_export
  <2>1. /\ file'.bars = bars /\ file'.pos = pos /\ file'.last_real = last_real
        /\ UNCHANGED <<bars, pos, last_real>>
    BY <1>4 DEF graph_export
  <2>2. /\ Window(file.bars, file.pos)' = Window(bars, pos)
        /\ Window(bars, pos)' = Window(bars, pos)
    BY <2>1 DEF Window
  <2> QED BY <2>1, <2>2 DEF Abstract!Next, Abstract!Export
<1>5. CASE graph_import
  <2>1. bars' = file.bars /\ pos' = file.pos /\ last_real' = file.last_real /\ file' = file
    BY <1>5 DEF graph_import
  <2>2. Window(bars, pos)' = Window(file.bars, file.pos)
    BY <2>1 DEF Window
  <2> QED BY <1>q, <2>1, <2>2 DEF Abstract!Next, Abstract!Import
<1>6. CASE restart_empty
  <2>1. bars' = NoBars /\ last_real' = 0 /\ file' = file
    BY <1>6 DEF restart_empty
  <2>2. PICK S \in SUBSET Graph :
          pos' = [g \in Graph |-> IF g \in S THEN file.pos[g] ELSE 0]
    BY <1>6 DEF restart_empty
  <2>3. \A g \in Graph : pos'[g] \in Bars(g)
    BY <1>p, <2>2, Constants
  <2>4. Window(NoBars, pos') = Abstract!Quiet
    BY <2>3, NoBarsType, WindowQuiet
  <2>5. Window(bars, pos)' = Abstract!Quiet
    BY <2>1, <2>4 DEF Window
  <2> QED BY <1>q, <2>1, <2>5 DEF Abstract!Next, Abstract!Reset
<1>7. CASE UNCHANGED vars
  BY <1>7 DEF vars, Window
<1> QED BY <1>1, <1>2, <1>3, <1>4, <1>5, <1>6, <1>7 DEF Next

(* The rings implement the sliding windows: whatever advance, rotate, the*)
(* accounting, a reset or an import do, the bar k places before the      *)
(* current one holds the traffic of k units ago; for graphs of any number*)
(* of bars of any length and any times, as long as no gap is a LongGap.  *)
THEOREM GraphImplementsWindow ==
  ASSUME ~AllowLongGaps
  PROVE  Spec => ImplementsWindow
<1>1. Init => Abstract!Init
  BY InitImplements
<1>2. GraphInv /\ [Next]_vars =>
        [Abstract!Next]_<<Window(bars, pos), last_real,
                          [window |-> Window(file.bars, file.pos), last |-> file.last_real]>>
  BY StepImplements
<1> QED BY <1>1, <1>2, GraphIsRight, PTL DEF Spec, ImplementsWindow, Abstract!Spec
=============================================================================
