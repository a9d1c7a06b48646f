------------------------------- MODULE Counting -------------------------------
(***************************************************************************)
(* What the proofs about loops and rings rest on: counting up, and the     *)
(* remainders of division.                                                 *)
(***************************************************************************)
EXTENDS Integers, WellFoundedInduction, TLAPS

\* Every nonempty set of natural numbers has a least element.
LEMMA LeastNumber ==
  ASSUME NEW T, T \subseteq Nat, T # {}
  PROVE  \E x \in T : \A y \in T : x <= y
<1> DEFINE R == OpToRel(<, Nat)
<1>1. IsWellFoundedOn(R, Nat)
  BY NatLessThanWellFounded
<1>2. \A x, y \in Nat : x < y => <<x, y>> \in R
  BY DEF OpToRel
<1> HIDE DEF R
<1>3. PICK x \in T : \A y \in T : ~ (<<y, x>> \in R)
  BY <1>1, WFMin
<1>4. ASSUME NEW y \in T PROVE x <= y
  <2>1. x \in Nat /\ y \in Nat /\ ~ (y < x)
    BY <1>2, <1>3
  <2> QED
    BY <2>1
<1> QED
  BY <1>4

\* Whatever holds of 0 and, if of k, also of k + 1, holds up to n.
LEMMA CountUp ==
  ASSUME NEW n \in Nat, NEW Good, 0 \in Good, \A k \in 0..(n - 1) : k \in Good => k + 1 \in Good
  PROVE  \A k \in 0..n : k \in Good
<1> DEFINE Bad == {k \in 0..n : k \notin Good}
<1> SUFFICES ASSUME Bad # {} PROVE FALSE
  OBVIOUS
<1>1. Bad \subseteq Nat
  OBVIOUS
<1>2. PICK m \in Bad : \A k \in Bad : m <= k
  <2> HIDE DEF Bad
  <2> QED
    BY <1>1, LeastNumber
<1>3. m \in 1..n
  BY <1>2
<1>4. m - 1 \in 0..(n - 1) /\ m - 1 \in Good
  BY <1>2, <1>3
<1>5. (m - 1) + 1 \in Good
  BY <1>4
<1> QED
  BY <1>2, <1>3, <1>5

-----------------------------------------------------------------------------
(* A place in a ring of m.                                                 *)

LEMMA DivMod ==
  ASSUME NEW x \in Int, NEW m \in Nat \ {0}
  PROVE  x \div m \in Int /\ x % m \in 0..(m - 1) /\ x = m * (x \div m) + (x % m)
OBVIOUS

LEMMA DivModUnique ==
  ASSUME NEW x \in Int, NEW m \in Nat \ {0}, NEW q \in Int, NEW r \in 0..(m - 1), x = m * q + r
  PROVE  q = x \div m /\ r = x % m
OBVIOUS

\* The next place, or the first one after the last.
LEMMA ModNext ==
  ASSUME NEW x \in Int, NEW m \in Nat \ {0}
  PROVE  (x + 1) % m = IF x % m = m - 1 THEN 0 ELSE (x % m) + 1
<1> DEFINE q == x \div m
           r == x % m
<1>1. q \in Int /\ r \in 0..(m - 1) /\ x = m * q + r
  BY DivMod
<1> HIDE DEF q, r
<1>2. CASE r = m - 1
  <2>1. q + 1 \in Int /\ 0 \in 0..(m - 1) /\ x + 1 = m * (q + 1) + 0 /\ x + 1 \in Int
    BY <1>1, <1>2
  <2> QED
    BY <1>2, <2>1, DivModUnique DEF r
<1>3. CASE r # m - 1
  <2>1. r + 1 \in 0..(m - 1) /\ x + 1 = m * q + (r + 1) /\ x + 1 \in Int
    BY <1>1, <1>3
  <2>2. r + 1 = (x + 1) % m
    BY <1>1, <2>1, DivModUnique
  <2> QED
    BY <1>3, <2>2 DEF r
<1> QED
  BY <1>2, <1>3

\* Once around.
LEMMA ModAround ==
  ASSUME NEW x \in Int, NEW m \in Nat \ {0}
  PROVE  (x - m) % m = x % m
<1> DEFINE q == x \div m
           r == x % m
<1>1. q \in Int /\ r \in 0..(m - 1) /\ x = m * q + r
  BY DivMod
<1> HIDE DEF q, r
<1>2. q - 1 \in Int /\ x - m = m * (q - 1) + r /\ x - m \in Int
  BY <1>1
<1>3. r = (x - m) % m
  BY <1>1, <1>2, DivModUnique
<1> QED
  BY <1>3 DEF r

\* Fewer than m steps do not come back to the same place.
LEMMA ModApart ==
  ASSUME NEW x \in Int, NEW y \in Int, NEW m \in Nat \ {0}, x < y, y < x + m
  PROVE  x % m # y % m
<1> DEFINE q == x \div m
           r == x % m
           u == y \div m
<1> SUFFICES ASSUME x % m = y % m PROVE FALSE
  OBVIOUS
<1>1. q \in Int /\ r \in 0..(m - 1) /\ x = m * q + r
  BY DivMod
<1>2. u \in Int /\ y = m * u + r
  BY DivMod
<1> HIDE DEF q, r, u
<1>3. PICK d \in Int : d = u - q /\ y - x = m * d
  BY <1>1, <1>2
<1>4. 0 < m * d /\ m * d < m
  BY <1>3
<1>5. CASE d <= 0
  BY <1>4, <1>5
<1>6. CASE d >= 1
  BY <1>4, <1>6
<1> QED
  BY <1>3, <1>5, <1>6

\* A number below m is its own place.
LEMMA ModSmall ==
  ASSUME NEW m \in Nat \ {0}, NEW x \in 0..(m - 1)
  PROVE  x % m = x
<1>1. x \in Int /\ 0 \in Int /\ x = m * 0 + x
  OBVIOUS
<1> QED
  BY <1>1, DivModUnique

\* In a ring of pairs the pair's place is twice that in the ring of the pairs.
LEMMA ModPairs ==
  ASSUME NEW k \in Int, NEW e \in Nat \ {0}, NEW b \in {0, 1}
  PROVE  /\ (2 * k + b) % (2 * e) = 2 * (k % e) + b
         /\ 2 * (((2 * k + b) % (2 * e)) \div 2) = 2 * (k % e)
<1> DEFINE q == k \div e
           r == k % e
<1>1. q \in Int /\ r \in 0..(e - 1) /\ k = e * q + r
  BY DivMod
<1> HIDE DEF q, r
<1>2. /\ 2 * e \in Nat \ {0} /\ 2 * r + b \in 0..(2 * e - 1) /\ 2 * k + b \in Int
      /\ 2 * k + b = (2 * e) * q + (2 * r + b)
  BY <1>1
<1>3. 2 * r + b = (2 * k + b) % (2 * e)
  BY <1>1, <1>2, DivModUnique
<1>4. (2 * r + b) \div 2 = r
  BY <1>1
<1> QED
  BY <1>3, <1>4 DEF r

-----------------------------------------------------------------------------
\* A recursive function that takes n steps through X exists.
Steps(n, X, s, Step) == n \in Nat /\ s \in X /\ Step \in [1..n -> [X -> X]]
Taken(g, n, X, s, Step) == g \in [0..n -> X] /\ \A k \in 0..n : g[k] = IF k = 0 THEN s ELSE Step[k][g[k - 1]]
LEMMA StepByStep ==
  ASSUME NEW n, NEW X, NEW s, NEW Step, Steps(n, X, s, Step)
  PROVE  \E g : Taken(g, n, X, s, Step)
<1> USE DEF Steps
<1> DEFINE Is(g, m) == g = [k \in 0..m |-> IF k = 0 THEN s ELSE Step[k][g[k - 1]]] /\ g \in [0..m -> X]
           Good == {m \in 0..n : \E g : Is(g, m)}
<1>1. 0 \in Good
  <2> DEFINE g == [k \in 0..0 |-> s]
  <2>1. g = [k \in 0..0 |-> IF k = 0 THEN s ELSE Step[k][g[k - 1]]] /\ g \in [0..0 -> X]
    OBVIOUS
  <2>2. \E h : Is(h, 0)
    BY <2>1
  <2> QED
    BY <2>2
<1>2. ASSUME NEW m \in 0..(n - 1), m \in Good PROVE m + 1 \in Good
  <2>1. PICK g : Is(g, m)
    BY <1>2
  <2>2. g \in [0..m -> X] /\ m \in 0..m /\ m + 1 \in 1..n
    BY <2>1
  <2>3. Step[m + 1][g[m]] \in X
    BY <2>2
  <2> DEFINE h == [k \in 0..(m + 1) |-> IF k = m + 1 THEN Step[m + 1][g[m]] ELSE g[k]]
  <2>4. \A k \in 0..m : g[k] = IF k = 0 THEN s ELSE Step[k][g[k - 1]]
    BY <2>1
  <2>5. ASSUME NEW k \in 0..(m + 1)
        PROVE  h[k] = (IF k = 0 THEN s ELSE Step[k][h[k - 1]]) /\ h[k] \in X
    <3>1. CASE k = m + 1
      <4>1. k # 0 /\ k - 1 = m /\ h[k - 1] = g[m]
        BY <3>1
      <4> QED
        BY <2>3, <3>1, <4>1
    <3>2. CASE k # m + 1
      <4>1. k \in 0..m /\ h[k] = g[k] /\ (k # 0 => h[k - 1] = g[k - 1])
        BY <3>2
      <4> QED
        BY <2>2, <2>4, <4>1
    <3> QED
      BY <3>1, <3>2
  <2>6. Is(h, m + 1)
    BY <2>5
  <2> HIDE DEF h, Is
  <2> QED
    BY <2>2, <2>6
<1>3. n \in Good
  <2> HIDE DEF Good
  <2>1. \A m \in 0..n : m \in Good
    BY <1>1, <1>2, CountUp
  <2> QED
    BY <2>1
<1>4. PICK g : Is(g, n)
  BY <1>3
<1>5. \A k \in 0..n : g[k] = IF k = 0 THEN s ELSE Step[k][g[k - 1]]
  BY <1>4
<1>6. g \in [0..n -> X]
  BY <1>4
<1> QED
  BY <1>5, <1>6 DEF Taken

\* Where the last n of C things are in a ring of e.
Place(C, e, n, i) == (((C - n) + i) - 1) % e
Held(C, e, n) == C \in Nat \ {0} /\ e \in Nat \ {0} /\ n = IF C < e THEN C ELSE e
LEMMA LastInRing ==
  ASSUME NEW C, NEW e, NEW n, Held(C, e, n)
  PROVE  /\ \A i \in 1..n : Place(C, e, n, i) \in 0..(n - 1)
         /\ \A j \in 0..(n - 1) : \E i \in 1..n : Place(C, e, n, i) = j
         /\ Place(C, e, n, n) = (C - 1) % e
         /\ Place(C, e, n, 1) = IF C < e THEN 0 ELSE C % e
         /\ \A i \in 1..(n - 1) : /\ Place(C, e, n, i) # (C - 1) % e
                                  /\ (Place(C, e, n, i) + 1) % e = Place(C, e, n, i + 1)
<1> USE DEF Held
<1> DEFINE B == C - n
<1>0. n \in 1..e /\ n <= C /\ B \in Nat /\ C - n = B /\ B + n = C
  OBVIOUS
<1>1. \A x \in Int : x % e \in 0..(e - 1)
  BY DivMod
<1>2. \A x \in 0..(e - 1) : x % e = x
  BY ModSmall
<1> HIDE DEF B
<1>3. Place(C, e, n, n) = (C - 1) % e
  BY <1>0 DEF Place
<1>4. ASSUME NEW i \in 1..(n - 1)
      PROVE  /\ Place(C, e, n, i) # (C - 1) % e
             /\ (Place(C, e, n, i) + 1) % e = Place(C, e, n, i + 1)
  <2>1. PICK x \in Int : x = (B + i) - 1
    BY <1>0
  <2>2. PICK y \in Int : y = C - 1
    OBVIOUS
  <2>3. x < y /\ y < x + e /\ (B + (i + 1)) - 1 = x + 1
    BY <1>0, <2>1, <2>2
  <2>4. x % e # y % e
    BY <2>3, ModApart
  <2>5. (x + 1) % e = IF x % e = e - 1 THEN 0 ELSE (x % e) + 1
    <3>1. x \in Int /\ e \in Nat \ {0}
      OBVIOUS
    <3> QED
      BY ONLY <3>1, ModNext
  <2>6. ((x % e) + 1) % e = IF x % e = e - 1 THEN 0 ELSE (x % e) + 1
    <3>1. PICK r \in 0..(e - 1) : r = x % e
      BY <1>1
    <3>2. (r + 1) % e = IF r % e = e - 1 THEN 0 ELSE (r % e) + 1
      <4>1. r \in Int /\ e \in Nat \ {0}
        BY <1>0
      <4> QED
        BY ONLY <4>1, ModNext
    <3> QED
      BY <1>2, <3>1, <3>2
  <2> QED
    BY <1>0, <2>1, <2>2, <2>3, <2>4, <2>5, <2>6 DEF Place
<1>5. CASE C < e
  <2>1. n = C /\ B = 0 /\ \A i \in 1..n : (B + i) - 1 \in 0..(e - 1) /\ (B + i) - 1 = i - 1 /\ i - 1 \in 0..(n - 1)
    BY <1>0, <1>5
  <2>2. \A i \in 1..n : Place(C, e, n, i) = i - 1
    BY <1>0, <1>2, <2>1 DEF Place
  <2>3. \A j \in 0..(n - 1) : j + 1 \in 1..n /\ (j + 1) - 1 = j
    BY <1>0
  <2> QED
    BY <1>0, <1>3, <1>4, <1>5, <2>1, <2>2, <2>3
<1>6. CASE ~ (C < e)
  <2>1. n = e /\ B = C - e
    BY <1>0, <1>6
  <2>2. \A i \in 1..n : (B + i) - 1 \in Int
    BY <1>0
  <2>3. \A i \in 1..n : Place(C, e, n, i) \in 0..(n - 1)
    BY <1>0, <1>1, <2>1, <2>2 DEF Place
  <2>4. ASSUME NEW j \in 0..(n - 1) PROVE \E i \in 1..n : Place(C, e, n, i) = j
    <3> DEFINE q == (j - B) \div e
               r == (j - B) % e
    <3>1. q \in Int /\ r \in 0..(e - 1) /\ j - B = e * q + r
      BY <1>0, DivMod
    <3> HIDE DEF q, r
    <3>2. j \in 0..(e - 1) /\ B + r \in Int /\ 0 - q \in Int /\ B + r = e * (0 - q) + j
      BY <1>0, <2>1, <3>1
    <3>3. j = (B + r) % e
      BY <3>2, DivModUnique
    <3>4. r + 1 \in 1..n /\ (B + (r + 1)) - 1 = B + r
      BY <1>0, <2>1, <3>1
    <3> QED
      BY <1>0, <3>3, <3>4 DEF Place
  <2>5. Place(C, e, n, 1) = C % e
    <3>1. (C - e) % e = C % e
      <4>1. C \in Int /\ e \in Nat \ {0}
        OBVIOUS
      <4> QED
        BY <4>1, ModAround
    <3>2. (B + 1) - 1 = C - e
      BY <1>0, <2>1
    <3> QED
      BY <1>0, <3>1, <3>2 DEF Place
  <2> QED
    BY <1>3, <1>4, <1>6, <2>3, <2>4, <2>5
<1> QED
  BY <1>5, <1>6
=============================================================================
