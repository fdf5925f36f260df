----------------------------- MODULE Induction -----------------------------
(***************************************************************************)
(* Induction over the natural numbers, for sets of numbers: what the walks *)
(* along the kernel's linked structures visit, and where they end.         *)
(***************************************************************************)
EXTENDS Integers, FiniteSets, FiniteSetTheorems, WellFoundedInduction, TLAPS

Less == {ss \in Nat \X Nat : ss[1] < ss[2]}

(* A set of numbers that is not empty has a least one.                     *)
LEMMA LeastNumber ==
  ASSUME NEW T, T \subseteq Nat, T # {}
  PROVE  \E x \in T : \A y \in T : x =< y
<1>1. IsWellFoundedOn(Less, Nat)
  BY NatLessThanWellFounded DEF OpToRel, Less
<1>2. \E x \in T : \A y \in T : ~(<<y, x>> \in Less)
  BY <1>1, WFMin, Zenon
<1>3. \A x, y \in Nat : ~(<<y, x>> \in Less) => x =< y
  BY DEF Less
<1> HIDE DEF Less
<1>4. QED
  BY <1>2, <1>3

(* ... and a greatest one, if there is a bound.                            *)
LEMMA GreatestNumber ==
  ASSUME NEW T, T \subseteq Nat, T # {},
         NEW b \in Nat, \A x \in T : x =< b
  PROVE  \E x \in T : \A y \in T : y =< x
<1> DEFINE D == {d \in Nat : \E x \in T : d + x = b}
<1>1. PICK t \in T : TRUE
  OBVIOUS
<1>2. t \in Nat /\ t =< b
  BY <1>1
<1>3. b - t \in Nat /\ (b - t) + t = b
  BY <1>2
<1>4. D \subseteq Nat /\ D # {}
  BY <1>1, <1>3
<1>5. PICK d \in D : \A e \in D : d =< e
  <2> HIDE DEF D
  <2> QED
    BY <1>4, LeastNumber
<1>6. PICK x \in T : d + x = b
  BY <1>5
<1>7. ASSUME NEW y \in T PROVE y =< x
  <2>1. y \in Nat /\ y =< b /\ x \in Nat /\ d \in Nat
    BY <1>5
  <2>2. b - y \in Nat /\ (b - y) + y = b
    BY <2>1
  <2>3. b - y \in D
    BY <2>2
  <2>4. d =< b - y
    BY <1>5, <2>3
  <2>5. QED
    BY <1>6, <2>1, <2>4
<1>8. QED
  BY <1>7

(* A set with zero and with the successors of its numbers has them all.    *)
LEMMA SetInduction ==
  ASSUME NEW S, 0 \in S, \A n \in Nat : n \in S => n + 1 \in S
  PROVE  Nat \subseteq S
<1>1. SUFFICES ASSUME Nat \ S # {} PROVE FALSE
  OBVIOUS
<1>2. Nat \ S \subseteq Nat
  OBVIOUS
<1>3. PICK x \in Nat \ S : \A y \in Nat \ S : x =< y
  BY <1>1, <1>2, LeastNumber
<1>4. x # 0 /\ x - 1 \in Nat
  BY <1>3
<1>5. x - 1 \in S
  BY <1>3, <1>4
<1>6. QED
  BY <1>3, <1>4, <1>5

(* Functions on 0 .. N that start alike and go on alike are the same.      *)
GoAlike(f, g, N) ==
  /\ f[0] = g[0]
  /\ \A n \in 1 .. N : f[n - 1] = g[n - 1] => f[n] = g[n]

LEMMA SameValues ==
  ASSUME NEW N \in Nat, NEW f, NEW g, GoAlike(f, g, N)
  PROVE  \A n \in 0 .. N : f[n] = g[n]
<1> DEFINE S == {n \in Nat : n =< N => f[n] = g[n]}
<1>1. 0 \in S
  BY DEF GoAlike
<1>2. ASSUME NEW n \in Nat, n \in S PROVE n + 1 \in S
  <2>1. CASE n + 1 =< N
    <3>1. n + 1 \in 1 .. N /\ (n + 1) - 1 = n /\ n =< N
      BY <2>1
    <3>2. f[n] = g[n]
      BY <1>2, <3>1
    <3>3. f[n + 1] = g[n + 1]
      BY <3>1, <3>2 DEF GoAlike
    <3>4. QED
      BY <3>3
  <2>2. QED
    BY <2>1
<1>3. Nat \subseteq S
  <2> HIDE DEF S
  <2>1. QED
    BY <1>1, <1>2, SetInduction
<1>4. QED
  BY <1>3

(* ... and functions on 1 .. N.                                            *)
GoAlikeFromOne(f, g, N) ==
  /\ f[1] = g[1]
  /\ \A n \in 2 .. N : f[n - 1] = g[n - 1] => f[n] = g[n]

LEMMA SameFromOne ==
  ASSUME NEW N \in Nat, NEW f, NEW g, GoAlikeFromOne(f, g, N)
  PROVE  \A n \in 1 .. N : f[n] = g[n]
<1> DEFINE S == {n \in Nat : n + 1 =< N => f[n + 1] = g[n + 1]}
<1>1. 0 \in S
  BY DEF GoAlikeFromOne
<1>2. ASSUME NEW n \in Nat, n \in S PROVE n + 1 \in S
  <2>1. CASE n + 2 =< N
    <3>1. n + 2 \in 2 .. N /\ (n + 2) - 1 = n + 1 /\ n + 1 =< N
      BY <2>1
    <3>2. f[n + 2] = g[n + 2]
      BY <1>2, <3>1 DEF GoAlikeFromOne
    <3>3. (n + 1) + 1 = n + 2
      OBVIOUS
    <3>4. QED
      BY <3>2, <3>3
  <2>2. CASE ~(n + 2 =< N)
    BY <2>2
  <2>3. QED
    BY <2>1, <2>2
<1>3. Nat \subseteq S
  <2> HIDE DEF S
  <2>1. QED
    BY <1>1, <1>2, SetInduction
<1>4. ASSUME NEW n \in 1 .. N PROVE f[n] = g[n]
  <2>1. n - 1 \in Nat /\ (n - 1) + 1 = n /\ n =< N
    OBVIOUS
  <2>2. n - 1 \in S
    <3> HIDE DEF S
    <3>1. QED
      BY <1>3, <2>1
  <2>3. QED
    BY <2>1, <2>2
<1>5. QED
  BY <1>4

(* The function on 0 .. N that starts with a and goes on by step.          *)
Recurs(g, a, step, N) ==
  g = [n \in 0 .. N |-> IF n = 0 THEN a ELSE step[<<n, g[n - 1]>>]]

(* It exists: its definition defines it.                                   *)
LEMMA Recursion ==
  ASSUME NEW V, NEW a \in V, NEW step \in [Nat \X V -> V], NEW N \in Nat
  PROVE  \E g \in [0 .. N -> V] : Recurs(g, a, step, N)
<1> DEFINE S == {k \in Nat : \E g \in [0 .. k -> V] :
             /\ g[0] = a
             /\ \A n \in 1 .. k : g[n] = step[<<n, g[n - 1]>>]}
<1>1. 0 \in S
  <2>1. PICK g : g = [n \in 0 .. 0 |-> a]
    OBVIOUS
  <2>2. g \in [0 .. 0 -> V] /\ g[0] = a
    BY <2>1
  <2>3. \A n \in 1 .. 0 : g[n] = step[<<n, g[n - 1]>>]
    OBVIOUS
  <2>4. QED
    BY <2>2, <2>3
<1>2. ASSUME NEW k \in Nat, k \in S PROVE k + 1 \in S
  <2>1. PICK g \in [0 .. k -> V] :
          /\ g[0] = a
          /\ \A n \in 1 .. k : g[n] = step[<<n, g[n - 1]>>]
    BY <1>2
  <2> DEFINE h == [n \in 0 .. k + 1 |->
                     IF n = k + 1 THEN step[<<n, g[k]>>] ELSE g[n]]
  <2>2. g[k] \in V /\ step[<<k + 1, g[k]>>] \in V
    OBVIOUS
  <2>3. h \in [0 .. k + 1 -> V]
    BY <2>2
  <2>4. h[0] = a
    BY <2>1
  <2>5. ASSUME NEW n \in 1 .. k + 1 PROVE h[n] = step[<<n, h[n - 1]>>]
    <3>1. h[n - 1] = g[n - 1]
      OBVIOUS
    <3>2. CASE n = k + 1
      BY <3>1, <3>2
    <3>3. CASE n # k + 1
      BY <2>1, <3>1, <3>3
    <3>4. QED
      BY <3>2, <3>3
  <2>6. QED
    <3> HIDE DEF h
    <3>1. QED
      BY <2>3, <2>4, <2>5
<1>3. Nat \subseteq S
  <2> HIDE DEF S
  <2>1. QED
    BY <1>1, <1>2, SetInduction
<1>4. PICK g \in [0 .. N -> V] :
        /\ g[0] = a
        /\ \A n \in 1 .. N : g[n] = step[<<n, g[n - 1]>>]
  BY <1>3
<1>5. g = [n \in 0 .. N |-> g[n]]
  OBVIOUS
<1>6. \A n \in 0 .. N : g[n] = IF n = 0 THEN a ELSE step[<<n, g[n - 1]>>]
  BY <1>4
<1>7. QED
  BY <1>5, <1>6 DEF Recurs

----------------------------------------------------------------------------
(* A walk through a finite set that climbs at every step until it is at    *)
(* null: it comes back to no element, so it is at null after as many steps *)
(* as there are elements.                                                  *)
Climbs(W, N, r, null) ==
  \A n \in 1 .. N : W[n] # null => W[n - 1] # null /\ r[W[n - 1]] < r[W[n]]

LEMMA ClimbIsOrdered ==
  ASSUME NEW D, NEW null, null \notin D, NEW N \in Nat,
         NEW W \in [0 .. N -> D \cup {null}], NEW r \in [D -> Nat],
         Climbs(W, N, r, null)
  PROVE  \A n \in 0 .. N : \A m \in 0 .. N :
           m < n /\ W[n] # null => W[m] # null /\ r[W[m]] < r[W[n]]
<1> DEFINE S == {n \in Nat : n =< N => \A m \in 0 .. N : m < n /\ W[n] # null
                               => W[m] # null /\ r[W[m]] < r[W[n]]}
<1>1. 0 \in S
  OBVIOUS
<1>2. ASSUME NEW n \in Nat, n \in S PROVE n + 1 \in S
  <2>1. SUFFICES ASSUME n + 1 =< N, W[n + 1] # null,
                        NEW m \in 0 .. N, m < n + 1
                 PROVE  W[m] # null /\ r[W[m]] < r[W[n + 1]]
    OBVIOUS
  <2>2. n + 1 \in 1 .. N /\ (n + 1) - 1 = n /\ n \in 0 .. N /\ n =< N
    BY <2>1
  <2>3. W[n] # null /\ r[W[n]] < r[W[n + 1]]
    BY <2>1, <2>2 DEF Climbs
  <2>4. W[n] \in D /\ W[n + 1] \in D
    BY <2>1, <2>2, <2>3
  <2>5. CASE m = n
    BY <2>3, <2>5
  <2>6. CASE m # n
    <3>1. m < n
      BY <2>1, <2>6
    <3>2. W[m] # null /\ r[W[m]] < r[W[n]]
      BY <1>2, <2>2, <2>3, <3>1
    <3>3. W[m] \in D
      BY <3>2
    <3>4. r[W[m]] \in Nat /\ r[W[n]] \in Nat /\ r[W[n + 1]] \in Nat
      BY <2>4, <3>3
    <3>5. QED
      BY <2>3, <3>2, <3>4
  <2>7. QED
    BY <2>5, <2>6
<1>3. Nat \subseteq S
  <2> HIDE DEF S
  <2>1. QED
    BY <1>1, <1>2, SetInduction
<1>4. QED
  BY <1>3

LEMMA ClimbEnds ==
  ASSUME NEW D, IsFiniteSet(D), NEW null, null \notin D, NEW N \in Nat,
         N = Cardinality(D),
         NEW W \in [0 .. N -> D \cup {null}], NEW r \in [D -> Nat],
         Climbs(W, N, r, null)
  PROVE  W[N] = null
<1>1. SUFFICES ASSUME W[N] # null PROVE FALSE
  OBVIOUS
<1>2. \A n \in 0 .. N : \A m \in 0 .. N :
           m < n /\ W[n] # null => W[m] # null /\ r[W[m]] < r[W[n]]
  BY ClimbIsOrdered, Zenon
<1>3. \A n \in 0 .. N : W[n] \in D
  <2>1. \A m \in 0 .. N : m < N => W[m] # null
    BY <1>1, <1>2
  <2>2. QED
    BY <1>1, <2>1
<1>4. W \in [0 .. N -> D]
  BY <1>3
<1>5. IsFiniteSet(0 .. N) /\ Cardinality(0 .. N) = N + 1
  BY FS_Interval
<1>6. Cardinality(D) < Cardinality(0 .. N)
  BY <1>5
<1>7. PICK x, y \in 0 .. N : x # y /\ W[x] = W[y]
  BY <1>4, <1>5, <1>6, FS_PigeonHole
<1>8. r[W[x]] \in Nat
  BY <1>4
<1>9. CASE x < y
  BY <1>2, <1>3, <1>7, <1>8, <1>9
<1>10. CASE y < x
  BY <1>2, <1>3, <1>7, <1>8, <1>10
<1>11. QED
  BY <1>7, <1>9, <1>10

(* ... and it has passed as many elements as it has taken steps.           *)
LEMMA ClimbLength ==
  ASSUME NEW D, IsFiniteSet(D), NEW null, null \notin D, NEW N \in Nat,
         N = Cardinality(D),
         NEW W \in [0 .. N -> D \cup {null}], NEW r \in [D -> Nat],
         Climbs(W, N, r, null), W[0] # null
  PROVE  LET P == {W[n] : n \in 0 .. N} \ {null}
         IN  /\ Cardinality(P) \in 1 .. N
             /\ W[Cardinality(P)] = null
             /\ W[Cardinality(P) - 1] # null
<1> DEFINE P == {W[n] : n \in 0 .. N} \ {null}
           Z == {n \in 0 .. N : W[n] = null}
<1>1. \A n \in 0 .. N : \A m \in 0 .. N :
        m < n /\ W[n] # null => W[m] # null /\ r[W[m]] < r[W[n]]
  BY ClimbIsOrdered, Zenon
<1>2. N \in Z
  BY ClimbEnds
<1>3. PICK k \in Z : \A n \in Z : k =< n
  <2>1. Z \subseteq Nat /\ Z # {}
    BY <1>2
  <2>2. QED
    <3> HIDE DEF Z
    <3>1. QED
      BY <2>1, LeastNumber
<1>4. k \in 1 .. N /\ W[k] = null
  BY <1>3
<1>5. \A n \in 0 .. k - 1 : W[n] \in D
  BY <1>3, <1>4
<1>6. \A n \in 0 .. N : W[n] # null => n \in 0 .. k - 1
  <2>1. SUFFICES ASSUME NEW n \in 0 .. N, W[n] # null, ~(n < k) PROVE FALSE
    BY <1>4
  <2>2. k < n
    BY <1>4, <2>1
  <2>3. QED
    BY <1>1, <1>4, <2>1, <2>2
<1> DEFINE f == [n \in 0 .. k - 1 |-> W[n]]
<1>7. f \in [0 .. k - 1 -> P]
  BY <1>4, <1>5
<1>8. \A x, y \in 0 .. k - 1 : f[x] = f[y] => x = y
  <2>1. SUFFICES ASSUME NEW x \in 0 .. k - 1, NEW y \in 0 .. k - 1,
                        x < y, W[x] = W[y]
                 PROVE  FALSE
    BY <1>4
  <2>2. r[W[x]] < r[W[y]] /\ r[W[x]] \in Nat
    BY <1>1, <1>4, <1>5, <2>1
  <2>3. QED
    BY <2>1, <2>2
<1>9. \A p \in P : \E n \in 0 .. k - 1 : f[n] = p
  BY <1>6
<1>10. f \in Bijection(0 .. k - 1, P)
  <2> HIDE DEF f, P
  <2>1. QED
    BY <1>7, <1>8, <1>9 DEF Bijection, Injection, Surjection, IsInjective
<1>11. ExistsBijection(0 .. k - 1, P)
  BY <1>10 DEF ExistsBijection
<1>12. IsFiniteSet(0 .. k - 1) /\ Cardinality(0 .. k - 1) = k
  <2>1. 0 \in Int /\ k - 1 \in Int /\ ~(0 > k - 1) /\ (k - 1) - 0 + 1 = k
    BY <1>4
  <2>2. QED
    BY <2>1, FS_Interval
<1>13. Cardinality(P) = k
  <2> HIDE DEF f, P
  <2>1. QED
    BY <1>11, <1>12, FS_Bijection
<1>14. W[k - 1] # null
  BY <1>4, <1>5
<1>15. QED
  BY <1>4, <1>13, <1>14
=============================================================================
