------------------------------- MODULE Inductions ------------------------------
(***************************************************************************)
(* Induction over a set of numbers, functions defined by recursion, sums   *)
(* along a sequence, and remainders.                                       *)
(* The theorems of the library are about operators; these are about sets   *)
(* and functions, and can be cited.                                        *)
(***************************************************************************)
EXTENDS Integers, FiniteSetTheorems, TLAPS

\* Every set of numbers has a least one: of the intervals up to each of them one
\* is smallest.
LEMMA Least ==
    ASSUME NEW T \in SUBSET Nat, T # {}
    PROVE  \E x \in T : \A y \in T : x <= y
  <1> DEFINE R == StrictSubsetOrdering(Nat)
             Below(t) == 0..t
             B == {Below(t) : t \in T}
  <1>1. IsWellFoundedOn(R, FiniteSubsetsOf(Nat))
    BY FS_StrictSubsetOrderingWellFounded
  <1>2. \A t \in T : IsFiniteSet(Below(t)) /\ Below(t) \in SUBSET Nat
    BY FS_Interval
  <1>3. B \subseteq FiniteSubsetsOf(Nat) /\ B # {}
    BY <1>2 DEF FiniteSubsetsOf
  <1>4. PICK b \in B : \A c \in B : ~(<<c, b>> \in R)
    <2> HIDE DEF B, R
    <2>1. QED  BY <1>1, <1>3, WFMin
  <1>5. PICK x \in T : b = Below(x)
    BY <1>4
  <1>6. ASSUME NEW y \in T PROVE x <= y
    <2>1. ~(<<Below(y), Below(x)>> \in R)
      BY <1>4, <1>5
    <2>2. SUFFICES ASSUME y < x PROVE FALSE
      OBVIOUS
    <2>3. Below(y) \subseteq Below(x) /\ x \in Below(x) /\ x \notin Below(y)
      BY <2>2
    <2>4. Below(y) \in SUBSET Nat /\ Below(x) \in SUBSET Nat
      BY <1>2
    <2>5. <<Below(y), Below(x)>> \in R
      <3> HIDE DEF Below
      <3>1. QED  BY <2>3, <2>4 DEF StrictSubsetOrdering
    <2>6. QED  BY <2>1, <2>5
  <1>7. QED  BY <1>6

LEMMA SetInduction ==
    ASSUME NEW T, 0 \in T, \A n \in Nat : n \in T => n + 1 \in T
    PROVE  \A n \in Nat : n \in T
  <1> SUFFICES ASSUME NEW n \in Nat, n \notin T PROVE FALSE
    OBVIOUS
  <1> DEFINE U == {k \in Nat : k \notin T}
  <1>1. PICK x \in U : \A y \in U : x <= y
    <2>1. U \in SUBSET Nat /\ U # {}
      OBVIOUS
    <2> HIDE DEF U
    <2>2. QED  BY <2>1, Least
  <1>2. x # 0
    OBVIOUS
  <1>3. x - 1 \in Nat /\ x - 1 \notin U
    BY <1>1, <1>2
  <1>4. QED  BY <1>3

\* f starts at c and each value follows from the one before it.
Follows(f, N, S, c, G) ==
    f \in [0..N -> S] /\ f[0] = c /\ \A k \in 1..N : f[k] = G[<<k, f[k - 1]>>]

LEMMA Recursion ==
    ASSUME NEW N \in Nat, NEW S, NEW c \in S, NEW G \in [(1..N) \X S -> S]
    PROVE  \E f : Follows(f, N, S, c, G)
  <1> DEFINE Is(g, n) == /\ g \in [0..n -> S] /\ g[0] = c
                         /\ \A k \in 1..n : g[k] = G[<<k, g[k - 1]>>]
             T == {n \in Nat : n <= N => \E g : Is(g, n)}
  <1>1. 0 \in T
    <2>1. Is([k \in 0..0 |-> c], 0)
      OBVIOUS
    <2>2. QED  BY <2>1
  <1>2. ASSUME NEW n \in Nat, n \in T PROVE n + 1 \in T
    <2> SUFFICES ASSUME n + 1 <= N PROVE \E g : Is(g, n + 1)
      OBVIOUS
    <2>1. PICK g : Is(g, n)
      BY <1>2
    <2> DEFINE h == [k \in 0..(n + 1) |-> IF k = n + 1 THEN G[<<n + 1, g[n]>>] ELSE g[k]]
    <2>2. g \in [0..n -> S] /\ g[0] = c /\ \A k \in 1..n : g[k] = G[<<k, g[k - 1]>>]
      BY <2>1
    <2>3. g[n] \in S /\ n + 1 \in 1..N
      BY <2>2
    <2>4. <<n + 1, g[n]>> \in (1..N) \X S
      BY <2>3
    <2>5. G[<<n + 1, g[n]>>] \in S
      BY <2>4
    <2>6. ASSUME NEW k \in 0..(n + 1) PROVE h[k] \in S
      <3>1. CASE k = n + 1
        BY <2>5, <3>1
      <3>2. CASE k # n + 1
        <4>1. k \in 0..n
          BY <3>2
        <4>2. QED  BY <2>2, <3>2, <4>1
      <3>3. QED  BY <3>1, <3>2
    <2>7. h \in [0..(n + 1) -> S]
      BY <2>6
    <2>8. h[0] = c
      BY <2>2
    <2>9. ASSUME NEW k \in 1..(n + 1) PROVE h[k] = G[<<k, h[k - 1]>>]
      <3>1. k \in 0..(n + 1) /\ k - 1 \in 0..(n + 1) /\ k - 1 # n + 1
        OBVIOUS
      <3>2. h[k - 1] = g[k - 1]
        BY <3>1
      <3>3. CASE k = n + 1
        <4>1. k - 1 = n
          BY <3>3
        <4>2. QED  BY <3>1, <3>2, <3>3, <4>1
      <3>4. CASE k # n + 1
        <4>1. k \in 1..n
          BY <3>4
        <4>2. h[k] = g[k]
          BY <3>1, <3>4
        <4>3. QED  BY <2>2, <3>2, <4>1, <4>2
      <3>5. QED  BY <3>3, <3>4
    <2> HIDE DEF h
    <2>10. Is(h, n + 1)
      BY <2>7, <2>8, <2>9
    <2>11. QED  BY <2>10
  <1>3. \A n \in Nat : n \in T
    <2> HIDE DEF T
    <2>1. QED  BY <1>1, <1>2, SetInduction
  <1>4. PICK f : Is(f, N)
    <2>1. N \in T
      BY <1>3
    <2>2. QED  BY <2>1
  <1>5. f \in [0..N -> S] /\ f[0] = c /\ \A k \in 1..N : f[k] = G[<<k, f[k - 1]>>]
    BY <1>4
  <1>6. QED  BY <1>5 DEF Follows

-----------------------------------------------------------------------------
(* Division.                                                               *)

\* Quotient and remainder.
LEMMA Division ==
    ASSUME NEW a \in Nat, NEW m \in Nat \ {0}
    PROVE  a = m * (a \div m) + (a % m) /\ a \div m \in Nat /\ a % m \in 0..(m - 1)
BY SMT

LEMMA Remainder ==
    ASSUME NEW q \in Nat, NEW r \in Nat, NEW m \in Nat \ {0}, r < m
    PROVE  (m * q + r) % m = r
BY SMT

\* A sum can be reduced before the last number is added.
LEMMA SumRemainder ==
    ASSUME NEW a \in Nat, NEW b \in Nat, NEW m \in Nat \ {0}
    PROVE  ((a % m) + b) % m = (a + b) % m
  <1> DEFINE p == a \div m
             c == (a % m) + b
             q == c \div m
             r == c % m
  <1>1. a = m * p + (a % m) /\ p \in Nat /\ a % m \in 0..(m - 1)
    BY Division
  <1>2. c = m * q + r /\ q \in Nat /\ r \in Nat /\ r < m
    <2>1. c \in Nat
      BY <1>1
    <2> HIDE DEF c
    <2>2. QED  BY <2>1, Division
  <1>3. a + b = m * p + c
    BY <1>1
  <1> HIDE DEF p, q, r, c
  <1>4. a + b = m * (p + q) + r
    BY <1>1, <1>2, <1>3
  <1>5. (m * (p + q) + r) % m = r
    <2>1. p + q \in Nat
      BY <1>1, <1>2
    <2>2. QED  BY <1>2, <2>1, Remainder
  <1>6. QED  BY <1>4, <1>5 DEF r, c

-----------------------------------------------------------------------------
(* Sums along a sequence.                                                  *)

\* f[k] is the sum of the first k numbers of a.
Totals(f, N, a) ==
    f \in [0..N -> Nat] /\ f[0] = 0 /\ \A k \in 1..N : f[k] = f[k - 1] + a[k]

LEMMA TotalsExist ==
    ASSUME NEW N \in Nat, NEW a \in [1..N -> Nat]
    PROVE  \E f : Totals(f, N, a)
  <1> DEFINE G == [p \in (1..N) \X Nat |-> p[2] + a[p[1]]]
  <1>1. G \in [(1..N) \X Nat -> Nat]
    OBVIOUS
  <1>2. 0 \in Nat
    OBVIOUS
  <1>3. PICK f : Follows(f, N, Nat, 0, G)
    <2> HIDE DEF G
    <2>1. QED  BY <1>1, <1>2, Recursion
  <1>4. f \in [0..N -> Nat] /\ f[0] = 0
    BY <1>3 DEF Follows
  <1>5. ASSUME NEW k \in 1..N PROVE f[k] = f[k - 1] + a[k]
    <2>1. f[k - 1] \in Nat
      BY <1>4
    <2>2. f[k] = G[<<k, f[k - 1]>>]
      BY <1>3 DEF Follows
    <2>3. QED  BY <2>1, <2>2
  <1>6. QED  BY <1>4, <1>5 DEF Totals

\* A function that is defined that way has these values.
LEMMA TotalsAre ==
    ASSUME NEW N \in Nat, NEW a \in [1..N -> Nat],
           NEW f, f = [k \in 0..N |-> IF k = 0 THEN 0 ELSE f[k - 1] + a[k]]
    PROVE  Totals(f, N, a)
  <1> DEFINE T == {n \in Nat : n <= N => f[n] \in Nat}
  <1>1. \A k \in 0..N : f[k] = IF k = 0 THEN 0 ELSE f[k - 1] + a[k]
    OBVIOUS
  <1>2. 0 \in T
    BY <1>1
  <1>3. ASSUME NEW n \in Nat, n \in T PROVE n + 1 \in T
    <2> SUFFICES ASSUME n + 1 <= N PROVE f[n + 1] \in Nat
      OBVIOUS
    <2>1. f[n] \in Nat /\ n + 1 \in 0..N /\ n + 1 \in 1..N /\ (n + 1) - 1 = n /\ n + 1 # 0
      BY <1>3
    <2>2. f[n + 1] = f[n] + a[n + 1]
      BY <1>1, <2>1
    <2>3. QED  BY <2>1, <2>2
  <1>4. \A n \in Nat : n \in T
    <2> HIDE DEF T
    <2>1. QED  BY <1>2, <1>3, SetInduction
  <1>5. ASSUME NEW k \in 0..N PROVE f[k] \in Nat
    <2>1. k \in Nat /\ k <= N
      OBVIOUS
    <2>2. k \in T
      BY <1>4, <2>1
    <2>3. k <= N => f[k] \in Nat
      BY <2>2
    <2>4. QED  BY <2>1, <2>3
  <1>6. f \in [0..N -> Nat]
    BY <1>5
  <1>7. f[0] = 0 /\ \A k \in 1..N : f[k] = f[k - 1] + a[k]
    BY <1>1
  <1>8. QED  BY <1>6, <1>7 DEF Totals

\* Sums over the same numbers agree.
LEMMA TotalsAgree ==
    ASSUME NEW N \in Nat, NEW M \in Nat, NEW a, NEW b, NEW f, NEW g,
           Totals(f, N, a), Totals(g, M, b),
           NEW m \in Nat, m <= N, m <= M, \A k \in 1..m : a[k] = b[k]
    PROVE  f[m] = g[m]
  <1> DEFINE T == {n \in Nat : n <= m => f[n] = g[n]}
  <1>1. 0 \in T
    BY DEF Totals
  <1>2. ASSUME NEW n \in Nat, n \in T PROVE n + 1 \in T
    <2> SUFFICES ASSUME n + 1 <= m PROVE f[n + 1] = g[n + 1]
      OBVIOUS
    <2>1. f[n] = g[n] /\ n + 1 \in 1..N /\ n + 1 \in 1..M /\ n + 1 \in 1..m /\ (n + 1) - 1 = n
      BY <1>2
    <2>2. f[n + 1] = f[n] + a[n + 1] /\ g[n + 1] = g[n] + b[n + 1]
      BY <2>1 DEF Totals
    <2>3. QED  BY <2>1, <2>2
  <1>3. \A n \in Nat : n \in T
    <2> HIDE DEF T
    <2>1. QED  BY <1>1, <1>2, SetInduction
  <1>4. QED  BY <1>3

\* Sums grow, and do so at every step if every number is positive.
LEMMA TotalsGrow ==
    ASSUME NEW N \in Nat, NEW a \in [1..N -> Nat], NEW f, Totals(f, N, a),
           NEW j \in 0..N, NEW k \in j..N
    PROVE  /\ f[j] <= f[k]
           /\ (\A l \in 1..N : a[l] > 0) /\ j < k => f[j] < f[k]
  <1> DEFINE T == {n \in Nat : j + n <= N =>
                     /\ f[j] <= f[j + n]
                     /\ (\A l \in 1..N : a[l] > 0) /\ n > 0 => f[j] < f[j + n]}
  <1>0. \A l \in 0..N : f[l] \in Nat
    BY DEF Totals
  <1>1. 0 \in T
    BY <1>0
  <1>2. ASSUME NEW n \in Nat, n \in T PROVE n + 1 \in T
    <2> DEFINE m == j + n
    <2> SUFFICES ASSUME j + (n + 1) <= N
                 PROVE  /\ f[j] <= f[j + (n + 1)]
                        /\ (\A l \in 1..N : a[l] > 0) => f[j] < f[j + (n + 1)]
      OBVIOUS
    <2>1. m \in 0..N /\ m + 1 \in 1..N /\ m + 1 \in 0..N /\ j + (n + 1) = m + 1 /\ (m + 1) - 1 = m
      OBVIOUS
    <2>2. f[j] <= f[m]
      BY <1>2, <2>1
    <2> HIDE DEF m
    <2>3. f[m + 1] = f[m] + a[m + 1]
      BY <2>1 DEF Totals
    <2>4. f[j] \in Nat /\ f[m] \in Nat /\ a[m + 1] \in Nat
      BY <1>0, <2>1
    <2>5. f[j] <= f[m + 1] /\ (a[m + 1] > 0 => f[j] < f[m + 1])
      BY <2>2, <2>3, <2>4
    <2>6. QED  BY <2>1, <2>5
  <1>3. \A n \in Nat : n \in T
    <2> HIDE DEF T
    <2>1. QED  BY <1>1, <1>2, SetInduction
  <1>4. k - j \in Nat /\ j + (k - j) = k /\ k <= N /\ (j < k => k - j > 0)
    OBVIOUS
  <1>5. k - j \in T
    BY <1>3, <1>4
  <1>6. QED  BY <1>4, <1>5
=============================================================================
