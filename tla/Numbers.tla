------------------------------ MODULE Numbers ------------------------------
(***************************************************************************)
(* Facts about the natural numbers that the proofs need, stated of sets and *)
(* functions rather than of predicates, so that they can be cited: every    *)
(* set of numbers has a least one, a set with 0 and the successor of each   *)
(* of its numbers has them all, and a function can be iterated.             *)
(***************************************************************************)
EXTENDS Naturals, FiniteSetTheorems, WellFoundedInduction, TLAPS

\* A set of numbers that is not empty has a least one: of its parts up to one of
\* its numbers, take one that has none strictly inside.
THEOREM LeastOf ==
  ASSUME NEW T \in SUBSET Nat, T # {}
  PROVE  \E n \in T : \A m \in T : n <= m
  <1> DEFINE UpTo(n) == {m \in T : m <= n}
             Prefixes == {UpTo(n) : n \in T}
  <1>1. ASSUME NEW n \in T PROVE UpTo(n) \in FiniteSubsetsOf(T)
    <2>1. UpTo(n) \in SUBSET Nat /\ n \in Nat /\ \A s \in UpTo(n) : s <= n
      OBVIOUS
    <2>2. IsFiniteSet(UpTo(n))
      BY <2>1, FS_BoundedSetOfNaturals
    <2> QED  BY <2>2 DEF FiniteSubsetsOf
  <1>2. Prefixes \subseteq FiniteSubsetsOf(T) /\ Prefixes # {}
    BY <1>1
  <1>3. IsWellFoundedOn(StrictSubsetOrdering(T), FiniteSubsetsOf(T))
    BY FS_StrictSubsetOrderingWellFounded
  <1> HIDE DEF Prefixes
  <1>4. PICK P \in Prefixes : \A Q \in Prefixes : ~(<<Q, P>> \in StrictSubsetOrdering(T))
    BY <1>2, <1>3, WFMin
  <1> USE DEF Prefixes
  <1>5. PICK n \in T : P = UpTo(n)
    BY <1>4
  <1>6. ASSUME NEW m \in T, m < n PROVE FALSE
    <2>0. m \in Nat /\ n \in Nat /\ ~(n <= m) /\ UpTo(m) \in Prefixes
      BY <1>6
    <2>1. n \in UpTo(n) /\ n \notin UpTo(m)
      BY <2>0
    <2>4. UpTo(m) \subseteq UpTo(n)
      <3> SUFFICES ASSUME NEW k \in T, k <= m PROVE k <= n
        OBVIOUS
      <3> QED  BY <1>6
    <2>2. UpTo(m) \in SUBSET T /\ UpTo(n) \in SUBSET T
      OBVIOUS
    <2> HIDE DEF UpTo, Prefixes
    <2>3. <<UpTo(m), UpTo(n)>> \in StrictSubsetOrdering(T)
      BY <2>1, <2>2, <2>4 DEF StrictSubsetOrdering
    <2> QED  BY <1>4, <1>5, <2>0, <2>3
  <1> QED  BY <1>6

\* Induction, the property being membership in a set.
THEOREM SetInduction ==
  ASSUME NEW T \in SUBSET Nat, 0 \in T, \A n \in T : n + 1 \in T
  PROVE  T = Nat
  <1> SUFFICES ASSUME Nat \ T # {} PROVE FALSE
    OBVIOUS
  <1>1. PICK n \in Nat \ T : \A m \in Nat \ T : n <= m
    BY LeastOf
  <1>2. n # 0 /\ n - 1 \in Nat /\ ~(n <= n - 1)
    BY <1>1
  <1>3. n - 1 \in T
    BY <1>1, <1>2
  <1>4. (n - 1) + 1 \in T /\ (n - 1) + 1 = n
    BY <1>2, <1>3
  <1> QED  BY <1>1, <1>4

\* f says what g makes of a when it is applied again and again.
Iterates(f, g, a) == f[0] = a /\ \A n \in Nat : f[n + 1] = g[f[n]]

\* From any value, a function can be applied any number of times.
THEOREM Iteration ==
  ASSUME NEW S, NEW a \in S, NEW g \in [S -> S]
  PROVE  \E f \in [Nat -> S] : Iterates(f, g, a)
  <1> DEFINE Starts(f, n) == f[0] = a /\ \A k \in Nat : k < n => f[k + 1] = g[f[k]]
             Runs(n) == {f \in [Nat -> S] : Starts(f, n)}
             Good == {n \in Nat : Runs(n) # {}}
  <1>1. 0 \in Good
    <2>1. [n \in Nat |-> a] \in Runs(0)
      OBVIOUS
    <2> QED  BY <2>1
  <1>2. ASSUME NEW n \in Good PROVE n + 1 \in Good
    <2>1. PICK f \in Runs(n) : TRUE
      BY <1>2
    <2> DEFINE h == [f EXCEPT ![n + 1] = g[f[n]]]
    <2>2. f \in [Nat -> S] /\ n \in Nat /\ h \in [Nat -> S] /\ f[0] = a
      BY <2>1
    <2>3. h[0] = a
      BY <2>2
    <2>4. ASSUME NEW k \in Nat, k < n + 1 PROVE h[k + 1] = g[h[k]]
      <3>1. h[k] = f[k]
        BY <2>2, <2>4
      <3>2. CASE k = n
        BY <2>2, <3>1, <3>2
      <3>3. CASE k # n
        <4>1. k < n /\ k + 1 # n + 1
          BY <2>2, <2>4, <3>3
        <4>2. f[k + 1] = g[f[k]] /\ h[k + 1] = f[k + 1]
          BY <2>1, <2>2, <4>1
        <4> QED  BY <3>1, <4>2
      <3> QED  BY <3>2, <3>3
    <2>5. h \in Runs(n + 1)
      BY <2>2, <2>3, <2>4
    <2>6. n + 1 \in Nat
      BY <2>2
    <2> HIDE DEF h, Runs
    <2> QED  BY <2>5, <2>6
  <1>3. Good = Nat
    <2> HIDE DEF Good
    <2>1. Good \in SUBSET Nat
      BY DEF Good
    <2> QED  BY <1>1, <1>2, <2>1, SetInduction
  <1>4. ASSUME NEW m \in Nat, NEW n \in Nat, m <= n, NEW f \in Runs(m), NEW h \in Runs(n)
        PROVE  f[m] = h[m]
    <2> DEFINE Same == {k \in Nat : k <= m => f[k] = h[k]}
    <2>1. 0 \in Same
      OBVIOUS
    <2>2. ASSUME NEW k \in Same PROVE k + 1 \in Same
      <3> SUFFICES ASSUME k + 1 <= m PROVE f[k + 1] = h[k + 1]
        OBVIOUS
      <3>1. k \in Nat /\ k < m /\ k < n /\ f[k] = h[k]
        BY <1>4, <2>2
      <3>2. f[k + 1] = g[f[k]] /\ h[k + 1] = g[h[k]]
        BY <3>1
      <3> QED  BY <3>1, <3>2
    <2>3. Same = Nat
      <3> HIDE DEF Same
      <3>1. Same \in SUBSET Nat
        BY DEF Same
      <3> QED  BY <2>1, <2>2, <3>1, SetInduction
    <2>4. m \in Same
      BY <2>3
    <2> QED  BY <2>4
  <1> DEFINE run == [n \in Nat |-> CHOOSE f \in Runs(n) : TRUE]
             F == [n \in Nat |-> run[n][n]]
  <1>5. \A n \in Nat : run[n] \in Runs(n)
    BY <1>3
  <1>6. F \in [Nat -> S] /\ F[0] = a
    BY <1>5
  <1>7. ASSUME NEW n \in Nat PROVE F[n + 1] = g[F[n]]
    <2>1. n + 1 \in Nat /\ n <= n + 1 /\ n < n + 1
      OBVIOUS
    <2> HIDE DEF run
    <2>2. run[n] \in Runs(n) /\ run[n + 1] \in Runs(n + 1)
      BY <1>5, <2>1
    <2>3. run[n + 1][n + 1] = g[run[n + 1][n]]
      BY <2>1, <2>2
    <2>4. F[n] = run[n][n] /\ F[n + 1] = run[n + 1][n + 1]
      BY <2>1
    <2>5. run[n][n] = run[n + 1][n]
      <3> HIDE DEF Runs
      <3> QED  BY <1>4, <2>1, <2>2
    <2> QED  BY <2>3, <2>4, <2>5
  <1> HIDE DEF F
  <1> QED  BY <1>6, <1>7 DEF Iterates

\* f starts with a, and g makes of each place and the value before it the next.
Unrolls(f, lo, hi, a, g) ==
    \A k \in lo..hi : f[k] = IF k = lo THEN a ELSE g[<<k, f[k - 1]>>]

\* A function on an interval may be given by its first value and by what each
\* value makes of the next.
THEOREM Recursion ==
  ASSUME NEW lo \in Nat, NEW hi \in Int, NEW S, NEW a \in S, NEW g \in [Nat \X S -> S]
  PROVE  \E f \in [lo..hi -> S] : Unrolls(f, lo, hi, a, g)
  <1> DEFINE T == Nat \X S
             next == [x \in T |-> <<x[1] + 1, g[<<x[1] + 1, x[2]>>]>>]
  <1>1. next \in [T -> T] /\ <<lo, a>> \in T
    OBVIOUS
  <1>2. PICK h \in [Nat -> T] : h[0] = <<lo, a>> /\ \A n \in Nat : h[n + 1] = next[h[n]]
    <2> HIDE DEF next, T
    <2>1. \E h \in [Nat -> T] : Iterates(h, next, <<lo, a>>)
      BY <1>1, Iteration
    <2> QED  BY <2>1 DEF Iterates
  <1>3. ASSUME NEW n \in Nat
        PROVE  /\ h[n][1] \in Nat /\ h[n][2] \in S /\ h[n + 1][1] = h[n][1] + 1
               /\ h[n + 1][2] = g[<<h[n][1] + 1, h[n][2]>>]
    <2>1. h[n] \in T /\ h[n + 1] = next[h[n]]
      BY <1>2
    <2>2. h[n + 1] = <<h[n][1] + 1, g[<<h[n][1] + 1, h[n][2]>>]>>
      BY <2>1
    <2> QED  BY <2>1, <2>2
  <1> HIDE DEF next
  <1> DEFINE Counts == {n \in Nat : h[n][1] = lo + n}
  <1>4. Counts = Nat
    <2>1. 0 \in Counts
      BY <1>2
    <2>2. ASSUME NEW n \in Counts PROVE n + 1 \in Counts
      <3>1. n \in Nat /\ h[n][1] = lo + n
        BY <2>2
      <3>2. h[n + 1][1] = h[n][1] + 1
        BY <1>3, <3>1
      <3> QED  BY <3>1, <3>2
    <2>3. Counts \in SUBSET Nat
      OBVIOUS
    <2> HIDE DEF Counts
    <2> QED  BY <2>1, <2>2, <2>3, SetInduction
  <1> DEFINE f == [k \in lo..hi |-> h[k - lo][2]]
  <1>5. f \in [lo..hi -> S]
    <2> SUFFICES ASSUME NEW k \in lo..hi PROVE h[k - lo][2] \in S
      OBVIOUS
    <2>1. k - lo \in Nat
      OBVIOUS
    <2> QED  BY <1>3, <2>1
  <1>6. ASSUME NEW k \in lo..hi PROVE f[k] = IF k = lo THEN a ELSE g[<<k, f[k - 1]>>]
    <2>1. CASE k = lo
      BY <1>2, <2>1
    <2>2. CASE k # lo
      <3>1. k - 1 \in lo..hi /\ (k - 1) - lo \in Nat /\ ((k - 1) - lo) + 1 = k - lo
        BY <2>2
      <3> DEFINE n == (k - 1) - lo
      <3>0. n \in Counts
        BY <1>4, <3>1
      <3>2. h[(k - 1) - lo][1] + 1 = k
        BY <3>0, <3>1
      <3>3. h[k - lo][2] = g[<<k, h[(k - 1) - lo][2]>>]
        BY <1>3, <3>1, <3>2
      <3> QED  BY <2>2, <3>1, <3>3
    <2> QED  BY <2>1, <2>2
  <1>7. Unrolls(f, lo, hi, a, g)
    BY <1>6 DEF Unrolls
  <1> HIDE DEF f
  <1> QED  BY <1>5, <1>7
=============================================================================
