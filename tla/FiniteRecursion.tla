--------------------------- MODULE FiniteRecursion --------------------------
(***************************************************************************)
(* Induction and recursion on natural numbers, stated of sets and          *)
(* functions, without operators as parameters.  The models write a loop as *)
(* a function that is defined by its own values, which is a choice among   *)
(* the functions that satisfy the equation: that one exists is what the    *)
(* proofs about such a loop start from.                                    *)
(***************************************************************************)
EXTENDS Integers, WellFoundedInduction, TLAPS

(* A set of natural numbers that is not empty has a least element. *)
LEMMA LeastNatural ==
  ASSUME NEW T \in SUBSET Nat, T # {}
  PROVE  \E m \in T : \A n \in T : m <= n
<1> DEFINE R == OpToRel(<, Nat)
<1>1. IsWellFoundedOn(R, Nat)
  BY NatLessThanWellFounded, Zenon
<1>2. \A x, y \in Nat : x < y => <<x, y>> \in R
  BY DEF OpToRel
<1> HIDE DEF R
<1>3. PICK m \in T : \A n \in T : ~ (<<n, m>> \in R)
  BY <1>1, WFMin
<1>4. \A n \in T : ~ (n < m)
  BY <1>3, <1>2
<1> QED
  BY <1>4

(* Induction up to a bound. *)
LEMMA BoundedInduction ==
  ASSUME NEW n \in Nat, NEW S, 0 \in S,
         \A m \in 0 .. n - 1 : m \in S => m + 1 \in S
  PROVE  \A m \in 0 .. n : m \in S
<1>1. SUFFICES ASSUME NEW q \in (0 .. n) \ S
               PROVE  FALSE
  OBVIOUS
<1>2. (0 .. n) \ S \in SUBSET Nat
  OBVIOUS
<1>3. PICK m \in (0 .. n) \ S : \A l \in (0 .. n) \ S : m <= l
  BY <1>1, <1>2, LeastNatural
<1>4. m # 0
  OBVIOUS
<1>5. m - 1 \in 0 .. n - 1 /\ m - 1 \notin (0 .. n) \ S
  BY <1>3, <1>4
<1>6. m - 1 \in S
  BY <1>5
<1>7. (m - 1) + 1 \in S
  BY <1>5, <1>6
<1> QED
  BY <1>7

(* f is the history of a loop of n passes that starts from base. *)
IsRun(f, n, base, next) ==
  f[0] = base /\ \A m \in 1 .. n : f[m] = next[m][f[m - 1]]

(* A loop of n passes over the values V has a history. *)
LEMMA RecursionExists ==
  ASSUME NEW n \in Nat, NEW V, NEW base \in V, NEW next \in [1 .. n -> [V -> V]]
  PROVE  \E f \in [0 .. n -> V] : IsRun(f, n, base, next)
<1> DEFINE Upto(l, f) ==
             \A m \in 0 .. l : f[m] = IF m = 0 THEN base ELSE next[m][f[m - 1]]
           S == {l \in 0 .. n : \E f \in [0 .. n -> V] : Upto(l, f)}
<1>1. 0 \in S
  <2> DEFINE constant == [m \in 0 .. n |-> base]
  <2>1. constant \in [0 .. n -> V] /\ 0 \in 0 .. n
    OBVIOUS
  <2>2. Upto(0, constant)
    OBVIOUS
  <2> HIDE DEF constant, Upto
  <2> QED
    BY <2>1, <2>2
<1>2. ASSUME NEW l \in 0 .. n - 1, l \in S
      PROVE  l + 1 \in S
  <2>1. PICK f \in [0 .. n -> V] : Upto(l, f)
    BY <1>2
  <2> DEFINE g == [f EXCEPT ![l + 1] = next[l + 1][f[l]]]
  <2>2. l + 1 \in 1 .. n /\ f[l] \in V
    OBVIOUS
  <2>3. g \in [0 .. n -> V]
    BY <2>2
  <2>4. g[l + 1] = next[l + 1][g[l]] /\ \A m \in 0 .. l : g[m] = f[m]
    BY <2>2
  <2> HIDE DEF g
  <2>5. ASSUME NEW m \in 0 .. l + 1
        PROVE  g[m] = IF m = 0 THEN base ELSE next[m][g[m - 1]]
    <3>1. CASE m = l + 1
      BY <2>4, <3>1
    <3>2. CASE m \in 0 .. l
      <4>1. g[m] = f[m] /\ (m # 0 => g[m - 1] = f[m - 1])
        BY <2>4, <3>2
      <4> QED
        BY <2>1, <3>2, <4>1
    <3> QED
      BY <3>1, <3>2
  <2>6. Upto(l + 1, g)
    BY <2>5
  <2> QED
    BY <2>2, <2>3, <2>6
<1> HIDE DEF S
<1>3. \A m \in 0 .. n : m \in S
  <2>1. \A l \in 0 .. n - 1 : l \in S => l + 1 \in S
    BY <1>2
  <2> QED
    BY <1>1, <2>1, BoundedInduction
<1>4. PICK f \in [0 .. n -> V] : Upto(n, f)
  <2>1. n \in S
    BY <1>3
  <2> HIDE DEF Upto
  <2> QED
    BY <2>1 DEF S
<1>5. ASSUME NEW m \in 1 .. n
      PROVE  f[m] = next[m][f[m - 1]]
  BY <1>4
<1> QED
  BY <1>4, <1>5 DEF IsRun

(* Induction over all natural numbers. *)
LEMMA NaturalSet ==
  ASSUME NEW S, 0 \in S, \A m \in Nat : m \in S => m + 1 \in S
  PROVE  \A m \in Nat : m \in S
<1>1. SUFFICES ASSUME NEW n \in Nat PROVE n \in S
  OBVIOUS
<1>2. \A m \in 0 .. n - 1 : m \in S => m + 1 \in S
  OBVIOUS
<1>3. \A m \in 0 .. n : m \in S
  BY <1>2, BoundedInduction
<1> QED
  BY <1>3

(* A value of next[p] is made of values at smaller elements only. *)
Descends(D, V, size, next) ==
  \A p \in D : \A f, g \in [D -> V] :
    (\A q \in D : size[q] < size[p] => f[q] = g[q]) => next[p][f] = next[p][g]

(* f satisfies the equation at the elements smaller than m. *)
Solves(D, size, next, f, m) == \A p \in D : size[p] < m => f[p] = next[p][f]

LEMMA SolvesNext ==
  ASSUME NEW D, NEW size \in [D -> Nat], NEW V, NEW next \in [D -> [[D -> V] -> V]],
         Descends(D, V, size, next), NEW m \in Nat, NEW f \in [D -> V],
         Solves(D, size, next, f, m)
  PROVE  \E g \in [D -> V] : Solves(D, size, next, g, m + 1)
<1> DEFINE g == [p \in D |-> next[p][f]]
<1>1. g \in [D -> V] /\ \A p \in D : g[p] = next[p][f]
  OBVIOUS
<1> HIDE DEF g
<1>2. \A p \in D : size[p] < m => g[p] = f[p]
  BY <1>1 DEF Solves
<1>3. ASSUME NEW p \in D, size[p] < m + 1 PROVE g[p] = next[p][g]
  <2>1. \A q \in D : size[q] < size[p] => g[q] = f[q]
    BY <1>2, <1>3
  <2>2. next[p][g] = next[p][f]
    BY <1>1, <2>1 DEF Descends
  <2> QED
    BY <1>1, <2>2
<1> QED
  BY <1>1, <1>3 DEF Solves

LEMMA SolvesLess ==
  ASSUME NEW D, NEW size \in [D -> Nat], NEW next, NEW f, NEW m \in Nat, NEW n \in Nat,
         m <= n, Solves(D, size, next, f, n)
  PROVE  Solves(D, size, next, f, m)
<1>1. ASSUME NEW p \in D, size[p] < m PROVE f[p] = next[p][f]
  <2>1. size[p] \in Nat
    OBVIOUS
  <2>2. size[p] < n
    BY <1>1, <2>1
  <2> QED
    BY <2>2 DEF Solves
<1> QED
  BY <1>1 DEF Solves

AgreeBelow(D, size, f, g, m) == \A p \in D : size[p] < m => f[p] = g[p]

LEMMA SolvesAgree ==
  ASSUME NEW D, NEW size \in [D -> Nat], NEW V, NEW next \in [D -> [[D -> V] -> V]],
         Descends(D, V, size, next), NEW m \in Nat
  PROVE  \A f, g \in [D -> V] :
           Solves(D, size, next, f, m) /\ Solves(D, size, next, g, m)
             => AgreeBelow(D, size, f, g, m)
<1> DEFINE Agree(n) ==
             \A f, g \in [D -> V] :
               Solves(D, size, next, f, n) /\ Solves(D, size, next, g, n)
                 => AgreeBelow(D, size, f, g, n)
           S == {n \in Nat : Agree(n)}
<1>1. Agree(0)
  BY DEF AgreeBelow
<1>2. ASSUME NEW n \in Nat, Agree(n) PROVE Agree(n + 1)
  <2>1. SUFFICES ASSUME NEW f \in [D -> V], NEW g \in [D -> V],
                        Solves(D, size, next, f, n + 1), Solves(D, size, next, g, n + 1),
                        NEW p \in D, size[p] < n + 1
                 PROVE  f[p] = g[p]
    BY DEF AgreeBelow
  <2>2. Solves(D, size, next, f, n) /\ Solves(D, size, next, g, n)
    <3>1. n + 1 \in Nat /\ n <= n + 1
      OBVIOUS
    <3> QED
      BY <2>1, <3>1, SolvesLess, Zenon
  <2>3. \A q \in D : size[q] < n => f[q] = g[q]
    BY <1>2, <2>2 DEF AgreeBelow
  <2>4. \A q \in D : size[q] < size[p] => f[q] = g[q]
    BY <2>1, <2>3
  <2>5. next[p][f] = next[p][g]
    BY <2>4 DEF Descends
  <2> QED
    BY <2>1, <2>5 DEF Solves
<1> HIDE DEF Agree
<1>3. \A n \in Nat : n \in S
  <2>1. 0 \in S /\ \A n \in Nat : n \in S => n + 1 \in S
    BY <1>1, <1>2
  <2> HIDE DEF S
  <2> QED
    BY <2>1, NaturalSet
<1> QED
  BY <1>3 DEF Agree

LEMMA SolvesExists ==
  ASSUME NEW D, NEW size \in [D -> Nat], NEW V, V # {}, NEW next \in [D -> [[D -> V] -> V]],
         Descends(D, V, size, next)
  PROVE  \A m \in Nat : \E f \in [D -> V] : Solves(D, size, next, f, m)
<1> DEFINE S == {m \in Nat : \E f \in [D -> V] : Solves(D, size, next, f, m)}
<1>1. 0 \in S
  <2>1. PICK v \in V : TRUE
    OBVIOUS
  <2>2. [p \in D |-> v] \in [D -> V]
    OBVIOUS
  <2>3. Solves(D, size, next, [p \in D |-> v], 0)
    BY DEF Solves
  <2> QED
    BY <2>2, <2>3
<1>2. ASSUME NEW m \in Nat, m \in S PROVE m + 1 \in S
  <2>1. PICK f \in [D -> V] : Solves(D, size, next, f, m)
    BY <1>2
  <2>2. \E g \in [D -> V] : Solves(D, size, next, g, m + 1)
    BY <2>1, SolvesNext, Zenon
  <2>3. m + 1 \in Nat
    OBVIOUS
  <2> QED
    BY <2>2, <2>3
<1>3. \A m \in Nat : m \in S
  <2> HIDE DEF S
  <2> QED
    BY <1>1, <1>2, NaturalSet
<1> QED
  BY <1>3

IsSolution(D, next, f) == \A p \in D : f[p] = next[p][f]

(* Recursion over any set whose elements have a size: the equation has a   *)
(* solution when the value at an element is made of values at smaller ones. *)
LEMMA MeasuredRecursion ==
  ASSUME NEW D, NEW size \in [D -> Nat], NEW V, V # {}, NEW next \in [D -> [[D -> V] -> V]],
         Descends(D, V, size, next)
  PROVE  \E f \in [D -> V] : IsSolution(D, next, f)
<1> DEFINE h(m) == CHOOSE f \in [D -> V] : Solves(D, size, next, f, m)
           f == [p \in D |-> h(size[p] + 1)[p]]
<1>1. ASSUME NEW m \in Nat PROVE h(m) \in [D -> V] /\ Solves(D, size, next, h(m), m)
  BY SolvesExists
<1> HIDE DEF h
<1>2. \A p \in D : size[p] + 1 \in Nat
  OBVIOUS
<1>3. f \in [D -> V] /\ \A p \in D : f[p] = h(size[p] + 1)[p]
  BY <1>1, <1>2
<1> HIDE DEF f
<1>4. ASSUME NEW p \in D PROVE f[p] = next[p][f]
  <2>1. ASSUME NEW q \in D, size[q] < size[p] PROVE f[q] = h(size[p] + 1)[q]
    <3>1. size[q] + 1 \in Nat /\ size[p] + 1 \in Nat /\ size[q] + 1 <= size[p] + 1
          /\ size[q] < size[q] + 1
      BY <2>1
    <3>2. Solves(D, size, next, h(size[p] + 1), size[q] + 1)
      BY <1>1, <3>1, SolvesLess
    <3>3. h(size[q] + 1)[q] = h(size[p] + 1)[q]
      <4>1. h(size[q] + 1) \in [D -> V] /\ h(size[p] + 1) \in [D -> V]
            /\ Solves(D, size, next, h(size[q] + 1), size[q] + 1)
        BY <1>1, <3>1
      <4>2. AgreeBelow(D, size, h(size[q] + 1), h(size[p] + 1), size[q] + 1)
        BY <3>1, <3>2, <4>1, SolvesAgree, Zenon
      <4> QED
        BY <3>1, <4>2 DEF AgreeBelow
    <3> QED
      BY <1>3, <3>3
  <2>2. next[p][f] = next[p][h(size[p] + 1)]
    BY <1>1, <1>2, <1>3, <2>1 DEF Descends
  <2>3. size[p] < size[p] + 1
    OBVIOUS
  <2>4. h(size[p] + 1)[p] = next[p][h(size[p] + 1)]
    BY <1>1, <1>2, <2>3 DEF Solves
  <2> QED
    BY <1>3, <2>2, <2>4
<1> QED
  BY <1>3, <1>4 DEF IsSolution
=============================================================================
