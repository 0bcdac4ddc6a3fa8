------------------------------ MODULE FsmProofs ------------------------------
(***************************************************************************)
(* What holds of the FSM optimization for all machines: the partition      *)
(* refinement ends and merges exactly the equivalent states, every search  *)
(* commits the cheapest encoding it measured, and the optimized design has *)
(* the outputs of the machine as written.                                  *)
(***************************************************************************)
EXTENDS FsmOptimization, FiniteRecursion, FiniteSetTheorems, TLAPS

-----------------------------------------------------------------------------
(* Least and greatest elements. *)
LEMMA LeastElement ==
  ASSUME NEW T \in SUBSET Nat, T # {}
  PROVE  Min(T) \in T /\ \A y \in T : Min(T) <= y
BY LeastNatural DEF Min

LEMMA GreatestElement ==
  ASSUME NEW n \in Nat, NEW T \in SUBSET (0 .. n), T # {}
  PROVE  Max(T) \in T /\ \A y \in T : Max(T) >= y
<1> DEFINE below == {d \in 0 .. n : n - d \in T}
<1>1. below \in SUBSET Nat
  OBVIOUS
<1>2. below # {}
  <2>1. PICK x \in T : TRUE
    OBVIOUS
  <2>2. n - x \in 0 .. n /\ n - (n - x) = x
    OBVIOUS
  <2> QED
    BY <2>1, <2>2
<1>3. PICK d \in below : \A e \in below : d <= e
  <2> HIDE DEF below
  <2> QED
    BY <1>1, <1>2, LeastNatural
<1>4. ASSUME NEW y \in T
      PROVE  n - d >= y
  <2>1. n - y \in 0 .. n /\ n - (n - y) = y
    OBVIOUS
  <2>2. n - y \in below
    BY <2>1
  <2>3. d <= n - y
    BY <1>3, <2>2
  <2> QED
    BY <2>1, <2>3
<1>5. n - d \in T
  BY <1>3
<1>6. \E x \in T : \A y \in T : x >= y
  BY <1>4, <1>5
<1> QED
  BY <1>6 DEF Max

-----------------------------------------------------------------------------
(* Names that share a code form a group, which has one representative.     *)
LEMMA GroupRight ==
  ASSUME NEW N \in SUBSET Nat, NEW c \in [N -> Nat], NEW s \in N
  PROVE  /\ GroupOf(c, s) \in GroupsOf(c) /\ GroupOf(c, s) \in N
         /\ c[GroupOf(c, s)] = c[s]
<1> DEFINE same == {u \in DOMAIN c : c[u] = c[s]}
<1>1. same \in SUBSET Nat /\ s \in same
  OBVIOUS
<1>2. Min(same) \in same
  <2> HIDE DEF same
  <2> QED
    BY <1>1, LeastElement
<1> QED
  BY <1>2 DEF GroupOf, GroupsOf

LEMMA SameGroup ==
  ASSUME NEW N \in SUBSET Nat, NEW c \in [N -> Nat],
         NEW s \in N, NEW u \in N
  PROVE  GroupOf(c, s) = GroupOf(c, u) <=> c[s] = c[u]
<1>1. c[s] = c[u] => GroupOf(c, s) = GroupOf(c, u)
  BY DEF GroupOf
<1>2. c[GroupOf(c, s)] = c[s] /\ c[GroupOf(c, u)] = c[u]
  BY GroupRight
<1> QED
  BY <1>1, <1>2

(* A code per group: what a search tries. *)
Assigns(c, g) == g \in [GroupsOf(c) -> Nat] /\ Injective(g)

(* Expanding neither spreads a group over codes nor merges two.            *)
LEMMA ExpandShares ==
  ASSUME NEW N \in SUBSET Nat, NEW c \in [N -> Nat], NEW g, Assigns(c, g)
  PROVE  /\ Expand(c, g) \in [N -> Nat]
         /\ \A s, u \in N : Expand(c, g)[s] = Expand(c, g)[u] <=> c[s] = c[u]
<1>1. \A s \in N : GroupOf(c, s) \in GroupsOf(c)
  BY GroupRight
<1>2. Expand(c, g) \in [N -> Nat]
  BY <1>1 DEF Expand, Assigns
<1>3. ASSUME NEW s \in N, NEW u \in N
      PROVE  Expand(c, g)[s] = Expand(c, g)[u] <=> c[s] = c[u]
  <2>1. Expand(c, g)[s] = g[GroupOf(c, s)] /\ Expand(c, g)[u] = g[GroupOf(c, u)]
    BY DEF Expand
  <2>2. g[GroupOf(c, s)] = g[GroupOf(c, u)] <=> GroupOf(c, s) = GroupOf(c, u)
    BY <1>1 DEF Assigns, Injective
  <2> QED
    BY <2>1, <2>2, SameGroup
<1> QED
  BY <1>2, <1>3

-----------------------------------------------------------------------------
(* Partitions, and the block of an element. *)
IsPartition(P, D) ==
  /\ \A b \in P : b # {} /\ b \subseteq D
  /\ \A r \in D : \E b \in P : r \in b
  /\ \A b, d \in P : \A r \in D : r \in b /\ r \in d => b = d

LEMMA ClassRight ==
  ASSUME NEW D, NEW P, IsPartition(P, D), NEW r \in D
  PROVE  /\ class_of(P, r) \in P /\ r \in class_of(P, r) /\ class_of(P, r) \subseteq D
         /\ \A b \in P : r \in b => class_of(P, r) = b
<1>1. \E b \in P : r \in b
  BY DEF IsPartition
<1>2. class_of(P, r) \in P /\ r \in class_of(P, r)
  BY <1>1 DEF class_of
<1>3. \A b \in P : b \subseteq D /\ (r \in b => class_of(P, r) = b)
  BY <1>2, Zenon DEF IsPartition
<1> QED
  BY <1>2, <1>3, Zenon

LEMMA SameClass ==
  ASSUME NEW D, NEW P, IsPartition(P, D), NEW q \in D, NEW r \in D
  PROVE  class_of(P, q) = class_of(P, r) <=> q \in class_of(P, r)
<1>1. /\ class_of(P, r) \in P /\ q \in class_of(P, q)
      /\ \A b \in P : q \in b => class_of(P, q) = b
  BY ClassRight
<1> QED
  BY <1>1

(* An extracted table: an output row and a next code for every code.       *)
IsTable(t) ==
  /\ DOMAIN t.out \in SUBSET Nat /\ IsFiniteSet(DOMAIN t.out)
  /\ t.next \in [DOMAIN t.out -> [InputBit -> DOMAIN t.out]]

LEMMA InitialRight ==
  ASSUME NEW t, IsTable(t)
  PROVE  /\ IsPartition(InitialPartition(t), DOMAIN t.out)
         /\ \A q, r \in DOMAIN t.out :
              class_of(InitialPartition(t), q) = class_of(InitialPartition(t), r)
                <=> t.out[q] = t.out[r]
<1> DEFINE D == DOMAIN t.out
           P == InitialPartition(t)
           block(r) == {q \in D : t.out[q] = t.out[r]}
<1>1. P = {block(r) : r \in D}
  BY DEF InitialPartition
<1>2. IsPartition(P, D)
  <2>1. \A r \in D : block(r) \subseteq D /\ r \in block(r)
    OBVIOUS
  <2>2. \A r1, r2, q \in D : q \in block(r1) /\ q \in block(r2) => block(r1) = block(r2)
    OBVIOUS
  <2> HIDE DEF block, P
  <2> QED
    BY <1>1, <2>1, <2>2 DEF IsPartition
<1>3. ASSUME NEW q \in D, NEW r \in D
      PROVE  class_of(P, q) = class_of(P, r) <=> t.out[q] = t.out[r]
  <2>1. block(r) \in P /\ r \in block(r)
    BY <1>1
  <2>2. class_of(P, r) = block(r)
    <3> HIDE DEF P, block
    <3> QED
      BY <1>2, <2>1, ClassRight
  <2>3. class_of(P, q) = class_of(P, r) <=> q \in class_of(P, r)
    <3> HIDE DEF P
    <3> QED
      BY <1>2, SameClass
  <2> QED
    BY <2>2, <2>3
<1> QED
  BY <1>2, <1>3

(* A round splits exactly the codes that lead to different blocks.         *)
LEMMA NewRight ==
  ASSUME NEW t, IsTable(t), NEW P, IsPartition(P, DOMAIN t.out)
  PROVE  /\ IsPartition(NewPartition(t, P), DOMAIN t.out)
         /\ \A q, r \in DOMAIN t.out :
              class_of(NewPartition(t, P), q) = class_of(NewPartition(t, P), r) <=>
                /\ class_of(P, q) = class_of(P, r)
                /\ \A x \in InputBit :
                     class_of(P, t.next[q][x]) = class_of(P, t.next[r][x])
         /\ \A r \in DOMAIN t.out : class_of(NewPartition(t, P), r) = Signature(t, P, r)
<1> DEFINE D == DOMAIN t.out
           Q == NewPartition(t, P)
           leads(q, r) == \A x \in InputBit :
                            class_of(P, t.next[q][x]) = class_of(P, t.next[r][x])
<1>1. Q = {Signature(t, P, r) : r \in D}
  BY DEF NewPartition
<1>2. ASSUME NEW q \in D, NEW r \in D
      PROVE  q \in Signature(t, P, r) <=> class_of(P, q) = class_of(P, r) /\ leads(q, r)
  BY SameClass DEF Signature
<1>3. \A r \in D : Signature(t, P, r) \subseteq D /\ r \in Signature(t, P, r)
  <2>1. \A r \in D : Signature(t, P, r) \subseteq class_of(P, r) /\ class_of(P, r) \subseteq D
    BY ClassRight DEF Signature
  <2> QED
    BY <1>2, <2>1
<1>4. ASSUME NEW r1 \in D, NEW r2 \in D, NEW q \in D,
             q \in Signature(t, P, r1), q \in Signature(t, P, r2)
      PROVE  Signature(t, P, r1) = Signature(t, P, r2)
  <2>1. /\ class_of(P, q) = class_of(P, r1) /\ leads(q, r1)
        /\ class_of(P, q) = class_of(P, r2) /\ leads(q, r2)
    BY <1>2, <1>4
  <2>2. class_of(P, r1) = class_of(P, r2) /\ leads(r1, r2)
    BY <2>1
  <2>3. ASSUME NEW y \in D
        PROVE  y \in Signature(t, P, r1) <=> y \in Signature(t, P, r2)
    <3>1. class_of(P, y) = class_of(P, r1) /\ leads(y, r1)
            <=> class_of(P, y) = class_of(P, r2) /\ leads(y, r2)
      BY <2>2
    <3> QED
      BY <1>2, <3>1
  <2> QED
    BY <1>3, <2>3
<1>5. IsPartition(Q, D)
  BY <1>1, <1>3, <1>4 DEF IsPartition
<1>6. ASSUME NEW r \in D
      PROVE  class_of(Q, r) = Signature(t, P, r)
  <2>1. Signature(t, P, r) \in Q /\ r \in Signature(t, P, r)
    BY <1>1, <1>3
  <2> HIDE DEF Q
  <2> QED
    BY <1>5, <2>1, ClassRight
<1>7. ASSUME NEW q \in D, NEW r \in D
      PROVE  class_of(Q, q) = class_of(Q, r) <=> class_of(P, q) = class_of(P, r) /\ leads(q, r)
  <2>1. class_of(Q, q) = class_of(Q, r) <=> q \in class_of(Q, r)
    <3> HIDE DEF Q
    <3> QED
      BY <1>5, SameClass
  <2> QED
    BY <1>2, <1>6, <2>1
<1> QED
  BY <1>5, <1>6, <1>7

(* A round that splits something makes one block more, at least.           *)
LEMMA NewGrows ==
  ASSUME NEW t, IsTable(t), NEW P, IsPartition(P, DOMAIN t.out)
  PROVE  /\ IsFiniteSet(P) /\ Cardinality(P) <= Cardinality(DOMAIN t.out)
         /\ NewPartition(t, P) # P => Cardinality(P) < Cardinality(NewPartition(t, P))
<1> DEFINE D == DOMAIN t.out
           Q == NewPartition(t, P)
           f == [r \in D |-> class_of(P, r)]
           up == [b \in Q |-> class_of(P, CHOOSE r \in D : r \in b)]
<1>0. IsFiniteSet(D)
  BY DEF IsTable
<1>1. IsPartition(Q, D)
  BY NewRight
<1> HIDE DEF Q
<1>2. f \in Surjection(D, P)
  <2>1. \A r \in D : f[r] \in P
    BY ClassRight
  <2>2. ASSUME NEW b \in P
        PROVE  \E r \in D : f[r] = b
    <3>1. PICK r \in D : r \in b
      BY DEF IsPartition
    <3> QED
      BY <3>1, ClassRight
  <2> QED
    BY <2>1, <2>2 DEF Surjection
<1>3. IsFiniteSet(P) /\ Cardinality(P) <= Cardinality(D)
  <2> HIDE DEF f
  <2> QED
    BY <1>0, <1>2, FS_Surjection
<1>4. ASSUME NEW r \in D
      PROVE  class_of(Q, r) \subseteq class_of(P, r)
  BY NewRight DEF Signature, Q
<1>5. ASSUME NEW r \in D
      PROVE  up[class_of(Q, r)] = class_of(P, r)
  <2> DEFINE b == class_of(Q, r)
             e == CHOOSE q \in D : q \in b
  <2>1. b \in Q /\ r \in b
    BY <1>1, ClassRight
  <2>2. e \in D /\ e \in b
    BY <2>1
  <2>3. e \in class_of(P, r)
    BY <1>4, <2>2
  <2>4. class_of(P, e) = class_of(P, r)
    <3> HIDE DEF e
    <3> QED
      BY <2>2, <2>3, SameClass
  <2> QED
    BY <2>1, <2>4
<1>6. \A b \in Q : \E r \in D : b = class_of(Q, r)
  <2> SUFFICES ASSUME NEW b \in Q
               PROVE  \E r \in D : b = class_of(Q, r)
    OBVIOUS
  <2>1. PICK r \in D : r \in b
    BY <1>1 DEF IsPartition
  <2> QED
    BY <1>1, <2>1, ClassRight
<1>7. up = [b \in Q |-> up[b]]
  OBVIOUS
<1> HIDE DEF up
<1>8. up \in Surjection(Q, P)
  <2>1. \A b \in Q : up[b] \in P
    BY <1>5, <1>6, ClassRight
  <2>2. \A d \in P : \E b \in Q : up[b] = d
    <3> SUFFICES ASSUME NEW d \in P
                 PROVE  \E b \in Q : up[b] = d
      OBVIOUS
    <3>1. PICK r \in D : r \in d
      BY DEF IsPartition
    <3>2. class_of(Q, r) \in Q /\ class_of(P, r) = d
      BY <1>1, <3>1, ClassRight
    <3> QED
      BY <1>5, <3>2
  <2> QED
    BY <1>7, <2>1, <2>2 DEF Surjection
<1>9. IsFiniteSet(Q) /\ Cardinality(Q) \in Nat /\ Cardinality(P) \in Nat
  <2>1. [r \in D |-> class_of(Q, r)] \in Surjection(D, Q)
    BY <1>1, <1>6, ClassRight DEF Surjection
  <2>2. IsFiniteSet(Q)
    BY <1>0, <2>1, FS_Surjection
  <2> QED
    BY <1>3, <2>2, FS_CardinalityType
<1>10. ASSUME Q # P
       PROVE  Cardinality(P) < Cardinality(Q)
  <2>1. /\ Cardinality(P) <= Cardinality(Q)
        /\ Cardinality(P) = Cardinality(Q) => up \in Injection(Q, P)
    BY <1>8, <1>9, FS_Surjection
  <2>2. ASSUME up \in Injection(Q, P)
        PROVE  FALSE
    <3>1. ASSUME NEW r \in D
          PROVE  class_of(Q, r) = class_of(P, r)
      <4>1. ASSUME NEW q \in D, q \in class_of(P, r)
            PROVE  q \in class_of(Q, r)
        <5>1. class_of(P, q) = class_of(P, r)
          BY <4>1, SameClass
        <5>2. up[class_of(Q, q)] = up[class_of(Q, r)]
          BY <1>5, <5>1
        <5>3. class_of(Q, q) \in Q /\ class_of(Q, r) \in Q /\ q \in class_of(Q, q)
          BY <1>1, ClassRight
        <5>4. class_of(Q, q) = class_of(Q, r)
          BY <2>2, <5>2, <5>3 DEF Injection, IsInjective
        <5> QED
          BY <5>3, <5>4
      <4>2. class_of(P, r) \subseteq D
        BY ClassRight
      <4> QED
        BY <1>4, <4>1, <4>2
    <3>2. \A b \in P : \E r \in D : b = class_of(P, r)
      BY <1>2 DEF Surjection
    <3>3. \A r \in D : class_of(Q, r) \in Q /\ class_of(P, r) \in P
      BY <1>1, ClassRight
    <3>4. Q = P
      BY <1>6, <3>1, <3>2, <3>3
    <3> QED
      BY <1>10, <3>4
  <2> QED
    BY <1>9, <2>1, <2>2
<1> QED
  BY <1>3, <1>10 DEF Q

-----------------------------------------------------------------------------
(* The rounds of minimize_fsm. *)
AreRounds(f, t) ==
  f = [i \in 0 .. Cardinality(DOMAIN t.out) |->
         IF i = 0 THEN InitialPartition(t) ELSE NewPartition(t, f[i - 1])]

LEMMA RoundsExist ==
  ASSUME NEW t, IsTable(t)
  PROVE  \E f : AreRounds(f, t)
<1> DEFINE D == DOMAIN t.out
           N == Cardinality(D)
           V == {P \in SUBSET SUBSET D : IsPartition(P, D)}
           next == [i \in 1 .. N |-> [P \in V |-> NewPartition(t, P)]]
<1>0. N \in Nat
  BY FS_CardinalityType DEF IsTable
<1>1. ASSUME NEW P, IsPartition(P, D)
      PROVE  P \in V
  BY <1>1 DEF IsPartition
<1>2. InitialPartition(t) \in V
  <2>1. IsPartition(InitialPartition(t), D)
    BY InitialRight
  <2> HIDE DEF V
  <2> QED
    BY <1>1, <2>1
<1>3. \A P \in V : NewPartition(t, P) \in V
  <2>1. \A P \in V : IsPartition(NewPartition(t, P), D)
    BY NewRight
  <2> HIDE DEF V
  <2> QED
    BY <1>1, <2>1
<1> HIDE DEF V, N
<1>4. next \in [1 .. N -> [V -> V]]
  BY <1>3
<1>5. \A i \in 1 .. N, P \in V : next[i][P] = NewPartition(t, P)
  OBVIOUS
<1> HIDE DEF next
<1>6. PICK f \in [0 .. N -> V] : IsRun(f, N, InitialPartition(t), next)
  BY <1>0, <1>2, <1>4, RecursionExists
<1>7. \A i \in 1 .. N : f[i] = NewPartition(t, f[i - 1])
  BY <1>0, <1>5, <1>6 DEF IsRun
<1>8. f = [i \in 0 .. N |-> IF i = 0 THEN InitialPartition(t) ELSE NewPartition(t, f[i - 1])]
  BY <1>0, <1>6, <1>7 DEF IsRun
<1> QED
  BY <1>8 DEF AreRounds, N

LEMMA RoundsRight ==
  ASSUME NEW t, IsTable(t)
  PROVE  /\ Cardinality(DOMAIN t.out) \in Nat
         /\ Partitions(t)[0] = InitialPartition(t)
         /\ \A i \in 1 .. Cardinality(DOMAIN t.out) :
              Partitions(t)[i] = NewPartition(t, Partitions(t)[i - 1])
         /\ \A i \in 0 .. Cardinality(DOMAIN t.out) :
              IsPartition(Partitions(t)[i], DOMAIN t.out)
<1> DEFINE D == DOMAIN t.out
           N == Cardinality(D)
           f == Partitions(t)
           S == {i \in 0 .. N : IsPartition(f[i], D)}
<1>0. N \in Nat
  BY FS_CardinalityType DEF IsTable
<1>1. AreRounds(f, t)
  <2>1. f = CHOOSE g : AreRounds(g, t)
    BY DEF Partitions, AreRounds
  <2> HIDE DEF f
  <2> QED
    BY <2>1, RoundsExist
<1> HIDE DEF f, N
<1>2. f[0] = InitialPartition(t) /\ \A i \in 1 .. N : f[i] = NewPartition(t, f[i - 1])
  BY <1>0, <1>1 DEF AreRounds, N
<1>3. 0 \in S
  BY <1>0, <1>2, InitialRight
<1>4. ASSUME NEW i \in 0 .. N - 1, i \in S
      PROVE  i + 1 \in S
  <2>1. i + 1 \in 1 .. N /\ (i + 1) - 1 = i /\ IsPartition(f[i], D)
    BY <1>0, <1>4
  <2>2. f[i + 1] = NewPartition(t, f[i])
    BY <1>2, <2>1
  <2>3. IsPartition(f[i + 1], D)
    BY <2>1, <2>2, NewRight
  <2> QED
    BY <1>0, <2>1, <2>3
<1> HIDE DEF S
<1>5. \A i \in 0 .. N : i \in S
  BY <1>0, <1>3, <1>4, BoundedInduction
<1>6. \A i \in 0 .. N : IsPartition(f[i], D)
  BY <1>5 DEF S
<1> QED
  BY <1>0, <1>2, <1>6 DEF f, N

(* The loop ends: every round before the last makes a block more, and a    *)
(* table of so many codes has no more blocks.                              *)
LEMMA LastRoundRight ==
  ASSUME NEW t, IsTable(t)
  PROVE  /\ LastRound(t) \in 0 .. Cardinality(DOMAIN t.out)
         /\ NewPartition(t, Partitions(t)[LastRound(t)]) = Partitions(t)[LastRound(t)]
<1> DEFINE D == DOMAIN t.out
           N == Cardinality(D)
           f == Partitions(t)
           S == {i \in 0 .. N : D # {} => Cardinality(f[i]) >= i + 1}
<1>0. /\ N \in Nat /\ f[0] = InitialPartition(t)
      /\ \A i \in 1 .. N : f[i] = NewPartition(t, f[i - 1])
      /\ \A i \in 0 .. N : IsPartition(f[i], D)
  BY RoundsRight
<1> HIDE DEF f, N
<1>1. \A i \in 0 .. N : /\ IsFiniteSet(f[i]) /\ Cardinality(f[i]) \in Nat
                        /\ Cardinality(f[i]) <= N
  BY <1>0, NewGrows, FS_CardinalityType DEF N
<1>2. SUFFICES \E i \in 0 .. N : NewPartition(t, f[i]) = f[i]
  BY DEF LastRound, f, N
<1>3. SUFFICES ASSUME \A i \in 0 .. N : NewPartition(t, f[i]) # f[i]
               PROVE  FALSE
  OBVIOUS
<1>4. 0 \in S
  <2>1. ASSUME D # {}
        PROVE  Cardinality(f[0]) >= 1
    <3>1. 0 \in 0 .. N
      BY <1>0
    <3>2. f[0] # {}
      BY <1>0, <2>1, <3>1 DEF IsPartition
    <3>3. Cardinality(f[0]) # 0
      BY <1>1, <3>1, <3>2, FS_EmptySet
    <3> QED
      BY <1>1, <3>1, <3>3
  <2> QED
    BY <1>0, <2>1
<1>5. ASSUME NEW i \in 0 .. N - 1, i \in S
      PROVE  i + 1 \in S
  <2>1. i \in 0 .. N /\ i + 1 \in 1 .. N /\ i + 1 \in 0 .. N /\ (i + 1) - 1 = i
    BY <1>0
  <2>2. Cardinality(f[i]) < Cardinality(f[i + 1])
    BY <1>0, <1>3, <2>1, NewGrows
  <2> QED
    BY <1>1, <1>5, <2>1, <2>2
<1> HIDE DEF S
<1>6. \A i \in 0 .. N : i \in S
  BY <1>0, <1>4, <1>5, BoundedInduction
<1>7. N \in 0 .. N /\ N \in S
  BY <1>0, <1>6
<1>8. D # {} => Cardinality(f[N]) >= N + 1
  BY <1>7 DEF S
<1>9. CASE D # {}
  BY <1>0, <1>1, <1>7, <1>8, <1>9
<1>10. CASE D = {}
  <2>1. NewPartition(t, f[0]) = {} /\ f[0] = {} /\ 0 \in 0 .. N
    BY <1>0, <1>10 DEF NewPartition, InitialPartition
  <2> QED
    BY <1>3, <2>1
<1> QED
  BY <1>9, <1>10

(* The codes minimize_fsm gives: one per block of the last partition, and  *)
(* codes that get the same one have the same outputs and lead to codes     *)
(* that get the same ones.                                                 *)
LEMMA MinimizeRight ==
  ASSUME NEW t, IsTable(t)
  PROVE  /\ MinimizeFsm(t) \in [DOMAIN t.out -> DOMAIN t.out]
         /\ \A q, r \in DOMAIN t.out :
              /\ MinimizeFsm(t)[q] = MinimizeFsm(t)[r] <=>
                   class_of(Partitions(t)[LastRound(t)], q)
                     = class_of(Partitions(t)[LastRound(t)], r)
              /\ MinimizeFsm(t)[q] = MinimizeFsm(t)[r] =>
                   \A x \in InputBit :
                     MinimizeFsm(t)[t.next[q][x]] = MinimizeFsm(t)[t.next[r][x]]
<1> DEFINE D == DOMAIN t.out
           P == Partitions(t)[LastRound(t)]
           canon == MinimizeFsm(t)
<1>1. IsPartition(P, D) /\ NewPartition(t, P) = P
  BY RoundsRight, LastRoundRight
<1>2. canon = [r \in D |-> Min(class_of(P, r))]
  BY DEF MinimizeFsm
<1> HIDE DEF P, canon
<1>3. ASSUME NEW r \in D
      PROVE  canon[r] \in class_of(P, r) /\ canon[r] \in D
  <2>1. r \in class_of(P, r) /\ class_of(P, r) \in SUBSET D
    BY <1>1, ClassRight
  <2>2. class_of(P, r) \in SUBSET Nat
    BY <2>1 DEF IsTable
  <2> QED
    BY <1>2, <2>1, <2>2, LeastElement
<1>4. ASSUME NEW q \in D, NEW r \in D
      PROVE  canon[q] = canon[r] <=> class_of(P, q) = class_of(P, r)
  <2>1. class_of(P, q) = class_of(P, r) => canon[q] = canon[r]
    BY <1>2
  <2>2. class_of(P, canon[q]) = class_of(P, q) /\ class_of(P, canon[r]) = class_of(P, r)
    BY <1>1, <1>3, SameClass
  <2> QED
    BY <2>1, <2>2
<1>5. ASSUME NEW q \in D, NEW r \in D, canon[q] = canon[r], NEW x \in InputBit
      PROVE  canon[t.next[q][x]] = canon[t.next[r][x]]
  <2>1. class_of(P, t.next[q][x]) = class_of(P, t.next[r][x])
    BY <1>1, <1>4, <1>5, NewRight
  <2>2. t.next[q][x] \in D /\ t.next[r][x] \in D
    BY DEF IsTable
  <2> QED
    BY <1>4, <2>1, <2>2
<1>6. canon \in [D -> D]
  BY <1>2, <1>3
<1> QED
  BY <1>4, <1>5, <1>6 DEF P, canon

-----------------------------------------------------------------------------
(* The tables extracted from a cascade of arms. *)
HasArms(m, A, c) ==
  /\ A \subseteq NamesOf(m)
  /\ \A s \in NamesOf(m) : \E a \in A : c[a] = c[s]
Congruent(m, c) ==
  \A s, u \in NamesOf(m) :
    c[s] = c[u] => /\ m.out[s] = m.out[u]
                   /\ \A x \in InputBit : c[m.next[s][x]] = c[m.next[u][x]]

LEMMA MachineRight ==
  ASSUME NEW m, IsMachine(m)
  PROVE  /\ m.n \in Nat \ {0} /\ NamesOf(m) = 0 .. m.n - 1 /\ m.start \in NamesOf(m)
         /\ m.next \in [NamesOf(m) -> [InputBit -> NamesOf(m)]]
         /\ m.out \in [NamesOf(m) -> [InputBit -> InputBit]]
         /\ \A s \in NamesOf(m), x \in InputBit :
              m.next[s][x] \in NamesOf(m) /\ m.out[s][x] \in InputBit
<1>1. /\ m.n \in Nat \ {0} /\ NamesOf(m) = 0 .. m.n - 1 /\ m.start \in NamesOf(m)
      /\ m.next \in [NamesOf(m) -> [InputBit -> NamesOf(m)]]
      /\ m.out \in [NamesOf(m) -> [InputBit -> InputBit]]
  BY DEF IsMachine, NamesOf
<1> QED
  BY <1>1

(* Of the arms that match a name's code, whichever is outermost gives the  *)
(* next code and the output of that name.                                  *)
LEMMA CascadeRight ==
  ASSUME NEW m, IsMachine(m), NEW c \in [NamesOf(m) -> Nat], NEW A,
         HasArms(m, A, c), Congruent(m, c), NEW s \in NamesOf(m), NEW x \in InputBit
  PROVE  /\ NextCode(m, A, c, c[s], Through(m, x)) = c[m.next[s][x]]
         /\ OutputOf(m, A, c, c[s], Through(m, x)) = m.out[s][x]
<1> DEFINE M == Matching(A, c, c[s])
           a == Max(M)
<1>0. m.n \in Nat \ {0} /\ NamesOf(m) = 0 .. m.n - 1 /\ m.n - 1 \in Nat
  BY MachineRight
<1>1. M # {} /\ M \in SUBSET (0 .. m.n - 1)
  BY <1>0 DEF HasArms, Matching
<1>2. a \in M
  <2> HIDE DEF M
  <2> QED
    BY <1>0, <1>1, GreatestElement
<1>3. a \in NamesOf(m) /\ c[a] = c[s]
  BY <1>2 DEF HasArms, Matching
<1>4. m.out[a] = m.out[s] /\ c[m.next[a][x]] = c[m.next[s][x]]
  BY <1>3 DEF Congruent
<1>5. Through(m, x)[a] = x
  BY <1>3 DEF Through
<1>6. /\ NextCode(m, A, c, c[s], Through(m, x)) = c[m.next[a][Through(m, x)[a]]]
      /\ OutputOf(m, A, c, c[s], Through(m, x)) = m.out[a][Through(m, x)[a]]
  BY <1>1 DEF NextCode, OutputOf
<1> QED
  BY <1>4, <1>5, <1>6

LEMMA TableRight ==
  ASSUME NEW m, IsMachine(m), NEW c \in [NamesOf(m) -> Nat], NEW A,
         HasArms(m, A, c), Congruent(m, c)
  PROVE  /\ IsTable(ExtractTable(m, A, c))
         /\ DOMAIN ExtractTable(m, A, c).out = UsedCodes(c)
         /\ DOMAIN ExtractTable(m, A, c).next = UsedCodes(c)
         /\ Cardinality(UsedCodes(c)) <= m.n
         /\ \A s \in NamesOf(m) :
              /\ c[s] \in UsedCodes(c)
              /\ ExtractTable(m, A, c).out[c[s]] = m.out[s]
              /\ \A x \in InputBit : ExtractTable(m, A, c).next[c[s]][x] = c[m.next[s][x]]
<1> DEFINE D == UsedCodes(c)
           t == ExtractTable(m, A, c)
<1>0. /\ m.n \in Nat \ {0} /\ NamesOf(m) = 0 .. m.n - 1
      /\ m.out \in [NamesOf(m) -> [InputBit -> InputBit]]
      /\ \A s \in NamesOf(m), x \in InputBit : m.next[s][x] \in NamesOf(m)
  BY MachineRight
<1>1. D = {c[s] : s \in NamesOf(m)}
  BY DEF UsedCodes
<1>2. IsFiniteSet(D) /\ Cardinality(D) <= m.n /\ D \in SUBSET Nat
  <2>1. c \in Surjection(NamesOf(m), D)
    BY <1>1 DEF Surjection
  <2>2. IsFiniteSet(NamesOf(m)) /\ Cardinality(NamesOf(m)) = m.n
    <3>1. \A n \in Nat \ {0} : IsFiniteSet(0 .. n - 1) /\ Cardinality(0 .. n - 1) = n
      <4> SUFFICES ASSUME NEW n \in Nat \ {0}
                   PROVE  IsFiniteSet(0 .. n - 1) /\ Cardinality(0 .. n - 1) = n
        OBVIOUS
      <4> QED
        BY FS_Interval
    <3> QED
      BY <1>0, <3>1
  <2> QED
    BY <1>1, <2>1, <2>2, FS_Surjection
<1>3. /\ t.next = [r \in D |-> [x \in InputBit |-> NextCode(m, A, c, r, Through(m, x))]]
      /\ t.out = [r \in D |-> [x \in InputBit |-> OutputOf(m, A, c, r, Through(m, x))]]
  BY DEF ExtractTable
<1> HIDE DEF t
<1>4. ASSUME NEW s \in NamesOf(m)
      PROVE  /\ c[s] \in D /\ t.out[c[s]] = m.out[s]
             /\ t.next[c[s]] \in [InputBit -> D]
             /\ \A x \in InputBit : t.next[c[s]][x] = c[m.next[s][x]]
  <2>1. c[s] \in D
    BY <1>1
  <2>2. t.out[c[s]] = [x \in InputBit |-> m.out[s][x]]
    BY <1>3, <2>1, CascadeRight
  <2>3. t.next[c[s]] = [x \in InputBit |-> c[m.next[s][x]]]
    BY <1>3, <2>1, CascadeRight
  <2>4. \A x \in InputBit : c[m.next[s][x]] \in D
    BY <1>0, <1>1
  <2> QED
    BY <1>0, <2>1, <2>2, <2>3, <2>4
<1>5. t.next \in [D -> [InputBit -> D]]
  <2>1. ASSUME NEW r \in D
        PROVE  t.next[r] \in [InputBit -> D]
    <3>1. PICK s \in NamesOf(m) : r = c[s]
      BY <1>1
    <3> QED
      BY <1>4, <3>1
  <2>2. t.next = [r \in D |-> t.next[r]]
    BY <1>3
  <2> HIDE DEF D
  <2> QED
    BY <2>1, <2>2
<1>6. DOMAIN t.out = D /\ DOMAIN t.next = D
  BY <1>3
<1>7. IsTable(t)
  BY <1>2, <1>5, <1>6 DEF IsTable
<1> QED
  BY <1>2, <1>4, <1>6, <1>7 DEF t

-----------------------------------------------------------------------------
(* The pairs of states that agree for a number of inputs. *)
IsAgree(f, m) ==
  f = [k \in 0 .. m.n |->
        {p \in NamesOf(m) \X NamesOf(m) :
           /\ m.out[p[1]] = m.out[p[2]]
           /\ k > 0 => \A x \in InputBit :
                         <<m.next[p[1]][x], m.next[p[2]][x]>> \in f[k - 1]}]

LEMMA AgreeExists ==
  ASSUME NEW m, IsMachine(m)
  PROVE  \E f : IsAgree(f, m)
<1> DEFINE pairs == NamesOf(m) \X NamesOf(m)
           V == SUBSET pairs
           base == {p \in pairs : m.out[p[1]] = m.out[p[2]]}
           step(S) == {p \in pairs :
                         /\ m.out[p[1]] = m.out[p[2]]
                         /\ \A x \in InputBit : <<m.next[p[1]][x], m.next[p[2]][x]>> \in S}
           next == [k \in 1 .. m.n |-> [S \in V |-> step(S)]]
<1>0. m.n \in Nat
  BY MachineRight
<1>1. base \in V /\ \A S \in V : step(S) \in V
  OBVIOUS
<1>2. next \in [1 .. m.n -> [V -> V]] /\ \A k \in 1 .. m.n, S \in V : next[k][S] = step(S)
  <2> HIDE DEF V, step
  <2> QED
    BY <1>1
<1>3. PICK f \in [0 .. m.n -> V] : IsRun(f, m.n, base, next)
  <2> HIDE DEF V, base, next
  <2> QED
    BY <1>0, <1>1, <1>2, RecursionExists
<1>4. f[0] = base /\ \A k \in 1 .. m.n : f[k] = step(f[k - 1])
  <2> HIDE DEF V, base, next, step
  <2>1. f[0] = base /\ \A k \in 1 .. m.n : f[k] = next[k][f[k - 1]]
    BY <1>3 DEF IsRun
  <2>2. \A k \in 1 .. m.n : f[k - 1] \in V
    <3>1. \A k \in 1 .. m.n : k - 1 \in 0 .. m.n
      BY <1>0
    <3> QED
      BY <1>3, <3>1
  <2> QED
    BY <1>2, <2>1, <2>2
<1>5. ASSUME NEW k \in 0 .. m.n
      PROVE  f[k] = {p \in pairs :
                       /\ m.out[p[1]] = m.out[p[2]]
                       /\ k > 0 => \A x \in InputBit :
                            <<m.next[p[1]][x], m.next[p[2]][x]>> \in f[k - 1]}
  <2>1. CASE k = 0
    BY <1>4, <2>1
  <2>2. CASE k # 0
    <3>1. k \in 1 .. m.n /\ k > 0
      BY <1>0, <2>2
    <3>2. f[k] = step(f[k - 1])
      BY <1>4, <3>1
    <3> QED
      BY <3>1, <3>2
  <2> QED
    BY <2>1, <2>2
<1>6. IsAgree(f, m)
  BY <1>3, <1>5 DEF IsAgree
<1> QED
  BY <1>6

LEMMA AgreeRight ==
  ASSUME NEW m, IsMachine(m), NEW f, IsAgree(f, m), NEW k \in 0 .. m.n,
         NEW s \in NamesOf(m), NEW u \in NamesOf(m)
  PROVE  <<s, u>> \in f[k] <=>
           /\ m.out[s] = m.out[u]
           /\ k > 0 => \A x \in InputBit : <<m.next[s][x], m.next[u][x]>> \in f[k - 1]
<1>1. f[k] = {p \in NamesOf(m) \X NamesOf(m) :
                /\ m.out[p[1]] = m.out[p[2]]
                /\ k > 0 => \A x \in InputBit :
                     <<m.next[p[1]][x], m.next[p[2]][x]>> \in f[k - 1]}
  BY DEF IsAgree
<1> QED
  BY <1>1

(* Agreeing for more inputs is agreeing for fewer. *)
LEMMA AgreeShrinks ==
  ASSUME NEW m, IsMachine(m), NEW f, IsAgree(f, m)
  PROVE  \A k \in 0 .. m.n - 1, s, u \in NamesOf(m) :
           <<s, u>> \in f[k + 1] => <<s, u>> \in f[k]
<1> DEFINE N == NamesOf(m)
           S == {k \in 0 .. m.n - 1 : \A s, u \in N : <<s, u>> \in f[k + 1] => <<s, u>> \in f[k]}
<1>0. m.n - 1 \in Nat /\ m.n \in Nat /\ \A s \in N, x \in InputBit : m.next[s][x] \in N
  BY MachineRight
<1> HIDE DEF N
<1>1. 0 \in S
  <2>1. 0 \in 0 .. m.n /\ 0 + 1 \in 0 .. m.n /\ 0 \in 0 .. m.n - 1
    BY <1>0
  <2>2. \A s, u \in N : <<s, u>> \in f[0 + 1] => m.out[s] = m.out[u]
    BY <2>1, AgreeRight DEF N
  <2>3. \A s, u \in N : m.out[s] = m.out[u] => <<s, u>> \in f[0]
    BY <2>1, AgreeRight DEF N
  <2> QED
    BY <2>1, <2>2, <2>3
<1>2. ASSUME NEW k \in 0 .. (m.n - 1) - 1, k \in S
      PROVE  k + 1 \in S
  <2>1. /\ k + 1 \in 0 .. m.n /\ (k + 1) + 1 \in 0 .. m.n /\ k + 1 \in 0 .. m.n - 1
        /\ k + 1 > 0 /\ (k + 1) + 1 > 0 /\ (k + 1) - 1 = k /\ ((k + 1) + 1) - 1 = k + 1
    BY <1>0
  <2>2. ASSUME NEW s \in N, NEW u \in N, <<s, u>> \in f[(k + 1) + 1]
        PROVE  <<s, u>> \in f[k + 1]
    <3>1. /\ m.out[s] = m.out[u]
          /\ \A x \in InputBit : <<m.next[s][x], m.next[u][x]>> \in f[k + 1]
      BY <2>1, <2>2, AgreeRight DEF N
    <3>2. \A x \in InputBit : <<m.next[s][x], m.next[u][x]>> \in f[k]
      BY <1>0, <1>2, <3>1
    <3> QED
      BY <2>1, <3>1, <3>2, AgreeRight DEF N
  <2> QED
    BY <2>1, <2>2
<1> HIDE DEF S
<1>3. \A k \in 0 .. m.n - 1 : k \in S
  BY <1>0, <1>1, <1>2, BoundedInduction
<1> QED
  BY <1>3 DEF S, N

-----------------------------------------------------------------------------
(* Codes the last partition keeps together have the same outputs. *)
LEMMA SameOutputs ==
  ASSUME NEW t, IsTable(t)
  PROVE  \A q, r \in DOMAIN t.out :
           MinimizeFsm(t)[q] = MinimizeFsm(t)[r] => t.out[q] = t.out[r]
<1> DEFINE D == DOMAIN t.out
           N == Cardinality(D)
           f == Partitions(t)
           S == {i \in 0 .. N : \A q, r \in D :
                   class_of(f[i], q) = class_of(f[i], r) => t.out[q] = t.out[r]}
<1>0. /\ N \in Nat /\ f[0] = InitialPartition(t)
      /\ \A i \in 1 .. N : f[i] = NewPartition(t, f[i - 1])
      /\ \A i \in 0 .. N : IsPartition(f[i], D)
  BY RoundsRight
<1> HIDE DEF f, N
<1>1. 0 \in S
  BY <1>0, InitialRight
<1>2. ASSUME NEW i \in 0 .. N - 1, i \in S
      PROVE  i + 1 \in S
  <2>1. i \in 0 .. N /\ i + 1 \in 1 .. N /\ i + 1 \in 0 .. N /\ (i + 1) - 1 = i
    BY <1>0
  <2>2. f[i + 1] = NewPartition(t, f[i]) /\ IsPartition(f[i], D)
    BY <1>0, <2>1
  <2>3. \A q, r \in D : class_of(f[i + 1], q) = class_of(f[i + 1], r)
                          => class_of(f[i], q) = class_of(f[i], r)
    BY <2>2, NewRight
  <2> QED
    BY <1>2, <2>1, <2>3
<1> HIDE DEF S
<1>3. LastRound(t) \in S
  BY <1>0, <1>1, <1>2, BoundedInduction, LastRoundRight DEF N
<1>4. \A q, r \in D : class_of(f[LastRound(t)], q) = class_of(f[LastRound(t)], r)
                        => t.out[q] = t.out[r]
  BY <1>3 DEF S
<1> QED
  BY <1>4, MinimizeRight DEF f

(* Minimization gives two states one code exactly if no input sequence     *)
(* tells them apart.                                                       *)
LEMMA MergesEquivalent ==
  ASSUME NEW m, IsMachine(m), NEW c \in [NamesOf(m) -> Nat], NEW A,
         HasArms(m, A, c), \A s, u \in NamesOf(m) : c[s] = c[u] => s = u,
         NEW s0 \in NamesOf(m), NEW u0 \in NamesOf(m)
  PROVE  MinimizeFsm(ExtractTable(m, A, c))[c[s0]] = MinimizeFsm(ExtractTable(m, A, c))[c[u0]]
           <=> <<s0, u0>> \in Equivalent(m)
<1> DEFINE N == NamesOf(m)
           f == CHOOSE g : IsAgree(g, m)
<1> PICK t : t = ExtractTable(m, A, c)
  OBVIOUS
<1> DEFINE D == DOMAIN t.out
           K == Cardinality(D)
           canon == MinimizeFsm(t)
           P == Partitions(t)
           class(i, s) == class_of(P[i], c[s])
           last == LastRound(t)
<1>0. /\ m.n \in Nat \ {0}
      /\ \A s \in N, x \in InputBit : m.next[s][x] \in N
  BY MachineRight
<1>1. Congruent(m, c)
  BY DEF Congruent
<1>2. /\ IsTable(t) /\ K <= m.n
      /\ \A s \in N : /\ c[s] \in D /\ t.out[c[s]] = m.out[s]
                      /\ \A x \in InputBit : t.next[c[s]][x] = c[m.next[s][x]]
  BY <1>1, TableRight
<1>3. /\ IsAgree(f, m) /\ Equivalent(m) = f[m.n]
  <2>1. Equivalent(m) = f[m.n]
    BY DEF Equivalent, IsAgree
  <2> QED
    BY <2>1, AgreeExists
<1>4. /\ K \in Nat /\ last \in 0 .. K
      /\ \A s, u \in N : canon[c[s]] = canon[c[u]] <=> class(last, s) = class(last, u)
      /\ \A s, u \in N : canon[c[s]] = canon[c[u]] => m.out[s] = m.out[u]
      /\ \A s, u \in N, x \in InputBit : canon[c[s]] = canon[c[u]]
           => canon[c[m.next[s][x]]] = canon[c[m.next[u][x]]]
  <2>1. K \in Nat /\ last \in 0 .. K
    BY <1>2, RoundsRight, LastRoundRight
  <2>2. \A s, u \in N : canon[c[s]] = canon[c[u]] <=> class(last, s) = class(last, u)
    BY <1>2, MinimizeRight
  <2>3. \A s, u \in N : canon[c[s]] = canon[c[u]] => m.out[s] = m.out[u]
    BY <1>2, SameOutputs
  <2>4. \A s, u \in N, x \in InputBit : canon[c[s]] = canon[c[u]]
           => canon[c[m.next[s][x]]] = canon[c[m.next[u][x]]]
    <3> SUFFICES ASSUME NEW s \in N, NEW u \in N, NEW x \in InputBit,
                        canon[c[s]] = canon[c[u]]
                 PROVE  canon[c[m.next[s][x]]] = canon[c[m.next[u][x]]]
      OBVIOUS
    <3>1. /\ IsTable(t) /\ c[s] \in D /\ c[u] \in D
          /\ t.next[c[s]][x] = c[m.next[s][x]] /\ t.next[c[u]][x] = c[m.next[u][x]]
      BY <1>2
    <3> HIDE DEF K, N, f, class, last
    <3>2. canon[t.next[c[s]][x]] = canon[t.next[c[u]][x]]
      BY <3>1, MinimizeRight
    <3> QED
      BY <3>1, <3>2
  <2> QED
    BY <2>1, <2>2, <2>3, <2>4
<1>5. /\ \A s, u \in N : class(0, s) = class(0, u) <=> m.out[s] = m.out[u]
      /\ \A i \in 0 .. K - 1, s, u \in N :
           class(i + 1, s) = class(i + 1, u) <=>
             /\ class(i, s) = class(i, u)
             /\ \A x \in InputBit : class(i, m.next[s][x]) = class(i, m.next[u][x])
  <2>0. /\ P[0] = InitialPartition(t)
        /\ \A i \in 1 .. K : P[i] = NewPartition(t, P[i - 1])
        /\ \A i \in 0 .. K : IsPartition(P[i], D)
    BY <1>2, RoundsRight
  <2> HIDE DEF P
  <2>1. \A s, u \in N : class(0, s) = class(0, u) <=> m.out[s] = m.out[u]
    BY <1>2, <2>0, InitialRight
  <2>2. ASSUME NEW i \in 0 .. K - 1, NEW s \in N, NEW u \in N
        PROVE  class(i + 1, s) = class(i + 1, u) <=>
                 /\ class(i, s) = class(i, u)
                 /\ \A x \in InputBit : class(i, m.next[s][x]) = class(i, m.next[u][x])
    <3> HIDE DEF K
    <3>1. i \in 0 .. K /\ i + 1 \in 1 .. K /\ (i + 1) - 1 = i
      BY <1>4
    <3>2. P[i + 1] = NewPartition(t, P[i]) /\ IsPartition(P[i], D)
      BY <2>0, <3>1
    <3>3. class_of(P[i + 1], c[s]) = class_of(P[i + 1], c[u]) <=>
            /\ class_of(P[i], c[s]) = class_of(P[i], c[u])
            /\ \A x \in InputBit :
                 class_of(P[i], t.next[c[s]][x]) = class_of(P[i], t.next[c[u]][x])
      BY <1>2, <3>2, NewRight
    <3> QED
      BY <1>2, <3>3
  <2> QED
    BY <2>1, <2>2
<1> HIDE DEF N, f, D, K, canon, P, class, last
<1>6. ASSUME canon[c[s0]] = canon[c[u0]]
      PROVE  <<s0, u0>> \in f[m.n]
  <2> DEFINE S == {k \in 0 .. m.n : \A s, u \in N : canon[c[s]] = canon[c[u]] => <<s, u>> \in f[k]}
  <2>1. 0 \in S
    <3>1. 0 \in 0 .. m.n
      BY <1>0
    <3>2. \A s, u \in N : m.out[s] = m.out[u] => <<s, u>> \in f[0]
      BY <1>3, <3>1, AgreeRight DEF N
    <3> QED
      BY <1>4, <3>1, <3>2
  <2>2. ASSUME NEW k \in 0 .. m.n - 1, k \in S
        PROVE  k + 1 \in S
    <3>1. k + 1 \in 0 .. m.n /\ (k + 1) - 1 = k /\ k + 1 > 0
      BY <1>0
    <3>2. ASSUME NEW s \in N, NEW u \in N, canon[c[s]] = canon[c[u]]
          PROVE  <<s, u>> \in f[k + 1]
      <4>1. m.out[s] = m.out[u]
        BY <1>4, <3>2
      <4>2. \A x \in InputBit : <<m.next[s][x], m.next[u][x]>> \in f[k]
        BY <1>0, <1>4, <2>2, <3>2
      <4> QED
        BY <1>3, <3>1, <4>1, <4>2, AgreeRight DEF N
    <3> QED
      BY <3>1, <3>2
  <2> HIDE DEF S
  <2>3. \A k \in 0 .. m.n : k \in S
    BY <1>0, <2>1, <2>2, BoundedInduction
  <2>4. m.n \in S
    BY <1>0, <2>3
  <2> QED
    BY <1>6, <2>4 DEF S, N
<1>7. ASSUME <<s0, u0>> \in f[m.n]
      PROVE  canon[c[s0]] = canon[c[u0]]
  <2> DEFINE T == {k \in 0 .. m.n : \A s, u \in N : <<s, u>> \in f[k] =>
                     \A i \in 0 .. K : i <= k => class(i, s) = class(i, u)}
  <2>1. 0 \in T
    <3>1. 0 \in 0 .. m.n /\ \A i \in 0 .. K : i <= 0 => i = 0
      BY <1>0, <1>4
    <3>2. \A s, u \in N : <<s, u>> \in f[0] => m.out[s] = m.out[u]
      BY <1>3, <3>1, AgreeRight DEF N
    <3> QED
      BY <1>5, <3>1, <3>2
  <2>2. ASSUME NEW k \in 0 .. m.n - 1, k \in T
        PROVE  k + 1 \in T
    <3>1. k + 1 \in 0 .. m.n /\ (k + 1) - 1 = k /\ k + 1 > 0
      BY <1>0
    <3>2. ASSUME NEW s \in N, NEW u \in N, <<s, u>> \in f[k + 1],
                 NEW i \in 0 .. K, i <= k + 1
          PROVE  class(i, s) = class(i, u)
      <4>1. /\ m.out[s] = m.out[u]
            /\ \A x \in InputBit : <<m.next[s][x], m.next[u][x]>> \in f[k]
        BY <1>3, <3>1, <3>2, AgreeRight DEF N
      <4>2. <<s, u>> \in f[k]
        BY <1>3, <3>2, AgreeShrinks DEF N
      <4>3. CASE i = 0
        BY <1>5, <4>1, <4>3
      <4>4. CASE i # 0
        <5>1. PICK j \in 0 .. K - 1 : i = j + 1 /\ j <= k /\ j \in 0 .. K
          <6>1. i - 1 \in 0 .. K - 1 /\ i = (i - 1) + 1 /\ i - 1 <= k /\ i - 1 \in 0 .. K
            BY <1>0, <1>4, <3>2, <4>4
          <6> QED
            BY <6>1
        <5>2. class(j, s) = class(j, u)
          BY <2>2, <4>2, <5>1
        <5>3. \A x \in InputBit : class(j, m.next[s][x]) = class(j, m.next[u][x])
          <6> SUFFICES ASSUME NEW x \in InputBit
                       PROVE  class(j, m.next[s][x]) = class(j, m.next[u][x])
            OBVIOUS
          <6>1. m.next[s][x] \in N /\ m.next[u][x] \in N
            BY <1>0
          <6>2. <<m.next[s][x], m.next[u][x]>> \in f[k]
            BY <4>1
          <6> QED
            BY <2>2, <5>1, <6>1, <6>2
        <5> QED
          BY <1>5, <5>1, <5>2, <5>3
      <4> QED
        BY <4>3, <4>4
    <3> HIDE DEF class
    <3> QED
      BY <3>1, <3>2
  <2> HIDE DEF T
  <2>3. \A k \in 0 .. m.n : k \in T
    BY <1>0, <2>1, <2>2, BoundedInduction
  <2>4. m.n \in T
    BY <1>0, <2>3
  <2>5. \A i \in 0 .. K : i <= m.n => class(i, s0) = class(i, u0)
    BY <1>7, <2>4 DEF T, N
  <2>6. last <= m.n
    BY <1>0, <1>2, <1>4
  <2> QED
    BY <1>4, <2>5, <2>6 DEF N
<1> QED
  BY <1>3, <1>6, <1>7 DEF canon

-----------------------------------------------------------------------------
(* Merging and expanding keep what codes share, and with it the machine.   *)
LEMMA SameSharing ==
  ASSUME NEW m, IsMachine(m), NEW c, NEW d, NEW A,
         \A s, u \in NamesOf(m) : d[s] = d[u] <=> c[s] = c[u]
  PROVE  /\ HasArms(m, A, c) => HasArms(m, A, d)
         /\ Congruent(m, c) => Congruent(m, d)
<1>1. /\ \A s \in NamesOf(m), x \in InputBit : m.next[s][x] \in NamesOf(m)
  BY MachineRight
<1>2. HasArms(m, A, c) => HasArms(m, A, d)
  <2>1. ASSUME HasArms(m, A, c), NEW s \in NamesOf(m)
        PROVE  \E a \in A : d[a] = d[s]
    <3>1. PICK a \in A : c[a] = c[s] /\ a \in NamesOf(m)
      BY <2>1 DEF HasArms
    <3> QED
      BY <3>1
  <2> QED
    BY <2>1 DEF HasArms
<1>3. Congruent(m, c) => Congruent(m, d)
  BY <1>1 DEF Congruent
<1> QED
  BY <1>2, <1>3

(* The arms apply_simplify leaves still answer every code. *)
LEMMA ArmsLeft ==
  ASSUME NEW m, IsMachine(m), NEW c
  PROVE  HasArms(m, {s \in NamesOf(m) : s = Max(Matching(NamesOf(m), c, c[s]))}, c)
<1> DEFINE A == {s \in NamesOf(m) : s = Max(Matching(NamesOf(m), c, c[s]))}
<1>0. m.n \in Nat \ {0} /\ NamesOf(m) = 0 .. m.n - 1 /\ m.n - 1 \in Nat
  BY MachineRight
<1>1. ASSUME NEW s \in NamesOf(m)
      PROVE  \E a \in A : c[a] = c[s]
  <2> DEFINE M == Matching(NamesOf(m), c, c[s])
  <2>1. M # {} /\ M \in SUBSET (0 .. m.n - 1)
    BY <1>0, <1>1 DEF Matching
  <2>2. Max(M) \in M
    <3> HIDE DEF M
    <3> QED
      BY <1>0, <2>1, GreatestElement
  <2>3. Max(M) \in NamesOf(m) /\ c[Max(M)] = c[s]
    BY <2>2 DEF Matching
  <2>4. Max(M) \in A
    BY <2>3
  <2> QED
    BY <2>3, <2>4
<1> QED
  BY <1>1 DEF HasArms

-----------------------------------------------------------------------------
(* Costs are numbers. *)
LEMMA HammingNatural ==
  ASSUME NEW a, NEW b
  PROVE  Hamming(a, b) \in Nat
<1>1. {i \in 0 .. 7 : BitAt(a, i) # BitAt(b, i)} \in SUBSET (0 .. 7)
  OBVIOUS
<1>2. IsFiniteSet(0 .. 7)
  <2>1. 0 \in Int /\ 7 \in Int
    OBVIOUS
  <2> QED
    BY <2>1, FS_Interval
<1> QED
  BY <1>1, <1>2, FS_Subset, FS_CardinalityType DEF Hamming

IsDistance(f, m, a) ==
  f = [k \in 0 .. m.n |->
        IF k = 0 THEN 0
        ELSE f[k - 1] + Hamming(a[k - 1], a[m.next[k - 1][0]])
                      + Hamming(a[k - 1], a[m.next[k - 1][1]])]

LEMMA DistanceNatural ==
  ASSUME NEW m, IsMachine(m), NEW a
  PROVE  TotalDistance(m, a) \in Nat
<1> DEFINE f == CHOOSE g : IsDistance(g, m, a)
           edges(k) == Hamming(a[k - 1], a[m.next[k - 1][0]])
                         + Hamming(a[k - 1], a[m.next[k - 1][1]])
           next == [k \in 1 .. m.n |-> [v \in Nat |-> v + edges(k)]]
<1>0. m.n \in Nat
  BY MachineRight
<1>1. ASSUME NEW k
      PROVE  edges(k) \in Nat
  <2>1. /\ Hamming(a[k - 1], a[m.next[k - 1][0]]) \in Nat
        /\ Hamming(a[k - 1], a[m.next[k - 1][1]]) \in Nat
    BY HammingNatural
  <2> QED
    BY <2>1
<1>2. TotalDistance(m, a) = f[m.n]
  BY DEF TotalDistance, IsDistance
<1>3. \A g, v : IsDistance(g, m, a) <=>
        g = [k \in 0 .. m.n |-> IF k = 0 THEN 0 ELSE g[k - 1]
                + Hamming(a[k - 1], a[m.next[k - 1][0]])
                + Hamming(a[k - 1], a[m.next[k - 1][1]])]
  BY DEF IsDistance
<1>4. next \in [1 .. m.n -> [Nat -> Nat]]
  <2> HIDE DEF edges
  <2> QED
    BY <1>1
<1>5. PICK g \in [0 .. m.n -> Nat] : IsRun(g, m.n, 0, next)
  <2> HIDE DEF next
  <2> QED
    BY <1>0, <1>4, RecursionExists
<1>6. \A k \in 1 .. m.n : g[k - 1] \in Nat /\ g[k] = g[k - 1] + edges(k)
  <2> HIDE DEF edges
  <2>1. \A k \in 1 .. m.n : k - 1 \in 0 .. m.n
    BY <1>0
  <2> QED
    BY <1>5, <2>1 DEF IsRun
<1>7. IsDistance(g, m, a)
  <2>1. ASSUME NEW k \in 0 .. m.n, k # 0
        PROVE  g[k] = g[k - 1] + Hamming(a[k - 1], a[m.next[k - 1][0]])
                               + Hamming(a[k - 1], a[m.next[k - 1][1]])
    <3>1. k \in 1 .. m.n
      BY <1>0, <2>1
    <3> QED
      BY <1>6, <3>1, HammingNatural
  <2>2. g[0] = 0
    BY <1>5 DEF IsRun
  <2> QED
    BY <1>5, <2>1, <2>2 DEF IsDistance
<1>8. IsDistance(f, m, a)
  BY <1>7
<1> HIDE DEF f
<1> DEFINE S == {k \in 0 .. m.n : f[k] \in Nat}
<1>9. 0 \in S
  BY <1>0, <1>8 DEF IsDistance
<1>10. ASSUME NEW k \in 0 .. m.n - 1, k \in S
       PROVE  k + 1 \in S
  <2>1. k + 1 \in 0 .. m.n /\ k + 1 # 0 /\ (k + 1) - 1 = k
    BY <1>0
  <2>2. f[k + 1] = f[k] + Hamming(a[k], a[m.next[k][0]]) + Hamming(a[k], a[m.next[k][1]])
    BY <1>8, <2>1 DEF IsDistance
  <2>3. Hamming(a[k], a[m.next[k][0]]) \in Nat /\ Hamming(a[k], a[m.next[k][1]]) \in Nat
    BY HammingNatural
  <2>4. f[k + 1] \in Nat
    BY <1>10, <2>2, <2>3
  <2> QED
    BY <2>1, <2>4
<1> HIDE DEF S
<1>11. m.n \in S
  <2>1. \A k \in 0 .. m.n : k \in S
    BY <1>0, <1>9, <1>10, BoundedInduction
  <2> QED
    BY <1>0, <2>1
<1> QED
  BY <1>2, <1>11 DEF S

LEMMA CostNatural ==
  ASSUME NEW m, IsMachine(m), NEW a \in [NamesOf(m) -> Nat]
  PROVE  MeasuredCost(m, a) \in Nat
<1>1. 0 \in NamesOf(m) /\ m.n - 1 \in NamesOf(m)
  BY MachineRight
<1>2. a[0] \in Nat /\ a[m.n - 1] \in Nat
  BY <1>1
<1>3. Rejected \in Nat
  BY FsmAssumption
<1>4. m.cost \in {"distance", "partial", "fails"}
  BY DEF IsMachine
<1>5. ToolCost(m, a) \in Nat
  BY <1>2, <1>3, <1>4, DistanceNatural DEF ToolCost
<1> QED
  BY <1>3, <1>5 DEF MeasuredCost

-----------------------------------------------------------------------------
(* What a search tries gives every group a code of its own. *)
LEMMA EncodingsAssign ==
  ASSUME NEW g \in Encodings
  PROVE  Assigns(codes, g)
<1>1. \A b : 0 .. 2 ^ b - 1 \subseteq Nat
  OBVIOUS
<1>2. CodeSpace(machine) \subseteq Nat
  BY <1>1 DEF CodeSpace
<1>3. g \in [GroupsOf(codes) -> CodeSpace(machine)] /\ Injective(g)
  BY DEF Encodings
<1> QED
  BY <1>2, <1>3 DEF Assigns

LEMMA RanksDiffer ==
  ASSUME IsMachine(machine), codes \in [NamesOf(machine) -> Nat],
         NEW a \in GroupsOf(codes), NEW b \in GroupsOf(codes)
  PROVE  Rank(a) \in NamesOf(machine) /\ (Rank(a) = Rank(b) => a = b)
<1> DEFINE G == GroupsOf(codes)
           before(e) == {d \in G : d < e}
<1> PICK n : n = machine.n
  OBVIOUS
<1>0. n \in Nat \ {0} /\ NamesOf(machine) = 0 .. n - 1
  BY MachineRight
<1>1. G \in SUBSET (0 .. n - 1)
  <2>0. NamesOf(machine) \in SUBSET Nat
    BY <1>0
  <2>1. \A s \in NamesOf(machine) : GroupOf(codes, s) \in NamesOf(machine)
    BY <2>0, GroupRight
  <2>2. G = {GroupOf(codes, s) : s \in NamesOf(machine)}
    BY DEF GroupsOf, GroupOf
  <2> QED
    BY <1>0, <2>1, <2>2
<1> HIDE DEF G
<1>2. ASSUME NEW e \in G
      PROVE  /\ IsFiniteSet(before(e)) /\ Cardinality(before(e)) \in 0 .. n - 1
             /\ e \in 0 .. n - 1
  <2>0. e \in 0 .. n - 1
    BY <1>1
  <2>1. before(e) \in SUBSET (0 .. e - 1)
    <3>1. e \in Nat /\ \A d \in G : d \in Nat
      BY <1>0, <1>1, <2>0
    <3>2. \A d \in Nat : d < e => d \in 0 .. e - 1
      BY <3>1
    <3> QED
      BY <3>1, <3>2
  <2>2. IsFiniteSet(0 .. e - 1) /\ Cardinality(0 .. e - 1) = e
    <3>1. 0 \in Int /\ e - 1 \in Int /\ e \in Nat
      BY <1>0, <2>0
    <3> QED
      BY <3>1, FS_Interval
  <2>3. IsFiniteSet(before(e)) /\ Cardinality(before(e)) <= e
    <3> HIDE DEF before
    <3> QED
      BY <2>1, <2>2, FS_Subset
  <2>4. Cardinality(before(e)) \in Nat
    BY <2>3, FS_CardinalityType
  <2> QED
    BY <1>0, <2>0, <2>3, <2>4
<1>3. ASSUME NEW d \in G, NEW e \in G, d < e
      PROVE  Cardinality(before(d)) # Cardinality(before(e))
  <2>1. d \in 0 .. n - 1 /\ e \in 0 .. n - 1
    BY <1>1
  <2>2. before(d) \in SUBSET before(e) /\ d \in before(e) /\ d \notin before(d)
    <3>1. d \in Nat /\ e \in Nat /\ \A h \in G : h \in Nat
      BY <1>0, <1>1
    <3>2. \A h \in Nat : h < d => h < e
      BY <1>3, <3>1
    <3>3. ~ (d < d)
      BY <3>1
    <3> QED
      BY <1>3, <3>1, <3>2, <3>3
  <2>3. IsFiniteSet(before(e))
    BY <1>2
  <2> HIDE DEF before
  <2> QED
    BY <2>2, <2>3, FS_Subset
<1>4. Rank(a) = Cardinality(before(a)) /\ Rank(b) = Cardinality(before(b))
  BY DEF Rank, G
<1>5. a \in G /\ b \in G
  BY DEF G
<1>6. a = b \/ a < b \/ b < a
  <2>1. a \in Nat /\ b \in Nat
    BY <1>0, <1>1, <1>5
  <2> QED
    BY <2>1
<1> HIDE DEF before
<1> QED
  BY <1>0, <1>2, <1>3, <1>4, <1>5, <1>6

LEMMA CandidatesAssign ==
  ASSUME IsMachine(machine), codes \in [NamesOf(machine) -> Nat],
         machine.search # "none", Strategy # "swap", NEW g \in Candidates
  PROVE  Assigns(codes, g)
<1>1. Strategy \in {"predefined", "exhaustive", "adjacency"}
  BY DEF Strategy, IsMachine
<1>2. CASE Strategy = "predefined"
  <2>1. g = BinaryCodes \/ g = GrayCodes
    BY <1>2 DEF Candidates
  <2>2. NamesOf(machine) \subseteq Nat
    BY MachineRight
  <2>3. Assigns(codes, BinaryCodes)
    BY <2>2, RanksDiffer DEF Assigns, BinaryCodes, Injective
  <2>4. \A s, u \in NamesOf(machine) : Gray(s) \in Nat /\ (Gray(s) = Gray(u) => s = u)
    BY DEF IsMachine
  <2>5. Assigns(codes, GrayCodes)
    BY <2>4, RanksDiffer DEF Assigns, GrayCodes, Injective
  <2> QED
    BY <2>1, <2>3, <2>5
<1>3. CASE Strategy = "exhaustive"
  BY <1>3, EncodingsAssign DEF Candidates
<1>4. CASE Strategy = "adjacency"
  <2>1. g \in Screened
    BY <1>4 DEF Candidates
  <2> DEFINE table  == ExtractTable(machine, arms, codes)
             Key(e) == ScreenCost(table, codes, Expand(codes, e)) * 4096 + OrderKey(e)
             scored == {<<Key(e), e>> : e \in Encodings}
             last   == Min({k \in {p[1] : p \in scored} :
                              Cardinality({p \in scored : p[1] <= k})
                                >= Min({TopK, Cardinality(scored)})})
  <2>2. g \in Encodings
    <3>1. Screened = {p[2] : p \in {q \in scored : q[1] <= last}}
      BY DEF Screened
    <3>2. \A p \in scored : p[2] \in Encodings
      <4> HIDE DEF Key
      <4> QED
        OBVIOUS
    <3> HIDE DEF scored, last
    <3> QED
      BY <2>1, <3>1, <3>2
  <2> QED
    BY <2>2, EncodingsAssign
<1> QED
  BY <1>1, <1>2, <1>3, <1>4

(* A candidate that is committed costs what the cheapest costs. *)
LEMMA CheapestRight ==
  ASSUME NEW S, NEW g \in CheapestOf(S)
  PROVE  g \in S /\ CostOf(g) = Min({CostOf(h) : h \in S})
<1> DEFINE priced == {<<CostOf(h), h>> : h \in S}
<1>1. {p[1] : p \in priced} = {CostOf(h) : h \in S}
  <2>1. \A h \in S : <<CostOf(h), h>> \in priced /\ <<CostOf(h), h>>[1] = CostOf(h)
    OBVIOUS
  <2>2. \A p \in priced : \E h \in S : p[1] = CostOf(h)
    OBVIOUS
  <2> HIDE DEF priced
  <2> QED
    BY <2>1, <2>2
<1>2. CheapestOf(S) = {p[2] : p \in {q \in priced : q[1] = Min({r[1] : r \in priced})}}
  BY DEF CheapestOf
<1>3. PICK p \in priced : p[2] = g /\ p[1] = Min({CostOf(h) : h \in S})
  <2> HIDE DEF priced
  <2> QED
    BY <1>1, <1>2
<1> QED
  BY <1>3

-----------------------------------------------------------------------------
(* What the two exits keep: every code has an arm, names that share a code *)
(* behave alike, and after the first exit exactly the names that           *)
(* minimization merged share one.                                          *)
Coded(m, c, A) ==
  /\ m \in Machines /\ c \in [NamesOf(m) -> Nat]
  /\ HasArms(m, A, c) /\ Congruent(m, c)
Shares(m, c) ==
  \A s, u \in NamesOf(m) :
    c[s] = c[u] <=>
      \/ s = u
      \/ m.minimize /\ ~m.wide /\ <<s, u>> \in Equivalent(m)

LEMMA DeclaredRight ==
  ASSUME NEW m \in Machines
  PROVE  /\ IsMachine(m) /\ Coded(m, Declared(m), NamesOf(m))
         /\ \A s, u \in NamesOf(m) : Declared(m)[s] = Declared(m)[u] => s = u
<1>1. IsMachine(m)
  BY FsmAssumption
<1>2. /\ Declared(m) \in [NamesOf(m) -> Nat]
      /\ \A s, u \in NamesOf(m) : Declared(m)[s] = Declared(m)[u] => s = u
  BY <1>1 DEF IsMachine, Declared
<1>3. HasArms(m, NamesOf(m), Declared(m)) /\ Congruent(m, Declared(m))
  BY <1>2 DEF HasArms, Congruent
<1> QED
  BY <1>1, <1>2, <1>3 DEF Coded

LEMMA ExitRight ==
  ASSUME NEW m \in Machines, NEW c, c = Declared(m), NEW after,
         after = [s \in DOMAIN c |->
                    MinimizeFsm(ExtractTable(m, NamesOf(m), c))[c[s]]]
  PROVE  /\ Coded(m, after, {s \in NamesOf(m) : s = Max(Matching(NamesOf(m), after, after[s]))})
         /\ m.minimize /\ ~m.wide => Shares(m, after)
         /\ ~m.minimize \/ m.wide => Shares(m, c)
<1> DEFINE A == NamesOf(m)
           t == ExtractTable(m, A, c)
           canon == MinimizeFsm(t)
<1>1. /\ IsMachine(m) /\ c \in [NamesOf(m) -> Nat] /\ HasArms(m, A, c) /\ Congruent(m, c)
      /\ \A s, u \in NamesOf(m) : c[s] = c[u] => s = u
  BY DeclaredRight DEF Coded
<1>2. \A s \in NamesOf(m), x \in InputBit : m.next[s][x] \in NamesOf(m)
  BY <1>1, MachineRight
<1>3. /\ IsTable(t)
      /\ \A s \in NamesOf(m) : /\ c[s] \in DOMAIN t.out /\ t.out[c[s]] = m.out[s]
                               /\ \A x \in InputBit : t.next[c[s]][x] = c[m.next[s][x]]
  BY <1>1, TableRight
<1>4. \A s, u \in NamesOf(m) : canon[c[s]] = canon[c[u]] <=> <<s, u>> \in Equivalent(m)
  <2> SUFFICES ASSUME NEW s \in NamesOf(m), NEW u \in NamesOf(m)
               PROVE  MinimizeFsm(ExtractTable(m, NamesOf(m), c))[c[s]]
                        = MinimizeFsm(ExtractTable(m, NamesOf(m), c))[c[u]]
                        <=> <<s, u>> \in Equivalent(m)
    OBVIOUS
  <2> HIDE DEF t, canon
  <2> QED
    BY <1>1, MergesEquivalent
<1> HIDE DEF t, canon
<1>5. after = [s \in NamesOf(m) |-> canon[c[s]]]
  BY <1>1 DEF t, canon
<1>6. after \in [NamesOf(m) -> Nat]
  <2>1. canon \in [DOMAIN t.out -> DOMAIN t.out]
    BY <1>3, MinimizeRight DEF canon
  <2>2. DOMAIN t.out \subseteq Nat
    BY <1>3 DEF IsTable
  <2> QED
    BY <1>3, <1>5, <2>1, <2>2
<1>7. ASSUME NEW s \in NamesOf(m), NEW u \in NamesOf(m), after[s] = after[u]
      PROVE  /\ m.out[s] = m.out[u]
             /\ \A x \in InputBit : after[m.next[s][x]] = after[m.next[u][x]]
  <2>1. canon[c[s]] = canon[c[u]]
    BY <1>5, <1>7
  <2>2. m.out[s] = m.out[u]
    BY <1>3, <2>1, SameOutputs DEF canon
  <2>3. \A x \in InputBit : canon[t.next[c[s]][x]] = canon[t.next[c[u]][x]]
    BY <1>3, <2>1, MinimizeRight DEF canon
  <2> QED
    BY <1>2, <1>3, <1>5, <2>2, <2>3
<1>8. Congruent(m, after)
  BY <1>7 DEF Congruent
<1>9. Coded(m, after, {s \in NamesOf(m) : s = Max(Matching(NamesOf(m), after, after[s]))})
  BY <1>1, <1>6, <1>8, ArmsLeft DEF Coded
<1>10. ASSUME m.minimize, ~m.wide, NEW s \in NamesOf(m), NEW u \in NamesOf(m)
       PROVE  after[s] = after[u] <=>
                s = u \/ (m.minimize /\ ~m.wide /\ <<s, u>> \in Equivalent(m))
  BY <1>4, <1>5, <1>10
<1>11. ASSUME ~m.minimize \/ m.wide
       PROVE  Shares(m, c)
  BY <1>1, <1>11 DEF Shares
<1> QED
  BY <1>9, <1>10, <1>11 DEF Shares

LEMMA ApplyRight ==
  ASSUME NEW m, NEW c, NEW A, Coded(m, c, A), NEW g, Assigns(c, g)
  PROVE  /\ Coded(m, Expand(c, g), A)
         /\ Shares(m, c) => Shares(m, Expand(c, g))
<1>1. IsMachine(m) /\ c \in [NamesOf(m) -> Nat]
  BY DeclaredRight DEF Coded
<1>2. NamesOf(m) \in SUBSET Nat
  BY <1>1, MachineRight
<1>3. /\ Expand(c, g) \in [NamesOf(m) -> Nat]
      /\ \A s, u \in NamesOf(m) : Expand(c, g)[s] = Expand(c, g)[u] <=> c[s] = c[u]
  BY <1>1, <1>2, ExpandShares
<1>4. Shares(m, c) => Shares(m, Expand(c, g))
  BY <1>3 DEF Shares
<1> QED
  BY <1>1, <1>3, <1>4, SameSharing DEF Coded

-----------------------------------------------------------------------------
(* The inductive invariant of the design. *)
DesignInv ==
  /\ Coded(machine, codes, arms)
  /\ fsmPhase = "built" => codes = Declared(machine) /\ arms = NamesOf(machine)
  /\ fsmPhase # "built" => Shares(machine, codes)
  /\ emitted # <<>> =>
       fsmPhase \in {"ready", "run"} /\ emitted = ExtractTable(machine, arms, codes)

(* What a search has in hand is an encoding with the cost it holds for it, *)
(* and the least cost measured is that of what it would commit.            *)
FoundKept ==
  /\ found.trial \in Encodings /\ found.cost = CostOf(found.trial)
SearchInv ==
  /\ restarts \in Nat
  /\ fsmPhase = "built" => restarts = 0 /\ cheapest = -1
  /\ fsmPhase = "merged" =>
       IF restarts = 0 THEN cheapest = -1 ELSE FoundKept /\ cheapest = found.cost
  /\ fsmPhase = "swapping" =>
       /\ trial \in Encodings /\ trialCost = CostOf(trial)
       /\ restarts = 0 => cheapest = trialCost
       /\ restarts # 0 =>
            /\ FoundKept
            /\ cheapest = IF trialCost < found.cost THEN trialCost ELSE found.cost
  /\ fsmPhase = "committed" => CommittedCost = cheapest

LEMMA DesignStarts ==
  ASSUME FsmInit
  PROVE  DesignInv
<1>1. machine \in Machines /\ codes = Declared(machine) /\ arms = NamesOf(machine)
      /\ emitted = <<>> /\ fsmPhase = "built"
  BY DEF FsmInit, FsmStarts
<1> QED
  BY <1>1, DeclaredRight DEF DesignInv

LEMMA DesignKept ==
  ASSUME DesignInv, SearchInv, [FsmNext]_fsmVars
  PROVE  DesignInv'
<1>0. machine \in Machines /\ IsMachine(machine) /\ codes \in [NamesOf(machine) -> Nat]
  BY DeclaredRight DEF DesignInv, Coded
<1>1. ASSUME ExitFsm
      PROVE  DesignInv'
  <2> PICK after : after = [s \in DOMAIN codes |->
          MinimizeFsm(ExtractTable(machine, NamesOf(machine), codes))[codes[s]]]
    OBVIOUS
  <2>1. /\ fsmPhase = "built" /\ fsmPhase' = "merged" /\ machine' = machine /\ emitted' = emitted
        /\ codes = Declared(machine) /\ arms = NamesOf(machine) /\ emitted = <<>>
    BY <1>1 DEF ExitFsm, DesignInv
  <2>2. \/ /\ ~machine.minimize \/ machine.wide \/ after = codes
           /\ codes' = codes /\ arms' = arms
        \/ /\ machine.minimize /\ ~machine.wide
           /\ codes' = after
           /\ arms' = {s \in NamesOf(machine) :
                         s = Max(Matching(NamesOf(machine), after, after[s]))}
    BY <1>1, <2>1 DEF ExitFsm
  <2>3. /\ Coded(machine, after, {s \in NamesOf(machine) :
                    s = Max(Matching(NamesOf(machine), after, after[s]))})
        /\ machine.minimize /\ ~machine.wide => Shares(machine, after)
        /\ ~machine.minimize \/ machine.wide => Shares(machine, codes)
    <3> PICK m, c : m = machine /\ c = codes
      OBVIOUS
    <3>1. /\ Coded(m, after, {s \in NamesOf(m) : s = Max(Matching(NamesOf(m), after, after[s]))})
          /\ m.minimize /\ ~m.wide => Shares(m, after)
          /\ ~m.minimize \/ m.wide => Shares(m, c)
      <4>1. /\ m \in Machines /\ c = Declared(m)
            /\ after = [s \in DOMAIN c |-> MinimizeFsm(ExtractTable(m, NamesOf(m), c))[c[s]]]
        BY <1>0, <2>1
      <4> QED
        BY <4>1, ExitRight
    <3> QED
      BY <3>1
  <2>4. Coded(machine, codes', arms') /\ Shares(machine, codes')
    BY <2>2, <2>3 DEF DesignInv
  <2> QED
    BY <2>1, <2>4 DEF DesignInv
<1>2. ASSUME NEW g, Assigns(codes, g), codes' = Expand(codes, g), fsmPhase = "merged",
             fsmPhase' = "committed", UNCHANGED <<machine, arms, emitted>>
      PROVE  DesignInv'
  <2>1. Coded(machine, Expand(codes, g), arms) /\ Shares(machine, Expand(codes, g))
    BY <1>2, ApplyRight DEF DesignInv
  <2>2. emitted = <<>>
    BY <1>2 DEF DesignInv
  <2> QED
    BY <1>2, <2>1, <2>2 DEF DesignInv
<1>3. ASSUME UNCHANGED designVars, fsmPhase # "built", fsmPhase' # "built",
             emitted # <<>> => fsmPhase' \in {"ready", "run"}
      PROVE  DesignInv'
  BY <1>3 DEF DesignInv, designVars
<1>4. ASSUME NoEncoding \/ SwapRestart \/ SwapStep \/ SwapEnd \/ ResetBoth \/ ClockBoth
      PROVE  DesignInv'
  <2>1. emitted # <<>> => fsmPhase \in {"ready", "run"}
    BY DEF DesignInv
  <2>2. /\ UNCHANGED designVars /\ fsmPhase # "built" /\ fsmPhase' # "built"
        /\ fsmPhase \in {"ready", "run"} => fsmPhase' \in {"ready", "run"}
    BY <1>4 DEF NoEncoding, SwapRestart, SwapStep, SwapEnd, ResetBoth, ClockBoth
  <2> QED
    BY <1>3, <2>1, <2>2
<1>5. ASSUME SearchListed
      PROVE  DesignInv'
  <2>1. PICK g \in CheapestOf(Candidates) : codes' = Expand(codes, g)
    BY <1>5 DEF SearchListed
  <2>2. /\ machine.search # "none" /\ Strategy # "swap" /\ fsmPhase = "merged"
        /\ fsmPhase' = "committed" /\ UNCHANGED <<machine, arms, emitted>>
    BY <1>5 DEF SearchListed
  <2>3. Assigns(codes, g)
    BY <1>0, <2>2, CheapestRight, CandidatesAssign
  <2> QED
    BY <1>2, <2>1, <2>2, <2>3
<1>6. ASSUME SwapCommit
      PROVE  DesignInv'
  <2>1. /\ codes' = Expand(codes, found.trial) /\ fsmPhase = "merged" /\ restarts # 0
        /\ fsmPhase' = "committed" /\ UNCHANGED <<machine, arms, emitted>>
    BY <1>6 DEF SwapCommit, SearchInv
  <2>2. found.trial \in Encodings
    BY <2>1 DEF SearchInv, FoundKept
  <2>3. Assigns(codes, found.trial)
    BY <2>2, EncodingsAssign
  <2> QED
    BY <1>2, <2>1, <2>3
<1>7. ASSUME EmitBits
      PROVE  DesignInv'
  <2>1. /\ fsmPhase = "committed" /\ fsmPhase' = "ready"
        /\ UNCHANGED <<machine, codes, arms>>
        /\ emitted' = <<>> \/ emitted' = ExtractTable(machine, arms, codes)
    BY <1>7 DEF EmitBits
  <2> QED
    BY <2>1 DEF DesignInv
<1>8. ASSUME UNCHANGED fsmVars
      PROVE  DesignInv'
  BY <1>8 DEF DesignInv, fsmVars
<1> QED
  BY <1>1, <1>4, <1>5, <1>6, <1>7, <1>8 DEF FsmNext

-----------------------------------------------------------------------------
LEMMA EncodingCost ==
  ASSUME DesignInv, NEW g \in Encodings
  PROVE  CostOf(g) \in Nat
<1>1. Assigns(codes, g)
  BY EncodingsAssign
<1>2. IsMachine(machine) /\ Expand(codes, g) \in [NamesOf(machine) -> Nat]
  BY <1>1, ApplyRight, DeclaredRight DEF DesignInv, Coded
<1> QED
  BY <1>2, CostNatural DEF CostOf

LEMMA SwapEncoding ==
  ASSUME NEW g \in Encodings, NEW a \in DOMAIN g, NEW b \in DOMAIN g
  PROVE  Swapped(g, a, b) \in Encodings
<1> DEFINE s == Swapped(g, a, b)
<1>1. g \in [GroupsOf(codes) -> CodeSpace(machine)] /\ Injective(g)
  BY DEF Encodings
<1>2. s \in [GroupsOf(codes) -> CodeSpace(machine)]
  BY <1>1 DEF Swapped
<1>3. Injective(s)
  BY <1>1 DEF Swapped, Injective
<1> QED
  BY <1>2, <1>3 DEF Encodings

LEMMA SearchStarts ==
  ASSUME FsmInit
  PROVE  SearchInv
BY DEF FsmInit, FsmStarts, SearchInv

LEMMA SearchKept ==
  ASSUME DesignInv, SearchInv, [FsmNext]_fsmVars
  PROVE  SearchInv'
<1>0. machine \in Machines /\ IsMachine(machine) /\ codes \in [NamesOf(machine) -> Nat]
  BY DeclaredRight DEF DesignInv, Coded
<1>1. ASSUME UNCHANGED <<machine, codes>>
      PROVE  Encodings' = Encodings /\ \A g : MeasuredCost(machine', Expand(codes', g)) = CostOf(g)
  BY <1>1 DEF Encodings, CostOf
<1>2. ASSUME NoEncoding \/ EmitBits \/ ResetBoth \/ ClockBoth
      PROVE  SearchInv'
  <2>1. restarts' = restarts /\ fsmPhase' \in {"ready", "run"}
    BY <1>2 DEF NoEncoding, EmitBits, ResetBoth, ClockBoth, searchVars
  <2> QED
    BY <2>1 DEF SearchInv
<1>3. ASSUME ExitFsm
      PROVE  SearchInv'
  <2>1. /\ restarts' = restarts /\ cheapest' = cheapest
        /\ fsmPhase = "built" /\ fsmPhase' = "merged"
    BY <1>3 DEF ExitFsm, searchVars
  <2> QED
    BY <2>1 DEF SearchInv
<1>4. ASSUME SearchListed
      PROVE  SearchInv'
  <2>1. /\ fsmPhase' = "committed" /\ restarts' = restarts /\ machine' = machine
        /\ cheapest' = Min({CostOf(g) : g \in Candidates})
    BY <1>4 DEF SearchListed
  <2>2. PICK g \in CheapestOf(Candidates) : codes' = Expand(codes, g)
    BY <1>4 DEF SearchListed
  <2>3. CostOf(g) = cheapest'
    BY <2>1, CheapestRight
  <2>4. CommittedCost' = CostOf(g)
    BY <2>1, <2>2 DEF CommittedCost, CostOf
  <2> QED
    BY <2>1, <2>3, <2>4 DEF SearchInv
<1>5. ASSUME SwapRestart
      PROVE  SearchInv'
  <2>1. PICK g \in Encodings : trial' = g /\ trialCost' = CostOf(g) /\ Note(CostOf(g))
    BY <1>5 DEF SwapRestart
  <2>2. /\ fsmPhase = "merged" /\ fsmPhase' \in {"ready", "swapping"}
        /\ UNCHANGED <<machine, codes, found, restarts>>
    BY <1>5 DEF SwapRestart, designVars
  <2>3. CostOf(g) \in Nat
    BY <2>1, EncodingCost
  <2>4. cheapest' = IF cheapest < 0 \/ CostOf(g) < cheapest THEN CostOf(g) ELSE cheapest
    BY <2>1 DEF Note
  <2>5. trial' \in Encodings' /\ trialCost' = CostOf(trial)'
    BY <1>1, <2>1, <2>2 DEF CostOf
  <2>6. restarts = 0 => cheapest' = trialCost'
    BY <2>1, <2>2, <2>3, <2>4 DEF SearchInv
  <2>7. ASSUME restarts # 0
        PROVE  FoundKept' /\ cheapest' = IF trialCost' < found'.cost THEN trialCost' ELSE found'.cost
    <3>1. FoundKept /\ cheapest = found.cost
      BY <2>2, <2>7 DEF SearchInv
    <3>2. found.cost \in Nat
      BY <3>1, EncodingCost DEF FoundKept
    <3>3. FoundKept'
      BY <1>1, <2>2, <3>1 DEF FoundKept, CostOf
    <3> QED
      BY <2>1, <2>2, <2>3, <2>4, <3>1, <3>2, <3>3
  <2> QED
    BY <2>2, <2>5, <2>6, <2>7 DEF SearchInv
<1>6. ASSUME SwapStep
      PROVE  SearchInv'
  <2>1. PICK a \in DOMAIN trial, b \in DOMAIN trial :
          /\ trial' = Accepted(trial, Swapped(trial, a, b))
          /\ trialCost' = IF CostOf(Swapped(trial, a, b)) < trialCost
                          THEN CostOf(Swapped(trial, a, b)) ELSE trialCost
          /\ Note(CostOf(Swapped(trial, a, b)))
    BY <1>6 DEF SwapStep
  <2> PICK s : s = Swapped(trial, a, b)
    OBVIOUS
  <2>2. /\ fsmPhase = "swapping" /\ fsmPhase' = "swapping"
        /\ UNCHANGED <<machine, codes, found, restarts>>
    BY <1>6 DEF SwapStep, designVars
  <2>3. trial \in Encodings /\ trialCost = CostOf(trial)
    BY <2>2 DEF SearchInv
  <2>4. s \in Encodings
    BY <2>1, <2>3, SwapEncoding
  <2>5. CostOf(s) \in Nat /\ trialCost \in Nat
    BY <2>3, <2>4, EncodingCost
  <2>6. trial' \in Encodings /\ trialCost' = MeasuredCost(machine', Expand(codes', trial'))
    BY <1>1, <2>1, <2>2, <2>3, <2>4 DEF Accepted
  <2>7. trial' \in Encodings' /\ trialCost' = CostOf(trial)'
    BY <1>1, <2>2, <2>6 DEF CostOf
  <2>8. cheapest' = IF cheapest < 0 \/ CostOf(s) < cheapest THEN CostOf(s) ELSE cheapest
    BY <2>1 DEF Note
  <2>9. trialCost' = IF CostOf(s) < trialCost THEN CostOf(s) ELSE trialCost
    BY <2>1
  <2>10. restarts = 0 => cheapest' = trialCost'
    BY <2>2, <2>5, <2>8, <2>9 DEF SearchInv
  <2>11. ASSUME restarts # 0
         PROVE  FoundKept' /\ cheapest' = IF trialCost' < found'.cost THEN trialCost' ELSE found'.cost
    <3>1. FoundKept /\ cheapest = IF trialCost < found.cost THEN trialCost ELSE found.cost
      BY <2>2, <2>11 DEF SearchInv
    <3>2. found.cost \in Nat
      BY <3>1, EncodingCost DEF FoundKept
    <3>3. FoundKept'
      BY <1>1, <2>2, <3>1 DEF FoundKept, CostOf
    <3> QED
      BY <2>2, <2>5, <2>8, <2>9, <3>1, <3>2, <3>3
  <2> QED
    BY <2>2, <2>7, <2>10, <2>11 DEF SearchInv
<1>7. ASSUME SwapEnd
      PROVE  SearchInv'
  <2>1. /\ fsmPhase = "swapping" /\ fsmPhase' = "merged" /\ restarts' = restarts + 1
        /\ UNCHANGED <<machine, codes, cheapest>>
        /\ found' = IF restarts = 0 \/ trialCost < found.cost
                    THEN [trial |-> trial, cost |-> trialCost] ELSE found
    BY <1>7 DEF SwapEnd, designVars
  <2>2. /\ restarts \in Nat /\ trial \in Encodings /\ trialCost = CostOf(trial)
        /\ restarts = 0 => cheapest = trialCost
        /\ restarts # 0 => /\ FoundKept
                           /\ cheapest = IF trialCost < found.cost THEN trialCost ELSE found.cost
    BY <2>1 DEF SearchInv
  <2>3. found'.trial \in Encodings /\ found'.cost = CostOf(found'.trial) /\ cheapest' = found'.cost
    BY <2>1, <2>2 DEF FoundKept
  <2>4. FoundKept'
    BY <1>1, <2>1, <2>3 DEF FoundKept, CostOf
  <2> QED
    BY <2>1, <2>2, <2>3, <2>4 DEF SearchInv
<1>8. ASSUME SwapCommit
      PROVE  SearchInv'
  <2>1. /\ fsmPhase = "merged" /\ restarts # 0 /\ codes' = Expand(codes, found.trial)
        /\ fsmPhase' = "committed" /\ restarts' = 0 /\ UNCHANGED <<machine, cheapest>>
    BY <1>8 DEF SwapCommit, SearchInv
  <2>2. cheapest = CostOf(found.trial)
    BY <2>1 DEF SearchInv, FoundKept
  <2>3. CommittedCost' = cheapest'
    BY <2>1, <2>2 DEF CommittedCost, CostOf
  <2> QED
    BY <2>1, <2>3 DEF SearchInv
<1>9. ASSUME UNCHANGED fsmVars
      PROVE  SearchInv'
  <2>1. UNCHANGED <<machine, codes, trial, trialCost, found, restarts, cheapest, fsmPhase>>
    BY <1>9 DEF fsmVars
  <2>2. (FoundKept' <=> FoundKept) /\ CommittedCost' = CommittedCost
        /\ Encodings' = Encodings /\ CostOf(trial)' = CostOf(trial)
    BY <2>1 DEF FoundKept, CommittedCost, Encodings, CostOf
  <2> QED
    BY <2>1, <2>2 DEF SearchInv
<1> QED
  BY <1>2, <1>3, <1>4, <1>5, <1>6, <1>7, <1>8, <1>9 DEF FsmNext

(* The inductive invariant of the passes holds of every behaviour. *)
THEOREM FsmInvHolds == FsmSpec => [](DesignInv /\ SearchInv)
<1>1. FsmInit => DesignInv /\ SearchInv
  BY DesignStarts, SearchStarts
<1>2. (DesignInv /\ SearchInv) /\ [FsmNext]_fsmVars => (DesignInv /\ SearchInv)'
  BY DesignKept, SearchKept
<1> QED
  BY <1>1, <1>2, PTL DEF FsmSpec

(* SharesExactlyEquivalent, for all machines and options: after all passes *)
(* two states share a code exactly if minimize_fsm ran and no inputs tell  *)
(* them apart; no search spreads or merges anything.                       *)
THEOREM FsmSharesExactly == FsmSpec => []SharesExactlyEquivalent
<1>1. DesignInv => SharesExactlyEquivalent
  BY DEF DesignInv, SharesExactlyEquivalent, Shares
<1> QED
  BY <1>1, FsmInvHolds, PTL

(* CheapestCommitted, for all machines, budgets and numbers of restarts    *)
(* and swaps: what optimized_encoding applies costs what the cheapest      *)
(* measurement of the whole search gave.                                   *)
THEOREM FsmCheapest == FsmSpec => []CheapestCommitted
<1>1. SearchInv => CheapestCommitted
  BY DEF SearchInv, CheapestCommitted
<1> QED
  BY <1>1, FsmInvHolds, PTL

-----------------------------------------------------------------------------
(* The optimized design beside the machine as written. *)
InStep ==
  fsmPhase = "run" =>
    /\ golden \in NamesOf(machine)
    /\ codes[machine.start] = ResetCode => register = codes[golden]
Undelayed == \A m \in Machines : m.delayed = {}

(* What the design reads and what it makes of it, at the code of a name:   *)
(* the cascade and the tables of minimize_and_rewrite do the same.         *)
LEMMA DesignAnswers ==
  ASSUME Undelayed, DesignInv, NEW s \in NamesOf(machine), register = codes[s],
         NEW x \in InputBit
  PROVE  /\ Seen(x)[s] = x
         /\ RegisterNext(x) = {codes[machine.next[s][x]]}
         /\ OutputsNow(x) = {machine.out[s][x]}
<1>1. /\ machine \in Machines /\ IsMachine(machine) /\ codes \in [NamesOf(machine) -> Nat]
      /\ HasArms(machine, arms, codes) /\ Congruent(machine, codes)
  BY DeclaredRight DEF DesignInv, Coded
<1>2. Seen(x) = Through(machine, x) /\ Seen(x)[s] = x
  BY <1>1 DEF Seen, Through, Undelayed
<1>3. CASE emitted = <<>>
  BY <1>1, <1>2, <1>3, CascadeRight DEF RegisterNext, OutputsNow
<1>4. CASE emitted # <<>>
  <2>1. emitted = ExtractTable(machine, arms, codes)
    BY <1>4 DEF DesignInv
  <2>2. /\ codes[s] \in DOMAIN emitted.out /\ codes[s] \in DOMAIN emitted.next
        /\ emitted.out[codes[s]] = machine.out[s]
        /\ emitted.next[codes[s]][x] = codes[machine.next[s][x]]
    BY <1>1, <2>1, TableRight
  <2> QED
    BY <1>2, <1>4, <2>2 DEF RegisterNext, OutputsNow, LogicNext, LogicOutputs
<1> QED
  BY <1>2, <1>3, <1>4

LEMMA StepKept ==
  ASSUME Undelayed, DesignInv, InStep, [FsmNext]_fsmVars
  PROVE  InStep'
<1>0. /\ machine \in Machines /\ IsMachine(machine) /\ machine.start \in NamesOf(machine)
      /\ \A s \in NamesOf(machine), x \in InputBit : machine.next[s][x] \in NamesOf(machine)
  BY DeclaredRight, MachineRight DEF DesignInv, Coded
<1>1. ASSUME ClockBoth
      PROVE  InStep'
  <2>1. PICK x \in InputBit : /\ golden' = machine.next[golden][Seen(x)[golden]]
                              /\ register' \in RegisterNext(x)
    BY <1>1 DEF ClockBoth
  <2>2. fsmPhase = "run" /\ UNCHANGED <<machine, codes>> /\ golden \in NamesOf(machine)
    BY <1>1 DEF ClockBoth, designVars, InStep
  <2>3. Seen(x)[golden] = x
    BY <1>0, <2>2 DEF Seen, Undelayed
  <2>4. golden' \in NamesOf(machine)
    BY <1>0, <2>1, <2>2, <2>3
  <2>5. ResetCode' = ResetCode
    BY <2>2 DEF ResetCode
  <2>6. ASSUME codes[machine.start] = ResetCode
        PROVE  register' = codes[golden']
    <3>1. register = codes[golden]
      BY <2>2, <2>6 DEF InStep
    <3>2. RegisterNext(x) = {codes[machine.next[golden][x]]}
      BY <2>2, <3>1, DesignAnswers
    <3> QED
      BY <2>1, <2>3, <3>2
  <2> QED
    BY <2>2, <2>4, <2>5, <2>6 DEF InStep
<1>2. ASSUME ResetBoth
      PROVE  InStep'
  <2>1. golden' = machine.start /\ register' = ResetCode /\ UNCHANGED <<machine, codes>>
    BY <1>2 DEF ResetBoth, designVars
  <2>2. ResetCode' = ResetCode
    BY <2>1 DEF ResetCode
  <2> QED
    BY <1>0, <2>1, <2>2 DEF InStep
<1>3. ASSUME \/ ExitFsm \/ NoEncoding \/ SearchListed \/ SwapRestart \/ SwapStep
             \/ SwapEnd \/ SwapCommit \/ EmitBits
      PROVE  InStep'
  <2>1. fsmPhase' # "run"
    BY <1>3 DEF ExitFsm, NoEncoding, SearchListed, SwapRestart, SwapStep, SwapEnd,
                SwapCommit, EmitBits
  <2> QED
    BY <2>1 DEF InStep
<1>4. ASSUME UNCHANGED fsmVars
      PROVE  InStep'
  BY <1>4 DEF fsmVars, InStep, ResetCode
<1> QED
  BY <1>1, <1>2, <1>3, <1>4 DEF FsmNext

(* BehaviourKept, for all machines whose guards read the input itself: as  *)
(* long as the reset value is still the code of the reset state, merging,  *)
(* any search and the bit-level rewrite leave the outputs of the machine   *)
(* as written, whatever the input and however long.                        *)
THEOREM FsmBehaviourKept ==
  ASSUME Undelayed
  PROVE  FsmSpec => []BehaviourKept
<1>1. FsmInit => InStep
  BY DEF FsmInit, FsmStarts, InStep
<1>2. DesignInv /\ InStep /\ [FsmNext]_fsmVars => InStep'
  BY StepKept
<1>3. DesignInv /\ InStep => BehaviourKept
  <2> SUFFICES ASSUME DesignInv, InStep, fsmPhase = "run",
                      codes[machine.start] = ResetCode, NEW x \in InputBit
               PROVE  OutputsNow(x) = {machine.out[golden][Seen(x)[golden]]}
    BY DEF BehaviourKept, OutputsAgree
  <2>1. golden \in NamesOf(machine) /\ register = codes[golden]
    BY DEF InStep
  <2> QED
    BY <2>1, DesignAnswers
<1> QED
  BY <1>1, <1>2, <1>3, FsmInvHolds, PTL DEF FsmSpec
=============================================================================
