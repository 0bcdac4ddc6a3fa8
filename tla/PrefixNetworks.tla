--------------------------- MODULE PrefixNetworks ----------------------------
(***************************************************************************)
(* prefix_adders: prefix networks as sets of nodes <<i, j>>, each of which *)
(* computes group generate and propagate of bits j..i from two nodes that  *)
(* split the range, leaves <<i, i>> being implicit; and the adders built   *)
(* from them.  A bit is 0 or 1, bit 0 of a number the lowest.              *)
(***************************************************************************)
EXTENDS Integers, Sequences, FiniteSets, FiniteSetsExt, SequencesExt

BitXor(x, y) == (x + y) % 2
BitAnd(x, y) == x * y
BitOr(x, y)  == x + y - x * y
BitNot(x)    == 1 - x
Bit(v, k)    == (v \div 2^k) % 2
LogCeil(n)   == CHOOSE l \in 0..n : 2^l >= n /\ (l = 0 \/ 2^(l - 1) < n)

-----------------------------------------------------------------------------
(* Node sets before legalization. *)
Carries(n) == {<<i, 0>> : i \in 1..(n - 1)}

RippleNodes(n) == Carries(n)

Pairs(n) == (0..(n - 1)) \X (0..(n - 1))

(* Spans 1, 3, 7, ...: 2^(s+1) - 1. *)
KoggeStoneNodes(n) ==
  Carries(n) \cup {p \in Pairs(n) : \E s \in 1..n : p[1] - p[2] = 2^s - 1}

SklanskyNodes(n) ==
  {p \in Pairs(n) : \E s \in 0..LogCeil(n + 1) :
     /\ 2^(s + 1) <= n /\ p[2] % 2^(s + 1) = 0
     /\ p[1] - p[2] \in (2^s)..(2^(s + 1) - 1)}

(* Sweeps that keep, for every position, the start of the range it covers: *)
(* st = [at, nodes]; position i joins what position r covers.              *)
Joined(st, i, r) == [at    |-> [st.at EXCEPT ![i] = st.at[r]],
                     nodes |-> st.nodes \cup {<<i, st.at[r]>>}]
Unswept(n) == [at |-> [i \in 0..(n - 1) |-> i], nodes |-> {}]
Ascending(S) ==
  LET sorted[T \in SUBSET S] == IF T = {} THEN <<>> ELSE <<Min(T)>> \o sorted[T \ {Min(T)}]
  IN  sorted[S]
Swept(st, pairs) == FoldLeft(LAMBDA s, p : Joined(s, p[1], p[2]), st, pairs)

UpSweep(n, s) == LET ends == {i \in (2^(s + 1) - 1)..(n - 1) : (i + 1) % 2^(s + 1) = 0}
                 IN  [k \in DOMAIN Ascending(ends) |->
                        <<Ascending(ends)[k], Ascending(ends)[k] - 2^s>>]
DownSweep(n, s) == LET from == 3 * 2^s - 1
                       mids == {i \in from..(n - 1) : (i - from) % 2^(s + 1) = 0}
                   IN  [k \in DOMAIN Ascending(mids) |->
                          <<Ascending(mids)[k], Ascending(mids)[k] - 2^s>>]
BrentKungNodes(n) ==
  LET l == LogCeil(n)
  IN  IF n <= 1 THEN {}
      ELSE Swept(Swept(Unswept(n), FlattenSeq([s \in 1..l |-> UpSweep(n, s - 1)])),
                 FlattenSeq([s \in 1..(l - 1) |-> DownSweep(n, l - 1 - s)])).nodes

HanCarlsonNodes(n) ==
  Carries(n)
  \cup {p \in Pairs(n) : \E s \in 0..n :
          2^s < n /\ p[1] - p[2] = 2^s /\ p[2] % 2^(s + 1) = 0}
  \cup {p \in Pairs(n) : \E s \in 1..n :
          2^s < n /\ p[1] - p[2] = 2^s - 1 /\ p[2] % 2^(s + 1) = 0}

(* Odd positions join their predecessors, recurse, and the even ones join  *)
(* the odd before them.                                                    *)
LFBuild(n) ==
  LET joins[idx \in Seq(0..(n - 1))] ==
        IF Len(idx) <= 1 THEN <<>>
        ELSE LET odd == [k \in 1..(Len(idx) \div 2) |-> idx[2 * k]]
             IN  [k \in 1..Len(odd) |-> <<odd[k], idx[2 * k - 1]>>]
                 \o joins[odd]
                 \o [k \in 1..((Len(idx) - 1) \div 2) |-> <<idx[2 * k + 1], idx[2 * k]>>]
  IN  joins[[k \in 1..n |-> k - 1]]
LadnerFischerNodes(n) == Swept(Unswept(n), LFBuild(n)).nodes

(* Kogge-Stone over the ends of blocks of `sparsity` bits. *)
SparseKoggeStoneNodes(n, sparsity) ==
  LET ends  == Ascending({n - 1} \cup {i \in 0..(n - 1) : (i + 1) % sparsity = 0})
      local == [at    |-> [i \in 0..(n - 1) |-> IF i < sparsity THEN 0 ELSE i - (sparsity - 1)],
                nodes |-> {<<ends[k], IF ends[k] < sparsity THEN 0 ELSE ends[k] - (sparsity - 1)>> :
                           k \in DOMAIN ends}]
      sweep(s) == [k \in 1..(Len(ends) - 2^s) |-> <<ends[k + 2^s], ends[k]>>]
      stages == {s \in 0..n : 2^s < Len(ends)}
  IN  IF n <= 1 THEN {}
      ELSE Swept(local, FlattenSeq([s \in 1..Cardinality(stages) |-> sweep(s - 1)])).nodes

-----------------------------------------------------------------------------
(* Hand-crafted networks: triples (parent, parent, level), the ranges they *)
(* produce depending on the order of the levels.                           *)
PrefixNodesToRanges(n, triples) ==
  LET key(t) == (t[3] * n + t[1]) * n + t[2]
      step(st, k) ==
        LET t == CHOOSE x \in triples : key(x) = k
            r0 == st.at[t[1]]
            r1 == st.at[t[2]]
            upper == IF r0[1] > r1[1] THEN r0[1] ELSE r1[1]
            lower == IF r0[2] < r1[2] THEN r0[2] ELSE r1[2]
        IN  [at |-> [st.at EXCEPT ![t[2]] = <<upper, lower>>],
             out |-> st.out \cup {<<upper, lower>>}]
  IN  FoldLeft(step, [at |-> [i \in 0..(n - 1) |-> <<i, i>>], out |-> {}],
               Ascending({key(t) : t \in triples})).out

At(level, pairs) == {<<p[1], p[2], level>> : p \in pairs}
Pairwise(from, to) == {<<i, i + 1>> : i \in {k \in from..to : (k - from) % 2 = 0}}

MultiScan24 ==
  At(1, Pairwise(0, 22))
  \cup At(2, {<<1, 3>>, <<5, 7>>, <<9, 11>>, <<13, 15>>, <<17, 19>>})
  \cup At(3, {<<3, 7>>, <<11, 15>>}) \cup At(4, {<<7, 15>>})
  \cup At(5, {<<7, 11>>, <<15, 19>>})
  \cup At(6, {<<3, 5>>, <<7, 9>>, <<11, 13>>, <<15, 17>>, <<19, 21>>})
  \cup At(7, Pairwise(1, 21) \cup {<<21, 23>>})
MultiScan32 ==
  At(1, Pairwise(0, 30))
  \cup At(2, {<<1, 3>>, <<7, 9>>, <<13, 15>>, <<19, 21>>, <<25, 27>>})
  \cup At(3, {<<3, 5>>, <<9, 11>>, <<15, 17>>, <<21, 23>>, <<27, 29>>})
  \cup At(4, {<<5, 11>>, <<17, 23>>}) \cup At(5, {<<11, 17>>, <<11, 23>>})
  \cup At(6, {<<5, 7>>, <<5, 9>>, <<11, 13>>, <<11, 15>>, <<17, 19>>, <<17, 21>>,
              <<23, 25>>, <<23, 27>>, <<23, 29>>})
  \cup At(7, Pairwise(1, 29) \cup {<<29, 31>>})
ZCG24 ==
  At(1, Pairwise(0, 20))
  \cup At(2, {<<1, 2>>, <<1, 3>>, <<5, 7>>, <<9, 11>>, <<13, 15>>, <<17, 19>>, <<21, 22>>})
  \cup At(3, {<<3, 4>>, <<3, 5>>, <<3, 7>>, <<11, 15>>, <<19, 22>>})
  \cup At(4, {<<5, 6>>, <<7, 8>>, <<7, 9>>, <<7, 11>>, <<7, 15>>})
  \cup At(5, {<<9, 10>>, <<11, 12>>, <<11, 13>>, <<15, 16>>, <<15, 17>>, <<15, 19>>, <<15, 22>>})
  \cup At(6, {<<13, 14>>, <<17, 18>>, <<19, 20>>, <<19, 21>>, <<22, 23>>})
ZCG32 ==
  At(1, Pairwise(0, 20) \cup {<<23, 24>>, <<27, 28>>})
  \cup At(2, {<<1, 2>>, <<1, 3>>, <<5, 7>>, <<9, 11>>, <<13, 15>>, <<17, 19>>,
              <<21, 22>>, <<24, 25>>, <<28, 29>>})
  \cup At(3, {<<3, 4>>, <<3, 5>>, <<3, 7>>, <<11, 15>>, <<19, 22>>, <<25, 26>>, <<29, 30>>})
  \cup At(4, {<<5, 6>>, <<7, 8>>, <<7, 9>>, <<7, 11>>, <<7, 15>>, <<22, 26>>, <<30, 31>>})
  \cup At(5, {<<9, 10>>, <<11, 12>>, <<11, 13>>, <<15, 16>>, <<15, 17>>, <<15, 19>>,
              <<15, 22>>, <<15, 26>>})
  \cup At(6, {<<13, 14>>, <<17, 18>>, <<19, 20>>, <<19, 21>>, <<22, 23>>, <<22, 24>>,
              <<22, 25>>, <<26, 27>>, <<26, 28>>, <<26, 29>>, <<26, 30>>, <<26, 31>>})

ParallelScan8b == Carries(8) \cup {<<1, 0>>, <<4, 3>>, <<5, 3>>, <<7, 6>>}
ParallelScan16b ==
  Carries(16) \cup {<<4, 3>>, <<5, 3>>, <<7, 6>>, <<8, 6>>, <<10, 9>>, <<11, 9>>,
                    <<13, 12>>, <<14, 12>>, <<11, 6>>}

(* The next lower template serves a width that has none of its own. *)
MultiScanNodes(n) ==
  IF n >= 32 THEN PrefixNodesToRanges(32, MultiScan32)
  ELSE IF n >= 24 THEN PrefixNodesToRanges(24, MultiScan24)
  ELSE IF n >= 16 THEN ParallelScan16b ELSE ParallelScan8b
ZCGNodes(n) ==
  IF n >= 32 THEN PrefixNodesToRanges(32, ZCG32) ELSE PrefixNodesToRanges(24, ZCG24)

-----------------------------------------------------------------------------
(* Legality and splits. *)
Node == {p \in Nat \X Nat : p[2] <= p[1]}
Present(P, i, j) == i = j \/ <<i, j>> \in P
ValidSplits(P, i, j) == {k \in j..(i - 1) : Present(P, i, k + 1) /\ Present(P, k, j)}

(* A node out of range is refused, leaves are not stored. *)
InRange(P, n) == P \subseteq {p \in Node : p[1] < n}
Normalized(P) == {p \in P : p[1] # p[2]}

(* What legalize_P starts from. *)
StartNodes(P, n) == Normalized(P) \cup Carries(n)
(* fix_node: a node without a split gets the nodes of the split at i - 2,  *)
(* which are repaired in their turn.                                       *)
FixNode(P, i, j) ==
  LET fix[t \in (SUBSET Node) \X Node] ==
        LET Q == t[1]
            a == t[2][1]
            b == t[2][2]
            left == fix[<<Q \cup {<<a, a - 1>>}, <<a, a - 1>>>>]
        IN  IF a = b \/ ValidSplits(Q, a, b) # {} THEN Q
            ELSE IF a - 2 # b THEN fix[<<left \cup {<<a - 2, b>>}, <<a - 2, b>>>>]
            ELSE left
  IN  fix[<<P, <<i, j>>>>]

FixCarries(P, n) ==
  LET fixed[i \in 0..(n - 1)] == IF i = 0 THEN P ELSE FixNode(fixed[i - 1], i, 0)
  IN  fixed[n - 1]

(* legalize_P, its nodes visited in ascending order. *)
Legalized(P, n) ==
  LET Q == StartNodes(P, n)
      fix(R, k) == FixNode(R, k \div n, k % n)
  IN  FixCarries(FoldLeft(fix, Q, Ascending({p[1] * n + p[2] : p \in Q})), n)

(* validate_legality *)
ValidNetwork(P, n) ==
  /\ \A p \in P : p[1] # p[2] => ValidSplits(P, p[1], p[2]) # {}
  /\ \A i \in 1..(n - 1) : <<i, 0>> \in P

(* analyze_prefix_matrix: the split of least depth, the lowest among such. *)
Larger(x, y) == IF x > y THEN x ELSE y
(* The nodes of a network and the leaves, up to bit i. *)
Nodes(P, i) == {q \in Node : q[1] <= i /\ Present(P, q[1], q[2])}
NodeDepth(P, i, j) ==
  LET depth[q \in Nodes(P, i)] ==
        IF q[1] = q[2] THEN 0
        ELSE Min({1 + Larger(depth[<<q[1], k + 1>>], depth[<<k, q[2]>>]) :
                  k \in ValidSplits(P, q[1], q[2])})
  IN  depth[<<i, j>>]
(* fault: the deepest halves *)
WorstSplit(P, i, j) ==
  LET cost(k) == Larger(NodeDepth(P, i, k + 1), NodeDepth(P, k, j))
  IN  CHOOSE k \in ValidSplits(P, i, j) : \A m \in ValidSplits(P, i, j) : cost(k) >= cost(m)
(* The split of least depth, the lowest of several. *)
BestSplit(P, i, j) ==
  LET cost(k) == Larger(NodeDepth(P, i, k + 1), NodeDepth(P, k, j))
  IN  CHOOSE k \in ValidSplits(P, i, j) :
        \A m \in ValidSplits(P, i, j) : cost(k) < cost(m) \/ (cost(k) = cost(m) /\ k <= m)
(* _find_split of the final stages: the highest. *)
FindSplit(P, i, j) == Max(ValidSplits(P, i, j))
(* Depth of the tree that splits make of node (i, j). *)
SplitDepth(splits, i, j) ==
  LET depth[q \in Nodes(DOMAIN splits, i)] ==
        IF q[1] = q[2] THEN 0
        ELSE 1 + Larger(depth[<<q[1], splits[q] + 1>>], depth[<<splits[q], q[2]>>])
  IN  depth[<<i, j>>]
(* get_depth: along the lowest splits. *)
GreedyDepth(P, i, j) ==
  SplitDepth([q \in P |-> Min(ValidSplits(P, q[1], q[2]))], i, j)

SplitModes == {"min_depth_splits", "first_split"}
(* The split of every node of a legal network. *)
Splits(P, mode) ==
  [p \in P |-> IF mode = "min_depth_splits" THEN BestSplit(P, p[1], p[2])
               ELSE FindSplit(P, p[1], p[2])]

(* (G, P) of bits j..i, from the bits' generates g and propagates p. *)
(* fault: a group generates with its lower half's propagate *)
GroupGPSwapped(splits, g, p, i, j) ==
  LET gp[q \in Nodes(DOMAIN splits, i)] ==
        LET hi == gp[<<q[1], splits[q] + 1>>]
            lo == gp[<<splits[q], q[2]>>]
        IN  IF q[1] = q[2] THEN <<g[q[1]], p[q[1]]>>
            ELSE <<BitOr(hi[1], BitAnd(lo[2], lo[1])), BitAnd(hi[2], lo[2])>>
  IN  gp[<<i, j>>]
GroupGP(splits, g, p, i, j) ==
  LET gp[q \in Nodes(DOMAIN splits, i)] ==
        LET hi == gp[<<q[1], splits[q] + 1>>]
            lo == gp[<<splits[q], q[2]>>]
        IN  IF q[1] = q[2] THEN <<g[q[1]], p[q[1]]>>
            ELSE <<BitOr(hi[1], BitAnd(hi[2], lo[1])), BitAnd(hi[2], lo[2])>>
  IN  gp[<<i, j>>]

(* PrefixAdderFinalStage.resolve() on two rows of bits: the sum bits and   *)
(* the carry out, lowest first.                                            *)
PrefixSum(splits, n, rowA, rowB, cin) ==
  LET p == [i \in 0..(n - 1) |-> BitXor(rowA[i], rowB[i])]
      g == [i \in 0..(n - 1) |-> BitAnd(rowA[i], rowB[i])]
      carry == [i \in 0..n |-> IF i = 0 THEN cin
                  ELSE LET gp == GroupGP(splits, g, p, i - 1, 0)
                       IN  BitOr(gp[1], BitAnd(gp[2], cin))]
  IN  [i \in 1..(n + 1) |-> IF i = n + 1 THEN carry[n] ELSE BitXor(p[i - 1], carry[i - 1])]
=============================================================================
