----------------------------- MODULE Reductions -----------------------------
(***************************************************************************)
(* Reductions over a list of items: folds in three shapes, prefix scans in *)
(* three, the comparator as a prefix network of bits, and the selection of *)
(* the greatest or least item with its position, by a tree, a chain or all *)
(* comparisons at once.                                                    *)
(* Folds and scans are shown for every operation at once: items are        *)
(* one-element sequences and the operation is concatenation, so the result *)
(* tells in which order what was combined.                                 *)
(***************************************************************************)
EXTENDS Integers, Sequences, FiniteSets

CONSTANTS Reductions    \* [form, op, compare, topology, items, depths]

VARIABLES
  reduction,   \* what is reduced, and how
  reduced      \* the result, or Unreduced

reductionVars == <<reduction, reduced>>

-----------------------------------------------------------------------------
(* An item to compare is [v, w, s, i]: a number, its width and signedness, *)
(* and its position.                                                       *)
ItemBit(x, b) ==
  LET at == IF b < x.w THEN b ELSE x.w - 1
  IN  IF b >= x.w /\ ~x.s THEN 0 ELSE ((x.v % 2^x.w) \div 2^at) % 2
WiderItem(x, y) == IF x.w >= y.w THEN x.w ELSE y.w

(* Per bit "wins here" and "ties here", from the top; the sign bit counts  *)
(* the other way round.                                                    *)
(* fault: the sign bit counts as any other *)
UnsignedTop(x, w, b) == ItemBit(x, b)
OrderBit(x, w, b) == IF x.s /\ b = w - 1 THEN 1 - ItemBit(x, b) ELSE ItemBit(x, b)
BitPairs(x, y) ==
  LET w == WiderItem(x, y) IN
  [k \in 1..w |-> LET a == OrderBit(x, w, w - k)
                      b == OrderBit(y, w, w - k)
                  IN  <<a > b, a = b>>]

RECURSIVE FoldPairs(_)
FoldPairs(layer) ==
  IF Len(layer) = 1 THEN layer[1]
  ELSE FoldPairs([k \in 1..((Len(layer) + 1) \div 2) |->
         IF 2 * k > Len(layer) THEN layer[2 * k - 1]
         ELSE LET hi == layer[2 * k - 1]
                  lo == layer[2 * k]
              IN  <<hi[1] \/ (hi[2] /\ lo[1]), hi[2] /\ lo[2]>>])
PrefixGe(x, y) == FoldPairs(BitPairs(x, y))[1] \/ FoldPairs(BitPairs(x, y))[2]

AtLeast(x, y, compare) == IF compare = "prefix" THEN PrefixGe(x, y) ELSE x.v >= y.v
Better(x, y, r) == IF r.op = "max" THEN AtLeast(x, y, r.compare) ELSE AtLeast(y, x, r.compare)

(* The operation of a reduction; sums grow by one bit each. *)
Combined2(x, y, r) ==
  LET w == WiderItem(x, y) IN
  CASE r.op = "concat" -> x \o y
    [] r.op = "sum" -> [x EXCEPT !.v = (x.v + y.v) % 2^(w + 1), !.w = w + 1]
    [] r.op \in {"max", "min"} /\ Better(x, y, r) -> [x EXCEPT !.w = w]
    [] OTHER -> [y EXCEPT !.w = w]

-----------------------------------------------------------------------------
(* reduce_tree: neighbours in pairs, or one after the other, or the two of *)
(* least depth first.                                                      *)
RECURSIVE TreeFold(_, _), ChainFold(_, _), HuffmanFold(_, _, _)
TreeFold(layer, r) ==
  IF Len(layer) = 1 THEN layer[1]
  ELSE TreeFold([k \in 1..((Len(layer) + 1) \div 2) |->
         IF 2 * k > Len(layer) THEN layer[2 * k - 1] ELSE Combined2(layer[2 * k - 1], layer[2 * k], r)], r)
ChainFold(layer, r) ==
  IF Len(layer) = 1 THEN layer[1]
  ELSE ChainFold(<<Combined2(layer[1], layer[2], r)>> \o SubSeq(layer, 3, Len(layer)), r)
Sooner(p, q) == p.depth < q.depth \/ (p.depth = q.depth /\ p.seq < q.seq)
FirstOf(heap) == CHOOSE p \in heap : \A q \in heap \ {p} : Sooner(p, q)
HuffmanFold(heap, seq, r) ==
  LET p == FirstOf(heap)
      q == FirstOf(heap \ {p})
      d == IF p.depth >= q.depth THEN p.depth ELSE q.depth
  IN  IF Cardinality(heap) = 1 THEN p.e
      ELSE HuffmanFold((heap \ {p, q}) \cup {[depth |-> d + 1, seq |-> seq, e |-> Combined2(p.e, q.e, r)]}, seq + 1, r)
Heap(r) == {[depth |-> r.depths[k], seq |-> k, e |-> r.items[k]] : k \in DOMAIN r.items}

ReduceTree(r) ==
  CASE r.topology = "tree" -> TreeFold(r.items, r)
    [] r.topology = "chain" -> ChainFold(r.items, r)
    [] OTHER -> HuffmanFold(Heap(r), Len(r.items) + 1, r)

(* All comparisons at once: the winner beats those to its right and is not *)
(* beaten from its left; the words of the winners are or-ed.               *)
Wins(r, i) ==
  /\ \A k \in 1..(i - 1) : ~Better(r.items[k], r.items[i], r)
  /\ \A j \in (i + 1)..Len(r.items) : Better(r.items[i], r.items[j], r)
RECURSIVE OnehotPick(_, _)
OnehotPick(words, w) ==
  IF w = 0 THEN 0
  ELSE OnehotPick(words, w - 1)
         + (IF \E v \in words : (v \div 2^(w - 1)) % 2 = 1 THEN 2^(w - 1) ELSE 0)
MatrixSelect(r) ==
  LET winners == {i \in DOMAIN r.items : Wins(r, i)}
      w == r.items[1].w
  IN  [v |-> OnehotPick({r.items[i].v % 2^w : i \in winners}, w), w |-> w, s |-> FALSE,
       i |-> OnehotPick({i - 1 : i \in winners}, 4) + 1]

Clamp(r) ==
  LET x == r.items[1]
      m == IF x.v >= r.items[2].v THEN x ELSE r.items[2]
  IN  IF m.v <= r.items[3].v THEN m ELSE r.items[3]

-----------------------------------------------------------------------------
(* prefix_scan *)
RECURSIVE Sklansky(_, _), BrentKung(_, _), KoggeStone(_, _, _)
Sklansky(xs, r) ==
  LET m == (Len(xs) + 1) \div 2
      left == Sklansky(SubSeq(xs, 1, m), r)
      right == Sklansky(SubSeq(xs, m + 1, Len(xs)), r)
  IN  IF Len(xs) = 1 THEN xs
      ELSE left \o [k \in DOMAIN right |-> Combined2(left[m], right[k], r)]
BrentKung(xs, r) ==
  LET n == Len(xs)
      ps == BrentKung([k \in 1..((n + 1) \div 2) |->
              IF 2 * k > n THEN xs[n] ELSE Combined2(xs[2 * k - 1], xs[2 * k], r)], r)
  IN  IF n = 1 THEN xs
      ELSE [k \in 1..n |-> IF k = 1 THEN xs[1]
                           ELSE IF k % 2 = 0 THEN ps[k \div 2]
                           ELSE Combined2(ps[(k - 1) \div 2], xs[k], r)]
KoggeStone(xs, d, r) ==
  IF d >= Len(xs) THEN xs
  ELSE KoggeStone([k \in DOMAIN xs |-> IF k <= d THEN xs[k] ELSE Combined2(xs[k - d], xs[k], r)], 2 * d, r)
PrefixScan(r) ==
  CASE r.topology = "sklansky" -> Sklansky(r.items, r)
    [] r.topology = "brentkung" -> BrentKung(r.items, r)
    [] OTHER -> KoggeStone(r.items, 1, r)

-----------------------------------------------------------------------------
Unreduced == <<>>
ReductionInit == reduction \in Reductions /\ reduced = Unreduced
Reduce ==
  /\ reduced = Unreduced
  /\ reduced' = CASE reduction.form = "scan" -> PrefixScan(reduction)
                  [] reduction.form = "clamp" -> Clamp(reduction)
                  [] reduction.form = "fold" /\ reduction.topology = "matrix" -> MatrixSelect(reduction)
                  [] OTHER -> ReduceTree(reduction)
  /\ UNCHANGED reduction
ReductionNext == Reduce
ReductionSpec == ReductionInit /\ [][ReductionNext]_reductionVars

-----------------------------------------------------------------------------
(* The left-to-right reading of a reduction. *)
RECURSIVE Joined2(_)
Joined2(xs) == IF xs = <<>> THEN <<>> ELSE Head(xs) \o Joined2(Tail(xs))
RECURSIVE SumOfItems(_)
SumOfItems(xs) == IF xs = <<>> THEN 0 ELSE Head(xs).v + SumOfItems(Tail(xs))
Leftmost(r) ==
  LET as_good(x, y) == IF r.op = "max" THEN x.v >= y.v ELSE x.v <= y.v
  IN  CHOOSE i \in DOMAIN r.items :
        /\ \A j \in DOMAIN r.items : as_good(r.items[i], r.items[j])
        /\ \A j \in 1..(i - 1) : ~as_good(r.items[j], r.items[i])

(* Every shape combines every item once, in order where the operation need *)
(* not commute; a scan ends every prefix; the selection is of the leftmost *)
(* among equals in all topologies and with both comparators; sums do not   *)
(* overflow; and a clamp stays within its bounds.                          *)
ReductionsAgree ==
  LET items == reduction.items IN
  reduced # Unreduced =>
    CASE reduction.form = "scan" -> \A k \in DOMAIN items : reduced[k] = Joined2(SubSeq(items, 1, k))
      [] reduction.form = "clamp" ->
           reduced.v = IF items[1].v < items[2].v THEN items[2].v
                       ELSE IF items[1].v > items[3].v THEN items[3].v ELSE items[1].v
      [] reduction.form = "fold" /\ reduction.op = "concat" ->
           /\ reduction.topology # "huffman" => reduced = Joined2(items)
           /\ Len(reduced) = Len(items) /\ {reduced[k] : k \in DOMAIN reduced} = {items[k][1] : k \in DOMAIN items}
      [] reduction.form = "fold" /\ reduction.op = "sum" -> reduced.v = SumOfItems(items)
      [] OTHER ->
           LET best == items[Leftmost(reduction)] IN
           /\ (reduced.v - best.v) % 2^(IF reduction.topology = "matrix" THEN reduced.w ELSE 8) = 0
           /\ reduction.topology # "huffman" => reduced.i = best.i
=============================================================================
