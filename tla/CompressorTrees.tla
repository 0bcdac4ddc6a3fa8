--------------------------- MODULE CompressorTrees ---------------------------
(***************************************************************************)
(* Partial-product accumulators (ppa_stages.py, multiplier_stage_core.py): *)
(* they bring columns of bits down to two bits each without changing their *)
(* weighted sum.  Final-stage adders then make one number of the two rows. *)
(*                                                                         *)
(* A bit is [v, level, ord]: its value, its arrival level and its age.     *)
(* st.cols[w + 1] is the column of weight w; st.ord is the next age.  A    *)
(* pass is a plan, the compressors to apply to a column of a height, and a *)
(* discipline that says which height counts and where the results go.      *)
(***************************************************************************)
EXTENDS Integers, Sequences, SequencesExt, FiniteSets, FiniteSetsExt, PrefixNetworks

Modes == {"fifo", "lifo", "earliest"}

-----------------------------------------------------------------------------
(* Gates: <<sum, carry>>. *)
HalfAdder(x, y) == <<BitXor(x, y), BitAnd(x, y)>>
FullAdderFast(x, y, z) == LET s1 == BitXor(x, y) IN <<BitXor(s1, z), BitOr(BitAnd(s1, z), BitAnd(x, y))>>
FullAdderFast2(x, y, z) == LET s1 == BitXor(x, y) IN <<BitXor(s1, z), BitOr(BitAnd(x, y), BitAnd(z, s1))>>
FullAdderLowArea(x, y, z) ==
  <<BitXor(BitXor(x, y), z), BitOr(BitOr(BitAnd(x, y), BitAnd(y, z)), BitAnd(z, x))>>
FullAdder(optim, x, y, z) == IF optim = "area" THEN FullAdderLowArea(x, y, z) ELSE FullAdderFast(x, y, z)
Majority(x, y, z) == BitOr(BitOr(BitAnd(x, y), BitAnd(x, z)), BitAnd(y, z))

(* Bits in, sum first, then carries, out. *)
Compress42(optim, a, b, c, d) ==
  LET one == FullAdder(optim, a, b, c)
      two == FullAdder(optim, one[1], d, 0)
  IN  <<two[1], one[2], two[2]>>
Compress42Parallel(a, b, c, d) ==
  LET parity == BitXor(BitXor(a, b), c)
  IN  <<BitXor(BitXor(parity, d), 0), Majority(parity, d, 0), Majority(a, b, c)>>
Compress52(optim, a, b, c, d, e) ==
  LET one == FullAdder(optim, a, b, c)
      two == FullAdder(optim, one[1], d, e)
  IN  <<two[1], one[2], two[2]>>
Compress52Parallel(a, b, c, d, e) ==
  LET parity == BitXor(BitXor(a, b), c)
  IN  <<BitXor(BitXor(parity, d), e), Majority(parity, d, e), Majority(a, b, c)>>

Arity(kind) == CASE kind = "ha" -> 2 [] kind = "fa" -> 3 [] kind \in {"c42", "c42p"} -> 4
                 [] kind \in {"c52", "c52p"} -> 5

Gates(kind, optim, t) ==
  CASE kind = "ha"   -> HalfAdder(t[1].v, t[2].v)
    [] kind = "fa"   -> FullAdder(optim, t[1].v, t[2].v, t[3].v)
    [] kind = "c42"  -> Compress42(optim, t[1].v, t[2].v, t[3].v, t[4].v)
    [] kind = "c42p" -> Compress42Parallel(t[1].v, t[2].v, t[3].v, t[4].v)
    [] kind = "c52"  -> Compress52(optim, t[1].v, t[2].v, t[3].v, t[4].v, t[5].v)
    [] kind = "c52p" -> Compress52Parallel(t[1].v, t[2].v, t[3].v, t[4].v, t[5].v)

(* When the outputs arrive: the cascaded 4:2 counts each of its adders.    *)
Levels(kind, t) ==
  LET latest(S) == Max({t[k].level : k \in S})
      inner == latest(1..3) + 2
      outer == Larger(inner, t[4].level) + 2
  IN  CASE kind = "ha"  -> <<latest(1..2) + 1, latest(1..2) + 1>>
        [] kind = "fa"  -> <<inner, inner>>
        [] kind = "c42" -> <<outer, inner, outer>>
        [] OTHER -> [k \in 1..3 |-> latest(DOMAIN t) + 2]

-----------------------------------------------------------------------------
(* Picking bits. *)
Earlier(x, y) == x.level < y.level \/ (x.level = y.level /\ x.ord < y.ord)
Ranked(bits, k) == {i \in DOMAIN bits : Cardinality({j \in DOMAIN bits : Earlier(bits[j], bits[i])}) < k}
Picked(bits, I) == [n \in 1..Cardinality(I) |->
                      bits[CHOOSE i \in I : Cardinality({j \in I : j < i}) = n - 1]]
TakeFifo(bits, k) == [taken |-> SubSeq(bits, 1, k), left |-> SubSeq(bits, k + 1, Len(bits))]
TakeLifo(bits, k) == [taken |-> Reverse(SubSeq(bits, Len(bits) - k + 1, Len(bits))),
                      left |-> SubSeq(bits, 1, Len(bits) - k)]
TakeEarliest(bits, k) == [taken |-> Picked(bits, Ranked(bits, k)),
                          left |-> Picked(bits, DOMAIN bits \ Ranked(bits, k))]
(* _take_bits, _pop *)
Take(bits, k, mode) == CASE mode = "fifo" -> TakeFifo(bits, k) [] mode = "lifo" -> TakeLifo(bits, k)
                         [] mode = "earliest" -> TakeEarliest(bits, k)

NewBits(kind, optim, taken, ord) ==
  LET v == Gates(kind, optim, taken)
      l == Levels(kind, taken)
  IN  [k \in DOMAIN v |-> [v |-> v[k], level |-> l[k], ord |-> ord + k - 1]]
Appended(cols, w, bits) == IF w > Len(cols) THEN Append(cols, bits) ELSE [cols EXCEPT ![w] = @ \o bits]

(* _apply_fa, _apply_ha, _apply_c42, _apply_compress on column w. *)
Apply(st, w, kind, cfg) ==
  LET t == Take(st.cols[w], Arity(kind), cfg.mode)
      new == NewBits(kind, cfg.optim, t.taken, st.ord)
  IN  [cols |-> Appended([st.cols EXCEPT ![w] = Append(t.left, new[1])], w + 1, Tail(new)),
       ord |-> st.ord + Len(new)]

-----------------------------------------------------------------------------
(* Plans. *)
Times(n, kind) == [k \in 1..n |-> kind]
(* Two leftovers of a column that was higher are halved. *)
Rest(h, used) == IF h - used = 2 /\ h > 2 THEN <<"ha">> ELSE IF h - used = 3 THEN <<"fa">>
                 ELSE IF h - used = 4 THEN <<"c42">> ELSE <<>>
WallacePlan(h)   == Times(h \div 3, "fa") \o (IF h % 3 = 2 /\ h > 2 THEN <<"ha">> ELSE <<>>)
CarrySavePlan(h) == Times(h \div 3, "fa")
FourTwoPlan(h, c42)  == Times(h \div 4, c42) \o Rest(h, 4 * (h \div 4))
FiveTwoPlan(h, c52)  == Times(h \div 5, c52) \o Rest(h, 5 * (h \div 5))

(* Down to two bits, with the largest compressor that fits. *)
RECURSIVE UntilTwo(_, _)
UntilTwo(h, ladder) ==
  IF h <= 2 THEN <<>>
  ELSE LET kind == ladder[CHOOSE i \in DOMAIN ladder :
                            Arity(ladder[i]) <= h /\ \A j \in 1..(i - 1) : Arity(ladder[j]) > h]
       IN  <<kind>> \o UntilTwo(h - Arity(kind) + 1, ladder)
(* Down to a threshold: never below it. *)
RECURSIVE DaddaPlan(_, _)
DaddaPlan(h, target) ==
  IF h <= target THEN <<>>
  ELSE IF h - 2 >= target THEN <<"fa">> \o DaddaPlan(h - 2, target)
  ELSE <<"ha">> \o DaddaPlan(h - 1, target)

(* Disciplines: fold a plan over the columns there are, lowest first. *)
Followed(st, w, plan, cfg) == FoldLeft(LAMBDA s, kind : Apply(s, w, kind, cfg), st, plan)
Weights(st) == [w \in 1..Len(st.cols) |-> w]
(* Heights as they are, with the carries of the columns below, or as they  *)
(* were before the pass.                                                   *)
ColumnPass(st, running, plan(_), cfg) ==
  FoldLeft(LAMBDA s, w : Followed(s, w, plan(Len((IF running THEN s ELSE st).cols[w])), cfg), st, Weights(st))
(* Results and what is left go to a second set of columns. *)
BufferedColumn(bits, plan, cfg) ==
  FoldLeft(LAMBDA s, kind :
             LET t == Take(s.left, Arity(kind), cfg.mode)
                 new == NewBits(kind, cfg.optim, t.taken, 0)
             IN  [left |-> t.left, sums |-> Append(s.sums, new[1]), carries |-> s.carries \o Tail(new)],
           [left |-> bits, sums |-> <<>>, carries |-> <<>>], plan)
BufferedPass(st, plan(_), cfg) ==
  LET done == [w \in DOMAIN st.cols |-> BufferedColumn(st.cols[w], plan(Len(st.cols[w])), cfg)]
      kept == [w \in DOMAIN st.cols |-> (IF w = 1 THEN <<>> ELSE done[w - 1].carries)
                                        \o done[w].sums \o done[w].left]
      over == done[Len(st.cols)].carries
  IN  [st EXCEPT !.cols = IF over = <<>> THEN kept ELSE Append(kept, over)]

-----------------------------------------------------------------------------
(* What each accumulator does to a column of h bits; some look again at    *)
(* the running height when they take the earliest bits first.              *)
FullAddersOnly(h) == UntilTwo(h, <<"fa">>)
Wallace(h) == WallacePlan(h)
EagerWallace(h) == WallacePlan(h)
CompressorTree(h, running)  == IF running THEN FullAddersOnly(h) ELSE WallacePlan(h)
CarrySave(h) == CarrySavePlan(h)
FourTwo(h) == FourTwoPlan(h, "c42")
FourTwoParallel(h, running) == IF running THEN UntilTwo(h, <<"c42p", "fa">>) ELSE FourTwoPlan(h, "c42p")
FiveTwo(h, running)         == IF running THEN UntilTwo(h, <<"c52", "c42", "fa">>) ELSE FiveTwoPlan(h, "c52")
FiveTwoParallel(h, running) == IF running THEN UntilTwo(h, <<"c52p", "c42", "fa">>) ELSE FiveTwoPlan(h, "c52p")
Dadda(h, limit) == DaddaPlan(h, limit[1])

Planned(cfg, h, running, limit) ==
  CASE cfg.ppa \in {"wallace", "balanced_wallace"} -> Wallace(h)
    [] cfg.ppa = "eager_wallace"     -> EagerWallace(h)
    [] cfg.ppa = "compressor_tree"   -> CompressorTree(h, running)
    [] cfg.ppa = "carry_save"        -> CarrySave(h)
    [] cfg.ppa = "four_two"          -> FourTwo(h)
    [] cfg.ppa = "four_two_parallel" -> FourTwoParallel(h, running)
    [] cfg.ppa = "five_two"          -> FiveTwo(h, running)
    [] cfg.ppa = "five_two_parallel" -> FiveTwoParallel(h, running)
    [] cfg.ppa = "dadda"             -> Dadda(h, limit)

(* BalancedDelayWallaceAccumulator: the column whose next adder is ready   *)
(* first, from a heap of <<level, weight, height>>; stale entries are      *)
(* dropped.  Then what is still high is drained.                           *)
AdderLevel(bits) == Max({bits[i].level : i \in Ranked(bits, 3)}) + 2
HeapEntry(st, w) == IF Len(st.cols[w]) < 3 THEN {} ELSE {<<AdderLevel(st.cols[w]), w, Len(st.cols[w])>>}
RECURSIVE HeapDrained(_, _, _)
HeapDrained(st, heap, cfg) ==
  IF heap = {} THEN st
  ELSE LET e == CHOOSE x \in heap : \A y \in heap :
                  x[1] < y[1] \/ (x[1] = y[1] /\ (x[2] < y[2] \/ (x[2] = y[2] /\ x[3] <= y[3])))
           next == Apply(st, e[2], "fa", cfg)
       IN  IF e \notin HeapEntry(st, e[2]) THEN HeapDrained(st, heap \ {e}, cfg)
           ELSE HeapDrained(next, (heap \ {e}) \cup HeapEntry(next, e[2]) \cup HeapEntry(next, e[2] + 1), cfg)
BalancedDelayPass(st, cfg) == HeapDrained(st, UNION {HeapEntry(st, w) : w \in DOMAIN st.cols}, cfg)

(* DaddaTreeAccumulator: thresholds 2, 3, 4, 6, 9, ..., the largest left   *)
(* out; a pass per threshold.                                              *)
RECURSIVE BuildThresholds(_, _)
BuildThresholds(ts, top) == IF Last(ts) >= top THEN ts ELSE BuildThresholds(Append(ts, (3 * Last(ts)) \div 2), top)
StageLimits(st) == Tail(Reverse(BuildThresholds(<<2>>, Max({Len(st.cols[w]) : w \in DOMAIN st.cols}))))

(* One pass of an accumulator. *)
Replanning == {"eager_wallace", "compressor_tree", "four_two_parallel", "five_two", "five_two_parallel"}
AccumulatorPass(st, limit, cfg) ==
  LET earliest == cfg.mode = "earliest"
      running == cfg.ppa = "dadda" \/ (earliest /\ cfg.ppa \in Replanning)
      plan(h) == Planned(cfg, h, running, limit)
  IN  IF cfg.ppa = "dadda" /\ limit = <<>> THEN st
      ELSE IF cfg.ppa = "balanced_wallace" /\ earliest THEN BalancedDelayPass(st, cfg)
      ELSE IF cfg.ppa = "dadda" \/ earliest THEN ColumnPass(st, running, plan, cfg)
      ELSE BufferedPass(st, plan, cfg)

(* The cleanup of the earliest CarrySave and BalancedDelay schedules. *)
CleanupPass(st, cfg) == ColumnPass(st, TRUE, FullAddersOnly, cfg)

(* _wrap_columns: pairs <<weight, bit>> to columns; all arrive at level 1, *)
(* their age by weight and position.                                       *)
WrapColumns(pairs) ==
  LET top == Max({p[1] : p \in ToSet(pairs)})
      column(w) == SelectSeq(pairs, LAMBDA p : p[1] = w)
      below(w) == Cardinality({k \in DOMAIN pairs : pairs[k][1] < w})
  IN  [cols |-> [w \in 1..(top + 1) |->
                   [k \in 1..Len(column(w - 1)) |->
                      [v |-> column(w - 1)[k][2], level |-> 1, ord |-> below(w - 1) + k - 1]]],
       ord |-> Len(pairs)]

Height(cols) == Max({0} \cup {Len(cols[w]) : w \in DOMAIN cols})

-----------------------------------------------------------------------------
(* Final-stage adders (fsa_stages.py, RippleCarryFinalAdder): the two rows *)
(* of a reduced set of columns to one row of bits, lowest first.  A column *)
(* higher than the adder takes is an error: Unexpected.                    *)
Unexpected == <<"ValueError">>
Column(cols, w) == IF w < Len(cols) THEN cols[w + 1] ELSE <<>>
Fits(cols, width, limit) == \A w \in 0..(width - 1) : Len(Column(cols, w)) <= limit
Values(bits) == [k \in DOMAIN bits |-> bits[k].v]

(* RippleCarryFinalAdder: a carry is a third bit of its column, or none.   *)
RippleCarryResolve(cols, width, cin, optim) ==
  LET step(s, w) ==
        LET bits == Values(Column(cols, w - 1)) \o s.carry
            out == CASE Len(bits) = 2 -> HalfAdder(bits[1], bits[2])
                     [] Len(bits) = 3 -> FullAdder(optim, bits[1], bits[2], bits[3])
                     [] Len(bits) = 1 -> bits
                     [] OTHER -> <<0>>
        IN  [sum |-> Append(s.sum, out[1]), carry |-> Tail(out), ok |-> s.ok /\ Len(bits) <= 3]
      end == FoldLeft(step, [sum |-> <<>>, carry |-> cin, ok |-> TRUE], [w \in 1..width |-> w])
  IN  IF end.ok THEN end.sum \o end.carry ELSE Unexpected

(* NaiveRippleCarryFinalStage: stops at the output width. *)
NaiveRippleResolve(cols, width, cin, optim) ==
  LET adder(x, y, z) == IF optim = "area" THEN FullAdderLowArea(x, y, z) ELSE FullAdderFast2(x, y, z)
      step(s, w) ==
        LET bits == Values(Column(cols, w - 1))
            out == CASE Len(bits) = 0 -> <<s.carry, 0>>
                     [] Len(bits) = 1 -> HalfAdder(bits[1], s.carry)
                     [] OTHER -> adder(bits[1], bits[2], s.carry)
        IN  [sum |-> Append(s.sum, out[1]), carry |-> out[2]]
  IN  IF Fits(cols, width, 2)
      THEN FoldLeft(step, [sum |-> <<>>, carry |-> IF cin = <<>> THEN 0 ELSE cin[1]], [w \in 1..width |-> w]).sum
      ELSE Unexpected

(* Two dense rows over the output width and every spill column above it.   *)
WorkingWidth(cols, width) == Larger(width, Len(cols))
Row(cols, n, k) == [w \in 0..(n - 1) |-> IF Len(Column(cols, w)) >= k THEN Column(cols, w)[k].v ELSE 0]
CarryIn(cin) == IF cin = <<>> THEN 0 ELSE cin[1]

(* PlusOperatorAdderFinalStage *)
PlusResolve(cols, width, cin) ==
  LET n == WorkingWidth(cols, width)
      number(r) == FoldLeft(LAMBDA v, w : v + r[w - 1] * 2^(w - 1), 0, [w \in 1..n |-> w])
      total == number(Row(cols, n, 1)) + number(Row(cols, n, 2)) + CarryIn(cin)
  IN  IF Fits(cols, n, 2) THEN [k \in 1..(n + 1 + Len(cin)) |-> Bit(total, k - 1)] ELSE Unexpected

(* PrefixAdderFinalStage, with the network its builder makes. *)
PrefixResolve(cols, width, cin, nodes(_), mode) ==
  LET n == WorkingWidth(cols, width)
  IN  IF ~Fits(cols, n, 2) THEN Unexpected
      ELSE CHOOSE r \in {PrefixSum(splits, n, Row(cols, n, 1), Row(cols, n, 2), CarryIn(cin)) :
                         splits \in {Splits(Legalized(nodes(n), n), mode)}} : TRUE

Resolve(fsa, cols, width, cin, optim, mode) ==
  CASE fsa = "ripple_carry"       -> RippleCarryResolve(cols, width, cin, optim)
    [] fsa = "naive_ripple_carry" -> NaiveRippleResolve(cols, width, cin, optim)
    [] fsa = "plus"               -> PlusResolve(cols, width, cin)
    [] fsa = "prefix_kogge_stone" -> PrefixResolve(cols, width, cin, KoggeStoneNodes, mode)
    [] fsa = "prefix_brent_kung"  -> PrefixResolve(cols, width, cin, BrentKungNodes, mode)
    [] fsa = "prefix_sklansky"    -> PrefixResolve(cols, width, cin, SklanskyNodes, mode)
    [] fsa = "prefix_ripple"      -> PrefixResolve(cols, width, cin, RippleNodes, mode)
    [] fsa = "prefix_han_carlson" -> PrefixResolve(cols, width, cin, HanCarlsonNodes, mode)
    [] fsa = "prefix_ladner_fischer" -> PrefixResolve(cols, width, cin, LadnerFischerNodes, mode)
    [] fsa = "prefix_sparse_2" -> PrefixResolve(cols, width, cin, LAMBDA n : SparseKoggeStoneNodes(n, 2), mode)
    [] fsa = "prefix_sparse_4" -> PrefixResolve(cols, width, cin, LAMBDA n : SparseKoggeStoneNodes(n, 4), mode)
    [] fsa = "prefix_multi_scan"  -> PrefixResolve(cols, width, cin, MultiScanNodes, mode)
    [] fsa = "prefix_zcg"         -> PrefixResolve(cols, width, cin, ZCGNodes, mode)
=============================================================================
