--------------------------- MODULE StageArithmetic ---------------------------
(***************************************************************************)
(* Stage-based arithmetic: a job's operands become columns of bits         *)
(* (PartialProducts), an accumulator reduces them pass by pass             *)
(* and a final adder makes one number (CompressorTrees).                   *)
(* The jobs are the multiplier, the fused inner products, the sum of many  *)
(* operands, the adder and the subtractor.                                 *)
(***************************************************************************)
EXTENDS PartialProducts, CompressorTrees

CONSTANT Shapes   \* the jobs, without their operands

VARIABLES
  job,      \* [shape, xs, ys, c]: the operands
  stage,    \* "generate", "accumulate", "cleanup", "resolve", "done"
  trees,    \* the compressor trees: one, or one for each sign
  limits,   \* Dadda: the thresholds still to reach, for each tree
  results   \* the bits each tree resolves to

stageVars == <<job, stage, trees, limits, results>>

-----------------------------------------------------------------------------
(* Operands: x and y alternate over the positions of a vector. *)
Samples(w, values) == CASE values = "all" -> 0..(2^w - 1)
                        [] values = "corners" -> {0, 1, 2^(w - 1) - 1, 2^(w - 1), 2^w - 1}
                        [] values = "extremes" -> {2^(w - 1), 2^w - 1}
Operands(n, w, signed, u, v) ==
  [k \in 1..n |-> [val |-> IF k % 2 = 1 THEN u ELSE v, w |-> w, signed |-> signed]]
JobsOf(s) ==
  LET X == Samples(s.wa, s.values)
      Y == Samples(s.wb, s.values)
  IN  {[shape |-> s, xs |-> Operands(s.n, s.wa, s.sa, q[1], q[2]),
        ys |-> Operands(s.n, s.wb, s.sb, q[3], q[4]), c |-> [val |-> q[5], w |-> s.wc, signed |-> s.sa]] :
       q \in {p \in X \X X \X Y \X Y \X Samples(s.wc, "extremes") :
                s.n = 1 => p[1] = p[2] /\ p[3] = p[4]}}

(* Bits needed for the largest unsigned sum of products and c. *)
ResultWidth(s) ==
  LET top == s.n * (2^(s.wa + s.wb) - 1) + 2^s.wc - 1
  IN  Larger(s.wa + s.wb, LogCeil(top + 1))
(* build_multi_input_add *)
SumWidth(s) == Larger(s.wa + (IF s.sb /\ ~s.sa THEN 1 ELSE 0), s.wb + (IF s.sa /\ ~s.sb THEN 1 ELSE 0))
               + Larger(1, LogCeil(2 * s.n))
OutWidth(s) ==
  CASE s.kind = "mul" -> s.wa + s.wb
    [] s.kind \in {"dot", "dot_b", "dot_sm"} -> ResultWidth(s)
    [] s.kind = "sum" -> SumWidth(s)
    [] s.kind \in {"add", "sub"} -> Larger(s.wa, s.wb) + (IF s.full THEN 1 ELSE 0)

-----------------------------------------------------------------------------
(* Columns of the jobs. *)

(* The bits of a constant, modulo 2^out. *)
ConstantColumns(v, out) ==
  [k \in 1..Cardinality({i \in 0..(out - 1) : Bit(v, i) = 1}) |->
     <<CHOOSE i \in 0..(out - 1) : Bit(v, i) = 1 /\ Cardinality({j \in 0..(i - 1) : Bit(v, j) = 1}) = k - 1, 1>>]

(* The upper corrections of n Baugh-Wooley products in one constant: a run *)
(* of ones for a power of two, the negative sum otherwise.                 *)
LiftedUpper(s, out) ==
  LET shift == s.wa + s.wb - 1
      lg == LogCeil(s.n)
  IN  IF 2^lg = s.n THEN [k \in 1..Larger(0, out - shift - lg) |-> <<shift + lg + k - 1, 1>>]
      ELSE ConstantColumns((2^out * s.n - s.n * 2^shift) % 2^out, out)
LiftedLower(s, out) ==
  ConstantColumns(IF s.wa = s.wb THEN s.n * 2^s.wa ELSE s.n * (2^(s.wa - 1) + 2^(s.wb - 1)), out)

(* s_ext of c to the output; Baugh-Wooley's form: the inverted sign and    *)
(* ones from there on.                                                     *)
TermColumns(c, out) ==
  [k \in 1..(IF c.signed THEN out ELSE (IF c.w < out THEN c.w ELSE out)) |->
     <<k - 1, IF k <= c.w THEN Bit(c.val, k - 1) ELSE Bit(c.val, c.w - 1)>>]
InvertedTermColumns(c, out) ==
  [k \in 1..(c.w - 1) |-> <<k - 1, Bit(c.val, k - 1)>>] \o <<<<c.w - 1, BitNot(Bit(c.val, c.w - 1))>>>>
  \o [k \in 1..(out - c.w + 1) |-> <<c.w + k - 2, 1>>]

ProductsOf(j, out, gen(_, _)) ==
  Below(FlattenSeq([k \in DOMAIN j.xs |-> gen(j.xs[k], j.ys[k])]), out)

(* fused_inner_product of the fused core: Baugh-Wooley's corrections are   *)
(* lifted out of all products, its term enters in inverted form.           *)
FusedColumns(j, out) ==
  LET s == j.shape
  IN  IF s.ppg = "baugh_wooley"
      THEN ProductsOf(j, out, LAMBDA a, b : BaughWooleyBody(a, b, out))
           \o LiftedUpper(s, out) \o LiftedLower(s, out)
           \o (IF s.sa /\ out > s.wc THEN InvertedTermColumns(j.c, out) ELSE TermColumns(j.c, out))
      ELSE ProductsOf(j, out, LAMBDA a, b : GenerateColumns(s.ppg, a, b, out)) \o TermColumns(j.c, out)

(* That of the core with shared digits of b: only the upper correction is  *)
(* lifted.                                                                 *)
FusedPrecomputedBColumns(j, out) ==
  LET s == j.shape
  IN  (IF s.ppg = "baugh_wooley"
       THEN ProductsOf(j, out, LAMBDA a, b : BaughWooleyBody(a, b, out) \o BaughWooleyLower(a, b))
            \o LiftedUpper(s, out)
       ELSE ProductsOf(j, out, LAMBDA a, b : GenerateColumns(s.ppg, a, b, out)))
      \o TermColumns(j.c, out)

(* That of the sign-magnitude core: magnitudes only, each product's bits   *)
(* in the tree of its sign.                                                *)
SignOf(x) == Bit(x.val, x.w - 1)
Magnitude(x) == [val |-> x.val % 2^(x.w - 1), w |-> x.w - 1, signed |-> FALSE]
Gated(pairs, on) == [k \in DOMAIN pairs |-> <<pairs[k][1], BitAnd(pairs[k][2], on)>>]
SignedTree(j, out, sign) ==
  LET when(bit) == IF bit = sign THEN 1 ELSE 0
  IN  ProductsOf(j, out, LAMBDA a, b :
        Gated(GenerateColumns(j.shape.ppg, Magnitude(a), Magnitude(b), out), when(BitXor(SignOf(a), SignOf(b)))))
      \o Gated(TermColumns(Magnitude(j.c), out), when(SignOf(j.c)))

(* sign_extension_columns: a signed operand gives its inverted sign, and   *)
(* the constants of all operands fold into one.                            *)
AllOperands(j) == j.xs \o j.ys
SignExtensionColumns(j, out) ==
  LET bits(x) == [k \in 1..x.w |-> <<k - 1, IF x.signed /\ k = x.w THEN BitNot(SignOf(x)) ELSE Bit(x.val, k - 1)>>]
      offset == FoldLeft(LAMBDA n, x : n + (IF x.signed THEN 2^(x.w - 1) ELSE 0), 0, AllOperands(j))
  IN  FlattenSeq([k \in DOMAIN AllOperands(j) |-> bits(AllOperands(j)[k])])
      \o ConstantColumns((2^out * Len(AllOperands(j)) - offset) % 2^out, out)

(* fault: an unsigned subtrahend is extended with zeros *)
SubtractorZeroExtended(j, out) ==
  FlattenSeq([k \in 1..out |->
    (IF k <= j.xs[1].w \/ j.xs[1].signed THEN <<<<k - 1, ExtendedBit(j.xs[1], k - 1)>>>> ELSE <<>>)
    \o <<<<k - 1, IF k <= j.ys[1].w \/ j.ys[1].signed THEN BitNot(ExtendedBit(j.ys[1], k - 1)) ELSE 0>>>>])
(* StageBasedPrefixAdder and StageBasedSubtractor: two rows; a narrow      *)
(* signed operand repeats its sign, b is inverted for a subtraction.       *)
AdderColumns(j, out) ==
  FlattenSeq([k \in 1..out |->
    (IF k <= j.xs[1].w \/ j.xs[1].signed THEN <<<<k - 1, ExtendedBit(j.xs[1], k - 1)>>>> ELSE <<>>)
    \o (IF k <= j.ys[1].w \/ j.ys[1].signed THEN <<<<k - 1, ExtendedBit(j.ys[1], k - 1)>>>> ELSE <<>>)])
SubtractorColumns(j, out) ==
  FlattenSeq([k \in 1..out |->
    (IF k <= j.xs[1].w \/ j.xs[1].signed THEN <<<<k - 1, ExtendedBit(j.xs[1], k - 1)>>>> ELSE <<>>)
    \o <<<<k - 1, IF k <= j.ys[1].w \/ j.ys[1].signed THEN BitNot(ExtendedBit(j.ys[1], k - 1)) ELSE 1>>>>])

ColumnsOf(j) ==
  LET out == OutWidth(j.shape)
  IN  CASE j.shape.kind = "mul"    -> <<GenerateColumns(j.shape.ppg, j.xs[1], j.ys[1], out)>>
        [] j.shape.kind = "dot"    -> <<FusedColumns(j, out)>>
        [] j.shape.kind = "dot_b"  -> <<FusedPrecomputedBColumns(j, out)>>
        [] j.shape.kind = "dot_sm" -> <<SignedTree(j, out, 0), SignedTree(j, out, 1)>>
        [] j.shape.kind = "sum"    -> <<SignExtensionColumns(j, out)>>
        [] j.shape.kind = "add"    -> <<AdderColumns(j, out)>>
        [] j.shape.kind = "sub"    -> <<SubtractorColumns(j, out)>>

-----------------------------------------------------------------------------
StageInit ==
  /\ \E s \in Shapes : job \in JobsOf(s)
  /\ stage = "generate" /\ trees = <<>> /\ limits = <<>> /\ results = <<>>

(* generate_columns; the adders have their two rows at once. *)
Generate ==
  /\ stage = "generate"
  /\ trees' = [t \in DOMAIN ColumnsOf(job) |-> WrapColumns(ColumnsOf(job)[t])]
  /\ limits' = [t \in DOMAIN trees' |->
                  IF job.shape.ppa # "dadda" \/ Height(trees'[t].cols) <= 2 THEN <<>> ELSE StageLimits(trees'[t])]
  /\ stage' = IF job.shape.kind \in {"add", "sub"} THEN "resolve" ELSE "accumulate"
  /\ UNCHANGED <<job, results>>

(* accumulate(): passes while one makes progress. *)
NextTrees == [t \in DOMAIN trees |-> AccumulatorPass(trees[t], limits[t], job.shape)]
Accumulate ==
  /\ stage = "accumulate"
  /\ trees' = NextTrees
  /\ limits' = [t \in DOMAIN limits |-> IF limits[t] = <<>> THEN <<>> ELSE Tail(limits[t])]
  /\ stage' = IF trees' # trees \/ limits' # limits THEN "accumulate"
              ELSE IF job.shape.mode = "earliest" /\ job.shape.ppa \in {"carry_save", "balanced_wallace"}
              THEN "cleanup" ELSE "resolve"
  /\ UNCHANGED <<job, results>>
Cleanup ==
  /\ stage = "cleanup"
  /\ trees' = [t \in DOMAIN trees |-> CleanupPass(trees[t], job.shape)]
  /\ stage' = IF trees' = trees THEN "resolve" ELSE "cleanup"
  /\ UNCHANGED <<job, limits, results>>

(* The multiplier and the fused products drop the columns above the output.*)
Filtered(cols, s) ==
  IF s.kind \in {"mul", "dot", "dot_b", "dot_sm"} /\ Len(cols) > OutWidth(s)
  THEN SubSeq(cols, 1, OutWidth(s)) ELSE cols
FinalSum ==
  /\ stage = "resolve"
  /\ results' = [t \in DOMAIN trees |->
       Resolve(job.shape.fsa, Filtered(trees[t].cols, job.shape), OutWidth(job.shape),
               IF job.shape.kind = "sub" THEN <<1>> ELSE <<>>, job.shape.optim, job.shape.split)]
  /\ stage' = "done"
  /\ UNCHANGED <<job, trees, limits>>

StageNext == Generate \/ Accumulate \/ Cleanup \/ FinalSum
StageSpec == StageInit /\ [][StageNext]_stageVars

-----------------------------------------------------------------------------
(* What the job is to compute. *)
SignMagnitudeValue(x) == IF SignOf(x) = 1 THEN -Magnitude(x).val ELSE Magnitude(x).val
Total(j, value(_)) == FoldLeft(LAMBDA n, k : n + value(j.xs[k]) * value(j.ys[k]), value(j.c), [k \in DOMAIN j.xs |-> k])
Exact(j) ==
  CASE j.shape.kind = "mul" -> ValueOf(j.xs[1]) * ValueOf(j.ys[1])
    [] j.shape.kind \in {"dot", "dot_b"} -> Total(j, ValueOf)
    [] j.shape.kind = "dot_sm" -> Total(j, SignMagnitudeValue)
    [] j.shape.kind = "sum" -> FoldLeft(LAMBDA n, x : n + ValueOf(x), 0, AllOperands(j))
    [] j.shape.kind = "add" -> ValueOf(j.xs[1]) + ValueOf(j.ys[1])
    [] j.shape.kind = "sub" -> ValueOf(j.xs[1]) - ValueOf(j.ys[1])

BitNumber(bits) == FoldLeft(LAMBDA v, k : v + bits[k] * 2^(k - 1), 0, [k \in DOMAIN bits |-> k])
(* The trees of a sign-magnitude product are subtracted. *)
Combined(values) == IF Len(values) = 2 THEN values[1] - values[2] ELSE values[1]

(* The accumulators leave no column higher than the final adder takes,     *)
(* which would raise, and the bits that come out are the exact result.     *)
ResultExact ==
  stage = "done" =>
    /\ \A t \in DOMAIN results : results[t] # Unexpected
    /\ (Combined([t \in DOMAIN results |-> BitNumber(results[t])]) - Exact(job)) % 2^OutWidth(job.shape) = 0
=============================================================================
