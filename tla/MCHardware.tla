----------------------------- MODULE MCHardware -----------------------------
(***************************************************************************)
(* The hardware the library builds, one piece at a time:                   *)
(*   fifo    depth 4 with two data values, so that the pointers wrap and   *)
(*           every occupancy is met at every pointer position;             *)
(*   matmul  2 x 2 tiles of C with two products each, elements 0 and 1,    *)
(*           and a host that accesses the first tile of A and of B;        *)
(*   fsm     the machines of MCFsm, merged, re-encoded and run;            *)
(*   prefix  the topologies at widths up to 11 (the tabulated networks at  *)
(*           theirs), and every set of nodes of 4 bits;                    *)
(*   stage   every partial-product generator at small widths with all      *)
(*           operands, every accumulator schedule on 5 x 5 bits and every  *)
(*           final adder at the extremes of the operands;                  *)
(*   encoded the multipliers built around others;                          *)
(*   cores   small matrix products in every core;                          *)
(*   reduction  folds, scans and selections over a few items;              *)
(*   float   the floating-point circuits on all words of small formats.    *)
(***************************************************************************)
EXTENDS FifoPrimitive, TiledMatmul, PrefixLegalization, StageArithmetic, MatmulCores,
        Reductions, FloatingPoint, MCFsm

VARIABLE part     \* what runs in this behaviour

Named == {"ripple", "kogge_stone", "sklansky", "brent_kung", "han_carlson",
          "ladner_fischer", "sparse_2", "sparse_4"}
MCTopologies ==
  (Named \X {1, 2, 3, 5, 8, 11})
    \cup ({"multi_scan"} \X {8, 9, 16, 24, 25, 32}) \cup ({"zcg"} \X {24, 26, 32})

Base == [kind |-> "mul", ppg |-> "and", ppa |-> "wallace", mode |-> "earliest",
         optim |-> "area", fsa |-> "ripple_carry", split |-> "min_depth_splits",
         n |-> 1, wa |-> 3, wb |-> 3, sa |-> FALSE, sb |-> FALSE, wc |-> 1,
         full |-> TRUE, values |-> "corners"]
PPGs == {"and", "baugh_wooley", "booth_unoptimized", "booth_optimized",
         "booth_precomputed_b", "nr4sd_ripple", "nr4sd_prefix"}
PPAs == {"wallace", "eager_wallace", "balanced_wallace", "compressor_tree",
         "carry_save", "four_two", "four_two_parallel", "five_two",
         "five_two_parallel", "dadda"}
PrefixAdders == {"prefix_kogge_stone", "prefix_brent_kung", "prefix_sklansky",
  "prefix_ripple", "prefix_han_carlson", "prefix_ladner_fischer",
  "prefix_sparse_2", "prefix_sparse_4", "prefix_multi_scan"}
Supported(s) == Supports(s.ppg, [w |-> s.wa, signed |-> s.sa, val |-> 0],
                                [w |-> s.wb, signed |-> s.sb, val |-> 0])

Multipliers ==
  {s \in {[Base EXCEPT !.ppg = p, !.wa = w[1], !.wb = w[2], !.sa = sg[1],
                       !.sb = sg[2], !.values = "all"] :
            p \in PPGs, w \in {<<2, 3>>, <<3, 2>>}, sg \in BOOLEAN \X BOOLEAN} :
     Supported(s)}
Schedules ==
  {[Base EXCEPT !.ppa = p, !.mode = m, !.wa = 5, !.wb = 5,
                !.values = "extremes", !.optim = o] :
     p \in PPAs, m \in Modes, o \in {"area", "speed"}}
Sums ==
  {[Base EXCEPT !.kind = "sum", !.n = 2, !.ppa = p, !.mode = m, !.wa = 4,
                !.wb = 3, !.sa = TRUE, !.values = "extremes"] :
     p \in PPAs, m \in {"earliest"}}
Products ==
  {[Base EXCEPT !.kind = d, !.n = q, !.ppg = p, !.wb = w, !.sa = TRUE,
                !.sb = TRUE, !.values = "extremes", !.wc = c] :
     d \in {"dot", "dot_b"}, p \in {"and", "baugh_wooley"}, w \in {3, 2},
     q \in {1, 2, 3}, c \in {4, 8}}
  \cup {[Base EXCEPT !.kind = "dot_sm", !.n = q, !.wb = w, !.wc = 4,
                     !.values = "extremes"] : w \in {3, 2}, q \in {1, 2}}
Adders ==
  {[Base EXCEPT !.kind = q, !.fsa = f, !.wa = w[1], !.wb = w[2], !.sa = g,
                !.sb = g, !.full = fl] :
     q \in {"add", "sub"}, w \in {<<2, 4>>, <<4, 1>>}, g \in BOOLEAN,
     f \in {"ripple_carry", "naive_ripple_carry", "plus", "prefix_kogge_stone"},
     fl \in BOOLEAN}
  \cup {[Base EXCEPT !.kind = q, !.fsa = f, !.split = sp, !.wa = 5, !.wb = 5,
                     !.values = "extremes"] :
          q \in {"add", "sub"}, f \in PrefixAdders, sp \in SplitModes}
MCShapes == Multipliers \cup Schedules \cup Sums \cup Products \cup Adders

-----------------------------------------------------------------------------
(* Multipliers around multipliers: all operands at 3 and 4 bits, corners   *)
(* of wider ones, each way of putting them together.                       *)
Mode == [compressor |-> FALSE, powers |-> FALSE, blocks |-> FALSE, once |-> FALSE]
Circuit(q, w, m, x, y) == [kind |-> q, width |-> w, mode |-> m, a |-> x, b |-> y]
SignMagnitudeKinds == {"sign_magnitude", "ext", "ext_up", "to_twos", "ext_to_twos", "ext_to_upper"}
KaratsubaModes ==
  {[Mode EXCEPT !.compressor = c, !.powers = p, !.once = o] : c \in BOOLEAN, p \in BOOLEAN, o \in BOOLEAN}
Edges(w) == {0, 1, 2^(w - 1) - 1, 2^(w - 1), 2^w - 2, 2^w - 1}
MCCircuits ==
  UNION {{Circuit(q, w, Mode, x, y) : x \in ValueRange(CodesOf[q][1], w), y \in ValueRange(CodesOf[q][1], w)} :
           q \in SignMagnitudeKinds, w \in {3, 4}}
  \cup UNION {{Circuit("blocks", w, [Mode EXCEPT !.compressor = c], x, y) : x \in Edges(w), y \in Edges(w)} :
                w \in {4, 8}, c \in BOOLEAN}
  \cup UNION {{Circuit("karatsuba", w, m, x, y) : x \in Edges(w), y \in Edges(w)} :
                w \in {4, 5, 6, 7, 8, 9, 10}, m \in KaratsubaModes}
  \cup UNION {{Circuit("karatsuba", w, [Mode EXCEPT !.powers = TRUE, !.blocks = TRUE, !.once = o, !.compressor = o], x, y) :
                 x \in Edges(w), y \in Edges(w)} : w \in {4, 5, 8}, o \in {TRUE}}

(* Cores: inner dimensions of two and four with two-bit elements, and two  *)
(* by two elements of Y from a few numbers.                                *)
Unsigned2 == 0..3
Signed2   == -2..1
CoreOf(kind, s, o, mult, m, n, q, vs) ==
  [kind |-> kind, signed |-> s, operators |-> o, mult |-> mult, clip |-> mult # "ext",
   m |-> m, n |-> n, k |-> q, wa |-> 2, wb |-> 2, wc |-> 3, as |-> vs, bs |-> vs,
   cs |-> IF s THEN {-4, 3} ELSE {0, 7}]
MCCores ==
  {CoreOf(kd, s, o, "stage", 1, 1, 2, IF s THEN Signed2 ELSE Unsigned2) :
     kd \in {"plain", "winograd"}, s \in BOOLEAN, o \in BOOLEAN}
  \cup {CoreOf("plain", s, FALSE, "stage", 1, 1, 3, IF s THEN {-2, 1} ELSE {0, 3}) : s \in BOOLEAN}
  \cup {CoreOf("winograd", s, o, "stage", 1, 1, 4, IF s THEN {-2, 1} ELSE {1, 3}) : s \in BOOLEAN, o \in BOOLEAN}
  \cup {CoreOf("winograd", TRUE, FALSE, "stage", 2, 2, 2, {-2, 1})}
  \cup {CoreOf("sign_magnitude", TRUE, o, mult, 1, 1, 2, IF mult = "ext" THEN Signed2 ELSE -1..1) :
          o \in BOOLEAN, mult \in {"ext", "sign_magnitude"}}

(* Reductions of up to six items. *)
Named2(n) == [q \in 1..n |-> <<q>>]
Reduction(form, op, shape, compare, items) ==
  [form |-> form, op |-> op, topology |-> shape, compare |-> compare, items |-> items,
   depths |-> [q \in DOMAIN items |-> 0]]
Items(vs, w, s) == [q \in DOMAIN vs |-> [v |-> vs[q], w |-> w, s |-> s, i |-> q]]
MCReductions ==
  {Reduction("fold", "concat", t, "ripple", Named2(n)) : t \in {"tree", "chain"}, n \in 1..6}
  \cup {[Reduction("fold", "concat", "huffman", "ripple", Named2(n)) EXCEPT !.depths = d] :
          n \in {4}, d \in [1..4 -> 0..2]}
  \cup {Reduction("scan", "concat", t, "ripple", Named2(n)) : t \in {"sklansky", "brentkung", "koggestone"}, n \in 1..7}
  \cup {Reduction("fold", "sum", t, "ripple", Items(vs, 2, FALSE)) :
          t \in {"tree", "chain", "huffman"}, vs \in [1..3 -> 0..3]}
  \cup {Reduction("fold", o, t, c, Items(vs, 2, s)) :
          o \in {"max", "min"}, t \in {"tree", "chain", "huffman", "matrix"}, c \in {"ripple", "prefix"},
          s \in {FALSE}, vs \in [1..3 -> 0..3]}
  \cup {Reduction("fold", o, t, c, Items(vs, 2, s)) :
          o \in {"max", "min"}, t \in {"tree", "chain", "huffman", "matrix"}, c \in {"ripple", "prefix"},
          s \in {TRUE}, vs \in [1..3 -> Signed2]}
  \cup {Reduction("clamp", "clamp", "tree", "ripple", Items(<<v, b[1], b[2]>>, 3, TRUE)) :
          v \in -4..3, b \in {p \in (-4..3) \X (-4..3) : p[1] <= p[2]}}

(* Floating-point formats, each with every pair of its words. *)
Formats == {<<1, 2>>, <<2, 1>>, <<2, 3>>, <<3, 2>>, <<3, 3>>, <<4, 1>>}
MCFloatUnits == {[unit |-> u, ew |-> w[1], fw |-> w[2]] : u \in FloatNames, w \in Formats}

-----------------------------------------------------------------------------
(* The generator that does not run. *)
PrefixIdle ==
  /\ topology = "none" /\ width = 1
  /\ prefixNodes = {} /\ unvisited = {}
  /\ legalizing = "visit"
StageIdle ==
  /\ job = CHOOSE y \in JobsOf(Base) : TRUE
  /\ stage = "generate" /\ trees = <<>> /\ limits = <<>>
  /\ results = <<>>

EncodedIdle == circuit = Circuit("blocks", 4, Mode, 0, 0) /\ product = Unelaborated
CoresIdle ==
  /\ core = CoreOf("plain", FALSE, FALSE, "stage", 1, 1, 1, {0})
  /\ matrices = [A |-> <<>>, B |-> <<>>, C |-> <<>>] /\ elements = Unbuilt
ReductionIdle == reduction = Reduction("fold", "concat", "tree", "ripple", Named2(1)) /\ reduced = Unreduced

FloatIdle == float = [unit |-> "mul", ew |-> 1, fw |-> 1, a |-> 0] /\ rounded = Undefined

datapathVars == <<part, prefixVars, stageVars, encodedVars, coreVars, reductionVars, floatVars>>
DatapathIdle == PrefixIdle /\ StageIdle /\ EncodedIdle /\ CoresIdle /\ ReductionIdle /\ FloatIdle
DatapathInit ==
  \/ part = "prefix" /\ PrefixInit /\ StageIdle /\ EncodedIdle /\ CoresIdle /\ ReductionIdle /\ FloatIdle
  \/ part = "stage" /\ StageInit /\ PrefixIdle /\ EncodedIdle /\ CoresIdle /\ ReductionIdle /\ FloatIdle
  \/ part = "encoded" /\ EncodedInit /\ PrefixIdle /\ StageIdle /\ CoresIdle /\ ReductionIdle /\ FloatIdle
  \/ part = "cores" /\ CoresInit /\ PrefixIdle /\ StageIdle /\ EncodedIdle /\ ReductionIdle /\ FloatIdle
  \/ part = "reduction" /\ ReductionInit /\ PrefixIdle /\ StageIdle /\ EncodedIdle /\ CoresIdle /\ FloatIdle
  \/ part = "float" /\ FloatInit /\ PrefixIdle /\ StageIdle /\ EncodedIdle /\ CoresIdle /\ ReductionIdle

PrefixRuns ==
  part = "prefix" /\ PrefixNext
  /\ UNCHANGED <<part, stageVars, encodedVars, coreVars, reductionVars, floatVars>>
StageRuns ==
  part = "stage" /\ StageNext
  /\ UNCHANGED <<part, prefixVars, encodedVars, coreVars, reductionVars, floatVars>>
EncodedRuns ==
  part = "encoded" /\ EncodedNext
  /\ UNCHANGED <<part, prefixVars, stageVars, coreVars, reductionVars, floatVars>>
CoresRun ==
  part = "cores" /\ CoresNext
  /\ UNCHANGED <<part, prefixVars, stageVars, encodedVars, reductionVars, floatVars>>
ReductionRuns ==
  part = "reduction" /\ ReductionNext
  /\ UNCHANGED <<part, prefixVars, stageVars, encodedVars, coreVars, floatVars>>
FloatRuns ==
  part = "float" /\ FloatNext
  /\ UNCHANGED <<part, prefixVars, stageVars, encodedVars, coreVars, reductionVars>>
DatapathNext ==
  PrefixRuns \/ StageRuns \/ EncodedRuns \/ CoresRun \/ ReductionRuns \/ FloatRuns

-----------------------------------------------------------------------------
hardwareVars == <<datapathVars, fifoVars, matmulVars, fsmVars>>

MCItem == {0, 1}
MCTile == {0, 1}
MCHost == {0, MT * KT}

(* What does not run rests in one of its initial states. *)
FifoIdle ==
  /\ mem = [a \in 0 .. Depth - 1 |-> NoItem]
  /\ in = [push |-> FALSE, pop |-> FALSE, din |-> NoItem]
  /\ FifoInit
FsmIdle ==
  /\ machine = Sized(2, Ring(2), Ring(2), [s \in 0 .. 1 |-> [v \in InputBit |-> s]])
  /\ FsmStarts
MatmulIdle == in_ram = [a \in InAddr |-> 0] /\ Init

HardwareInit ==
  \/ part = "fifo" /\ FifoInit /\ MatmulIdle /\ DatapathIdle /\ FsmIdle
  \/ part = "matmul" /\ Init /\ FifoIdle /\ DatapathIdle /\ FsmIdle
  \/ part = "fsm" /\ FsmInit /\ FifoIdle /\ MatmulIdle /\ DatapathIdle
  \/ DatapathInit /\ FifoIdle /\ MatmulIdle /\ FsmIdle

FifoRuns ==
  part = "fifo" /\ FifoNext /\ UNCHANGED <<datapathVars, matmulVars, fsmVars>>
MatmulRuns ==
  part = "matmul" /\ Next /\ UNCHANGED <<datapathVars, fifoVars, fsmVars>>
(* The clock of the multiplier: an edge, as opposed to a reset. *)
MatmulClock ==
  part = "matmul" /\ Clock /\ UNCHANGED <<datapathVars, fifoVars, fsmVars>>
FsmRuns ==
  part = "fsm" /\ FsmNext /\ UNCHANGED <<datapathVars, fifoVars, matmulVars>>
DatapathRuns == DatapathNext /\ UNCHANGED <<fifoVars, matmulVars, fsmVars>>

HardwareSpec ==
  /\ HardwareInit
  /\ [][FifoRuns \/ MatmulRuns \/ FsmRuns \/ DatapathRuns]_hardwareVars
  /\ WF_hardwareVars(MatmulClock)
=============================================================================
