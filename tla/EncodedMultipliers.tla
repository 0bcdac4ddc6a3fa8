------------------------- MODULE EncodedMultipliers -------------------------
(***************************************************************************)
(* The multipliers built around others: sign-magnitude operands in four    *)
(* variants, products from four halves, and Karatsuba's with its block for *)
(* odd widths.  Inside is a multiplier of unsigned numbers, which          *)
(* StageArithmetic shows to be exact.                                      *)
(***************************************************************************)
EXTENDS Integers, Sequences

CONSTANTS Circuits    \* what to multiply: [kind, width, mode, a, b], a and b values

VARIABLES
  circuit,    \* the multiplier and its operands
  product     \* the word it delivers, or Unelaborated

encodedVars == <<circuit, product>>

-----------------------------------------------------------------------------
(* Words: a number and a width. *)
Word(v, w) == [v |-> v % 2^w, w |-> w]
Cut(x, from, to) == Word(x.v \div 2^from, to - from)
Glued(low, high) == [v |-> low.v + 2^low.w * high.v, w |-> low.w + high.w]
Zeros(n) == Word(0, n)
Broader(x, y) == IF x.w >= y.w THEN x.w ELSE y.w
Plus(x, y) == Word(x.v + y.v, Broader(x, y) + 1)
Minus(x, y) == Word(x.v - y.v, Broader(x, y) + 1)
Multiplied(x, y) == Word(x.v * y.v, x.w + y.w)

-----------------------------------------------------------------------------
(* EncodingModel: which values a code of w bits stands for, and their code.*)
Top(w) == 2^(w - 1)
ValueRange(enc, w) ==
  CASE enc \in {"twos_complement", "sign_magnitude_ext", "twos_complement_overflow"} -> (-Top(w))..(Top(w) - 1)
    [] enc \in {"twos_complement_symmetric", "sign_magnitude"} -> (1 - Top(w))..(Top(w) - 1)
    [] enc \in {"twos_complement_upper", "sign_magnitude_ext_up"} -> (1 - Top(w))..Top(w)
    [] enc = "onehot" -> 0..(w - 1)
    [] OTHER -> 0..(2^w - 1)

Clamped(v, range) ==
  IF v \in range THEN v
  ELSE IF \A x \in range : v < x THEN CHOOSE x \in range : \A y \in range : x <= y
  ELSE CHOOSE x \in range : \A y \in range : y <= x
MagnitudeOf(v, w) == (IF v < 0 THEN -v ELSE v) % Top(w)
SignOfCode(enc, v, w) ==
  IF v < 0 \/ (enc = "sign_magnitude_ext_up" /\ v = Top(w)) THEN 1 ELSE 0
RECURSIVE GrayCode(_)
GrayCode(v) == IF v = 0 THEN 0 ELSE 2 * GrayCode(v \div 2) + ((v + v \div 2) % 2)
EncodeValue(enc, value, w) ==
  LET v == Clamped(value, ValueRange(enc, w)) IN
  CASE enc = "onehot" -> 2^v
    [] enc = "gray" -> GrayCode(v)
    [] enc \in {"sign_magnitude", "sign_magnitude_ext", "sign_magnitude_ext_up"} ->
         SignOfCode(enc, v, w) * Top(w) + MagnitudeOf(v, w)
    [] enc \in {"unsigned_overflow", "twos_complement_overflow"} -> value % 2^w
    [] OTHER -> v % 2^w

(* The converters between two's complement and sign and magnitude, with    *)
(* and without clipping the most negative code.                            *)
SignBit(x) == x.v \div Top(x.w)
Mag(x) == Cut(x, 0, x.w - 1)
Negated(x) == Word(-x.v, x.w)
ToSignMagnitude(x, clip) ==
  IF clip /\ x.v = Top(x.w) THEN Word(2^x.w - 1, x.w)
  ELSE Glued(Mag(IF SignBit(x) = 1 THEN Negated(x) ELSE x), Word(SignBit(x), 1))
FromSignMagnitude(x, clip) ==
  LET mag == IF clip /\ x.v = Top(x.w) THEN Word(Top(x.w) - 1, x.w - 1) ELSE Mag(x)
  IN  IF SignBit(x) = 1 THEN Glued(Negated(mag), Word(1, 1)) ELSE Glued(mag, Word(0, 1))

-----------------------------------------------------------------------------
(* Sign and magnitude. *)
(* fault: a zero keeps the sign of its factors *)
SignAlways(mag, a, b) == Word((SignBit(a) + SignBit(b)) % 2, 1)
ProductSign(mag, a, b) == Word(IF mag.v = 0 THEN 0 ELSE (SignBit(a) + SignBit(b)) % 2, 1)
SignMagnitudeProduct(a, b) ==
  LET mag == Multiplied(Mag(a), Mag(b)) IN Glued(mag, ProductSign(mag, a, b))

(* In the extended encoding the code of -0 stands for -2^(W-1), whose      *)
(* magnitude has no room: half of it is multiplied, and the product        *)
(* doubled, or flagged if both factors are.                                *)
Special(x) == x.v = Top(x.w)
HalfMag(x) == IF Special(x) THEN Glued(Cut(x, 0, x.w - 2), Word(1, 1)) ELSE Mag(x)
ExtMag(a, b) ==
  LET mag == Multiplied(HalfMag(a), HalfMag(b)) IN
  IF Special(a) /\ Special(b) THEN Zeros(mag.w)
  ELSE IF Special(a) \/ Special(b) THEN Cut(Glued(Zeros(1), mag), 0, mag.w)
  ELSE mag
BothSpecial(a, b) == Word(IF Special(a) /\ Special(b) THEN 1 ELSE 0, 1)
ExtSign(a, b) == ProductSign(Multiplied(HalfMag(a), HalfMag(b)), a, b)
ExtProduct(a, b) == Glued(Glued(ExtMag(a, b), BothSpecial(a, b)), ExtSign(a, b))
ExtUpProduct(a, b) ==
  Glued(ExtMag(a, b), IF BothSpecial(a, b).v = 1 THEN Word(1, 1) ELSE ExtSign(a, b))

-----------------------------------------------------------------------------
(* Products of halves.  A block of four bits comes from a table of         *)
(* optimized circuits; larger ones are put together from four of half the  *)
(* width, by shifts that keep 2w bits or in the columns of a compressor    *)
(* tree.                                                                   *)
RECURSIVE FourBlocks(_, _, _)
FourBlocks(a, b, columns) ==
  LET w == a.w
      h == w \div 2
      part(x, y) == FourBlocks(x, y, TRUE)
      ll == part(Cut(a, 0, h), Cut(b, 0, h))
      lh == part(Cut(a, 0, h), Cut(b, h, w))
      hl == part(Cut(a, h, w), Cut(b, 0, h))
      hh == part(Cut(a, h, w), Cut(b, h, w))
      middle(p) == Glued(Zeros(h), Cut(Glued(p, Zeros(w)), 0, (w * 3) \div 2))
  IN  IF w = 4 THEN Multiplied(a, b)
      ELSE IF columns THEN Word(ll.v + 2^h * (lh.v + hl.v) + 2^w * hh.v, 2 * w)
      ELSE Cut(Plus(Plus(Plus(Glued(ll, Zeros(w)), middle(lh)), middle(hl)), Glued(Zeros(w), hh)), 0, 2 * w)

(* An odd width from a block one bit narrower. *)
Anded(bit, x) == IF bit = 1 THEN x ELSE Zeros(x.w)
Core(a, b, mode) == IF mode.blocks THEN FourBlocks(a, b, TRUE) ELSE Multiplied(a, b)
OddBlock(a, b, mode) ==
  LET w == a.w - 1
      low(x) == Cut(x, 0, w)
      high(x) == x.v \div 2^w
      cross(bit, x) == Glued(Glued(Zeros(w), Anded(bit, x)), Zeros(2))
      both == Glued(Glued(Zeros(2 * w), Word(high(a) * high(b), 1)), Zeros(1))
  IN  Cut(Plus(Plus(Plus(Glued(Core(low(a), low(b), mode), Zeros(2)), cross(high(a), low(b))),
                    cross(high(b), low(a))), both), 0, 2 * a.w)

(* mode.blocks: the leaves are blocks of four bits or twice that, so odd   *)
(* widths take the detour; mode.once: only the first level is split.       *)
Leaf(a, b, mode) == IF mode.powers /\ a.w % 2 = 1 THEN OddBlock(a, b, mode) ELSE Core(a, b, mode)

(* fault: the product of the sums is as narrow as its halves *)
NarrowSum(x, y) == Word(x.v + y.v, Broader(x, y))
WideSum(x, y) == Plus(x, y)
RECURSIVE Karatsuba(_, _, _, _)
Karatsuba(a, b, mode, level) ==
  LET n == a.w
      k == n \div 2
      lower(x) == Cut(x, 0, k)
      upper(x) == Cut(x, k, n)
      p0 == Karatsuba(lower(a), lower(b), mode, level + 1)
      p2 == Karatsuba(upper(a), upper(b), mode, level + 1)
      p1 == Karatsuba(WideSum(lower(a), upper(a)), WideSum(lower(b), upper(b)), mode, level + 1)
      middle == Glued(Zeros(k), Minus(p1, Plus(p0, p2)))
  IN  IF n <= 5 \/ (mode.once /\ level = 1) THEN Leaf(a, b, mode)
      ELSE IF mode.compressor THEN Word(p0.v + middle.v + 2^(2 * k) * p2.v, 2 * n)
      ELSE Cut(Plus(Glued(p0, p2), middle), 0, 2 * n)

-----------------------------------------------------------------------------
(* The classes, with their encodings (encoding_for_multiplier). *)
CodesOf ==
  [sign_magnitude |-> <<"sign_magnitude", "sign_magnitude">>,
   ext |-> <<"sign_magnitude_ext", "sign_magnitude_ext">>,
   ext_up |-> <<"sign_magnitude_ext", "sign_magnitude_ext_up">>,
   to_twos |-> <<"sign_magnitude", "twos_complement">>,
   ext_to_twos |-> <<"sign_magnitude_ext", "twos_complement">>,
   ext_to_upper |-> <<"sign_magnitude_ext", "twos_complement_upper">>,
   blocks |-> <<"unsigned", "unsigned">>,
   karatsuba |-> <<"unsigned", "unsigned">>]
OperandCode(c, v) == Word(EncodeValue(CodesOf[c.kind][1], v, c.width), c.width)
ProductOf(c, a, b) ==
  CASE c.kind = "sign_magnitude" -> SignMagnitudeProduct(a, b)
    [] c.kind = "ext" -> ExtProduct(a, b)
    [] c.kind = "ext_up" -> ExtUpProduct(a, b)
    [] c.kind = "to_twos" -> FromSignMagnitude(SignMagnitudeProduct(a, b), FALSE)
    [] c.kind = "ext_to_twos" -> FromSignMagnitude(ExtProduct(a, b), FALSE)
    [] c.kind = "ext_to_upper" -> FromSignMagnitude(ExtUpProduct(a, b), FALSE)
    [] c.kind = "blocks" -> FourBlocks(a, b, c.mode.compressor)
    [] OTHER -> Karatsuba(a, b, c.mode, 0)

Unelaborated == [v |-> 0, w |-> 0]
EncodedInit == circuit \in Circuits /\ product = Unelaborated
MultiplyEncoded ==
  /\ product = Unelaborated
  /\ product' = ProductOf(circuit, OperandCode(circuit, circuit.a), OperandCode(circuit, circuit.b))
  /\ UNCHANGED circuit
EncodedNext == MultiplyEncoded
EncodedSpec == EncodedInit /\ [][EncodedNext]_encodedVars

-----------------------------------------------------------------------------
(* Whatever the class, its width and how it is put together: the word      *)
(* delivered is the code of the operands' product in the encoding the      *)
(* class declares, the one code where zero has two, the extended lower and *)
(* upper ends included.                                                    *)
EncodedExact ==
  product # Unelaborated =>
    product.v = EncodeValue(CodesOf[circuit.kind][2], circuit.a * circuit.b, product.w)
=============================================================================
