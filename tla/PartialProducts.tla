--------------------------- MODULE PartialProducts ---------------------------
(***************************************************************************)
(* int_multipliers/stages/ppg_*.py: partial-product generators.  They turn *)
(* two operands into columns: for every weight the bits of that weight.    *)
(*                                                                         *)
(* An operand is [val, w, signed]: the w bits of a value, and their type.  *)
(* Columns are sequences of pairs <<weight, bit>> in the order in which    *)
(* the generator appends.                                                  *)
(***************************************************************************)
EXTENDS Integers, Sequences, SequencesExt, FiniteSetsExt, PrefixNetworks

(* The number that the bits of an operand stand for. *)
ValueOf(x) == IF x.signed /\ Bit(x.val, x.w - 1) = 1 THEN x.val - 2^x.w ELSE x.val

(* All pairs of two ranges, the first one outermost. *)
Product(m, n) == [k \in 1..(m * n) |-> <<(k - 1) \div n, (k - 1) % n>>]
Below(pairs, out) == SelectSeq(pairs, LAMBDA p : p[1] < out)
Mapped(s, f(_)) == [k \in DOMAIN s |-> f(s[k])]

-----------------------------------------------------------------------------
(* AndPartialProductGenerator: schoolbook, signed operands sign-extended   *)
(* to the width of the output.                                             *)
ExtendedWidth(x, out) == IF x.signed THEN x.w + Larger(x.w, out - x.w) ELSE x.w
ExtendedBit(x, k) == IF k < x.w THEN Bit(x.val, k) ELSE Bit(x.val, x.w - 1)
AndColumns(a, b, out) ==
  Below(Mapped(Product(ExtendedWidth(a, out), ExtendedWidth(b, out)),
               LAMBDA p : <<p[1] + p[2], BitAnd(ExtendedBit(a, p[1]), ExtendedBit(b, p[2]))>>),
        out)

(* BaughWooleyPartialProductGenerator: inverted sign row and column, and   *)
(* two constants that correct for them, which a fused product lifts out.   *)
BaughWooleyBody(a, b, out) ==
  LET m == a.w - 1
      n == b.w - 1
      and(i, j) == BitAnd(Bit(a.val, i), Bit(b.val, j))
  IN  Below(Mapped(Product(m, n), LAMBDA p : <<p[1] + p[2], and(p[1], p[2])>>), out)
      \o [k \in 1..n |-> <<m + k - 1, BitNot(and(m, k - 1))>>]
      \o [k \in 1..m |-> <<n + k - 1, BitNot(and(k - 1, n))>>]
      \o <<<<m + n, and(m, n)>>>>
BaughWooleyUpper(a, b, out) ==
  IF out = a.w + b.w THEN <<<<out - 1, 1>>>>
  ELSE [k \in 1..Larger(0, out - (a.w + b.w - 1)) |-> <<a.w + b.w + k - 2, 1>>]
BaughWooleyLower(a, b) ==
  IF a.w = b.w THEN <<<<a.w, 1>>>> ELSE <<<<a.w - 1, 1>>, <<b.w - 1, 1>>>>
BaughWooleyColumns(a, b, out) ==
  BaughWooleyBody(a, b, out) \o BaughWooleyUpper(a, b, out) \o BaughWooleyLower(a, b)

-----------------------------------------------------------------------------
(* Radix 4.  A digit selects |a|, |2a| or nothing, and a sign.             *)

(* bbit: bits of b beyond its ends. *)
BoothBit(b, k) ==
  IF k < 0 THEN 0
  ELSE IF k < b.w THEN Bit(b.val, k)
  ELSE IF b.signed THEN Bit(b.val, b.w - 1) ELSE 0

(* a_ext and a2_ext: one more bit, and shifted by one. *)
HeadBit(a, t) == IF t < a.w THEN Bit(a.val, t)
                 ELSE IF a.signed THEN Bit(a.val, a.w - 1) ELSE 0
DoubleBit(a, t) == IF t = 0 THEN 0 ELSE HeadBit(a, t - 1)

(* A magnitude bit of the term a digit selects, inverted for a negative.   *)
Selected(a, digit, t) ==
  BitXor(BitOr(BitAnd(HeadBit(a, t), digit.use1), BitAnd(DoubleBit(a, t), digit.use2)),
         digit.neg)

(* BoothUnoptimizedPartialProductGenerator: every term sign-extended over  *)
(* the whole output, and 1 added where it is negative.                     *)
BoothUnoptimizedColumns(a, b, out) ==
  LET digit(i) ==
        LET x == BoothBit(b, 2 * i - 1)
            y == BoothBit(b, 2 * i)
            z == BoothBit(b, 2 * i + 1)
            code == 4 * z + 2 * y + x
        IN  [use1 |-> IF code \in {1, 2, 5, 6} THEN 1 ELSE 0,
             use2 |-> IF code \in {3, 4} THEN 1 ELSE 0,
             neg  |-> IF code \in {4, 5, 6} THEN 1 ELSE 0]
      term(i) == [t \in 1..Larger(a.w + 2, out - 2 * i) |->
                    <<2 * i + t - 1, Selected(a, digit(i), t - 1)>>]
                 \o <<<<2 * i, digit(i).neg>>>>
  IN  Below(FlattenSeq([i \in 1..((b.w + 2) \div 2) |-> term(i - 1)]), out)

(* precompute_booth_b_decode: the digits, from b alone. *)
BoothDecode(b) ==
  [i \in 1..((b.w + 1 + (IF b.signed THEN 0 ELSE 1)) \div 2) |->
     LET x == BoothBit(b, 2 * i - 3)
         y == BoothBit(b, 2 * i - 2)
         z == BoothBit(b, 2 * i - 1)
     IN  [use1 |-> BitXor(x, y),
          use2 |-> IF <<z, y, x>> \in {<<0, 1, 1>>, <<1, 0, 0>>} THEN 1 ELSE 0,
          neg  |-> z]]

(* generate_columns_precomputed: sign extension folded into one inverted   *)
(* bit and one constant per digit, and a constant under the first.         *)
EmitDigits(a, digits, out) ==
  LET head == a.w + 1
      bits(i, d) == [t \in 1..head |-> <<2 * i + t - 1, Selected(a, d, t - 1)>>]
      ext(i, d) == <<2 * i + head, IF a.signed THEN BitNot(Selected(a, d, head - 1)) ELSE BitNot(d.neg)>>
  IN  Below(FlattenSeq([k \in DOMAIN digits |->
              bits(k - 1, digits[k]) \o <<ext(k - 1, digits[k]), <<2 * k + head - 1, 1>>>>
              \o <<<<2 * k - 2, digits[k].neg>>>>
              \o (IF k = 1 THEN <<<<head, 1>>>> ELSE <<>>)]), out)

(* BoothOptimizedPartialProductGenerator decodes and emits in one pass.    *)
BoothOptimizedColumns(a, b, out) == EmitDigits(a, BoothDecode(b), out)
BoothPrecomputedBColumns(a, b, out) == EmitDigits(a, BoothDecode(b), out)

(* NR4SD: b in digits -2..1, the highest digit up to 2, by a chain of      *)
(* carries: a ripple, or the same carries by a Kogge-Stone prefix.         *)
RECURSIVE RippleCarries(_, _)
RippleCarries(b, j) ==
  IF j = 0 THEN 0
  ELSE BitOr(Bit(b.val, 2 * j - 1), BitAnd(Bit(b.val, 2 * j - 2), RippleCarries(b, j - 1)))
RECURSIVE KoggeStoneSweep(_, _, _)
KoggeStoneSweep(gp, m, d) ==
  IF d >= m THEN gp
  ELSE KoggeStoneSweep(
         [j \in 1..m |-> IF j <= d THEN gp[j]
            ELSE <<BitOr(gp[j][1], BitAnd(gp[j][2], gp[j - d][1])),
                   BitAnd(gp[j][2], gp[j - d][2])>>], m, 2 * d)
NR4SDCarries(b, mode) ==
  LET n == b.w \div 2
      swept == KoggeStoneSweep([j \in 1..(n - 1) |-> <<Bit(b.val, 2 * j - 1), Bit(b.val, 2 * j - 2)>>],
                               n - 1, 1)
  IN  [j \in 1..n |-> IF j = 1 THEN 0
         ELSE IF mode = "ripple" THEN RippleCarries(b, j - 1) ELSE swept[j - 1][1]]
NR4SDDigits(b, mode) ==
  LET n == b.w \div 2
      carry == NR4SDCarries(b, mode)
  IN  [j \in 1..n |->
         LET b0 == Bit(b.val, 2 * j - 2)
             b1 == Bit(b.val, 2 * j - 1)
             c  == carry[j]
             zero == <<b1, b0, c>> \in {<<0, 0, 0>>, <<1, 1, 1>>}
             two  == <<b1, b0, c>> \in {<<0, 1, 1>>, <<1, 0, 0>>}
         IN  [use1 |-> IF ~zero /\ ~two THEN 1 ELSE 0,
              use2 |-> IF two THEN 1 ELSE 0,
              neg  |-> IF j = n THEN BitAnd(b1, BitNot(BitAnd(b0, c)))
                       ELSE BitXor(b1, BitAnd(b0, c))]]
NR4SDColumns(a, b, out, mode) == EmitDigits(a, NR4SDDigits(b, mode), out)

-----------------------------------------------------------------------------
(* supported_signatures, and the widths a generator takes.                 *)
Supports(ppg, a, b) ==
  CASE ppg = "and" -> TRUE
    [] ppg = "baugh_wooley" -> a.signed /\ b.signed
    [] ppg \in {"booth_unoptimized", "booth_optimized", "booth_precomputed_b"} -> a.signed = b.signed
    [] ppg \in {"nr4sd_ripple", "nr4sd_prefix"} -> b.signed /\ b.w % 2 = 0

GenerateColumns(ppg, a, b, out) ==
  CASE ppg = "and" -> AndColumns(a, b, out)
    [] ppg = "baugh_wooley" -> BaughWooleyColumns(a, b, out)
    [] ppg = "booth_unoptimized" -> BoothUnoptimizedColumns(a, b, out)
    [] ppg = "booth_optimized" -> BoothOptimizedColumns(a, b, out)
    [] ppg = "booth_precomputed_b" -> BoothPrecomputedBColumns(a, b, out)
    [] ppg = "nr4sd_ripple" -> NR4SDColumns(a, b, out, "ripple")
    [] ppg = "nr4sd_prefix" -> NR4SDColumns(a, b, out, "prefix")
=============================================================================
