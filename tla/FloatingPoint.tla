--------------------------- MODULE FloatingPoint ---------------------------
(***************************************************************************)
(* The floating-point generators for any exponent and fraction width: the  *)
(* multiplier that flushes to zero, the one with subnormals, and the       *)
(* adder, against the exact result encoded by the library's encoder.       *)
(***************************************************************************)
EXTENDS Integers

CONSTANTS FloatUnits    \* [unit, ew, fw]: which circuit, and the format

VARIABLES
  float,       \* [unit, ew, fw, a]: a circuit and its first operand
  rounded      \* its result for every second operand, or Undefined before

floatVars == <<float, rounded>>

FloatNames == {"mul", "mul_sn", "mul_sn_ftz", "mul_sn_ftz_sub", "add", "add_ftz"}
ASSUME FloatUnitsAssumption ==
  \A u \in FloatUnits : u.unit \in FloatNames /\ u.ew \in Nat \ {0} /\ u.fw \in Nat \ {0}

-----------------------------------------------------------------------------
(* Words of a format. *)
Bias(f) == 2^(f.ew - 1) - 1
MaxE(f) == 2^f.ew - 1
Words(f) == 0 .. 2^(1 + f.ew + f.fw) - 1
WordSign(x, f) == x \div 2^(f.ew + f.fw)
ExpOf(x, f)  == (x \div 2^f.fw) % 2^f.ew
FracOf(x, f) == x % 2^f.fw
Pack(s, e, r, f) == s * 2^(f.ew + f.fw) + (e % 2^f.ew) * 2^f.fw + (r % 2^f.fw)
QuietNaN(f) == Pack(0, MaxE(f), 2^(f.fw - 1), f)
Infinite(s, f) == Pack(s, MaxE(f), 0, f)

IsNaN(x, f) == ExpOf(x, f) = MaxE(f) /\ FracOf(x, f) # 0
IsInf(x, f) == ExpOf(x, f) = MaxE(f) /\ FracOf(x, f) = 0
One(p) == IF p THEN 1 ELSE 0

(* The bits of v from the cut on, and whether those below it round up: the *)
(* bit below the cut, and any bit further down or an odd number kept.      *)
Kept(v, cut) == IF cut >= 0 THEN v \div 2^cut ELSE v * 2^(-cut)
RoundUp(v, cut) ==
  One(/\ cut > 0
      /\ (v \div 2^(cut - 1)) % 2 = 1
      /\ v % 2^(cut - 1) # 0 \/ Kept(v, cut) % 2 = 1)
Floor2(v) == CHOOSE i \in 0 .. 29 : v \div 2^i = 1

-----------------------------------------------------------------------------
(* Multiplication.  A product is NaN, infinite, zero or rounded; a result  *)
(* that is none of the first three has exponent e and fraction r.          *)
NaNProduct(a, b, zero, f) ==
  \/ IsNaN(a, f) \/ IsNaN(b, f)
  \/ IsInf(a, f) /\ zero[2]
  \/ zero[1] /\ IsInf(b, f)
PackProduct(a, b, zero, inf, none, e, r, f) ==
  LET s == (WordSign(a, f) + WordSign(b, f)) % 2 IN
  IF NaNProduct(a, b, zero, f) THEN QuietNaN(f)
  ELSE IF IsInf(a, f) \/ IsInf(b, f) \/ inf THEN Infinite(s, f)
  ELSE IF zero[1] \/ zero[2] \/ none THEN Pack(s, 0, 0, f)
  ELSE Pack(s, e, r, f)

(* A mantissa whose exponent field is 0 counts as 0 when flushed. *)
Flushed(x, f) == IF ExpOf(x, f) = 0 THEN 0 ELSE 2^f.fw + FracOf(x, f)

(* FpMul: the top bit of the product tells where to cut. *)
FpMul(a, b, f) ==
  LET prod == Flushed(a, f) * Flushed(b, f)
      msb_high == One(prod >= 2^(2 * f.fw + 1))
      cut == f.fw + msb_high
      mant_round == Kept(prod, cut) + RoundUp(prod, cut)
      carry == mant_round \div 2^(f.fw + 1)
      mant_post == IF carry = 1 THEN mant_round \div 2 ELSE mant_round
      exp_sum_inc == ExpOf(a, f) + ExpOf(b, f) + msb_high + carry
  IN  PackProduct(a, b, <<ExpOf(a, f) = 0, ExpOf(b, f) = 0>>,
        exp_sum_inc > Bias(f) + MaxE(f) - 1, exp_sum_inc <= Bias(f),
        exp_sum_inc - Bias(f), mant_post, f)

(* FpMulSN: leading zeros tell where to cut; a subnormal result is rounded *)
(* once, from the product itself.                                          *)
EffectiveMant(x, f) == One(ExpOf(x, f) # 0) * 2^f.fw + FracOf(x, f)
EffectiveExp(x, f) == IF ExpOf(x, f) = 0 THEN 1 ELSE ExpOf(x, f)
SubnormalRounded(prod, total_shift, f) ==
  (Kept(prod, total_shift) % 2^f.fw) + RoundUp(prod, total_shift)
FpMulSN(a, b, f) ==
  LET subnormals == f.unit = "mul_sn"
      mant(x) == IF subnormals THEN EffectiveMant(x, f) ELSE Flushed(x, f)
      exp(x)  == IF subnormals THEN EffectiveExp(x, f) ELSE ExpOf(x, f)
      zero(x) == ExpOf(x, f) = 0 /\ (subnormals => FracOf(x, f) = 0)
      prod == mant(a) * mant(b)
      lz == IF prod = 0 THEN 0 ELSE 2 * f.fw + 1 - Floor2(prod)
      sr == f.fw + 1 - lz
      mant_round == (Kept(prod, sr) % 2^(f.fw + 1)) + RoundUp(prod, sr)
      carry == mant_round \div 2^(f.fw + 1)
      mant_post == IF carry = 1 THEN mant_round \div 2 ELSE mant_round
      exp_sum == exp(a) + exp(b)
      lhs == exp_sum + 1 + carry
      limit_under == Bias(f) + lz
      underflow == lhs <= limit_under
      below == SubnormalRounded(prod, Bias(f) + f.fw + 1 - exp_sum, f)
      exp_field_sub == below \div 2^f.fw
      none == CASE f.unit = "mul_sn" -> FALSE
                [] f.unit = "mul_sn_ftz" -> underflow
                [] f.unit = "mul_sn_ftz_sub" -> underflow /\ exp_field_sub = 0
  IN  PackProduct(a, b, <<zero(a), zero(b)>>,
        lhs > limit_under + MaxE(f) - 1 /\ ~zero(a) /\ ~zero(b), none,
        IF underflow THEN exp_field_sub ELSE lhs - limit_under,
        IF underflow THEN below ELSE mant_post, f)

-----------------------------------------------------------------------------
(* Addition: the smaller operand is shifted to the larger one's exponent,  *)
(* two more bits are kept, and what falls below them is one sticky bit.    *)
AIsBigger(a, b, f) ==
  \/ EffectiveExp(a, f) > EffectiveExp(b, f)
  \/ EffectiveExp(a, f) = EffectiveExp(b, f) /\ EffectiveMant(a, f) >= EffectiveMant(b, f)
(* fault: a difference is rounded as a sum is *)
RoundsAsSum(G, R, S, lsb, same_sign) == G = 1 /\ (R = 1 \/ S \/ lsb = 1)
(* A difference with something below the kept bits is less than they show: *)
(* a tie is none there, and stays down.                                    *)
DoRound(G, R, S, lsb, same_sign) ==
  IF same_sign THEN G = 1 /\ (R = 1 \/ S \/ lsb = 1)
  ELSE G = 1 /\ (R = 1 \/ (~S /\ lsb = 1))

SumNaN(a, b, f) ==
  \/ IsNaN(a, f) \/ IsNaN(b, f)
  \/ IsInf(a, f) /\ IsInf(b, f) /\ WordSign(a, f) # WordSign(b, f)
(* The sum or difference of the mantissas: its magnitude mag, at the       *)
(* exponent e and with the sign of the bigger operand.                     *)
AlignedSum(a, b, f) ==
  LET big   == IF AIsBigger(a, b, f) THEN a ELSE b
      small == IF AIsBigger(a, b, f) THEN b ELSE a
      exp_delta == EffectiveExp(big, f) - EffectiveExp(small, f)
      m_big   == EffectiveMant(big, f) * 4
      m_small == EffectiveMant(small, f) * 4
      same_sign == WordSign(big, f) = WordSign(small, f)
      mag == IF same_sign THEN m_big + m_small \div 2^exp_delta
             ELSE m_big - m_small \div 2^exp_delta
  IN  [mag |-> mag, e |-> EffectiveExp(big, f), same |-> same_sign,
       sticky |-> m_small % 2^exp_delta # 0,
       sign |-> IF mag = 0 THEN WordSign(big, f) * WordSign(small, f) ELSE WordSign(big, f)]
(* A subnormal sum is exact: its fraction is the magnitude, shifted.       *)
SubnormalFrac(mag, e, f) ==
  (IF e <= 3 THEN mag \div 2^(3 - e) ELSE mag * 2^(e - 3)) % 2^f.fw
FpAdd(a, b, f) ==
  LET sum == AlignedSum(a, b, f)
      overflow == sum.mag >= 2^(f.fw + 3)
      shift_norm == IF sum.mag = 0 THEN f.fw + 2 ELSE f.fw + 2 - Floor2(sum.mag)
      mant_norm == IF overflow THEN sum.mag \div 2 ELSE Kept(sum.mag, -shift_norm)
      exp_pre == IF overflow THEN sum.e + 1 ELSE sum.e - shift_norm
      do_round == DoRound((mant_norm \div 2) % 2, mant_norm % 2,
                    sum.sticky \/ (overflow /\ sum.mag % 2 = 1),
                    (mant_norm \div 4) % 2, sum.same)
      frac_raw == (mant_norm \div 4) % 2^f.fw
      exp_final == exp_pre + One(do_round /\ frac_raw = 2^f.fw - 1)
  IN  IF SumNaN(a, b, f) THEN QuietNaN(f)
      ELSE IF IsInf(a, f) THEN Infinite(WordSign(a, f), f)
      ELSE IF IsInf(b, f) THEN Infinite(WordSign(b, f), f)
      ELSE IF sum.mag = 0 THEN Pack(sum.sign, 0, 0, f)
      ELSE IF ~overflow /\ sum.e <= shift_norm
        THEN Pack(sum.sign, 0, IF f.unit = "add" THEN SubnormalFrac(sum.mag, sum.e, f) ELSE 0, f)
      ELSE IF exp_final >= MaxE(f) THEN Infinite(sum.sign, f)
      ELSE Pack(sum.sign, exp_final, frac_raw + One(do_round), f)

-----------------------------------------------------------------------------
(* The encoder: the magnitude n / 2^k to the nearest word, ties to even.   *)
(* flush: subnormal results become zero; early: as soon as the value, at   *)
(* full precision, rounds below the least normal number.                   *)
RoundToEven(n, cut) ==
  LET kept == Kept(n, cut)
      rest == IF cut > 0 THEN 2 * (n % 2^cut) - 2^cut ELSE -1
  IN  IF rest > 0 \/ (rest = 0 /\ kept % 2 = 1) THEN kept + 1 ELSE kept
Encoded(n, k, flush, early, f) ==
  LET top == Floor2(n)
      E == top - k + Bias(f)
      normal == (E - 1) * 2^f.fw + RoundToEven(n, top - f.fw)
      below  == IF early THEN normal ELSE RoundToEven(n, k - f.fw - Bias(f) + 1)
      code == IF E <= 0 THEN below ELSE normal
  IN  IF n = 0 \/ (flush /\ code < 2^f.fw) THEN 0
      ELSE IF code > MaxE(f) * 2^f.fw THEN MaxE(f) * 2^f.fw ELSE code

(* The magnitude of a finite word, in units of the least subnormal. *)
Scaled(x, f) == EffectiveMant(x, f) * 2^(EffectiveExp(x, f) - 1)
Scale(f) == f.fw + Bias(f) - 1
Flushes == {"mul", "mul_sn_ftz", "mul_sn_ftz_sub", "add_ftz"}
Early   == {"mul", "mul_sn_ftz"}
DazZero(x, f) == ExpOf(x, f) = 0 /\ (f.unit = "mul_sn" => FracOf(x, f) = 0)
ProductWord(a, b, f) ==
  LET zero == DazZero(a, f) \/ DazZero(b, f)
      s == (WordSign(a, f) + WordSign(b, f)) % 2
      inf == IsInf(a, f) \/ IsInf(b, f)
  IN  IF IsNaN(a, f) \/ IsNaN(b, f) \/ (inf /\ zero) THEN QuietNaN(f)
      ELSE IF inf THEN Infinite(s, f)
      ELSE Pack(s, 0, 0, f) + (IF zero THEN 0 ELSE
             Encoded(Scaled(a, f) * Scaled(b, f), 2 * Scale(f),
                     f.unit \in Flushes, f.unit \in Early, f))
SumWord(a, b, f) ==
  LET signed(x) == IF WordSign(x, f) = 1 THEN -Scaled(x, f) ELSE Scaled(x, f)
      sum == signed(a) + signed(b)
      s == IF sum = 0 THEN WordSign(a, f) * WordSign(b, f) ELSE One(sum < 0)
  IN  IF SumNaN(a, b, f) THEN QuietNaN(f)
      ELSE IF IsInf(a, f) THEN a
      ELSE IF IsInf(b, f) THEN b
      ELSE Pack(s, 0, 0, f)
           + Encoded(IF sum < 0 THEN -sum ELSE sum, Scale(f), f.unit \in Flushes, FALSE, f)

-----------------------------------------------------------------------------
Undefined == <<>>
IsSum(f) == f.unit \in {"add", "add_ftz"}
Computed(a, b, f) ==
  CASE f.unit = "mul" -> FpMul(a, b, f)
    [] IsSum(f) -> FpAdd(a, b, f)
    [] OTHER -> FpMulSN(a, b, f)

FloatInit ==
  /\ float \in UNION {{[unit |-> u.unit, ew |-> u.ew, fw |-> u.fw, a |-> a] : a \in Words(u)} :
                        u \in FloatUnits}
  /\ rounded = Undefined
FloatNext ==
  /\ rounded = Undefined
  /\ rounded' = [b \in Words(float) |-> Computed(float.a, b, float)]
  /\ UNCHANGED float

(* Every circuit delivers the word the exact sum or product is encoded to: *)
(* ties, carries out of the fraction, results on either side of the least  *)
(* normal and the greatest finite number, subnormal operands, zeros with   *)
(* their signs, infinities and NaN.  Where flushing circuits decide early, *)
(* the result is the encoder's with that decision.                         *)
FloatExact ==
  rounded # Undefined =>
    \A b \in Words(float) :
      rounded[b] = IF IsSum(float) THEN SumWord(float.a, b, float)
                   ELSE ProductWord(float.a, b, float)
=============================================================================
