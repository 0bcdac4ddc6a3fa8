---------------------------- MODULE MatmulCores -----------------------------
(***************************************************************************)
(* The matrix multiply-accumulate cores Y = C + A * B built from separate  *)
(* multipliers and adders: the plain one, Winograd's, which trades half of *)
(* the products for sums, and the one that multiplies in sign and          *)
(* magnitude.  The ports carry bit patterns; the encoding of the           *)
(* configuration says what they mean.                                      *)
(***************************************************************************)
EXTENDS EncodedMultipliers

CONSTANTS Cores    \* [kind, signed, operators, mult, clip, m, n, k, wa, wb, wc] and
                   \* the numbers as, bs, cs the matrices are made of

VARIABLES
  core,       \* the configuration
  matrices,   \* [A, B, C]: functions from index pairs to numbers
  elements    \* the elements of Y, or <<>> before the elaboration

coreVars == <<core, matrices, elements>>

-----------------------------------------------------------------------------
(* Typed words: a word and whether the operators take it as signed. *)
Typed(v, w, s) == [v |-> v % 2^w, w |-> w, s |-> s]
Meant(x, s) == IF s /\ x.v >= Top(x.w) THEN x.v - 2^x.w ELSE x.v
Meaning(x) == Meant(x, x.s)

(* build_multiplier: as many bits as both operands have, signed if the     *)
(* encodings are.                                                          *)
BuildMultiplier(a, b, c) ==
  Typed(Meant(a, c.signed) * Meant(b, c.signed), a.w + b.w, c.signed)

(* build_adder: the generated adder takes both operands as the encoding    *)
(* says; the operator takes a typed operand as it is typed, and of two     *)
(* types the wider result.  Both deliver a plain pattern.                  *)
BuildAdder(a, b, c) ==
  LET signed(x) == c.signed \/ (c.operators /\ x.s) IN
  Typed(Meant(a, signed(a)) + Meant(b, signed(b)), Broader(a, b) + 1, FALSE)
RECURSIVE AdderTree(_, _)
AdderTree(xs, c) ==
  LET mid == Len(xs) \div 2 IN
  IF Len(xs) = 1 THEN xs[1]
  ELSE BuildAdder(AdderTree(SubSeq(xs, 1, mid), c), AdderTree(SubSeq(xs, mid + 1, Len(xs)), c), c)

-----------------------------------------------------------------------------
(* inner_product of the plain core. *)
InnerProduct(as, bs, c) == AdderTree([k \in DOMAIN as |-> BuildMultiplier(as[k], bs[k], c)], c)

(* Winograd: for a pair of terms one product of sums, less the products    *)
(* within the row and within the column.                                   *)
PairProducts(xs, c) ==
  AdderTree([k \in 1..(Len(xs) \div 2) |-> BuildMultiplier(xs[2 * k - 1], xs[2 * k], c)], c)
(* fault: an unsigned sum is cast to signed at its own width *)
CastAtWidth(x, c) == Typed(-Meant(x, TRUE), x.w + 1, TRUE)
Neg(x, c) ==
  LET w == IF c.signed THEN x.w ELSE x.w + 1
  IN  Typed(-Meant(Typed(x.v, w, TRUE), TRUE), w + 1, TRUE)
SignedSum(x, y) == Typed(Meaning(x) + Meaning(y), Broader(x, y) + 1, TRUE)
RECURSIVE SignedChain(_, _)
SignedChain(acc, xs) == IF xs = <<>> THEN acc ELSE SignedChain(SignedSum(acc, Head(xs)), Tail(xs))
WinogradProduct(as, bs, c) ==
  LET products == [k \in 1..(Len(as) \div 2) |->
        BuildMultiplier(BuildAdder(as[2 * k - 1], bs[2 * k], c), BuildAdder(as[2 * k], bs[2 * k - 1], c), c)]
      less == <<Neg(PairProducts(as, c), c), Neg(PairProducts(bs, c), c)>>
      widened == [k \in DOMAIN products |-> Typed(products[k].v, products[k].w + 1, TRUE)]
  IN  IF c.signed THEN AdderTree(products \o less, c)
      ELSE SignedChain(widened[1], Tail(widened) \o less)

(* Sign and magnitude: the operands are encoded, the products decoded.     *)
EncodedProduct(a, b, c) ==
  LET word(x) == ToSignMagnitude([v |-> x.v, w |-> x.w], c.clip)
      p == IF c.mult = "ext" THEN ExtProduct(word(a), word(b)) ELSE SignMagnitudeProduct(word(a), word(b))
      y == FromSignMagnitude(p, FALSE)
  IN  Typed(y.v, y.w, FALSE)
SignMagnitudeInner(as, bs, c) == AdderTree([k \in DOMAIN as |-> EncodedProduct(as[k], bs[k], c)], c)

DotProduct(as, bs, c) ==
  CASE c.kind = "plain" -> InnerProduct(as, bs, c)
    [] c.kind = "winograd" -> WinogradProduct(as, bs, c)
    [] OTHER -> SignMagnitudeInner(as, bs, c)

-----------------------------------------------------------------------------
Rows(c) == 1..c.m
Columns(c) == 1..c.n
Inner(c) == 1..c.k
Unbuilt == <<>>

CoresInit ==
  /\ core \in Cores
  /\ matrices \in [A : [Rows(core) \X Inner(core) -> core.as], B : [Inner(core) \X Columns(core) -> core.bs],
                   C : [Rows(core) \X Columns(core) -> core.cs]]
  /\ elements = Unbuilt

(* Every element is the dot product of its row and column, added to C's.   *)
ElaborateCore ==
  /\ elements = Unbuilt
  /\ elements' = [ij \in Rows(core) \X Columns(core) |->
       BuildAdder(Typed(matrices.C[ij], core.wc, FALSE),
                  DotProduct([k \in Inner(core) |-> Typed(matrices.A[<<ij[1], k>>], core.wa, FALSE)],
                      [k \in Inner(core) |-> Typed(matrices.B[<<k, ij[2]>>], core.wb, FALSE)], core), core)]
  /\ UNCHANGED <<core, matrices>>
CoresNext == ElaborateCore
CoresSpec == CoresInit /\ [][CoresNext]_coreVars

-----------------------------------------------------------------------------
(* Every core multiplies matrices: the pattern of an element, taken as the *)
(* encoding says, is the exact sum, whatever the tree, the trade of        *)
(* products for sums or the encoding inside.                               *)
RECURSIVE SumOver(_, _)
SumOver(f, k) == IF k = 0 THEN 0 ELSE f[k] + SumOver(f, k - 1)
CoreExact ==
  \A ij \in DOMAIN elements :
    Meant(elements[ij], core.signed) =
      matrices.C[ij] + SumOver([k \in Inner(core) |-> matrices.A[<<ij[1], k>>] * matrices.B[<<k, ij[2]>>]], core.k)
=============================================================================
