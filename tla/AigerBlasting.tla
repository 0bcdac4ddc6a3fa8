--------------------------- MODULE AigerBlasting ---------------------------
(***************************************************************************)
(* The AIGER export of an expression: every node becomes a list of         *)
(* literals, low bit first, built from two-input ANDs and inverters.       *)
(* A literal is represented by the set of the valuations of the inputs,   *)
(* by their positions, at which it is true: the exporter's hash table, and *)
(* its shortcuts for constants, repeats and complements, change the number *)
(* of gates and no literal's set.                                          *)
(***************************************************************************)
EXTENDS Expressions

CONSTANT Valuations     \* a sequence of [input -> number]
All == DOMAIN Valuations

LitAnd(a, b) == a \cap b
LitNot(a) == All \ a
LitOr(a, b) == LitNot(LitAnd(LitNot(a), LitNot(b)))
LitXor(a, b) == LitOr(LitAnd(a, LitNot(b)), LitAnd(LitNot(a), b))
LitIte(s, t, e) == LitOr(LitAnd(s, t), LitAnd(LitNot(s), e))

(* Bit vectors: a list of bits is evaluated once, where it is made. *)
Listed(f) == f \o <<>>
ZeroBits(w) == [i \in 1..w |-> {}]
ConstBits(n, w) == [i \in 1..w |-> IF Bit(Pattern(n, w), i - 1) = 1 THEN All ELSE {}]
FitBits(a, w, s) ==
  Listed([i \in 1..w |-> IF i <= Len(a) THEN a[i] ELSE IF s /\ Len(a) > 0 THEN a[Len(a)] ELSE {}])
Low(bits, w) == IF Len(bits) > w THEN SubSeq(bits, 1, w) ELSE bits
NotBits(a) == Listed([i \in DOMAIN a |-> LitNot(a[i])])
MuxBits(s, a, b) == Listed([i \in DOMAIN a |-> LitIte(s, a[i], b[i])])

(* Ripple: <<sum bits, carry>>. *)
RECURSIVE Rippled(_, _, _, _)
Rippled(x, y, c, sums) ==
  LET i == Len(sums) + 1 IN
  IF i > Len(x) THEN <<sums, c>>
  ELSE LET p == LitXor(x[i], y[i])
       IN Rippled(x, y, LitOr(LitAnd(x[i], y[i]), LitAnd(c, p)), Append(sums, LitXor(p, c)))
AddBits(a, b, cin, w) == Rippled(FitBits(a, w, FALSE), FitBits(b, w, FALSE), cin, <<>>)
SubBits(a, b, w) ==
  AddBits(FitBits(a, w, FALSE), NotBits(FitBits(b, w, FALSE)), All, w)
LessUnsigned(a, b) ==
  LET w == IF Len(a) >= Len(b) THEN Len(a) ELSE Len(b)
  IN LitNot(SubBits(a, b, w)[2])
(* fault: compares the patterns *)
LessAsUnsigned(a, b) == LessUnsigned(a, b)
LessSigned(a, b) ==
  LET w == Len(a) IN
  LitIte(LitXor(a[w], b[w]), a[w], LessUnsigned(a, b))
EqualBits(a, b) == {n \in All : \A i \in DOMAIN a : n \in LitNot(LitXor(a[i], b[i]))}

(* The barrel shifter: the amount's bits of weight below the width select  *)
(* stages, any other bit that is set clears the result.                    *)
RECURSIVE Staged(_, _, _, _)
Staged(r, sh, i, left) ==
  IF i > Len(sh) THEN r
  ELSE LET Moved(j) == IF left THEN j - 2^(i - 1) ELSE j + 2^(i - 1)
       IN Staged(MuxBits(sh[i], [j \in DOMAIN r |-> IF Moved(j) \in DOMAIN r THEN r[Moved(j)]
                                                    ELSE {}], r), sh, i + 1, left)
ShiftBits(a, sh, w, left) ==
  LET stages == CHOOSE n \in 0..w : 2^n >= w /\ \A m \in 0..(n - 1) : 2^m < w
      staged == Staged(FitBits(a, w, FALSE), Low(sh, stages), 1, left)
      over == UNION {sh[i] : i \in {i \in DOMAIN sh : i > stages}}
  IN IF Len(sh) > stages THEN MuxBits(over, ZeroBits(w), staged) ELSE staged

(* Multipliers: one bit added into the accumulator at a time. *)
RECURSIVE AddedAt(_, _)
AddedAt(acc, bits) ==
  IF bits = <<>> THEN acc
  ELSE LET p == Head(bits)
           row == [i \in 1..Len(acc) |-> IF i = p[2] + 1 THEN p[1] ELSE {}]
       IN AddedAt(IF p[2] < Len(acc) THEN AddBits(acc, row, {}, Len(acc))[1] ELSE acc,
                  Tail(bits))
Matrix(m, n) == [x \in 1..(m * n) |-> <<((x - 1) \div n) + 1, ((x - 1) % n) + 1>>]
MulUnsigned(a, b, w) ==
  LET P == Matrix(Len(a), Len(b)) IN
  Low(AddedAt(ZeroBits(Len(a) + Len(b)),
    [x \in DOMAIN P |-> <<LitAnd(a[P[x][1]], b[P[x][2]]), P[x][1] + P[x][2] - 2>>]), w)
MulBaughWooley(a, b, w) ==
  LET m == Len(a)   n == Len(b)
      P == Matrix(m, n)
      Term(i, j) == LET p == LitAnd(a[i], b[j])
                    IN IF (i = m) # (j = n) THEN LitNot(p) ELSE p
      pp == [x \in DOMAIN P |-> <<Term(P[x][1], P[x][2]), P[x][1] + P[x][2] - 2>>]
  IN Low(AddedAt(ZeroBits(m + n),
       pp \o <<<<All, m - 1>>, <<All, n - 1>>, <<All, m + n - 1>>>>), w)

-----------------------------------------------------------------------------
RECURSIVE BitsOf(_)
BlastedOp2(e) ==
  LET a == e.kids[1]   b == e.kids[2]
      x == BitsOf(a)   y == BitsOf(b)
      xf == FitBits(x, e.w, a.s)   yf == FitBits(y, e.w, b.s)
      cw == (IF Len(x) >= Len(y) THEN Len(x) ELSE Len(y)) + 1
      xc == FitBits(x, cw, a.s)   yc == FitBits(y, cw, b.s)
      Each(G(_, _)) == Listed([i \in 1..e.w |-> G(xf[i], yf[i])])
  IN CASE e.op = "&" -> Each(LAMBDA p, q : LitAnd(p, q))
       [] e.op = "|" -> Each(LAMBDA p, q : LitOr(p, q))
       [] e.op = "^" -> Each(LAMBDA p, q : LitXor(p, q))
       [] e.op = "nand" -> Each(LAMBDA p, q : LitNot(LitAnd(p, q)))
       [] e.op = "+" -> AddBits(xf, yf, {}, e.w)[1]
       [] e.op = "-" -> SubBits(xf, yf, e.w)[1]
       [] e.op = "*" ->
            FitBits(IF a.s /\ b.s THEN MulBaughWooley(x, y, e.w)
                    ELSE IF ~a.s /\ ~b.s THEN MulUnsigned(x, y, e.w)
                    ELSE MulUnsigned(xf, yf, e.w), e.w, e.s)
       [] e.op = "<<" -> ShiftBits(x, y, e.w, TRUE)
       [] e.op = ">>" -> ShiftBits(x, y, e.w, FALSE)
       [] e.op = "==" -> <<EqualBits(xc, yc)>>
       [] e.op = "!=" -> <<LitNot(EqualBits(xc, yc))>>
       [] e.op = "<"  -> <<LessSigned(xc, yc)>>
       [] e.op = "<=" -> <<LitNot(LessSigned(yc, xc))>>
       [] e.op = ">"  -> <<LessSigned(yc, xc)>>
       [] e.op = ">=" -> <<LitNot(LessSigned(xc, yc))>>
BitsOf(e) ==
  CASE e.op = "const" -> ConstBits(e.k, e.w)
    [] e.op = "input" ->
         Listed([i \in 1..e.w |->
                   {n \in All : Bit(Pattern(Valuations[n][e.id], e.w), i - 1) = 1}])
    [] e.op = "auto" -> FitBits(BitsOf(e.kids[1]), e.w, e.s)
    [] e.op = "~" -> NotBits(BitsOf(e.kids[1]))
    [] e.op = "mux" ->
         LET c == BitsOf(e.kids[1])
             sel == UNION {c[i] : i \in DOMAIN c}
             Arm(j) == FitBits(BitsOf(e.kids[j]), e.w, e.kids[j].s)
         IN MuxBits(sel, Arm(2), Arm(3))
    [] e.op = "cat" -> FoldLeft(LAMBDA r, p : r \o BitsOf(p), <<>>, e.kids)
    [] e.op = "slice" -> SubSeq(BitsOf(e.kids[1]), e.k + 1, e.k + e.w)
    [] e.op = "resize" -> FitBits(BitsOf(e.kids[1]), e.w, e.kids[1].s)
    [] OTHER -> BlastedOp2(e)

(* The bits of an output port, and the number they stand for. *)
PortBits(driver, w, s) == FitBits(BitsOf(driver), w, s)
NumberAt(bits, n) ==
  FoldLeft(LAMBDA x, i : x + (IF n \in bits[i] THEN 2^(i - 1) ELSE 0), 0,
           [i \in 1..Len(bits) |-> i])
=============================================================================
