---------------------------- MODULE Expressions ----------------------------
(***************************************************************************)
(* The expression IR: nodes that carry their own width and signedness, the *)
(* constructors behind Python's operators, and what the simulator computes *)
(* for each node.                                                          *)
(*                                                                         *)
(* A node is a record of one shape: op, width w, signedness s, the operand *)
(* nodes kids, a number k (the value of a constant, the first bit of a     *)
(* slice) and the name id of an input.  A wire made for sharing is a node  *)
(* "auto" over its driver: the passes treat it as a named signal and its   *)
(* driver as a netlist line of its own.  Two wires with equal drivers are  *)
(* one wire here.                                                          *)
(***************************************************************************)
EXTENDS Integers, Sequences, SequencesExt, FiniteSets

Node(op, w, s, kids, k, id) ==
  [op |-> op, w |-> w, s |-> s, kids |-> kids, k |-> k, id |-> id]

(* Python's bit patterns. *)
Pattern(v, w) == v % 2^w
Bit(v, i) == (v \div 2^i) % 2
Decoded(v, w, s) == IF s /\ w > 0 /\ Bit(v, w - 1) = 1 THEN v - 2^w ELSE v
RECURSIVE And(_, _), Or(_, _), Xor(_, _)
And(a, b) == IF a = 0 \/ b = 0 THEN 0
             ELSE 2 * And(a \div 2, b \div 2) + (a % 2) * (b % 2)
Or(a, b) == a + b - And(a, b)
Xor(a, b) == a + b - 2 * And(a, b)

(* A pattern of one width brought to another: low bits kept, extension by  *)
(* the given signedness.                                                   *)
ResizedBits(v, from, to, s) ==
  IF to <= from THEN Pattern(v, to) ELSE Pattern(Decoded(v, from, s), to)

-----------------------------------------------------------------------------
(* Nodes. *)
Leaf(e) == e.op \in {"const", "input", "auto"}
Fits(v, w, s) == IF s THEN -(2^(w - 1)) <= v /\ v < 2^(w - 1) ELSE 0 <= v /\ v < 2^w
(* A constant that its type cannot hold raises: the node "raised" stands   *)
(* for a construction that ended there.                                    *)
Const(v, w, s) == IF Fits(v, w, s) THEN Node("const", w, s, <<>>, v, "")
                  ELSE Node("raised", w, s, <<>>, 0, "")
BoolConst(p) == Const(IF p THEN 1 ELSE 0, 1, FALSE)
Input(name, w, s) == Node("input", w, s, <<>>, 0, name)
Auto(e) == Node("auto", e.w, e.s, <<e>>, 0, "")

Op1(a, op) == Node(op, a.w, FALSE, <<a>>, 0, "")
Op2(a, b, op, w, s) == Node(op, w, s, <<a, b>>, 0, "")
Wider(a, b) == IF a.w >= b.w THEN a.w ELSE b.w
Ternary(sel, a, b) == Node("mux", Wider(a, b), a.s \/ b.s, <<sel, a, b>>, 0, "")
Concat(parts) ==
  Node("cat", FoldLeft(LAMBDA n, p : n + p.w, 0, parts), FALSE, parts, 0, "")
Slice(a, first, stop) == Node("slice", stop - first, FALSE, <<a>>, first, "")
Resize(a, w) == Node("resize", w, a.s, <<a>>, 0, "")

(* _maybe_share: a compound node met as an operand becomes a wire, unless  *)
(* the design is built flat and nothing forces it.                         *)
Shared(e) == IF Leaf(e) THEN e ELSE Auto(e)
AsExpr(e, flat) == IF flat THEN e ELSE Shared(e)

BitsRequired(v) ==
  IF v = 0 THEN 1
  ELSE LET m == IF v > 0 THEN v ELSE -v
           n == CHOOSE j \in 1..m : 2^(j - 1) <= m /\ m < 2^j
       IN IF v > 0 THEN n ELSE n + 1
IntLiteral(v) == Const(v, BitsRequired(v), v < 0)

FitWidth(e, w) == CASE e.w = w -> e
                    [] e.w > w -> Resize(Shared(e), w)
                    [] OTHER   -> Resize(e, w)

-----------------------------------------------------------------------------
(* The operators. *)
Aligned(a, b, w) == IF a.s = b.s THEN <<a, b>> ELSE <<FitWidth(a, w), FitWidth(b, w)>>
Arith(a, b, op, w) ==
  LET p == Aligned(a, b, w) IN Op2(p[1], p[2], op, w, a.s \/ b.s)
Add(a, b) == Arith(a, b, "+", Wider(a, b) + 1)
Sub(a, b) == Arith(a, b, "-", Wider(a, b) + 1)
Mul(a, b) == Arith(a, b, "*", a.w + b.w)
BitOp(a, b, op) ==
  LET w == Wider(a, b) IN Op2(FitWidth(a, w), FitWidth(b, w), op, w, FALSE)
Not(a) == Op1(a, "~")
Shift(a, b, op) ==
  Op2(a, b, op, IF op = "<<" /\ b.op = "const" THEN a.w + b.k ELSE a.w, a.s)

(* A comparison aligns its operands; of mixed signedness, both are brought *)
(* to a signed type that holds every value of either.                      *)
FitType(e, w, s) == Node("auto", w, s, <<FitWidth(e, w)>>, 0, "")
Promoted(e, w) ==
  CASE e.op = "const" -> Const(e.k, w, TRUE)
    [] e.op # "const" /\ e.s -> FitWidth(e, w)
    [] OTHER -> FitType(e, w, TRUE)
CmpOperand(e, w) == IF e.op = "const" THEN e ELSE FitWidth(e, w)
Cmp(a, b, op) ==
  LET w == Wider(a, b) IN
  IF a.s # b.s THEN Op2(Promoted(a, w + 1), Promoted(b, w + 1), op, 1, FALSE)
  ELSE Op2(CmpOperand(a, w), CmpOperand(b, w), op, 1, FALSE)

Comparisons == {"==", "!=", "<", "<=", ">", ">="}
Compared(op, x, y) ==
  CASE op = "==" -> x = y  [] op = "!=" -> x # y  [] op = "<"  -> x < y
    [] op = "<=" -> x <= y [] op = ">"  -> x > y  [] op = ">=" -> x >= y

-----------------------------------------------------------------------------
(* The simulator: the bit pattern of a node for the given inputs.          *)
RECURSIVE Sim(_, _)
SimOp2(e, v) ==
  LET a == e.kids[1]   b == e.kids[2]
      x == Sim(a, v)   y == Sim(b, v)
      xd == Decoded(x, a.w, a.s)   yd == Decoded(y, b.w, b.s)
      xr == ResizedBits(x, a.w, e.w, a.s)   yr == ResizedBits(y, b.w, e.w, b.s)
  IN CASE e.op = "&" -> Pattern(And(x, y), e.w)
       [] e.op = "|" -> Pattern(Or(x, y), e.w)
       [] e.op = "^" -> Pattern(Xor(x, y), e.w)
       [] e.op = "nand" -> Pattern(-1 - And(x, y), e.w)
       [] e.op = "+" -> Pattern(xr + yr, e.w)
       [] e.op = "-" -> Pattern(xr - yr, e.w)
       [] e.op = "*" -> Pattern(xd * yd, e.w)
       [] e.op = "<<" -> IF y >= e.w THEN 0 ELSE Pattern(x * 2^y, e.w)
       [] e.op = ">>" -> Pattern(x, a.w) \div 2^y
       [] e.op \in Comparisons -> IF Compared(e.op, xd, yd) THEN 1 ELSE 0
Sim(e, v) ==
  CASE e.op = "const" -> Pattern(e.k, e.w)
    [] e.op = "input" -> Pattern(v[e.id], e.w)
    [] e.op = "auto" ->
         ResizedBits(Sim(e.kids[1], v), e.kids[1].w, e.w, e.kids[1].s)
    [] e.op = "~" -> Pattern(-1 - Sim(e.kids[1], v), e.w)
    [] e.op = "mux" ->
         LET c == IF Sim(e.kids[1], v) # 0 THEN e.kids[2] ELSE e.kids[3]
         IN ResizedBits(Sim(c, v), c.w, e.w, c.s)
    [] e.op = "cat" ->
         Pattern(FoldLeft(LAMBDA acc, p :
           <<acc[1] + Pattern(Sim(p, v), p.w) * 2^acc[2], acc[2] + p.w>>,
           <<0, 0>>, e.kids)[1], e.w)
    [] e.op = "slice" -> Pattern(Sim(e.kids[1], v) \div 2^e.k, e.w)
    [] e.op = "resize" ->
         ResizedBits(Sim(e.kids[1], v), e.kids[1].w, e.w, e.kids[1].s)
    [] OTHER -> SimOp2(e, v)

(* What a signal that takes the driver shows. *)
SimAssigned(e, w, v) == ResizedBits(Sim(e, v), e.w, w, e.s)
=============================================================================
