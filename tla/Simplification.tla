--------------------------- MODULE Simplification ---------------------------
(***************************************************************************)
(* The peephole rewriter and the mux-tree balancer: what becomes of a node *)
(* whose operands have been rewritten.  A rewritten node keeps its own     *)
(* type; a rule that returns an operand returns it with the operand's.     *)
(***************************************************************************)
EXTENDS Expressions

(* The driver behind wires made for sharing. *)
RECURSIVE Through(_)
Through(e) == IF e.op = "auto" THEN Through(e.kids[1]) ELSE e
ConstIs(e, v) == Through(e).op = "const" /\ Through(e).k = v
(* fault: 1 is all ones of every width *)
OneIsAllOnes(e) == ConstIs(e, 1)
AllOnes(e) == ConstIs(e, 2^(Through(e).w) - 1)

(* The canonical key: wires are transparent, operands of symmetric         *)
(* operators are unordered, a concatenation is its parts.                  *)
Symmetric == {"&", "|", "^", "==", "!=", "nand"}
RECURSIVE Key(_)
Key(e) ==
  LET t == Through(e)
      keys == [i \in DOMAIN t.kids |-> Key(t.kids[i])]
      free == t.op \in Symmetric
  IN [op |-> t.op, w |-> IF t.op = "cat" THEN 0 ELSE t.w, s |-> t.s, k |-> t.k,
      id |-> t.id, kids |-> IF free THEN <<>> ELSE keys,
      pair |-> IF free THEN {keys[1], keys[2]} ELSE {}]
SameKey(a, b) == Key(a) = Key(b)

Folded(a, b, e) ==
  LET x == a.k   y == b.k
      Masked(v) == Const(Pattern(v, e.w), e.w, e.s)
      Bits(v) == Const(v, e.w, e.s)
      (* Python's operators on integers of any sign, by their patterns. *)
      wide == a.w + b.w + e.w
      Wide(G(_, _)) == Decoded(G(Pattern(x, wide), Pattern(y, wide)), wide, TRUE)
  IN CASE e.op = "&" -> Bits(Wide(And))
       [] e.op = "|" -> Bits(Wide(Or))
       [] e.op = "^" -> Bits(Wide(Xor))
       [] e.op = "nand" -> Bits(Xor(2^e.w - 1, Wide(And)))
       [] e.op = "+" -> Masked(x + y)
       [] e.op = "-" -> Masked(x - y)
       [] e.op = "*" -> Masked(x * y)
       [] e.op = "<<" -> Masked(x * 2^y)
       [] e.op = ">>" -> Masked(x \div 2^y)
       [] e.op \in Comparisons -> BoolConst(Compared(e.op, x, y))

SimplifiedNot(e) ==
  LET a == Through(e.kids[1]) IN
  CASE a.op = "const" -> Const(2^e.w - 1 - a.k, e.w, e.s)
    [] a.op = "~" -> Through(a.kids[1])
    [] OTHER -> e

SimplifiedOp2(e) ==
  LET a == e.kids[1]   b == e.kids[2]
      zero == Const(0, e.w, e.s)
      same == SameKey(a, b)
  IN
  IF Through(a).op = "const" /\ Through(b).op = "const"
  THEN Folded(Through(a), Through(b), e)
  ELSE CASE e.op = "|" /\ ConstIs(a, 0) -> b
         [] e.op = "|" /\ ~ConstIs(a, 0) /\ (ConstIs(b, 0) \/ AllOnes(a)) -> a
         [] e.op = "|" /\ ~ConstIs(a, 0) /\ ~ConstIs(b, 0) /\ ~AllOnes(a) /\ AllOnes(b) -> b
         [] e.op = "&" /\ ConstIs(a, 0) -> a
         [] e.op = "&" /\ ~ConstIs(a, 0) /\ (ConstIs(b, 0) \/ AllOnes(a)) -> b
         [] e.op = "&" /\ ~ConstIs(a, 0) /\ ~ConstIs(b, 0) /\ ~AllOnes(a) /\ AllOnes(b) -> a
         [] e.op \in {"^", "+"} /\ ConstIs(a, 0) -> b
         [] e.op \in {"^", "+"} /\ ~ConstIs(a, 0) /\ ConstIs(b, 0) -> a
         [] e.op = "-" /\ ConstIs(b, 0) -> a
         [] e.op = "*" /\ (ConstIs(a, 0) \/ ConstIs(b, 0)) -> zero
         [] e.op = "*" /\ ConstIs(a, 1) /\ ~ConstIs(b, 0) -> b
         [] e.op = "*" /\ ~ConstIs(a, 0) /\ ~ConstIs(a, 1) /\ ConstIs(b, 1) -> a
         [] e.op \in {"|", "&"} /\ same
              /\ \A x \in {a, b} : ~ConstIs(x, 0) /\ ~AllOnes(x) -> a
         [] e.op \in {"^", "-"} /\ same -> zero
         [] e.op = "==" /\ same -> BoolConst(TRUE)
         [] e.op = "!=" /\ same -> BoolConst(FALSE)
         [] OTHER -> e

SimplifiedResize(e) ==
  LET a == Through(e.kids[1]) IN
  CASE a.w = e.w /\ a.s = e.s -> a
    [] a.op = "const" /\ ~(a.w = e.w /\ a.s = e.s) -> Const(Pattern(a.k, e.w), e.w, a.s)
    [] OTHER -> e
SimplifiedSlice(e) ==
  LET a == Through(e.kids[1]) IN
  CASE e.k = 0 /\ e.w = a.w -> a
    [] a.op = "const" /\ ~(e.k = 0 /\ e.w = a.w) ->
         Const(Pattern(a.k \div 2^e.k, e.w), e.w, e.s)
    [] OTHER -> e

(* Under a condition known to hold, or to fail, every occurrence of it is  *)
(* that constant; a node rebuilt on the way is simplified again.           *)
RECURSIVE Substituted(_, _, _), SimplifiedMux(_)
Rebuilt(e, kids) ==
  CASE e.op = "~" -> SimplifiedNot([e EXCEPT !.kids = kids])
    [] e.op = "mux" -> SimplifiedMux(Ternary(kids[1], kids[2], kids[3]))
    [] e.op = "cat" -> Concat(kids)
    [] e.op = "slice" -> SimplifiedSlice([e EXCEPT !.kids = kids])
    [] e.op = "resize" -> SimplifiedResize(Resize(kids[1], e.w))
    [] OTHER -> SimplifiedOp2([e EXCEPT !.kids = kids])
Substituted(e, key, val) ==
  IF Key(e) = key THEN val
  ELSE LET kids == [i \in DOMAIN e.kids |-> Substituted(e.kids[i], key, val)]
       IN CASE kids = e.kids -> e
            [] kids # e.kids /\ e.op = "auto" -> kids[1]
            [] OTHER -> Rebuilt(e, kids)
SimplifiedMux(e) ==
  LET sel == e.kids[1]
      Arm(j, val) ==
        LET t == Through(e.kids[j])
            inner == IF t.op = "mux" /\ SameKey(t.kids[1], sel) THEN t.kids[j] ELSE e.kids[j]
        IN IF sel.w = 1 /\ t.op = "mux"
           THEN Substituted(inner, Key(sel), Const(val, 1, sel.s)) ELSE inner
      a == Arm(2, 1)   b == Arm(3, 0)
  IN CASE Through(sel).op = "const" ->
            IF Through(sel).k # 0 THEN e.kids[2] ELSE e.kids[3]
       [] Through(sel).op # "const" /\ SameKey(e.kids[2], e.kids[3]) -> e.kids[2]
       [] OTHER -> IF a = e.kids[2] /\ b = e.kids[3] THEN e
                   ELSE IF SameKey(a, b) THEN a ELSE Ternary(sel, a, b)

(* One driver, bottom up; the wires it names are drivers of their own.     *)
RECURSIVE SimplifiedDriver(_), SimplifiedOnce(_)
SimplifiedDriver(e) ==
  IF Leaf(e) THEN e
  ELSE LET r == [e EXCEPT !.kids = [i \in DOMAIN e.kids |-> SimplifiedDriver(e.kids[i])]]
       IN CASE e.op = "~" -> SimplifiedNot(r)
            [] e.op = "mux" -> SimplifiedMux(r)
            [] e.op = "slice" -> SimplifiedSlice(r)
            [] e.op = "resize" -> SimplifiedResize(r)
            [] e.op = "cat" -> r
            [] OTHER -> SimplifiedOp2(r)
RECURSIVE WithDrivers(_)
WithDrivers(e) ==
  IF e.op = "auto" THEN [e EXCEPT !.kids = <<SimplifiedOnce(e.kids[1])>>]
  ELSE [e EXCEPT !.kids = [i \in DOMAIN e.kids |-> WithDrivers(e.kids[i])]]
SimplifiedOnce(e) == WithDrivers(SimplifiedDriver(e))

-----------------------------------------------------------------------------
(* A cascade mux(sel == 0, v0, mux(sel == 1, v1, ...)) that covers every   *)
(* value of sel, or all but the last, becomes a tree over the bits of sel. *)
EqConst(e) ==       \* <<signal, constant>>, or <<>>
  LET t == Through(e) IN
  IF t.op # "==" THEN <<>>
  ELSE LET a == t.kids[1]   b == t.kids[2]
           ca == Through(a).op = "const"   cb == Through(b).op = "const"
       IN CASE cb /\ ~ca -> <<a, Through(b).k>>
            [] ca /\ ~cb -> <<b, Through(a).k>>
            [] OTHER -> <<>>
RECURSIVE Cascade(_, _)
Cascade(e, sel) ==  \* [pairs, default], below a first selector or from the root
  LET t == Through(e)
      q == IF t.op = "mux" THEN EqConst(t.kids[1]) ELSE <<>>
  IN IF q = <<>> \/ (sel # <<>> /\ ~SameKey(sel[1], q[1]))
     THEN [pairs |-> <<>>, sel |-> sel, default |-> e]
     ELSE LET rest == Cascade(t.kids[3], IF sel = <<>> THEN <<q[1]>> ELSE sel)
          IN [rest EXCEPT !.pairs = <<<<q[2], t.kids[2]>>>> \o @]
RECURSIVE BitTree(_, _, _)
BitTree(sel, leaves, bit) ==
  IF Len(leaves) = 1 THEN leaves[1]
  ELSE BitTree(sel, [i \in 1..(Len(leaves) \div 2) |->
                       Ternary(Slice(sel, bit, bit + 1), leaves[2 * i], leaves[2 * i - 1])],
               bit + 1)
BalancedHead(e, minN) ==
  LET c == Cascade(e, <<>>)
      m == Len(c.pairs)
      Case(k) == c.pairs[CHOOSE i \in 1..m : c.pairs[i][1] = k][2]
      keys == {c.pairs[i][1] : i \in 1..m}
  IN IF c.sel = <<>> THEN e
     ELSE LET full == 2^(c.sel[1].w) IN
          IF full < minN \/ m \notin {full, full - 1} \/ keys # 0..(m - 1) THEN e
          ELSE BitTree(c.sel[1],
                 [i \in 1..full |-> IF i <= m THEN Case(i - 1) ELSE c.default], 0)
RECURSIVE Balanced(_, _)
Balanced(e, minN) ==
  LET r == [e EXCEPT !.kids = [i \in DOMAIN e.kids |-> Balanced(e.kids[i], minN)]]
  IN IF e.op = "mux" THEN BalancedHead(r, minN) ELSE r
=============================================================================
