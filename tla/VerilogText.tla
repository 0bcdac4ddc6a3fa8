---------------------------- MODULE VerilogText ----------------------------
(***************************************************************************)
(* What the emitted Verilog says.  Emitted(e) is the syntax tree of the    *)
(* text to_verilog prints for a node; VlogValue is the meaning IEEE 1364   *)
(* gives that text, by the reference evaluator of the differential tests:  *)
(* an operand is sized by the whole expression it stands in, unless it is  *)
(* the operand of a concatenation, a select, a comparison, a shift amount, *)
(* a condition or $signed.                                                 *)
(*                                                                         *)
(* A piece of text is [op, w, s, kids, k, net]: literals carry their width *)
(* sign and pattern k, a select its first bit k and its width w, a net the *)
(* expression node it names.                                               *)
(***************************************************************************)
EXTENDS Expressions

Text(op, w, s, kids, k, net) ==
  [op |-> op, w |-> w, s |-> s, kids |-> kids, k |-> k, net |-> net]
NoNet == [op |-> "none"]

Literal(v, w, s) ==
  CASE v >= 0 -> Text("lit", w, s, <<>>, v, NoNet)
    [] v < 0 /\ v = -(2^(w - 1)) ->
         Text("$signed", w, TRUE,
              <<Text("lit", w, FALSE, <<>>, Pattern(v, w), NoNet)>>, 0, NoNet)
    [] OTHER -> Text("neg", w, TRUE, <<Text("lit", w, TRUE, <<>>, -v, NoNet)>>, 0, NoNet)
Selected(base, first, w) == Text("select", w, FALSE, <<base>>, first, NoNet)
Joined(parts) == Text("concat", 0, FALSE, parts, 0, NoNet)
Repeated(n, part) == Text("repl", 0, FALSE, <<part>>, n, NoNet)

RECURSIVE Emitted(_)
EmittedSlice(e) ==
  LET a == e.kids[1] IN
  CASE e.k = 0 /\ e.w = a.w -> Emitted(a)
    [] a.op = "const" /\ ~(e.k = 0 /\ e.w = a.w) ->
         Literal(Pattern(Pattern(a.k, a.w) \div 2^e.k, e.w), e.w, FALSE)
    [] OTHER -> Selected(Emitted(a), e.k, e.w)
EmittedResize(e) ==
  LET a == e.kids[1]
      p == Pattern(a.k, e.w)
      top == IF a.w = 1 THEN Emitted(a) ELSE Selected(Emitted(a), a.w - 1, 1)
      fill == IF a.s THEN top ELSE Text("lit", 1, FALSE, <<>>, 0, NoNet)
  IN CASE a.w = e.w -> Emitted(a)
       [] a.w # e.w /\ a.op = "const" -> Literal(Decoded(p, e.w, e.s), e.w, e.s)
       [] a.w > e.w /\ a.op # "const" -> Selected(Emitted(a), 0, e.w)
       [] OTHER -> Joined(<<Repeated(e.w - a.w, fill), Emitted(a)>>)
Emitted(e) ==
  CASE e.op = "const" -> Literal(e.k, e.w, e.s)
    [] e.op \in {"input", "auto"} -> Text("id", e.w, e.s, <<>>, 0, e)
    [] e.op = "~" -> Text("~", 0, FALSE, <<Emitted(e.kids[1])>>, 0, NoNet)
    [] e.op = "nand" ->
         Text("~", 0, FALSE, <<Text("&", 0, FALSE,
           <<Emitted(e.kids[1]), Emitted(e.kids[2])>>, 0, NoNet)>>, 0, NoNet)
    [] e.op = "mux" ->
         Text("?:", 0, FALSE, <<Emitted(e.kids[1]), Emitted(FitWidth(e.kids[2], e.w)),
                                Emitted(FitWidth(e.kids[3], e.w))>>, 0, NoNet)
    [] e.op = "cat" -> Joined([i \in DOMAIN e.kids |-> Emitted(e.kids[Len(e.kids) + 1 - i])])
    [] e.op = "slice" -> EmittedSlice(e)
    [] e.op = "resize" -> EmittedResize(e)
    [] OTHER -> Text(e.op, 0, FALSE, [i \in 1..2 |-> Emitted(e.kids[i])], 0, NoNet)

(* A select needs a named base: text such as (a + b)[3] is no Verilog.     *)
RECURSIVE Legal(_)
Legal(t) == /\ t.op = "select" => t.kids[1].op = "id"
            /\ \A i \in DOMAIN t.kids : Legal(t.kids[i])

-----------------------------------------------------------------------------
(* IEEE 1364. *)
RECURSIVE SelfSize(_)
SelfSize(t) ==      \* <<size, signed>>
  CASE t.op \in {"lit", "id", "select", "$signed"} -> <<t.w, t.s>>
    [] t.op = "concat" ->
         <<FoldLeft(LAMBDA n, p : n + SelfSize(p)[1], 0, t.kids), FALSE>>
    [] t.op = "repl" -> <<t.k * SelfSize(t.kids[1])[1], FALSE>>
    [] t.op \in {"~", "neg", "<<", ">>"} -> SelfSize(t.kids[1])
    [] t.op \in Comparisons -> <<1, FALSE>>
    [] OTHER -> LET n == Len(t.kids)
                    a == SelfSize(t.kids[n - 1])   b == SelfSize(t.kids[n])
                IN <<IF a[1] >= b[1] THEN a[1] ELSE b[1], a[2] /\ b[2]>>

Extended(p, from, to, s) ==
  IF to <= from THEN Pattern(p, to) ELSE Pattern(Decoded(Pattern(p, from), from, s), to)

RECURSIVE VlogValue(_, _, _, _), NetValue(_, _)
(* Self-determined: in a context of its own size and sign. *)
Alone(t, v) == LET z == SelfSize(t) IN VlogValue(t, z[1], z[2], v)
VlogValue(t, cw, cs, v) ==
  LET Here(i) == VlogValue(t.kids[i], cw, cs, v)
      Up(p, w) == Extended(p, w, cw, cs)
  IN
  CASE t.op = "lit" -> Up(t.k, t.w)
    [] t.op = "id" -> Up(NetValue(t.net, v), t.w)
    [] t.op = "select" -> Up(Pattern(Alone(t.kids[1], v) \div 2^t.k, t.w), t.w)
    [] t.op = "concat" ->
         LET all == FoldLeft(LAMBDA acc, p : acc * 2^(SelfSize(p)[1]) + Alone(p, v),
                             0, t.kids)
         IN Up(all, SelfSize(t)[1])
    [] t.op = "repl" ->
         LET one == Alone(t.kids[1], v)   w == SelfSize(t.kids[1])[1]
         IN Up(FoldLeft(LAMBDA acc, i : acc * 2^w + one, 0, [i \in 1..t.k |-> i]),
               t.k * w)
    [] t.op = "$signed" -> Up(Alone(t.kids[1], v), t.w)
    [] t.op = "~" -> Pattern(-1 - Here(1), cw)
    [] t.op = "neg" -> Pattern(-Here(1), cw)
    [] t.op \in Comparisons ->
         LET a == SelfSize(t.kids[1])   b == SelfSize(t.kids[2])
             w == IF a[1] >= b[1] THEN a[1] ELSE b[1]
             s == a[2] /\ b[2]
             Side(i) == Decoded(VlogValue(t.kids[i], w, s, v), w, s)
         IN IF Compared(t.op, Side(1), Side(2)) THEN 1 ELSE 0
    [] t.op = "<<" -> Pattern(Here(1) * 2^Alone(t.kids[2], v), cw)
    [] t.op = ">>" -> Here(1) \div 2^Alone(t.kids[2], v)
    [] t.op = "?:" -> IF Alone(t.kids[1], v) # 0 THEN Here(2) ELSE Here(3)
    [] t.op = "+" -> Pattern(Here(1) + Here(2), cw)
    [] t.op = "-" -> Pattern(Here(1) - Here(2), cw)
    [] t.op = "*" -> Pattern(Here(1) * Here(2), cw)
    [] t.op = "&" -> And(Here(1), Here(2))
    [] t.op = "|" -> Or(Here(1), Here(2))
    [] t.op = "^" -> Xor(Here(1), Here(2))

(* The line "assign name = rhs" of a driver: sized to the wider side, with *)
(* the sign of the right side.                                             *)
AssignedText(driver, w) == Emitted(FitWidth(driver, w))
AssignValue(driver, w, v) ==
  LET t == AssignedText(driver, w)   z == SelfSize(t)
  IN Pattern(VlogValue(t, IF z[1] >= w THEN z[1] ELSE w, z[2], v), w)
NetValue(net, v) ==
  IF net.op = "input" THEN Pattern(v[net.id], net.w)
  ELSE AssignValue(net.kids[1], net.w, v)
=============================================================================
