----------------------- MODULE ArithmeticReplacement -----------------------
(***************************************************************************)
(* replace_arithmetic_ops: the operators of a design give way to generated *)
(* circuits, in place.  Chains of products and of sums are found first;    *)
(* the nodes are then visited with the operands before their users, each   *)
(* gets a replacement over what its operands were replaced by, and at the  *)
(* end the nodes that stay are made to refer to the replacements.          *)
(*                                                                         *)
(* The heap is a sequence of objects: the nodes of the design in the order *)
(* of the walk, then the replacements.  An operand is a reference to an    *)
(* object.  A generated circuit is written as the expression of its result *)
(* (StageArithmetic shows that the circuits compute it).                   *)
(***************************************************************************)
EXTENDS Expressions, TLC

CONSTANTS Programs,     \* the designs: sequences of output nodes
          Settings,     \* [auto: the configuration is looked up, mult]
          Stimuli       \* the inputs the results are compared on

VARIABLES
  program,    \* the design
  setting,    \* the configuration
  heap,       \* the objects
  size,       \* how many of them are nodes of the design
  chains,     \* what the detection found
  at,         \* the node to visit, 0 before the detection
  replaced,   \* the replacement of a node, as far as there is one
  consumed    \* the nodes that went into a chain

replaceVars == <<program, setting, heap, size, chains, at, replaced, consumed>>

-----------------------------------------------------------------------------
(* The walk: a node after its operands, once. *)
Output(name, w, s, e) == Node("output", w, s, <<e>>, 0, name)
OperandOrder(e) == IF e.op = "mux" THEN <<e.kids[2], e.kids[3], e.kids[1]>> ELSE e.kids
RECURSIVE Walked(_, _), WalkedAll(_, _)
Walked(order, e) ==
  IF \E i \in DOMAIN order : order[i] = e THEN order
  ELSE Append(WalkedAll(order, OperandOrder(e)), e)
WalkedAll(order, es) ==
  IF es = <<>> THEN order ELSE WalkedAll(Walked(order, Head(es)), Tail(es))

Ref(e, i) == Node("ref", e.w, e.s, <<>>, i, "")
Objects(p) ==
  LET order == WalkedAll(<<>>, p)
      index(e) == CHOOSE i \in DOMAIN order : order[i] = e
  IN  [i \in DOMAIN order |->
         [order[i] EXCEPT !.kids = [k \in DOMAIN @ |-> Ref(@[k], index(@[k]))]]] \o <<>>
Operand(i, k) == heap[i].kids[k].k
RefCount(i) == Cardinality({<<n, k>> \in (1..size) \X (1..4) : k <= Len(heap[n].kids) /\ Operand(n, k) = i})
IsSignal(i) == heap[i].op \in {"auto", "output"}
IsPlus(i) == heap[i].op = "+"

-----------------------------------------------------------------------------
(* Detection. Sets of at most one node stand for "this or None". *)

(* _unwrap_mul: the product at i, or behind the wire i. *)
DriverOf(i) == IF IsSignal(i) THEN {Operand(i, 1)} ELSE {}
UnwrapMul(i) == {m \in {i} \cup DriverOf(i) : heap[m].op = "*"}
(* fault: only the wire must have a single consumer *)
SoleWire(i) == {m \in UnwrapMul(i) : RefCount(i) = 1}
SoleMul(i) == {m \in UnwrapMul(i) : RefCount(i) = 1 /\ RefCount(m) = 1}

(* _collect_mul_chain: products beside a running rest. *)
RECURSIVE MulChain(_, _)
MulChain(i, muls) ==
  LET with(m) == Append(muls, CHOOSE x \in m : TRUE) IN
  IF IsPlus(i) /\ SoleMul(Operand(i, 1)) # {} THEN MulChain(Operand(i, 2), with(SoleMul(Operand(i, 1))))
  ELSE IF IsPlus(i) /\ SoleMul(Operand(i, 2)) # {} THEN MulChain(Operand(i, 1), with(SoleMul(Operand(i, 2))))
  ELSE IF SoleMul(i) # {} THEN [muls |-> with(SoleMul(i)), rest |-> 0]
  ELSE [muls |-> muls, rest |-> i]

(* The sums of a chain and the wires of its products, marked once the      *)
(* products are.                                                           *)
RECURSIVE ChainMarked(_, _)
ChainMarked(i, marked) ==
  IF ~IsPlus(i) THEN marked
  ELSE LET m == marked \cup {i} IN
       IF UnwrapMul(Operand(i, 1)) \cap m # {} THEN ChainMarked(Operand(i, 2), m \cup {Operand(i, 1)})
       ELSE IF UnwrapMul(Operand(i, 2)) \cap m # {} THEN ChainMarked(Operand(i, 1), m \cup {Operand(i, 2)})
       ELSE m

(* Outermost sums first. *)
RECURSIVE MulRoots(_, _, _)
MulRoots(i, roots, members) ==
  IF i = 0 THEN [roots |-> roots, members |-> members]
  ELSE LET c == MulChain(i, <<>>) IN
       IF ~IsPlus(i) \/ i \in members \/ c.muls = <<>> THEN MulRoots(i - 1, roots, members)
       ELSE MulRoots(i - 1, (i :> c) @@ roots, ChainMarked(i, members \cup {c.muls[k] : k \in DOMAIN c.muls}))

(* _is_plus_op and _collect_add_chain, outside the members of mul chains. *)
PlusOf(i) == IF IsPlus(i) THEN {i}
             ELSE {p \in DriverOf(i) : IsPlus(p) /\ RefCount(i) = 1 /\ RefCount(p) = 1}
RECURSIVE AddChain(_, _, _, _, _)
AddChain(i, root, members, leaves, sums) ==
  LET left == PlusOf(Operand(i, 1)) \ members
      right == PlusOf(Operand(i, 2)) \ members
      on(p) == CHOOSE x \in p : TRUE
  IN  IF ~IsPlus(i) \/ i \in members \/ (i # root /\ RefCount(i) # 1)
      THEN [leaves |-> Append(leaves, i), sums |-> sums]
      ELSE IF left # {} THEN AddChain(on(left), root, members, Append(leaves, Operand(i, 2)), sums \cup {i})
      ELSE IF right # {} THEN AddChain(on(right), root, members, Append(leaves, Operand(i, 1)), sums \cup {i})
      ELSE [leaves |-> leaves \o <<Operand(i, 1), Operand(i, 2)>>, sums |-> sums \cup {i}]
RECURSIVE AddRoots(_, _, _, _)
AddRoots(i, members, roots, claimed) ==
  IF i = 0 THEN roots
  ELSE LET c == AddChain(i, i, members, <<>>, {}) IN
       IF ~IsPlus(i) \/ i \in members \/ i \in claimed \/ Len(c.leaves) < 3
          \/ \E k \in DOMAIN c.leaves : UnwrapMul(c.leaves[k]) # {}
       THEN AddRoots(i - 1, members, roots, claimed)
       ELSE AddRoots(i - 1, members, (i :> c) @@ roots, claimed \cup c.sums)

-----------------------------------------------------------------------------
(* Replacements. *)
Got(i) == LET j == IF i \in DOMAIN replaced THEN replaced[i] ELSE i IN Ref(heap[j], j)
Fitted(e, w, s) == IF e.w = w /\ e.s = s THEN e ELSE FitType(e, w, s)
Reinterpreted(e, s) == Node("auto", e.w, s, <<e>>, 0, "")
WiderOf(m, n) == IF m >= n THEN m ELSE n
BitLength(v) == CHOOSE j \in 0..31 : 2^j > v /\ (j = 0 \/ 2^(j - 1) <= v)

(* == and !=: the bits differ nowhere, as a tree over their differences. *)
RECURSIVE OrTree(_)
OrTree(level) ==
  IF Len(level) = 1 THEN level[1]
  ELSE OrTree([k \in 1..((Len(level) + 1) \div 2) |->
                 IF 2 * k <= Len(level) THEN BitOp(level[2 * k - 1], level[2 * k], "|") ELSE level[2 * k - 1]])
Equality(a, b, op) ==
  LET w == WiderOf(a.w, b.w)
      x == IF a.w < w THEN FitType(a, w, FALSE) ELSE a
      y == IF b.w < w THEN FitType(b, w, FALSE) ELSE b
      differ == OrTree([i \in 1..w |-> BitOp(Slice(x, i - 1, i), Slice(y, i - 1, i), "^")])
  IN  IF op = "==" THEN Not(differ) ELSE differ

(* fused_inner_product over operands padded to one width, with one         *)
(* encoding for all of them and for the accumulated term.                  *)
RECURSIVE SumOf(_, _, _, _)
SumOf(acc, terms, w, s) ==
  IF terms = <<>> THEN acc ELSE SumOf(Op2(acc, Head(terms), "+", w, s), Tail(terms), w, s)
Pairs(c) == [k \in DOMAIN c.muls |-> <<Got(Operand(c.muls[k], 1)), Got(Operand(c.muls[k], 2))>>]
Signs(c) == {Pairs(c)[k][j].s : k \in DOMAIN c.muls, j \in 1..2}
Rest(c) == IF c.rest = 0 THEN Const(0, 1, FALSE) ELSE Got(c.rest)
FusedProducts(c) ==
  LET s == Pairs(c)[1][1].s
      widths == {Pairs(c)[k][j].w : k \in DOMAIN c.muls, j \in 1..2}
      w == CHOOSE m \in widths : \A n \in widths : n <= m
      pad(e) == IF e.w < w THEN FitType(e, w, s) ELSE e
      out == WiderOf(2 * w, BitLength(Len(c.muls) * (2^(2 * w) - 1) + 2^Rest(c).w - 1))
  IN  SumOf(Reinterpreted(Rest(c), s),
            [k \in DOMAIN c.muls |-> Op2(pad(Pairs(c)[k][1]), pad(Pairs(c)[k][2]), "*", 2 * w, s)], out, s)

(* build_multi_input_add *)
MultiInputAdd(leaves) ==
  LET signed == \E k \in DOMAIN leaves : leaves[k].s
      eff(e) == e.w + (IF signed /\ ~e.s THEN 1 ELSE 0)
      widest == CHOOSE m \in {eff(leaves[k]) : k \in DOMAIN leaves} : \A k \in DOMAIN leaves : eff(leaves[k]) <= m
      out == widest + WiderOf(1, BitLength(Len(leaves) - 1))
  IN  SumOf(Head(leaves), Tail(leaves), out, signed)

(* One operator: adders and subtractors keep the carry if the node has     *)
(* room for it and are unsigned; a Karatsuba multiplier takes equal widths.*)
OperatorCircuit(n, a, b) ==
  LET full == WiderOf(a.w, b.w) + (IF n.w > WiderOf(a.w, b.w) THEN 1 ELSE 0)
      even == WiderOf(a.w, b.w)
      pad(e) == IF setting.mult = "karatsuba" /\ e.w < even THEN FitType(e, even, e.s) ELSE e
  IN  IF n.op = "*" THEN Op2(pad(a), pad(b), "*", pad(a).w + pad(b).w, a.s \/ b.s)
      ELSE Op2(a, b, n.op, full, FALSE)

-----------------------------------------------------------------------------
ReplaceInit ==
  /\ program \in Programs /\ setting \in Settings
  /\ heap = Objects(program) /\ size = Len(heap)
  /\ chains = <<>> /\ at = 0
  /\ replaced = <<>> /\ consumed = {}

DetectChains ==
  /\ at = 0 /\ at' = 1
  /\ LET mul == MulRoots(size, <<>>, {}) IN
     chains' = IF setting.auto
               THEN [mul |-> mul.roots, add |-> AddRoots(size, mul.members, <<>>, {})]
               ELSE [mul |-> <<>>, add |-> <<>>]
  /\ UNCHANGED <<program, setting, heap, size, replaced, consumed>>

Visiting == at \in 1..size
Arithmetic(i) == heap[i].op \in {"+", "-", "*", "==", "!="} /\ i \notin consumed
Replace(targets, e) ==
  /\ heap' = Append(heap, Fitted(e, heap[at].w, heap[at].s))
  /\ replaced' = [i \in targets |-> Len(heap')] @@ replaced
  /\ at' = at + 1
  /\ UNCHANGED <<program, setting, size, chains>>
(* A chain with operands of both signednesses keeps its last sum. *)
MixedChain(i) == i \in DOMAIN chains.mul /\ Signs(chains.mul[i]) = BOOLEAN
PassBy ==
  /\ Visiting /\ (~Arithmetic(at) \/ MixedChain(at))
  /\ at' = at + 1
  /\ UNCHANGED <<program, setting, heap, size, chains, replaced, consumed>>

ReplaceEquality ==
  /\ Visiting /\ Arithmetic(at) /\ heap[at].op \in {"==", "!="}
  /\ Replace({at}, Equality(Got(Operand(at, 1)), Got(Operand(at, 2)), heap[at].op))
  /\ UNCHANGED consumed

(* The look-up found one circuit for the whole chain cheapest. *)
FuseChain ==
  /\ Visiting /\ Arithmetic(at) /\ at \in DOMAIN chains.mul /\ ~MixedChain(at)
  /\ LET c == chains.mul[at]
         muls == {c.muls[k] : k \in DOMAIN c.muls} IN
     /\ Replace(muls \cup {at}, FusedProducts(c))
     /\ consumed' = ChainMarked(at, consumed \cup muls)

ReplaceAddChain ==
  /\ Visiting /\ Arithmetic(at) /\ at \in DOMAIN chains.add
  /\ LET c == chains.add[at] IN
     /\ Replace(c.sums, MultiInputAdd([k \in DOMAIN c.leaves |-> Got(c.leaves[k])]))
     /\ consumed' = consumed \cup c.sums

ReplaceOperator ==
  /\ Visiting /\ Arithmetic(at) /\ at \notin DOMAIN chains.add /\ ~MixedChain(at)
  /\ heap[at].op \in {"+", "-", "*"}
  /\ Replace({at}, OperatorCircuit(heap[at], Got(Operand(at, 1)), Got(Operand(at, 2))))
  /\ UNCHANGED consumed

(* Every node that stays refers to the replacements. *)
RewriteReferences ==
  /\ at = size + 1 /\ at' = size + 2
  /\ heap' = [i \in DOMAIN heap |->
       IF i > size \/ i \in DOMAIN replaced THEN heap[i]
       ELSE [heap[i] EXCEPT !.kids = [k \in DOMAIN @ |-> Got(@[k].k)]]]
  /\ UNCHANGED <<program, setting, size, chains, replaced, consumed>>

ReplaceNext == DetectChains \/ PassBy \/ ReplaceEquality \/ FuseChain
               \/ ReplaceAddChain \/ ReplaceOperator \/ RewriteReferences
ReplaceSpec == ReplaceInit /\ [][ReplaceNext]_replaceVars

-----------------------------------------------------------------------------
(* The expression an operand stands for. *)
RECURSIVE Unfolded(_)
Unfolded(e) == IF e.op = "ref" THEN Unfolded(heap[e.k])
               ELSE [e EXCEPT !.kids = [k \in DOMAIN @ |-> Unfolded(@[k])]]

(* The design computes what it computed before, on every output.           *)
ReplacementKeepsValues ==
  at = size + 2 =>
    \A o \in DOMAIN program :
      LET i == CHOOSE n \in 1..size : heap[n].op = "output" /\ heap[n].id = program[o].id
          new == Unfolded(heap[i].kids[1])
          old == program[o].kids[1]
      IN  \A v \in DOMAIN Stimuli :
            SimAssigned(new, heap[i].w, Stimuli[v]) = SimAssigned(old, heap[i].w, Stimuli[v])
=============================================================================
