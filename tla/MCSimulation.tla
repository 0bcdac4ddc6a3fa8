---------------------------- MODULE MCSimulation ----------------------------
(***************************************************************************)
(* What is simulated and what depends on it, one side at a time:           *)
(*   memory   two masked write ports on a memory of one word of two        *)
(*            one-bit chunks, and an address bit, so that one of the two   *)
(*            addresses is out of range;                                   *)
(*   session  a recorded session with a one-bit design whose wire depends  *)
(*            on the input, the reset line and the register;               *)
(*   emission netlists over a 2-bit unsigned, a 2-bit signed and a one-bit *)
(*            input, simulated, rewritten, printed and exported: every     *)
(*            operator inside every other, on either side, with shared     *)
(*            operands and without; rewrites with constants; and mux       *)
(*            cascades that do and do not cover their selector;            *)
(*   replace  designs of sums and products whose operators are replaced;   *)
(*   gate     two processes that admit two structures under one source     *)
(*            tag, once each, and read the index any number of times.      *)
(***************************************************************************)
EXTENDS MemoryLockstep, TestbenchReplay, NetlistEmission, ArithmeticReplacement,
        MCAdmissionGate

VARIABLE part     \* the side of this behaviour

simulationVars == <<part, memVars, replayVars, emissionVars, replaceVars, gateVars>>

MCGiven == {-1, 0, 1}
MCLogic ==
  [x \in 0 .. 1 |-> [r \in 0 .. 1 |-> [q \in 0 .. 1 |-> (x + r + q) % 2]]]
MCOut == [w \in 0 .. 1 |-> 1 - w]

-----------------------------------------------------------------------------
a == Input("a", 2, FALSE)
s == Input("s", 2, TRUE)
c == Input("c", 1, FALSE)
MCValuations == [n \in 1..32 |-> [a |-> (n - 1) % 4, s |-> ((n - 1) \div 4) % 4, c |-> (n - 1) \div 16]]

Binary == {"+", "-", "*", "&", "^", "nand", "<<", ">>", "==", "<"}
Kinds == Binary \cup {"mux", "cat", "~", "slice"}
Made(op, x, y, flat) ==
  LET z == AsExpr(y, flat)
      top == Shared(x)
  IN CASE op = "+" -> Add(x, z)   [] op = "-" -> Sub(x, z)   [] op = "*" -> Mul(x, z)
       [] op \in {"&", "|", "^", "nand"} -> BitOp(x, z, op)
       [] op \in {"<<", ">>"} -> Shift(x, z, op)
       [] op \in Comparisons -> Cmp(x, z, op)
       [] op = "mux" -> Ternary(c, AsExpr(x, flat), z)
       [] op = "cat" -> Concat(<<AsExpr(x, flat), z>>)
       [] op = "~" -> Not(x)
       [] op = "slice" -> Slice(top, x.w \div 2, x.w)

Nested ==
  {[driver |-> IF left THEN Made(p, Made(q, a, s, flat), a, flat)
               ELSE Made(p, s, Made(q, s, c, flat), flat),
    w |-> 7, s |-> TRUE, flat |-> flat] :
     p \in Kinds, q \in Kinds, left \in BOOLEAN, flat \in BOOLEAN}
OneBit ==
  {[driver |-> Made(p, Made(q, c, c, flat), z, flat), w |-> 5, s |-> FALSE, flat |-> flat] :
     p \in {"+", "-", "*", "==", "<", "mux", "cat"}, q \in {"&", "nand", "~", "^"},
     z \in {a, c}, flat \in BOOLEAN}

k(v) == IntLiteral(v)
Rewritten ==
  {[driver |-> Made(p, Made(q, x, y, flat), z, flat), w |-> 4, s |-> FALSE, flat |-> flat] :
     p \in {"+", "mux", "cat", "|"}, q \in {"+", "-", "*", "&", "|", "^", "==", "!="},
     x \in {a, k(0), k(3)}, y \in {a, k(0), k(1), k(3)}, z \in {a}, flat \in {FALSE}}
Guarded ==
  {[driver |-> Ternary(g, AsExpr(Ternary(AsExpr(h, f), a, c), f), AsExpr(Ternary(h, c, i), f)),
    w |-> 3, s |-> FALSE, flat |-> f] :
     g \in {c, Not(c), Cmp(a, k(1), "==")}, h \in {c, BitOp(c, Slice(a, 0, 1), "|"), Not(Not(c))},
     i \in {a, Concat(<<c, c>>)}, f \in {FALSE}}
RECURSIVE Chain(_, _, _, _)
Chain(sel, ks, d, flat) ==
  IF ks = <<>> THEN d
  ELSE Ternary(AsExpr(Cmp(sel, k(Head(ks)), "=="), flat), k(Head(ks)),
               AsExpr(Chain(sel, Tail(ks), d, flat), flat))
Cascades ==
  {[driver |-> Chain(x, ks, d, f), w |-> 3, s |-> FALSE, flat |-> f] :
     x \in {a, s}, ks \in {<<0, 1, 2>>, <<2, 0, 1, 3>>, <<0, 1>>, <<1, 2, 3>>, <<0, 2, 1>>},
     d \in {c, Concat(<<c, c, c>>)}, f \in BOOLEAN}
MCOptionSets == {{}, {"simplify"}, {"cse"}, {"simplify", "balance", "cse"}}
MCDesigns == Nested \cup OneBit \cup Rewritten \cup Guarded \cup Cascades

-----------------------------------------------------------------------------
(* Sums and products, signed, unsigned and mixed, with shared operands and *)
(* without; an intermediate sum used a second time where its own operands  *)
(* hold no product.                                                        *)
b == Input("b", 2, FALSE)
MCStimuli == [n \in 1..32 |-> [a |-> (n - 1) % 4, b |-> (3 * n + n \div 8) % 4,
                               s |-> ((n - 1) \div 4) % 4, c |-> (n - 1) \div 16]]
Sums(f) ==
  LET A(x, y) == Add(x, AsExpr(y, f))
      M(x, y) == Mul(x, AsExpr(y, f))
      ac == M(a, c)  ab == M(a, b)  bb == M(b, b)  ss == M(s, s)  sum == A(a, b)
  IN {<<A(ac, a)>>, <<A(ac, ab)>>, <<A(A(ac, ab), bb)>>, <<A(c, A(ab, bb))>>,
      <<A(A(sum, c), a)>>, <<A(sum, A(a, c))>>, <<A(M(s, a), c)>>, <<A(ss, s)>>,
      <<A(A(M(s, c), ss), M(c, s))>>, <<A(A(s, s), s)>>, <<A(A(s, s), c)>>,
      <<BitOp(Cmp(a, k(3), "=="), AsExpr(Cmp(s, c, "!="), f), "^")>>,
      <<Cmp(sum, Sub(a, c), "==")>>, <<M(sum, Sub(s, c))>>,
      <<Ternary(c, A(ab, a), A(a, A(b, c)))>>,
      <<A(ab, a), BitOp(ab, b, "^")>>, <<A(A(sum, c), a), BitOp(sum, b, "^")>>,
      <<A(ab, b), A(a, ab)>>, <<A(a, ab), BitOp(ab, b, "^")>>}
Outputs(es) == [o \in DOMAIN es |-> Output(<<"y1", "y2">>[o], 6, TRUE, es[o])]
MCPrograms == {Outputs(es) : es \in Sums(TRUE) \cup Sums(FALSE)}
MCSettings == {[auto |-> TRUE, mult |-> "stage"], [auto |-> FALSE, mult |-> "karatsuba"]}
(* A sum of products that is an operand of a longer one and an output.     *)
SharedSum == LET inner == Add(Mul(a, c), Shared(Mul(a, b)))
             IN  <<Add(inner, Shared(Mul(b, b))), BitOp(inner, b, "^")>>
MCSharedSum == {Outputs(SharedSum)}

-----------------------------------------------------------------------------
(* What does not run rests in one of its initial states. *)
EmissionIdle ==
  /\ built = [driver |-> BoolConst(FALSE), w |-> 1, s |-> FALSE, flat |-> FALSE]
  /\ driver = built.driver
  /\ options = {} /\ simplified = FALSE
  /\ phase = "none" /\ rounds = 0 /\ emissions = 0
ReplaceIdle ==
  /\ program = <<>> /\ setting = [auto |-> FALSE, mult |-> "stage"]
  /\ heap = <<>> /\ size = 0 /\ chains = <<>> /\ at = 0
  /\ replaced = <<>> /\ consumed = {}

SimulationInit ==
  /\ MemInit /\ ReplayInit /\ Init
  /\ \/ part \in {"memory", "session", "gate"} /\ EmissionIdle /\ ReplaceIdle
     \/ part = "emission" /\ EmissionInit /\ ReplaceIdle
     \/ part = "replace" /\ ReplaceInit /\ EmissionIdle

MemoryRuns ==
  part = "memory" /\ MemNext /\ UNCHANGED <<part, replayVars, emissionVars, replaceVars, gateVars>>
SessionRuns ==
  part = "session" /\ ReplayNext /\ UNCHANGED <<part, memVars, emissionVars, replaceVars, gateVars>>
EmissionRuns ==
  part = "emission" /\ EmissionNext /\ UNCHANGED <<part, memVars, replayVars, replaceVars, gateVars>>
ReplaceRuns ==
  part = "replace" /\ ReplaceNext /\ UNCHANGED <<part, memVars, replayVars, emissionVars, gateVars>>
GateRuns ==
  part = "gate" /\ Next /\ UNCHANGED <<part, memVars, replayVars, emissionVars, replaceVars>>

SimulationSpec ==
  SimulationInit
    /\ [][MemoryRuns \/ SessionRuns \/ EmissionRuns \/ ReplaceRuns \/ GateRuns]_simulationVars
=============================================================================
