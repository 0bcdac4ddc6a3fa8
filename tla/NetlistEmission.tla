--------------------------- MODULE NetlistEmission ---------------------------
(***************************************************************************)
(* Emitting a netlist of one output: to_verilog rewrites the drivers in    *)
(* place, pass by pass, and prints what is left.  Simplification repeats   *)
(* until nothing changes, at most MaxPasses times; balancing, sharing of   *)
(* common subexpressions and width isolation run once.  The netlist can be *)
(* emitted again, with other options, after the passes changed it.         *)
(***************************************************************************)
EXTENDS VerilogText, AigerBlasting, Simplification

CONSTANTS
  Designs,        \* [driver, w, s, flat]: the output's driver and type
  MaxPasses,      \* rounds of simplification
  BalanceMin,     \* size from which a cascade is balanced
  OptionSets,     \* the sets of passes asked for
  MaxEmissions    \* bound: emissions of one netlist

ASSUME EmissionAssumption ==
  /\ MaxPasses \in Nat /\ MaxEmissions \in Nat
  /\ BalanceMin \in Nat
  /\ OptionSets \subseteq SUBSET {"simplify", "balance", "cse"}

VARIABLES
  built,          \* the netlist as constructed
  driver,         \* the driver of its output now
  options,        \* the passes asked for: a subset of {"simplify", "balance", "cse"}
  simplified,     \* some emission so far simplified
  phase, rounds, emissions
emissionVars == <<built, driver, options, simplified, phase, rounds, emissions>>

-----------------------------------------------------------------------------
(* Structural sharing: drivers in the order they are met, and their        *)
(* compound nodes.                                                         *)
RECURSIVE Drivers(_), Compounds(_), WiresIn(_)
WiresIn(e) == IF e.op = "auto" THEN <<e>>
              ELSE FoldLeft(LAMBDA r, x : r \o WiresIn(x), <<>>, e.kids)
Drivers(e) ==
  FoldLeft(LAMBDA r, x : r \o Drivers(x.kids[1]), <<e>>, WiresIn(e))
Compounds(e) == IF Leaf(e) THEN <<>>
                ELSE FoldLeft(LAMBDA r, x : r \o Compounds(x), <<>>, e.kids) \o <<e>>

RECURSIVE CseKey(_)
CseKey(e) ==
  IF Leaf(e) THEN [e |-> e, keys |-> <<>>, pair |-> {}]
  ELSE LET keys == [i \in DOMAIN e.kids |-> CseKey(e.kids[i])]
           free == e.op \in Symmetric
       IN [e |-> [e EXCEPT !.kids = <<>>, !.w = IF e.op = "cat" THEN 0 ELSE e.w],
           keys |-> IF free THEN <<>> ELSE keys,
           pair |-> IF free THEN {keys[1], keys[2]} ELSE {}]

AllDrivers(e) == FoldLeft(LAMBDA r, d : IF Contains(r, d) THEN r ELSE Append(r, d),
                          <<>>, Drivers(e))
(* The classes with several members, each by its first. *)
SharedNodes(e) ==
  LET all == FoldLeft(LAMBDA r, d : r \o Compounds(d), <<>>, AllDrivers(e))
      keys == [i \in DOMAIN all |-> CseKey(all[i])]
      Count(i) == Cardinality({j \in DOMAIN all : keys[j] = keys[i]})
  IN {<<keys[i], all[i]>> :
        i \in {i \in DOMAIN all : Count(i) > 1 /\ \A j \in 1..(i - 1) : keys[j] # keys[i]}}

RECURSIVE Redirected(_, _)
WithRedirected(e, shared) ==
  [e EXCEPT !.kids = [i \in DOMAIN e.kids |-> Redirected(e.kids[i], shared)]]
Redirected(e, shared) ==
  IF Leaf(e) THEN WithRedirected(e, shared)
  ELSE LET mine == {p \in shared : p[1] = CseKey(e)} IN
       IF mine = {} THEN WithRedirected(e, shared)
       ELSE Auto(WithRedirected((CHOOSE p \in mine : TRUE)[2], shared))
StructuralCse(e) ==
  LET shared == SharedNodes(e) IN IF shared = {} THEN e ELSE Redirected(e, shared)

-----------------------------------------------------------------------------
(* Width isolation: an operand stays inline only where its context is one  *)
(* bit wide or self-determined and it is plain one-bit logic.              *)
BoolOps == {"&", "|", "^", "nand"}
RECURSIVE FlatSafe(_)
FlatSafe(e) ==
  \/ Leaf(e)
  \/ /\ e.w = 1 /\ ~e.s
     /\ \/ /\ e.op \in BoolOps \cup {"==", "!=", "~", "mux"}
           /\ \A i \in DOMAIN e.kids : e.kids[i].w = 1 /\ FlatSafe(e.kids[i])
        \/ e.op = "slice" /\ Leaf(e.kids[1])
(* fault: one-bit logic stays inline whatever the width around it *)
InlineEverywhere(e, i) == FlatSafe(e.kids[i])
InlineOk(e, i) ==
  /\ FlatSafe(e.kids[i])
  /\ \/ e.op \in BoolOps \cup {"~"} /\ e.w = 1
     \/ e.op \in {"==", "!="} /\ e.kids[1].w = 1 /\ e.kids[2].w = 1
     \/ e.op = "mux" /\ (i = 1 \/ e.w = 1)
     \/ e.op \in {"cat", "resize"}

RECURSIVE Isolated(_)
Isolated(e) ==
  LET r == [e EXCEPT !.kids = [i \in DOMAIN e.kids |-> Isolated(e.kids[i])]]
  IN IF Leaf(e) THEN r
     ELSE [r EXCEPT !.kids = [i \in DOMAIN e.kids |->
            IF Leaf(r.kids[i]) \/ InlineOk(r, i) THEN r.kids[i] ELSE Auto(r.kids[i])]]

-----------------------------------------------------------------------------
RECURSIVE Raised(_)
Raised(e) == e.op = "raised" \/ \E i \in DOMAIN e.kids : Raised(e.kids[i])

EmissionInit ==
  /\ built \in Designs
  /\ driver = FitWidth(built.driver, built.w)
  /\ options = {} /\ simplified = FALSE
  /\ phase = "built" /\ rounds = 0 /\ emissions = 0

(* to_verilog is called. *)
Emit(o) ==
  /\ phase \in {"built", "emitted"} /\ emissions < MaxEmissions
  /\ options' = o
  /\ simplified' = (simplified \/ "simplify" \in o)
  /\ phase' = "simplify" /\ rounds' = 0 /\ emissions' = emissions + 1
  /\ UNCHANGED <<built, driver>>

SimplifyRound ==
  /\ phase = "simplify" /\ "simplify" \in options /\ rounds < MaxPasses
  /\ LET d == SimplifiedOnce(driver) IN
     /\ driver' = d
     /\ phase' = CASE Raised(d) -> "raised"
                   [] ~Raised(d) /\ d = driver -> "balance"
                   [] OTHER -> "simplify"
  /\ rounds' = rounds + 1
  /\ UNCHANGED <<built, options, simplified, emissions>>
SkipSimplify ==
  /\ phase = "simplify" /\ ("simplify" \notin options \/ rounds = MaxPasses)
  /\ phase' = "balance"
  /\ UNCHANGED <<built, driver, options, simplified, rounds, emissions>>

Balance ==
  /\ phase = "balance"
  /\ driver' = IF "balance" \in options /\ BalanceMin >= 4
               THEN Balanced(driver, BalanceMin) ELSE driver
  /\ phase' = "cse"
  /\ UNCHANGED <<built, options, simplified, rounds, emissions>>
Share ==
  /\ phase = "cse"
  /\ driver' = IF "cse" \in options THEN StructuralCse(driver) ELSE driver
  /\ phase' = "isolate"
  /\ UNCHANGED <<built, options, simplified, rounds, emissions>>
Isolate ==
  /\ phase = "isolate"
  /\ driver' = Isolated(driver)
  /\ phase' = "emitted"
  /\ UNCHANGED <<built, options, simplified, rounds, emissions>>

EmissionNext ==
  \/ \E o \in OptionSets : Emit(o)
  \/ SimplifyRound \/ SkipSimplify \/ Balance \/ Share \/ Isolate
EmissionSpec == EmissionInit /\ [][EmissionNext]_emissionVars

-----------------------------------------------------------------------------
RECURSIVE Unsigned(_)
Unsigned(e) == ~e.s /\ \A i \in DOMAIN e.kids : Unsigned(e.kids[i])
(* Simplification is for unsigned netlists built with shared operands.     *)
Conforming == simplified => ~built.flat /\ ~built.s /\ Unsigned(built.driver)
Inputs == Range(Valuations)
Meant(v) == SimAssigned(built.driver, built.w, v)

(* The passes change the structure of a netlist, never the value of its    *)
(* output: at every point of any sequence of emissions the simulator still *)
(* computes what the design as constructed means.                          *)
MeaningKept ==
  Conforming => /\ phase # "raised"
                /\ \A v \in Inputs : SimAssigned(driver, built.w, v) = Meant(v)

(* The text means what was simulated: by IEEE 1364's sizing rules, every   *)
(* assignment of the emitted module gives the simulator's value, and every *)
(* select in it has a named base.                                          *)
EmittedMeansSimulated ==
  phase = "emitted" /\ Conforming =>
    /\ \A i \in DOMAIN Drivers(driver) : Legal(Emitted(Drivers(driver)[i]))
    /\ \A v \in Inputs : AssignValue(driver, built.w, v) = Meant(v)

(* The AIGER export computes what the simulator computes, on the netlist   *)
(* as built and on the one an emission has rewritten.                      *)
AigerAgrees ==
  phase \in {"built", "emitted"} /\ Conforming =>
    \A bits \in {PortBits(driver, built.w, built.s)} :
      \A n \in All : NumberAt(bits, n) = Meant(Valuations[n])
=============================================================================
