-------------------------- MODULE FsmOptimization --------------------------
(***************************************************************************)
(* optimized_fsm and optimized_encoding (optimize/fsm): one state machine  *)
(* is built, the exits of the two nested with-blocks merge its equivalent  *)
(* states and search codes for the rest, and the result runs in step with  *)
(* the machine as written.                                                 *)
(*                                                                         *)
(* Codes live in the State class, whose constants every expression shares: *)
(* changing the class changes the design.  The value a register resets to  *)
(* is not one of them: set_init copies it.                                 *)
(*                                                                         *)
(* A machine m has the states (names) 0 .. m.n - 1, one input bit, the     *)
(* next state m.next[s][v] and the output m.out[s][v] of state s when the  *)
(* bit its guards read is v, and besides these tables:                     *)
(*   encoding, start   the class's declared encoding; the state at reset   *)
(*   delayed           the states whose guards read a register that        *)
(*                     follows the input, instead of the input             *)
(*   follower          another register depends on the state               *)
(*   flag              a second output is mux(x, 1, 0)                     *)
(*   minimize, search, emit, dontCares, cost, wide                         *)
(*                     the options of the two wrappers ("none" for no      *)
(*                     search), the costs the tools report, and whether    *)
(*                     the inputs are too many to enumerate                *)
(***************************************************************************)
EXTENDS Integers, FiniteSets, FiniteSetsExt

-----------------------------------------------------------------------------
(* What is computed from the tables, with no state of its own: the codes a *)
(* State class declares, the next code and the output its mux cascade      *)
(* gives, the table extracted from them, the partition refinement, the     *)
(* weights of the adjacency screen, and the tables of the bit-level        *)
(* rewrite.  codes maps a name to its code, seen a name to the bit its     *)
(* guards read now.                                                        *)

InputBit == {0, 1}
NamesOf(m) == 0 .. m.n - 1
UsedCodes(codes) == {codes[s] : s \in DOMAIN codes}

-----------------------------------------------------------------------------
(* State.__init_subclass__: the codes and the width of a class.            *)
BitAt(i, b) == (i \div 2 ^ b) % 2
Gray(i) ==   \* i ^ (i >> 1)
  LET Term(b) == 2 ^ b * ((BitAt(i, b) + BitAt(i, b + 1)) % 2)
  IN  MapThenSumSet(Term, 0 .. i)
ClassWidth(encoding, n) ==
  IF encoding = "onehot" THEN n
  ELSE CHOOSE w \in 1 .. n : 2 ^ w >= n /\ (w = 1 \/ 2 ^ (w - 1) < n)
ClassCodes(encoding, n) ==
  [s \in 0 .. n - 1 |->
     CASE encoding = "binary" -> s
       [] encoding = "gray"   -> Gray(s)
       [] encoding = "onehot" -> 2 ^ s]

(* The cascade the case_ arms leave: of the arms whose code matches, the   *)
(* one written last is the outermost mux; where none does the register     *)
(* holds and the output has its default.                                   *)
Matching(arms, codes, r) == {s \in arms : codes[s] = r}
NextCode(m, arms, codes, r, seen) ==
  IF Matching(arms, codes, r) = {} THEN r
  ELSE LET s == Max(Matching(arms, codes, r)) IN codes[m.next[s][seen[s]]]
OutputOf(m, arms, codes, r, seen) ==
  IF Matching(arms, codes, r) = {} THEN 0
  ELSE LET s == Max(Matching(arms, codes, r)) IN m.out[s][seen[s]]

(* extract_transition_table: every used code under every input.  A guard   *)
(* that reads a register with a driver is evaluated through that driver,   *)
(* so the value of the input stands for the value the register holds.      *)
Through(m, x) == [s \in NamesOf(m) |-> x]
ExtractTable(m, arms, codes) ==
  [next |-> [r \in UsedCodes(codes) |->
               [x \in InputBit |-> NextCode(m, arms, codes, r, Through(m, x))]],
   out  |-> [r \in UsedCodes(codes) |->
               [x \in InputBit |-> OutputOf(m, arms, codes, r, Through(m, x))]]]

-----------------------------------------------------------------------------
(* minimize_fsm: codes with the same outputs share a block, and blocks     *)
(* split as long as their members lead to different blocks; every code of  *)
(* a block is replaced by the smallest one.                                *)
class_of(partition, r) == CHOOSE block \in partition : r \in block
InitialPartition(t) ==
  {{q \in DOMAIN t.out : t.out[q] = t.out[r]} : r \in DOMAIN t.out}
(* The members of r's block whose next states' blocks are those of r. *)
Signature(t, partition, r) ==
  {q \in class_of(partition, r) :
     \A x \in InputBit :
       class_of(partition, t.next[q][x]) = class_of(partition, t.next[r][x])}
NewPartition(t, partition) == {Signature(t, partition, r) : r \in DOMAIN t.out}
(* The partition after so many rounds. *)
Partitions(t) ==
  LET after[i \in 0 .. Cardinality(DOMAIN t.out)] ==
        IF i = 0 THEN InitialPartition(t) ELSE NewPartition(t, after[i - 1])
  IN  after
(* Fault: refinement is given up after one round. *)
SplitsOnce(t) == 1
(* The loop ends with a round that splits nothing. *)
LastRound(t) ==
  CHOOSE i \in 0 .. Cardinality(DOMAIN t.out) :
    NewPartition(t, Partitions(t)[i]) = Partitions(t)[i]

MinimizeFsm(t) ==
  LET partition == Partitions(t)[LastRound(t)]
  IN  [r \in DOMAIN t.out |-> Min(class_of(partition, r))]

-----------------------------------------------------------------------------
(* _perm_count with its early exit: it only matters whether the count is   *)
(* above the cap.                                                          *)
PermCount(universe, groups, cap) ==
  LET count[k \in 0 .. groups] ==
        IF k = 0 THEN 1
        ELSE IF count[k - 1] > cap THEN count[k - 1]
        ELSE count[k - 1] * (universe - k + 1)
  IN  count[groups]

(* _adjacency_weights and _screen_cost: how much two states have in        *)
(* common, the output under the first input combination and the next       *)
(* states under all, weighs the Hamming distance of their codes.           *)
Hamming(a, b) == Cardinality({i \in 0 .. 7 : BitAt(a, i) # BitAt(b, i)})
Weight(t, a, b) ==
  (IF t.out[a][0] = t.out[b][0] THEN 1 ELSE 0)
    + Cardinality({x \in InputBit : t.next[a][x] = t.next[b][x]})
ScreenCost(t, codes, trial) ==
  LET Term(p) == Weight(t, codes[p[1]], codes[p[2]])
                   * Hamming(trial[p[1]], trial[p[2]])
  IN  MapThenSumSet(Term, {p \in (DOMAIN codes) \X (DOMAIN codes) : p[1] < p[2]})

-----------------------------------------------------------------------------
(* minimize_fsm_logic: the functions of the register's bits and the inputs *)
(* the minimiser is free to return.  Used codes are as extracted; the      *)
(* others are 0, or anything if they are given as don't-cares.             *)
LogicNext(t, w, dontCares, r, x) ==
  IF r \in DOMAIN t.next THEN {t.next[r][x]}
  ELSE IF dontCares THEN 0 .. 2 ^ w - 1 ELSE {0}
LogicOutputs(t, dontCares, r, x) ==
  IF r \in DOMAIN t.out THEN {t.out[r][x]}
  ELSE IF dontCares THEN InputBit ELSE {0}

-----------------------------------------------------------------------------

CONSTANTS
  Machines,          \* the machines and options
  ExhaustiveBudget,  \* how many encodings are tried one by one (5040)
  TopK,              \* how many screened encodings are measured (64)
  SwapIters,         \* swaps per restart (200)
  SwapRestarts,      \* restarts of the swap search (4)
  Rejected           \* the cost of an encoding that fails (inf)

(* A machine: a state class gives every name a code of its own, and Gray   *)
(* codes differ, which are facts of arithmetic the provers do not have.    *)
IsMachine(m) ==
  /\ m.n \in Nat \ {0} /\ m.start \in NamesOf(m)
  /\ m.next \in [NamesOf(m) -> [InputBit -> NamesOf(m)]]
  /\ m.out \in [NamesOf(m) -> [InputBit -> InputBit]]
  /\ m.search \in {"none", "predefined", "exhaustive", "swap", "adjacency", "auto"}
  /\ m.cost \in {"distance", "partial", "fails"}
  /\ ClassCodes(m.encoding, m.n) \in [NamesOf(m) -> Nat]
  /\ \A s, t \in NamesOf(m) :
       /\ ClassCodes(m.encoding, m.n)[s] = ClassCodes(m.encoding, m.n)[t] => s = t
       /\ Gray(s) \in Nat /\ (Gray(s) = Gray(t) => s = t)

ASSUME FsmAssumption ==
  /\ \A m \in Machines : IsMachine(m)
  /\ ExhaustiveBudget \in Nat /\ TopK \in Nat \ {0} /\ SwapIters \in Nat
  /\ SwapRestarts \in Nat \ {0} /\ Rejected \in Nat

VARIABLES
  machine,      \* the machine and the options, fixed
  codes,        \* State._values
  arms,         \* the arms left in the cascades
  emitted,      \* the tables of the bit-level rewrite, <<>> before it
  fused,        \* the flag's mux and the first arm's mux are one node
  fsmPhase,     \* how far the exits are
  trial,        \* the encoding a search is at: codes per group
  trialCost,    \* what the search holds for its cost
  found,        \* the best encoding so far and its cost
  restarts, swaps,          \* counters of the swap search
  cheapest,     \* history: the least cost measured
  golden, register, delay   \* the machine as written; the design; its delay

fsmVars == <<machine, codes, arms, emitted, fused, fsmPhase, trial, trialCost,
             found, restarts, swaps, cheapest, golden, register, delay>>
designVars == <<machine, codes, arms, emitted>>
runVars    == <<golden, register, delay>>
searchVars == <<trial, trialCost, found, restarts, swaps, cheapest>>

BitsOfClass(m) == ClassWidth(m.encoding, m.n)
CodeSpace(m) == 0 .. 2 ^ BitsOfClass(m) - 1
Declared(m) == ClassCodes(m.encoding, m.n)
ResetCode   == Declared(machine)[machine.start]

(* _equivalence_groups: names that share a code, by their first name. *)
GroupsOf(c) == {Min({t \in DOMAIN c : c[t] = c[s]}) : s \in DOMAIN c}
GroupOf(c, s) == Min({t \in DOMAIN c : c[t] = c[s]})
Merged == Cardinality(GroupsOf(codes)) < machine.n
(* Fault: the names are searched one by one, whatever was merged. *)
ExpandAlone(c, g) ==
  [s \in DOMAIN c |-> IF s \in DOMAIN g THEN g[s]
                      ELSE Min((0 .. Cardinality(DOMAIN c)) \ {g[a] : a \in DOMAIN g})]
(* expand: every name gets the code of its group. *)
Expand(c, g) == [s \in DOMAIN c |-> g[GroupOf(c, s)]]
Injective(g) == \A a, b \in DOMAIN g : g[a] = g[b] => a = b
Encodings == {g \in [GroupsOf(codes) -> CodeSpace(machine)] : Injective(g)}

-----------------------------------------------------------------------------
(* find_state_register fails when another register depends on the state,   *)
(* extract_transition_table when the inputs are too many.                  *)
Extractable(m) == ~m.follower /\ ~m.wide

(* What the synthesis tools report (external), and what make_cost_fn makes *)
(* of it: a cost of an emission that fails is infinite.                    *)
TotalDistance(m, a) ==
  LET upto[k \in 0 .. m.n] ==
        IF k = 0 THEN 0
        ELSE upto[k - 1] + Hamming(a[k - 1], a[m.next[k - 1][0]])
                         + Hamming(a[k - 1], a[m.next[k - 1][1]])
  IN  upto[m.n]
ToolCost(m, a) ==
  CASE m.cost = "distance" -> TotalDistance(m, a)
    [] m.cost = "partial"  -> IF a[0] = 0 THEN Rejected ELSE a[m.n - 1]
    [] m.cost = "fails"    -> Rejected
MeasuredCost(m, a) ==
  IF m.emit /\ ~Extractable(m) THEN Rejected ELSE ToolCost(m, a)
(* The cost of the codes per group g, and of the codes as they are. *)
CostOf(g) == MeasuredCost(machine, Expand(codes, g))
CommittedCost == MeasuredCost(machine, codes)

(* Measuring emits the design under the trial codes, and structural        *)
(* sharing rewrites it for good: muxes that are equal under these codes    *)
(* become one.  A cone is built afresh and leaves the design alone.        *)
Fuses(a) ==
  /\ machine.flag /\ ~machine.emit
  /\ a[machine.next[0][1]] = 1 /\ a[machine.next[0][0]] = 0

(* A search keeps the first of the cheapest it lists; any of them here.    *)
CheapestOf(S) ==
  LET priced == {<<CostOf(g), g>> : g \in S}
      least  == Min({p[1] : p \in priced})
  IN  {p[2] : p \in {q \in priced : q[1] = least}}

(* The candidates of search="predefined", and the screen of "adjacency".   *)
Rank(a) == Cardinality({b \in GroupsOf(codes) : b < a})
BinaryCodes == [a \in GroupsOf(codes) |-> Rank(a)]
GrayCodes   == [a \in GroupsOf(codes) |-> Gray(Rank(a))]
OrderKey(g) ==   \* the place of an encoding in itertools.permutations
  LET Term(a) == g[a] * (2 ^ BitsOfClass(machine)) ^ (machine.n - 1 - a)
  IN  MapThenSumSet(Term, DOMAIN g)
Screened ==
  LET table  == ExtractTable(machine, arms, codes)
      Key(g) == ScreenCost(table, codes, Expand(codes, g)) * 4096 + OrderKey(g)
      scored == {<<Key(g), g>> : g \in Encodings}
      last   == Min({k \in {p[1] : p \in scored} :
                       Cardinality({p \in scored : p[1] <= k}) >= Min({TopK, Cardinality(scored)})})
  IN  {p[2] : p \in {q \in scored : q[1] <= last}}

(* The strategy that really runs: the ladder of "auto", and what replaces  *)
(* "adjacency" when states were merged or there is no table.               *)
GroupCount == Cardinality(GroupsOf(codes))
ListedInFull ==
  PermCount(2 ^ BitsOfClass(machine), GroupCount, ExhaustiveBudget) <= ExhaustiveBudget
Strategy ==
  CASE machine.search = "auto" ->
         IF ~Merged /\ machine.n <= 2 THEN "predefined"
         ELSE IF ListedInFull THEN "exhaustive" ELSE "swap"
    [] machine.search = "adjacency" ->
         IF Merged \/ ~Extractable(machine)
            \/ \A g \in Screened : CostOf(g) >= Rejected
         THEN "swap" ELSE "adjacency"
    [] OTHER -> machine.search
Candidates ==
  CASE Strategy = "predefined" -> {BinaryCodes, GrayCodes}
    [] Strategy = "exhaustive" -> Encodings
    [] Strategy = "adjacency"  -> Screened

-----------------------------------------------------------------------------
NoSearch == [trial |-> <<>>, cost |-> Rejected]

FsmStarts ==
  /\ codes = Declared(machine) /\ arms = NamesOf(machine)
  /\ emitted = <<>> /\ fused = FALSE
  /\ fsmPhase = "built"
  /\ trial = <<>> /\ trialCost = Rejected /\ found = NoSearch
  /\ restarts = 0 /\ swaps = 0 /\ cheapest = -1
  /\ golden = machine.start /\ register = ResetCode /\ delay = 0
FsmInit == machine \in Machines /\ FsmStarts

(* optimized_fsm.__exit__: equivalent states get one code, and             *)
(* apply_simplify drops the arms an outer one of the same code shadows.    *)
ExitFsm ==
  /\ fsmPhase = "built" /\ fsmPhase' = "merged"
  /\ LET canon == MinimizeFsm(ExtractTable(machine, arms, codes))
         after == [s \in DOMAIN codes |-> canon[codes[s]]]
     IN  IF ~machine.minimize \/ machine.wide \/ after = codes
         THEN UNCHANGED <<codes, arms>>
         ELSE /\ codes' = after
              /\ arms' = {s \in arms : s = Max(Matching(arms, after, after[s]))}
  /\ UNCHANGED <<machine, emitted, fused, searchVars, runVars>>

(* optimized_encoding.__exit__ with nothing to do. *)
NoEncoding ==
  /\ fsmPhase = "merged" /\ machine.search = "none"
  /\ fsmPhase' = "ready"
  /\ UNCHANGED <<designVars, fused, searchVars, runVars>>

(* A strategy that lists its candidates: all are measured, the first of    *)
(* the cheapest is applied for good.                                       *)
SearchListed ==
  /\ fsmPhase = "merged" /\ machine.search # "none" /\ Strategy # "swap"
  /\ \E g \in CheapestOf(Candidates) : codes' = Expand(codes, g)
  /\ cheapest' = Min({CostOf(g) : g \in Candidates})
  /\ fused' = (fused \/ \E g \in Candidates : Fuses(Expand(codes, g)))
  /\ fsmPhase' = "committed"
  /\ UNCHANGED <<machine, arms, emitted, trial, trialCost, found, restarts,
                 swaps, runVars>>

(* Each restart of the swap search samples an encoding of its own. *)
Note(c) == cheapest' = IF cheapest < 0 \/ c < cheapest THEN c ELSE cheapest
SwapRestart ==
  /\ fsmPhase = "merged" /\ machine.search # "none" /\ Strategy = "swap"
  /\ restarts < SwapRestarts
  /\ \E g \in Encodings :
       /\ trial' = g
       /\ trialCost' = CostOf(g)
       /\ fused' = (fused \/ Fuses(Expand(codes, g)))
       /\ Note(CostOf(g))
  /\ swaps' = 0
  /\ fsmPhase' = IF GroupCount < 2 THEN "ready" ELSE "swapping"  \* no pair: ValueError
  /\ UNCHANGED <<designVars, found, restarts, runVars>>

(* Two codes change places; what is not cheaper is taken back. *)
Swapped(g, a, b) == [g EXCEPT ![a] = g[b], ![b] = g[a]]
KeepsWorse(g, s) == s
Accepted(g, s) == IF CostOf(s) < trialCost THEN s ELSE g
SwapStep ==
  /\ fsmPhase = "swapping" /\ swaps < SwapIters
  /\ \E a, b \in DOMAIN trial :
       /\ a # b
       /\ LET s == Swapped(trial, a, b)
              c == CostOf(s)
          IN  /\ trial' = Accepted(trial, s)
              /\ trialCost' = IF c < trialCost THEN c ELSE trialCost
              /\ fused' = (fused \/ Fuses(Expand(codes, s)))
              /\ Note(c)
  /\ swaps' = swaps + 1
  /\ UNCHANGED <<designVars, fsmPhase, found, restarts, runVars>>

SwapEnd ==
  /\ fsmPhase = "swapping" /\ swaps = SwapIters
  /\ found' = IF restarts = 0 \/ trialCost < found.cost
              THEN [trial |-> trial, cost |-> trialCost] ELSE found
  /\ restarts' = restarts + 1
  /\ fsmPhase' = "merged"
  /\ UNCHANGED <<designVars, fused, trial, trialCost, swaps, cheapest, runVars>>

SwapCommit ==
  /\ fsmPhase = "merged" /\ restarts > 0 /\ restarts = SwapRestarts
  /\ codes' = Expand(codes, found.trial)
  /\ fsmPhase' = "committed"
  /\ trial' = <<>> /\ trialCost' = Rejected /\ found' = NoSearch
  /\ restarts' = 0 /\ swaps' = 0
  /\ UNCHANGED <<machine, arms, emitted, fused, cheapest, runVars>>

(* minimize_and_rewrite: the register and the output are driven by tables  *)
(* of the committed codes.  Where it raises, the codes stay committed.     *)
EmitBits ==
  /\ fsmPhase = "committed"
  /\ emitted' = IF machine.emit /\ Extractable(machine)
                THEN ExtractTable(machine, arms, codes) ELSE <<>>
  /\ fsmPhase' = "ready" /\ cheapest' = -1
  /\ UNCHANGED <<machine, codes, arms, fused, trial, trialCost, found, restarts,
                 swaps, runVars>>

-----------------------------------------------------------------------------
(* The optimized design beside the machine as written. *)
ResetBoth ==
  /\ fsmPhase \in {"ready", "run"}
  /\ golden' = machine.start /\ register' = ResetCode /\ delay' = 0
  /\ fsmPhase' = "run"
  /\ UNCHANGED <<designVars, fused, searchVars>>

Seen(x) ==
  [s \in NamesOf(machine) |-> IF s \in machine.delayed THEN delay ELSE x]
RegisterNext(x) ==
  IF emitted = <<>> THEN {NextCode(machine, arms, codes, register, Seen(x))}
  ELSE LogicNext(emitted, BitsOfClass(machine), machine.dontCares, register, x)
OutputsNow(x) ==
  IF emitted = <<>> THEN {OutputOf(machine, arms, codes, register, Seen(x))}
  ELSE LogicOutputs(emitted, machine.dontCares, register, x)
FlagNow(x) == IF fused THEN codes[machine.next[0][x]] ELSE x

ClockBoth ==
  /\ fsmPhase = "run"
  /\ \E x \in InputBit :
       /\ golden' = machine.next[golden][Seen(x)[golden]]
       /\ register' \in RegisterNext(x)
       /\ delay' = x
  /\ UNCHANGED <<designVars, fsmPhase, fused, searchVars>>

FsmNext ==
  \/ ExitFsm \/ NoEncoding \/ SearchListed
  \/ SwapRestart \/ SwapStep \/ SwapEnd \/ SwapCommit
  \/ EmitBits \/ ResetBoth \/ ClockBoth

FsmSpec == FsmInit /\ [][FsmNext]_fsmVars

-----------------------------------------------------------------------------
(* The optimized design has the outputs of the machine as written, cycle   *)
(* by cycle and whatever the input, provided the reset value is still the  *)
(* code of the reset state.                                                *)
OutputsAgree ==
  \A x \in InputBit : OutputsNow(x) = {machine.out[golden][Seen(x)[golden]]}
BehaviourKept ==
  fsmPhase = "run" /\ codes[machine.start] = ResetCode => OutputsAgree

(* After all passes two states share a code exactly if minimization ran    *)
(* and no input sequence tells them apart: merging is exact, and the       *)
(* search neither spreads what was merged nor merges anything itself.      *)
Equivalent(m) ==   \* pairs of states that agree for any m.n inputs
  LET agree[k \in 0 .. m.n] ==
        {p \in NamesOf(m) \X NamesOf(m) :
           /\ m.out[p[1]] = m.out[p[2]]
           /\ k > 0 => \A x \in InputBit :
                         <<m.next[p[1]][x], m.next[p[2]][x]>> \in agree[k - 1]}
  IN  agree[m.n]
SharesExactlyEquivalent ==
  fsmPhase = "ready" =>
    \A s, t \in NamesOf(machine) :
      codes[s] = codes[t] <=>
        \/ s = t
        \/ machine.minimize /\ ~machine.wide /\ <<s, t>> \in Equivalent(machine)

(* What is applied for good costs no more than anything a search measured, *)
(* restarts and rejected swaps included.                                   *)
CheapestCommitted ==
  fsmPhase = "committed" => CommittedCost = cheapest

(* README_fsm_optimization.md: the search changes codes and nothing else,  *)
(* so a reset still enters the state declared, whatever its code is now.   *)
ResetEntersStart == fsmPhase = "run" => OutputsAgree

(* A second output that no state drives stays what it was. *)
FlagKept == fsmPhase = "run" => \A x \in InputBit : FlagNow(x) = x
=============================================================================
