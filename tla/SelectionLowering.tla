------------------------- MODULE SelectionLowering -------------------------
(***************************************************************************)
(* What selections are analysed and lowered with, operators without state  *)
(* of their own.                                                           *)
(*                                                                         *)
(* The syntactic analysis of conditions: _classify_sel, the                *)
(* DisjointnessTracker and analyze_chain of selection_analysis.py.  A      *)
(* condition is kept as the points at which it holds (what the hardware    *)
(* will compute) together with the class the analysis reads off its        *)
(* syntax.  Both follow the operators &, | and ~; that the class never     *)
(* claims more than the points bear out is what the claims rest on.        *)
(*                                                                         *)
(* The rewrites of selection_emission.py: what a priority cascade becomes  *)
(* under each emission mode, which mode "auto" picks, and when a mode that *)
(* was asked for is refused.  The AND-OR network of "onehot" is modelled   *)
(* bit by bit: it delivers the union of the bits of every value whose mask *)
(* is on, which is the value of an arm only if no two masks are ever on    *)
(* together.                                                               *)
(***************************************************************************)
EXTENDS Naturals, Sequences

CONSTANTS
  Point,     \* the valuations of the signals a condition may read
  Selector,  \* the expressions that conditions compare with constants
  Read,      \* Read[s][p]: the value of selector s at point p
  None       \* no selector

ASSUME AnalysisAssumption ==
  /\ Read \in [Selector -> [Point -> Nat]]
  /\ None \notin Selector

(* The lattice of classes. *)
Zero   == [kind |-> "zero", sel |-> None, labels |-> {}]
One    == [kind |-> "one", sel |-> None, labels |-> {}]
Opaque == [kind |-> "opaque", sel |-> None, labels |-> {}]
Consts(s, labels)     == [kind |-> "consts", sel |-> s, labels |-> labels]
Complement(s, labels) == [kind |-> "complement", sel |-> s, labels |-> labels]

Kind  == {"zero", "one", "opaque", "consts", "complement"}
Class == [kind : Kind, sel : Selector \cup {None}, labels : SUBSET Nat]

Condition == [on : SUBSET Point, class : Class]

NonEmpty(s, labels) == IF labels = {} THEN Zero ELSE Consts(s, labels)

NotClass(a) ==
  IF a.kind = "consts" THEN Complement(a.sel, a.labels)
  ELSE IF a.kind = "complement" THEN Consts(a.sel, a.labels)
  ELSE IF a.kind = "zero" THEN One
  ELSE IF a.kind = "one" THEN Zero
  ELSE Opaque

OrClass(a, b) ==
  IF a.kind = "one" \/ b.kind = "one" THEN One
  ELSE IF a.kind = "zero" THEN b
  ELSE IF b.kind = "zero" THEN a
  ELSE IF a.kind = "consts" /\ b.kind = "consts" /\ a.sel = b.sel
       THEN Consts(a.sel, a.labels \cup b.labels)
  ELSE Opaque

AndClass(a, b) ==
  IF a.kind = "zero" \/ b.kind = "zero" THEN Zero
  ELSE IF a.kind = "one" THEN b
  ELSE IF b.kind = "one" THEN a
  ELSE IF a.sel # b.sel \/ a.kind = "opaque" \/ b.kind = "opaque" THEN Opaque
  ELSE IF a.kind = "consts" /\ b.kind = "consts"
       THEN NonEmpty(a.sel, a.labels \cap b.labels)
  ELSE IF a.kind = "consts" THEN NonEmpty(a.sel, a.labels \ b.labels)
  ELSE IF b.kind = "consts" THEN NonEmpty(a.sel, b.labels \ a.labels)
  ELSE Complement(a.sel, a.labels \cup b.labels)

-----------------------------------------------------------------------------
(* Conditions and the operators that build them. *)

FalseConst == [on |-> {}, class |-> Zero]
TrueConst  == [on |-> Point, class |-> One]

At(s, labels) == {p \in Point : Read[s][p] \in labels}

EqConst(s, c) == [on |-> At(s, {c}), class |-> Consts(s, {c})]
OpaqueCondition(on) == [on |-> on, class |-> Opaque]

(* What a class says of a condition is so.                                 *)
BornOut(c) ==
  /\ c.class.kind = "consts" =>
       c.class.sel \in Selector /\ c.on = At(c.class.sel, c.class.labels)
  /\ c.class.kind = "complement" =>
       c.class.sel \in Selector /\ c.on = Point \ At(c.class.sel, c.class.labels)
  /\ c.class.kind = "zero" => c.on = {}
  /\ c.class.kind = "one" => c.on = Point

NotCond(a)    == [on |-> Point \ a.on, class |-> NotClass(a.class)]
OrCond(a, b)  == [on |-> a.on \cup b.on, class |-> OrClass(a.class, b.class)]
AndCond(a, b) == [on |-> a.on \cap b.on, class |-> AndClass(a.class, b.class)]

-----------------------------------------------------------------------------
(* DisjointnessTracker *)

Tracker == [trackable : BOOLEAN, sel : Selector \cup {None}, seen : SUBSET Nat]
NewTracker == [trackable |-> TRUE, sel |-> None, seen |-> {}]

Tracks(t, c) == /\ t.trackable
                /\ c.class.kind = "consts"
                /\ t.sel \in {None, c.class.sel}

(* claim(cond): whether cond is provably disjoint from every earlier arm. *)
Claims(t, c) == Tracks(t, c) /\ c.class.labels \cap t.seen = {}

(* What the tracker knows after claim(cond). *)
AfterClaim(t, c) ==
  IF Tracks(t, c) THEN [trackable |-> TRUE, sel |-> c.class.sel,
                        seen |-> t.seen \cup c.class.labels]
  ELSE [t EXCEPT !.trackable = FALSE]

-----------------------------------------------------------------------------
(***************************************************************************)
(* A driver is the priority cascade collect_chain reads off an expression: *)
(* the arms, first match first, and the tail.  A value gives a member of   *)
(* SUBSET Nat, read as bits, at each point.                                *)
(***************************************************************************)
Arms(pairs, kind) == {i \in DOMAIN pairs : pairs[i].sel.class.kind = kind}
LabelsOf(pairs, i) == pairs[i].sel.class.labels
LabelsOfAll(pairs) == UNION {LabelsOf(pairs, i) : i \in Arms(pairs, "consts")}

SameSelector(pairs) ==
  \A i, j \in DOMAIN pairs : pairs[i].sel.class.sel = pairs[j].sel.class.sel

(* analyze_chain(...).disjoint: every arm compares one selector with its   *)
(* own constants, but for one that takes exactly what the others leave.    *)
Disjoint(pairs) ==
  /\ pairs # <<>>
  /\ Arms(pairs, "consts") \cup Arms(pairs, "complement") = DOMAIN pairs
  /\ SameSelector(pairs)
  /\ \A i, j \in Arms(pairs, "complement") : i = j
  /\ \A i, j \in Arms(pairs, "consts") :
       i # j => LabelsOf(pairs, i) \cap LabelsOf(pairs, j) = {}
  /\ \A i \in Arms(pairs, "complement") : LabelsOf(pairs, i) = LabelsOfAll(pairs)

-----------------------------------------------------------------------------
CONSTANTS
  Width,         \* Width[s]: the bits of selector s
  OneHotMin,     \* SelectionEmissionConfig.onehot_min_n
  TournamentMin, \* SelectionEmissionConfig.tournament_min_n
  MaxSelBits     \* SelectionEmissionConfig.bittree_max_sel_bits

ASSUME EmissionAssumption ==
  /\ Width \in [Selector -> Nat \ {0}]
  /\ \A s \in Selector, p \in Point : Read[s][p] < 2 ^ Width[s]
  /\ {OneHotMin, TournamentMin, MaxSelBits} \subseteq Nat

(* Arithmetic the provers do not know, and TLC evaluates. *)
ASSUME PowerAssumption ==
  \A s \in Selector : \A b \in 0..Width[s] - 1 :
    2 ^ b \in Nat \ {0} /\ 2 ^ (b + 1) = 2 * 2 ^ b

Mode == {"chain", "tournament", "onehot", "bittree", "auto"}

Arm(sel, val) == [sel |-> sel, val |-> val]
Driver(pairs, tail) == [pairs |-> pairs, tail |-> tail]
Always(v) == [p \in Point |-> v]

Muxed(sel, a, b) == [p \in Point |-> IF p \in sel.on THEN a[p] ELSE b[p]]

(* mux(cond, value, driver): the new arm heads the cascade. *)
Mux(cond, val, d) == Driver(<<Arm(cond, val)>> \o d.pairs, d.tail)

(* What the cascade delivers at p: the first arm that matches, or the tail. *)
Delivers(d, p) ==
  LET matching == {i \in DOMAIN d.pairs : p \in d.pairs[i].sel.on}
  IN IF matching = {} THEN d.tail[p]
     ELSE d.pairs[CHOOSE i \in matching : \A j \in matching : i <= j].val[p]

-----------------------------------------------------------------------------
(* build_tournament: neighbours are merged, round after round. *)

Merged(l, r) == Arm(OrCond(l.sel, r.sel), Muxed(l.sel, l.val, r.val))

MergeRound(items) ==
  [i \in 1..((Len(items) + 1) \div 2) |->
     IF 2 * i > Len(items) THEN items[2 * i - 1]
     ELSE Merged(items[2 * i - 1], items[2 * i])]

Tournament(d) ==
  LET round[n \in 0..Len(d.pairs)] ==
        IF n = 0 THEN d.pairs ELSE MergeRound(round[n - 1])
  IN Driver(<<round[Len(d.pairs)][1]>>, d.tail)

-----------------------------------------------------------------------------
(* What the complement arm delivers, or the tail of a cascade without one. *)
Fallback(d) ==
  IF Arms(d.pairs, "complement") = {} THEN d.tail
  ELSE d.pairs[CHOOSE i \in Arms(d.pairs, "complement") : TRUE].val

SelectorOf(d) == d.pairs[1].sel.class.sel

(* build_onehot: every mask is rebuilt from its labels; the fallback is    *)
(* masked by their absence.                                                *)
OneHot(d) ==
  LET on(p) == {i \in Arms(d.pairs, "consts") :
                  p \in At(SelectorOf(d), LabelsOf(d.pairs, i))}
      bits(p) == IF on(p) = {} THEN Fallback(d)[p]
                 ELSE UNION {d.pairs[i].val[p] : i \in on(p)}
  IN Driver(<<>>, [p \in Point |-> bits(p)])

(* build_bittree and _build_bit_tree: a mux per selector bit over one leaf *)
(* per selector value.  Seen as a cascade, it heads with the highest bit.  *)
BitTree(d) ==
  LET s == SelectorOf(d)
      named(c) == {i \in Arms(d.pairs, "consts") : c \in LabelsOf(d.pairs, i)}
      leaf(c) == IF named(c) = {} THEN Fallback(d)
                 ELSE d.pairs[CHOOSE i \in named(c) : TRUE].val
      set(b) == {p \in Point : (Read[s][p] \div (2 ^ b)) % 2 = 1}
      (* the half below a set bit, read with the bits under it *)
      half(b) == [p \in Point |-> leaf((2 ^ b) + (Read[s][p] % (2 ^ b)))[p]]
  IN Driver([i \in 1..Width[s] |->
               Arm(OpaqueCondition(set(Width[s] - i)), half(Width[s] - i))],
            leaf(0))

-----------------------------------------------------------------------------
(* choose_mode *)
Chosen(d) ==
  IF Disjoint(d.pairs) /\ Len(d.pairs) >= OneHotMin THEN "onehot"
  ELSE IF Len(d.pairs) >= TournamentMin THEN "tournament"
  ELSE "chain"

IsCascade(d) == Len(d.pairs) >= 2

(* rewrite() and build_bittree: the errors a mode that was asked for raises. *)
Refused(d, mode) ==
  /\ IsCascade(d)
  /\ \/ mode \in {"onehot", "bittree"} /\ ~Disjoint(d.pairs)
     \/ mode = "bittree" /\ Width[SelectorOf(d)] > MaxSelBits
     \/ mode = "bittree" /\ \E c \in LabelsOfAll(d.pairs) : c >= 2 ^ Width[SelectorOf(d)]

Emitted(d, mode) ==
  LET m == IF mode = "auto" THEN Chosen(d) ELSE mode
  IN IF ~IsCascade(d) \/ m = "chain" THEN d
     ELSE IF m = "tournament" THEN Tournament(d)
     ELSE IF m = "onehot" THEN OneHot(d)
     ELSE BitTree(d)
=============================================================================
