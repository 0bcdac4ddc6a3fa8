-------------------------- MODULE SelectionProofs --------------------------
(***************************************************************************)
(* Proofs about control structures, in four parts.                         *)
(*                                                                         *)
(* The conditions: the classes the analysis reads are borne out, and a     *)
(* gate left out is dead.  The rewrites: a tournament, a one-hot network   *)
(* and a bit tree deliver what the cascade they replace delivers.  The     *)
(* stacks: the open contexts and the three stacks of a scope agree, so a   *)
(* scope says how deep the block is that a chain was left in.  The         *)
(* refinement: every step of the constructs is a step of the program's     *)
(* text, or changes nothing the program stands for.                        *)
(***************************************************************************)
EXTENDS ControlStructures, SequenceTheorems, FiniteSetTheorems, FiniteRecursion, TLAPS

(* The operators keep conditions typed.                                    *)
LEMMA ConditionClosed ==
  ASSUME NEW a \in Condition, NEW b \in Condition
  PROVE  /\ NotCond(a) \in Condition
         /\ OrCond(a, b) \in Condition
         /\ AndCond(a, b) \in Condition
<1>1. NotClass(a.class) \in Class
  BY DEF NotClass, Condition, Class, Kind, Zero, One, Opaque, Consts, Complement
<1>2. OrClass(a.class, b.class) \in Class
  BY DEF OrClass, Condition, Class, Kind, Zero, One, Opaque, Consts, Complement
<1>3. AndClass(a.class, b.class) \in Class
  BY DEF AndClass, Condition, Class, Kind, Zero, One, Opaque, Consts, Complement,
         NonEmpty
<1> QED
  BY <1>1, <1>2, <1>3 DEF NotCond, OrCond, AndCond, Condition

(* What a class says of a condition stays so under ~, | and &: the         *)
(* analysis of _classify_sel is sound.                                     *)
THEOREM ClassesBornOut ==
  ASSUME NEW a \in Condition, NEW b \in Condition, BornOut(a), BornOut(b)
  PROVE  BornOut(NotCond(a)) /\ BornOut(OrCond(a, b)) /\ BornOut(AndCond(a, b))
<1> USE DEF BornOut, Condition, Class, Kind, Zero, One, Opaque, Consts, Complement
<1>1. BornOut(NotCond(a))
  BY DEF NotCond, NotClass, At
<1>2. BornOut(OrCond(a, b))
  BY DEF OrCond, OrClass, At
<1>3. BornOut(AndCond(a, b))
  <2>0. /\ a.class.kind \in Kind /\ b.class.kind \in Kind
        /\ a.on \subseteq Point /\ b.on \subseteq Point
    OBVIOUS
  <2>1. AndCond(a, b).on = a.on \cap b.on /\ AndCond(a, b).class = AndClass(a.class, b.class)
    BY DEF AndCond
  <2> HIDE DEF Condition, Class
  <2>2. CASE a.class.kind = "zero" \/ b.class.kind = "zero"
    <3>1. AndCond(a, b).class = Zero /\ AndCond(a, b).on = {}
      BY <2>1, <2>2 DEF AndClass
    <3> QED
      BY <3>1
  <2>3. CASE a.class.kind # "zero" /\ b.class.kind # "zero"
             /\ (a.class.kind = "one" \/ b.class.kind = "one")
    <3>1. \E c \in {a, b} : AndCond(a, b).class = c.class /\ AndCond(a, b).on = c.on
      BY <2>0, <2>1, <2>3 DEF AndClass
    <3> QED
      BY <3>1
  <2>4. CASE /\ a.class.kind \notin {"zero", "one"} /\ b.class.kind \notin {"zero", "one"}
             /\ a.class.kind = "opaque" \/ b.class.kind = "opaque" \/ a.class.sel # b.class.sel
    <3>1. AndCond(a, b).class = Opaque
      BY <2>1, <2>4 DEF AndClass
    <3> QED
      BY <3>1
  <2>5. CASE /\ a.class.kind \in {"consts", "complement"} /\ b.class.kind \in {"consts", "complement"}
             /\ a.class.sel = b.class.sel
    <3> PICK sel, la, lb : sel = a.class.sel /\ la = a.class.labels /\ lb = b.class.labels
      OBVIOUS
    <3>0. sel \in Selector
      BY <2>5
    <3>1. /\ a.on = IF a.class.kind = "consts" THEN At(sel, la) ELSE Point \ At(sel, la)
          /\ b.on = IF b.class.kind = "consts" THEN At(sel, lb) ELSE Point \ At(sel, lb)
      BY <2>5
    <3>2. /\ At(sel, la) \cap At(sel, lb) = At(sel, la \cap lb)
          /\ At(sel, la) \cap (Point \ At(sel, lb)) = At(sel, la \ lb)
          /\ (Point \ At(sel, la)) \cap At(sel, lb) = At(sel, lb \ la)
          /\ (Point \ At(sel, la)) \cap (Point \ At(sel, lb)) = Point \ At(sel, la \cup lb)
          /\ At(sel, {}) = {}
      BY DEF At
    <3>3. ASSUME NEW labels, AndCond(a, b).class = NonEmpty(sel, labels),
                 AndCond(a, b).on = At(sel, labels)
          PROVE  BornOut(AndCond(a, b))
      <4>1. CASE labels = {}
        BY <3>2, <3>3, <4>1 DEF NonEmpty
      <4>2. CASE labels # {}
        BY <3>0, <3>3, <4>2 DEF NonEmpty
      <4> QED
        BY <4>1, <4>2
    <3>4. CASE a.class.kind = "consts" /\ b.class.kind = "consts"
      <4>1. AndCond(a, b).class = NonEmpty(sel, la \cap lb)
        BY <2>1, <2>5, <3>4 DEF AndClass
      <4>2. a.on = At(sel, la) /\ b.on = At(sel, lb)
        BY <3>1, <3>4
      <4>3. AndCond(a, b).on = At(sel, la \cap lb)
        BY <2>1, <3>2, <4>2
      <4> QED
        BY <3>3, <4>1, <4>3
    <3>5. CASE a.class.kind = "consts" /\ b.class.kind = "complement"
      <4>1. AndCond(a, b).class = NonEmpty(sel, la \ lb)
        BY <2>1, <2>5, <3>5 DEF AndClass
      <4>2. a.on = At(sel, la) /\ b.on = Point \ At(sel, lb)
        BY <3>1, <3>5
      <4>3. AndCond(a, b).on = At(sel, la \ lb)
        BY <2>1, <3>2, <4>2
      <4> QED
        BY <3>3, <4>1, <4>3
    <3>6. CASE a.class.kind = "complement" /\ b.class.kind = "consts"
      <4>1. AndCond(a, b).class = NonEmpty(sel, lb \ la)
        BY <2>1, <2>5, <3>6 DEF AndClass
      <4>2. a.on = Point \ At(sel, la) /\ b.on = At(sel, lb)
        BY <3>1, <3>6
      <4>3. AndCond(a, b).on = At(sel, lb \ la)
        BY <2>1, <3>2, <4>2
      <4> QED
        BY <3>3, <4>1, <4>3
    <3>7. CASE a.class.kind = "complement" /\ b.class.kind = "complement"
      <4>1. AndCond(a, b).class = Complement(sel, la \cup lb)
        BY <2>1, <2>5, <3>7 DEF AndClass
      <4>2. a.on = Point \ At(sel, la) /\ b.on = Point \ At(sel, lb)
        BY <3>1, <3>7
      <4>3. AndCond(a, b).on = Point \ At(sel, la \cup lb)
        BY <2>1, <3>2, <4>2
      <4> QED
        BY <3>0, <4>1, <4>3
    <3> QED
      BY <2>5, <3>4, <3>5, <3>6, <3>7
  <2> QED
    BY <2>0, <2>2, <2>3, <2>4, <2>5
<1> QED
  BY <1>1, <1>2, <1>3

-----------------------------------------------------------------------------
Tracked(c) == /\ c.covered \in Condition
              /\ c.tracker \in Tracker
              /\ KnowsCovered(c)

(* The gate is exact: a gated or claimed arm is entered for its own points *)
(* less those covered before, so leaving the gate out changes nothing.     *)
THEOREM GateExact ==
  ASSUME NEW c, Tracked(c), NEW test \in Condition, BornOut(test)
  PROVE  LET gated == ClaimOrGate(c.tracker, test, c.covered) IN
         gated \in Condition /\ gated.on = test.on \ c.covered.on
<1> DEFINE gated == ClaimOrGate(c.tracker, test, c.covered)
<1>1. CASE c.covered = FalseConst
  BY <1>1 DEF ClaimOrGate, FalseConst
<1>2. CASE c.covered # FalseConst /\ ~Claims(c.tracker, test)
  <2>1. gated = AndCond(test, NotCond(c.covered))
    BY <1>2 DEF ClaimOrGate
  <2>2. gated \in Condition
    BY <2>1, ConditionClosed DEF Tracked
  <2>3. test.on \subseteq Point
    BY DEF Condition
  <2> QED
    BY <2>1, <2>2, <2>3 DEF AndCond, NotCond
<1>3. CASE Claims(c.tracker, test)
  <2>1. gated = test
    BY <1>3 DEF ClaimOrGate
  <2>2. test.on = At(test.class.sel, test.class.labels)
    BY <1>3 DEF Claims, Tracks, BornOut
  <2>3. c.covered.on \subseteq At(test.class.sel, c.tracker.seen)
    BY <1>3 DEF Claims, Tracks, Tracked, KnowsCovered, Tracker
  <2>4. test.on \cap c.covered.on = {}
    BY <2>2, <2>3, <1>3 DEF Claims, At
  <2> QED
    BY <2>1, <2>4
<1> QED
  BY <1>1, <1>2, <1>3

(* Whatever an arm is entered for, the chain or switch covers and tracks.  *)
LEMMA ArmTracked ==
  ASSUME NEW c, Tracked(c), NEW test \in Condition, BornOut(test),
         NEW d, d.tracker = AfterClaim(c.tracker, test), d.covered \in Condition,
         d.covered.on = c.covered.on \cup ClaimOrGate(c.tracker, test, c.covered).on
  PROVE  Tracked(d)
<1>1. AfterClaim(c.tracker, test) \in Tracker
  BY DEF AfterClaim, Tracks, Tracked, Tracker, Condition, Class
<1>2. d.covered.on = c.covered.on \cup test.on
  BY GateExact
<1>3. KnowsCovered(d)
  <2> SUFFICES ASSUME d.tracker.trackable
               PROVE  IF d.tracker.sel = None THEN d.covered.on = {}
                      ELSE d.covered.on \subseteq At(d.tracker.sel, d.tracker.seen)
    BY DEF KnowsCovered
  <2>1. Tracks(c.tracker, test)
    BY DEF AfterClaim, Tracked, Tracker
  <2>2. /\ d.tracker.sel = test.class.sel
        /\ d.tracker.seen = c.tracker.seen \cup test.class.labels
    BY <2>1 DEF AfterClaim
  <2>3. test.class.sel \in Selector /\ test.on = At(test.class.sel, test.class.labels)
    BY <2>1 DEF Tracks, BornOut
  <2>4. d.tracker.sel # None
    BY <2>2, <2>3, AnalysisAssumption
  <2>5. c.covered.on \subseteq At(test.class.sel, c.tracker.seen)
    BY <2>1 DEF Tracks, Tracked, KnowsCovered, Tracker
  <2> QED
    BY <1>2, <2>2, <2>3, <2>4, <2>5 DEF At
<1> QED
  BY <1>1, <1>3 DEF Tracked

(* _IfChain.branch keeps an open chain well formed. *)
LEMMA BranchedIsChain ==
  ASSUME NEW c \in IfChain, ~c.closed, NEW test \in Condition, BornOut(test)
  PROVE  Branched(c, test) \in IfChain
<1> DEFINE d == Branched(c, test)
           gated == ClaimOrGate(c.tracker, test, c.covered)
<1>1. Tracked(c)
  BY DEF Tracked, IfChain
<1>2. gated \in Condition
  BY <1>1, GateExact
<1>3. OrCond(c.covered, gated) \in Condition
  BY <1>1, <1>2, ConditionClosed DEF Tracked
<1>4. d = [covered |-> IF c.covered = FalseConst THEN gated ELSE OrCond(c.covered, gated),
           closed |-> c.closed, tracker |-> AfterClaim(c.tracker, test), scope |-> c.scope]
  BY DEF Branched
<1>5. d.covered \in Condition /\ d.covered.on = c.covered.on \cup gated.on
  BY <1>2, <1>3, <1>4 DEF OrCond, FalseConst
<1>6. Tracked(d)
  BY <1>1, <1>4, <1>5, ArmTracked
<1> QED
  BY <1>4, <1>6 DEF IfChain, Tracked

(* So does _claim_cases for a switch. *)
LEMMA CaseTakenIsSwitch ==
  ASSUME NEW c \in SwitchState, ~c.closed, NEW test \in Condition, BornOut(test)
  PROVE  CaseTaken(c, test) \in SwitchState
<1> DEFINE d == CaseTaken(c, test)
           gated == ClaimOrGate(c.tracker, test, c.covered)
<1>1. Tracked(c)
  BY DEF Tracked, SwitchState
<1>2. gated \in Condition
  BY <1>1, GateExact
<1>3. OrCond(c.covered, gated) \in Condition
  BY <1>1, <1>2, ConditionClosed DEF Tracked
<1>4. d = [id |-> c.id, sel |-> c.sel, closed |-> c.closed,
           covered |-> OrCond(c.covered, gated), tracker |-> AfterClaim(c.tracker, test)]
  BY DEF CaseTaken
<1>5. d.covered \in Condition /\ d.covered.on = c.covered.on \cup gated.on
  BY <1>3, <1>4 DEF OrCond
<1>6. Tracked(d)
  BY <1>1, <1>4, <1>5, ArmTracked
<1> QED
  BY <1>4, <1>6 DEF SwitchState, Tracked

LEMMA ClosedOffIsClosed ==
  /\ \A c \in IfChain : ClosedOff(c) \in IfChain
  /\ \A w \in SwitchState : ClosedOff(w) \in SwitchState
<1>1. TrueConst \in Condition
  BY DEF TrueConst, Condition, Class, Kind, One
<1>2. ASSUME NEW c \in IfChain PROVE ClosedOff(c) \in IfChain
  BY <1>1 DEF ClosedOff, IfChain
<1>3. ASSUME NEW w \in SwitchState PROVE ClosedOff(w) \in SwitchState
  BY <1>1 DEF ClosedOff, SwitchState
<1> QED
  BY <1>2, <1>3

-----------------------------------------------------------------------------
(* Stacks and contexts. *)

LEMMA PopTop ==
  ASSUME NEW S, NEW q \in Seq(S)
  PROVE  Pop(q) \in Seq(S) /\ (q # <<>> => Top(q) \in S)
<1>1. Len(q) \in Nat /\ Len(q) - 1 \in Int
  BY LenProperties
<1>2. \A i \in 1..(Len(q) - 1) : q[i] \in S
  BY <1>1, ElementOfSeq
<1>3. Pop(q) \in Seq(S)
  BY <1>1, <1>2, SubSeqProperties DEF Pop
<1>4. ASSUME q # <<>> PROVE Top(q) \in S
  BY <1>1, <1>4, EmptySeq, ElementOfSeq DEF Top
<1> QED
  BY <1>3, <1>4

LEMMA IdsTyped ==
  /\ \A q \in Seq(ActiveCondition) : Ids(q) \in Seq(Nat)
  /\ \A q \in Seq(SwitchState) : Ids(q) \in Seq(Nat)
  /\ \A q \in Seq(RegionState) : Ids(q) \in Seq(Nat)
<1>1. ASSUME NEW S, \A e \in S : e.id \in Nat, NEW q \in Seq(S)
      PROVE  Ids(q) \in Seq(Nat)
  <2>1. Len(q) \in Nat /\ DOMAIN q = 1..Len(q)
    BY LenProperties
  <2>2. \A i \in 1..Len(q) : q[i].id \in Nat
    BY <1>1, ElementOfSeq
  <2>3. Ids(q) \in [1..Len(q) -> Nat]
    BY <2>1, <2>2 DEF Ids
  <2> QED
    BY <2>1, <2>3, SeqDef
<1>2. /\ \A e \in ActiveCondition : e.id \in Nat
      /\ \A e \in SwitchState : e.id \in Nat
      /\ \A e \in RegionState : e.id \in Nat
  BY DEF ActiveCondition, SwitchState, RegionState
<1> QED
  BY <1>1, <1>2

LEMMA ScopeTyped ==
  ASSUME NEW a \in Seq(ActiveCondition), NEW w \in Seq(SwitchState),
         NEW r \in Seq(RegionState)
  PROVE  ScopeOf(a, w, r) \in Seq(Seq(Nat))
BY IdsTyped DEF ScopeOf

LEMMA ConstantConditions ==
  /\ FalseConst \in Condition /\ BornOut(FalseConst)
  /\ TrueConst \in Condition
  /\ NewTracker \in Tracker
  /\ NoneChain \in IfChain
<1>1. FalseConst \in Condition /\ BornOut(FalseConst) /\ TrueConst \in Condition
  BY DEF FalseConst, TrueConst, Condition, Class, Kind, Zero, One, BornOut
<1>2. NewTracker \in Tracker
  BY DEF NewTracker, Tracker
<1>3. KnowsCovered(NoneChain)
  BY DEF KnowsCovered, NoneChain, NewTracker, FalseConst
<1> QED
  BY <1>1, <1>2, <1>3 DEF NoneChain, IfChain

LEMMA GuardsBornOut ==
  ASSUME NEW c \in Guards
  PROVE  c \in Condition /\ BornOut(c)
BY ControlAssumption

LEMMA CaseTestsBornOut ==
  ASSUME NEW s \in Switched, NEW c \in CaseTests(s)
  PROVE  c \in Condition /\ BornOut(c)
<1>1. CASE c \in NonConsts
  BY <1>1, ControlAssumption
<1>2. CASE \E ls \in Labels : c = LabelTest(s, ls)
  <2>1. PICK ls \in Labels : c = LabelTest(s, ls)
    BY <1>2
  <2>2. s \in Selector /\ ls \in SUBSET Nat
    BY ControlAssumption
  <2>3. Consts(s, ls) \in Class
    BY <2>2 DEF Class, Kind, Consts
  <2> QED
    BY <2>1, <2>2, <2>3 DEF LabelTest, Condition, Consts, At, BornOut
<1> QED
  BY <1>1, <1>2 DEF CaseTests

LEMMA MadeTyped ==
  ASSUME ChainsKnown, NEW what \in {"arms", "assigns", "frames"}, Made(what)
  PROVE  made' \in [arms : Nat, assigns : Nat, frames : Nat]
<1>1. /\ made \in [arms : Nat, assigns : Nat, frames : Nat]
      /\ made' = [made EXCEPT ![what] = made[what] + 1]
  BY DEF ChainsKnown, Made
<1>2. CASE what = "arms"
  BY <1>1, <1>2
<1>3. CASE what = "assigns"
  BY <1>1, <1>3
<1>4. CASE what = "frames"
  BY <1>1, <1>4
<1> QED
  BY <1>2, <1>3, <1>4

(* Entering an arm keeps the stacks typed. *)
LEMMA EnterArmTyped ==
  ASSUME ChainsKnown, NEW cond \in Condition, NEW context \in Context,
         EnterArm(cond, context)
  PROVE  /\ active' \in Seq(ActiveCondition)
         /\ open' \in Seq(Context)
         /\ regions' \in Seq(RegionState)
         /\ scopes' \in Seq(SavedScope)
         /\ made' \in [arms : Nat, assigns : Nat, frames : Nat]
<1>1. NewId \in Nat
  BY DEF NewId, Total, ChainsKnown
<1>2. [id |-> NewId, cond |-> cond] \in ActiveCondition
  BY <1>1 DEF ActiveCondition
<1>3. active' \in Seq(ActiveCondition)
  BY <1>2, AppendProperties DEF EnterArm, ChainsKnown
<1>4. open' \in Seq(Context)
  BY AppendProperties DEF EnterArm, ChainsKnown
<1>5. made' \in [arms : Nat, assigns : Nat, frames : Nat]
  BY MadeTyped DEF EnterArm
<1> QED
  BY <1>3, <1>4, <1>5 DEF EnterArm, ChainsKnown

-----------------------------------------------------------------------------
LEMMA IfKnown ==
  ASSUME ChainsKnown, NEW cond \in Guards, If(cond)
  PROVE  ChainsKnown'
<1>1. cond \in Condition /\ BornOut(cond)
  BY GuardsBornOut
<1>2. Branched(NoneChain, cond) \in IfChain
  BY <1>1, ConstantConditions, BranchedIsChain DEF NoneChain
<1>3. [kind |-> "if", chain |-> Branched(NoneChain, cond)] \in Context
  BY <1>2 DEF Context
<1> QED
  BY <1>1, <1>3, EnterArmTyped, ConstantConditions DEF If, ChainsKnown

LEMMA ElifKnown ==
  ASSUME ChainsKnown, NEW cond \in Guards, Elif(cond)
  PROVE  ChainsKnown'
<1>1. cond \in Condition /\ BornOut(cond)
  BY GuardsBornOut
<1>2. CASE CanContinue
  <2>1. pending \in IfChain /\ ~pending.closed
    BY <1>2 DEF ChainsKnown, CanContinue
  <2>2. Branched(pending, cond) \in IfChain
    BY <1>1, <2>1, BranchedIsChain
  <2>3. Tracked(pending)
    BY <2>1 DEF Tracked, IfChain
  <2>4. ClaimOrGate(pending.tracker, cond, pending.covered) \in Condition
    BY <1>1, <2>3, GateExact
  <2>5. [kind |-> "if", chain |-> Branched(pending, cond)] \in Context
    BY <2>2 DEF Context
  <2>6. /\ pending' = Branched(pending, cond)
        /\ EnterArm(ClaimOrGate(pending.tracker, cond, pending.covered),
                    [kind |-> "if", chain |-> Branched(pending, cond)])
        /\ UNCHANGED switches
    BY <1>2 DEF Elif
  <2> QED
    BY <2>2, <2>4, <2>5, <2>6, EnterArmTyped DEF ChainsKnown
<1>3. CASE ~CanContinue
  BY <1>3 DEF Elif, Raise, state, ChainsKnown
<1> QED
  BY <1>2, <1>3

LEMMA ElseKnown ==
  ASSUME ChainsKnown, Else
  PROVE  ChainsKnown'
<1>1. CASE CanContinue
  <2>1. pending \in IfChain /\ pending.covered \in Condition
    BY DEF ChainsKnown, IfChain
  <2>2. NotCond(pending.covered) \in Condition
    BY <2>1, ConditionClosed
  <2>3. [kind |-> "else"] \in Context
    BY DEF Context
  <2> QED
    BY <1>1, <2>1, <2>2, <2>3, EnterArmTyped, ClosedOffIsClosed DEF Else, ChainsKnown
<1>2. CASE ~CanContinue
  BY <1>2 DEF Else, Raise, state, ChainsKnown
<1> QED
  BY <1>1, <1>2

LEMMA SwitchKnown ==
  ASSUME ChainsKnown, NEW s \in Switched, Switch(s)
  PROVE  ChainsKnown'
<1> DEFINE w == [id |-> NewId, sel |-> s, covered |-> FalseConst,
                 closed |-> FALSE, tracker |-> NewTracker]
<1>1. NewId \in Nat
  BY DEF NewId, Total, ChainsKnown
<1>2. KnowsCovered(w)
  BY DEF KnowsCovered, NewTracker, FalseConst
<1>3. w \in SwitchState
  BY <1>1, <1>2, ConstantConditions DEF SwitchState
<1>4. [kind |-> "switch"] \in Context
  BY DEF Context
<1>5. switches' \in Seq(SwitchState) /\ open' \in Seq(Context)
  BY <1>3, <1>4, AppendProperties DEF Switch, ChainsKnown
<1>6. made' \in [arms : Nat, assigns : Nat, frames : Nat]
  BY MadeTyped DEF Switch
<1> QED
  BY <1>5, <1>6 DEF Switch, ChainsKnown

LEMMA ReplacedTop ==
  ASSUME NEW S, NEW q \in Seq(S), q # <<>>, NEW e \in S
  PROVE  /\ [q EXCEPT ![Len(q)] = e] \in Seq(S)
         /\ Top([q EXCEPT ![Len(q)] = e]) = e
<1>1. Len(q) \in 1..Len(q)
  BY EmptySeq, LenProperties
<1> QED
  BY <1>1, ExceptSeq DEF Top

LEMMA CaseKnown ==
  ASSUME ChainsKnown, Case
  PROVE  ChainsKnown'
<1>1. CASE switches = <<>> \/ Top(switches).closed
  BY <1>1 DEF Case, Raise, state, ChainsKnown
<1>2. CASE ~(switches = <<>> \/ Top(switches).closed)
  <2> DEFINE sw == Top(switches)
  <2>1. sw \in SwitchState /\ ~sw.closed
    BY <1>2, PopTop DEF ChainsKnown
  <2>2. PICK test \in CaseTests(sw.sel) :
          /\ switches' = [switches EXCEPT ![Len(switches)] = CaseTaken(@, test)]
          /\ EnterArm(ClaimOrGate(sw.tracker, test, sw.covered), [kind |-> "case"])
          /\ UNCHANGED pending
    BY <1>2 DEF Case
  <2>3. test \in Condition /\ BornOut(test)
    BY <2>1, CaseTestsBornOut DEF SwitchState
  <2>4. CaseTaken(sw, test) \in SwitchState
    BY <2>1, <2>3, CaseTakenIsSwitch
  <2>5. Tracked(sw)
    BY <2>1 DEF Tracked, SwitchState
  <2>6. ClaimOrGate(sw.tracker, test, sw.covered) \in Condition
    BY <2>3, <2>5, GateExact
  <2>7. switches' \in Seq(SwitchState)
    BY <1>2, <2>2, <2>4, ReplacedTop DEF ChainsKnown, Top
  <2>8. [kind |-> "case"] \in Context
    BY DEF Context
  <2> QED
    BY <2>2, <2>6, <2>7, <2>8, EnterArmTyped DEF ChainsKnown
<1> QED
  BY <1>1, <1>2

LEMMA DefaultKnown ==
  ASSUME ChainsKnown, Default
  PROVE  ChainsKnown'
<1>1. CASE switches = <<>> \/ Top(switches).closed
  BY <1>1 DEF Default, Raise, state, ChainsKnown
<1>2. CASE ~(switches = <<>> \/ Top(switches).closed)
  <2> DEFINE sw == Top(switches)
  <2>1. sw \in SwitchState
    BY <1>2, PopTop DEF ChainsKnown
  <2>2. ClosedOff(sw) \in SwitchState
    BY <2>1, ClosedOffIsClosed
  <2>3. NotCond(sw.covered) \in Condition
    BY <2>1, ConditionClosed DEF SwitchState
  <2>4. /\ switches' = [switches EXCEPT ![Len(switches)] = ClosedOff(sw)]
        /\ EnterArm(NotCond(sw.covered), [kind |-> "case"])
        /\ UNCHANGED pending
    BY <1>2 DEF Default, Top
  <2>5. switches' \in Seq(SwitchState)
    BY <1>2, <2>2, <2>4, ReplacedTop DEF ChainsKnown
  <2>6. [kind |-> "case"] \in Context
    BY DEF Context
  <2> QED
    BY <2>3, <2>4, <2>5, <2>6, EnterArmTyped DEF ChainsKnown
<1> QED
  BY <1>1, <1>2

LEMMA AssignKnown ==
  ASSUME ChainsKnown, Assign
  PROVE  ChainsKnown'
<1>1. CASE active # <<>> /\ driver = NoDriver /\ kind # "reg"
  BY <1>1 DEF Assign, Raise, state, ChainsKnown
<1>2. CASE ~(active # <<>> /\ driver = NoDriver /\ kind # "reg")
  <2>1. /\ regions' = IF regions = <<>> THEN regions
                      ELSE [regions EXCEPT ![Len(regions)].captured = TRUE]
        /\ Made("assigns")
        /\ UNCHANGED <<active, pending, switches, open, scopes>>
    BY <1>2 DEF Assign
  <2>2. regions' \in Seq(RegionState)
    <3>1. CASE regions = <<>>
      BY <2>1, <3>1 DEF ChainsKnown
    <3>2. CASE regions # <<>>
      <4>1. Top(regions) \in RegionState
        BY <3>2, PopTop DEF ChainsKnown
      <4>2. [Top(regions) EXCEPT !.captured = TRUE] \in RegionState
        BY <4>1 DEF RegionState
      <4>3. regions' = [regions EXCEPT ![Len(regions)] =
                          [Top(regions) EXCEPT !.captured = TRUE]]
        BY <2>1, <3>2 DEF Top
      <4> QED
        BY <3>2, <4>2, <4>3, ReplacedTop DEF ChainsKnown
    <3> QED
      BY <3>1, <3>2
  <2> QED
    BY <2>1, <2>2, MadeTyped DEF ChainsKnown
<1> QED
  BY <1>1, <1>2

LEMMA RegionKnown ==
  ASSUME ChainsKnown, NEW mode \in RegionModes, Region(mode)
  PROVE  ChainsKnown'
<1>1. NewId \in Nat
  BY DEF NewId, Total, ChainsKnown
<1>2. [id |-> NewId, mode |-> mode, captured |-> FALSE] \in RegionState
  BY <1>1 DEF RegionState
<1>3. [kind |-> "region"] \in Context
  BY DEF Context
<1>4. regions' \in Seq(RegionState) /\ open' \in Seq(Context)
  BY <1>2, <1>3, AppendProperties DEF Region, ChainsKnown
<1>5. made' \in [arms : Nat, assigns : Nat, frames : Nat]
  BY MadeTyped DEF Region
<1> QED
  BY <1>4, <1>5 DEF Region, ChainsKnown

LEMMA FreshKnown ==
  ASSUME ChainsKnown, Fresh
  PROVE  ChainsKnown'
<1>1. [active |-> active, pending |-> pending, open |-> open,
       switches |-> switches, regions |-> regions] \in SavedScope
  BY DEF ChainsKnown, SavedScope
<1>2. scopes' \in Seq(SavedScope)
  BY <1>1, AppendProperties DEF Fresh, ChainsKnown
<1>3. made' \in [arms : Nat, assigns : Nat, frames : Nat]
  BY MadeTyped DEF Fresh
<1> QED
  BY <1>2, <1>3, EmptySeq, ConstantConditions DEF Fresh, ChainsKnown

LEMMA LeaveKnown ==
  ASSUME ChainsKnown, Leave
  PROVE  ChainsKnown'
<1>1. /\ Pop(active) \in Seq(ActiveCondition)
      /\ Pop(switches) \in Seq(SwitchState)
      /\ Pop(regions) \in Seq(RegionState)
      /\ Pop(open) \in Seq(Context)
      /\ Pop(scopes) \in Seq(SavedScope)
  BY PopTop DEF ChainsKnown
<1>2. open # <<>> => Top(open) \in Context
  BY PopTop DEF ChainsKnown
<1>3. CASE LeaveIf
  <2>1. Top(open).chain \in IfChain
    BY <1>2, <1>3 DEF LeaveIf, Leaving, Context
  <2>2. ScopeOf(Pop(active), switches, regions) \in Seq(Seq(Nat))
    BY <1>1, ScopeTyped DEF ChainsKnown
  <2>3. pending' \in IfChain
    BY <1>3, <2>1, <2>2 DEF LeaveIf, IfChain, KnowsCovered
  <2> QED
    BY <1>1, <1>3, <2>3 DEF LeaveIf, Leaving, ChainsKnown
<1>4. CASE LeaveElse
  BY <1>1, <1>4, ConstantConditions DEF LeaveElse, Leaving, ChainsKnown
<1>5. CASE LeaveCase
  BY <1>1, <1>5 DEF LeaveCase, Leaving, ChainsKnown
<1>6. CASE LeaveSwitch
  BY <1>1, <1>6 DEF LeaveSwitch, Leaving, ChainsKnown
<1>7. CASE LeaveRegion
  BY <1>1, <1>7 DEF LeaveRegion, Leaving, ChainsKnown
<1>8. CASE LeaveFresh
  <2>1. Top(scopes) \in SavedScope
    BY <1>8, PopTop DEF LeaveFresh, ChainsKnown
  <2> QED
    BY <1>1, <1>8, <2>1 DEF LeaveFresh, SavedScope, ChainsKnown
<1> QED
  BY <1>3, <1>4, <1>5, <1>6, <1>7, <1>8 DEF Leave

(* Every step keeps the stacks, the chains and the switches well formed. *)
LEMMA ChainsKnownKept ==
  ASSUME ChainsKnown, [Next]_controlVars
  PROVE  ChainsKnown'
<1>1. CASE \E cond \in Guards : If(cond) \/ Elif(cond)
  BY <1>1, IfKnown, ElifKnown
<1>2. CASE Else
  BY <1>2, ElseKnown
<1>3. CASE \E s \in Switched : Switch(s)
  BY <1>3, SwitchKnown
<1>4. CASE Case \/ Default
  BY <1>4, CaseKnown, DefaultKnown
<1>5. CASE Assign
  BY <1>5, AssignKnown
<1>6. CASE \E mode \in RegionModes : Region(mode)
  BY <1>6, RegionKnown
<1>7. CASE Fresh
  BY <1>7, FreshKnown
<1>8. CASE Leave
  BY <1>8, LeaveKnown
<1>9. CASE Throw \/ Catch \/ EmissionPass
  BY <1>9 DEF Throw, Raise, Catch, EmissionPass, state, ChainsKnown
<1>10. CASE UNCHANGED controlVars
  BY <1>10 DEF controlVars, ChainsKnown
<1> QED
  BY <1>1, <1>2, <1>3, <1>4, <1>5, <1>6, <1>7, <1>8, <1>9, <1>10 DEF Next

(* In every reachable state the stacks are well formed and every chain and *)
(* switch that may still grow is covered by the labels its tracker knows:  *)
(* the invariant behind leaving a gate out.                                *)
THEOREM ChainsStayKnown == Spec => []ChainsKnown
<1>1. Init => ChainsKnown
  BY EmptySeq, ConstantConditions DEF Init, ChainsKnown
<1>2. ChainsKnown /\ [Next]_controlVars => ChainsKnown'
  BY ChainsKnownKept
<1> QED
  BY <1>1, <1>2, PTL DEF Spec

-----------------------------------------------------------------------------
(* What EnterArm puts on top of the stacks. *)
LEMMA EnterArmTop ==
  ASSUME ChainsKnown, NEW cond \in Condition, NEW context \in Context,
         EnterArm(cond, context)
  PROVE  Top(active').cond = cond /\ Top(open') = context
<1>1. NewId \in Nat
  BY DEF NewId, Total, ChainsKnown
<1>2. [id |-> NewId, cond |-> cond] \in ActiveCondition
  BY <1>1 DEF ActiveCondition
<1>3. Top(active') = [id |-> NewId, cond |-> cond]
  BY <1>2, AppendProperties DEF EnterArm, ChainsKnown, Top
<1>4. Top(open') = context
  BY AppendProperties DEF EnterArm, ChainsKnown, Top
<1> QED
  BY <1>3, <1>4

LEMMA ChainArmTakesLeftovers ==
  ASSUME ChainsKnown, NEW cond \in Guards, If(cond) \/ Elif(cond)
  PROVE  ArmTakesLeftovers
<1>1. CASE If(cond)
  <2>1. cond \in Condition /\ BornOut(cond)
    BY GuardsBornOut
  <2>2. Branched(NoneChain, cond) \in IfChain
    BY <2>1, ConstantConditions, BranchedIsChain DEF NoneChain
  <2>3. [kind |-> "if", chain |-> Branched(NoneChain, cond)] \in Context
    BY <2>2 DEF Context
  <2>4. Top(open').kind = "if" /\ pending' = NoneChain
    BY <1>1, <2>1, <2>3, EnterArmTop DEF If
  <2> QED
    BY <2>4 DEF ArmTakesLeftovers
<1>2. CASE Elif(cond) /\ CanContinue
  <2>1. cond \in Condition /\ BornOut(cond)
    BY GuardsBornOut
  <2>2. pending \in IfChain /\ ~pending.closed
    BY <1>2 DEF ChainsKnown, CanContinue
  <2>3. Branched(pending, cond) \in IfChain
    BY <2>1, <2>2, BranchedIsChain
  <2>4. [kind |-> "if", chain |-> Branched(pending, cond)] \in Context
    BY <2>3 DEF Context
  <2>5. Tracked(pending)
    BY <2>2 DEF Tracked, IfChain
  <2> DEFINE gated == ClaimOrGate(pending.tracker, cond, pending.covered)
  <2>6. gated \in Condition /\ gated.on = cond.on \ pending.covered.on
    BY <2>1, <2>5, GateExact
  <2>7. EnterArm(gated, [kind |-> "if", chain |-> Branched(pending, cond)])
    BY <1>2 DEF Elif
  <2>8. Top(active').cond = gated /\ Top(open').kind = "if"
    BY <2>4, <2>6, <2>7, EnterArmTop
  <2> QED
    BY <2>6, <2>8 DEF ArmTakesLeftovers
<1>3. CASE ~CanContinue /\ Elif(cond)
  BY <1>3 DEF Elif, Raise, state, ArmTakesLeftovers, ChainsKnown
<1> QED
  BY <1>1, <1>2, <1>3

LEMMA ElseTakesLeftovers ==
  ASSUME ChainsKnown, Else
  PROVE  ArmTakesLeftovers
<1>1. CASE CanContinue
  <2>1. pending.covered \in Condition
    BY DEF ChainsKnown, IfChain
  <2>2. NotCond(pending.covered) \in Condition
    BY <2>1, ConditionClosed
  <2>3. [kind |-> "else"] \in Context
    BY DEF Context
  <2>4. /\ Top(active').cond = NotCond(pending.covered)
        /\ Top(open').kind = "else"
    BY <1>1, <2>2, <2>3, EnterArmTop DEF Else
  <2> QED
    BY <2>4 DEF NotCond, ArmTakesLeftovers
<1>2. CASE ~CanContinue
  BY <1>2 DEF Else, Raise, state, ArmTakesLeftovers, ChainsKnown
<1> QED
  BY <1>1, <1>2

LEMMA SwitchArmTakesLeftovers ==
  ASSUME ChainsKnown, Case \/ Default
  PROVE  ArmTakesLeftovers
<1> DEFINE sw == Top(switches)
<1>1. CASE switches = <<>> \/ sw.closed
  BY <1>1 DEF Case, Default, Raise, state, ArmTakesLeftovers, ChainsKnown
<1>2. ASSUME ~(switches = <<>> \/ sw.closed)
      PROVE  sw \in SwitchState /\ ~sw.closed
  BY <1>2, PopTop DEF ChainsKnown
<1>3. [kind |-> "case"] \in Context
  BY DEF Context
<1>4. CASE Case /\ ~(switches = <<>> \/ sw.closed)
  <2>1. PICK test \in CaseTests(sw.sel) :
          EnterArm(ClaimOrGate(sw.tracker, test, sw.covered), [kind |-> "case"])
    BY <1>4 DEF Case
  <2>2. test \in Condition /\ BornOut(test)
    BY <1>2, <1>4, CaseTestsBornOut DEF SwitchState
  <2>3. Tracked(sw)
    BY <1>2, <1>4 DEF Tracked, SwitchState
  <2> DEFINE gated == ClaimOrGate(sw.tracker, test, sw.covered)
  <2>4. gated \in Condition /\ gated.on = test.on \ sw.covered.on
    BY <2>2, <2>3, GateExact
  <2>5. Top(active').cond = gated /\ Top(open').kind = "case"
    BY <1>3, <2>1, <2>4, EnterArmTop
  <2> QED
    BY <2>4, <2>5 DEF ArmTakesLeftovers
<1>5. CASE Default /\ ~(switches = <<>> \/ sw.closed)
  <2>1. NotCond(sw.covered) \in Condition
    BY <1>2, <1>5, ConditionClosed DEF SwitchState
  <2>2. EnterArm(NotCond(sw.covered), [kind |-> "case"])
    BY <1>5 DEF Default
  <2>3. /\ Top(active').cond = NotCond(sw.covered)
        /\ Top(open').kind = "case"
    BY <1>3, <2>1, <2>2, EnterArmTop
  <2> QED
    BY <2>3 DEF NotCond, ArmTakesLeftovers
<1> QED
  BY <1>1, <1>4, <1>5

(* Popping a stack never makes it longer, and always changes a full one. *)
LEMMA PopShorter ==
  ASSUME NEW S, NEW q \in Seq(S)
  PROVE  ~(Len(Pop(q)) > Len(q)) /\ (q # <<>> => Pop(q) # q)
<1>1. Len(q) \in Nat /\ Len(q) - 1 \in Int
  BY LenProperties
<1>2. \A i \in 1..(Len(q) - 1) : q[i] \in S
  BY <1>1, ElementOfSeq
<1>3. Len(Pop(q)) = IF 1 <= Len(q) - 1 THEN Len(q) - 1 - 1 + 1 ELSE 0
  BY <1>1, <1>2, SubSeqProperties DEF Pop
<1>4. q # <<>> => Len(q) > 0
  BY <1>1, EmptySeq
<1> QED
  BY <1>1, <1>3, <1>4

(* In every behaviour an arm is entered only for points that no earlier    *)
(* arm of its chain or switch covers.                                      *)
THEOREM FirstMatchHolds == Spec => FirstMatchOnly
<1>1. ChainsKnown /\ [Next]_controlVars => [ArmTakesLeftovers]_controlVars
  <2> SUFFICES ASSUME ChainsKnown, Next
               PROVE  ArmTakesLeftovers
    OBVIOUS
  <2>1. CASE \E cond \in Guards : If(cond) \/ Elif(cond)
    BY <2>1, ChainArmTakesLeftovers
  <2>2. CASE Else
    BY <2>2, ElseTakesLeftovers
  <2>3. CASE Case \/ Default
    BY <2>3, SwitchArmTakesLeftovers
  <2>4. Len(active) \in Nat /\ Len(<<>>) = 0
    BY LenProperties, EmptySeq DEF ChainsKnown
  <2>5. CASE UNCHANGED active
    BY <2>4, <2>5 DEF ArmTakesLeftovers
  <2>6. CASE Fresh
    BY <2>4, <2>6 DEF Fresh, ArmTakesLeftovers
  <2>7. CASE active' = Pop(active)
    BY <2>7, PopShorter DEF ArmTakesLeftovers, ChainsKnown
  <2>8. CASE LeaveFresh
    <3>1. scopes' # scopes
      BY <2>8, PopShorter DEF LeaveFresh, ChainsKnown
    <3> QED
      BY <3>1 DEF ArmTakesLeftovers
  <2>9. ASSUME NEW s \in Switched, Switch(s) PROVE UNCHANGED active
    BY <2>9 DEF Switch
  <2>10. ASSUME NEW mode \in RegionModes, Region(mode) PROVE UNCHANGED active
    BY <2>10 DEF Region
  <2>11. Assign \/ Throw \/ Catch \/ EmissionPass => UNCHANGED active
    BY DEF Assign, Throw, Raise, Catch, EmissionPass, state
  <2>12. Leave => UNCHANGED active \/ active' = Pop(active) \/ LeaveFresh
    BY DEF Leave, LeaveIf, LeaveElse, LeaveCase, LeaveSwitch, LeaveRegion
  <2> QED
    BY <2>1, <2>2, <2>3, <2>5, <2>6, <2>7, <2>8, <2>9, <2>10, <2>11, <2>12 DEF Next
<1> QED
  BY <1>1, ChainsStayKnown, PTL DEF Spec, FirstMatchOnly

-----------------------------------------------------------------------------
(* The one-hot network of a cascade the analysis finds disjoint delivers   *)
(* what the cascade delivers: at most one mask is on at a time, and the    *)
(* complement arm, or the tail, answers exactly where none is.             *)
THEOREM OneHotExact ==
  ASSUME NEW d,
         \A i \in DOMAIN d.pairs : d.pairs[i].sel \in Condition /\ BornOut(d.pairs[i].sel),
         Disjoint(d.pairs), 1 \in DOMAIN d.pairs, DOMAIN d.pairs \subseteq Nat,
         NEW p \in Point
  PROVE  Delivers(OneHot(d), p) = Delivers(d, p)
<1> DEFINE s == SelectorOf(d)
           consts == Arms(d.pairs, "consts")
           complement == Arms(d.pairs, "complement")
           on == {i \in consts : p \in At(s, LabelsOf(d.pairs, i))}
           matching == {i \in DOMAIN d.pairs : p \in d.pairs[i].sel.on}
<1>1. /\ consts \cup complement = DOMAIN d.pairs
      /\ \A i \in DOMAIN d.pairs : d.pairs[i].sel.class.sel = s
      /\ \A i, j \in complement : i = j
      /\ \A i, j \in consts : i # j => LabelsOf(d.pairs, i) \cap LabelsOf(d.pairs, j) = {}
      /\ \A i \in complement : LabelsOf(d.pairs, i) = LabelsOfAll(d.pairs)
  BY DEF Disjoint, SameSelector, SelectorOf
<1>2. \A i \in consts : d.pairs[i].sel.on = At(s, LabelsOf(d.pairs, i))
  BY <1>1 DEF BornOut, Arms, LabelsOf
<1>3. \A i \in complement : d.pairs[i].sel.on = Point \ At(s, LabelsOfAll(d.pairs))
  BY <1>1 DEF BornOut, Arms, LabelsOf
<1>4. p \in At(s, LabelsOfAll(d.pairs)) <=> on # {}
  BY DEF At, LabelsOfAll
<1>5. matching = on \cup (IF on = {} THEN complement ELSE {})
  <2>1. \A i \in consts : i \in matching <=> i \in on
    BY <1>1, <1>2
  <2>2. \A i \in complement : i \in matching <=> on = {}
    BY <1>1, <1>3, <1>4
  <2> QED
    BY <1>1, <2>1, <2>2
<1>6. \A i, j \in matching : i = j
  <2>1. \A i, j \in on : i = j
    BY <1>1 DEF At
  <2> QED
    BY <1>1, <1>5, <2>1
<1>7. Delivers(OneHot(d), p) = IF on = {} THEN Fallback(d)[p]
                               ELSE UNION {d.pairs[i].val[p] : i \in on}
  <2>1. OneHot(d).pairs = <<>>
    BY DEF OneHot, Driver
  <2>2. OneHot(d).tail[p] = IF on = {} THEN Fallback(d)[p]
                            ELSE UNION {d.pairs[i].val[p] : i \in on}
    BY DEF OneHot, Driver
  <2> QED
    BY <2>1, <2>2 DEF Delivers
<1>8. CASE matching = {}
  <2>1. on = {} /\ complement = {}
    BY <1>5, <1>8
  <2> QED
    BY <1>7, <1>8, <2>1 DEF Delivers, Fallback
<1>9. CASE matching # {}
  <2>1. PICK k \in matching : matching = {k}
    BY <1>6, <1>9
  <2>2. k \in Nat
    BY <2>1
  <2>3. (CHOOSE i \in matching : \A j \in matching : i <= j) = k
    BY <2>1, <2>2
  <2>4. Delivers(d, p) = d.pairs[k].val[p]
    BY <1>9, <2>3 DEF Delivers
  <2>5. CASE on = {}
    <3>1. complement = {k}
      BY <1>5, <2>1, <2>5
    <3>2. Fallback(d) = d.pairs[k].val
      BY <3>1 DEF Fallback
    <3> QED
      BY <1>7, <2>4, <2>5, <3>2
  <2>6. CASE on # {}
    <3>1. on = {k}
      BY <1>5, <2>1, <2>6
    <3>2. UNION {d.pairs[i].val[p] : i \in on} = d.pairs[k].val[p]
      BY <3>1
    <3> QED
      BY <1>7, <2>4, <2>6, <3>2
  <2> QED
    BY <2>5, <2>6
<1> QED
  BY <1>8, <1>9

-----------------------------------------------------------------------------
(***************************************************************************)
(* What a cascade delivers, and what each rewrite of it delivers.          *)
(***************************************************************************)
LEMMA UpToNext == \A n \in Nat : \A j \in 1..n + 1 : j = n + 1 \/ j \in 1..n
OBVIOUS

SoundArm == [sel : {c \in Condition : BornOut(c)}, val : [Point -> Bits]]
Cascade  == [pairs : Seq(SoundArm), tail : [Point -> Bits]]

LEMMA DeliversMatch ==
  ASSUME NEW d, DOMAIN d.pairs \subseteq Nat, NEW p, NEW k \in DOMAIN d.pairs,
         p \in d.pairs[k].sel.on,
         \A j \in DOMAIN d.pairs : p \in d.pairs[j].sel.on => k <= j
  PROVE  Delivers(d, p) = d.pairs[k].val[p]
<1> DEFINE M == {i \in DOMAIN d.pairs : p \in d.pairs[i].sel.on}
<1>1. M \subseteq Nat /\ k \in M /\ \A j \in M : k <= j
  OBVIOUS
<1>2. Delivers(d, p) = IF M = {} THEN d.tail[p]
                       ELSE d.pairs[CHOOSE i \in M : \A j \in M : i <= j].val[p]
  BY DEF Delivers
<1> HIDE DEF M
<1>3. (CHOOSE i \in M : \A j \in M : i <= j) = k
  BY <1>1
<1> QED
  BY <1>1, <1>2, <1>3

LEMMA DeliversTail ==
  ASSUME NEW d, NEW p, \A j \in DOMAIN d.pairs : p \notin d.pairs[j].sel.on
  PROVE  Delivers(d, p) = d.tail[p]
BY DEF Delivers

LEMMA FirstMatch ==
  ASSUME NEW d, DOMAIN d.pairs \subseteq Nat, NEW p
  PROVE  \/ \A j \in DOMAIN d.pairs : p \notin d.pairs[j].sel.on
         \/ \E k \in DOMAIN d.pairs :
              /\ p \in d.pairs[k].sel.on
              /\ \A j \in DOMAIN d.pairs : p \in d.pairs[j].sel.on => k <= j
<1> DEFINE M == {i \in DOMAIN d.pairs : p \in d.pairs[i].sel.on}
<1>1. CASE M = {}
  BY <1>1
<1>2. CASE M # {}
  <2>1. M \in SUBSET Nat
    OBVIOUS
  <2>2. PICK k \in M : \A j \in M : k <= j
    <3> HIDE DEF M
    <3> QED
      BY <1>2, <2>1, LeastNatural
  <2> QED
    BY <2>2
<1> QED
  BY <1>1, <1>2

LEMMA CascadeArms ==
  ASSUME NEW d \in Cascade
  PROVE  /\ Len(d.pairs) \in Nat /\ DOMAIN d.pairs = 1..Len(d.pairs)
         /\ DOMAIN d.pairs \subseteq Nat
         /\ \A i \in DOMAIN d.pairs :
              /\ d.pairs[i] \in SoundArm
              /\ d.pairs[i].sel \in Condition /\ BornOut(d.pairs[i].sel)
              /\ d.pairs[i].sel.on \subseteq Point
              /\ d.pairs[i].val \in [Point -> Bits]
         /\ d.tail \in [Point -> Bits]
<1>1. d.pairs \in Seq(SoundArm) /\ d.tail \in [Point -> Bits]
  BY DEF Cascade
<1>2. Len(d.pairs) \in Nat /\ DOMAIN d.pairs = 1..Len(d.pairs)
  BY <1>1, LenProperties
<1>3. \A i \in DOMAIN d.pairs : d.pairs[i] \in SoundArm
  BY <1>1, <1>2, ElementOfSeq
<1> QED
  BY <1>1, <1>2, <1>3 DEF SoundArm, Condition

(* A cascade delivers a value. *)
LEMMA DeliversTyped ==
  ASSUME NEW d \in Cascade, NEW p \in Point
  PROVE  Delivers(d, p) \in Bits
<1>1. DOMAIN d.pairs \subseteq Nat
  BY CascadeArms
<1>2. CASE \A j \in DOMAIN d.pairs : p \notin d.pairs[j].sel.on
  BY <1>2, CascadeArms, DeliversTail
<1>3. CASE \E k \in DOMAIN d.pairs :
              /\ p \in d.pairs[k].sel.on
              /\ \A j \in DOMAIN d.pairs : p \in d.pairs[j].sel.on => k <= j
  BY <1>1, <1>3, CascadeArms, DeliversMatch
<1> QED
  BY <1>1, <1>2, <1>3, FirstMatch

(* A mux ahead of a cascade delivers its own value where its condition     *)
(* holds, and elsewhere what the cascade delivered.                        *)
LEMMA MuxDelivers ==
  ASSUME NEW d \in Cascade, NEW c \in Condition, BornOut(c), NEW v \in [Point -> Bits]
  PROVE  /\ Mux(c, v, d) \in Cascade
         /\ \A p \in Point : Delivers(Mux(c, v, d), p) =
              IF p \in c.on THEN v[p] ELSE Delivers(d, p)
<1> DEFINE m == Mux(c, v, d)
           head == Arm(c, v)
<1>1. head \in SoundArm /\ head.sel = c /\ head.val = v
  BY DEF Arm, SoundArm
<1>2. d.pairs \in Seq(SoundArm) /\ d.tail \in [Point -> Bits] /\ Len(d.pairs) \in Nat
  BY LenProperties DEF Cascade
<1>3. m.pairs = <<head>> \o d.pairs /\ m.tail = d.tail /\ m = [pairs |-> m.pairs, tail |-> m.tail]
  BY DEF Mux, Driver
<1> HIDE DEF m, head
<1>4. /\ m.pairs \in Seq(SoundArm) /\ Len(m.pairs) = Len(d.pairs) + 1
      /\ m.pairs[1] = head
      /\ \A i \in 1..Len(d.pairs) : m.pairs[i + 1] = d.pairs[i]
  <2>1. /\ <<head>> \in Seq(SoundArm) /\ Len(<<head>>) = 1 /\ <<head>>[1] = head
    BY <1>1
  <2>2. /\ <<head>> \o d.pairs \in Seq(SoundArm)
        /\ Len(<<head>> \o d.pairs) = Len(<<head>>) + Len(d.pairs)
        /\ \A i \in 1..Len(<<head>>) + Len(d.pairs) :
             (<<head>> \o d.pairs)[i] = IF i <= Len(<<head>>) THEN <<head>>[i]
                                        ELSE d.pairs[i - Len(<<head>>)]
    BY <1>2, <2>1, ConcatProperties
  <2> QED
    BY <1>2, <1>3, <2>1, <2>2
<1>5. m \in Cascade
  BY <1>2, <1>3, <1>4 DEF Cascade
<1>6. DOMAIN m.pairs = 1..Len(d.pairs) + 1 /\ DOMAIN d.pairs = 1..Len(d.pairs)
  BY <1>2, <1>4, LenProperties
<1>7. ASSUME NEW p \in Point
      PROVE  Delivers(m, p) = IF p \in c.on THEN v[p] ELSE Delivers(d, p)
  <2>1. CASE p \in c.on
    <3>1. 1 \in DOMAIN m.pairs /\ DOMAIN m.pairs \subseteq Nat /\ \A j \in DOMAIN m.pairs : 1 <= j
      BY <1>2, <1>6
    <3> QED
      BY <1>1, <1>4, <2>1, <3>1, DeliversMatch
  <2>2. CASE p \notin c.on
    <3>1. ASSUME NEW j \in DOMAIN m.pairs, p \in m.pairs[j].sel.on
          PROVE  j - 1 \in DOMAIN d.pairs /\ p \in d.pairs[j - 1].sel.on
      <4>1. j # 1
        BY <1>1, <1>4, <2>2, <3>1
      <4>2. j - 1 \in 1..Len(d.pairs) /\ (j - 1) + 1 = j
        BY <1>2, <1>6, <4>1
      <4> QED
        BY <1>4, <1>6, <3>1, <4>2
    <3>2. CASE \A j \in DOMAIN d.pairs : p \notin d.pairs[j].sel.on
      <4>1. \A j \in DOMAIN m.pairs : p \notin m.pairs[j].sel.on
        BY <3>1, <3>2
      <4>2. Delivers(m, p) = m.tail[p] /\ Delivers(d, p) = d.tail[p]
        BY <3>2, <4>1, DeliversTail, Zenon
      <4> QED
        BY <1>3, <2>2, <4>2
    <3>3. ASSUME NEW k \in DOMAIN d.pairs, p \in d.pairs[k].sel.on,
                 \A j \in DOMAIN d.pairs : p \in d.pairs[j].sel.on => k <= j
          PROVE  Delivers(m, p) = Delivers(d, p)
      <4>1. k + 1 \in DOMAIN m.pairs /\ m.pairs[k + 1] = d.pairs[k]
        BY <1>2, <1>4, <1>6, <3>3
      <4>2. ASSUME NEW j \in DOMAIN m.pairs, p \in m.pairs[j].sel.on PROVE k + 1 <= j
        <5>1. k <= j - 1
          BY <3>1, <3>3, <4>2
        <5> QED
          BY <1>6, <1>2, <3>3, <4>2, <5>1
      <4>3. DOMAIN m.pairs \subseteq Nat /\ DOMAIN d.pairs \subseteq Nat
        BY <1>2, <1>6
      <4>4. Delivers(d, p) = d.pairs[k].val[p]
        BY <3>3, <4>3, DeliversMatch
      <4>5. Delivers(m, p) = m.pairs[k + 1].val[p]
        BY <3>3, <4>1, <4>2, <4>3, DeliversMatch
      <4> QED
        BY <4>1, <4>4, <4>5
    <3>4. DOMAIN d.pairs \subseteq Nat
      BY <1>2, <1>6
    <3> QED
      BY <2>2, <3>2, <3>3, <3>4, FirstMatch
  <2> QED
    BY <2>1, <2>2
<1> QED
  BY <1>5, <1>7 DEF m

-----------------------------------------------------------------------------
(* The condition an assignment is made under. *)
SoundCondition == {c \in Condition : BornOut(c)}

IsConjunction(f) ==
  f = [i \in 1..Len(active) |->
         IF i = 1 THEN active[1].cond ELSE AndCond(f[i - 1], active[i].cond)]

LEMMA AndSound ==
  ASSUME NEW a \in SoundCondition, NEW b \in SoundCondition
  PROVE  AndCond(a, b) \in SoundCondition
<1>1. a \in Condition /\ BornOut(a) /\ b \in Condition /\ BornOut(b)
  BY DEF SoundCondition
<1>2. AndCond(a, b) \in Condition
  BY <1>1, ConditionClosed
<1>3. BornOut(AndCond(a, b))
  BY <1>1, ClassesBornOut
<1> QED
  BY <1>2, <1>3 DEF SoundCondition

LEMMA ConjunctionExists ==
  ASSUME NEW n \in Nat, Len(active) = n + 1,
         \A i \in 1..n + 1 : active[i].cond \in SoundCondition
  PROVE  \E f : IsConjunction(f)
<1> DEFINE next == [m \in 1..n |-> [x \in SoundCondition |-> AndCond(x, active[m + 1].cond)]]
           base == active[1].cond
<1>1. base \in SoundCondition
  OBVIOUS
<1>2. \A m \in 1..n : active[m + 1].cond \in SoundCondition
  OBVIOUS
<1>3. next \in [1..n -> [SoundCondition -> SoundCondition]]
  BY <1>2, AndSound
<1>4. \A m \in 1..n, x \in SoundCondition : next[m][x] = AndCond(x, active[m + 1].cond)
  OBVIOUS
<1> HIDE DEF next, base
<1>5. PICK g \in [0..n -> SoundCondition] : IsRun(g, n, base, next)
  BY <1>1, <1>3, RecursionExists
<1> DEFINE f == [i \in 1..n + 1 |-> g[i - 1]]
<1>6. ASSUME NEW i \in 1..n + 1
      PROVE  f[i] = IF i = 1 THEN active[1].cond ELSE AndCond(f[i - 1], active[i].cond)
  <2>1. CASE i = 1
    BY <1>5, <2>1 DEF IsRun, base
  <2>2. CASE i # 1
    <3>1. i - 1 \in 1..n /\ i - 2 \in 0..n /\ i - 1 \in 1..n + 1 /\ (i - 1) + 1 = i
          /\ (i - 1) - 1 = i - 2
      BY <1>6, <2>2
    <3>2. g[i - 1] = next[i - 1][g[i - 2]] /\ g[i - 2] \in SoundCondition
      BY <1>5, <3>1 DEF IsRun
    <3>3. g[i - 1] = AndCond(g[i - 2], active[i].cond)
      BY <1>4, <3>1, <3>2
    <3>4. f[i] = g[i - 1] /\ f[i - 1] = g[i - 2]
      BY <3>1
    <3> HIDE DEF f
    <3> QED
      BY <2>2, <3>3, <3>4
  <2> QED
    BY <2>1, <2>2
<1>7. f = [i \in 1..n + 1 |-> f[i]]
  OBVIOUS
<1>8. IsConjunction(f)
  <2> HIDE DEF f
  <2> QED
    BY <1>6, <1>7 DEF IsConjunction
<1> QED
  BY <1>8

(* The combined condition holds where all active conditions do, and its    *)
(* class is borne out.                                                     *)
LEMMA CombinedHolds ==
  ASSUME active \in Seq(ActiveCondition), NEW n \in Nat, Len(active) = n + 1,
         \A i \in DOMAIN active : BornOut(active[i].cond)
  PROVE  Combined \in Condition /\ BornOut(Combined) /\ Combined.on = Holding(active, n + 1)
<1> DEFINE f == CHOOSE g : IsConjunction(g)
<1>1. \A i \in 1..n + 1 : active[i].cond \in SoundCondition
  <2>1. DOMAIN active = 1..n + 1 /\ \A i \in 1..n + 1 : active[i] \in ActiveCondition
    BY LenProperties, ElementOfSeq
  <2> QED
    BY <2>1 DEF ActiveCondition, SoundCondition
<1>2. Combined = f[n + 1]
  BY DEF Combined, IsConjunction
<1>3. IsConjunction(f)
  BY <1>1, ConjunctionExists
<1> HIDE DEF f
<1>4. \A i \in 1..n + 1 : f[i] = IF i = 1 THEN active[1].cond
                                 ELSE AndCond(f[i - 1], active[i].cond)
  BY <1>3 DEF IsConjunction
<1> DEFINE S == {m \in Nat : f[m + 1] \in SoundCondition
                             /\ f[m + 1].on = Holding(active, m + 1)}
<1>5. 0 \in S
  <2>1. f[1] = active[1].cond /\ active[1].cond \in SoundCondition
    BY <1>1, <1>4
  <2>2. active[1].cond.on \subseteq Point
    BY <2>1 DEF SoundCondition, Condition
  <2>3. Holding(active, 1) = active[1].cond.on
    BY <2>2 DEF Holding
  <2> QED
    BY <2>1, <2>3
<1>6. ASSUME NEW m \in 0..n - 1, m \in S
      PROVE  m + 1 \in S
  <2>1. m + 2 \in 1..n + 1 /\ m + 2 # 1 /\ (m + 2) - 1 = m + 1 /\ (m + 1) + 1 = m + 2
        /\ m + 1 \in Nat
    BY <1>6
  <2>2. f[m + 2] = AndCond(f[m + 1], active[m + 2].cond)
    BY <1>4, <2>1
  <2>3. f[m + 2] \in SoundCondition
    BY <1>1, <1>6, <2>1, <2>2, AndSound
  <2>4. f[m + 2].on = f[m + 1].on \cap active[m + 2].cond.on
    BY <2>2 DEF AndCond
  <2>5. Holding(active, m + 2) = Holding(active, m + 1) \cap active[m + 2].cond.on
    <3>1. 1..m + 2 = (1..m + 1) \cup {m + 2}
      BY <1>6
    <3> QED
      BY <3>1 DEF Holding
  <2>6. f[m + 1].on = Holding(active, m + 1)
    BY <1>6
  <2> QED
    BY <2>1, <2>3, <2>4, <2>5, <2>6
<1>7. \A m \in 0..n : m \in S
  <2> HIDE DEF S
  <2> QED
    BY <1>5, <1>6, BoundedInduction
<1>8. n \in S
  <2> HIDE DEF S
  <2> QED
    BY <1>7
<1> QED
  BY <1>2, <1>8 DEF SoundCondition

-----------------------------------------------------------------------------
(* build_tournament. *)
LEMMA MergedSound ==
  ASSUME NEW l \in SoundArm, NEW r \in SoundArm
  PROVE  /\ Merged(l, r) \in SoundArm
         /\ Merged(l, r).sel.on = l.sel.on \cup r.sel.on
         /\ \A p \in Point : Merged(l, r).val[p] = IF p \in l.sel.on THEN l.val[p] ELSE r.val[p]
<1>1. /\ l.sel \in Condition /\ BornOut(l.sel) /\ l.val \in [Point -> Bits]
      /\ r.sel \in Condition /\ BornOut(r.sel) /\ r.val \in [Point -> Bits]
  BY DEF SoundArm
<1>2. OrCond(l.sel, r.sel) \in Condition /\ BornOut(OrCond(l.sel, r.sel))
  BY <1>1, ConditionClosed, ClassesBornOut, Zenon
<1>3. Muxed(l.sel, l.val, r.val) \in [Point -> Bits]
  BY <1>1 DEF Muxed
<1>4. Merged(l, r) = [sel |-> OrCond(l.sel, r.sel), val |-> Muxed(l.sel, l.val, r.val)]
  BY DEF Merged, Arm
<1>5. Merged(l, r) \in SoundArm
  BY <1>2, <1>3, <1>4 DEF SoundArm
<1>6. OrCond(l.sel, r.sel).on = l.sel.on \cup r.sel.on
  BY DEF OrCond
<1>7. \A p \in Point : Muxed(l.sel, l.val, r.val)[p] = IF p \in l.sel.on THEN l.val[p] ELSE r.val[p]
  BY DEF Muxed
<1> QED
  BY <1>4, <1>5, <1>6, <1>7

LEMMA HalfOf ==
  ASSUME NEW n \in Nat \ {0}
  PROVE  /\ (n + 1) \div 2 \in Nat \ {0} /\ (n + 1) \div 2 <= n
         /\ n > 1 => (n + 1) \div 2 < n
         /\ \A i \in 1..((n + 1) \div 2) : 2 * i - 1 \in 1..n
         /\ \A i \in 1..((n + 1) \div 2) : 2 * i > n => 2 * i - 1 = n
         /\ \A i \in 1..((n + 1) \div 2) : ~(2 * i > n) => 2 * i \in 1..n
         /\ \A k \in 1..n : \E i \in 1..((n + 1) \div 2) : k = 2 * i - 1 \/ k = 2 * i
<1>1. \A k \in 1..n : (k + 1) \div 2 \in 1..((n + 1) \div 2)
                      /\ (k = 2 * ((k + 1) \div 2) - 1 \/ k = 2 * ((k + 1) \div 2))
  OBVIOUS
<1>2. /\ (n + 1) \div 2 \in Nat \ {0} /\ (n + 1) \div 2 <= n
      /\ n > 1 => (n + 1) \div 2 < n
  OBVIOUS
<1>3. ASSUME NEW i \in 1..((n + 1) \div 2)
      PROVE  /\ 2 * i - 1 \in 1..n
             /\ 2 * i > n => 2 * i - 1 = n
             /\ ~(2 * i > n) => 2 * i \in 1..n
  OBVIOUS
<1>4. \A k \in 1..n : \E i \in 1..((n + 1) \div 2) : k = 2 * i - 1 \/ k = 2 * i
  BY <1>1, Zenon
<1> QED
  BY <1>2, <1>3, <1>4

(* A round of the tournament keeps what the cascade delivers. *)
LEMMA RoundExact ==
  ASSUME NEW items \in Seq(SoundArm), items # <<>>, NEW tail \in [Point -> Bits]
  PROVE  /\ MergeRound(items) \in Seq(SoundArm)
         /\ Len(MergeRound(items)) = (Len(items) + 1) \div 2
         /\ \A p \in Point : Delivers(Driver(MergeRound(items), tail), p) =
                               Delivers(Driver(items, tail), p)
<1> DEFINE n == Len(items)
           h == (n + 1) \div 2
           merged == MergeRound(items)
<1>1. n \in Nat \ {0} /\ DOMAIN items = 1..n
  BY EmptySeq, LenProperties
<1>2. \A i \in 1..n : items[i] \in SoundArm
  BY ElementOfSeq
<1>3. ASSUME NEW i \in 1..h
      PROVE  /\ 2 * i - 1 \in 1..n
             /\ 2 * i > n => 2 * i - 1 = n
             /\ ~(2 * i > n) => 2 * i \in 1..n
  <2> HIDE DEF n
  <2> QED
    BY <1>1, HalfOf
<1>4. ASSUME NEW i \in 1..h
      PROVE  /\ 2 * i > n => merged[i] = items[2 * i - 1]
             /\ ~(2 * i > n) => merged[i] = Merged(items[2 * i - 1], items[2 * i])
  <2>1. merged = [k \in 1..h |-> IF 2 * k > n THEN items[2 * k - 1]
                                 ELSE Merged(items[2 * k - 1], items[2 * k])]
    BY DEF MergeRound
  <2> HIDE DEF merged, h, n
  <2> QED
    BY <2>1
<1>5. h \in Nat \ {0}
  <2> HIDE DEF n
  <2> QED
    BY <1>1, HalfOf
<1>6. DOMAIN merged = 1..h
  BY DEF MergeRound
<1> HIDE DEF merged, h, n
<1>7. ASSUME NEW i \in 1..h PROVE merged[i] \in SoundArm
  <2>1. CASE 2 * i > n
    BY <1>2, <1>3, <1>4, <2>1
  <2>2. CASE ~(2 * i > n)
    <3>1. items[2 * i - 1] \in SoundArm /\ items[2 * i] \in SoundArm
      BY <1>2, <1>3, <2>2
    <3> QED
      BY <1>4, <2>2, <3>1, MergedSound
  <2> QED
    BY <2>1, <2>2
<1>8. merged \in Seq(SoundArm) /\ Len(merged) = h
  <2>1. merged = [i \in 1..h |-> merged[i]]
    BY <1>6 DEF merged, MergeRound, h, n
  <2>2. merged \in [1..h -> SoundArm]
    BY <1>7, <2>1
  <2> QED
    <3>1. merged \in Seq(SoundArm)
      BY <1>5, <2>2, SeqDef
    <3>2. DOMAIN merged = 1..Len(merged) /\ Len(merged) \in Nat
      BY <3>1, LenProperties
    <3> QED
      BY <1>5, <1>6, <3>1, <3>2
<1>9. ASSUME NEW i \in 1..h, NEW p \in Point
      PROVE  /\ p \in merged[i].sel.on <=>
                  \/ p \in items[2 * i - 1].sel.on
                  \/ ~(2 * i > n) /\ p \in items[2 * i].sel.on
             /\ p \in items[2 * i - 1].sel.on => merged[i].val[p] = items[2 * i - 1].val[p]
             /\ p \notin items[2 * i - 1].sel.on /\ ~(2 * i > n) =>
                  merged[i].val[p] = items[2 * i].val[p]
  <2>1. CASE 2 * i > n
    BY <1>4, <2>1
  <2>2. CASE ~(2 * i > n)
    <3>1. items[2 * i - 1] \in SoundArm /\ items[2 * i] \in SoundArm
      BY <1>2, <1>3, <2>2
    <3>2. merged[i] = Merged(items[2 * i - 1], items[2 * i])
      BY <1>4, <2>2
    <3> QED
      BY <2>2, <3>1, <3>2, MergedSound
  <2> QED
    BY <2>1, <2>2
<1>10. ASSUME NEW p \in Point
       PROVE  Delivers(Driver(merged, tail), p) = Delivers(Driver(items, tail), p)
  <2> DEFINE d == Driver(items, tail)
             m == Driver(merged, tail)
  <2>1. d.pairs = items /\ m.pairs = merged /\ d.tail = tail /\ m.tail = tail
    BY DEF Driver
  <2>2. DOMAIN d.pairs \subseteq Nat /\ DOMAIN m.pairs \subseteq Nat
    BY <1>1, <1>5, <1>6, <2>1
  <2> HIDE DEF d, m
  <2>3. CASE \A j \in DOMAIN d.pairs : p \notin d.pairs[j].sel.on
    <3>1. ASSUME NEW i \in 1..h PROVE p \notin merged[i].sel.on
      <4>1. \A l \in 1..n : p \notin items[l].sel.on
        BY <1>1, <2>1, <2>3
      <4>2. p \notin items[2 * i - 1].sel.on
        BY <1>3, <4>1
      <4>3. ~(2 * i > n) => p \notin items[2 * i].sel.on
        BY <1>3, <4>1
      <4> QED
        BY <1>9, <4>2, <4>3
    <3>2. Delivers(d, p) = tail[p]
      BY <2>1, <2>3, DeliversTail
    <3>3. Delivers(m, p) = tail[p]
      BY <1>6, <2>1, <3>1, DeliversTail
    <3> QED
      BY <3>2, <3>3 DEF d, m
  <2>4. ASSUME NEW k \in DOMAIN d.pairs, p \in d.pairs[k].sel.on,
               \A j \in DOMAIN d.pairs : p \in d.pairs[j].sel.on => k <= j
        PROVE  Delivers(m, p) = Delivers(d, p)
    <3>1. PICK i \in 1..h : k = 2 * i - 1 \/ k = 2 * i
      <4>1. k \in 1..n
        BY <1>1, <2>1, <2>4
      <4> QED
        BY <1>1, <4>1, HalfOf DEF h
    <3>2. k \in 1..n /\ i \in DOMAIN m.pairs
      BY <1>1, <1>6, <2>1, <2>4
    <3>3. p \in merged[i].sel.on /\ merged[i].val[p] = items[k].val[p]
      <4>1. CASE k = 2 * i - 1
        BY <1>9, <2>1, <2>4, <4>1
      <4>2. CASE k = 2 * i
        <5>1. ~(2 * i > n) /\ 2 * i - 1 \in 1..n /\ ~(k <= 2 * i - 1)
          BY <1>1, <1>3, <3>2, <4>2
        <5>2. p \notin items[2 * i - 1].sel.on
          BY <1>1, <2>1, <2>4, <5>1
        <5> QED
          BY <1>9, <2>1, <2>4, <4>2, <5>1, <5>2
      <4> QED
        BY <3>1, <4>1, <4>2
    <3>4. ASSUME NEW j \in 1..h, p \in merged[j].sel.on PROVE i <= j
      <4>1. \E l \in 1..n : p \in items[l].sel.on /\ (l = 2 * j - 1 \/ l = 2 * j)
        BY <1>3, <1>9, <3>4
      <4>2. PICK l \in 1..n : p \in items[l].sel.on /\ (l = 2 * j - 1 \/ l = 2 * j)
        BY <4>1
      <4>3. k <= l
        BY <1>1, <2>1, <2>4, <4>2
      <4> QED
        BY <3>1, <4>2, <4>3
    <3>7. p \in m.pairs[i].sel.on /\ \A j \in DOMAIN m.pairs : p \in m.pairs[j].sel.on => i <= j
      BY <1>6, <2>1, <3>3, <3>4
    <3>5. Delivers(m, p) = m.pairs[i].val[p]
      BY <2>2, <3>2, <3>7, DeliversMatch
    <3>6. Delivers(d, p) = d.pairs[k].val[p]
      BY <2>2, <2>4, DeliversMatch
    <3> QED
      BY <2>1, <3>3, <3>5, <3>6
  <2> QED
    BY <2>2, <2>3, <2>4, FirstMatch DEF d, m
<1> QED
  BY <1>8, <1>10 DEF merged, h, n

IsRounds(f, pairs) ==
  f = [n \in 0..Len(pairs) |-> IF n = 0 THEN pairs ELSE MergeRound(f[n - 1])]

Contenders == {q \in Seq(SoundArm) : q # <<>>}

LEMMA RoundContends ==
  ASSUME NEW q \in Contenders
  PROVE  MergeRound(q) \in Contenders
<1>1. q \in Seq(SoundArm) /\ q # <<>>
  BY DEF Contenders
<1>2. Len(q) \in Nat \ {0}
  BY <1>1, EmptySeq, LenProperties
<1>3. (Len(q) + 1) \div 2 \in Nat \ {0}
  BY <1>2
<1>4. [p \in Point |-> {}] \in [Point -> Bits]
  BY DEF Bits
<1>5. MergeRound(q) \in Seq(SoundArm) /\ Len(MergeRound(q)) = (Len(q) + 1) \div 2
  BY <1>1, <1>4, RoundExact
<1>6. MergeRound(q) # <<>>
  BY <1>3, <1>5, EmptySeq
<1> QED
  BY <1>5, <1>6 DEF Contenders

LEMMA RoundsExist ==
  ASSUME NEW pairs \in Contenders
  PROVE  \E f \in [0..Len(pairs) -> Contenders] : IsRounds(f, pairs)
<1> DEFINE n == Len(pairs)
           next == [m \in 1..n |-> [q \in Contenders |-> MergeRound(q)]]
<1>1. n \in Nat
  BY LenProperties DEF Contenders
<1>2. next \in [1..n -> [Contenders -> Contenders]]
  BY RoundContends
<1>3. \A m \in 1..n, q \in Contenders : next[m][q] = MergeRound(q)
  OBVIOUS
<1> HIDE DEF next, n
<1>4. PICK f \in [0..n -> Contenders] : IsRun(f, n, pairs, next)
  BY <1>1, <1>2, RecursionExists
<1>5. ASSUME NEW m \in 0..n
      PROVE  f[m] = IF m = 0 THEN pairs ELSE MergeRound(f[m - 1])
  <2>1. CASE m = 0
    BY <1>4, <2>1 DEF IsRun
  <2>2. CASE m # 0
    <3>1. m \in 1..n /\ m - 1 \in 0..n
      BY <1>1, <2>2
    <3> QED
      BY <1>3, <1>4, <2>2, <3>1 DEF IsRun
  <2> QED
    BY <2>1, <2>2
<1>6. f = [m \in 0..n |-> IF m = 0 THEN pairs ELSE MergeRound(f[m - 1])]
  BY <1>4, <1>5
<1>7. IsRounds(f, pairs)
  BY <1>6 DEF IsRounds, n
<1> QED
  BY <1>4, <1>7 DEF n

(* build_tournament delivers what the cascade delivers. *)
LEMMA TournamentExact ==
  ASSUME NEW d \in Cascade, d.pairs # <<>>
  PROVE  /\ Tournament(d) \in Cascade
         /\ \A p \in Point : Delivers(Tournament(d), p) = Delivers(d, p)
<1> DEFINE n == Len(d.pairs)
           f == CHOOSE g : IsRounds(g, d.pairs)
<1>1. Tournament(d) = Driver(<<f[n][1]>>, d.tail)
  BY DEF Tournament, IsRounds
<1>2. d.pairs \in Contenders /\ d.tail \in [Point -> Bits] /\ d = Driver(d.pairs, d.tail)
  BY DEF Contenders, Cascade, Driver
<1>3. IsRounds(f, d.pairs)
  BY <1>2, RoundsExist
<1>4. n \in Nat \ {0}
  BY <1>2, EmptySeq, LenProperties DEF Contenders
<1> HIDE DEF f
<1>5. \A m \in 0..n : f[m] = IF m = 0 THEN d.pairs ELSE MergeRound(f[m - 1])
  BY <1>3 DEF IsRounds
<1> DEFINE Kept(q) == \A p \in Point : Delivers(Driver(q, d.tail), p) = Delivers(d, p)
           S == {m \in Nat : /\ f[m] \in Contenders /\ Kept(f[m])
                             /\ Len(f[m]) = 1 \/ Len(f[m]) + m <= n}
<1>6. 0 \in S
  <2>1. f[0] = d.pairs
    BY <1>4, <1>5
  <2>2. Kept(d.pairs)
    BY <1>2
  <2> HIDE DEF Kept
  <2> QED
    BY <1>2, <1>4, <2>1, <2>2
<1>7. ASSUME NEW m \in 0..n - 1, m \in S
      PROVE  m + 1 \in S
  <2>1. f[m] \in Seq(SoundArm) /\ f[m] # <<>> /\ Kept(f[m])
        /\ (Len(f[m]) = 1 \/ Len(f[m]) + m <= n)
    BY <1>7 DEF Contenders
  <2>2. f[m + 1] = MergeRound(f[m])
    <3>1. m + 1 \in 0..n /\ m + 1 # 0 /\ (m + 1) - 1 = m
      BY <1>4
    <3> QED
      BY <1>5, <3>1
  <2>3. /\ f[m + 1] \in Seq(SoundArm)
        /\ Len(f[m + 1]) = (Len(f[m]) + 1) \div 2
        /\ \A p \in Point : Delivers(Driver(f[m + 1], d.tail), p) =
                              Delivers(Driver(f[m], d.tail), p)
    BY <1>2, <2>1, <2>2, RoundExact
  <2>4. Kept(f[m + 1])
    BY <2>1, <2>3
  <2>5. f[m + 1] \in Contenders
    BY <1>7, <2>2, RoundContends
  <2>6. Len(f[m]) \in Nat \ {0}
    BY <2>1, EmptySeq, LenProperties
  <2>7. Len(f[m + 1]) = 1 \/ Len(f[m + 1]) + (m + 1) <= n
    <3> DEFINE l == Len(f[m])
               l2 == Len(f[m + 1])
    <3>1. /\ n \in Nat /\ m \in Nat /\ l \in Nat \ {0}
          /\ l2 = (l + 1) \div 2 /\ (l = 1 \/ l + m <= n)
      BY <1>4, <2>1, <2>3, <2>6
    <3> HIDE DEF n, l, l2
    <3>2. l2 = 1 \/ l2 + (m + 1) <= n
      BY <3>1
    <3> QED
      BY <3>2 DEF l2
  <2>8. m + 1 \in Nat
    BY <1>4
  <2> HIDE DEF Kept, n
  <2> QED
    BY <2>4, <2>5, <2>7, <2>8
<1>8. n \in S
  <2> HIDE DEF S
  <2>1. \A m \in 0..n : m \in S
    BY <1>4, <1>6, <1>7, BoundedInduction
  <2> QED
    BY <1>4, <2>1
<1>9. f[n] \in Seq(SoundArm) /\ Len(f[n]) = 1 /\ Kept(f[n])
  <2>1. f[n] \in Seq(SoundArm) /\ f[n] # <<>> /\ Kept(f[n])
        /\ (Len(f[n]) = 1 \/ Len(f[n]) + n <= n)
    BY <1>8 DEF Contenders
  <2>2. Len(f[n]) \in Nat \ {0}
    BY <2>1, EmptySeq, LenProperties
  <2> DEFINE l == Len(f[n])
  <2>3. l \in Nat \ {0} /\ n \in Nat /\ (l = 1 \/ l + n <= n)
    BY <1>4, <2>1, <2>2
  <2> HIDE DEF Kept, n, l
  <2>4. l = 1
    BY <2>3
  <2> QED
    BY <2>1, <2>4 DEF l
<1>10. f[n] = <<f[n][1]>> /\ f[n][1] \in SoundArm
  <2>1. f[n][1] \in SoundArm
    BY <1>9, ElementOfSeq
  <2>2. <<f[n][1]>> \in Seq(SoundArm) /\ Len(<<f[n][1]>>) = 1 /\ <<f[n][1]>>[1] = f[n][1]
    BY <2>1
  <2>3. \A i \in 1..1 : f[n][i] = <<f[n][1]>>[i]
    BY <2>2
  <2> HIDE DEF n
  <2> QED
    BY <1>9, <2>1, <2>2, <2>3, SeqEqual
<1>11. Tournament(d) = Driver(f[n], d.tail)
  BY <1>1, <1>10
<1>12. Driver(f[n], d.tail) \in Cascade
  BY <1>2, <1>9 DEF Driver, Cascade
<1> QED
  BY <1>9, <1>11, <1>12

-----------------------------------------------------------------------------
(* build_onehot. *)
(* The arms of a cascade found disjoint that name the selector's value at p *)
(* are at most one, and it answers; where there is none, the fallback does.  *)
Named(d, c) == {i \in Arms(d.pairs, "consts") : c \in LabelsOf(d.pairs, i)}

Leaf(d, c) == IF Named(d, c) = {} THEN Fallback(d)
              ELSE d.pairs[CHOOSE i \in Named(d, c) : TRUE].val

LEMMA DisjointShape ==
  ASSUME NEW d \in Cascade, Disjoint(d.pairs)
  PROVE  /\ DOMAIN d.pairs \subseteq Nat /\ 1 \in DOMAIN d.pairs
         /\ \A i \in DOMAIN d.pairs : d.pairs[i].sel \in Condition /\ BornOut(d.pairs[i].sel)
         /\ \A i \in DOMAIN d.pairs : d.pairs[i].sel.class.sel = SelectorOf(d)
         /\ SelectorOf(d) \in Selector
<1>1. /\ DOMAIN d.pairs \subseteq Nat
      /\ \A i \in DOMAIN d.pairs : d.pairs[i].sel \in Condition /\ BornOut(d.pairs[i].sel)
  BY CascadeArms
<1>2. 1 \in DOMAIN d.pairs
  <2>1. d.pairs # <<>> /\ d.pairs \in Seq(SoundArm)
    BY DEF Disjoint, Cascade
  <2> QED
    BY <2>1, EmptySeq, LenProperties
<1>3. \A i \in DOMAIN d.pairs : d.pairs[i].sel.class.sel = SelectorOf(d)
  BY <1>2 DEF Disjoint, SameSelector, SelectorOf
<1>4. SelectorOf(d) \in Selector
  BY <1>1, <1>2, <1>3 DEF Disjoint, BornOut, Arms
<1> QED
  BY <1>1, <1>2, <1>3, <1>4

LEMMA LeafExact ==
  ASSUME NEW d \in Cascade, Disjoint(d.pairs), NEW p \in Point
  PROVE  Delivers(d, p) = Leaf(d, Read[SelectorOf(d)][p])[p]
<1> DEFINE s == SelectorOf(d)
           consts == Arms(d.pairs, "consts")
           complement == Arms(d.pairs, "complement")
           on == Named(d, Read[s][p])
           matching == {i \in DOMAIN d.pairs : p \in d.pairs[i].sel.on}
<1>1. /\ consts \cup complement = DOMAIN d.pairs
      /\ \A i, j \in complement : i = j
      /\ \A i, j \in consts : i # j => LabelsOf(d.pairs, i) \cap LabelsOf(d.pairs, j) = {}
      /\ \A i \in complement : LabelsOf(d.pairs, i) = LabelsOfAll(d.pairs)
  BY DEF Disjoint
<1>2. /\ DOMAIN d.pairs \subseteq Nat
      /\ \A i \in DOMAIN d.pairs : d.pairs[i].sel \in Condition /\ BornOut(d.pairs[i].sel)
      /\ \A i \in DOMAIN d.pairs : d.pairs[i].sel.class.sel = s
  BY DisjointShape
<1>5. \A i \in consts : d.pairs[i].sel.on = At(s, LabelsOf(d.pairs, i))
  BY <1>2 DEF BornOut, Arms, LabelsOf
<1>6. \A i \in complement : d.pairs[i].sel.on = Point \ At(s, LabelsOfAll(d.pairs))
  BY <1>1, <1>2 DEF BornOut, Arms, LabelsOf
<1>7. p \in At(s, LabelsOfAll(d.pairs)) <=> on # {}
  BY DEF At, LabelsOfAll, Named
<1>8. matching = on \cup (IF on = {} THEN complement ELSE {})
  <2>1. \A i \in consts : i \in matching <=> i \in on
    BY <1>1, <1>5 DEF Named, At
  <2>2. \A i \in complement : i \in matching <=> on = {}
    BY <1>1, <1>6, <1>7
  <2>3. on \subseteq consts
    BY DEF Named
  <2> QED
    BY <1>1, <2>1, <2>2, <2>3
<1>9. \A i, j \in on : i = j
  BY <1>1 DEF Named
<1>10. \A i, j \in matching : i = j
  BY <1>1, <1>8, <1>9
<1>11. CASE matching = {}
  <2>1. on = {} /\ complement = {}
    BY <1>8, <1>11
  <2> QED
    BY <1>11, <2>1 DEF Delivers, Fallback, Leaf
<1>12. CASE matching # {}
  <2>1. PICK k \in matching : matching = {k}
    BY <1>10, <1>12
  <2>2. k \in Nat
    BY <1>2, <2>1
  <2>3. Delivers(d, p) = d.pairs[k].val[p]
    BY <1>2, <2>1, <2>2, DeliversMatch
  <2>4. CASE on = {}
    <3>1. complement = {k}
      BY <1>8, <2>1, <2>4
    <3> QED
      BY <2>3, <2>4, <3>1 DEF Fallback, Leaf
  <2>5. CASE on # {}
    <3>1. on = {k}
      BY <1>8, <2>1, <2>5
    <3>2. (CHOOSE i \in on : TRUE) = k
      BY <3>1
    <3> QED
      BY <2>3, <2>5, <3>2 DEF Leaf
  <2> QED
    BY <2>4, <2>5
<1> QED
  BY <1>11, <1>12

LEMMA LeafTyped ==
  ASSUME NEW d \in Cascade, NEW c
  PROVE  Leaf(d, c) \in [Point -> Bits] /\ Fallback(d) \in [Point -> Bits]
<1>1. /\ \A i \in DOMAIN d.pairs : d.pairs[i].val \in [Point -> Bits]
      /\ d.tail \in [Point -> Bits]
  BY CascadeArms
<1>2. Fallback(d) \in [Point -> Bits]
  BY <1>1 DEF Fallback, Arms
<1> QED
  BY <1>1, <1>2 DEF Leaf, Named, Arms

(* build_onehot yields a cascade that delivers what the cascade delivered. *)
LEMMA OneHotDelivers ==
  ASSUME NEW d \in Cascade, Disjoint(d.pairs)
  PROVE  /\ OneHot(d) \in Cascade
         /\ \A p \in Point : Delivers(OneHot(d), p) = Delivers(d, p)
<1>3. \A p \in Point : Delivers(OneHot(d), p) = Delivers(d, p)
  BY DisjointShape, OneHotExact
<1>4. OneHot(d) = [pairs |-> <<>>, tail |-> [p \in Point |-> OneHot(d).tail[p]]]
  BY DEF OneHot, Driver
<1>5. ASSUME NEW p \in Point PROVE OneHot(d).tail[p] \in Bits
  <2>1. DOMAIN OneHot(d).pairs = {}
    BY <1>4
  <2>2. Delivers(OneHot(d), p) = OneHot(d).tail[p]
    BY <2>1, DeliversTail
  <2> QED
    BY <1>3, <2>2, DeliversTyped
<1>6. OneHot(d) \in Cascade
  BY <1>4, <1>5, EmptySeq DEF Cascade
<1> QED
  BY <1>3, <1>6

-----------------------------------------------------------------------------
(* build_bittree. *)
LEMMA PowerSteps ==
  ASSUME NEW s \in Selector, NEW b \in 0..Width[s] - 1
  PROVE  2 ^ b \in Nat \ {0} /\ 2 ^ (b + 1) = 2 * 2 ^ b
BY PowerAssumption

LEMMA HalfSplit ==
  ASSUME NEW v \in Nat, NEW x \in Nat \ {0}, v < 2 * x
  PROVE  /\ (v \div x) % 2 = 1 => v = x + (v % x)
         /\ (v \div x) % 2 # 1 => v < x
<1>1. (v \div x) % 2 = 1 => v >= x /\ v % x = v - x
  OBVIOUS
<1>2. (v \div x) % 2 # 1 => v < x
  OBVIOUS
<1> DEFINE rest == v % x
           bit == (v \div x) % 2
<1>3. rest \in Int
  OBVIOUS
<1>4. (bit = 1 => rest = v - x) /\ (bit # 1 => v < x)
  BY <1>1, <1>2
<1> HIDE DEF rest, bit
<1>5. bit = 1 => v = x + rest
  BY <1>3, <1>4
<1>6. bit # 1 => v < x
  BY <1>4
<1> QED
  BY <1>5, <1>6, Zenon DEF rest, bit

BitSet(v, b) == (v \div (2 ^ b)) % 2 = 1

(* The first bit that is set, read downwards, leaves the value below it. *)
LEMMA HighestBit ==
  ASSUME NEW s \in Selector, NEW v \in Nat, v < 2 ^ Width[s]
  PROVE  \/ v = 0 /\ \A j \in 1..Width[s] : ~BitSet(v, Width[s] - j)
         \/ \E i \in 1..Width[s] :
              /\ BitSet(v, Width[s] - i)
              /\ \A j \in 1..i - 1 : ~BitSet(v, Width[s] - j)
              /\ v = 2 ^ (Width[s] - i) + (v % (2 ^ (Width[s] - i)))
<1> DEFINE w == Width[s]
           Top1(i) == /\ BitSet(v, w - i)
                      /\ \A j \in 1..i - 1 : ~BitSet(v, w - j)
                      /\ v = 2 ^ (w - i) + (v % (2 ^ (w - i)))
           Clear(i) == v < 2 ^ (w - i) /\ \A j \in 1..i : ~BitSet(v, w - j)
           S == {i \in Nat : Clear(i) \/ \E j \in 1..w : Top1(j)}
<1>1. w \in Nat \ {0}
  BY EmissionAssumption
<1>2. 0 \in S
  <2>1. w - 0 = w
    BY <1>1
  <2> QED
    BY <2>1
<1>3. ASSUME NEW i \in 0..w - 1, i \in S
      PROVE  i + 1 \in S
  <2> HIDE DEF w
  <2>1. CASE Clear(i)
    <3> DEFINE b == w - (i + 1)
    <3>1. b \in 0..w - 1 /\ w - i = b + 1 /\ i + 1 \in 1..w /\ i + 1 \in Nat /\ (i + 1) - 1 = i
      BY <1>1
    <3>2. 2 ^ b \in Nat \ {0} /\ 2 ^ (b + 1) = 2 * 2 ^ b
      <4> HIDE DEF b
      <4> QED
        BY <3>1, PowerSteps DEF w
    <3>3. v < 2 * 2 ^ b
      BY <2>1, <3>1, <3>2
    <3>4. /\ BitSet(v, b) => v = 2 ^ b + (v % (2 ^ b))
          /\ ~BitSet(v, b) => v < 2 ^ b
      <4> HIDE DEF b
      <4> QED
        BY <3>2, <3>3, HalfSplit DEF BitSet
    <3>5. \A j \in 1..i : ~BitSet(v, w - j)
      BY <2>1
    <3>6. CASE BitSet(v, b)
      <4>1. Top1(i + 1)
        BY <3>1, <3>4, <3>5, <3>6
      <4> HIDE DEF Top1
      <4> QED
        BY <3>1, <4>1
    <3>7. CASE ~BitSet(v, b)
      <4>1. ASSUME NEW j \in 1..i + 1 PROVE ~BitSet(v, w - j)
        <5>1. i \in Nat
          OBVIOUS
        <5>2. j = i + 1 \/ j \in 1..i
          BY <5>1, <4>1, UpToNext, Zenon
        <5> QED
          BY <3>5, <3>7, <5>2
      <4>2. Clear(i + 1)
        BY <3>4, <3>7, <4>1
      <4> HIDE DEF Clear
      <4> QED
        BY <3>1, <4>2
    <3> QED
      BY <3>6, <3>7
  <2>2. CASE \E j \in 1..w : Top1(j)
    <3> HIDE DEF Top1, Clear
    <3> QED
      BY <2>2
  <2> QED
    BY <1>3, <2>1, <2>2
<1>4. w \in S
  <2> HIDE DEF S, w
  <2>1. \A i \in 0..w : i \in S
    BY <1>1, <1>2, <1>3, BoundedInduction
  <2> QED
    BY <1>1, <2>1
<1>5. CASE Clear(w)
  <2>1. w - w = 0 /\ 2 ^ 0 = 1
    BY <1>1
  <2>2. v < 2 ^ (w - w)
    BY <1>5
  <2>3. v < 1
    <3> HIDE DEF w
    <3> QED
      BY <2>1, <2>2
  <2> QED
    BY <1>5, <2>3
<1> QED
  BY <1>4, <1>5

(* build_bittree delivers what a disjoint cascade delivers. *)
LEMMA BitTreeExact ==
  ASSUME NEW d \in Cascade, Disjoint(d.pairs)
  PROVE  /\ BitTree(d) \in Cascade
         /\ \A p \in Point : Delivers(BitTree(d), p) = Delivers(d, p)
<1> DEFINE s == SelectorOf(d)
           w == Width[s]
           set(b) == {p \in Point : BitSet(Read[s][p], b)}
           half(b) == [p \in Point |-> Leaf(d, (2 ^ b) + (Read[s][p] % (2 ^ b)))[p]]
           arms == [i \in 1..w |-> Arm(OpaqueCondition(set(w - i)), half(w - i))]
           tree == BitTree(d)
<1>1. tree = Driver(arms, Leaf(d, 0))
  BY DEF BitTree, Leaf, Named, BitSet
<1>2. \A c : Leaf(d, c) \in [Point -> Bits]
  BY LeafTyped
<1>3. \A b : half(b) \in [Point -> Bits]
  BY <1>2
<1>4. \A b : OpaqueCondition(set(b)) \in Condition /\ BornOut(OpaqueCondition(set(b)))
  BY DEF OpaqueCondition, Condition, Class, Kind, Opaque, BornOut
<1>5. s \in Selector /\ w \in Nat \ {0}
  BY DisjointShape, EmissionAssumption
<1>6. ASSUME NEW i \in 1..w PROVE arms[i] \in SoundArm
  BY <1>3, <1>4 DEF Arm, SoundArm
<1>7. arms \in Seq(SoundArm) /\ DOMAIN arms = 1..w
  <2> HIDE DEF w
  <2>1. arms \in [1..w -> SoundArm]
    BY <1>6
  <2>2. w \in Nat
    BY <1>5 DEF w
  <2> HIDE DEF arms
  <2> QED
    BY <2>1, <2>2, SeqDef
<1>8. tree.pairs = arms /\ tree.tail = Leaf(d, 0) /\ tree \in Cascade
  <2> HIDE DEF arms, tree, w, s
  <2>1. tree = [pairs |-> arms, tail |-> Leaf(d, 0)]
    BY <1>1 DEF Driver
  <2> QED
    BY <1>2, <1>7, <2>1 DEF Cascade
<1>10. ASSUME NEW i \in 1..w, NEW p \in Point
       PROVE  /\ p \in arms[i].sel.on <=> BitSet(Read[s][p], w - i)
              /\ arms[i].val[p] = Leaf(d, (2 ^ (w - i)) + (Read[s][p] % (2 ^ (w - i))))[p]
  BY DEF Arm, OpaqueCondition
<1> HIDE DEF s, w, arms, tree
<1>11. ASSUME NEW p \in Point PROVE Delivers(tree, p) = Delivers(d, p)
  <2> DEFINE v == Read[s][p]
  <2>1. v \in Nat /\ v < 2 ^ w
    BY <1>5, EmissionAssumption, AnalysisAssumption DEF w
  <2>2. Delivers(d, p) = Leaf(d, v)[p]
    BY LeafExact DEF s
  <2> HIDE DEF v
  <2>3. CASE v = 0 /\ \A j \in 1..w : ~BitSet(v, w - j)
    <3>1. \A j \in DOMAIN tree.pairs : p \notin tree.pairs[j].sel.on
      BY <1>7, <1>8, <1>10, <2>3 DEF v
    <3> QED
      BY <1>8, <2>2, <2>3, <3>1, DeliversTail
  <2>4. ASSUME NEW i \in 1..w, BitSet(v, w - i),
               \A j \in 1..i - 1 : ~BitSet(v, w - j),
               v = 2 ^ (w - i) + (v % (2 ^ (w - i)))
        PROVE  Delivers(tree, p) = Delivers(d, p)
    <3>1. i \in DOMAIN tree.pairs /\ DOMAIN tree.pairs \subseteq Nat
      BY <1>5, <1>7, <1>8
    <3>2. p \in tree.pairs[i].sel.on
      BY <1>8, <1>10, <2>4 DEF v
    <3>3. ASSUME NEW j \in DOMAIN tree.pairs, p \in tree.pairs[j].sel.on PROVE i <= j
      <4>1. j \in 1..w /\ BitSet(v, w - j)
        BY <1>7, <1>8, <1>10, <3>3 DEF v
      <4>2. j \notin 1..i - 1
        BY <2>4, <4>1
      <4> QED
        BY <1>5, <4>1, <4>2
    <3>4. Delivers(tree, p) = tree.pairs[i].val[p]
      BY <3>1, <3>2, <3>3, DeliversMatch
    <3>5. tree.pairs[i].val[p] = Leaf(d, 2 ^ (w - i) + (v % (2 ^ (w - i))))[p]
      BY <1>8, <1>10, Zenon DEF v
    <3>6. Leaf(d, 2 ^ (w - i) + (v % (2 ^ (w - i)))) = Leaf(d, v)
      BY <2>4, Zenon
    <3> QED
      BY <2>2, <3>4, <3>5, <3>6
  <2> QED
    BY <1>5, <2>1, <2>3, <2>4, HighestBit DEF w
<1> QED
  BY <1>8, <1>11 DEF tree

(* Every rewrite that is not refused delivers what the cascade delivered.  *)
THEOREM EmittedExact ==
  ASSUME NEW d \in Cascade, NEW mode \in Mode, ~Refused(d, mode)
  PROVE  /\ Emitted(d, mode) \in Cascade
         /\ \A p \in Point : Delivers(Emitted(d, mode), p) = Delivers(d, p)
<1> DEFINE m == IF mode = "auto" THEN Chosen(d) ELSE mode
<1>1. Emitted(d, mode) = IF ~IsCascade(d) \/ m = "chain" THEN d
                         ELSE IF m = "tournament" THEN Tournament(d)
                         ELSE IF m = "onehot" THEN OneHot(d)
                         ELSE BitTree(d)
  BY DEF Emitted
<1>2. IsCascade(d) /\ m \notin {"chain", "tournament"} => Disjoint(d.pairs)
  BY DEF Refused, Chosen, Mode
<1> HIDE DEF m
<1>3. IsCascade(d) => d.pairs # <<>>
  <2>1. Len(<<>>) = 0
    BY EmptySeq
  <2> QED
    BY <2>1 DEF IsCascade
<1>4. CASE ~IsCascade(d) \/ m = "chain"
  BY <1>1, <1>4
<1>5. CASE IsCascade(d) /\ m = "tournament"
  BY <1>1, <1>3, <1>5, TournamentExact
<1>6. CASE IsCascade(d) /\ m = "onehot"
  BY <1>1, <1>2, <1>6, OneHotDelivers
<1>7. CASE IsCascade(d) /\ m \notin {"chain", "tournament", "onehot"}
  BY <1>1, <1>2, <1>7, BitTreeExact
<1> QED
  BY <1>4, <1>5, <1>6, <1>7

LEMMA AutoNeverRefused == \A d : ~Refused(d, "auto")
BY DEF Refused

-----------------------------------------------------------------------------
(***************************************************************************)
(* The open contexts and the three stacks they push onto.                  *)
(***************************************************************************)
(* Counting the contexts of some kinds. *)
LEMMA CountNext ==
  ASSUME NEW c, NEW kinds, NEW j \in Nat
  PROVE  /\ Count(c, j, kinds) \in Nat
         /\ Count(c, 0, kinds) = 0
         /\ c[j + 1].kind \in kinds => Count(c, j + 1, kinds) = Count(c, j, kinds) + 1
         /\ c[j + 1].kind \notin kinds => Count(c, j + 1, kinds) = Count(c, j, kinds)
<1> DEFINE among(m) == {i \in 1..m : c[i].kind \in kinds}
<1>1. IsFiniteSet(among(j)) /\ Cardinality(among(j)) \in Nat
  <2>1. IsFiniteSet(1..j)
    BY FS_Interval
  <2>2. among(j) \subseteq 1..j
    OBVIOUS
  <2> QED
    BY <2>1, <2>2, FS_Subset, FS_CardinalityType
<1>2. Count(c, 0, kinds) = 0
  <2>1. {i \in 1..0 : c[i].kind \in kinds} = {}
    OBVIOUS
  <2> QED
    BY <2>1, FS_EmptySet DEF Count
<1>3. Count(c, j, kinds) \in Nat
  BY <1>1 DEF Count
<1>4. ASSUME c[j + 1].kind \in kinds
      PROVE  Count(c, j + 1, kinds) = Count(c, j, kinds) + 1
  <2>1. among(j + 1) = among(j) \cup {j + 1} /\ j + 1 \notin among(j)
    BY <1>4
  <2>2. Cardinality(among(j + 1)) = Cardinality(among(j)) + 1
    <3> HIDE DEF among
    <3> QED
      BY <1>1, <2>1, FS_AddElement
  <2> QED
    BY <2>2 DEF Count
<1>5. ASSUME c[j + 1].kind \notin kinds
      PROVE  Count(c, j + 1, kinds) = Count(c, j, kinds)
  <2>1. among(j + 1) = among(j)
    BY <1>5
  <2> QED
    BY <2>1 DEF Count
<1> QED
  BY <1>2, <1>3, <1>4, <1>5

LEMMA CountMonotone ==
  ASSUME NEW c, NEW kinds, NEW j \in Nat, NEW m \in 0..j
  PROVE  Count(c, m, kinds) <= Count(c, j, kinds)
<1>1. /\ IsFiniteSet({i \in 1..j : c[i].kind \in kinds})
      /\ {i \in 1..m : c[i].kind \in kinds} \subseteq {i \in 1..j : c[i].kind \in kinds}
  <2>1. IsFiniteSet(1..j) /\ {i \in 1..j : c[i].kind \in kinds} \subseteq 1..j
    BY FS_Interval
  <2> QED
    BY <2>1, FS_Subset
<1> QED
  BY <1>1, FS_Subset DEF Count

LEMMA CountAgree ==
  ASSUME NEW c, NEW d, NEW kinds, NEW j \in Nat, \A i \in 1..j : c[i].kind = d[i].kind
  PROVE  Count(c, j, kinds) = Count(d, j, kinds)
<1>1. {i \in 1..j : c[i].kind \in kinds} = {i \in 1..j : d[i].kind \in kinds}
  OBVIOUS
<1> QED
  BY <1>1 DEF Count

(* Every context belongs to exactly one of the families. *)
LEMMA OneFamily ==
  ASSUME NEW x \in Context
  PROVE  \/ /\ x.kind \in Family[1] /\ x.kind \notin Family[2] /\ x.kind \notin Family[3]
         \/ /\ x.kind \notin Family[1] /\ x.kind \in Family[2] /\ x.kind \notin Family[3]
         \/ /\ x.kind \notin Family[1] /\ x.kind \notin Family[2] /\ x.kind \in Family[3]
<1>1. x.kind \in {"if", "else", "case", "switch", "region"}
  BY DEF Context
<1> QED
  BY <1>1 DEF Family, ArmKinds

LEMMA CountFamilies ==
  ASSUME NEW c \in Seq(Context), NEW j \in 0..Len(c)
  PROVE  Count(c, j, Family[1]) + Count(c, j, Family[2]) + Count(c, j, Family[3]) = j
<1> DEFINE S == {m \in Nat : Count(c, m, Family[1]) + Count(c, m, Family[2])
                             + Count(c, m, Family[3]) = m}
<1>1. 0 \in S
  BY CountNext
<1>2. ASSUME NEW m \in 0..j - 1, m \in S
      PROVE  m + 1 \in S
  <2>1. Len(c) \in Nat /\ m \in Nat /\ m + 1 \in Nat /\ m + 1 \in 1..Len(c)
    BY LenProperties
  <2>2. c[m + 1] \in Context
    BY <2>1, ElementOfSeq
  <2>3. ASSUME NEW kinds
        PROVE  /\ Count(c, m, kinds) \in Nat
               /\ c[m + 1].kind \in kinds => Count(c, m + 1, kinds) = Count(c, m, kinds) + 1
               /\ c[m + 1].kind \notin kinds => Count(c, m + 1, kinds) = Count(c, m, kinds)
    <3>1. m \in Nat
      BY <2>1
    <3> QED
      BY <3>1, CountNext, Zenon
  <2> DEFINE u == Count(c, m, Family[1])
             v == Count(c, m, Family[2])
             w == Count(c, m, Family[3])
  <2>4. u \in Nat /\ v \in Nat /\ w \in Nat
    BY <2>3
  <2>5. u + v + w = m
    BY <1>2
  <2>6. \/ /\ Count(c, m + 1, Family[1]) = u + 1
           /\ Count(c, m + 1, Family[2]) = v
           /\ Count(c, m + 1, Family[3]) = w
        \/ /\ Count(c, m + 1, Family[1]) = u
           /\ Count(c, m + 1, Family[2]) = v + 1
           /\ Count(c, m + 1, Family[3]) = w
        \/ /\ Count(c, m + 1, Family[1]) = u
           /\ Count(c, m + 1, Family[2]) = v
           /\ Count(c, m + 1, Family[3]) = w + 1
    BY <2>2, <2>3, OneFamily
  <2>7. Count(c, m + 1, Family[1]) + Count(c, m + 1, Family[2])
          + Count(c, m + 1, Family[3]) = m + 1
    <3> HIDE DEF u, v, w
    <3> QED
      BY <2>1, <2>4, <2>5, <2>6
  <2> QED
    BY <2>1, <2>7
<1>3. \A m \in 0..j : m \in S
  <2> HIDE DEF S
  <2>1. j \in Nat
    BY LenProperties
  <2> QED
    BY <1>1, <1>2, <2>1, BoundedInduction
<1> QED
  BY <1>3, LenProperties

Dead == [live |-> FALSE, at |-> 0, left |-> {}]

ThreeStacks(scope) == \A k \in 1..3 : scope[k] \in Seq(Nat)

Fits(contexts, scope) ==
  \A k \in 1..3 : Len(scope[k]) = Count(contexts, Len(contexts), Family[k])

Issued(scope, n) == \A k \in 1..3 : \A i \in DOMAIN scope[k] : scope[k][i] <= n

IsLive(pend, scope) ==
  pend # NoneChain /\ \A k \in 1..3 : IsPrefixOf(pend.scope[k], scope[k])

LeftAt(pend, contexts, m) ==
  \A k \in 1..3 : Len(pend.scope[k]) = Count(contexts, m, Family[k])

LeftInside(pend, contexts, scope, n) ==
  pend # NoneChain =>
    /\ ThreeStacks(pend.scope)
    /\ Issued(pend.scope, n)
    /\ IsLive(pend, scope) => \E m \in 0..Len(contexts) : LeftAt(pend, contexts, m)

LEMMA CountPushed ==
  ASSUME NEW contexts \in Seq(Context), NEW x \in Context, NEW kinds
  PROVE  /\ Append(contexts, x) \in Seq(Context)
         /\ Len(Append(contexts, x)) = Len(contexts) + 1
         /\ \A m \in 0..Len(contexts) :
              Count(Append(contexts, x), m, kinds) = Count(contexts, m, kinds)
         /\ x.kind \in kinds => Count(Append(contexts, x), Len(contexts) + 1, kinds) =
                                  Count(contexts, Len(contexts), kinds) + 1
         /\ x.kind \notin kinds => Count(Append(contexts, x), Len(contexts) + 1, kinds) =
                                     Count(contexts, Len(contexts), kinds)
<1> DEFINE d == Append(contexts, x)
           n == Len(contexts)
<1>1. /\ d \in Seq(Context) /\ Len(d) = n + 1 /\ n \in Nat
      /\ \A i \in 1..n : d[i] = contexts[i]
      /\ d[n + 1] = x
  BY AppendProperties, LenProperties
<1> HIDE DEF d, n
<1>2. ASSUME NEW m \in 0..n PROVE Count(d, m, kinds) = Count(contexts, m, kinds)
  <2>1. m \in Nat /\ \A i \in 1..m : d[i].kind = contexts[i].kind
    BY <1>1
  <2> QED
    BY <2>1, CountAgree
<1>3. Count(d, n, kinds) = Count(contexts, n, kinds)
  BY <1>1, <1>2
<1>4. /\ d[n + 1].kind \in kinds => Count(d, n + 1, kinds) = Count(d, n, kinds) + 1
      /\ d[n + 1].kind \notin kinds => Count(d, n + 1, kinds) = Count(d, n, kinds)
  BY <1>1, CountNext, Zenon
<1> QED
  BY <1>1, <1>2, <1>3, <1>4 DEF d, n

LEMMA LastOff ==
  ASSUME NEW S, NEW q \in Seq(S), NEW n \in Nat, Len(q) = n + 1
  PROVE  /\ Pop(q) \in Seq(S) /\ Len(Pop(q)) = n
         /\ \A i \in 1..n : Pop(q)[i] = q[i]
         /\ Top(q) = q[n + 1] /\ Top(q) \in S
<1>1. Pop(q) = SubSeq(q, 1, n) /\ Top(q) = q[n + 1]
  BY DEF Pop, Top
<1>2. \A i \in 1..n + 1 : q[i] \in S
  BY ElementOfSeq
<1>3. /\ SubSeq(q, 1, n) \in Seq(S)
      /\ Len(SubSeq(q, 1, n)) = IF 1 <= n THEN n - 1 + 1 ELSE 0
      /\ \A i \in 1..(n - 1 + 1) : SubSeq(q, 1, n)[i] = q[1 + i - 1]
  BY <1>2, SubSeqProperties
<1> QED
  BY <1>1, <1>2, <1>3

LEMMA Popped ==
  ASSUME NEW S, NEW q \in Seq(S), q # <<>>
  PROVE  /\ Pop(q) \in Seq(S)
         /\ Len(q) \in Nat /\ Len(q) >= 1
         /\ Len(Pop(q)) = Len(q) - 1
         /\ \A i \in 1..(Len(q) - 1) : Pop(q)[i] = q[i]
         /\ Top(q) = q[Len(q)] /\ Top(q) \in S
<1>1. Len(q) \in Nat \ {0}
  BY EmptySeq
<1>2. \A m \in Nat \ {0} : \E n \in Nat : m = n + 1
  <2>1. \A m \in Nat \ {0} : m - 1 \in Nat /\ m = (m - 1) + 1
    OBVIOUS
  <2> QED
    BY <2>1, Zenon
<1>3. PICK n \in Nat : Len(q) = n + 1
  BY <1>1, <1>2, Zenon
<1>4. /\ Pop(q) \in Seq(S) /\ Len(Pop(q)) = n
      /\ \A i \in 1..n : Pop(q)[i] = q[i]
      /\ Top(q) = q[n + 1] /\ Top(q) \in S
  BY <1>3, LastOff, Zenon
<1>5. Len(q) - 1 = n /\ Len(q) >= 1
  BY <1>3
<1> QED
  BY <1>1, <1>3, <1>4, <1>5, Zenon

LEMMA CountPopped ==
  ASSUME NEW contexts \in Seq(Context), contexts # <<>>, NEW kinds
  PROVE  /\ \A m \in 0..Len(contexts) - 1 :
              Count(Pop(contexts), m, kinds) = Count(contexts, m, kinds)
         /\ Top(contexts).kind \in kinds =>
              Count(contexts, Len(contexts), kinds) =
                Count(contexts, Len(contexts) - 1, kinds) + 1
         /\ Top(contexts).kind \notin kinds =>
              Count(contexts, Len(contexts), kinds) =
                Count(contexts, Len(contexts) - 1, kinds)
<1>1. /\ Len(contexts) \in Nat /\ Len(contexts) >= 1
      /\ \A i \in 1..(Len(contexts) - 1) : Pop(contexts)[i] = contexts[i]
      /\ Top(contexts) = contexts[Len(contexts)]
  BY Popped, Zenon
<1>2. ASSUME NEW m \in 0..Len(contexts) - 1
      PROVE  Count(Pop(contexts), m, kinds) = Count(contexts, m, kinds)
  <2>1. m \in Nat /\ \A i \in 1..m : Pop(contexts)[i].kind = contexts[i].kind
    BY <1>1
  <2> QED
    BY <2>1, CountAgree
<1>3. PICK n \in Nat : n = Len(contexts) - 1 /\ Len(contexts) = n + 1
  <2>1. Len(contexts) - 1 \in Nat /\ Len(contexts) = (Len(contexts) - 1) + 1
    BY <1>1
  <2> QED
    BY <2>1, Zenon
<1>4. /\ contexts[n + 1].kind \in kinds =>
           Count(contexts, n + 1, kinds) = Count(contexts, n, kinds) + 1
      /\ contexts[n + 1].kind \notin kinds =>
           Count(contexts, n + 1, kinds) = Count(contexts, n, kinds)
  BY CountNext, Zenon
<1> QED
  BY <1>1, <1>2, <1>3, <1>4, Zenon

(* Prefixes, of sequences of identities. *)
LEMMA PrefixMeans ==
  ASSUME NEW s \in Seq(Nat), NEW t \in Seq(Nat)
  PROVE  IsPrefixOf(s, t) <=>
           Len(s) <= Len(t) /\ \A i \in 1..Len(s) : t[i] = s[i]
<1> SUFFICES ASSUME Len(s) <= Len(t)
             PROVE  SubSeq(t, 1, Len(s)) = s <=> \A i \in 1..Len(s) : t[i] = s[i]
  BY DEF IsPrefixOf
<1>1. Len(s) \in Nat /\ Len(t) \in Nat
  BY LenProperties
<1>2. \A i \in 1..Len(s) : t[i] \in Nat
  BY <1>1, ElementOfSeq
<1>3. /\ SubSeq(t, 1, Len(s)) \in Seq(Nat)
      /\ Len(SubSeq(t, 1, Len(s))) = IF 1 <= Len(s) THEN Len(s) - 1 + 1 ELSE 0
      /\ \A i \in 1..(Len(s) - 1 + 1) : SubSeq(t, 1, Len(s))[i] = t[1 + i - 1]
  BY <1>1, <1>2, SubSeqProperties
<1>4. Len(SubSeq(t, 1, Len(s))) = Len(s) /\ \A i \in 1..Len(s) : SubSeq(t, 1, Len(s))[i] = t[i]
  BY <1>1, <1>3
<1>5. ASSUME \A i \in 1..Len(s) : t[i] = s[i]
      PROVE  SubSeq(t, 1, Len(s)) = s
  BY <1>3, <1>4, <1>5, SeqEqual
<1> QED
  BY <1>4, <1>5

LEMMA PrefixPushed ==
  ASSUME NEW s \in Seq(Nat), NEW t \in Seq(Nat), NEW n \in Nat,
         \A i \in DOMAIN s : s[i] <= n
  PROVE  IsPrefixOf(s, Append(t, n + 1)) <=> IsPrefixOf(s, t)
<1>1. /\ Append(t, n + 1) \in Seq(Nat)
      /\ Len(Append(t, n + 1)) = Len(t) + 1
      /\ \A i \in 1..Len(t) : Append(t, n + 1)[i] = t[i]
      /\ Append(t, n + 1)[Len(t) + 1] = n + 1
  BY AppendProperties
<1>2. Len(s) \in Nat /\ DOMAIN s = 1..Len(s) /\ Len(t) \in Nat
  BY LenProperties
<1>3. /\ IsPrefixOf(s, t) <=> Len(s) <= Len(t) /\ \A i \in 1..Len(s) : t[i] = s[i]
      /\ IsPrefixOf(s, Append(t, n + 1)) <=>
           /\ Len(s) <= Len(Append(t, n + 1))
           /\ \A i \in 1..Len(s) : Append(t, n + 1)[i] = s[i]
  BY <1>1, PrefixMeans
<1>4. CASE Len(s) <= Len(t)
  BY <1>1, <1>2, <1>3, <1>4
<1>5. CASE Len(s) = Len(t) + 1
  <2>1. Len(t) + 1 \in 1..Len(s)
    BY <1>2, <1>5
  <2>2. Append(t, n + 1)[Len(t) + 1] # s[Len(t) + 1]
    BY <1>1, <1>2, <2>1
  <2> QED
    BY <1>2, <1>3, <1>5, <2>1, <2>2
<1>6. CASE Len(s) > Len(t) + 1
  <2>1. ~(Len(s) <= Len(t)) /\ ~(Len(s) <= Len(Append(t, n + 1)))
    BY <1>1, <1>2, <1>6
  <2> QED
    BY <1>3, <2>1
<1>7. Len(s) <= Len(t) \/ Len(s) = Len(t) + 1 \/ Len(s) > Len(t) + 1
  <2>1. Len(s) \in Nat /\ Len(t) \in Nat
    BY LenProperties
  <2> QED
    BY <2>1
<1> QED
  BY <1>4, <1>5, <1>6, <1>7

LEMMA PrefixPopped ==
  ASSUME NEW s \in Seq(Nat), NEW t \in Seq(Nat), t # <<>>
  PROVE  IsPrefixOf(s, Pop(t)) <=> IsPrefixOf(s, t) /\ Len(s) < Len(t)
<1>1. /\ Pop(t) \in Seq(Nat) /\ Len(t) \in Nat /\ Len(Pop(t)) = Len(t) - 1
      /\ \A i \in 1..(Len(t) - 1) : Pop(t)[i] = t[i]
  BY Popped, Zenon
<1>2. Len(s) \in Nat
  BY LenProperties
<1>3. /\ IsPrefixOf(s, t) <=> Len(s) <= Len(t) /\ \A i \in 1..Len(s) : t[i] = s[i]
      /\ IsPrefixOf(s, Pop(t)) <=>
           Len(s) <= Len(Pop(t)) /\ \A i \in 1..Len(s) : Pop(t)[i] = s[i]
  BY <1>1, PrefixMeans
<1> QED
  BY <1>1, <1>2, <1>3, SMTT(30)

(* A context x is entered: its stack, and no other, gets one more entry.   *)
Pushed(scope, scope2, x, id) ==
  \A k \in 1..3 :
    scope2[k] = IF x.kind \in Family[k] THEN Append(scope[k], id) ELSE scope[k]

(* It is left: its stack, and no other, loses the last entry. *)
PoppedOff(scope, scope2, x) ==
  \A k \in 1..3 : scope2[k] = IF x.kind \in Family[k] THEN Pop(scope[k]) ELSE scope[k]

LEMMA ScopePushed ==
  ASSUME NEW contexts \in Seq(Context), NEW x \in Context, NEW scope, NEW scope2,
         NEW n \in Nat, ThreeStacks(scope), Fits(contexts, scope), Issued(scope, n),
         Pushed(scope, scope2, x, n + 1)
  PROVE  /\ ThreeStacks(scope2)
         /\ Fits(Append(contexts, x), scope2)
         /\ Issued(scope2, n + 1)
<1> DEFINE d == Append(contexts, x)
<1>1. ASSUME NEW k \in 1..3
      PROVE  /\ scope2[k] \in Seq(Nat)
             /\ Len(scope2[k]) = Count(d, Len(d), Family[k])
             /\ \A i \in DOMAIN scope2[k] : scope2[k][i] <= n + 1
  <2>1. /\ scope[k] \in Seq(Nat)
        /\ Len(scope[k]) = Count(contexts, Len(contexts), Family[k])
        /\ \A i \in DOMAIN scope[k] : scope[k][i] <= n
    BY <1>1 DEF ThreeStacks, Fits, Issued
  <2>2. /\ Len(d) = Len(contexts) + 1
        /\ x.kind \in Family[k] => Count(d, Len(contexts) + 1, Family[k]) =
                                  Count(contexts, Len(contexts), Family[k]) + 1
        /\ x.kind \notin Family[k] => Count(d, Len(contexts) + 1, Family[k]) =
                                     Count(contexts, Len(contexts), Family[k])
    BY CountPushed, Zenon
  <2>3. /\ Len(scope[k]) \in Nat /\ DOMAIN scope[k] = 1..Len(scope[k])
        /\ \A i \in 1..Len(scope[k]) : scope[k][i] \in Nat
    BY <2>1, LenProperties, ElementOfSeq
  <2> HIDE DEF d
  <2>4. CASE x.kind \in Family[k]
    <3>1. scope2[k] = Append(scope[k], n + 1)
      BY <1>1, <2>4 DEF Pushed
    <3>2. /\ scope2[k] \in Seq(Nat) /\ Len(scope2[k]) = Len(scope[k]) + 1
          /\ \A i \in 1..Len(scope[k]) : scope2[k][i] = scope[k][i]
          /\ scope2[k][Len(scope[k]) + 1] = n + 1
      BY <2>1, <3>1, AppendProperties
    <3>3. DOMAIN scope2[k] = 1..Len(scope[k]) + 1
      BY <3>2, LenProperties
    <3>4. ASSUME NEW i \in DOMAIN scope2[k] PROVE scope2[k][i] <= n + 1
      <4>1. CASE i = Len(scope[k]) + 1
        BY <3>2, <4>1
      <4>2. CASE i \in 1..Len(scope[k])
        <5>1. scope2[k][i] = scope[k][i] /\ scope[k][i] <= n /\ scope[k][i] \in Nat
          BY <2>1, <2>3, <3>2, <4>2
        <5> QED
          BY <5>1
      <4> QED
        BY <2>3, <3>3, <3>4, <4>1, <4>2
    <3> QED
      BY <2>1, <2>2, <2>4, <3>2, <3>4
  <2>5. CASE x.kind \notin Family[k]
    <3>1. scope2[k] = scope[k]
      BY <1>1, <2>5 DEF Pushed
    <3>2. \A i \in DOMAIN scope[k] : scope[k][i] <= n + 1
      <4>1. ASSUME NEW i \in DOMAIN scope[k] PROVE scope[k][i] <= n + 1
        <5>1. scope[k][i] <= n /\ scope[k][i] \in Nat
          BY <2>1, <2>3, <4>1
        <5> QED
          BY <5>1
      <4> QED
        BY <4>1
    <3> QED
      BY <2>1, <2>2, <2>5, <3>1, <3>2
  <2> QED
    BY <2>4, <2>5
<1> QED
  BY <1>1 DEF ThreeStacks, Fits, Issued

LEMMA PendingPushed ==
  ASSUME NEW contexts \in Seq(Context), NEW x \in Context, NEW scope, NEW scope2,
         NEW n \in Nat, ThreeStacks(scope), Pushed(scope, scope2, x, n + 1),
         NEW pend, LeftInside(pend, contexts, scope, n)
  PROVE  /\ LeftInside(pend, Append(contexts, x), scope2, n + 1)
         /\ ChainOf(pend, scope2) = ChainOf(pend, scope)
<1>1. CASE pend = NoneChain
  BY <1>1 DEF LeftInside, ChainOf
<1>2. CASE pend # NoneChain
  <2>1. /\ ThreeStacks(pend.scope) /\ Issued(pend.scope, n)
        /\ IsLive(pend, scope) => \E m \in 0..Len(contexts) : LeftAt(pend, contexts, m)
    BY <1>2 DEF LeftInside
  <2>2. ASSUME NEW k \in 1..3
        PROVE  IsPrefixOf(pend.scope[k], scope2[k]) <=> IsPrefixOf(pend.scope[k], scope[k])
    <3>1. pend.scope[k] \in Seq(Nat) /\ scope[k] \in Seq(Nat)
          /\ \A i \in DOMAIN pend.scope[k] : pend.scope[k][i] <= n
      BY <2>1, <2>2 DEF ThreeStacks, Issued
    <3>2. CASE x.kind \in Family[k]
      BY <2>2, <3>1, <3>2, PrefixPushed DEF Pushed
    <3>3. CASE x.kind \notin Family[k]
      BY <2>2, <3>3 DEF Pushed
    <3> QED
      BY <3>2, <3>3
  <2>3. IsLive(pend, scope2) <=> IsLive(pend, scope)
    BY <2>2 DEF IsLive
  <2>4. ChainOf(pend, scope2) = ChainOf(pend, scope)
    BY <2>2 DEF ChainOf
  <2>5. ThreeStacks(pend.scope) /\ Issued(pend.scope, n + 1)
    <3>1. ASSUME NEW k \in 1..3, NEW i \in DOMAIN pend.scope[k]
          PROVE  pend.scope[k][i] <= n + 1
      <4>1. pend.scope[k] \in Seq(Nat) /\ pend.scope[k][i] <= n
        BY <2>1, <3>1 DEF ThreeStacks, Issued
      <4>2. pend.scope[k][i] \in Nat
        BY <3>1, <4>1, LenProperties, ElementOfSeq
      <4> QED
        BY <4>1, <4>2
    <3> QED
      BY <2>1, <3>1 DEF Issued
  <2>6. ASSUME IsLive(pend, scope2)
        PROVE  \E m \in 0..Len(Append(contexts, x)) : LeftAt(pend, Append(contexts, x), m)
    <3>1. PICK m \in 0..Len(contexts) : LeftAt(pend, contexts, m)
      BY <2>1, <2>3, <2>6
    <3>2. Len(contexts) \in Nat /\ Len(Append(contexts, x)) = Len(contexts) + 1
      BY LenProperties, CountPushed, Zenon
    <3>3. ASSUME NEW k \in 1..3
          PROVE  Len(pend.scope[k]) = Count(Append(contexts, x), m, Family[k])
      <4>1. Count(Append(contexts, x), m, Family[k]) = Count(contexts, m, Family[k])
        BY CountPushed, Zenon
      <4> QED
        BY <3>1, <3>3, <4>1 DEF LeftAt
    <3>4. LeftAt(pend, Append(contexts, x), m)
      BY <3>3 DEF LeftAt
    <3>5. m \in 0..Len(Append(contexts, x))
      BY <3>2
    <3> QED
      BY <3>4, <3>5
  <2> QED
    BY <2>4, <2>5, <2>6 DEF LeftInside
<1> QED
  BY <1>1, <1>2

LEMMA ScopePopped ==
  ASSUME NEW contexts \in Seq(Context), NEW m \in Nat, Len(contexts) = m + 1,
         NEW scope, NEW scope2,
         NEW n \in Nat, ThreeStacks(scope), Fits(contexts, scope), Issued(scope, n),
         PoppedOff(scope, scope2, Top(contexts))
  PROVE  /\ ThreeStacks(scope2)
         /\ Fits(Pop(contexts), scope2)
         /\ Issued(scope2, n)
         /\ \A k \in 1..3 : Top(contexts).kind \in Family[k] =>
              scope[k] # <<>> /\ Len(scope2[k]) = Len(scope[k]) - 1
<1>0. contexts # <<>> /\ Len(contexts) - 1 = m /\ Len(Pop(contexts)) = m
      /\ Pop(contexts) \in Seq(Context)
  <2>1. /\ Len(Pop(contexts)) = m /\ Pop(contexts) \in Seq(Context)
    BY LastOff, Zenon
  <2>2. Len(<<>>) = 0 /\ m + 1 # 0 /\ (m + 1) - 1 = m
    BY EmptySeq
  <2> QED
    BY <2>1, <2>2, Zenon
<1>1. ASSUME NEW k \in 1..3
      PROVE  /\ scope2[k] \in Seq(Nat)
             /\ Len(scope2[k]) = Count(Pop(contexts), m, Family[k])
             /\ \A i \in DOMAIN scope2[k] : scope2[k][i] <= n
             /\ Top(contexts).kind \in Family[k] =>
                  scope[k] # <<>> /\ Len(scope2[k]) = Len(scope[k]) - 1
  <2>1. /\ scope[k] \in Seq(Nat)
        /\ Len(scope[k]) = Count(contexts, m + 1, Family[k])
        /\ \A i \in DOMAIN scope[k] : scope[k][i] <= n
    BY <1>1 DEF ThreeStacks, Fits, Issued
  <2>2. /\ m \in 0..m /\ Count(Pop(contexts), m, Family[k]) = Count(contexts, m, Family[k])
        /\ Top(contexts).kind \in Family[k] =>
             Count(contexts, m + 1, Family[k]) = Count(contexts, m, Family[k]) + 1
        /\ Top(contexts).kind \notin Family[k] =>
             Count(contexts, m + 1, Family[k]) = Count(contexts, m, Family[k])
    <3>1. m \in 0..m
      OBVIOUS
    <3> QED
      BY <1>0, <3>1, CountPopped, Zenon
  <2>3. PICK c \in Nat : c = Count(contexts, m, Family[k])
    BY CountNext, Zenon
  <2>4. CASE Top(contexts).kind \in Family[k]
    <3>1. scope2[k] = Pop(scope[k])
      BY <1>1, <2>4 DEF PoppedOff
    <3>2. Len(scope[k]) = c + 1
      BY <2>1, <2>2, <2>3, <2>4
    <3>3. /\ Pop(scope[k]) \in Seq(Nat) /\ Len(Pop(scope[k])) = c
          /\ \A i \in 1..c : Pop(scope[k])[i] = scope[k][i]
      BY <2>1, <3>2, LastOff, ZenonT(40)
    <3>4. DOMAIN scope2[k] = 1..c /\ DOMAIN scope[k] = 1..c + 1
      BY <2>1, <3>1, <3>2, <3>3, LenProperties
    <3>5. ASSUME NEW i \in DOMAIN scope2[k] PROVE scope2[k][i] <= n
      <4>1. i \in 1..c /\ i \in 1..c + 1
        BY <3>4, <3>5
      <4>2. scope[k][i] <= n
        BY <2>1, <3>4, <4>1
      <4> QED
        BY <3>1, <3>3, <4>1, <4>2
    <3>6. scope[k] # <<>> /\ Len(scope[k]) - 1 = c
      <4>1. Len(<<>>) = 0 /\ c + 1 # 0 /\ (c + 1) - 1 = c
        BY EmptySeq
      <4> QED
        BY <3>2, <4>1, Zenon
    <3> QED
      BY <2>2, <2>3, <3>1, <3>3, <3>5, <3>6
  <2>5. CASE Top(contexts).kind \notin Family[k]
    <3>1. scope2[k] = scope[k]
      BY <1>1, <2>5 DEF PoppedOff
    <3> QED
      BY <2>1, <2>2, <2>5, <3>1
  <2> QED
    BY <2>4, <2>5
<1> QED
  BY <1>0, <1>1 DEF ThreeStacks, Fits, Issued

LEMMA PendingPopped ==
  ASSUME NEW contexts \in Seq(Context), NEW m \in Nat, Len(contexts) = m + 1,
         NEW scope, NEW scope2,
         NEW n \in Nat, ThreeStacks(scope), Fits(contexts, scope), Issued(scope, n),
         PoppedOff(scope, scope2, Top(contexts)),
         NEW pend, LeftInside(pend, contexts, scope, n)
  PROVE  /\ LeftInside(pend, Pop(contexts), scope2, n)
         /\ ChainOf(pend, scope2) = IF ChainOf(pend, scope).at >= Len(contexts) THEN Dead
                                    ELSE ChainOf(pend, scope)
<1>0. /\ Len(Pop(contexts)) = m /\ Pop(contexts) \in Seq(Context)
      /\ Top(contexts) \in Context
  BY LastOff, Zenon
<1>1. CASE pend = NoneChain
  BY <1>1 DEF LeftInside, ChainOf, Dead
<1>2. CASE pend # NoneChain
  <2>1. /\ ThreeStacks(pend.scope) /\ Issued(pend.scope, n)
        /\ IsLive(pend, scope) => \E l \in 0..m + 1 : LeftAt(pend, contexts, l)
    BY <1>2 DEF LeftInside
  <2>2. ASSUME NEW k \in 1..3
        PROVE  /\ pend.scope[k] \in Seq(Nat) /\ scope[k] \in Seq(Nat)
               /\ Len(pend.scope[k]) \in Nat
               /\ Len(scope[k]) = Count(contexts, m + 1, Family[k])
               /\ IsPrefixOf(pend.scope[k], scope2[k]) <=>
                    /\ IsPrefixOf(pend.scope[k], scope[k])
                    /\ Top(contexts).kind \in Family[k] => Len(pend.scope[k]) < Len(scope[k])
    <3>1. pend.scope[k] \in Seq(Nat) /\ scope[k] \in Seq(Nat)
      BY <2>1, <2>2 DEF ThreeStacks
    <3>2. Len(pend.scope[k]) \in Nat /\ Len(scope[k]) = Count(contexts, m + 1, Family[k])
      BY <2>2, <3>1, LenProperties DEF Fits
    <3>3. Top(contexts).kind \in Family[k] => scope[k] # <<>>
      BY <2>2, ScopePopped, Zenon
    <3>4. CASE Top(contexts).kind \in Family[k]
      <4>1. scope2[k] = Pop(scope[k])
        BY <2>2, <3>4 DEF PoppedOff
      <4>2. IsPrefixOf(pend.scope[k], Pop(scope[k])) <=>
              IsPrefixOf(pend.scope[k], scope[k]) /\ Len(pend.scope[k]) < Len(scope[k])
        BY <3>1, <3>3, <3>4, PrefixPopped, Zenon
      <4> QED
        BY <3>1, <3>2, <3>4, <4>1, <4>2, Zenon
    <3>5. CASE Top(contexts).kind \notin Family[k]
      <4>1. scope2[k] = scope[k]
        BY <2>2, <3>5 DEF PoppedOff
      <4> QED
        BY <3>1, <3>2, <3>5, <4>1, Zenon
    <3> QED
      BY <3>4, <3>5
  <2>3. ThreeStacks(pend.scope) /\ Issued(pend.scope, n)
    BY <2>1
  <2>4. CASE ~IsLive(pend, scope)
    <3>1. ~IsLive(pend, scope2)
      BY <2>2, <2>4 DEF IsLive
    <3>2. ChainOf(pend, scope) = Dead /\ ChainOf(pend, scope2) = Dead
      BY <2>4, <3>1 DEF IsLive, ChainOf, Dead
    <3>3. LeftInside(pend, Pop(contexts), scope2, n)
      BY <2>3, <3>1 DEF LeftInside
    <3> QED
      BY <3>2, <3>3
  <2>5. CASE IsLive(pend, scope)
    <3>1. PICK l \in 0..m + 1 : LeftAt(pend, contexts, l)
      BY <2>1, <2>5
    <3> DEFINE at == Len(pend.scope[1]) + Len(pend.scope[2]) + Len(pend.scope[3])
    <3>2. at = l
      <4>1. l \in 0..Len(contexts)
        OBVIOUS
      <4>2. Count(contexts, l, Family[1]) + Count(contexts, l, Family[2])
              + Count(contexts, l, Family[3]) = l
        BY <4>1, CountFamilies, Zenon
      <4>3. /\ Len(pend.scope[1]) = Count(contexts, l, Family[1])
            /\ Len(pend.scope[2]) = Count(contexts, l, Family[2])
            /\ Len(pend.scope[3]) = Count(contexts, l, Family[3])
        BY <3>1 DEF LeftAt
      <4> QED
        BY <4>2, <4>3, Zenon
    <3>3. ChainOf(pend, scope) = [live |-> TRUE, left |-> Point \ pend.covered.on, at |-> at]
      BY <2>5 DEF IsLive, ChainOf
    <3> HIDE DEF at
    <3>6. ChainOf(pend, scope).at = l
      BY <3>2, <3>3
    <3>4. CASE l = m + 1
      <4>1. PICK k \in 1..3 : Top(contexts).kind \in Family[k]
        BY <1>0, OneFamily
      <4>2. Len(pend.scope[k]) = Count(contexts, m + 1, Family[k])
        BY <3>1, <3>4 DEF LeftAt
      <4>3. ~(Len(pend.scope[k]) < Len(scope[k]))
        BY <2>2, <4>2
      <4>4. ~IsLive(pend, scope2)
        BY <2>2, <4>1, <4>3 DEF IsLive
      <4>5. ChainOf(pend, scope2) = Dead
        BY <4>4 DEF IsLive, ChainOf, Dead
      <4>6. LeftInside(pend, Pop(contexts), scope2, n)
        BY <2>3, <4>4 DEF LeftInside
      <4>7. ChainOf(pend, scope).at >= Len(contexts)
        BY <3>4, <3>6
      <4> QED
        BY <4>5, <4>6, <4>7
    <3>5. CASE l \in 0..m
      <4>1. ASSUME NEW k \in 1..3
            PROVE  /\ Len(pend.scope[k]) = Count(Pop(contexts), l, Family[k])
                   /\ Top(contexts).kind \in Family[k] => Len(pend.scope[k]) < Len(scope[k])
        <5>1. l \in 0..Len(contexts) - 1 /\ contexts # <<>> /\ Len(contexts) - 1 = m
          <6>1. l \in 0..Len(contexts) - 1 /\ (m + 1) - 1 = m /\ m + 1 # 0 /\ Len(<<>>) = 0
            BY <3>5, EmptySeq
          <6> QED
            BY <6>1, Zenon
        <5>2. Count(Pop(contexts), l, Family[k]) = Count(contexts, l, Family[k])
          BY <5>1, CountPopped, Zenon
        <5>3. Len(pend.scope[k]) = Count(contexts, l, Family[k])
          BY <3>1, <4>1 DEF LeftAt
        <5>4. ASSUME Top(contexts).kind \in Family[k]
              PROVE  Len(pend.scope[k]) < Len(scope[k])
          <6>1. Count(contexts, m + 1, Family[k]) = Count(contexts, m, Family[k]) + 1
            BY <5>1, <5>4, CountPopped, Zenon
          <6>2. Count(contexts, l, Family[k]) <= Count(contexts, m, Family[k])
            BY <3>5, CountMonotone, Zenon
          <6>3. Count(contexts, m, Family[k]) \in Nat
            BY CountNext, Zenon
          <6>4. Len(scope[k]) = Count(contexts, m + 1, Family[k]) /\ Len(pend.scope[k]) \in Nat
            BY <2>2, <4>1
          <6> QED
            BY <5>3, <6>1, <6>2, <6>3, <6>4
        <5> QED
          BY <5>2, <5>3, <5>4
      <4>2. IsLive(pend, scope2)
        BY <2>2, <2>5, <4>1 DEF IsLive
      <4>3. ChainOf(pend, scope2) = ChainOf(pend, scope)
        BY <3>3, <4>2 DEF IsLive, ChainOf
      <4>4. LeftAt(pend, Pop(contexts), l)
        BY <4>1 DEF LeftAt
      <4>5. LeftInside(pend, Pop(contexts), scope2, n)
        BY <1>0, <2>3, <3>5, <4>4 DEF LeftInside
      <4>6. ~(ChainOf(pend, scope).at >= Len(contexts))
        BY <3>5, <3>6
      <4> QED
        BY <4>3, <4>5, <4>6
    <3> QED
      BY <3>4, <3>5
  <2> QED
    BY <2>4, <2>5
<1> QED
  BY <1>1, <1>2

(* The identities of the three stacks count the open contexts. *)
LEMMA FitsTotal ==
  ASSUME NEW contexts \in Seq(Context), NEW scope, Fits(contexts, scope)
  PROVE  Len(scope[1]) + Len(scope[2]) + Len(scope[3]) = Len(contexts)
<1>1. Len(contexts) \in 0..Len(contexts)
  BY LenProperties
<1>2. /\ Len(scope[1]) = Count(contexts, Len(contexts), Family[1])
      /\ Len(scope[2]) = Count(contexts, Len(contexts), Family[2])
      /\ Len(scope[3]) = Count(contexts, Len(contexts), Family[3])
  BY DEF Fits
<1> QED
  BY <1>1, <1>2, CountFamilies, Zenon

(* A chain just left in the block that is still open is live there. *)
LEMMA LiveHere ==
  ASSUME NEW contexts \in Seq(Context), NEW scope, ThreeStacks(scope),
         Fits(contexts, scope), NEW pend, pend # NoneChain, pend.scope = scope
  PROVE  /\ IsLive(pend, scope)
         /\ ChainOf(pend, scope) = [live |-> TRUE, at |-> Len(contexts),
                                    left |-> Point \ pend.covered.on]
         /\ LeftAt(pend, contexts, Len(contexts))
<1>1. ASSUME NEW k \in 1..3 PROVE IsPrefixOf(scope[k], scope[k])
  <2>1. scope[k] \in Seq(Nat) /\ Len(scope[k]) \in Nat
    BY <1>1, LenProperties DEF ThreeStacks
  <2> QED
    BY <2>1, SubSeqFull DEF IsPrefixOf
<1>2. IsLive(pend, scope)
  BY <1>1 DEF IsLive
<1>3. ChainOf(pend, scope) = [live |-> TRUE, at |-> Len(contexts),
                              left |-> Point \ pend.covered.on]
  BY <1>2, FitsTotal DEF IsLive, ChainOf
<1>4. LeftAt(pend, contexts, Len(contexts))
  BY DEF LeftAt, Fits
<1> QED
  BY <1>2, <1>3, <1>4

OpenBlock == [kind : {"arm", "last", "switch", "plain"}, run : SUBSET Point,
              left : SUBSET Point]

LEMMA BlockTyped ==
  ASSUME NEW contexts \in Seq(Context), NEW j \in 1..Len(contexts), NEW acts, NEW sws
  PROVE  /\ BlockAt(contexts, j, acts, sws) \in OpenBlock
         /\ BlockAt(contexts, j, acts, sws).run =
              Holding(acts, Count(contexts, j, Family[1]))
         /\ (contexts[j].kind = "switch" <=>
               BlockAt(contexts, j, acts, sws).kind = "switch")
<1>1. contexts[j].kind \in {"if", "else", "case", "switch", "region"}
  BY ElementOfSeq DEF Context
<1>2. Holding(acts, Count(contexts, j, ArmKinds)) \in SUBSET Point
  BY DEF Holding
<1>3. Family[1] = ArmKinds
  BY DEF Family
<1> QED
  BY <1>1, <1>2, <1>3 DEF BlockAt, Block, OpenBlock

LEMMA BlocksTyped ==
  ASSUME NEW contexts \in Seq(Context), NEW acts, NEW sws
  PROVE  /\ BlocksOf(contexts, acts, sws) \in Seq(OpenBlock)
         /\ Len(BlocksOf(contexts, acts, sws)) = Len(contexts)
         /\ \A j \in 1..Len(contexts) :
              BlocksOf(contexts, acts, sws)[j] = BlockAt(contexts, j, acts, sws)
         /\ DOMAIN BlocksOf(contexts, acts, sws) = 1..Len(contexts)
<1>1. Len(contexts) \in Nat /\ DOMAIN contexts = 1..Len(contexts)
  BY LenProperties
<1>2. \A j \in 1..Len(contexts) : BlockAt(contexts, j, acts, sws) \in OpenBlock
  BY BlockTyped
<1>3. BlocksOf(contexts, acts, sws) \in [1..Len(contexts) -> OpenBlock]
  BY <1>1, <1>2 DEF BlocksOf
<1>4. BlocksOf(contexts, acts, sws) \in Seq(OpenBlock)
  BY <1>1, <1>3, SeqDef
<1>5. \A j \in 1..Len(contexts) :
        BlocksOf(contexts, acts, sws)[j] = BlockAt(contexts, j, acts, sws)
  BY <1>1 DEF BlocksOf
<1>6. DOMAIN BlocksOf(contexts, acts, sws) = 1..Len(contexts)
  BY <1>3
<1>7. Len(BlocksOf(contexts, acts, sws)) = Len(contexts)
  <2> DEFINE b == BlocksOf(contexts, acts, sws)
  <2>1. DOMAIN b = 1..Len(b) /\ Len(b) \in Nat
    BY <1>4, LenProperties
  <2> HIDE DEF b
  <2> QED
    BY <1>1, <1>6, <2>1 DEF b
<1> QED
  BY <1>4, <1>5, <1>6, <1>7

LEMMA HoldingAgree ==
  ASSUME NEW acts, NEW acts2, NEW n \in Nat, \A i \in 1..n : acts2[i] = acts[i]
  PROVE  Holding(acts2, n) = Holding(acts, n)
BY DEF Holding

LEMMA HoldingPushed ==
  ASSUME NEW acts \in Seq(ActiveCondition), NEW a \in ActiveCondition
  PROVE  /\ Holding(Append(acts, a), Len(acts) + 1) =
              Holding(acts, Len(acts)) \cap a.cond.on
         /\ Holding(<<>>, 0) = Point
<1>1. /\ Len(acts) \in Nat
      /\ \A i \in 1..Len(acts) : Append(acts, a)[i] = acts[i]
      /\ Append(acts, a)[Len(acts) + 1] = a
  BY AppendProperties, LenProperties
<1>2. a.cond.on \subseteq Point
  BY DEF ActiveCondition, Condition
<1>3. 1..Len(acts) + 1 = (1..Len(acts)) \cup {Len(acts) + 1}
  BY <1>1
<1>4. ASSUME NEW p \in Point
      PROVE  (\A i \in 1..Len(acts) + 1 : p \in Append(acts, a)[i].cond.on) <=>
             (\A i \in 1..Len(acts) : p \in acts[i].cond.on) /\ p \in a.cond.on
  BY <1>1, <1>3
<1>5. Holding(<<>>, 0) = Point
  BY DEF Holding
<1> QED
  BY <1>2, <1>4, <1>5 DEF Holding

(* What a block depends on: the contexts, conditions and switches under it. *)
SameUnder(c, d, j, acts, acts2, sws, sws2) ==
  /\ c[j] = d[j] /\ \A i \in 1..j : c[i].kind = d[i].kind
  /\ \A i \in 1..Count(c, j, Family[1]) : acts2[i] = acts[i]
  /\ c[j].kind \in Family[2] => sws2[Count(c, j, Family[2])].covered.on =
                                   sws[Count(c, j, Family[2])].covered.on

LEMMA BlockAgree ==
  ASSUME NEW c, NEW d, NEW j \in Nat, NEW acts, NEW acts2, NEW sws, NEW sws2,
         SameUnder(c, d, j, acts, acts2, sws, sws2)
  PROVE  BlockAt(d, j, acts2, sws2) = BlockAt(c, j, acts, sws)
<1>1. Family[1] = ArmKinds /\ Family[2] = {"switch"}
  BY DEF Family
<1>2. /\ Count(d, j, ArmKinds) = Count(c, j, ArmKinds)
      /\ Count(d, j, {"switch"}) = Count(c, j, {"switch"})
  BY CountAgree DEF SameUnder
<1>3. Count(c, j, ArmKinds) \in Nat
  BY CountNext
<1>4. Holding(acts2, Count(c, j, ArmKinds)) = Holding(acts, Count(c, j, ArmKinds))
  BY <1>1, <1>3, HoldingAgree DEF SameUnder
<1> DEFINE run == Holding(acts, Count(c, j, ArmKinds))
           l == sws[Count(c, j, {"switch"})].covered.on
           l2 == sws2[Count(c, j, {"switch"})].covered.on
<1>5. /\ BlockAt(c, j, acts, sws) =
           CASE c[j].kind = "if"     -> Block("arm", run, Point \ c[j].chain.covered.on)
             [] c[j].kind = "else"   -> Block("last", run, {})
             [] c[j].kind = "switch" -> Block("switch", run, Point \ l)
             [] OTHER             -> Block("plain", run, {})
      /\ BlockAt(d, j, acts2, sws2) =
           CASE c[j].kind = "if"     -> Block("arm", run, Point \ c[j].chain.covered.on)
             [] c[j].kind = "else"   -> Block("last", run, {})
             [] c[j].kind = "switch" -> Block("switch", run, Point \ l2)
             [] OTHER             -> Block("plain", run, {})
  BY <1>2, <1>4 DEF BlockAt, SameUnder
<1>6. c[j].kind = "switch" => l2 = l
  BY <1>1 DEF SameUnder
<1> HIDE DEF run, l, l2
<1> QED
  BY <1>5, <1>6

LEMMA CountSelf ==
  ASSUME NEW c, NEW kinds, NEW j \in Nat \ {0}
  PROVE  /\ Count(c, j, kinds) \in Nat /\ Count(c, j - 1, kinds) \in Nat
         /\ c[j].kind \in kinds => Count(c, j, kinds) = Count(c, j - 1, kinds) + 1
         /\ c[j].kind \notin kinds => Count(c, j, kinds) = Count(c, j - 1, kinds)
<1>1. j - 1 \in Nat /\ j = (j - 1) + 1
  OBVIOUS
<1>2. PICK n \in Nat : n = j - 1 /\ j = n + 1
  BY <1>1, Zenon
<1>3. /\ Count(c, n, kinds) \in Nat
      /\ c[n + 1].kind \in kinds => Count(c, n + 1, kinds) = Count(c, n, kinds) + 1
      /\ c[n + 1].kind \notin kinds => Count(c, n + 1, kinds) = Count(c, n, kinds)
  BY CountNext, Zenon
<1>4. Count(c, j, kinds) \in Nat
  BY CountNext, Zenon
<1> QED
  BY <1>2, <1>3, <1>4, Zenon

LEMMA BlocksPushed ==
  ASSUME NEW contexts \in Seq(Context), NEW x \in Context,
         NEW acts, NEW acts2, NEW sws, NEW sws2,
         \A i \in 1..Count(contexts, Len(contexts), Family[1]) : acts2[i] = acts[i],
         \A i \in 1..Count(contexts, Len(contexts), Family[2]) :
           sws2[i].covered.on = sws[i].covered.on
  PROVE  BlocksOf(Append(contexts, x), acts2, sws2) =
           Append(BlocksOf(contexts, acts, sws),
                  BlockAt(Append(contexts, x), Len(contexts) + 1, acts2, sws2))
<1> DEFINE d == Append(contexts, x)
           n == Len(contexts)
           b == BlockAt(d, n + 1, acts2, sws2)
           left == BlocksOf(d, acts2, sws2)
           old == BlocksOf(contexts, acts, sws)
<1>1. /\ d \in Seq(Context) /\ Len(d) = n + 1 /\ n \in Nat
      /\ \A i \in 1..n : d[i] = contexts[i]
  BY AppendProperties, LenProperties
<1>2. /\ left \in Seq(OpenBlock) /\ Len(left) = n + 1
      /\ \A j \in 1..n + 1 : left[j] = BlockAt(d, j, acts2, sws2)
  <2> HIDE DEF d
  <2> QED
    BY <1>1, BlocksTyped
<1>3. /\ old \in Seq(OpenBlock) /\ Len(old) = n
      /\ \A j \in 1..n : old[j] = BlockAt(contexts, j, acts, sws)
  BY BlocksTyped
<1>4. b \in OpenBlock
  <2>1. n + 1 \in 1..Len(d)
    BY <1>1
  <2> HIDE DEF d
  <2> QED
    BY <2>1, BlockTyped, <1>1
<1>5. ASSUME NEW j \in 1..n
      PROVE  BlockAt(d, j, acts2, sws2) = BlockAt(contexts, j, acts, sws)
  <2>1. j \in Nat /\ contexts[j] = d[j] /\ \A i \in 1..j : contexts[i].kind = d[i].kind
    BY <1>1
  <2>2. /\ Count(contexts, j, Family[1]) <= Count(contexts, n, Family[1])
        /\ Count(contexts, j, Family[2]) <= Count(contexts, n, Family[2])
    <3>1. j \in 0..n
      BY <1>1
    <3> QED
      BY <1>1, <3>1, CountMonotone, Zenon
  <2>3. /\ Count(contexts, j, Family[1]) \in Nat /\ Count(contexts, n, Family[1]) \in Nat
        /\ Count(contexts, j, Family[2]) \in Nat /\ Count(contexts, n, Family[2]) \in Nat
    BY <1>1, <2>1, CountNext, Zenon
  <2>4. \A i \in 1..Count(contexts, j, Family[1]) : acts2[i] = acts[i]
    <3>1. 1..Count(contexts, j, Family[1]) \subseteq 1..Count(contexts, n, Family[1])
      BY <2>2, <2>3
    <3> QED
      BY <3>1
  <2>5. ASSUME contexts[j].kind = "switch"
        PROVE  sws2[Count(contexts, j, Family[2])].covered.on =
                 sws[Count(contexts, j, Family[2])].covered.on
    <3>1. Count(contexts, j, Family[2]) >= 1
      <4>1. j \in Nat \ {0} /\ contexts[j].kind \in Family[2]
        BY <2>5 DEF Family
      <4>2. /\ Count(contexts, j, Family[2]) = Count(contexts, j - 1, Family[2]) + 1
            /\ Count(contexts, j - 1, Family[2]) \in Nat
        BY <4>1, CountSelf, Zenon
      <4> QED
        BY <4>2
    <3>2. Count(contexts, j, Family[2]) \in 1..Count(contexts, n, Family[2])
      BY <2>2, <2>3, <3>1
    <3> QED
      BY <3>2
  <2> HIDE DEF d, n
  <2>6. contexts[j].kind \in Family[2] =>
          sws2[Count(contexts, j, Family[2])].covered.on =
            sws[Count(contexts, j, Family[2])].covered.on
    BY <2>5 DEF Family
  <2>7. SameUnder(contexts, d, j, acts, acts2, sws, sws2)
    BY <2>1, <2>4, <2>6 DEF SameUnder
  <2> QED
    BY <2>1, <2>7, BlockAgree
<1>6. /\ Append(old, b) \in Seq(OpenBlock) /\ Len(Append(old, b)) = n + 1
      /\ \A j \in 1..n : Append(old, b)[j] = old[j]
      /\ Append(old, b)[n + 1] = b
  <2> HIDE DEF b, old
  <2> QED
    BY <1>3, <1>4, AppendProperties
<1> HIDE DEF old, left, b, d, n
<1>7. ASSUME NEW j \in 1..n + 1 PROVE left[j] = Append(old, b)[j]
  <2>1. CASE j = n + 1
    BY <1>2, <1>6, <2>1 DEF b
  <2>2. CASE j \in 1..n
    <3>1. j \in 1..n + 1
      OBVIOUS
    <3>2. left[j] = BlockAt(d, j, acts2, sws2) /\ Append(old, b)[j] = old[j]
      BY <1>2, <1>6, <2>2, <3>1
    <3> QED
      BY <1>3, <1>5, <2>2, <3>2
  <2>3. n \in Nat
    BY <1>1
  <2> QED
    BY <2>1, <2>2, <2>3, UpToNext, Zenon
<1> QED
  BY <1>2, <1>6, <1>7, SeqEqual DEF left, old, b, d, n

SameTo(n, q, r) == \A i \in 1..n : r[i] = q[i]

PoppedTo(contexts, acts, sws, acts2, sws2, m) ==
  BlocksOf(Pop(contexts), acts2, sws2) = SubSeq(BlocksOf(contexts, acts, sws), 1, m)

LEMMA BlocksPopped ==
  ASSUME NEW contexts \in Seq(Context), NEW m \in Nat, Len(contexts) = m + 1,
         NEW acts, NEW acts2, NEW sws, NEW sws2,
         SameTo(Count(contexts, m, Family[1]), acts, acts2),
         SameTo(Count(contexts, m, Family[2]), sws, sws2)
  PROVE  PoppedTo(contexts, acts, sws, acts2, sws2, m)
<1> DEFINE d == Pop(contexts)
           old == BlocksOf(contexts, acts, sws)
           left == BlocksOf(d, acts2, sws2)
<1>1. /\ d \in Seq(Context) /\ Len(d) = m
      /\ \A i \in 1..m : d[i] = contexts[i]
  BY LastOff, Zenon
<1>2. /\ left \in Seq(OpenBlock) /\ Len(left) = m
      /\ \A j \in 1..m : left[j] = BlockAt(d, j, acts2, sws2)
  <2> HIDE DEF d
  <2> QED
    BY <1>1, BlocksTyped
<1>3. /\ old \in Seq(OpenBlock) /\ Len(old) = m + 1
      /\ \A j \in 1..m + 1 : old[j] = BlockAt(contexts, j, acts, sws)
  BY BlocksTyped
<1>4. ASSUME NEW j \in 1..m
      PROVE  BlockAt(d, j, acts2, sws2) = BlockAt(contexts, j, acts, sws)
  <2>1. j \in Nat /\ contexts[j] = d[j] /\ \A i \in 1..j : contexts[i].kind = d[i].kind
    BY <1>1
  <2>2. /\ Count(contexts, j, Family[1]) <= Count(contexts, m, Family[1])
        /\ Count(contexts, j, Family[2]) <= Count(contexts, m, Family[2])
    <3>1. j \in 0..m
      BY <1>1
    <3> QED
      BY <3>1, CountMonotone, Zenon
  <2>3. /\ Count(contexts, j, Family[1]) \in Nat /\ Count(contexts, m, Family[1]) \in Nat
        /\ Count(contexts, j, Family[2]) \in Nat /\ Count(contexts, m, Family[2]) \in Nat
    BY <2>1, CountNext, Zenon
  <2>4. \A i \in 1..Count(contexts, j, Family[1]) : acts2[i] = acts[i]
    <3>1. 1..Count(contexts, j, Family[1]) \subseteq 1..Count(contexts, m, Family[1])
      BY <2>2, <2>3
    <3> QED
      BY <3>1, SMTT(30) DEF SameTo
  <2>5. ASSUME contexts[j].kind = "switch"
        PROVE  sws2[Count(contexts, j, Family[2])].covered.on =
                 sws[Count(contexts, j, Family[2])].covered.on
    <3>1. Count(contexts, j, Family[2]) >= 1
      <4>1. j \in Nat \ {0} /\ contexts[j].kind \in Family[2]
        BY <2>5 DEF Family
      <4>2. /\ Count(contexts, j, Family[2]) = Count(contexts, j - 1, Family[2]) + 1
            /\ Count(contexts, j - 1, Family[2]) \in Nat
        BY <4>1, CountSelf, Zenon
      <4> QED
        BY <4>2
    <3>2. Count(contexts, j, Family[2]) \in 1..Count(contexts, m, Family[2])
      BY <2>2, <2>3, <3>1
    <3> QED
      BY <3>2, SMTT(30) DEF SameTo
  <2> HIDE DEF d
  <2>6. contexts[j].kind \in Family[2] =>
          sws2[Count(contexts, j, Family[2])].covered.on =
            sws[Count(contexts, j, Family[2])].covered.on
    BY <2>5 DEF Family
  <2>7. SameUnder(contexts, d, j, acts, acts2, sws, sws2)
    BY <2>1, <2>4, <2>6 DEF SameUnder
  <2> QED
    BY <2>1, <2>7, BlockAgree
<1> HIDE DEF old, left, d
<1>5. /\ SubSeq(old, 1, m) \in Seq(OpenBlock) /\ Len(SubSeq(old, 1, m)) = m
      /\ \A j \in 1..m : SubSeq(old, 1, m)[j] = old[j]
  <2>1. Len(old) = m + 1 /\ old \in Seq(OpenBlock)
    BY <1>3
  <2>2. Pop(old) = SubSeq(old, 1, m)
    <3>1. (m + 1) - 1 = m
      OBVIOUS
    <3> QED
      BY <2>1, <3>1, Zenon DEF Pop
  <2> QED
    BY <2>1, <2>2, LastOff, ZenonT(40)
<1>6. ASSUME NEW j \in 1..m PROVE left[j] = SubSeq(old, 1, m)[j]
  <2>1. j \in 1..m + 1
    OBVIOUS
  <2> QED
    BY <1>2, <1>3, <1>4, <1>5, <2>1
<1>7. left = SubSeq(old, 1, m)
  BY <1>2, <1>5, <1>6, SeqEqual
<1> QED
  BY <1>7, Zenon DEF left, old, d, PoppedTo

(* The innermost open switch is the last context of that kind. *)
LEMMA InnermostSwitch ==
  ASSUME NEW contexts \in Seq(Context),
         NEW n \in Nat, n # 0, n = Count(contexts, Len(contexts), Family[2])
  PROVE  \E k \in 1..Len(contexts) :
           /\ contexts[k].kind \in Family[2]
           /\ Count(contexts, k, Family[2]) = n
           /\ \A j \in 1..Len(contexts) : contexts[j].kind \in Family[2] =>
                j <= k /\ (j # k => Count(contexts, j, Family[2]) \in 1..(n - 1))
<1> DEFINE f(j) == Count(contexts, j, Family[2])
           len == Len(contexts)
           T == {j \in 0..len : f(j) = n}
<1>0. len \in Nat
  BY LenProperties
<1>1. PICK k \in T : \A j \in T : k <= j
  <2>1. T \in SUBSET Nat /\ len \in T
    BY <1>0
  <2> HIDE DEF T
  <2> QED
    BY <2>1, LeastNatural
<1>2. ASSUME NEW j \in 1..len
      PROVE  /\ f(j) \in Nat /\ f(j - 1) \in Nat
             /\ contexts[j].kind \in Family[2] => f(j) = f(j - 1) + 1
             /\ contexts[j].kind \notin Family[2] => f(j) = f(j - 1)
  <2>1. j \in Nat \ {0}
    OBVIOUS
  <2> QED
    BY <2>1, CountSelf, Zenon
<1>3. ASSUME NEW j \in 0..len, NEW l \in 0..j PROVE f(l) <= f(j)
  <2>1. j \in Nat
    BY <1>0
  <2> QED
    BY <2>1, CountMonotone, Zenon
<1>4. f(0) = 0
  BY CountNext, Zenon
<1> HIDE DEF f
<1>5. k \in 1..len /\ f(k) = n
  BY <1>0, <1>1, <1>4
<1>6. contexts[k].kind \in Family[2]
  <2>1. k - 1 \in 0..len /\ ~(k <= k - 1)
    BY <1>0, <1>5
  <2>2. f(k - 1) # n
    BY <1>1, <2>1
  <2> QED
    BY <1>2, <1>5, <2>2
<1>7. ASSUME NEW j \in 1..len, contexts[j].kind \in Family[2]
      PROVE  j <= k /\ (j # k => f(j) \in 1..(n - 1))
  <2>1. f(j) = f(j - 1) + 1 /\ f(j) \in Nat /\ f(j - 1) \in Nat
    BY <1>2, <1>7
  <2>2. CASE k <= j - 1
    <3>1. k \in 0..j - 1 /\ j - 1 \in 0..len /\ j \in 0..len /\ len \in 0..len
          /\ j \in 0..len
      BY <1>0, <1>5, <2>2
    <3>2. f(k) <= f(j - 1) /\ f(j) <= f(len)
      BY <1>3, <3>1
    <3>3. f(len) = n
      BY DEF f
    <3> QED
      BY <1>5, <2>1, <3>2, <3>3
  <2>3. CASE j = k
    BY <2>3, <1>5
  <2>4. CASE j <= k - 1
    <3>1. j \in 0..k /\ k \in 0..len /\ j \in 0..len /\ ~(k <= j)
      BY <1>0, <1>5, <2>4
    <3>2. f(j) <= f(k) /\ f(j) # n
      BY <1>1, <1>3, <3>1 DEF f
    <3>3. f(j) \in 1..(n - 1)
      BY <1>5, <2>1, <3>2
    <3> QED
      BY <2>4, <3>3, <1>5
  <2>5. k <= j - 1 \/ j = k \/ j <= k - 1
    BY <1>5
  <2> QED
    BY <2>2, <2>3, <2>4, <2>5
<1> QED
  BY <1>5, <1>6, <1>7 DEF f

LEMMA LeftReplaced ==
  ASSUME NEW r, NEW run, NEW a, NEW b, r = [kind |-> "switch", run |-> run, left |-> a]
  PROVE  [r EXCEPT !.left = b] = [kind |-> "switch", run |-> run, left |-> b]
OBVIOUS

(* An arm of the innermost switch takes points from that block alone. *)
(* One sequence of blocks follows from another by what is left to a switch. *)
LeftChanged(q, r, k, b) ==
  /\ q \in Seq(OpenBlock) /\ r \in Seq(OpenBlock) /\ DOMAIN r = DOMAIN q
  /\ k \in DOMAIN q /\ \A j \in DOMAIN q : j # k => r[j] = q[j]
  /\ q[k] = [kind |-> "switch", run |-> q[k].run, left |-> q[k].left]
  /\ r[k] = [kind |-> "switch", run |-> q[k].run, left |-> b]

LEMMA BlocksTaken ==
  ASSUME NEW contexts \in Seq(Context), NEW acts, NEW sws \in Seq(SwitchState),
         NEW n \in Nat, n # 0, Len(sws) = n,
         n = Count(contexts, Len(contexts), Family[2]),
         NEW sws2, \A i \in 1..(n - 1) : sws2[i] = sws[i]
  PROVE  \E k \in 1..Len(contexts) :
           /\ BlocksOf(contexts, acts, sws)[k].kind = "switch"
           /\ \A j \in 1..Len(contexts) :
                BlocksOf(contexts, acts, sws)[j].kind = "switch" => j <= k
           /\ BlocksOf(contexts, acts, sws)[k].left = Point \ sws[n].covered.on
           /\ LeftChanged(BlocksOf(contexts, acts, sws), BlocksOf(contexts, acts, sws2), k,
                          Point \ sws2[n].covered.on)
<1> DEFINE blocks == BlocksOf(contexts, acts, sws)
           blocks2 == BlocksOf(contexts, acts, sws2)
           len == Len(contexts)
<1>1. PICK k \in 1..len :
           /\ contexts[k].kind \in Family[2]
           /\ Count(contexts, k, Family[2]) = n
           /\ \A j \in 1..len : contexts[j].kind \in Family[2] =>
                j <= k /\ (j # k => Count(contexts, j, Family[2]) \in 1..(n - 1))
  BY InnermostSwitch, Zenon
<1>2. /\ blocks \in Seq(OpenBlock) /\ DOMAIN blocks = 1..len
      /\ \A j \in 1..len : blocks[j] = BlockAt(contexts, j, acts, sws)
      /\ blocks2 \in Seq(OpenBlock) /\ DOMAIN blocks2 = 1..len
      /\ \A j \in 1..len : blocks2[j] = BlockAt(contexts, j, acts, sws2)
  BY BlocksTyped
<1>3. \A j \in 1..len : blocks[j].kind = "switch" <=> contexts[j].kind \in Family[2]
  BY <1>2, BlockTyped DEF Family
<1>4. blocks[k].kind = "switch" /\ \A j \in 1..len : blocks[j].kind = "switch" => j <= k
  BY <1>1, <1>2, <1>3
<1>6. ASSUME NEW j \in 1..len, j # k
      PROVE  BlockAt(contexts, j, acts, sws2) = BlockAt(contexts, j, acts, sws)
  <2>1. contexts[j].kind \in Family[2] =>
          sws2[Count(contexts, j, Family[2])].covered.on =
            sws[Count(contexts, j, Family[2])].covered.on
    BY <1>1, <1>6
  <2>2. SameUnder(contexts, contexts, j, acts, acts, sws, sws2)
    BY <2>1 DEF SameUnder
  <2>3. j \in Nat
    OBVIOUS
  <2> QED
    BY <2>2, <2>3, BlockAgree
<1>7. ASSUME NEW s
      PROVE  BlockAt(contexts, k, acts, s) =
               [kind |-> "switch", run |-> Holding(acts, Count(contexts, k, ArmKinds)),
                left |-> Point \ s[n].covered.on]
  <2>1. contexts[k].kind = "switch" /\ Count(contexts, k, {"switch"}) = n
    BY <1>1 DEF Family
  <2> QED
    BY <2>1 DEF BlockAt, Block
<1>8. /\ blocks[k] = [kind |-> "switch", run |-> Holding(acts, Count(contexts, k, ArmKinds)),
                      left |-> Point \ sws[n].covered.on]
      /\ blocks2[k] = [kind |-> "switch", run |-> Holding(acts, Count(contexts, k, ArmKinds)),
                       left |-> Point \ sws2[n].covered.on]
  <2> HIDE DEF blocks, blocks2
  <2> QED
    BY <1>2, <1>7
<1>9. LeftChanged(blocks, blocks2, k, Point \ sws2[n].covered.on)
  <2> HIDE DEF blocks, blocks2
  <2> QED
    BY <1>2, <1>6, <1>8 DEF LeftChanged
<1>10. blocks[k].left = Point \ sws[n].covered.on
  BY <1>8
<1> HIDE DEF blocks, blocks2
<1> QED
  BY <1>4, <1>9, <1>10 DEF blocks, blocks2

(* What that says of the two sequences of blocks. *)
LEMMA LeftChangedIs ==
  ASSUME NEW q, NEW r, NEW k, NEW b, LeftChanged(q, r, k, b)
  PROVE  r = [q EXCEPT ![k].left = b]
<1> DEFINE new == [q EXCEPT ![k].left = b]
           run == q[k].run
           a == q[k].left
<1>1. /\ q \in Seq(OpenBlock) /\ r \in Seq(OpenBlock) /\ DOMAIN r = DOMAIN q
      /\ k \in DOMAIN q /\ \A j \in DOMAIN q : j # k => r[j] = q[j]
      /\ q[k] = [kind |-> "switch", run |-> run, left |-> a]
      /\ r[k] = [kind |-> "switch", run |-> run, left |-> b]
  BY DEF LeftChanged
<1> HIDE DEF run, a
<1>2. new = [q EXCEPT ![k] = [q[k] EXCEPT !.left = b]]
  OBVIOUS
<1>3. [q[k] EXCEPT !.left = b] = r[k]
  BY <1>1, LeftReplaced
<1>4. new = [q EXCEPT ![k] = r[k]]
  BY <1>2, <1>3
<1> HIDE DEF new
<1>5. \A j \in DOMAIN q : r[j] = [q EXCEPT ![k] = r[k]][j]
  BY <1>1
<1>6. r = [j \in DOMAIN q |-> r[j]] /\ q = [j \in DOMAIN q |-> q[j]]
  <2>1. q \in [1..Len(q) -> OpenBlock] /\ r \in [1..Len(r) -> OpenBlock]
    BY <1>1, LenProperties
  <2> QED
    BY <1>1, <2>1
<1>7. r = [q EXCEPT ![k] = r[k]]
  BY <1>5, <1>6
<1> QED
  BY <1>4, <1>7 DEF new

-----------------------------------------------------------------------------
(* The identities on the stacks. *)
(* The identities on a stack follow what is done to the stack. *)
LEMMA IdsOf ==
  ASSUME NEW S, \A e \in S : e.id \in Nat, NEW q \in Seq(S)
  PROVE  /\ Ids(q) \in Seq(Nat) /\ Len(Ids(q)) = Len(q)
         /\ \A i \in 1..Len(q) : Ids(q)[i] = q[i].id
<1>1. Len(q) \in Nat /\ DOMAIN q = 1..Len(q) /\ \A i \in 1..Len(q) : q[i].id \in Nat
  BY LenProperties, ElementOfSeq
<1>2. Ids(q) \in [1..Len(q) -> Nat]
  BY <1>1 DEF Ids
<1>3. Ids(q) \in Seq(Nat)
  BY <1>1, <1>2, SeqDef
<1>4. DOMAIN Ids(q) = 1..Len(Ids(q)) /\ Len(Ids(q)) \in Nat
  BY <1>3, LenProperties
<1>5. DOMAIN Ids(q) = 1..Len(q)
  BY <1>2
<1>6. Len(Ids(q)) = Len(q)
  <2> DEFINE m == Len(Ids(q))
             n == Len(q)
  <2>1. m \in Nat /\ n \in Nat /\ 1..m = 1..n
    BY <1>1, <1>4, <1>5
  <2> HIDE DEF m, n
  <2>2. m = n
    BY <2>1
  <2> QED
    BY <2>2 DEF m, n
<1>7. \A i \in 1..Len(q) : Ids(q)[i] = q[i].id
  BY <1>1 DEF Ids
<1> QED
  BY <1>3, <1>6, <1>7

LEMMA IdsPushed ==
  ASSUME NEW S, \A e \in S : e.id \in Nat, NEW q \in Seq(S), NEW x \in S
  PROVE  Ids(Append(q, x)) = Append(Ids(q), x.id)
<1>1. /\ Append(q, x) \in Seq(S) /\ Len(Append(q, x)) = Len(q) + 1 /\ Len(q) \in Nat
      /\ \A i \in 1..Len(q) : Append(q, x)[i] = q[i]
      /\ Append(q, x)[Len(q) + 1] = x
  BY AppendProperties, LenProperties
<1>2. /\ Ids(q) \in Seq(Nat) /\ Len(Ids(q)) = Len(q)
      /\ \A i \in 1..Len(q) : Ids(q)[i] = q[i].id
  BY IdsOf
<1> DEFINE r == Append(q, x)
<1>3. /\ Ids(r) \in Seq(Nat) /\ Len(Ids(r)) = Len(r)
      /\ \A i \in 1..Len(r) : Ids(r)[i] = r[i].id
  <2> HIDE DEF r
  <2> QED
    BY <1>1, IdsOf DEF r
<1>4. x.id \in Nat
  OBVIOUS
<1> DEFINE t == Append(Ids(q), x.id)
<1>5. /\ t \in Seq(Nat) /\ Len(t) = Len(q) + 1
      /\ \A i \in 1..Len(q) : t[i] = Ids(q)[i]
      /\ t[Len(q) + 1] = x.id
  BY <1>2, <1>4, AppendProperties
<1>6. ASSUME NEW i \in 1..Len(q) + 1 PROVE Ids(r)[i] = t[i]
  <2>1. Ids(r)[i] = r[i].id
    BY <1>1, <1>3
  <2>2. i = Len(q) + 1 \/ i \in 1..Len(q)
    BY <1>1, UpToNext, Zenon
  <2> HIDE DEF t
  <2>3. CASE i = Len(q) + 1
    BY <1>1, <1>5, <2>1, <2>3
  <2>4. CASE i \in 1..Len(q)
    BY <1>1, <1>2, <1>5, <2>1, <2>4
  <2> QED
    BY <2>2, <2>3, <2>4
<1> HIDE DEF r, t
<1>7. Ids(r) = t
  BY <1>1, <1>3, <1>5, <1>6, SeqEqual DEF r
<1> QED
  BY <1>7 DEF r, t

LEMMA IdsPopped ==
  ASSUME NEW S, \A e \in S : e.id \in Nat, NEW q \in Seq(S), NEW n \in Nat, Len(q) = n + 1
  PROVE  Ids(Pop(q)) = Pop(Ids(q))
<1>1. Pop(q) \in Seq(S) /\ Len(Pop(q)) = n /\ \A i \in 1..n : Pop(q)[i] = q[i]
  BY LastOff, Zenon
<1>2. /\ Ids(q) \in Seq(Nat) /\ Len(Ids(q)) = n + 1
      /\ \A i \in 1..n + 1 : Ids(q)[i] = q[i].id
  BY IdsOf
<1>3. /\ Ids(Pop(q)) \in Seq(Nat) /\ Len(Ids(Pop(q))) = n
      /\ \A i \in 1..n : Ids(Pop(q))[i] = Pop(q)[i].id
  BY <1>1, IdsOf
<1>4. Pop(Ids(q)) \in Seq(Nat) /\ Len(Pop(Ids(q))) = n /\ \A i \in 1..n : Pop(Ids(q))[i] = Ids(q)[i]
  BY <1>2, LastOff, Zenon
<1>5. \A i \in 1..n : Ids(Pop(q))[i] = Pop(Ids(q))[i]
  <2>1. \A i \in 1..n : i \in 1..n + 1
    OBVIOUS
  <2> QED
    BY <1>1, <1>2, <1>3, <1>4, <2>1
<1> QED
  BY <1>3, <1>4, <1>5, SeqEqual

LEMMA HaveIds ==
  /\ \A e \in ActiveCondition : e.id \in Nat
  /\ \A e \in SwitchState : e.id \in Nat
  /\ \A e \in RegionState : e.id \in Nat
BY DEF ActiveCondition, SwitchState, RegionState

LEMMA ScopeStacks ==
  ASSUME NEW a \in Seq(ActiveCondition), NEW w \in Seq(SwitchState), NEW r \in Seq(RegionState)
  PROVE  /\ ThreeStacks(ScopeOf(a, w, r))
         /\ Len(ScopeOf(a, w, r)[1]) = Len(a)
         /\ Len(ScopeOf(a, w, r)[2]) = Len(w)
         /\ Len(ScopeOf(a, w, r)[3]) = Len(r)
         /\ ScopeOf(a, w, r) # <<>>
<1>1. /\ Ids(a) \in Seq(Nat) /\ Len(Ids(a)) = Len(a)
      /\ Ids(w) \in Seq(Nat) /\ Len(Ids(w)) = Len(w)
      /\ Ids(r) \in Seq(Nat) /\ Len(Ids(r)) = Len(r)
  BY HaveIds, IdsOf
<1>2. /\ ScopeOf(a, w, r)[1] = Ids(a) /\ ScopeOf(a, w, r)[2] = Ids(w)
      /\ ScopeOf(a, w, r)[3] = Ids(r)
  BY DEF ScopeOf
<1>3. ASSUME NEW k \in 1..3 PROVE ScopeOf(a, w, r)[k] \in Seq(Nat)
  <2>1. k = 1 \/ k = 2 \/ k = 3
    OBVIOUS
  <2> QED
    BY <1>1, <1>2, <2>1
<1>4. ScopeOf(a, w, r) # <<>>
  BY DEF ScopeOf
<1> QED
  BY <1>1, <1>2, <1>3, <1>4 DEF ThreeStacks

(* Each kind of context is pushed onto, and popped off, its own stack. *)
LEMMA FamilyOf ==
  ASSUME NEW x
  PROVE  /\ x.kind \in {"if", "else", "case"} =>
              x.kind \in Family[1] /\ x.kind \notin Family[2] /\ x.kind \notin Family[3]
         /\ x.kind = "switch" =>
              x.kind \notin Family[1] /\ x.kind \in Family[2] /\ x.kind \notin Family[3]
         /\ x.kind = "region" =>
              x.kind \notin Family[1] /\ x.kind \notin Family[2] /\ x.kind \in Family[3]
BY DEF Family, ArmKinds

LEMMA ScopeStep ==
  ASSUME NEW s1, NEW s2, NEW s3, NEW t1, NEW t2, NEW t3, NEW x, NEW id
  PROVE  /\ x.kind \in {"if", "else", "case"} /\ t2 = s2 /\ t3 = s3 =>
              /\ t1 = Append(s1, id) => Pushed(<<s1, s2, s3>>, <<t1, t2, t3>>, x, id)
              /\ t1 = Pop(s1) => PoppedOff(<<s1, s2, s3>>, <<t1, t2, t3>>, x)
         /\ x.kind = "switch" /\ t1 = s1 /\ t3 = s3 =>
              /\ t2 = Append(s2, id) => Pushed(<<s1, s2, s3>>, <<t1, t2, t3>>, x, id)
              /\ t2 = Pop(s2) => PoppedOff(<<s1, s2, s3>>, <<t1, t2, t3>>, x)
         /\ x.kind = "region" /\ t1 = s1 /\ t2 = s2 =>
              /\ t3 = Append(s3, id) => Pushed(<<s1, s2, s3>>, <<t1, t2, t3>>, x, id)
              /\ t3 = Pop(s3) => PoppedOff(<<s1, s2, s3>>, <<t1, t2, t3>>, x)
<1>1. 1..3 = {1, 2, 3}
  OBVIOUS
<1>2. /\ <<s1, s2, s3>>[1] = s1 /\ <<s1, s2, s3>>[2] = s2 /\ <<s1, s2, s3>>[3] = s3
      /\ <<t1, t2, t3>>[1] = t1 /\ <<t1, t2, t3>>[2] = t2 /\ <<t1, t2, t3>>[3] = t3
  OBVIOUS
<1> QED
  BY <1>1, <1>2, FamilyOf DEF Pushed, PoppedOff

-----------------------------------------------------------------------------
(***************************************************************************)
(* The invariant behind the refinement.                                    *)
(***************************************************************************)
SoundActive  == {a \in ActiveCondition : BornOut(a.cond)}
SoundChain   == {c \in IfChain : BornOut(c.covered)}
SoundContext == {x \in Context : x.kind = "if" => BornOut(x.chain.covered)}
SoundSwitch  == {w \in SwitchState : BornOut(w.covered)}

SoundScope == [active : Seq(SoundActive), pending : SoundChain, open : Seq(SoundContext),
               switches : Seq(SoundSwitch), regions : Seq(RegionState)]

(* The scope the program is in, as a fresh scope would put it aside. *)
Here == [active |-> active, pending |-> pending, open |-> open,
         switches |-> switches, regions |-> regions]

ScopeIn(c) == ScopeOf(c.active, c.switches, c.regions)

(* The open contexts and the three stacks agree, identities are issued in  *)
(* order, and a pending chain that still counts was left in an open block. *)
Placed(c, n) ==
  /\ Fits(c.open, ScopeIn(c))
  /\ Issued(ScopeIn(c), n)
  /\ LeftInside(c.pending, c.open, ScopeIn(c), n)

ScopeFit(c, n) == c \in SoundScope /\ Placed(c, n)

Bounded == /\ made.arms \in 0..MaxArms /\ made.assigns \in 0..MaxAssigns
           /\ made.frames \in 0..MaxFrames

DriverSound == driver = NoDriver \/ driver \in Cascade

OuterFit == \A k \in DOMAIN scopes : ScopeFit(scopes[k], Total)

ProgramInv ==
  /\ ChainsKnown
  /\ ScopeFit(Here, Total)
  /\ OuterFit
  /\ Bounded
  /\ DriverSound

LEMMA SeqWidens ==
  ASSUME NEW S, NEW T, S \subseteq T
  PROVE  Seq(S) \subseteq Seq(T)
<1> SUFFICES ASSUME NEW q \in Seq(S) PROVE q \in Seq(T)
  OBVIOUS
<1>1. Len(q) \in Nat /\ q \in [1..Len(q) -> T]
  BY LenProperties
<1> QED
  BY <1>1, SeqDef

LEMMA SoundTyped ==
  ASSUME NEW c \in SoundScope
  PROVE  /\ c.active \in Seq(ActiveCondition)
         /\ \A i \in DOMAIN c.active : BornOut(c.active[i].cond)
         /\ c.open \in Seq(Context)
         /\ c.switches \in Seq(SwitchState) /\ c.regions \in Seq(RegionState)
         /\ c.pending \in IfChain
         /\ ThreeStacks(ScopeIn(c))
         /\ Len(ScopeIn(c)[1]) = Len(c.active)
         /\ Len(ScopeIn(c)[2]) = Len(c.switches)
         /\ Len(ScopeIn(c)[3]) = Len(c.regions)
         /\ ScopeIn(c) # <<>>
<1>1. c.active \in Seq(SoundActive) /\ c.open \in Seq(SoundContext)
      /\ c.switches \in Seq(SoundSwitch)
      /\ c.regions \in Seq(RegionState) /\ c.pending \in IfChain
  BY DEF SoundScope, SoundChain
<1>2. /\ SoundActive \subseteq ActiveCondition /\ SoundContext \subseteq Context
      /\ SoundSwitch \subseteq SwitchState
  BY DEF SoundActive, SoundContext, SoundSwitch
<1>3. c.active \in Seq(ActiveCondition) /\ c.open \in Seq(Context)
      /\ c.switches \in Seq(SwitchState)
  BY <1>1, <1>2, SeqWidens
<1>4. \A i \in DOMAIN c.active : c.active[i] \in SoundActive
  BY <1>1, LenProperties, ElementOfSeq
<1> QED
  BY <1>1, <1>3, <1>4, ScopeStacks, SMTT(30) DEF ScopeIn, SoundActive

LEMMA PlacedLater ==
  ASSUME NEW c \in SoundScope, NEW n \in Nat, Placed(c, n)
  PROVE  Placed(c, n + 1)
<1>1. ThreeStacks(ScopeIn(c)) /\ Issued(ScopeIn(c), n) /\ Fits(c.open, ScopeIn(c))
      /\ LeftInside(c.pending, c.open, ScopeIn(c), n)
  BY SoundTyped DEF Placed
<1>2. ASSUME NEW scope, ThreeStacks(scope), Issued(scope, n) PROVE Issued(scope, n + 1)
  <2>1. ASSUME NEW k \in 1..3, NEW i \in DOMAIN scope[k] PROVE scope[k][i] <= n + 1
    <3>1. scope[k] \in Seq(Nat) /\ scope[k][i] <= n
      BY <1>2, <2>1 DEF ThreeStacks, Issued
    <3>2. scope[k][i] \in Nat
      BY <2>1, <3>1, LenProperties, ElementOfSeq
    <3> QED
      BY <3>1, <3>2
  <2> QED
    BY <2>1 DEF Issued
<1>3. LeftInside(c.pending, c.open, ScopeIn(c), n + 1)
  BY <1>1, <1>2 DEF LeftInside
<1> QED
  BY <1>1, <1>2, <1>3 DEF Placed

(* What is made takes the next identity. *)
LEMMA MadeNext ==
  ASSUME ChainsKnown, NEW what \in {"arms", "assigns", "frames"}, Made(what)
  PROVE  Total \in Nat /\ Total' = Total + 1 /\ NewId = Total + 1
<1>1. /\ made \in [arms : Nat, assigns : Nat, frames : Nat]
      /\ made' = [made EXCEPT ![what] = made[what] + 1]
  BY DEF ChainsKnown, Made
<1>2. made.arms \in Nat /\ made.assigns \in Nat /\ made.frames \in Nat
  BY <1>1
<1>3. CASE what = "arms"
  <2>1. made'.arms = made.arms + 1 /\ made'.assigns = made.assigns /\ made'.frames = made.frames
    BY <1>1, <1>3
  <2> QED
    BY <1>2, <2>1 DEF Total, NewId
<1>4. CASE what = "assigns"
  <2>1. made'.arms = made.arms /\ made'.assigns = made.assigns + 1 /\ made'.frames = made.frames
    BY <1>1, <1>4
  <2> QED
    BY <1>2, <2>1 DEF Total, NewId
<1>5. CASE what = "frames"
  <2>1. made'.arms = made.arms /\ made'.assigns = made.assigns /\ made'.frames = made.frames + 1
    BY <1>1, <1>5
  <2> QED
    BY <1>2, <2>1 DEF Total, NewId
<1> QED
  BY <1>3, <1>4, <1>5

LEMMA MadeBounded ==
  ASSUME Bounded, ChainsKnown
  PROVE  /\ made.arms < MaxArms /\ Made("arms") => Bounded'
         /\ made.assigns < MaxAssigns /\ Made("assigns") => Bounded'
         /\ made.frames < MaxFrames /\ Made("frames") => Bounded'
<1>1. MaxArms \in Nat /\ MaxAssigns \in Nat /\ MaxFrames \in Nat
  BY ControlAssumption
<1>2. made \in [arms : Nat, assigns : Nat, frames : Nat]
  BY DEF ChainsKnown
<1>3. ASSUME made.arms < MaxArms, Made("arms") PROVE Bounded'
  <2>1. made'.arms = made.arms + 1 /\ made'.assigns = made.assigns /\ made'.frames = made.frames
    BY <1>2, <1>3 DEF Made
  <2> QED
    BY <1>1, <1>3, <2>1 DEF Bounded
<1>4. ASSUME made.assigns < MaxAssigns, Made("assigns") PROVE Bounded'
  <2>1. made'.arms = made.arms /\ made'.assigns = made.assigns + 1 /\ made'.frames = made.frames
    BY <1>2, <1>4 DEF Made
  <2> QED
    BY <1>1, <1>4, <2>1 DEF Bounded
<1>5. ASSUME made.frames < MaxFrames, Made("frames") PROVE Bounded'
  <2>1. made'.arms = made.arms /\ made'.assigns = made.assigns /\ made'.frames = made.frames + 1
    BY <1>2, <1>5 DEF Made
  <2> QED
    BY <1>1, <1>5, <2>1 DEF Bounded
<1> QED
  BY <1>3, <1>4, <1>5

-----------------------------------------------------------------------------
(* Contexts are entered and left, in one scope. *)

LEMMA ScopeEntered ==
  ASSUME NEW n \in Nat, NEW c \in SoundScope, Placed(c, n), NEW x \in Context,
         NEW d \in SoundScope, d.open = Append(c.open, x),
         Pushed(ScopeIn(c), ScopeIn(d), x, n + 1),
         LeftInside(d.pending, c.open, ScopeIn(c), n)
  PROVE  /\ Placed(d, n + 1)
         /\ ChainOf(d.pending, ScopeIn(d)) = ChainOf(d.pending, ScopeIn(c))
<1>1. /\ c.open \in Seq(Context) /\ ThreeStacks(ScopeIn(c))
      /\ Fits(c.open, ScopeIn(c)) /\ Issued(ScopeIn(c), n)
  BY SoundTyped DEF Placed
<1>2. Fits(d.open, ScopeIn(d)) /\ Issued(ScopeIn(d), n + 1)
  BY <1>1, ScopePushed
<1>3. /\ LeftInside(d.pending, d.open, ScopeIn(d), n + 1)
      /\ ChainOf(d.pending, ScopeIn(d)) = ChainOf(d.pending, ScopeIn(c))
  BY <1>1, PendingPushed
<1> QED
  BY <1>2, <1>3 DEF Placed

LEMMA ScopeLeft ==
  ASSUME NEW n \in Nat, NEW c \in SoundScope, Placed(c, n),
         NEW m \in Nat, Len(c.open) = m + 1,
         NEW d \in SoundScope, d.open = Pop(c.open),
         PoppedOff(ScopeIn(c), ScopeIn(d), Top(c.open))
  PROVE  /\ d.pending = c.pending =>
              /\ Placed(d, n)
              /\ ChainOf(d.pending, ScopeIn(d)) =
                   IF ChainOf(c.pending, ScopeIn(c)).at >= Len(c.open) THEN Dead
                   ELSE ChainOf(c.pending, ScopeIn(c))
         /\ d.pending = NoneChain =>
              Placed(d, n) /\ ChainOf(d.pending, ScopeIn(d)) = Dead
         /\ d.pending.scope = ScopeIn(d) =>
              /\ Placed(d, n)
              /\ ChainOf(d.pending, ScopeIn(d)) =
                   [live |-> TRUE, at |-> m, left |-> Point \ d.pending.covered.on]
<1>1. /\ c.open \in Seq(Context) /\ ThreeStacks(ScopeIn(c)) /\ Fits(c.open, ScopeIn(c))
      /\ Issued(ScopeIn(c), n) /\ LeftInside(c.pending, c.open, ScopeIn(c), n)
  BY SoundTyped DEF Placed
<1>2. Fits(d.open, ScopeIn(d)) /\ Issued(ScopeIn(d), n) /\ ThreeStacks(ScopeIn(d))
  BY <1>1, ScopePopped
<1>3. ASSUME d.pending = c.pending
      PROVE  /\ Placed(d, n)
             /\ ChainOf(d.pending, ScopeIn(d)) =
                   IF ChainOf(c.pending, ScopeIn(c)).at >= Len(c.open) THEN Dead
                   ELSE ChainOf(c.pending, ScopeIn(c))
  BY <1>1, <1>2, <1>3, PendingPopped DEF Placed
<1>4. ASSUME d.pending = NoneChain
      PROVE  Placed(d, n) /\ ChainOf(d.pending, ScopeIn(d)) = Dead
  BY <1>2, <1>4 DEF Placed, LeftInside, ChainOf, Dead
<1>5. ASSUME d.pending.scope = ScopeIn(d)
      PROVE  /\ Placed(d, n)
             /\ ChainOf(d.pending, ScopeIn(d)) =
                   [live |-> TRUE, at |-> m, left |-> Point \ d.pending.covered.on]
  <2>1. d.pending # NoneChain
    <3>1. ScopeIn(d) # <<>> /\ NoneChain.scope = <<>>
      BY SoundTyped DEF NoneChain
    <3> QED
      BY <1>5, <3>1
  <2>2. d.open \in Seq(Context) /\ Len(d.open) = m
    BY <1>1, LastOff, ZenonT(40)
  <2>3. /\ ChainOf(d.pending, ScopeIn(d)) = [live |-> TRUE, at |-> Len(d.open),
                                             left |-> Point \ d.pending.covered.on]
        /\ LeftAt(d.pending, d.open, Len(d.open))
    BY <1>2, <1>5, <2>1, <2>2, LiveHere
  <2>4. LeftInside(d.pending, d.open, ScopeIn(d), n)
    BY <1>2, <1>5, <2>2, <2>3 DEF LeftInside
  <2> QED
    BY <1>2, <2>2, <2>3, <2>4 DEF Placed
<1> QED
  BY <1>3, <1>4, <1>5

(* The blocks a scope stands for. *)
BlocksIn(c) == BlocksOf(c.open, c.active, c.switches)
RunIn(c)    == Holding(c.active, Len(c.active))

LEMMA FitsCounts ==
  ASSUME NEW n, NEW c \in SoundScope, Placed(c, n)
  PROVE  /\ c.open \in Seq(Context) /\ Len(c.open) \in Nat
         /\ Count(c.open, Len(c.open), Family[1]) = Len(c.active)
         /\ Count(c.open, Len(c.open), Family[2]) = Len(c.switches)
         /\ Len(c.active) \in Nat /\ Len(c.switches) \in Nat
<1>1. /\ Len(ScopeIn(c)[1]) = Count(c.open, Len(c.open), Family[1])
      /\ Len(ScopeIn(c)[2]) = Count(c.open, Len(c.open), Family[2])
  BY DEF Placed, Fits
<1>2. /\ c.open \in Seq(Context) /\ c.active \in Seq(ActiveCondition)
      /\ c.switches \in Seq(SwitchState)
      /\ Len(ScopeIn(c)[1]) = Len(c.active) /\ Len(ScopeIn(c)[2]) = Len(c.switches)
  BY SoundTyped
<1>3. Len(c.open) \in Nat /\ Len(c.active) \in Nat /\ Len(c.switches) \in Nat
  BY <1>2, LenProperties
<1> QED
  BY <1>1, <1>2, <1>3

LEMMA RunningNow ==
  ASSUME NEW n, NEW c \in SoundScope, Placed(c, n)
  PROVE  /\ Len(BlocksIn(c)) = Len(c.open)
         /\ Len(c.open) = 0 => RunIn(c) = Point
         /\ Len(c.open) # 0 => BlocksIn(c)[Len(c.open)].run = RunIn(c)
<1>1. /\ c.open \in Seq(Context) /\ Len(c.open) \in Nat
      /\ Count(c.open, Len(c.open), Family[1]) = Len(c.active)
  BY FitsCounts
<1>2. /\ Len(BlocksIn(c)) = Len(c.open)
      /\ \A j \in 1..Len(c.open) : BlocksIn(c)[j] = BlockAt(c.open, j, c.active, c.switches)
  BY <1>1, BlocksTyped DEF BlocksIn
<1>3. ASSUME Len(c.open) = 0 PROVE RunIn(c) = Point
  <2>1. Len(c.active) = 0
    BY <1>1, <1>3, CountNext
  <2> QED
    BY <2>1 DEF RunIn, Holding
<1>4. ASSUME Len(c.open) # 0 PROVE BlocksIn(c)[Len(c.open)].run = RunIn(c)
  <2>1. Len(c.open) \in 1..Len(c.open)
    BY <1>1, <1>4
  <2>2. BlocksIn(c)[Len(c.open)].run =
          Holding(c.active, Count(c.open, Len(c.open), Family[1]))
    BY <1>1, <1>2, <2>1, BlockTyped
  <2> QED
    BY <1>1, <2>2 DEF RunIn
<1> QED
  BY <1>2, <1>3, <1>4

(* A block entered under a further condition executes where it holds too. *)
LEMMA ArmBlock ==
  ASSUME NEW n, NEW c \in SoundScope, Placed(c, n), NEW x \in Context,
         x.kind \in {"if", "else", "case"}, NEW a \in ActiveCondition, NEW ws
  PROVE  \E b : /\ BlocksOf(Append(c.open, x), Append(c.active, a), ws) =
                     Append(BlocksOf(c.open, c.active, ws), b)
                /\ x.kind = "if" =>
                     b = Block("arm", RunIn(c) \cap a.cond.on, Point \ x.chain.covered.on)
                /\ x.kind = "else" => b = Block("last", RunIn(c) \cap a.cond.on, {})
                /\ x.kind = "case" => b = Block("plain", RunIn(c) \cap a.cond.on, {})
<1> DEFINE d == Append(c.open, x)
           acts == Append(c.active, a)
           l == Len(c.open)
           b == BlockAt(d, l + 1, acts, ws)
<1>1. /\ c.open \in Seq(Context) /\ l \in Nat
      /\ Count(c.open, l, Family[1]) = Len(c.active) /\ Len(c.active) \in Nat
  BY FitsCounts
<1>2. c.active \in Seq(ActiveCondition)
  BY SoundTyped
<1>3. \A i \in 1..Count(c.open, l, Family[1]) : acts[i] = c.active[i]
  BY <1>1, <1>2, AppendProperties
<1>4. BlocksOf(d, acts, ws) = Append(BlocksOf(c.open, c.active, ws), b)
  <2>1. \A i \in 1..Count(c.open, l, Family[2]) : ws[i].covered.on = ws[i].covered.on
    OBVIOUS
  <2> HIDE DEF acts
  <2> QED
    BY <1>1, <1>3, <2>1, BlocksPushed
<1>5. x.kind \in Family[1] /\ Family[1] = ArmKinds
  BY FamilyOf DEF Family
<1>6. Count(d, l + 1, ArmKinds) = Len(c.active) + 1
  <2>1. Count(d, l + 1, Family[1]) = Count(c.open, l, Family[1]) + 1
    BY <1>1, <1>5, CountPushed, ZenonT(40)
  <2> HIDE DEF d, l
  <2> QED
    BY <1>1, <1>5, <2>1
<1>7. Holding(acts, Len(c.active) + 1) = RunIn(c) \cap a.cond.on
  BY <1>2, HoldingPushed DEF RunIn
<1>8. d[l + 1] = x
  BY <1>1, AppendProperties
<1> HIDE DEF d, acts, l
<1>9. /\ x.kind = "if" =>
           b = Block("arm", RunIn(c) \cap a.cond.on, Point \ x.chain.covered.on)
      /\ x.kind = "else" => b = Block("last", RunIn(c) \cap a.cond.on, {})
      /\ x.kind = "case" => b = Block("plain", RunIn(c) \cap a.cond.on, {})
  BY <1>6, <1>7, <1>8 DEF BlockAt
<1> QED
  BY <1>4, <1>9 DEF d, acts

(* A switch or a region executes where what it stands in does. *)
LEMMA FrameBlock ==
  ASSUME NEW n, NEW c \in SoundScope, Placed(c, n)
  PROVE  /\ \A w \in SwitchState :
              BlocksOf(Append(c.open, [kind |-> "switch"]), c.active, Append(c.switches, w)) =
                Append(BlocksIn(c), Block("switch", RunIn(c), Point \ w.covered.on))
         /\ BlocksOf(Append(c.open, [kind |-> "region"]), c.active, c.switches) =
              Append(BlocksIn(c), Block("plain", RunIn(c), {}))
<1> DEFINE l == Len(c.open)
<1>1. /\ c.open \in Seq(Context) /\ l \in Nat
      /\ Count(c.open, l, Family[1]) = Len(c.active) /\ Len(c.active) \in Nat
      /\ Count(c.open, l, Family[2]) = Len(c.switches) /\ Len(c.switches) \in Nat
      /\ c.switches \in Seq(SwitchState)
  BY FitsCounts, SoundTyped
<1>2. /\ [kind |-> "switch"] \in Context /\ [kind |-> "region"] \in Context
      /\ Family[1] = ArmKinds /\ Family[2] = {"switch"}
  BY DEF Context, Family
<1>3. ASSUME NEW w \in SwitchState
      PROVE  BlocksOf(Append(c.open, [kind |-> "switch"]), c.active, Append(c.switches, w)) =
                Append(BlocksIn(c), Block("switch", RunIn(c), Point \ w.covered.on))
  <2> DEFINE x == [kind |-> "switch"]
             d == Append(c.open, x)
             ws == Append(c.switches, w)
             b == BlockAt(d, l + 1, c.active, ws)
  <2>1. /\ \A i \in 1..Len(c.switches) : ws[i] = c.switches[i]
        /\ ws[Len(c.switches) + 1] = w
    BY <1>1, AppendProperties
  <2>2. x \in Context /\ x.kind = "switch" /\ d[l + 1] = x
    BY <1>1, <1>2, AppendProperties
  <2> HIDE DEF x, ws
  <2>3. x.kind \in Family[2] /\ x.kind \notin Family[1]
    BY <2>2, FamilyOf
  <2>4. BlocksOf(d, c.active, ws) = Append(BlocksIn(c), b)
    <3>1. \A i \in 1..Count(c.open, l, Family[2]) : ws[i].covered.on = c.switches[i].covered.on
      BY <1>1, <2>1
    <3>2. \A i \in 1..Count(c.open, l, Family[1]) : c.active[i] = c.active[i]
      OBVIOUS
    <3>3. BlocksOf(d, c.active, ws) = Append(BlocksOf(c.open, c.active, c.switches), b)
      <4>1. c.open \in Seq(Context) /\ x \in Context
        BY <1>1, <2>2
      <4> QED
        BY <3>1, <4>1, BlocksPushed, SMTT(30)
    <3> QED
      BY <3>3 DEF BlocksIn
  <2>5. /\ Count(d, l + 1, ArmKinds) = Len(c.active)
        /\ Count(d, l + 1, {"switch"}) = Len(c.switches) + 1
    <3>1. /\ Count(d, l + 1, Family[1]) = Count(c.open, l, Family[1])
          /\ Count(d, l + 1, Family[2]) = Count(c.open, l, Family[2]) + 1
      BY <1>1, <2>2, <2>3, CountPushed, ZenonT(40)
    <3> HIDE DEF d, l
    <3> QED
      BY <1>1, <1>2, <3>1
  <2> HIDE DEF d, l
  <2>6. b = Block("switch", RunIn(c), Point \ w.covered.on)
    BY <2>1, <2>2, <2>5 DEF BlockAt, RunIn
  <2> QED
    BY <2>4, <2>6 DEF d, x, ws
<1>4. BlocksOf(Append(c.open, [kind |-> "region"]), c.active, c.switches) =
        Append(BlocksIn(c), Block("plain", RunIn(c), {}))
  <2> DEFINE x == [kind |-> "region"]
             d == Append(c.open, x)
             b == BlockAt(d, l + 1, c.active, c.switches)
  <2>2. x \in Context /\ x.kind = "region" /\ d[l + 1] = x
    BY <1>1, <1>2, AppendProperties
  <2> HIDE DEF x
  <2>3. x.kind \notin Family[1]
    BY <2>2, FamilyOf
  <2>4. BlocksOf(d, c.active, c.switches) = Append(BlocksIn(c), b)
    BY <1>1, <2>2, BlocksPushed DEF BlocksIn
  <2>5. Count(d, l + 1, ArmKinds) = Len(c.active)
    BY <1>1, <1>2, <2>2, <2>3, CountPushed, ZenonT(40)
  <2> HIDE DEF d, l
  <2>6. b = Block("plain", RunIn(c), {})
    BY <2>2, <2>5 DEF BlockAt, RunIn
  <2> QED
    BY <2>4, <2>6 DEF d, x
<1> QED
  BY <1>3, <1>4

(* Leaving the innermost context leaves the blocks around it as they were. *)
LEMMA LeftBlocks ==
  ASSUME NEW n, NEW c \in SoundScope, Placed(c, n), NEW m \in Nat, Len(c.open) = m + 1,
         NEW acts, NEW ws,
         Top(c.open).kind \in Family[1] => acts = Pop(c.active),
         Top(c.open).kind \notin Family[1] => acts = c.active,
         Top(c.open).kind \in Family[2] => ws = Pop(c.switches),
         Top(c.open).kind \notin Family[2] => ws = c.switches
  PROVE  /\ BlocksOf(Pop(c.open), acts, ws) = SubSeq(BlocksIn(c), 1, Len(c.open) - 1)
         /\ Top(c.open).kind \in Family[1] => \E l \in Nat : Len(c.active) = l + 1
         /\ Top(c.open).kind \in Family[2] => \E l \in Nat : Len(c.switches) = l + 1
<1>1. /\ c.open \in Seq(Context) /\ c.active \in Seq(ActiveCondition)
      /\ c.switches \in Seq(SwitchState)
      /\ Count(c.open, m + 1, Family[1]) = Len(c.active)
      /\ Count(c.open, m + 1, Family[2]) = Len(c.switches)
  BY FitsCounts, SoundTyped
<1>0. /\ c.open \in Seq(Context) /\ c.active \in Seq(ActiveCondition)
      /\ c.switches \in Seq(SwitchState)
  BY SoundTyped
<1>2. Top(c.open) = c.open[m + 1]
  BY <1>0, LastOff, Zenon
<1>3. ASSUME NEW kinds
      PROVE  /\ Count(c.open, m, kinds) \in Nat
             /\ Top(c.open).kind \in kinds =>
                  Count(c.open, m + 1, kinds) = Count(c.open, m, kinds) + 1
             /\ Top(c.open).kind \notin kinds =>
                  Count(c.open, m + 1, kinds) = Count(c.open, m, kinds)
  BY <1>2, CountNext, Zenon
<1>4. /\ Top(c.open).kind \in Family[1] => Len(c.active) = Count(c.open, m, Family[1]) + 1
      /\ Top(c.open).kind \notin Family[1] => Len(c.active) = Count(c.open, m, Family[1])
      /\ Top(c.open).kind \in Family[2] => Len(c.switches) = Count(c.open, m, Family[2]) + 1
      /\ Top(c.open).kind \notin Family[2] => Len(c.switches) = Count(c.open, m, Family[2])
  BY <1>1, <1>3
<1>5. SameTo(Count(c.open, m, Family[1]), c.active, acts)
  <2>1. CASE Top(c.open).kind \in Family[1]
    <3>1. /\ Len(c.active) = Count(c.open, m, Family[1]) + 1
          /\ Count(c.open, m, Family[1]) \in Nat
      BY <1>3, <1>4, <2>1
    <3>2. \A i \in 1..Count(c.open, m, Family[1]) : Pop(c.active)[i] = c.active[i]
      BY <1>0, <3>1, LastOff, Zenon
    <3> QED
      BY <2>1, <3>2 DEF SameTo
  <2>2. CASE Top(c.open).kind \notin Family[1]
    BY <2>2 DEF SameTo
  <2> QED
    BY <2>1, <2>2
<1>6. SameTo(Count(c.open, m, Family[2]), c.switches, ws)
  <2>1. CASE Top(c.open).kind \in Family[2]
    <3>1. /\ Len(c.switches) = Count(c.open, m, Family[2]) + 1
          /\ Count(c.open, m, Family[2]) \in Nat
      BY <1>3, <1>4, <2>1
    <3>2. \A i \in 1..Count(c.open, m, Family[2]) : Pop(c.switches)[i] = c.switches[i]
      BY <1>0, <3>1, LastOff, Zenon
    <3> QED
      BY <2>1, <3>2 DEF SameTo
  <2>2. CASE Top(c.open).kind \notin Family[2]
    BY <2>2 DEF SameTo
  <2> QED
    BY <2>1, <2>2
<1>7. BlocksOf(Pop(c.open), acts, ws) = SubSeq(BlocksIn(c), 1, Len(c.open) - 1)
  <2>1. BlocksOf(Pop(c.open), acts, ws) =
          SubSeq(BlocksOf(c.open, c.active, c.switches), 1, Len(c.open) - 1)
    <3>1. PoppedTo(c.open, c.active, c.switches, acts, ws, m)
      BY <1>0, <1>5, <1>6, BlocksPopped, Zenon
    <3>2. Len(c.open) - 1 = m
      OBVIOUS
    <3> QED
      BY <3>1, <3>2, Zenon DEF PoppedTo
  <2> QED
    BY <2>1 DEF BlocksIn
<1>8. Count(c.open, m, Family[1]) \in Nat /\ Count(c.open, m, Family[2]) \in Nat
  BY <1>3
<1> QED
  BY <1>4, <1>7, <1>8, Zenon

(* The innermost block is of the kind of the innermost context. *)
LEMMA TopBlock ==
  ASSUME NEW c \in SoundScope, NEW m \in Nat, Len(c.open) = m + 1
  PROVE  /\ Len(BlocksIn(c)) = m + 1
         /\ Top(c.open).kind = "if" =>
              /\ BlocksIn(c)[m + 1].kind = "arm"
              /\ BlocksIn(c)[m + 1].left = Point \ Top(c.open).chain.covered.on
         /\ Top(c.open).kind = "else" => BlocksIn(c)[m + 1].kind = "last"
         /\ Top(c.open).kind \in {"case", "switch", "region"} =>
              BlocksIn(c)[m + 1].kind \notin {"arm", "last"}
<1>1. c.open \in Seq(Context)
  BY SoundTyped
<1>2. Top(c.open) = c.open[m + 1]
  BY <1>1, LastOff, Zenon
<1>3. Len(BlocksIn(c)) = m + 1 /\ BlocksIn(c)[m + 1] = BlockAt(c.open, m + 1, c.active, c.switches)
  <2>1. m + 1 \in 1..m + 1
    OBVIOUS
  <2> QED
    BY <1>1, <2>1, BlocksTyped DEF BlocksIn
<1> DEFINE b == BlocksIn(c)[m + 1]
           x == Top(c.open)
<1>4. /\ x.kind = "if" => b.kind = "arm" /\ b.left = Point \ x.chain.covered.on
      /\ x.kind = "else" => b.kind = "last"
      /\ x.kind \in {"case", "switch", "region"} => b.kind \notin {"arm", "last"}
  <2>1. CASE x.kind = "if"
    BY <1>2, <1>3, <2>1, SMTT(30) DEF BlockAt, Block
  <2>2. CASE x.kind = "else"
    BY <1>2, <1>3, <2>2, SMTT(30) DEF BlockAt, Block
  <2>3. CASE x.kind = "switch"
    BY <1>2, <1>3, <2>3, SMTT(30) DEF BlockAt, Block
  <2>4. CASE x.kind \notin {"if", "else", "switch"}
    <3>1. c.open[m + 1].kind \notin {"if", "else", "switch"}
      BY <1>2, <2>4
    <3>2. b.kind = "plain"
      BY <1>3, <3>1, SMTT(30) DEF BlockAt, Block
    <3> QED
      BY <2>4, <3>2
  <2> QED
    BY <2>1, <2>2, <2>3, <2>4
<1> QED
  BY <1>3, <1>4

-----------------------------------------------------------------------------
(* The state in terms of the scope the program is in. *)
LEMMA HereIs ==
  /\ Here.active = active /\ Here.pending = pending /\ Here.open = open
  /\ Here.switches = switches /\ Here.regions = regions
  /\ ScopeIn(Here) = CurrentScope
  /\ OpenBlocks = BlocksIn(Here)
  /\ OpenChain = ChainOf(pending, ScopeIn(Here))
BY DEF Here, ScopeIn, CurrentScope, OpenBlocks, BlocksIn, OpenChain

LEMMA HereNext ==
  ASSUME NEW c, c = [active |-> active', pending |-> pending', open |-> open',
                     switches |-> switches', regions |-> regions']
  PROVE  /\ Here' = c
         /\ OpenBlocks' = BlocksIn(c)
         /\ OpenChain' = ChainOf(c.pending, ScopeIn(c))
BY DEF Here, ScopeIn, CurrentScope, OpenBlocks, BlocksIn, OpenChain

LEMMA RunningIs ==
  ASSUME ScopeFit(Here, Total)
  PROVE  Program!Running = RunIn(Here)
<1>1. /\ Len(OpenBlocks) = Len(open)
      /\ Len(open) = 0 => RunIn(Here) = Point
      /\ Len(open) # 0 => OpenBlocks[Len(open)].run = RunIn(Here)
  BY HereIs, RunningNow DEF ScopeFit
<1> QED
  BY <1>1 DEF Program!Running

(* A step that leaves the signal and the fresh scopes alone. *)
LEMMA ValueKept ==
  ASSUME UNCHANGED <<driver, kind>>
  PROVE  ValueNow' = ValueNow
BY DEF ValueNow

LEMMA OuterKept ==
  ASSUME UNCHANGED scopes
  PROVE  OuterScopes' = OuterScopes
BY DEF OuterScopes

(* A step makes at most one thing, and identities only grow. *)
LEMMA OuterFitKept ==
  ASSUME OuterFit, UNCHANGED scopes, Total \in Nat, Total' \in {Total, Total + 1}
  PROVE  OuterFit'
<1>1. ASSUME NEW k \in DOMAIN scopes
      PROVE  ScopeFit(scopes[k], Total')
  <2>1. scopes[k] \in SoundScope /\ Placed(scopes[k], Total)
    BY <1>1 DEF OuterFit, ScopeFit
  <2>2. CASE Total' = Total
    BY <2>1, <2>2 DEF ScopeFit
  <2>3. CASE Total' = Total + 1
    BY <2>1, <2>3, PlacedLater DEF ScopeFit
  <2> QED
    BY <2>2, <2>3
<1> QED
  BY <1>1 DEF OuterFit

LEMMA ArmEntered ==
  ASSUME ProgramInv, NEW cond \in SoundCondition, NEW x \in SoundContext,
         x.kind \in {"if", "else", "case"}, EnterArm(cond, x),
         switches' \in Seq(SoundSwitch), Ids(switches') = Ids(switches),
         pending' \in SoundChain, LeftInside(pending', open, CurrentScope, Total)
  PROVE  /\ ScopeFit(Here', Total')
         /\ OpenChain' = ChainOf(pending', CurrentScope)
         /\ \E b : /\ OpenBlocks' = Append(BlocksOf(open, active, switches'), b)
                   /\ x.kind = "if" =>
                        b = Block("arm", RunIn(Here) \cap cond.on, Point \ x.chain.covered.on)
                   /\ x.kind = "else" => b = Block("last", RunIn(Here) \cap cond.on, {})
                   /\ x.kind = "case" => b = Block("plain", RunIn(Here) \cap cond.on, {})
<1> DEFINE a == [id |-> NewId, cond |-> cond]
           d == [active |-> active', pending |-> pending', open |-> open',
                 switches |-> switches', regions |-> regions']
<1>1. /\ ChainsKnown /\ Here \in SoundScope /\ Placed(Here, Total)
  BY DEF ProgramInv, ScopeFit
<1>2. Total \in Nat /\ Total' = Total + 1 /\ NewId = Total + 1
  BY <1>1, MadeNext DEF EnterArm
<1>3. a \in SoundActive /\ a.id = Total + 1 /\ a.cond = cond
  BY <1>2 DEF SoundActive, ActiveCondition, SoundCondition
<1>4. active' = Append(active, a) /\ open' = Append(open, x) /\ regions' = regions
  BY DEF EnterArm
<1>5. /\ active \in Seq(SoundActive) /\ open \in Seq(SoundContext)
      /\ regions \in Seq(RegionState)
  BY <1>1, HereIs DEF SoundScope
<1>6. active' \in Seq(SoundActive) /\ open' \in Seq(SoundContext)
  <2> HIDE DEF a
  <2> QED
    BY <1>3, <1>4, <1>5, AppendProperties
<1>7. d \in SoundScope
  BY <1>4, <1>5, <1>6 DEF SoundScope
<1>8. ScopeIn(Here) = <<Ids(active), Ids(switches), Ids(regions)>>
  BY DEF Here, ScopeIn, ScopeOf
<1>9. ScopeIn(d) = <<Append(Ids(active), Total + 1), Ids(switches), Ids(regions)>>
  <2>1. active \in Seq(ActiveCondition) /\ a \in ActiveCondition
    BY <1>1, <1>3 DEF ChainsKnown, SoundActive
  <2>2. Ids(Append(active, a)) = Append(Ids(active), a.id)
    BY <2>1, HaveIds, IdsPushed
  <2> HIDE DEF a
  <2> QED
    BY <1>3, <1>4, <2>2 DEF ScopeIn, ScopeOf
<1>10. Pushed(ScopeIn(Here), ScopeIn(d), x, Total + 1)
  BY <1>8, <1>9, ScopeStep
<1>11. x \in Context
  BY DEF SoundContext
<1>12. d.open = Append(Here.open, x) /\ d.pending = pending'
  BY <1>4 DEF Here
<1>13. LeftInside(d.pending, Here.open, ScopeIn(Here), Total)
  BY <1>12, HereIs
<1>14. Here' = d /\ OpenBlocks' = BlocksIn(d) /\ OpenChain' = ChainOf(d.pending, ScopeIn(d))
  BY HereNext
<1> HIDE DEF d
<1>15. Placed(d, Total + 1) /\ ChainOf(d.pending, ScopeIn(d)) = ChainOf(d.pending, ScopeIn(Here))
  BY <1>1, <1>2, <1>7, <1>10, <1>11, <1>12, <1>13, ScopeEntered
<1>16. ScopeFit(Here', Total')
  BY <1>2, <1>7, <1>14, <1>15 DEF ScopeFit
<1>17. OpenChain' = ChainOf(pending', CurrentScope)
  BY <1>12, <1>14, <1>15, HereIs
<1>18. PICK b : /\ BlocksOf(Append(Here.open, x), Append(Here.active, a), switches') =
                     Append(BlocksOf(Here.open, Here.active, switches'), b)
                /\ x.kind = "if" =>
                     b = Block("arm", RunIn(Here) \cap a.cond.on, Point \ x.chain.covered.on)
                /\ x.kind = "else" => b = Block("last", RunIn(Here) \cap a.cond.on, {})
                /\ x.kind = "case" => b = Block("plain", RunIn(Here) \cap a.cond.on, {})
  <2>1. a \in ActiveCondition
    BY <1>3 DEF SoundActive
  <2> HIDE DEF a
  <2> QED
    BY <1>1, <1>11, <2>1, ArmBlock
<1>19. OpenBlocks' = Append(BlocksOf(open, active, switches'), b)
  BY <1>4, <1>14, <1>18, HereIs DEF BlocksIn, d
<1> QED
  BY <1>3, <1>16, <1>17, <1>18, <1>19

-----------------------------------------------------------------------------
(* The steps, one by one. *)
FitNext == ScopeFit(Here', Total')
Simulated == Program!Next \/ UNCHANGED <<ValueNow, OpenBlocks, OpenChain, OuterScopes>>

LEMMA GateSound ==
  ASSUME NEW c, Tracked(c), BornOut(c.covered), NEW test \in SoundCondition
  PROVE  LET gated == ClaimOrGate(c.tracker, test, c.covered) IN
         gated \in SoundCondition /\ gated.on = test.on \ c.covered.on
<1> DEFINE gated == ClaimOrGate(c.tracker, test, c.covered)
<1>1. test \in Condition /\ BornOut(test) /\ c.covered \in Condition
  BY DEF Tracked, SoundCondition
<1>2. gated \in Condition /\ gated.on = test.on \ c.covered.on
  BY <1>1, GateExact
<1>3. NotCond(c.covered) \in Condition /\ BornOut(NotCond(c.covered))
  BY <1>1, ConditionClosed, ClassesBornOut
<1>4. BornOut(AndCond(test, NotCond(c.covered)))
  BY <1>1, <1>3, ClassesBornOut
<1>5. BornOut(gated)
  BY <1>1, <1>4 DEF ClaimOrGate
<1> QED
  BY <1>2, <1>5 DEF SoundCondition

LEMMA ConstantsSound ==
  /\ FalseConst \in SoundCondition /\ TrueConst \in SoundCondition
  /\ NoneChain \in SoundChain /\ FalseConst.on = {} /\ TrueConst.on = Point
<1>1. BornOut(TrueConst)
  BY DEF BornOut, TrueConst, One
<1> QED
  BY <1>1, ConstantConditions DEF SoundCondition, SoundChain, NoneChain, FalseConst, TrueConst

(* A further arm of a chain covers what its condition accepts as well. *)
LEMMA BranchedSound ==
  ASSUME NEW c \in SoundChain, ~c.closed, NEW test \in SoundCondition
  PROVE  /\ Branched(c, test) \in SoundChain
         /\ Point \ Branched(c, test).covered.on = (Point \ c.covered.on) \ test.on
         /\ Branched(c, test).scope = c.scope
         /\ ClaimOrGate(c.tracker, test, c.covered) \in SoundCondition
         /\ ClaimOrGate(c.tracker, test, c.covered).on = test.on \ c.covered.on
         /\ [kind |-> "if", chain |-> Branched(c, test)] \in SoundContext
<1> DEFINE gated == ClaimOrGate(c.tracker, test, c.covered)
           d == Branched(c, test)
<1>1. c \in IfChain /\ BornOut(c.covered) /\ c.covered \in Condition /\ Tracked(c)
  BY DEF SoundChain, IfChain, Tracked
<1>2. test \in Condition /\ BornOut(test)
  BY DEF SoundCondition
<1>3. gated \in SoundCondition /\ gated.on = test.on \ c.covered.on
  BY <1>1, GateSound
<1>4. gated \in Condition /\ BornOut(gated)
  BY <1>3 DEF SoundCondition
<1>5. d \in IfChain
  BY <1>1, <1>2, BranchedIsChain
<1>6. /\ d.covered = IF c.covered = FalseConst THEN gated ELSE OrCond(c.covered, gated)
      /\ d.scope = c.scope
  BY DEF Branched
<1>7. BornOut(OrCond(c.covered, gated))
  <2> HIDE DEF gated
  <2> QED
    BY <1>1, <1>4, ClassesBornOut
<1> HIDE DEF gated, d
<1>8. BornOut(d.covered)
  BY <1>4, <1>6, <1>7
<1>9. d.covered.on = c.covered.on \cup gated.on
  BY <1>6, ConstantsSound DEF OrCond
<1>10. Point \ d.covered.on = (Point \ c.covered.on) \ test.on
  BY <1>3, <1>9
<1>11. d \in SoundChain
  BY <1>5, <1>8 DEF SoundChain
<1>12. [kind |-> "if", chain |-> d] \in SoundContext
  BY <1>5, <1>8 DEF SoundContext, Context
<1> QED
  BY <1>3, <1>6, <1>10, <1>11, <1>12 DEF gated, d

LEMMA ScopeNow ==
  ASSUME ProgramInv
  PROVE  /\ ChainsKnown /\ ScopeFit(Here, Total) /\ Here \in SoundScope /\ Placed(Here, Total)
         /\ open \in Seq(Context) /\ ThreeStacks(CurrentScope)
         /\ Fits(open, CurrentScope) /\ Issued(CurrentScope, Total)
         /\ LeftInside(pending, open, CurrentScope, Total)
         /\ CurrentScope # <<>>
         /\ active \in Seq(SoundActive) /\ pending \in SoundChain
         /\ open \in Seq(SoundContext) /\ switches \in Seq(SoundSwitch)
         /\ regions \in Seq(RegionState)
         /\ Len(OpenBlocks) = Len(open) /\ Len(open) \in Nat
         /\ Program!Running = RunIn(Here)
<1>1. ChainsKnown /\ Here \in SoundScope /\ Placed(Here, Total) /\ ScopeFit(Here, Total)
  BY DEF ProgramInv, ScopeFit
<1>2. open \in Seq(Context) /\ ThreeStacks(CurrentScope) /\ CurrentScope # <<>>
  BY <1>1, HereIs, SoundTyped
<1>3. /\ Fits(open, CurrentScope) /\ Issued(CurrentScope, Total)
      /\ LeftInside(pending, open, CurrentScope, Total)
  BY <1>1, HereIs DEF Placed
<1>4. /\ active \in Seq(SoundActive) /\ pending \in SoundChain
      /\ open \in Seq(SoundContext) /\ switches \in Seq(SoundSwitch)
      /\ regions \in Seq(RegionState)
  BY <1>1, HereIs DEF SoundScope
<1>5. Len(OpenBlocks) = Len(open) /\ Len(open) \in Nat
  BY <1>1, HereIs, RunningNow, FitsCounts
<1>6. Program!Running = RunIn(Here)
  BY <1>1, RunningIs
<1> QED
  BY <1>1, <1>2, <1>3, <1>4, <1>5, <1>6

(* A chain left where the program is counts, and was left in an open block. *)
LEMMA LiveNow ==
  ASSUME ProgramInv, NEW pend, pend # NoneChain, pend.scope = CurrentScope
  PROVE  /\ ChainOf(pend, CurrentScope) =
              [live |-> TRUE, at |-> Len(open), left |-> Point \ pend.covered.on]
         /\ LeftInside(pend, open, CurrentScope, Total)
<1>1. /\ open \in Seq(Context) /\ ThreeStacks(CurrentScope) /\ Fits(open, CurrentScope)
      /\ Issued(CurrentScope, Total) /\ Len(open) \in Nat
  BY ScopeNow
<1>2. /\ ChainOf(pend, CurrentScope) =
              [live |-> TRUE, at |-> Len(open), left |-> Point \ pend.covered.on]
      /\ LeftAt(pend, open, Len(open))
  BY <1>1, LiveHere
<1>3. LeftInside(pend, open, CurrentScope, Total)
  BY <1>1, <1>2 DEF LeftInside
<1> QED
  BY <1>2, <1>3

LEMMA IfSimulated ==
  ASSUME ProgramInv, NEW cond \in Guards, If(cond)
  PROVE  FitNext /\ Simulated
<1> DEFINE x == [kind |-> "if", chain |-> Branched(NoneChain, cond)]
<1>1. cond \in SoundCondition /\ cond.on \in Tests
  BY GuardsBornOut DEF SoundCondition, Tests
<1>2. NoneChain \in SoundChain /\ ~NoneChain.closed /\ NoneChain.covered.on = {}
  BY ConstantsSound DEF NoneChain
<1>3. /\ x \in SoundContext /\ x.kind = "if"
      /\ Point \ x.chain.covered.on = (Point \ NoneChain.covered.on) \ cond.on
  BY <1>1, <1>2, BranchedSound
<1>4. EnterArm(cond, x) /\ pending' = NoneChain /\ switches' = switches
  BY DEF If
<1>5. switches' \in Seq(SoundSwitch) /\ Ids(switches') = Ids(switches)
  BY <1>4, ScopeNow
<1>6. LeftInside(pending', open, CurrentScope, Total)
  BY <1>4 DEF LeftInside
<1> HIDE DEF x
<1>7. /\ ScopeFit(Here', Total')
      /\ OpenChain' = ChainOf(pending', CurrentScope)
      /\ \E b : /\ OpenBlocks' = Append(BlocksOf(open, active, switches'), b)
                /\ b = Block("arm", RunIn(Here) \cap cond.on, Point \ x.chain.covered.on)
  BY <1>1, <1>2, <1>3, <1>4, <1>5, <1>6, ArmEntered
<1>8. OpenBlocks' = Append(OpenBlocks, Program!Block("arm", Program!Running \cap cond.on, Point \ cond.on))
  BY <1>2, <1>3, <1>4, <1>7, ScopeNow DEF OpenBlocks, Block, Program!Block
<1>9. OpenChain' = Program!NoChain
  BY <1>4, <1>7 DEF ChainOf, Program!NoChain
<1>10. ValueNow' = ValueNow /\ OuterScopes' = OuterScopes
  BY <1>4, ValueKept, OuterKept DEF EnterArm
<1>11. Program!If
  BY <1>1, <1>8, <1>9, <1>10 DEF Program!If, Program!Open
<1> QED
  BY <1>7, <1>11 DEF FitNext, Simulated, Program!Next

-----------------------------------------------------------------------------
(* An error leaves what the program stands for as it was. *)
LEMMA RaiseSimulated ==
  ASSUME ProgramInv, Raise
  PROVE  FitNext /\ Simulated
<1>1. UNCHANGED <<active, pending, switches, regions, open, scopes, driver, kind, made>>
  BY DEF Raise, state
<1>2. Here' = Here /\ Total' = Total
  BY <1>1 DEF Here, Total
<1>3. UNCHANGED <<ValueNow, OpenBlocks, OpenChain, OuterScopes>>
  BY <1>1 DEF ValueNow, OpenBlocks, OpenChain, CurrentScope, OuterScopes
<1> QED
  BY <1>2, <1>3, ScopeNow DEF FitNext, Simulated

LEMMA ElifSimulated ==
  ASSUME ProgramInv, NEW cond \in Guards, Elif(cond)
  PROVE  FitNext /\ Simulated
<1>0. CASE ~CanContinue
  BY <1>0, RaiseSimulated DEF Elif
<1>1. CASE CanContinue
  <2> DEFINE d == Branched(pending, cond)
             x == [kind |-> "if", chain |-> d]
             gated == ClaimOrGate(pending.tracker, cond, pending.covered)
             left == Point \ pending.covered.on
  <2>1. cond \in SoundCondition /\ cond.on \in Tests /\ cond.on \subseteq Point
    BY GuardsBornOut DEF SoundCondition, Tests, Condition
  <2>2. /\ pending \in SoundChain /\ ~pending.closed
        /\ pending # NoneChain /\ pending.scope = CurrentScope
    BY <1>1, ScopeNow DEF CanContinue
  <2>3. /\ d \in SoundChain /\ x \in SoundContext
        /\ Point \ d.covered.on = left \ cond.on
        /\ d.scope = CurrentScope
        /\ gated \in SoundCondition /\ gated.on = cond.on \ pending.covered.on
    BY <2>1, <2>2, BranchedSound
  <2>4. d # NoneChain
    BY <2>3, ScopeNow DEF NoneChain
  <2>5. EnterArm(gated, x) /\ pending' = d /\ switches' = switches
    BY <1>1 DEF Elif
  <2>6. /\ ChainOf(pending, CurrentScope) = [live |-> TRUE, at |-> Len(open), left |-> left]
        /\ LeftInside(d, open, CurrentScope, Total)
        /\ ChainOf(d, CurrentScope) =
             [live |-> TRUE, at |-> Len(open), left |-> left \ cond.on]
    <3>1. /\ ChainOf(d, CurrentScope) =
               [live |-> TRUE, at |-> Len(open), left |-> Point \ d.covered.on]
          /\ LeftInside(d, open, CurrentScope, Total)
      <4> HIDE DEF d
      <4> QED
        BY <2>3, <2>4, LiveNow
    <3>2. ChainOf(pending, CurrentScope) =
            [live |-> TRUE, at |-> Len(open), left |-> left]
      BY <2>2, LiveNow
    <3> QED
      BY <2>3, <3>1, <3>2
  <2>7. switches' \in Seq(SoundSwitch) /\ Ids(switches') = Ids(switches)
    BY <2>5, ScopeNow
  <2>8. x.kind = "if" /\ x.chain = d
    OBVIOUS
  <2> HIDE DEF d, x, gated
  <2>9. /\ ScopeFit(Here', Total')
        /\ OpenChain' = ChainOf(pending', CurrentScope)
        /\ \E b : /\ OpenBlocks' = Append(BlocksOf(open, active, switches'), b)
                  /\ b = Block("arm", RunIn(Here) \cap gated.on, Point \ x.chain.covered.on)
    BY <2>3, <2>5, <2>6, <2>7, <2>8, ArmEntered
  <2>10. OpenBlocks' = Append(OpenBlocks, Program!Block("arm",
           Program!Running \cap left \cap cond.on, left \ cond.on))
    <3>1. RunIn(Here) \cap gated.on = (RunIn(Here) \cap left) \cap cond.on
      BY <2>1, <2>3
    <3> QED
      BY <2>3, <2>5, <2>8, <2>9, <3>1, ScopeNow DEF OpenBlocks, Block, Program!Block
  <2>11. /\ OpenChain.live /\ OpenChain.at = Len(OpenBlocks) /\ OpenChain.left = left
         /\ OpenChain' = Program!Chain(OpenChain.at, left \ cond.on)
    BY <2>5, <2>6, <2>9, ScopeNow DEF OpenChain, Program!Chain
  <2>12. ValueNow' = ValueNow /\ OuterScopes' = OuterScopes
    BY <2>5, ValueKept, OuterKept DEF EnterArm
  <2>13. Program!Elif
    BY <2>1, <2>10, <2>11, <2>12 DEF Program!Elif, Program!Open, Program!Continuable
  <2> QED
    BY <2>9, <2>13 DEF FitNext, Simulated, Program!Next
<1> QED
  BY <1>0, <1>1

LEMMA ElseSimulated ==
  ASSUME ProgramInv, Else
  PROVE  FitNext /\ Simulated
<1>0. CASE ~CanContinue
  BY <1>0, RaiseSimulated DEF Else
<1>1. CASE CanContinue
  <2> DEFINE d == ClosedOff(pending)
             x == [kind |-> "else"]
             cond == NotCond(pending.covered)
             left == Point \ pending.covered.on
  <2>1. /\ pending \in IfChain /\ BornOut(pending.covered) /\ pending.covered \in Condition
        /\ pending # NoneChain /\ pending.scope = CurrentScope
    BY <1>1, ScopeNow DEF CanContinue, SoundChain, IfChain
  <2>2. cond \in SoundCondition /\ cond.on = left
    <3>1. cond \in Condition /\ BornOut(cond)
      BY <2>1, ConditionClosed, ClassesBornOut
    <3> QED
      BY <3>1 DEF SoundCondition, NotCond
  <2>3. d.covered = TrueConst /\ d.scope = CurrentScope /\ d \in IfChain
    <3>1. d \in IfChain
      BY <2>1, ClosedOffIsClosed
    <3>2. pending \in [covered : Condition, closed : BOOLEAN, tracker : Tracker,
                       scope : Seq(Seq(Nat))]
      BY <2>1 DEF IfChain
    <3>3. d.covered = TrueConst /\ d.scope = pending.scope
      BY <3>2 DEF ClosedOff
    <3> QED
      BY <2>1, <3>1, <3>3
  <2>4. d \in SoundChain /\ Point \ d.covered.on = {} /\ d # NoneChain
    <3>1. BornOut(TrueConst) /\ TrueConst.on = Point
      BY ConstantsSound DEF SoundCondition
    <3>2. d # NoneChain
      BY <2>3, ScopeNow DEF NoneChain
    <3> HIDE DEF d
    <3> QED
      BY <2>3, <3>1, <3>2 DEF SoundChain
  <2>5. EnterArm(cond, x) /\ pending' = d /\ switches' = switches
    BY <1>1 DEF Else
  <2>6. /\ ChainOf(pending, CurrentScope) = [live |-> TRUE, at |-> Len(open), left |-> left]
        /\ LeftInside(d, open, CurrentScope, Total)
        /\ ChainOf(d, CurrentScope) = [live |-> TRUE, at |-> Len(open), left |-> {}]
    <3>1. /\ ChainOf(d, CurrentScope) =
               [live |-> TRUE, at |-> Len(open), left |-> Point \ d.covered.on]
          /\ LeftInside(d, open, CurrentScope, Total)
      <4> HIDE DEF d
      <4> QED
        BY <2>3, <2>4, LiveNow
    <3>2. ChainOf(pending, CurrentScope) =
            [live |-> TRUE, at |-> Len(open), left |-> left]
      BY <2>1, LiveNow
    <3> QED
      BY <2>4, <3>1, <3>2
  <2>7. switches' \in Seq(SoundSwitch) /\ Ids(switches') = Ids(switches)
    BY <2>5, ScopeNow
  <2>8. x.kind = "else" /\ x \in SoundContext
    BY DEF SoundContext, Context
  <2> HIDE DEF d, x, cond
  <2>9. /\ ScopeFit(Here', Total')
        /\ OpenChain' = ChainOf(pending', CurrentScope)
        /\ \E b : /\ OpenBlocks' = Append(BlocksOf(open, active, switches'), b)
                  /\ b = Block("last", RunIn(Here) \cap cond.on, {})
    BY <2>2, <2>4, <2>5, <2>6, <2>7, <2>8, ArmEntered
  <2>10. OpenBlocks' = Append(OpenBlocks,
                              Program!Block("last", Program!Running \cap left, {}))
    BY <2>2, <2>5, <2>9, ScopeNow DEF OpenBlocks, Block, Program!Block
  <2>11. /\ OpenChain.live /\ OpenChain.at = Len(OpenBlocks) /\ OpenChain.left = left
         /\ OpenChain' = Program!Chain(OpenChain.at, {})
    BY <2>5, <2>6, <2>9, ScopeNow DEF OpenChain, Program!Chain
  <2>12. ValueNow' = ValueNow /\ OuterScopes' = OuterScopes
    BY <2>5, ValueKept, OuterKept DEF EnterArm
  <2>13. Program!Else
    BY <2>10, <2>11, <2>12 DEF Program!Else, Program!Open, Program!Continuable
  <2> QED
    BY <2>9, <2>13 DEF FitNext, Simulated, Program!Next
<1> QED
  BY <1>0, <1>1

-----------------------------------------------------------------------------
LEMMA SwitchSimulated ==
  ASSUME ProgramInv, NEW s \in Switched, Switch(s)
  PROVE  FitNext /\ Simulated
<1> DEFINE w == [id |-> NewId, sel |-> s, covered |-> FalseConst, closed |-> FALSE,
                 tracker |-> NewTracker]
           x == [kind |-> "switch"]
           d == [active |-> active', pending |-> pending', open |-> open',
                 switches |-> switches', regions |-> regions']
<1>1. /\ switches' = Append(switches, w) /\ open' = Append(open, x) /\ Made("frames")
      /\ UNCHANGED <<active, pending, regions, scopes, driver, kind>>
  BY DEF Switch
<1>2. Total \in Nat /\ Total' = Total + 1 /\ NewId = Total + 1
  BY <1>1, ScopeNow, MadeNext
<1>3. w \in SoundSwitch /\ w.id = Total + 1 /\ w.covered.on = {} /\ w \in SwitchState
  <2>1. KnowsCovered(w)
    BY DEF KnowsCovered, NewTracker, FalseConst
  <2>2. w \in SwitchState
    BY <1>2, <2>1, ConstantConditions DEF SwitchState
  <2> QED
    BY <1>2, <2>2, ConstantConditions DEF SoundSwitch, FalseConst
<1>4. x \in SoundContext /\ x \in Context /\ x.kind = "switch"
  BY DEF SoundContext, Context
<1>5. switches' \in Seq(SoundSwitch) /\ open' \in Seq(SoundContext)
  <2> HIDE DEF w, x
  <2> QED
    BY <1>1, <1>3, <1>4, ScopeNow, AppendProperties
<1>6. d \in SoundScope
  BY <1>1, <1>5, ScopeNow DEF SoundScope
<1>7. ScopeIn(Here) = <<Ids(active), Ids(switches), Ids(regions)>>
  BY DEF Here, ScopeIn, ScopeOf
<1>8. ScopeIn(d) = <<Ids(active), Append(Ids(switches), Total + 1), Ids(regions)>>
  <2>1. switches \in Seq(SwitchState)
    BY ScopeNow DEF ChainsKnown
  <2>2. Ids(Append(switches, w)) = Append(Ids(switches), w.id)
    <3> HIDE DEF w
    <3> QED
      BY <1>3, <2>1, HaveIds, IdsPushed
  <2> HIDE DEF w
  <2> QED
    BY <1>1, <1>3, <2>2 DEF ScopeIn, ScopeOf
<1>9. Pushed(ScopeIn(Here), ScopeIn(d), x, Total + 1)
  BY <1>4, <1>7, <1>8, ScopeStep
<1>10. /\ d.open = Append(Here.open, x) /\ d.pending = pending
       /\ LeftInside(pending, Here.open, ScopeIn(Here), Total)
  BY <1>1, HereIs, ScopeNow
<1>11. Here' = d /\ OpenBlocks' = BlocksIn(d) /\ OpenChain' = ChainOf(d.pending, ScopeIn(d))
  BY HereNext
<1>12. BlocksIn(d) = Append(BlocksIn(Here), Block("switch", RunIn(Here), Point \ w.covered.on))
  <2>1. BlocksIn(d) = BlocksOf(Append(open, x), active, Append(switches, w))
    BY <1>1 DEF BlocksIn
  <2>2. BlocksOf(Append(open, x), active, Append(switches, w)) =
          Append(BlocksIn(Here), Block("switch", RunIn(Here), Point \ w.covered.on))
    <3> HIDE DEF w
    <3> QED
      BY <1>3, FrameBlock, ScopeNow, HereIs
  <2> QED
    BY <2>1, <2>2
<1> HIDE DEF d, x, w
<1>13. Placed(d, Total + 1) /\ ChainOf(d.pending, ScopeIn(d)) = ChainOf(d.pending, ScopeIn(Here))
  BY <1>2, <1>4, <1>6, <1>9, <1>10, ScopeNow, ScopeEntered
<1>14. ScopeFit(Here', Total')
  BY <1>2, <1>6, <1>11, <1>13 DEF ScopeFit
<1>15. OpenBlocks' = Append(OpenBlocks, Program!Block("switch", Program!Running, Point))
  BY <1>3, <1>11, <1>12, ScopeNow, HereIs DEF Block, Program!Block
<1>16. OpenChain' = OpenChain
  BY <1>10, <1>11, <1>13, HereIs
<1>17. ValueNow' = ValueNow /\ OuterScopes' = OuterScopes
  BY <1>1, ValueKept, OuterKept
<1>18. Program!Switch
  BY <1>15, <1>16, <1>17 DEF Program!Switch, Program!Open
<1> QED
  BY <1>14, <1>18 DEF FitNext, Simulated, Program!Next

LEMMA RegionSimulated ==
  ASSUME ProgramInv, NEW mode \in RegionModes, Region(mode)
  PROVE  FitNext /\ Simulated
<1> DEFINE w == [id |-> NewId, mode |-> mode, captured |-> FALSE]
           x == [kind |-> "region"]
           d == [active |-> active', pending |-> pending', open |-> open',
                 switches |-> switches', regions |-> regions']
<1>1. /\ regions' = Append(regions, w) /\ open' = Append(open, x) /\ Made("frames")
      /\ UNCHANGED <<active, pending, switches, scopes, driver, kind>>
  BY DEF Region
<1>2. Total \in Nat /\ Total' = Total + 1 /\ NewId = Total + 1
  BY <1>1, ScopeNow, MadeNext
<1>3. w \in RegionState /\ w.id = Total + 1
  BY <1>2 DEF RegionState
<1>4. x \in SoundContext /\ x \in Context /\ x.kind = "region"
  BY DEF SoundContext, Context
<1>5. regions' \in Seq(RegionState) /\ open' \in Seq(SoundContext)
  <2> HIDE DEF w, x
  <2> QED
    BY <1>1, <1>3, <1>4, ScopeNow, AppendProperties
<1>6. d \in SoundScope
  BY <1>1, <1>5, ScopeNow DEF SoundScope
<1>7. ScopeIn(Here) = <<Ids(active), Ids(switches), Ids(regions)>>
  BY DEF Here, ScopeIn, ScopeOf
<1>8. ScopeIn(d) = <<Ids(active), Ids(switches), Append(Ids(regions), Total + 1)>>
  <2>1. Ids(Append(regions, w)) = Append(Ids(regions), w.id)
    <3> HIDE DEF w
    <3> QED
      BY <1>3, ScopeNow, HaveIds, IdsPushed
  <2> HIDE DEF w
  <2> QED
    BY <1>1, <1>3, <2>1 DEF ScopeIn, ScopeOf
<1>9. Pushed(ScopeIn(Here), ScopeIn(d), x, Total + 1)
  BY <1>4, <1>7, <1>8, ScopeStep
<1>10. /\ d.open = Append(Here.open, x) /\ d.pending = pending
       /\ LeftInside(pending, Here.open, ScopeIn(Here), Total)
  BY <1>1, HereIs, ScopeNow
<1>11. Here' = d /\ OpenBlocks' = BlocksIn(d) /\ OpenChain' = ChainOf(d.pending, ScopeIn(d))
  BY HereNext
<1>12. BlocksIn(d) = Append(BlocksIn(Here), Block("plain", RunIn(Here), {}))
  <2>1. BlocksIn(d) = BlocksOf(Append(open, x), active, switches)
    BY <1>1 DEF BlocksIn
  <2> QED
    BY <2>1, FrameBlock, ScopeNow, HereIs
<1> HIDE DEF d, x, w
<1>13. Placed(d, Total + 1) /\ ChainOf(d.pending, ScopeIn(d)) = ChainOf(d.pending, ScopeIn(Here))
  BY <1>2, <1>4, <1>6, <1>9, <1>10, ScopeNow, ScopeEntered
<1>14. ScopeFit(Here', Total')
  BY <1>2, <1>6, <1>11, <1>13 DEF ScopeFit
<1>15. OpenBlocks' = Append(OpenBlocks, Program!Block("plain", Program!Running, {}))
  BY <1>11, <1>12, ScopeNow, HereIs DEF Block, Program!Block
<1>16. OpenChain' = OpenChain
  BY <1>10, <1>11, <1>13, HereIs
<1>17. ValueNow' = ValueNow /\ OuterScopes' = OuterScopes
  BY <1>1, ValueKept, OuterKept
<1>18. Program!Region
  BY <1>15, <1>16, <1>17 DEF Program!Region, Program!Open
<1> QED
  BY <1>14, <1>18 DEF FitNext, Simulated, Program!Next

-----------------------------------------------------------------------------
LEMMA LeftTaken ==
  ASSUME NEW b, NEW k, NEW e, NEW c, e = b[k].left \ c
  PROVE  [b EXCEPT ![k].left = e] = [b EXCEPT ![k].left = @ \ c]
OBVIOUS

Replaced(q, r, n, e) == r = [q EXCEPT ![n] = e]

(* An arm of the innermost switch is entered where its test accepts what   *)
(* the earlier arms left.                                                  *)
LEMMA SwitchArmSimulated ==
  ASSUME ProgramInv, NEW n \in Nat, n # 0, Len(switches) = n,
         NEW w \in SoundSwitch, w.id = switches[n].id,
         Replaced(switches, switches', n, w),
         NEW c \in Tests \cup {Point}, c \subseteq Point,
         Point \ w.covered.on = (Point \ switches[n].covered.on) \ c,
         NEW gated \in SoundCondition, gated.on = c \ switches[n].covered.on,
         EnterArm(gated, [kind |-> "case"]), pending' = pending
  PROVE  FitNext /\ Simulated
<1> DEFINE x == [kind |-> "case"]
           left == Point \ switches[n].covered.on
<1>1. x \in SoundContext /\ x.kind = "case"
  BY DEF SoundContext, Context
<1>2. /\ switches \in Seq(SoundSwitch) /\ switches \in Seq(SwitchState)
      /\ n \in 1..Len(switches) /\ w \in SwitchState
  BY ScopeNow DEF ChainsKnown, SoundSwitch
<1>3. \A e \in SoundSwitch : e.id \in Nat
  BY HaveIds DEF SoundSwitch
<1>4. switches' \in Seq(SoundSwitch) /\ Ids(switches') = Ids(switches) /\ switches'[n] = w
      /\ \A i \in 1..(n - 1) : switches'[i] = switches[i]
  <2>1. DOMAIN switches = 1..n /\ switches \in [1..n -> SoundSwitch]
    BY <1>2, LenProperties
  <2>2. /\ DOMAIN switches' = DOMAIN switches /\ switches'[n] = w
        /\ \A i \in DOMAIN switches : i # n => switches'[i] = switches[i]
        /\ switches' \in [1..n -> SoundSwitch]
    BY <2>1 DEF Replaced
  <2>3. \A i \in DOMAIN switches : switches'[i].id = switches[i].id
    BY <2>2
  <2> QED
    BY <2>1, <2>2, <2>3, SeqDef DEF Ids
<1>5. pending' \in SoundChain /\ LeftInside(pending', open, CurrentScope, Total)
  BY ScopeNow
<1> HIDE DEF x
<1>6. /\ ScopeFit(Here', Total')
      /\ OpenChain' = ChainOf(pending', CurrentScope)
      /\ \E b : /\ OpenBlocks' = Append(BlocksOf(open, active, switches'), b)
                /\ b = Block("plain", RunIn(Here) \cap gated.on, {})
  BY <1>1, <1>4, <1>5, ArmEntered DEF x
<1>7. open \in Seq(Context) /\ n = Count(open, Len(open), Family[2])
  BY ScopeNow, HereIs, FitsCounts
<1>8. PICK k \in 1..Len(open) :
             /\ OpenBlocks[k].kind = "switch"
             /\ \A j \in 1..Len(open) : OpenBlocks[j].kind = "switch" => j <= k
             /\ OpenBlocks[k].left = left
             /\ LeftChanged(OpenBlocks, BlocksOf(open, active, switches'), k,
                            Point \ switches'[n].covered.on)
  BY <1>2, <1>4, <1>7, BlocksTaken DEF OpenBlocks
<1>9. BlocksOf(open, active, switches') = [OpenBlocks EXCEPT ![k].left = @ \ c]
  <2>1. Point \ switches'[n].covered.on = OpenBlocks[k].left \ c
    BY <1>4, <1>8
  <2>2. BlocksOf(open, active, switches') =
          [OpenBlocks EXCEPT ![k].left = Point \ switches'[n].covered.on]
    BY <1>8, LeftChangedIs
  <2> QED
    BY <2>1, <2>2, LeftTaken
<1>10. RunIn(Here) \cap gated.on = (RunIn(Here) \cap left) \cap c
  <2> QED
    OBVIOUS
<1>11. OpenBlocks' = Append([OpenBlocks EXCEPT ![k].left = @ \ c],
         Program!Block("plain", (Program!Running \cap OpenBlocks[k].left) \cap c, {}))
  BY <1>6, <1>8, <1>9, <1>10, ScopeNow DEF Block, Program!Block
<1>12. OpenChain' = OpenChain
  BY <1>6 DEF OpenChain
<1>13. ValueNow' = ValueNow /\ OuterScopes' = OuterScopes
  BY ValueKept, OuterKept DEF EnterArm
<1>14. k \in Program!Switches /\ \A j \in Program!Switches : j <= k
  <2>1. DOMAIN OpenBlocks = 1..Len(open)
    BY <1>7, BlocksTyped DEF OpenBlocks
  <2> QED
    BY <1>8, <2>1 DEF Program!Switches
<1> HIDE DEF left
<1>15. Program!Case
  BY <1>11, <1>12, <1>13, <1>14 DEF Program!Case
<1> QED
  BY <1>6, <1>15 DEF FitNext, Simulated, Program!Next

LEMMA TopSwitch ==
  ASSUME ProgramInv, switches # <<>>
  PROVE  /\ Len(switches) \in Nat /\ Len(switches) # 0
         /\ Top(switches) = switches[Len(switches)] /\ Top(switches) \in SoundSwitch
<1>1. switches \in Seq(SoundSwitch)
  BY ScopeNow
<1> QED
  BY <1>1, LenProperties, ElementOfSeq, EmptySeq DEF Top

LEMMA CaseSimulated ==
  ASSUME ProgramInv, Case
  PROVE  FitNext /\ Simulated
<1> DEFINE sw == Top(switches)
           n == Len(switches)
<1>0. CASE switches = <<>> \/ sw.closed
  BY <1>0, RaiseSimulated DEF Case
<1>1. CASE ~(switches = <<>> \/ sw.closed)
  <2>1. PICK test \in CaseTests(sw.sel) :
          /\ switches' = [switches EXCEPT ![n] = CaseTaken(switches[n], test)]
          /\ EnterArm(ClaimOrGate(sw.tracker, test, sw.covered), [kind |-> "case"])
          /\ pending' = pending
    BY <1>1 DEF Case
  <2>2. n \in Nat /\ n # 0 /\ sw = switches[n] /\ sw \in SoundSwitch /\ ~sw.closed
    BY <1>1, TopSwitch
  <2>3. sw \in SwitchState /\ BornOut(sw.covered) /\ sw.covered \in Condition /\ Tracked(sw)
        /\ sw.sel \in Switched
    BY <2>2 DEF SoundSwitch, SwitchState, Tracked
  <2>4. /\ test \in Condition /\ BornOut(test) /\ test \in SoundCondition
        /\ test.on \in Tests /\ test.on \subseteq Point
    BY <2>3, CaseTestsBornOut DEF SoundCondition, Tests, Condition
  <2> DEFINE gated == ClaimOrGate(sw.tracker, test, sw.covered)
             w == CaseTaken(sw, test)
  <2>5. gated \in SoundCondition /\ gated.on = test.on \ sw.covered.on
    BY <2>3, <2>4, GateSound
  <2>6. w \in SwitchState /\ w.id = sw.id /\ w.covered = OrCond(sw.covered, gated)
    BY <2>2, <2>3, <2>4, CaseTakenIsSwitch DEF CaseTaken
  <2>7. BornOut(OrCond(sw.covered, gated))
    <3>1. gated \in Condition /\ BornOut(gated)
      BY <2>5 DEF SoundCondition
    <3> HIDE DEF gated
    <3> QED
      BY <2>3, <3>1, ClassesBornOut
  <2> HIDE DEF gated, w
  <2>8. w \in SoundSwitch
    BY <2>6, <2>7 DEF SoundSwitch
  <2>9. Point \ w.covered.on = (Point \ sw.covered.on) \ test.on
    BY <2>5, <2>6 DEF OrCond
  <2>10. /\ Replaced(switches, switches', n, w)
         /\ EnterArm(gated, [kind |-> "case"])
    BY <2>1, <2>2 DEF w, gated, Replaced
  <2> HIDE DEF sw
  <2>11. test.on \in Tests \cup {Point}
    BY <2>4
  <2> QED
    BY <2>1, <2>2, <2>4, <2>5, <2>6, <2>8, <2>9, <2>10, <2>11, SwitchArmSimulated
<1> QED
  BY <1>0, <1>1

LEMMA DefaultSimulated ==
  ASSUME ProgramInv, Default
  PROVE  FitNext /\ Simulated
<1> DEFINE sw == Top(switches)
           n == Len(switches)
<1>0. CASE switches = <<>> \/ sw.closed
  BY <1>0, RaiseSimulated DEF Default
<1>1. CASE ~(switches = <<>> \/ sw.closed)
  <2> DEFINE gated == NotCond(sw.covered)
             w == ClosedOff(sw)
  <2>2. n \in Nat /\ n # 0 /\ sw = switches[n] /\ sw \in SoundSwitch
    BY <1>1, TopSwitch
  <2>3. sw \in SwitchState /\ BornOut(sw.covered) /\ sw.covered \in Condition
    BY <2>2 DEF SoundSwitch, SwitchState
  <2>4. gated \in SoundCondition /\ gated.on = Point \ sw.covered.on
    <3>1. gated \in Condition /\ BornOut(gated)
      BY <2>3, ConditionClosed, ClassesBornOut
    <3> QED
      BY <3>1 DEF SoundCondition, NotCond
  <2>5. w \in SwitchState /\ w.id = sw.id /\ w.covered = TrueConst
    <3>1. w \in SwitchState
      BY <2>3, ClosedOffIsClosed
    <3>2. sw \in [id : Nat, sel : Switched, covered : Condition,
                  closed : BOOLEAN, tracker : Tracker]
      BY <2>3 DEF SwitchState
    <3>3. w.id = sw.id /\ w.covered = TrueConst
      BY <3>2 DEF ClosedOff
    <3> QED
      BY <3>1, <3>3
  <2>6. w \in SoundSwitch /\ Point \ w.covered.on = (Point \ sw.covered.on) \ Point
    <3>1. BornOut(TrueConst) /\ TrueConst.on = Point
      BY ConstantsSound DEF SoundCondition
    <3> HIDE DEF w
    <3> QED
      BY <2>5, <3>1 DEF SoundSwitch
  <2>7. /\ Replaced(switches, switches', n, w)
        /\ EnterArm(gated, [kind |-> "case"]) /\ pending' = pending
    BY <1>1, <2>2 DEF Default, Replaced
  <2> HIDE DEF gated, w, sw
  <2> QED
    BY <2>2, <2>4, <2>5, <2>6, <2>7, SwitchArmSimulated
<1> QED
  BY <1>0, <1>1

-----------------------------------------------------------------------------
LEMMA CascadeDriven ==
  ASSUME NEW d \in Cascade, NEW p \in Point
  PROVE  d # NoDriver
<1>1. DOMAIN d.tail = Point
  BY DEF Cascade
<1>2. DOMAIN NoDriver.tail = {}
  BY DEF NoDriver, Driver
<1> QED
  BY <1>1, <1>2

LEMMA ConstantDriver ==
  ASSUME NEW v \in Bits
  PROVE  /\ Driver(<<>>, Always(v)) \in Cascade
         /\ \A p \in Point : Delivers(Driver(<<>>, Always(v)), p) = v
<1>1. <<>> \in Seq(SoundArm)
  BY EmptySeq
<1>2. Always(v) \in [Point -> Bits] /\ \A p \in Point : Always(v)[p] = v
  BY DEF Always
<1>3. Driver(<<>>, Always(v)) \in Cascade
  BY <1>1, <1>2 DEF Driver, Cascade
<1>4. ASSUME NEW p \in Point PROVE Delivers(Driver(<<>>, Always(v)), p) = v
  <2> DEFINE d == Driver(<<>>, Always(v))
  <2>1. d.pairs = <<>> /\ d.tail[p] = v
    BY <1>2 DEF Driver
  <2> HIDE DEF d
  <2>2. \A j \in DOMAIN d.pairs : p \notin d.pairs[j].sel.on
    BY <2>1
  <2>3. Delivers(d, p) = d.tail[p]
    BY <2>2, DeliversTail
  <2> QED
    BY <2>1, <2>3 DEF d
<1> QED
  BY <1>3, <1>4

(* What the driver delivers after an assignment is the text's value.       *)
LEMMA AssignedValue ==
  ASSUME ProgramInv, made.assigns < MaxAssigns,
         active = <<>> \/ driver # NoDriver \/ kind = "reg",
         driver' = IF active = <<>> THEN Driver(<<>>, Always({NewId}))
                   ELSE Mux(Combined, Always({NewId}),
                            IF driver = NoDriver THEN Driver(<<>>, Always(Hold)) ELSE driver)
  PROVE  /\ driver' \in Cascade
         /\ {NewId} \in Values
         /\ \A p \in Point : Delivers(driver', p) =
              IF p \in RunIn(Here) THEN {NewId} ELSE ValueNow[p]
<1> DEFINE v == {NewId}
           fallback == IF driver = NoDriver THEN Driver(<<>>, Always(Hold)) ELSE driver
<1>1. NewId \in Nat /\ v \in Bits /\ Hold \in Bits
  <2>1. Total \in Nat
    BY ScopeNow DEF ChainsKnown, Total
  <2> QED
    BY <2>1 DEF NewId, Bits, Hold
<1>2. v \in Values
  <2>1. NewId \in 0..MaxArms + MaxAssigns + MaxFrames
    <3>1. MaxArms \in Nat /\ MaxAssigns \in Nat /\ MaxFrames \in Nat
      BY ControlAssumption
    <3>2. /\ made.arms \in 0..MaxArms /\ made.assigns \in 0..MaxAssigns
          /\ made.frames \in 0..MaxFrames /\ made.assigns < MaxAssigns
      BY DEF ProgramInv, Bounded
    <3> QED
      BY <3>1, <3>2, SMTT(30) DEF NewId, Total
  <2> QED
    BY <2>1 DEF Values
<1>3. fallback \in Cascade
  BY <1>1, ConstantDriver DEF ProgramInv, DriverSound
<1>4. /\ Always(v) \in [Point -> Bits]
      /\ \A p \in Point : Always(v)[p] = v
  BY <1>1 DEF Always
<1>5. active \in Seq(SoundActive)
  BY ScopeNow
<1>6. CASE active = <<>>
  <2>1. RunIn(Here) = Point
    <3>1. Len(active) = 0
      BY <1>6
    <3> QED
      BY <3>1, HereIs DEF RunIn, Holding
  <2>2. driver' = Driver(<<>>, Always(v))
    BY <1>6
  <2> HIDE DEF v
  <2> QED
    BY <1>1, <1>2, <2>1, <2>2, ConstantDriver DEF v
<1>7. CASE active # <<>>
  <2>1. PICK n \in Nat : Len(active) = n + 1
    <3>1. Len(active) \in Nat /\ Len(active) # 0
      BY <1>5, <1>7, LenProperties, EmptySeq
    <3>2. Len(active) - 1 \in Nat /\ Len(active) = (Len(active) - 1) + 1
      BY <3>1
    <3> QED
      BY <3>2
  <2>2. \A i \in DOMAIN active : BornOut(active[i].cond)
    BY ScopeNow, SoundTyped, HereIs
  <2>3. active \in Seq(ActiveCondition)
    BY ScopeNow DEF ChainsKnown
  <2>4. Combined \in Condition /\ BornOut(Combined) /\ Combined.on = RunIn(Here)
    BY <2>1, <2>2, <2>3, CombinedHolds, HereIs DEF RunIn
  <2>5. driver' = Mux(Combined, Always(v), fallback)
    BY <1>7
  <2>6. ASSUME NEW p \in Point PROVE Delivers(fallback, p) = ValueNow[p]
    <3>1. CASE driver # NoDriver
      BY <3>1 DEF ValueNow
    <3>2. CASE driver = NoDriver
      <4>1. Delivers(Driver(<<>>, Always(Hold)), p) = Hold
        BY <1>1, ConstantDriver
      <4>2. kind = "reg"
        BY <1>7, <3>2
      <4> QED
        BY <3>2, <4>1, <4>2 DEF ValueNow
    <3> QED
      BY <3>1, <3>2
  <2> HIDE DEF v, fallback
  <2>7. /\ driver' \in Cascade
        /\ \A p \in Point : Delivers(driver', p) =
             IF p \in RunIn(Here) THEN v ELSE Delivers(fallback, p)
    <3> DEFINE c == Combined
               val == Always(v)
    <3>1. c \in Condition /\ BornOut(c) /\ c.on = RunIn(Here) /\ val \in [Point -> Bits]
      BY <1>4, <2>4
    <3>2. driver' = Mux(c, val, fallback) /\ \A p \in Point : val[p] = v
      BY <1>4, <2>5
    <3> HIDE DEF c, val
    <3>3. /\ Mux(c, val, fallback) \in Cascade
          /\ \A p \in Point : Delivers(Mux(c, val, fallback), p) =
               IF p \in c.on THEN val[p] ELSE Delivers(fallback, p)
      BY <1>3, <3>1, MuxDelivers
    <3> QED
      BY <3>1, <3>2, <3>3
  <2> QED
    BY <1>2, <2>6, <2>7 DEF v
<1> QED
  BY <1>6, <1>7

LEMMA AssignSimulated ==
  ASSUME ProgramInv, Assign
  PROVE  FitNext /\ Simulated /\ DriverSound'
<1>0. CASE active # <<>> /\ driver = NoDriver /\ kind # "reg"
  <2>1. Raise /\ driver' = driver
    BY <1>0 DEF Assign, Raise
  <2> QED
    BY <2>1, RaiseSimulated DEF DriverSound, ProgramInv
<1>1. CASE ~(active # <<>> /\ driver = NoDriver /\ kind # "reg")
  <2>1. /\ made.assigns < MaxAssigns
        /\ driver' = IF active = <<>> THEN Driver(<<>>, Always({NewId}))
                     ELSE Mux(Combined, Always({NewId}),
                              IF driver = NoDriver THEN Driver(<<>>, Always(Hold)) ELSE driver)
        /\ regions' = IF regions = <<>> THEN regions
                      ELSE [regions EXCEPT ![Len(regions)].captured = TRUE]
        /\ Made("assigns")
        /\ UNCHANGED <<active, pending, switches, open, scopes, kind>>
    BY <1>1 DEF Assign
  <2>2. /\ driver' \in Cascade /\ {NewId} \in Values
        /\ \A p \in Point : Delivers(driver', p) =
             IF p \in RunIn(Here) THEN {NewId} ELSE ValueNow[p]
    BY <1>1, <2>1, AssignedValue
  <2>3. DOMAIN ValueNow' = Point /\ \A p \in Point : ValueNow'[p] = Delivers(driver', p)
    BY <2>2, CascadeDriven DEF ValueNow
  <2>4. ValueNow' = [p \in Point |-> IF p \in Program!Running THEN {NewId} ELSE ValueNow[p]]
    <3>1. ValueNow' = [p \in Point |-> ValueNow'[p]]
      BY DEF ValueNow
    <3>2. Program!Running = RunIn(Here)
      BY ScopeNow
    <3>3. \A p \in Point : ValueNow'[p] = IF p \in Program!Running THEN {NewId} ELSE ValueNow[p]
      BY <2>2, <2>3, <3>2
    <3> QED
      BY <3>1, <3>3
  <2>5. regions' \in Seq(RegionState) /\ Ids(regions') = Ids(regions)
    <3>1. regions \in Seq(RegionState)
      BY ScopeNow
    <3>2. CASE regions = <<>>
      BY <2>1, <3>1, <3>2
    <3>3. CASE regions # <<>>
      <4> DEFINE n == Len(regions)
                 r == [regions EXCEPT ![n].captured = TRUE]
      <4>1. n \in 1..n /\ DOMAIN regions = 1..n /\ regions \in [1..n -> RegionState] /\ n \in Nat
        BY <3>1, <3>3, LenProperties, EmptySeq
      <4>2. r \in [1..n -> RegionState] /\ \A i \in 1..n : r[i].id = regions[i].id
        <5>1. \A i \in 1..n : regions[i] \in RegionState
          BY <4>1
        <5> QED
          BY <4>1, <5>1 DEF RegionState
      <4>3. regions' = r
        BY <2>1, <3>3
      <4> HIDE DEF r
      <4> QED
        BY <4>1, <4>2, <4>3, SeqDef DEF Ids
    <3> QED
      BY <3>2, <3>3
  <2>6. CurrentScope' = CurrentScope
    BY <2>1, <2>5 DEF CurrentScope, ScopeOf
  <2>7. UNCHANGED <<OpenBlocks, OpenChain, OuterScopes>>
    BY <2>1, <2>6 DEF OpenBlocks, OpenChain, OuterScopes
  <2>8. ScopeFit(Here', Total')
    <3> DEFINE d == [active |-> active', pending |-> pending', open |-> open',
                     switches |-> switches', regions |-> regions']
    <3>1. d \in SoundScope
      BY <2>1, <2>5, ScopeNow DEF SoundScope
    <3>2. ScopeIn(d) = ScopeIn(Here) /\ d.open = Here.open /\ d.pending = Here.pending
      BY <2>1, <2>5 DEF ScopeIn, ScopeOf, Here
    <3>3. Here' = d
      BY HereNext
    <3>4. Total \in Nat /\ Total' = Total + 1
      BY <2>1, ScopeNow, MadeNext
    <3> HIDE DEF d
    <3>5. Placed(d, Total)
      BY <3>2, ScopeNow DEF Placed
    <3>6. Placed(d, Total + 1)
      BY <3>1, <3>4, <3>5, PlacedLater
    <3> QED
      BY <3>1, <3>3, <3>4, <3>6 DEF ScopeFit
  <2>9. Program!Assign
    BY <2>2, <2>4, <2>7 DEF Program!Assign
  <2> QED
    BY <2>2, <2>8, <2>9 DEF FitNext, Simulated, Program!Next, DriverSound
<1> QED
  BY <1>0, <1>1

-----------------------------------------------------------------------------
(* Leaving a context pops the stack it was pushed onto. *)
StackPopped ==
  /\ Top(open).kind \in {"if", "else", "case"} =>
       active' = Pop(active) /\ switches' = switches /\ regions' = regions
  /\ Top(open).kind = "switch" =>
       switches' = Pop(switches) /\ active' = active /\ regions' = regions
  /\ Top(open).kind = "region" =>
       regions' = Pop(regions) /\ active' = active /\ switches' = switches

LEMMA OpenTop ==
  ASSUME ProgramInv, open # <<>>
  PROVE  \E m \in Nat : /\ Len(open) = m + 1
                        /\ Top(open) = open[m + 1] /\ Top(open) \in SoundContext
                        /\ Top(open).kind \in {"if", "else", "case", "switch", "region"}
<1>1. open \in Seq(SoundContext) /\ Len(open) \in Nat /\ Len(open) # 0
  BY ScopeNow, EmptySeq, LenProperties
<1>2. Len(open) - 1 \in Nat /\ Len(open) = (Len(open) - 1) + 1
  BY <1>1
<1>3. PICK m \in Nat : Len(open) = m + 1
  BY <1>2
<1>4. Top(open) = open[m + 1] /\ Top(open) \in SoundContext
  BY <1>1, <1>3, LastOff
<1>5. Top(open).kind \in {"if", "else", "case", "switch", "region"}
  BY <1>4 DEF SoundContext, Context
<1> QED
  BY <1>3, <1>4, <1>5

LEMMA StacksFull ==
  ASSUME ProgramInv, NEW m \in Nat, Len(open) = m + 1
  PROVE  /\ Top(open).kind \in Family[1] => \E l \in Nat : Len(active) = l + 1
         /\ Top(open).kind \in Family[2] => \E l \in Nat : Len(switches) = l + 1
         /\ Top(open).kind \in Family[3] => \E l \in Nat : Len(regions) = l + 1
<1>1. /\ Len(CurrentScope[1]) = Len(active) /\ Len(CurrentScope[2]) = Len(switches)
      /\ Len(CurrentScope[3]) = Len(regions)
  BY ScopeNow, SoundTyped, HereIs
<1>2. open \in Seq(Context) /\ Fits(open, CurrentScope)
  BY ScopeNow
<1>3. Top(open) = open[m + 1]
  BY <1>2, LastOff, Zenon
<1>4. /\ Count(open, m + 1, Family[1]) = Len(active)
      /\ Count(open, m + 1, Family[2]) = Len(switches)
      /\ Count(open, m + 1, Family[3]) = Len(regions)
  BY <1>1, <1>2 DEF Fits
<1>5. ASSUME NEW kinds
      PROVE  /\ Count(open, m, kinds) \in Nat
             /\ Top(open).kind \in kinds =>
                  Count(open, m + 1, kinds) = Count(open, m, kinds) + 1
  BY <1>3, CountNext, Zenon
<1> QED
  BY <1>4, <1>5

LEMMA StacksLeft ==
  ASSUME ProgramInv, open # <<>>, StackPopped
  PROVE  /\ PoppedOff(CurrentScope, CurrentScope', Top(open))
         /\ active' \in Seq(SoundActive) /\ switches' \in Seq(SoundSwitch)
         /\ regions' \in Seq(RegionState)
         /\ Top(open).kind \in Family[1] => active' = Pop(active)
         /\ Top(open).kind \notin Family[1] => active' = active
         /\ Top(open).kind \in Family[2] => switches' = Pop(switches)
         /\ Top(open).kind \notin Family[2] => switches' = switches
<1>1. PICK m \in Nat : /\ Len(open) = m + 1
                       /\ Top(open).kind \in {"if", "else", "case", "switch", "region"}
  BY OpenTop
<1>2. /\ active \in Seq(SoundActive) /\ switches \in Seq(SoundSwitch)
      /\ regions \in Seq(RegionState)
      /\ active \in Seq(ActiveCondition) /\ switches \in Seq(SwitchState)
  BY ScopeNow DEF ChainsKnown
<1>3. /\ CurrentScope = <<Ids(active), Ids(switches), Ids(regions)>>
      /\ CurrentScope' = <<Ids(active'), Ids(switches'), Ids(regions')>>
  BY DEF CurrentScope, ScopeOf
<1>4. /\ Top(open).kind \in {"if", "else", "case"} =>
           Top(open).kind \in Family[1] /\ Top(open).kind \notin Family[2]
      /\ Top(open).kind = "switch" =>
           Top(open).kind \in Family[2] /\ Top(open).kind \notin Family[1]
      /\ Top(open).kind = "region" =>
           /\ Top(open).kind \in Family[3] /\ Top(open).kind \notin Family[1]
           /\ Top(open).kind \notin Family[2]
  BY FamilyOf
<1>5. CASE Top(open).kind \in {"if", "else", "case"}
  <2>1. PICK l \in Nat : Len(active) = l + 1
    BY <1>1, <1>4, <1>5, StacksFull
  <2>2. active' = Pop(active) /\ switches' = switches /\ regions' = regions
    BY <1>5 DEF StackPopped
  <2>3. Ids(Pop(active)) = Pop(Ids(active)) /\ Pop(active) \in Seq(SoundActive)
    BY <1>2, <2>1, HaveIds, IdsPopped, LastOff, Zenon
  <2>4. PoppedOff(CurrentScope, CurrentScope', Top(open))
    BY <1>3, <1>5, <2>2, <2>3, ScopeStep
  <2> QED
    BY <1>2, <1>4, <1>5, <2>2, <2>3, <2>4
<1>6. CASE Top(open).kind = "switch"
  <2>1. PICK l \in Nat : Len(switches) = l + 1
    BY <1>1, <1>4, <1>6, StacksFull
  <2>2. switches' = Pop(switches) /\ active' = active /\ regions' = regions
    BY <1>6 DEF StackPopped
  <2>3. Ids(Pop(switches)) = Pop(Ids(switches)) /\ Pop(switches) \in Seq(SoundSwitch)
    BY <1>2, <2>1, HaveIds, IdsPopped, LastOff, Zenon
  <2>4. PoppedOff(CurrentScope, CurrentScope', Top(open))
    BY <1>3, <1>6, <2>2, <2>3, ScopeStep
  <2> QED
    BY <1>2, <1>4, <1>6, <2>2, <2>3, <2>4
<1>7. CASE Top(open).kind = "region"
  <2>1. PICK l \in Nat : Len(regions) = l + 1
    BY <1>1, <1>4, <1>7, StacksFull
  <2>2. regions' = Pop(regions) /\ active' = active /\ switches' = switches
    BY <1>7 DEF StackPopped
  <2>3. Ids(Pop(regions)) = Pop(Ids(regions)) /\ Pop(regions) \in Seq(RegionState)
    BY <1>2, <2>1, HaveIds, IdsPopped, LastOff, Zenon
  <2>4. PoppedOff(CurrentScope, CurrentScope', Top(open))
    BY <1>3, <1>7, <2>2, <2>3, ScopeStep
  <2> QED
    BY <1>2, <1>4, <1>7, <2>2, <2>3, <2>4
<1> QED
  BY <1>1, <1>5, <1>6, <1>7

(* The chain that is pending once a context was left. *)
PendingLeft ==
  /\ Top(open).kind = "if" =>
       pending'.scope = CurrentScope' /\ pending'.covered = Top(open).chain.covered
  /\ Top(open).kind = "else" => pending' = NoneChain
  /\ Top(open).kind \in {"case", "switch", "region"} => pending' = pending

LEMMA ContextLeft ==
  ASSUME ProgramInv, open # <<>>, open' = Pop(open), StackPopped, PendingLeft,
         pending' \in SoundChain, UNCHANGED <<scopes, made>>, ValueNow' = ValueNow
  PROVE  FitNext /\ Simulated
<1> DEFINE d == [active |-> active', pending |-> pending', open |-> open',
                 switches |-> switches', regions |-> regions']
           top == Top(open)
<1>1. PICK m \in Nat : /\ Len(open) = m + 1
                       /\ top.kind \in {"if", "else", "case", "switch", "region"}
  BY OpenTop
<1>2. /\ PoppedOff(CurrentScope, CurrentScope', top)
      /\ active' \in Seq(SoundActive) /\ switches' \in Seq(SoundSwitch)
      /\ regions' \in Seq(RegionState)
      /\ top.kind \in Family[1] => active' = Pop(active)
      /\ top.kind \notin Family[1] => active' = active
      /\ top.kind \in Family[2] => switches' = Pop(switches)
      /\ top.kind \notin Family[2] => switches' = switches
  BY StacksLeft
<1>3. open' \in Seq(SoundContext)
  BY <1>1, ScopeNow, LastOff
<1>4. d \in SoundScope
  BY <1>2, <1>3 DEF SoundScope
<1>5. /\ Here' = d /\ OpenBlocks' = BlocksIn(d)
      /\ OpenChain' = ChainOf(d.pending, ScopeIn(d))
  BY HereNext
<1>6. /\ ScopeIn(d) = CurrentScope' /\ d.open = Pop(open) /\ d.pending = pending'
      /\ BlocksIn(d) = BlocksOf(Pop(open), active', switches')
  BY DEF ScopeIn, CurrentScope, BlocksIn
<1>7. /\ Here \in SoundScope /\ Placed(Here, Total) /\ Total \in Nat
      /\ Here.open = open /\ Here.active = active /\ Here.switches = switches
      /\ Here.pending = pending /\ ScopeIn(Here) = CurrentScope
      /\ OpenBlocks = BlocksIn(Here)
      /\ OpenChain = ChainOf(Here.pending, ScopeIn(Here))
  BY ScopeNow, HereIs DEF ChainsKnown, Total
<1>8. Total' = Total
  BY DEF Total
<1>9. BlocksIn(d) = SubSeq(OpenBlocks, 1, Len(OpenBlocks) - 1)
  <2>1. BlocksOf(Pop(Here.open), active', switches') =
          SubSeq(BlocksIn(Here), 1, Len(Here.open) - 1)
    BY <1>1, <1>2, <1>7, LeftBlocks
  <2> QED
    BY <1>6, <1>7, <2>1, ScopeNow
<1>10. /\ Len(OpenBlocks) = m + 1
       /\ top.kind = "if" => /\ OpenBlocks[m + 1].kind = "arm"
                             /\ OpenBlocks[m + 1].left = Point \ top.chain.covered.on
       /\ top.kind = "else" => OpenBlocks[m + 1].kind = "last"
       /\ top.kind \in {"case", "switch", "region"} =>
            OpenBlocks[m + 1].kind \notin {"arm", "last"}
  BY <1>1, <1>7, TopBlock
<1> HIDE DEF d
<1>11. /\ d.pending = Here.pending =>
            /\ Placed(d, Total)
            /\ ChainOf(d.pending, ScopeIn(d)) =
                 IF ChainOf(Here.pending, ScopeIn(Here)).at >= Len(Here.open) THEN Dead
                 ELSE ChainOf(Here.pending, ScopeIn(Here))
       /\ d.pending = NoneChain =>
            Placed(d, Total) /\ ChainOf(d.pending, ScopeIn(d)) = Dead
       /\ d.pending.scope = ScopeIn(d) =>
            /\ Placed(d, Total)
            /\ ChainOf(d.pending, ScopeIn(d)) =
                 [live |-> TRUE, at |-> m, left |-> Point \ d.pending.covered.on]
  <2>1. PoppedOff(ScopeIn(Here), ScopeIn(d), Top(Here.open))
    BY <1>2, <1>6, <1>7
  <2>2. Len(Here.open) = m + 1 /\ d.open = Pop(Here.open)
    BY <1>1, <1>6, <1>7
  <2> QED
    BY <1>4, <1>7, <2>1, <2>2, ScopeLeft
<1>12. /\ top.kind = "if" => d.pending.scope = ScopeIn(d) /\ d.pending.covered = top.chain.covered
       /\ top.kind = "else" => d.pending = NoneChain
       /\ top.kind \in {"case", "switch", "region"} => d.pending = Here.pending
  BY <1>6, <1>7 DEF PendingLeft
<1> HIDE DEF top
<1>13. Placed(d, Total)
  BY <1>1, <1>11, <1>12
<1>14. FitNext
  BY <1>4, <1>5, <1>8, <1>13 DEF FitNext, ScopeFit
<1>15. OpenChain' =
         LET b == OpenBlocks[Len(OpenBlocks)] IN
         IF b.kind = "arm" THEN Program!Chain(Len(OpenBlocks) - 1, b.left)
         ELSE IF b.kind = "last" \/ OpenChain.at >= Len(OpenBlocks) THEN Program!NoChain
         ELSE OpenChain
  <2>1. CASE top.kind = "if"
    <3>1. OpenChain' = [live |-> TRUE, at |-> m, left |-> Point \ top.chain.covered.on]
      BY <1>5, <1>11, <1>12, <2>1
    <3>2. Len(OpenBlocks) - 1 = m /\ OpenBlocks[Len(OpenBlocks)] = OpenBlocks[m + 1]
      BY <1>10
    <3> QED
      BY <1>10, <2>1, <3>1, <3>2 DEF Program!Chain
  <2>2. CASE top.kind = "else"
    BY <1>5, <1>10, <1>11, <1>12, <2>2 DEF Program!NoChain, Dead
  <2>3. CASE top.kind \in {"case", "switch", "region"}
    <3>1. OpenChain' = IF OpenChain.at >= m + 1 THEN Dead ELSE OpenChain
      BY <1>1, <1>5, <1>7, <1>11, <1>12, <2>3
    <3> QED
      BY <1>10, <2>3, <3>1 DEF Program!NoChain, Dead
  <2> QED
    BY <1>1, <2>1, <2>2, <2>3
<1>16. OpenBlocks # <<>>
  BY <1>10
<1>17. OuterScopes' = OuterScopes
  BY OuterKept
<1>18. Program!Leave
  BY <1>5, <1>9, <1>15, <1>16, <1>17 DEF Program!Leave
<1> QED
  BY <1>14, <1>18 DEF Simulated, Program!Next

-----------------------------------------------------------------------------
(* A rewrite that is not refused keeps the signal's value.                 *)
LEMMA EmittedKeeps ==
  ASSUME ProgramInv, NEW mode \in Mode, ~Refused(driver, mode),
         driver' = Emitted(driver, mode), kind' = kind
  PROVE  ValueNow' = ValueNow /\ DriverSound'
<1>1. CASE driver = NoDriver
  <2>1. ~IsCascade(NoDriver)
    BY DEF IsCascade, NoDriver, Driver
  <2>2. driver' = driver
    BY <1>1, <2>1 DEF Emitted
  <2> QED
    BY <2>2, ValueKept DEF ProgramInv, DriverSound
<1>2. CASE driver # NoDriver
  <2>1. driver \in Cascade
    BY <1>2 DEF ProgramInv, DriverSound
  <2>2. /\ driver' \in Cascade
        /\ \A p \in Point : Delivers(driver', p) = Delivers(driver, p)
    BY <2>1, EmittedExact
  <2>3. ASSUME NEW p \in Point PROVE ValueNow'[p] = ValueNow[p]
    <3>1. driver' # NoDriver
      BY <2>2, CascadeDriven
    <3> QED
      BY <1>2, <2>2, <3>1 DEF ValueNow
  <2>4. ValueNow' = [p \in Point |-> ValueNow'[p]] /\ ValueNow = [p \in Point |-> ValueNow[p]]
    BY DEF ValueNow
  <2>5. ValueNow' = ValueNow
    BY <2>3, <2>4
  <2> QED
    BY <2>2, <2>5 DEF DriverSound
<1> QED
  BY <1>1, <1>2

LEMMA LeaveSimulated ==
  ASSUME ProgramInv, LeaveIf \/ LeaveElse \/ LeaveCase \/ LeaveSwitch \/ LeaveRegion
  PROVE  FitNext /\ Simulated /\ DriverSound'
<1>1. open # <<>> /\ open' = Pop(open) /\ UNCHANGED <<scopes, made, kind>>
  BY DEF LeaveIf, LeaveElse, LeaveCase, LeaveSwitch, LeaveRegion, Leaving
<1>2. Top(open) \in SoundContext
  BY <1>1, OpenTop
<1>3. pending \in SoundChain
  BY ScopeNow
<1>4. CASE LeaveIf
  <2> DEFINE scope == ScopeOf(Pop(active), switches, regions)
             c == Top(open).chain
  <2>1. /\ Top(open).kind = "if" /\ active' = Pop(active)
        /\ pending' = [c EXCEPT !.scope = scope]
        /\ UNCHANGED <<switches, regions, driver>>
    BY <1>4 DEF LeaveIf, Leaving
  <2>2. c \in IfChain /\ BornOut(c.covered)
    BY <1>2, <2>1 DEF SoundContext, Context
  <2>3. scope \in Seq(Seq(Nat))
    <3>1. /\ Pop(active) \in Seq(ActiveCondition) /\ switches \in Seq(SwitchState)
          /\ regions \in Seq(RegionState)
      BY ScopeNow, PopTop DEF ChainsKnown
    <3> QED
      BY <3>1, ScopeTyped
  <2> HIDE DEF scope, c
  <2>4. /\ pending' \in IfChain /\ pending'.covered = c.covered /\ pending'.scope = scope
    BY <2>1, <2>2, <2>3 DEF IfChain, KnowsCovered
  <2>5. pending' \in SoundChain
    BY <2>2, <2>4 DEF SoundChain
  <2>6. PendingLeft /\ StackPopped
    BY <2>1, <2>4 DEF PendingLeft, StackPopped, scope, c, CurrentScope
  <2>7. ValueNow' = ValueNow /\ DriverSound'
    BY <1>1, <2>1, ValueKept DEF ProgramInv, DriverSound
  <2> QED
    BY <1>1, <2>5, <2>6, <2>7, ContextLeft
<1>5. CASE LeaveElse
  <2>1. /\ Top(open).kind = "else" /\ active' = Pop(active) /\ pending' = NoneChain
        /\ UNCHANGED <<switches, regions, driver>>
    BY <1>5 DEF LeaveElse, Leaving
  <2>2. PendingLeft /\ StackPopped /\ pending' \in SoundChain
    BY <2>1, ConstantsSound DEF PendingLeft, StackPopped
  <2>3. ValueNow' = ValueNow /\ DriverSound'
    BY <1>1, <2>1, ValueKept DEF ProgramInv, DriverSound
  <2> QED
    BY <1>1, <2>2, <2>3, ContextLeft
<1>6. CASE LeaveCase
  <2>1. /\ Top(open).kind = "case" /\ active' = Pop(active)
        /\ UNCHANGED <<pending, switches, regions, driver>>
    BY <1>6 DEF LeaveCase, Leaving
  <2>2. PendingLeft /\ StackPopped /\ pending' \in SoundChain
    BY <1>3, <2>1 DEF PendingLeft, StackPopped
  <2>3. ValueNow' = ValueNow /\ DriverSound'
    BY <1>1, <2>1, ValueKept DEF ProgramInv, DriverSound
  <2> QED
    BY <1>1, <2>2, <2>3, ContextLeft
<1>7. CASE LeaveSwitch
  <2>1. /\ Top(open).kind = "switch" /\ switches' = Pop(switches)
        /\ UNCHANGED <<active, pending, regions, driver>>
    BY <1>7 DEF LeaveSwitch, Leaving
  <2>2. PendingLeft /\ StackPopped /\ pending' \in SoundChain
    BY <1>3, <2>1 DEF PendingLeft, StackPopped
  <2>3. ValueNow' = ValueNow /\ DriverSound'
    BY <1>1, <2>1, ValueKept DEF ProgramInv, DriverSound
  <2> QED
    BY <1>1, <2>2, <2>3, ContextLeft
<1>8. CASE LeaveRegion
  <2> DEFINE region == Top(regions)
             rewrites == region.captured /\ ~raising
  <2>1. /\ Top(open).kind = "region" /\ regions' = Pop(regions)
        /\ driver' = IF rewrites /\ ~Refused(driver, region.mode)
                     THEN Emitted(driver, region.mode) ELSE driver
        /\ UNCHANGED <<active, pending, switches>>
    BY <1>8 DEF LeaveRegion, Leaving
  <2>2. PendingLeft /\ StackPopped /\ pending' \in SoundChain
    BY <1>3, <2>1 DEF PendingLeft, StackPopped
  <2>3. region \in RegionState
    <3>1. PICK m \in Nat : Len(open) = m + 1
      BY <1>1, OpenTop
    <3>2. Top(open).kind \in Family[3]
      BY <2>1, FamilyOf
    <3>3. PICK l \in Nat : Len(regions) = l + 1
      BY <3>1, <3>2, StacksFull
    <3>4. regions \in Seq(RegionState)
      BY ScopeNow
    <3> QED
      BY <3>3, <3>4, LastOff
  <2>4. region.mode \in Mode
    BY <2>3, ControlAssumption DEF RegionState
  <2> HIDE DEF region
  <2>5. CASE rewrites /\ ~Refused(driver, region.mode)
    <3>1. ValueNow' = ValueNow /\ DriverSound'
      BY <1>1, <2>1, <2>4, <2>5, EmittedKeeps
    <3> QED
      BY <1>1, <2>2, <3>1, ContextLeft
  <2>6. CASE ~(rewrites /\ ~Refused(driver, region.mode))
    <3>1. driver' = driver
      BY <2>1, <2>6
    <3>2. ValueNow' = ValueNow /\ DriverSound'
      BY <1>1, <3>1, ValueKept DEF ProgramInv, DriverSound
    <3> QED
      BY <1>1, <2>2, <3>2, ContextLeft
  <2> QED
    BY <2>5, <2>6
<1> QED
  BY <1>4, <1>5, <1>6, <1>7, <1>8

LEMMA EmissionSimulated ==
  ASSUME ProgramInv, EmissionPass
  PROVE  FitNext /\ Simulated /\ DriverSound'
<1>1. /\ driver' = Emitted(driver, "auto")
      /\ UNCHANGED <<active, pending, switches, regions, open, scopes, kind, made>>
  BY DEF EmissionPass, state
<1>2. ~Refused(driver, "auto") /\ "auto" \in Mode
  BY AutoNeverRefused DEF Mode
<1>3. ValueNow' = ValueNow /\ DriverSound'
  BY <1>1, <1>2, EmittedKeeps
<1>4. Here' = Here /\ Total' = Total
  BY <1>1 DEF Here, Total
<1>5. UNCHANGED <<OpenBlocks, OpenChain, OuterScopes>>
  BY <1>1 DEF OpenBlocks, OpenChain, CurrentScope, OuterScopes
<1> QED
  BY <1>3, <1>4, <1>5, ScopeNow DEF FitNext, Simulated

-----------------------------------------------------------------------------
(* Fresh scopes. *)
Outer(c)  == [blocks |-> BlocksIn(c), chain |-> ChainOf(c.pending, ScopeIn(c))]
Outers(q) == [k \in DOMAIN q |-> Outer(q[k])]

LEMMA OuterScopesAre == OuterScopes = Outers(scopes)
BY DEF OuterScopes, Outers, Outer, BlocksIn, ScopeIn

LEMMA OutersSeq ==
  ASSUME NEW q \in Seq(SavedScope)
  PROVE  /\ Outers(q) \in Seq({Outer(c) : c \in SavedScope})
         /\ Len(Outers(q)) = Len(q)
         /\ \A k \in 1..Len(q) : Outers(q)[k] = Outer(q[k])
<1> DEFINE T == {Outer(c) : c \in SavedScope}
           m == Len(Outers(q))
           n == Len(q)
<1>1. n \in Nat /\ DOMAIN q = 1..n /\ \A k \in 1..n : q[k] \in SavedScope
  BY LenProperties, ElementOfSeq
<1>2. Outers(q) \in [1..n -> T]
  BY <1>1 DEF Outers
<1>3. Outers(q) \in Seq(T)
  BY <1>1, <1>2, SeqDef
<1>4. m \in Nat /\ DOMAIN Outers(q) = 1..m
  BY <1>3, LenProperties
<1>5. DOMAIN Outers(q) = 1..n
  BY <1>2
<1>6. \A k \in 1..n : Outers(q)[k] = Outer(q[k])
  BY <1>1 DEF Outers
<1> HIDE DEF m, n, T
<1>7. m = n
  BY <1>1, <1>4, <1>5
<1> QED
  BY <1>3, <1>6, <1>7 DEF m, n, T

LEMMA OutersPushed ==
  ASSUME NEW q \in Seq(SavedScope), NEW c \in SavedScope
  PROVE  Outers(Append(q, c)) = Append(Outers(q), Outer(c))
<1> DEFINE r == Append(q, c)
           T == {Outer(x) : x \in SavedScope}
           t == Append(Outers(q), Outer(c))
<1>1. /\ r \in Seq(SavedScope) /\ Len(r) = Len(q) + 1 /\ Len(q) \in Nat
      /\ (\A i \in 1..Len(q) : r[i] = q[i]) /\ r[Len(q) + 1] = c
  BY AppendProperties, LenProperties
<1>2. /\ Outers(q) \in Seq(T) /\ Len(Outers(q)) = Len(q)
      /\ \A i \in 1..Len(q) : Outers(q)[i] = Outer(q[i])
  BY OutersSeq
<1>3. Outer(c) \in T
  OBVIOUS
<1> HIDE DEF r, T
<1>4. /\ Outers(r) \in Seq(T) /\ Len(Outers(r)) = Len(r)
      /\ \A i \in 1..Len(r) : Outers(r)[i] = Outer(r[i])
  BY <1>1, OutersSeq DEF T
<1>5. /\ t \in Seq(T) /\ Len(t) = Len(q) + 1
      /\ (\A i \in 1..Len(q) : t[i] = Outers(q)[i]) /\ t[Len(q) + 1] = Outer(c)
  BY <1>2, <1>3, AppendProperties
<1> HIDE DEF t
<1>6. ASSUME NEW i \in 1..Len(q) + 1 PROVE Outers(r)[i] = t[i]
  <2>1. i = Len(q) + 1 \/ i \in 1..Len(q)
    BY <1>1, UpToNext, Zenon
  <2>2. CASE i = Len(q) + 1
    BY <1>1, <1>4, <1>5, <2>2
  <2>3. CASE i \in 1..Len(q)
    BY <1>1, <1>2, <1>4, <1>5, <2>3
  <2> QED
    BY <2>1, <2>2, <2>3
<1>7. Outers(r) = t
  BY <1>1, <1>4, <1>5, <1>6, SeqEqual
<1> QED
  BY <1>7 DEF r, t

LEMMA OutersPopped ==
  ASSUME NEW q \in Seq(SavedScope), NEW n \in Nat, Len(q) = n + 1
  PROVE  Outers(Pop(q)) = SubSeq(Outers(q), 1, Len(Outers(q)) - 1)
<1> DEFINE T == {Outer(x) : x \in SavedScope}
<1>1. Pop(q) \in Seq(SavedScope) /\ Len(Pop(q)) = n /\ \A i \in 1..n : Pop(q)[i] = q[i]
  BY LastOff, Zenon
<1>2. /\ Outers(q) \in Seq(T) /\ Len(Outers(q)) = n + 1
      /\ \A i \in 1..n + 1 : Outers(q)[i] = Outer(q[i])
  BY OutersSeq
<1>3. /\ Outers(Pop(q)) \in Seq(T) /\ Len(Outers(Pop(q))) = n
      /\ \A i \in 1..n : Outers(Pop(q))[i] = Outer(Pop(q)[i])
  BY <1>1, OutersSeq
<1> HIDE DEF T
<1>4. /\ Pop(Outers(q)) \in Seq(T) /\ Len(Pop(Outers(q))) = n
      /\ \A i \in 1..n : Pop(Outers(q))[i] = Outers(q)[i]
  BY <1>2, LastOff, Zenon
<1>5. \A i \in 1..n : Outers(Pop(q))[i] = Pop(Outers(q))[i]
  <2>1. \A i \in 1..n : i \in 1..n + 1
    OBVIOUS
  <2> QED
    BY <1>1, <1>2, <1>3, <1>4, <2>1
<1>6. Outers(Pop(q)) = Pop(Outers(q))
  BY <1>3, <1>4, <1>5, SeqEqual
<1> QED
  BY <1>6 DEF Pop

LEMMA EmptyScope ==
  ASSUME NEW d, NEW n \in Nat,
         d = [active |-> <<>>, pending |-> NoneChain, open |-> <<>>,
              switches |-> <<>>, regions |-> <<>>]
  PROVE  /\ ScopeFit(d, n)
         /\ BlocksIn(d) = <<>> /\ ChainOf(d.pending, ScopeIn(d)) = Program!NoChain
<1>1. d \in SoundScope
  BY EmptySeq, ConstantsSound DEF SoundScope
<1>2. ScopeIn(d) = <<<<>>, <<>>, <<>>>>
  BY DEF ScopeIn, ScopeOf, Ids
<1>3. \A k \in 1..3 : ScopeIn(d)[k] = <<>>
  BY <1>2
<1>4. Fits(d.open, ScopeIn(d))
  <2>1. ASSUME NEW k \in 1..3 PROVE Len(ScopeIn(d)[k]) = Count(d.open, Len(d.open), Family[k])
    <3>1. Len(ScopeIn(d)[k]) = 0 /\ Len(d.open) = 0
      BY <1>3, EmptySeq
    <3>2. Count(d.open, 0, Family[k]) = 0
      BY CountNext
    <3> QED
      BY <3>1, <3>2
  <2> QED
    BY <2>1 DEF Fits
<1>5. Issued(ScopeIn(d), n)
  BY <1>3 DEF Issued
<1>6. LeftInside(d.pending, d.open, ScopeIn(d), n)
  BY DEF LeftInside
<1>7. BlocksIn(d) = <<>>
  BY DEF BlocksIn, BlocksOf
<1>8. ChainOf(d.pending, ScopeIn(d)) = Program!NoChain
  BY DEF ChainOf, Program!NoChain
<1> QED
  BY <1>1, <1>4, <1>5, <1>6, <1>7, <1>8 DEF ScopeFit, Placed

LEMMA FreshSimulated ==
  ASSUME ProgramInv, Fresh
  PROVE  FitNext /\ Simulated /\ OuterFit'
<1> DEFINE d == [active |-> active', pending |-> pending', open |-> open',
                 switches |-> switches', regions |-> regions']
<1>1. /\ scopes' = Append(scopes, Here)
      /\ active' = <<>> /\ pending' = NoneChain /\ switches' = <<>> /\ regions' = <<>>
      /\ open' = <<>> /\ Made("frames") /\ UNCHANGED <<driver, kind>>
  BY DEF Fresh, Here
<1>2. Total \in Nat /\ Total' = Total + 1 /\ Total + 1 \in Nat
  BY <1>1, ScopeNow, MadeNext
<1>3. Here' = d /\ OpenBlocks' = BlocksIn(d) /\ OpenChain' = ChainOf(d.pending, ScopeIn(d))
  BY HereNext
<1>4. ScopeFit(d, Total + 1) /\ BlocksIn(d) = <<>> /\ ChainOf(d.pending, ScopeIn(d)) = Program!NoChain
  <2>1. d = [active |-> <<>>, pending |-> NoneChain, open |-> <<>>,
              switches |-> <<>>, regions |-> <<>>]
    BY <1>1
  <2> HIDE DEF d
  <2> QED
    BY <1>2, <2>1, EmptyScope
<1> HIDE DEF d
<1>5. scopes \in Seq(SavedScope) /\ Here \in SavedScope
  BY ScopeNow DEF ChainsKnown, Here, SavedScope
<1>6. OuterScopes' = Append(OuterScopes, [blocks |-> OpenBlocks, chain |-> OpenChain])
  <2>1. OuterScopes' = Outers(scopes')
    BY DEF OuterScopes, Outers, Outer, BlocksIn, ScopeIn
  <2>2. Outer(Here) = [blocks |-> OpenBlocks, chain |-> OpenChain]
    BY HereIs DEF Outer
  <2>3. Outers(Append(scopes, Here)) = Append(Outers(scopes), Outer(Here))
    BY <1>5, OutersPushed
  <2> QED
    BY <1>1, <2>1, <2>2, <2>3, OuterScopesAre
<1>7. OuterFit'
  <2>1. ScopeFit(Here, Total + 1)
    BY <1>2, ScopeNow, PlacedLater DEF ScopeFit
  <2>2. ASSUME NEW k \in DOMAIN scopes PROVE ScopeFit(scopes[k], Total + 1)
    BY <1>2, PlacedLater DEF ProgramInv, OuterFit, ScopeFit
  <2>3. /\ DOMAIN scopes' = 1..Len(scopes) + 1 /\ Len(scopes) \in Nat
        /\ DOMAIN scopes = 1..Len(scopes)
        /\ \A k \in 1..Len(scopes) : scopes'[k] = scopes[k]
        /\ scopes'[Len(scopes) + 1] = Here
    <3>1. /\ Append(scopes, Here) \in Seq(SavedScope)
          /\ Len(Append(scopes, Here)) = Len(scopes) + 1
          /\ \A k \in 1..Len(scopes) : Append(scopes, Here)[k] = scopes[k]
          /\ Append(scopes, Here)[Len(scopes) + 1] = Here
      BY <1>5, AppendProperties
    <3> QED
      BY <1>1, <1>5, <3>1, LenProperties
  <2>4. ASSUME NEW k \in DOMAIN scopes' PROVE ScopeFit(scopes'[k], Total')
    <3>1. k = Len(scopes) + 1 \/ k \in 1..Len(scopes)
      BY <2>3, UpToNext
    <3>2. CASE k = Len(scopes) + 1
      BY <1>2, <2>1, <2>3, <3>2
    <3>3. CASE k \in 1..Len(scopes)
      BY <1>2, <2>2, <2>3, <3>3
    <3> QED
      BY <3>1, <3>2, <3>3
  <2> QED
    BY <2>4 DEF OuterFit
<1>8. Program!Fresh
  BY <1>1, <1>3, <1>4, <1>6, ValueKept DEF Program!Fresh
<1> QED
  BY <1>2, <1>3, <1>4, <1>7, <1>8 DEF FitNext, Simulated, Program!Next

LEMMA LeaveFreshSimulated ==
  ASSUME ProgramInv, LeaveFresh
  PROVE  FitNext /\ Simulated /\ OuterFit'
<1> DEFINE saved == Top(scopes)
           d == [active |-> active', pending |-> pending', open |-> open',
                 switches |-> switches', regions |-> regions']
<1>1. /\ open = <<>> /\ scopes # <<>> /\ scopes' = Pop(scopes)
      /\ active' = saved.active /\ pending' = saved.pending /\ open' = saved.open
      /\ switches' = saved.switches /\ regions' = saved.regions
      /\ UNCHANGED <<driver, kind, made>>
  BY DEF LeaveFresh
<1>2. scopes \in Seq(SavedScope)
  BY ScopeNow DEF ChainsKnown
<1>3. PICK n \in Nat : Len(scopes) = n + 1
  <2>1. Len(scopes) \in Nat /\ Len(scopes) # 0
    BY <1>1, <1>2, LenProperties, EmptySeq
  <2>2. Len(scopes) - 1 \in Nat /\ Len(scopes) = (Len(scopes) - 1) + 1
    BY <2>1
  <2> QED
    BY <2>2
<1>4. /\ Pop(scopes) \in Seq(SavedScope) /\ Len(Pop(scopes)) = n
      /\ \A k \in 1..n : Pop(scopes)[k] = scopes[k]
      /\ saved = scopes[n + 1] /\ saved \in SavedScope
  BY <1>2, <1>3, LastOff, Zenon
<1>5. \A k \in 1..n + 1 : ScopeFit(scopes[k], Total)
  BY <1>2, <1>3, LenProperties DEF ProgramInv, OuterFit
<1>6. ScopeFit(saved, Total)
  <2>1. n + 1 \in 1..n + 1
    OBVIOUS
  <2> QED
    BY <1>4, <1>5, <2>1
<1>7. d = saved
  BY <1>1, <1>4 DEF SavedScope
<1>8. Here' = d /\ OpenBlocks' = BlocksIn(d) /\ OpenChain' = ChainOf(d.pending, ScopeIn(d))
  BY HereNext
<1> HIDE DEF d, saved
<1>9. Total' = Total
  BY <1>1 DEF Total
<1>10. OuterFit'
  <2>1. ASSUME NEW k \in DOMAIN scopes' PROVE ScopeFit(scopes'[k], Total')
    <3>1. k \in 1..n
      BY <1>1, <1>4, LenProperties
    <3>2. k \in 1..n + 1
      BY <3>1
    <3> QED
      BY <1>1, <1>4, <1>5, <1>9, <3>1, <3>2
  <2> QED
    BY <2>1 DEF OuterFit
<1>11. /\ Len(OuterScopes) = n + 1
       /\ OuterScopes[n + 1] = [blocks |-> OpenBlocks', chain |-> OpenChain']
       /\ OuterScopes' = SubSeq(OuterScopes, 1, Len(OuterScopes) - 1)
  <2>1. OuterScopes' = Outers(scopes')
    BY DEF OuterScopes, Outers, Outer, BlocksIn, ScopeIn
  <2>2. Outers(Pop(scopes)) = SubSeq(Outers(scopes), 1, Len(Outers(scopes)) - 1)
    BY <1>2, <1>3, OutersPopped
  <2>3. Len(Outers(scopes)) = n + 1 /\ \A k \in 1..n + 1 : Outers(scopes)[k] = Outer(scopes[k])
    BY <1>2, <1>3, OutersSeq
  <2>4. Outers(scopes)[n + 1] = Outer(saved)
    <3>1. n + 1 \in 1..n + 1
      OBVIOUS
    <3> QED
      BY <1>4, <2>3, <3>1
  <2>5. Outer(saved) = [blocks |-> OpenBlocks', chain |-> OpenChain']
    BY <1>7, <1>8 DEF Outer
  <2> QED
    BY <1>1, <2>1, <2>2, <2>3, <2>4, <2>5, OuterScopesAre
<1>12. OpenBlocks = <<>>
  BY <1>1 DEF OpenBlocks, BlocksOf
<1>13. OuterScopes # <<>>
  BY <1>11
<1>14. Program!EndFresh
  BY <1>1, <1>11, <1>12, <1>13, ValueKept DEF Program!EndFresh
<1> QED
  BY <1>6, <1>7, <1>8, <1>9, <1>10, <1>14 DEF FitNext, Simulated, Program!Next

-----------------------------------------------------------------------------
(* What a step makes, it makes within the bounds. *)
LEMMA BoundsKept ==
  ASSUME ProgramInv, [Next]_controlVars
  PROVE  /\ Bounded' /\ Total \in Nat /\ Total' \in {Total, Total + 1}
         /\ scopes' = scopes \/ Fresh \/ LeaveFresh
         /\ driver' = driver \/ Assign \/ Leave \/ EmissionPass
<1>1. \/ UNCHANGED made
      \/ made.arms < MaxArms /\ Made("arms")
      \/ made.assigns < MaxAssigns /\ Made("assigns")
      \/ made.frames < MaxFrames /\ Made("frames")
  <2>1. CASE \E cond \in Guards : If(cond) \/ Elif(cond)
    BY <2>1 DEF If, Elif, EnterArm, Raise
  <2>2. CASE Else \/ Case \/ Default
    BY <2>2 DEF Else, Case, Default, EnterArm, Raise
  <2>3. CASE Assign
    BY <2>3 DEF Assign, Raise
  <2>4. CASE (\E s \in Switched : Switch(s)) \/ (\E mode \in RegionModes : Region(mode)) \/ Fresh
    BY <2>4 DEF Switch, Region, Fresh
  <2>5. CASE Leave
    BY <2>5 DEF Leave, LeaveIf, LeaveElse, LeaveCase, LeaveSwitch, LeaveRegion, LeaveFresh, Leaving
  <2>6. CASE Throw \/ Catch \/ EmissionPass
    BY <2>6 DEF Throw, Raise, Catch, EmissionPass
  <2>7. CASE UNCHANGED controlVars
    BY <2>7 DEF controlVars
  <2> QED
    BY <2>1, <2>2, <2>3, <2>4, <2>5, <2>6, <2>7 DEF Next
<1>2. Bounded /\ ChainsKnown
  BY DEF ProgramInv
<1>3. Bounded'
  <2>1. UNCHANGED made => Bounded'
    BY <1>2 DEF Bounded
  <2> QED
    BY <1>1, <1>2, <2>1, MadeBounded
<1>4. Total \in Nat /\ Total' \in {Total, Total + 1}
  <2>1. Total \in Nat
    BY <1>2 DEF ChainsKnown, Total
  <2>2. UNCHANGED made => Total' = Total
    BY DEF Total
  <2> QED
    BY <1>1, <1>2, <2>1, <2>2, MadeNext
<1>5. scopes' = scopes \/ Fresh \/ LeaveFresh
  <2>1. CASE \E cond \in Guards : If(cond) \/ Elif(cond)
    BY <2>1 DEF If, Elif, EnterArm, Raise
  <2>2. CASE Else \/ Case \/ Default
    BY <2>2 DEF Else, Case, Default, EnterArm, Raise
  <2>3. CASE Assign
    BY <2>3 DEF Assign, Raise
  <2>4. CASE (\E s \in Switched : Switch(s)) \/ (\E mode \in RegionModes : Region(mode))
    BY <2>4 DEF Switch, Region
  <2>5. CASE Leave
    BY <2>5 DEF Leave, LeaveIf, LeaveElse, LeaveCase, LeaveSwitch, LeaveRegion, Leaving
  <2>6. CASE Throw \/ Catch \/ EmissionPass
    BY <2>6 DEF Throw, Raise, Catch, EmissionPass
  <2>7. CASE UNCHANGED controlVars
    BY <2>7 DEF controlVars
  <2> QED
    BY <2>1, <2>2, <2>3, <2>4, <2>5, <2>6, <2>7 DEF Next
<1>6. driver' = driver \/ Assign \/ Leave \/ EmissionPass
  <2>1. CASE \E cond \in Guards : If(cond) \/ Elif(cond)
    BY <2>1 DEF If, Elif, EnterArm, Raise
  <2>2. CASE Else \/ Case \/ Default
    BY <2>2 DEF Else, Case, Default, EnterArm, Raise
  <2>3. CASE (\E s \in Switched : Switch(s)) \/ (\E mode \in RegionModes : Region(mode)) \/ Fresh
    BY <2>3 DEF Switch, Region, Fresh
  <2>4. CASE Throw \/ Catch
    BY <2>4 DEF Throw, Raise, Catch
  <2>5. CASE UNCHANGED controlVars
    BY <2>5 DEF controlVars
  <2> QED
    BY <2>1, <2>2, <2>3, <2>4, <2>5 DEF Next
<1> QED
  BY <1>3, <1>4, <1>5, <1>6

(* A step that changes nothing the program stands for. *)
LEMMA StutterSimulated ==
  ASSUME ProgramInv, Throw \/ Catch \/ UNCHANGED controlVars
  PROVE  FitNext /\ Simulated
<1>1. UNCHANGED <<active, pending, switches, regions, open, scopes, driver, kind, made>>
  BY DEF Throw, Raise, Catch, state, controlVars
<1>2. Here' = Here /\ Total' = Total
  BY <1>1 DEF Here, Total
<1>3. UNCHANGED <<ValueNow, OpenBlocks, OpenChain, OuterScopes>>
  BY <1>1 DEF ValueNow, OpenBlocks, OpenChain, CurrentScope, OuterScopes
<1> QED
  BY <1>2, <1>3, ScopeNow DEF FitNext, Simulated

LEMMA StepSimulated ==
  ASSUME ProgramInv, [Next]_controlVars
  PROVE  ProgramInv' /\ Simulated
<1>1. FitNext /\ Simulated
  <2>1. CASE \E cond \in Guards : If(cond) \/ Elif(cond)
    BY <2>1, IfSimulated, ElifSimulated
  <2>2. CASE Else
    BY <2>2, ElseSimulated
  <2>3. CASE \E s \in Switched : Switch(s)
    BY <2>3, SwitchSimulated
  <2>4. CASE Case \/ Default
    BY <2>4, CaseSimulated, DefaultSimulated
  <2>5. CASE Assign
    BY <2>5, AssignSimulated
  <2>6. CASE \E mode \in RegionModes : Region(mode)
    BY <2>6, RegionSimulated
  <2>7. CASE Fresh
    BY <2>7, FreshSimulated
  <2>8. CASE Leave
    BY <2>8, LeaveSimulated, LeaveFreshSimulated DEF Leave
  <2>9. CASE EmissionPass
    BY <2>9, EmissionSimulated
  <2>10. CASE Throw \/ Catch \/ UNCHANGED controlVars
    BY <2>10, StutterSimulated
  <2> QED
    BY <2>1, <2>2, <2>3, <2>4, <2>5, <2>6, <2>7, <2>8, <2>9, <2>10 DEF Next
<1>2. ChainsKnown'
  BY ChainsKnownKept DEF ProgramInv
<1>3. /\ Bounded' /\ Total \in Nat /\ Total' \in {Total, Total + 1}
      /\ scopes' = scopes \/ Fresh \/ LeaveFresh
      /\ driver' = driver \/ Assign \/ Leave \/ EmissionPass
  BY BoundsKept
<1>4. OuterFit'
  BY <1>3, OuterFitKept, FreshSimulated, LeaveFreshSimulated DEF ProgramInv
<1>5. DriverSound'
  <2>1. CASE driver' = driver
    BY <2>1 DEF ProgramInv, DriverSound
  <2>2. CASE Assign \/ EmissionPass
    BY <2>2, AssignSimulated, EmissionSimulated
  <2>3. CASE Leave
    <3>1. LeaveFresh => driver' = driver
      BY DEF LeaveFresh
    <3> QED
      BY <2>1, <2>3, <3>1, LeaveSimulated DEF Leave
  <2> QED
    BY <1>3, <2>1, <2>2, <2>3
<1> QED
  BY <1>1, <1>2, <1>3, <1>4, <1>5 DEF ProgramInv, FitNext

LEMMA StartSimulated ==
  ASSUME Init
  PROVE  ProgramInv /\ Program!Init
<1>1. /\ active = <<>> /\ pending = NoneChain /\ switches = <<>> /\ regions = <<>>
      /\ open = <<>> /\ scopes = <<>> /\ driver = NoDriver /\ kind \in {"reg", "wire"}
      /\ made = [arms |-> 0, assigns |-> 0, frames |-> 0]
  BY DEF Init
<1>2. ChainsKnown
  BY <1>1, EmptySeq, ConstantConditions DEF ChainsKnown
<1>3. Total = 0 /\ Total \in Nat
  BY <1>1 DEF Total
<1>4. ScopeFit(Here, Total) /\ BlocksIn(Here) = <<>>
      /\ ChainOf(Here.pending, ScopeIn(Here)) = Program!NoChain
  <2>1. Here = [active |-> <<>>, pending |-> NoneChain, open |-> <<>>,
                switches |-> <<>>, regions |-> <<>>]
    BY <1>1 DEF Here
  <2> QED
    BY <1>3, <2>1, EmptyScope
<1>5. OuterFit /\ DriverSound /\ OuterScopes = <<>>
  BY <1>1 DEF OuterFit, DriverSound, OuterScopes
<1>6. Bounded
  <2>1. MaxArms \in Nat /\ MaxAssigns \in Nat /\ MaxFrames \in Nat
    BY ControlAssumption
  <2> QED
    BY <1>1, <2>1 DEF Bounded
<1>7. OpenBlocks = <<>> /\ OpenChain = Program!NoChain
  BY <1>4, HereIs
<1>8. ValueNow \in {[p \in Point |-> v] : v \in Values}
  <2> DEFINE v == IF kind = "reg" THEN Hold ELSE {}
  <2>1. v \in Values
    <3>1. MaxArms \in Nat /\ MaxAssigns \in Nat /\ MaxFrames \in Nat
      BY ControlAssumption
    <3>2. 0 \in 0..MaxArms + MaxAssigns + MaxFrames
      BY <3>1
    <3> QED
      BY <3>2 DEF Values, Hold
  <2>2. ValueNow = [p \in Point |-> v]
    BY <1>1 DEF ValueNow
  <2> HIDE DEF v
  <2> QED
    BY <2>1, <2>2
<1> QED
  BY <1>2, <1>4, <1>5, <1>6, <1>7, <1>8 DEF ProgramInv, Program!Init

(* In every reachable state the stacks and the open contexts agree,        *)
(* everything on them is born out by what its class says, and the driver   *)
(* is a cascade over such conditions.                                      *)
THEOREM ProgramInvHolds == Spec => []ProgramInv
<1>1. Init => ProgramInv
  BY StartSimulated
<1>2. ProgramInv /\ [Next]_controlVars => ProgramInv'
  BY StepSimulated
<1> QED
  BY <1>1, <1>2, PTL DEF Spec

LEMMA CascadeArmsTyped ==
  ASSUME NEW d \in Cascade
  PROVE  /\ \A i \in DOMAIN d.pairs :
              d.pairs[i] \in [sel : Condition, val : [Point -> Bits]]
         /\ d.tail \in [Point -> Bits]
<1>1. /\ \A i \in DOMAIN d.pairs :
           /\ d.pairs[i] \in SoundArm /\ d.pairs[i].sel \in Condition
           /\ d.pairs[i].val \in [Point -> Bits]
      /\ d.tail \in [Point -> Bits]
  BY CascadeArms
<1> QED
  BY <1>1 DEF SoundArm

(* Every variable keeps its type, the driver with all its arms included.   *)
THEOREM ControlTypeOK == Spec => []TypeOK
<1> DEFINE Rest == kind \in {"reg", "wire"} /\ raising \in BOOLEAN
<1>1. Init => Rest
  BY DEF Init
<1>2. Rest /\ [Next]_controlVars => Rest'
  <2> SUFFICES ASSUME Rest, [Next]_controlVars
               PROVE  Rest'
    OBVIOUS
  <2>1. CASE \E cond \in Guards : If(cond) \/ Elif(cond)
    BY <2>1 DEF If, Elif, EnterArm, Raise
  <2>2. CASE Else \/ Case \/ Default
    BY <2>2 DEF Else, Case, Default, EnterArm, Raise
  <2>3. CASE Assign
    BY <2>3 DEF Assign, Raise
  <2>4. CASE (\E s \in Switched : Switch(s)) \/ (\E mode \in RegionModes : Region(mode)) \/ Fresh
    BY <2>4 DEF Switch, Region, Fresh
  <2>5. CASE LeaveIf \/ LeaveElse \/ LeaveCase \/ LeaveSwitch \/ LeaveFresh
    BY <2>5 DEF LeaveIf, LeaveElse, LeaveCase, LeaveSwitch, LeaveFresh, Leaving
  <2>6. CASE LeaveRegion
    BY <2>6 DEF LeaveRegion, Leaving
  <2>7. CASE Throw \/ Catch \/ EmissionPass
    BY <2>7 DEF Throw, Raise, Catch, EmissionPass
  <2>8. CASE UNCHANGED controlVars
    BY <2>8 DEF controlVars
  <2> QED
    BY <2>1, <2>2, <2>3, <2>4, <2>5, <2>6, <2>7, <2>8 DEF Next, Leave
<1>3. ProgramInv /\ Rest => TypeOK
  <2> SUFFICES ASSUME ProgramInv, Rest
               PROVE  TypeOK
    OBVIOUS
  <2>1. driver # NoDriver => driver \in Cascade
    BY DEF ProgramInv, DriverSound
  <2> QED
    BY <2>1, CascadeArmsTyped DEF TypeOK, ProgramInv
<1> QED
  BY <1>1, <1>2, <1>3, ProgramInvHolds, PTL DEF Spec

(* What a program built from if_, elif_, else_, switch_, case_, default,   *)
(* selection_topology and fresh scopes leaves behind is what its text,     *)
(* read from top to bottom, says.                                          *)
THEOREM ProgramRuns == Spec => RunsTheProgram
<1>1. Init => Program!Init
  BY StartSimulated
<1>2. ProgramInv /\ [Next]_controlVars => [Program!Next]_(Program!programVars)
  BY StepSimulated DEF Simulated, Program!programVars
<1> QED
  BY <1>1, <1>2, ProgramInvHolds, PTL DEF Spec, RunsTheProgram, Program!Spec
=============================================================================
