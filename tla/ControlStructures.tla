------------------------- MODULE ControlStructures -------------------------
(***************************************************************************)
(* if_/elif_/else_, switch_/case_/default, selection_topology regions and  *)
(* fresh_condition_scope (control_structures.py), while a program built    *)
(* from them elaborates, statement by statement, and assigns one signal.   *)
(*                                                                         *)
(* The constructs keep three global stacks and one pending chain; every    *)
(* assignment wraps the driver in one more mux.  So the last arm written   *)
(* is the first to match, and first-match order is restored by gating each *)
(* arm with what the earlier ones cover, unless the tracker proves the     *)
(* gate dead.  The module shows that the cascade built this way, and every *)
(* rewrite of it, delivers what FirstMatchProgram promises.                *)
(*                                                                         *)
(* Every with-statement constructs and enters its own context object.  An  *)
(* exception unwinds the open contexts until the program catches it.       *)
(***************************************************************************)
EXTENDS SelectionLowering, FiniteSets

CONSTANTS
  Guards,      \* the conditions given to if_ and elif_
  Labels,      \* the label sets given to case_
  NonConsts,   \* the comparisons with non-constants given to case_
  Switched,    \* the selectors given to switch_
  RegionModes, \* the modes given to selection_topology
  MaxArms,     \* bound: if, elif, else, case and default arms
  MaxAssigns,  \* bound: assignments
  MaxFrames,   \* bound: switches, regions and fresh scopes
  MaxMade,     \* bound: all of these together
  MaxDepth     \* bound: open contexts

ASSUME ControlAssumption ==
  /\ Guards \subseteq {c \in Condition : BornOut(c)}
  /\ NonConsts \subseteq {c \in Condition : BornOut(c)}
  /\ Labels \subseteq (SUBSET Nat) \ {{}}
  /\ Switched \subseteq Selector
  /\ RegionModes \subseteq Mode
  /\ {MaxArms, MaxAssigns, MaxFrames, MaxMade, MaxDepth} \subseteq Nat

VARIABLES
  active,   \* the active conditions, outermost first, each with its identity
  pending,  \* the pending if chain, or NoneChain
  switches, \* the open switches, innermost last
  regions,  \* the open selection_topology regions, innermost last
  open,     \* the contexts still to be left, innermost last
  scopes,   \* what the open fresh scopes put aside, innermost last
  driver,   \* the signal's driver, or NoDriver
  kind,     \* "reg" or "wire"
  raising,  \* whether an exception is unwinding the contexts
  made      \* how many arms, assignments and frames were made

state == <<active, pending, switches, regions>>
controlVars == <<active, pending, switches, regions, open, scopes, driver, kind,
                 raising, made>>

Total == made.arms + made.assigns + made.frames
NewId == Total + 1

NoDriver  == Driver(<<>>, <<>>)
NoneChain == [covered |-> FalseConst, closed |-> FALSE, tracker |-> NewTracker,
              scope |-> <<>>]
(* A register that is not driven holds its value, written {0}. *)
Hold == {0}

Ids(s) == [i \in DOMAIN s |-> s[i].id]
ScopeOf(acts, sws, regs) == <<Ids(acts), Ids(sws), Ids(regs)>>
(* _current_scope *)
CurrentScope == ScopeOf(active, switches, regions)

Init == /\ active = <<>> /\ pending = NoneChain
        /\ switches = <<>> /\ regions = <<>> /\ open = <<>>
        /\ scopes = <<>>
        /\ driver = NoDriver
        /\ kind \in {"reg", "wire"}
        /\ raising = FALSE
        /\ made = [arms |-> 0, assigns |-> 0, frames |-> 0]

Running == ~raising /\ Len(open) < MaxDepth /\ Total < MaxMade
Made(what) == made' = [made EXCEPT ![what] = @ + 1]

(* An error leaves the elaboration state as it was and starts to unwind. *)
Raise == /\ raising' = TRUE
         /\ UNCHANGED <<state, open, scopes, driver, kind, made>>

Pop(s) == SubSeq(s, 1, Len(s) - 1)
Top(s) == s[Len(s)]

-----------------------------------------------------------------------------
(* fault: later arms are not kept from stealing earlier matches *)
Ungated(tracker, cond, covered) == cond
(* _claim_or_gate *)
ClaimOrGate(tracker, cond, covered) ==
  IF Claims(tracker, cond) \/ covered = FalseConst THEN cond
  ELSE AndCond(cond, NotCond(covered))

(* _IfChain.branch *)
Branched(chain, cond) ==
  LET gated == ClaimOrGate(chain.tracker, cond, chain.covered)
  IN [covered |-> IF chain.covered = FalseConst THEN gated
                  ELSE OrCond(chain.covered, gated),
      closed  |-> chain.closed,
      tracker |-> AfterClaim(chain.tracker, cond),
      scope   |-> chain.scope]

(* default() of a chain or a switch: nothing is left for another arm. *)
ClosedOff(c) == [[c EXCEPT !.covered = TrueConst] EXCEPT !.closed = TRUE]

(* A conditional context is entered: its condition becomes active. *)
EnterArm(cond, context) ==
  /\ active' = Append(active, [id |-> NewId, cond |-> cond])
  /\ open' = Append(open, context)
  /\ Made("arms")
  /\ UNCHANGED <<regions, scopes, driver, kind, raising>>

(* if_: a chain of its own; whatever was pending is forgotten. *)
If(cond) ==
  /\ Running /\ made.arms < MaxArms
  /\ pending' = NoneChain
  /\ EnterArm(cond, [kind |-> "if", chain |-> Branched(NoneChain, cond)])
  /\ UNCHANGED switches

(* fault: the chain is claimed wherever it was left *)
AnyPending == pending # NoneChain
(* _claim_pending_chain: only where the chain was left. *)
CanContinue == pending # NoneChain /\ pending.scope = CurrentScope /\ ~pending.closed

Elif(cond) ==
  /\ Running /\ made.arms < MaxArms
  /\ IF CanContinue
     THEN /\ pending' = Branched(pending, cond)
          /\ EnterArm(ClaimOrGate(pending.tracker, cond, pending.covered),
                      [kind |-> "if", chain |-> pending'])
          /\ UNCHANGED switches
     ELSE Raise

Else ==
  /\ Running /\ made.arms < MaxArms
  /\ IF CanContinue
     THEN /\ pending' = ClosedOff(pending)
          /\ EnterArm(NotCond(pending.covered), [kind |-> "else"])
          /\ UNCHANGED switches
     ELSE Raise

-----------------------------------------------------------------------------
(* switch_.__enter__ *)
Switch(s) ==
  /\ Running /\ made.frames < MaxFrames
  /\ switches' = Append(switches, [id |-> NewId, sel |-> s, covered |-> FalseConst,
                                   closed |-> FALSE, tracker |-> NewTracker])
  /\ open' = Append(open, [kind |-> "switch"])
  /\ Made("frames")
  /\ UNCHANGED <<active, pending, regions, scopes, driver, kind, raising>>

(* _claim_cases: the OR of the comparisons with the labels. *)
LabelTest(s, labels) == [on |-> At(s, labels), class |-> Consts(s, labels)]

CaseTests(s) == {LabelTest(s, ls) : ls \in Labels} \cup NonConsts

CaseTaken(sw, test) ==
  [id |-> sw.id, sel |-> sw.sel, closed |-> sw.closed,
   covered |-> OrCond(sw.covered, ClaimOrGate(sw.tracker, test, sw.covered)),
   tracker |-> AfterClaim(sw.tracker, test)]

(* case_: an arm of the innermost switch. *)
Case ==
  /\ Running /\ made.arms < MaxArms
  /\ IF switches = <<>> \/ Top(switches).closed THEN Raise
     ELSE \E test \in CaseTests(Top(switches).sel) :
            /\ switches' = [switches EXCEPT ![Len(switches)] = CaseTaken(@, test)]
            /\ EnterArm(ClaimOrGate(Top(switches).tracker, test, Top(switches).covered),
                        [kind |-> "case"])
            /\ UNCHANGED pending

Default ==
  /\ Running /\ made.arms < MaxArms
  /\ IF switches = <<>> \/ Top(switches).closed THEN Raise
     ELSE /\ switches' = [switches EXCEPT ![Len(switches)] = ClosedOff(@)]
          /\ EnterArm(NotCond(Top(switches).covered), [kind |-> "case"])
          /\ UNCHANGED pending

-----------------------------------------------------------------------------
(* _combined_condition, for a non-empty stack *)
Combined ==
  LET upTo[i \in 1..Len(active)] ==
        IF i = 1 THEN active[1].cond ELSE AndCond(upTo[i - 1], active[i].cond)
  IN upTo[Len(active)]

(* conditional_assign: a fresh constant is assigned. *)
Assign ==
  /\ ~raising /\ made.assigns < MaxAssigns /\ Total < MaxMade
  /\ LET val == Always({NewId})
         fallback == IF driver = NoDriver THEN Driver(<<>>, Always(Hold)) ELSE driver
     IN IF active # <<>> /\ driver = NoDriver /\ kind # "reg" THEN Raise
        ELSE /\ driver' = IF active = <<>> THEN Driver(<<>>, val)
                          ELSE Mux(Combined, val, fallback)
             /\ regions' = IF regions = <<>> THEN regions
                           ELSE [regions EXCEPT ![Len(regions)].captured = TRUE]
             /\ Made("assigns")
             /\ UNCHANGED <<active, pending, switches, open, scopes, kind, raising>>

-----------------------------------------------------------------------------
(* selection_topology.__enter__ *)
Region(mode) ==
  /\ Running /\ made.frames < MaxFrames
  /\ regions' = Append(regions, [id |-> NewId, mode |-> mode, captured |-> FALSE])
  /\ open' = Append(open, [kind |-> "region"])
  /\ Made("frames")
  /\ UNCHANGED <<active, pending, switches, scopes, driver, kind, raising>>

(* fresh_condition_scope *)
Fresh ==
  /\ Running /\ made.frames < MaxFrames
  /\ scopes' = Append(scopes, [active |-> active, pending |-> pending, open |-> open,
                              switches |-> switches, regions |-> regions])
  /\ active' = <<>> /\ pending' = NoneChain /\ switches' = <<>> /\ regions' = <<>>
  /\ open' = <<>>
  /\ Made("frames")
  /\ UNCHANGED <<driver, kind, raising>>

-----------------------------------------------------------------------------
(* The innermost context is left, normally or by an exception. *)
Leaving(what) == /\ open # <<>> /\ Top(open).kind = what
                 /\ open' = Pop(open)
                 /\ UNCHANGED <<scopes, kind, made>>

LeaveIf ==
  /\ Leaving("if")
  /\ active' = Pop(active)
  /\ pending' = [Top(open).chain EXCEPT
                   !.scope = ScopeOf(Pop(active), switches, regions)]
  /\ UNCHANGED <<switches, regions, driver, raising>>

LeaveElse ==
  /\ Leaving("else")
  /\ active' = Pop(active)
  /\ pending' = NoneChain
  /\ UNCHANGED <<switches, regions, driver, raising>>

LeaveCase ==
  /\ Leaving("case")
  /\ active' = Pop(active)
  /\ UNCHANGED <<pending, switches, regions, driver, raising>>

LeaveSwitch ==
  /\ Leaving("switch")
  /\ switches' = Pop(switches)
  /\ UNCHANGED <<active, pending, regions, driver, raising>>

(* selection_topology.__exit__: a captured cascade is rewritten, unless an *)
(* exception is passing; a mode it does not qualify for raises one.        *)
LeaveRegion ==
  /\ Leaving("region")
  /\ regions' = Pop(regions)
  /\ LET region == Top(regions)
         rewrites == region.captured /\ ~raising
     IN /\ driver' = IF rewrites /\ ~Refused(driver, region.mode)
                     THEN Emitted(driver, region.mode) ELSE driver
        /\ raising' = (raising \/ (rewrites /\ Refused(driver, region.mode)))
  /\ UNCHANGED <<active, pending, switches>>

LeaveFresh ==
  /\ open = <<>> /\ scopes # <<>>
  /\ LET saved == Top(scopes) IN
     /\ active' = saved.active /\ pending' = saved.pending
     /\ switches' = saved.switches /\ regions' = saved.regions
     /\ open' = saved.open
  /\ scopes' = Pop(scopes)
  /\ UNCHANGED <<driver, kind, raising, made>>

Leave == LeaveIf \/ LeaveElse \/ LeaveCase \/ LeaveSwitch \/ LeaveRegion \/ LeaveFresh

(* The program raises an exception of its own, or catches one. *)
Throw == Running /\ Raise

Catch == /\ raising
         /\ raising' = FALSE
         /\ UNCHANGED <<state, open, scopes, driver, kind, made>>

(* apply_selection_emission, once the program has been elaborated. *)
EmissionPass == /\ open = <<>> /\ scopes = <<>> /\ ~raising /\ driver # NoDriver
                /\ driver' = Emitted(driver, "auto")
                /\ UNCHANGED <<state, open, scopes, kind, raising, made>>

Next == \/ \E cond \in Guards : If(cond) \/ Elif(cond)
        \/ Else
        \/ \E s \in Switched : Switch(s)
        \/ Case \/ Default \/ Assign
        \/ \E mode \in RegionModes : Region(mode)
        \/ Fresh \/ Leave \/ Throw \/ Catch \/ EmissionPass

Spec == Init /\ [][Next]_controlVars
-----------------------------------------------------------------------------
(* A tracker that still tracks knows labels for all that is covered. *)
KnowsCovered(c) ==
  c.tracker.trackable =>
    IF c.tracker.sel = None THEN c.covered.on = {}
    ELSE c.covered.on \subseteq At(c.tracker.sel, c.tracker.seen)

IfChain == {c \in [covered : Condition, closed : BOOLEAN, tracker : Tracker,
                   scope : Seq(Seq(Nat))] : c.closed \/ KnowsCovered(c)}
SwitchState == {w \in [id : Nat, sel : Switched, covered : Condition,
                       closed : BOOLEAN, tracker : Tracker] :
                  w.closed \/ KnowsCovered(w)}
ActiveCondition == [id : Nat, cond : Condition]
RegionState == [id : Nat, mode : RegionModes, captured : BOOLEAN]
Context == [kind : {"if"}, chain : IfChain]
           \cup [kind : {"else", "case", "switch", "region"}]
SavedScope == [active : Seq(ActiveCondition), pending : IfChain, open : Seq(Context),
               switches : Seq(SwitchState), regions : Seq(RegionState)]

(* The stacks, the pending chain and every chain and switch put aside are  *)
(* well formed, and each of them is covered by what its tracker knows.     *)
ChainsKnown ==
  /\ active \in Seq(ActiveCondition)
  /\ pending \in IfChain
  /\ switches \in Seq(SwitchState)
  /\ regions \in Seq(RegionState)
  /\ open \in Seq(Context)
  /\ scopes \in Seq(SavedScope)
  /\ made \in [arms : Nat, assigns : Nat, frames : Nat]

Bits == SUBSET Nat

(* Every variable, the driver with its arms included, has its type. *)
TypeOK ==
  /\ ChainsKnown
  /\ kind \in {"reg", "wire"} /\ raising \in BOOLEAN
  /\ driver # NoDriver =>
       /\ \A i \in DOMAIN driver.pairs :
            driver.pairs[i] \in [sel : Condition, val : [Point -> Bits]]
       /\ driver.tail \in [Point -> Bits]

(* Whatever an arm of a chain or of a switch is entered for, no earlier    *)
(* arm of it covers: the gate is left out only where it would be dead.     *)
ArmTakesLeftovers ==
  Len(active') > Len(active) /\ scopes' = scopes =>
    LET new == Top(active').cond.on IN
    /\ Top(open').kind = "case" => new \cap Top(switches).covered.on = {}
    /\ Top(open').kind \in {"if", "else"} /\ pending' # NoneChain =>
         new \cap pending.covered.on = {}

FirstMatchOnly == [][ArmTakesLeftovers]_controlVars

-----------------------------------------------------------------------------
(***************************************************************************)
(* The program this state stands for.                                      *)
(***************************************************************************)
IsPrefixOf(s, t) == Len(s) <= Len(t) /\ SubSeq(t, 1, Len(s)) = s

Block(what, run, left) == [kind |-> what, run |-> run, left |-> left]

(* Which contexts push onto each of the stacks of a scope. *)
ArmKinds == {"if", "else", "case"}
Family   == <<ArmKinds, {"switch"}, {"region"}>>

Count(contexts, j, kinds) == Cardinality({i \in 1..j : contexts[i].kind \in kinds})

(* Where the first n active conditions hold. *)
Holding(acts, n) == {p \in Point : \A i \in 1..n : p \in acts[i].cond.on}

(* The open blocks: each executes where every condition up to it holds. *)
BlockAt(contexts, j, acts, sws) ==
  LET c   == contexts[j]
      run == Holding(acts, Count(contexts, j, ArmKinds))
  IN CASE c.kind = "if"     -> Block("arm", run, Point \ c.chain.covered.on)
       [] c.kind = "else"   -> Block("last", run, {})
       [] c.kind = "switch" -> Block("switch", run,
                                     Point \ sws[Count(contexts, j, {"switch"})].covered.on)
       [] OTHER             -> Block("plain", run, {})

BlocksOf(contexts, acts, sws) ==
  [j \in DOMAIN contexts |-> BlockAt(contexts, j, acts, sws)]

(* The pending chain counts while the block it was left in is still open. *)
ChainOf(pend, scope) ==
  IF pend # NoneChain /\ \A k \in 1..3 : IsPrefixOf(pend.scope[k], scope[k])
  THEN [live |-> TRUE, left |-> Point \ pend.covered.on,
        at |-> Len(pend.scope[1]) + Len(pend.scope[2]) + Len(pend.scope[3])]
  ELSE [live |-> FALSE, at |-> 0, left |-> {}]

Tests       == {c.on : c \in Guards \cup UNION {CaseTests(s) : s \in Switched}}
Values      == {{}} \cup {{n} : n \in 0..MaxArms + MaxAssigns + MaxFrames}
ValueNow    == [p \in Point |-> IF driver # NoDriver THEN Delivers(driver, p)
                               ELSE IF kind = "reg" THEN Hold ELSE {}]
OpenBlocks  == BlocksOf(open, active, switches)
OpenChain   == ChainOf(pending, CurrentScope)
OuterScopes == [k \in DOMAIN scopes |->
                  LET c == scopes[k] IN
                  [blocks |-> BlocksOf(c.open, c.active, c.switches),
                   chain  |-> ChainOf(c.pending,
                                      ScopeOf(c.active, c.switches, c.regions))]]

Program == INSTANCE FirstMatchProgram WITH
  Test <- Tests, Value <- Values, value <- ValueNow,
  blocks <- OpenBlocks, chain <- OpenChain, outer <- OuterScopes

(* The cascade of muxes a program leaves behind, and every rewrite of it,  *)
(* delivers at each valuation of the inputs what the program read from top *)
(* to bottom assigns there: an arm written later never takes a point from  *)
(* an earlier arm of its chain or switch, an elif or else continues a      *)
(* chain only in the block it was left in, a fresh scope neither sees nor  *)
(* leaves conditions, and exceptions caught on the way change none of it.  *)
RunsTheProgram == Program!Spec
=============================================================================
