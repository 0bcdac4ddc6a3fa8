-------------------------- MODULE SimulatorSession --------------------------
(***************************************************************************)
(* simulator.py: a session with the cycle simulator.  Combinational values *)
(* are evaluated on demand and cached; every call that changes what they   *)
(* depend on must drop the caches before anything reads them again.        *)
(*                                                                         *)
(* The design has an input x, the reset line rst, a register q, a wire     *)
(* w = Logic[x, rst, q], which is also the register's next value, and an   *)
(* output y = Out[w].  Logic and Out are any functions.                    *)
(***************************************************************************)
EXTENDS Integers

CONSTANTS
  Width,     \* width of x, q, w and y; rst has one bit
  Given,     \* the integers a session passes to set()
  InitQ,     \* the register's init value
  Logic,     \* the driver of w, from x, rst and q
  Out,       \* the driver of y, from w
  Unset,      \* no value
  ReadSignal,      \* the signals a session reads
  WatchedSignal    \* the signals a session may watch

Bits == 0 .. 2 ^ Width - 1

ASSUME SessionAssumption ==
  /\ Width \in Nat \ {0} /\ Given \subseteq Int
  /\ InitQ \in Bits /\ Unset \notin Bits
  /\ Logic \in [Bits -> [{0, 1} -> [Bits -> Bits]]]
  /\ Out \in [Bits -> Bits]
  /\ ReadSignal \subseteq {"x", "rst", "q", "w", "y"}
  /\ WatchedSignal \subseteq {"x", "rst", "q", "w", "y"}
(* A fact of arithmetic the provers do not have. *)
ASSUME PowerAssumption == 2 ^ Width \in Nat \ {0}

VARIABLES
  in_x, in_rst, reg_q,   \* _in and _reg
  cached,                \* _cache_sig, with the evaluator's own cache
  watches,               \* the signals watched
  watch_values,          \* what get_watch() answers
  settled                \* history: all values after the last settling call

sessionVars == <<in_x, in_rst, reg_q, cached, watches, watch_values, settled>>

Signal == {"x", "rst", "q", "w", "y"}
Empty  == [s \in Signal |-> Unset]

-----------------------------------------------------------------------------
(* _eval_signal_bits: a signal's value goes into the cache together with   *)
(* those its driver reads, and a cached operand is not evaluated again.    *)
Keep(c, s, v) == IF c[s] # Unset THEN c ELSE [c EXCEPT ![s] = v]
LoadLeaves(c, x, r, q) == Keep(Keep(Keep(c, "x", x), "rst", r), "q", q)
LoadWire(c, x, r, q) ==
  IF c["w"] # Unset THEN c
  ELSE LET d == LoadLeaves(c, x, r, q)
       IN  [d EXCEPT !["w"] = Logic[d["x"]][d["rst"]][d["q"]]]
LoadOutput(c, x, r, q) ==
  IF c["y"] # Unset THEN c
  ELSE LET d == LoadWire(c, x, r, q) IN [d EXCEPT !["y"] = Out[d["w"]]]

Load(c, s, x, r, q) ==
  IF s = "x" THEN Keep(c, "x", x)
  ELSE IF s = "rst" THEN Keep(c, "rst", r)
  ELSE IF s = "q" THEN Keep(c, "q", q)
  ELSE IF s = "w" THEN LoadWire(c, x, r, q)
  ELSE LoadOutput(c, x, r, q)

(* What the signals are worth, caches or not. *)
Values(x, r, q) ==
  [s \in Signal |->
     IF s = "x" THEN x ELSE IF s = "rst" THEN r ELSE IF s = "q" THEN q
     ELSE IF s = "w" THEN Logic[x][r][q] ELSE Out[Logic[x][r][q]]]
Fresh == Values(in_x, in_rst, reg_q)

(* fault: the watches are taken before the call's effect *)
CapturedBefore(c, x, r, q) ==
  [s \in Signal |-> IF s \in watches THEN Fresh[s] ELSE Unset]
(* A watch of an input or a register reads the stored value, one of a      *)
(* combinational signal the evaluator.                                     *)
Captured(c, x, r, q) ==
  [s \in Signal |->
     IF s \notin watches THEN Unset
     ELSE IF s = "x" THEN x ELSE IF s = "rst" THEN r ELSE IF s = "q" THEN q
     ELSE Load(c, s, x, r, q)[s]]

(* fault: the caches survive the call *)
KeepCaches(c) == c
(* _invalidate() *)
Invalidated(c) == Empty

(* _to_unsigned() *)
ToUnsigned(v, w) == v % 2 ^ w

(* The caches a settling call leaves: the watched signals are evaluated,   *)
(* and the outputs by eval() and by a recorder that reads them (outputs).  *)
Evaluated(c, x, r, q, outputs) ==
  IF outputs \/ "y" \in watches THEN LoadOutput(c, x, r, q)
  ELSE IF "w" \in watches THEN LoadWire(c, x, r, q)
  ELSE c

(* The end of eval(), step() and the reset calls: values stored, caches    *)
(* dropped, watches captured.                                              *)
Settle(x, r, q, outputs) ==
  LET c == Evaluated(Invalidated(cached), x, r, q, outputs)
  IN  /\ in_x' = x /\ in_rst' = r /\ reg_q' = q
      /\ cached' = c
      /\ watch_values' = Captured(c, x, r, q)
      /\ settled' = Values(x, r, q)
      /\ UNCHANGED watches

-----------------------------------------------------------------------------
(* set() stores the value and drops the caches; it captures no watch. *)
SetInput(v) ==
  /\ in_x' = ToUnsigned(v, Width)
  /\ cached' = Invalidated(cached)
  /\ UNCHANGED <<in_rst, reg_q, watches, watch_values, settled>>
SetResetLine(v) ==
  /\ in_rst' = ToUnsigned(v, 1)
  /\ cached' = Invalidated(cached)
  /\ UNCHANGED <<in_x, reg_q, watches, watch_values, settled>>
SetRegister(v) ==
  /\ reg_q' = ToUnsigned(v, Width)
  /\ cached' = Invalidated(cached)
  /\ UNCHANGED <<in_x, in_rst, watches, watch_values, settled>>

(* get() and peek() of one signal; peek() of a register reads the store. *)
Get(s) ==
  /\ cached' = Load(cached, s, in_x, in_rst, reg_q)
  /\ UNCHANGED <<in_x, in_rst, reg_q, watches, watch_values, settled>>

(* eval() drops the caches and evaluates the outputs. *)
Eval == Settle(in_x, in_rst, reg_q, TRUE)

(* peek_next(), _compute_next_state(): under reset the init value, else    *)
(* the register's driver, from whatever is cached.                         *)
NextQ == IF in_rst = 1 THEN InitQ
         ELSE LoadWire(cached, in_x, in_rst, reg_q)["w"]
PeekNext ==
  /\ cached' = IF in_rst = 1 THEN cached ELSE LoadWire(cached, in_x, in_rst, reg_q)
  /\ UNCHANGED <<in_x, in_rst, reg_q, watches, watch_values, settled>>

(* One clock cycle: next state from the present one, commit, settle. *)
StepSession(outputs) == Settle(in_x, in_rst, NextQ, outputs)

(* reset() raises the line and loads the init value at once; lowering it,  *)
(* like deassert_reset(), touches the line only.                           *)
ResetSession(asserted, outputs) ==
  Settle(in_x, asserted, IF asserted = 1 THEN InitQ ELSE reg_q, outputs)

Watch(s) ==
  /\ watches' = watches \cup {s}
  /\ UNCHANGED <<in_x, in_rst, reg_q, cached, watch_values, settled>>
ClearWatches ==
  /\ watches' = {}
  /\ watch_values' = Empty
  /\ UNCHANGED <<in_x, in_rst, reg_q, cached, settled>>

SessionInit ==
  /\ in_x = 0 /\ in_rst = 0 /\ reg_q = InitQ
  /\ cached = Empty
  /\ watches = {} /\ watch_values = Empty
  /\ settled = Empty

SessionNext ==
  \/ \E v \in Given : SetInput(v) \/ SetRegister(v) \/ SetResetLine(v)
  \/ \E v \in {0, 1} : ResetSession(v, FALSE)
  \/ (\E s \in ReadSignal : Get(s)) \/ (\E s \in WatchedSignal : Watch(s))
  \/ Eval \/ StepSession(FALSE) \/ PeekNext \/ ClearWatches

SessionSpec == SessionInit /\ [][SessionNext]_sessionVars

-----------------------------------------------------------------------------
(* No read is stale: whatever calls came before, a cached value is the one *)
(* the stored inputs and registers give, the reset line among them.        *)
NothingStale == \A s \in Signal : cached[s] \in {Unset, Fresh[s]}

(* All watches show one moment: the state the last settling call left (not *)
(* the one before its edge, and not what a set() made of it since).        *)
WatchesOfOneMoment ==
  \A s \in Signal : watch_values[s] \in {Unset, settled[s]}
=============================================================================
