-------------------------- MODULE SimulationProofs --------------------------
(***************************************************************************)
(* Proofs about the simulator: no read of a session is stale and all       *)
(* watches show one moment (SimulatorSession); the replay of a recorded    *)
(* session keeps in step and reports no mismatch (TestbenchReplay); the    *)
(* array written one write after the other is the array the nonblocking    *)
(* assignments leave, and the capture registers agree (MemoryLockstep).    *)
(***************************************************************************)
EXTENDS MemoryLockstep, TestbenchReplay, FiniteRecursion, TLAPS

-----------------------------------------------------------------------------
(* The session.                                                            *)

(* A cache that holds nothing but what the signals are worth. *)
Right(c, x, r, q) ==
  /\ c = [s \in Signal |-> c[s]]
  /\ \A s \in Signal : c[s] \in {Unset, Values(x, r, q)[s]}

(* Nothing, or what was settled. *)
Moment == /\ watch_values = [s \in Signal |-> watch_values[s]]
          /\ settled = [s \in Signal |-> settled[s]]
          /\ WatchesOfOneMoment

StoresTyped == in_x \in Bits /\ in_rst \in {0, 1} /\ reg_q \in Bits

(* The inductive invariant of a session. *)
SessionInv == StoresTyped /\ Right(cached, in_x, in_rst, reg_q) /\ Moment

(* Keeping a right value keeps a cache right, and finds it there. *)
LEMMA KeepRight ==
  ASSUME NEW x, NEW r, NEW q, NEW c, Right(c, x, r, q), NEW s \in Signal,
         NEW v, v = Values(x, r, q)[s]
  PROVE  LET d == Keep(c, s, v)
         IN  /\ Right(d, x, r, q)
             /\ d[s] = v
             /\ \A t \in Signal \ {s} : d[t] = c[t]
<1> DEFINE d == Keep(c, s, v)
<1>1. CASE c[s] # Unset
  BY <1>1 DEF Keep, Right
<1>2. CASE c[s] = Unset
  <2>1. d = [c EXCEPT ![s] = v]
    BY <1>2 DEF Keep
  <2>2. d = [t \in Signal |-> IF t = s THEN v ELSE c[t]]
    BY <2>1 DEF Right
  <2> QED
    BY <2>2 DEF Right
<1> QED
  BY <1>1, <1>2

(* What each signal is worth. *)
LEMMA ValuesAre ==
  ASSUME NEW x, NEW r, NEW q
  PROVE  /\ Values(x, r, q)["x"] = x /\ Values(x, r, q)["rst"] = r
         /\ Values(x, r, q)["q"] = q /\ Values(x, r, q)["w"] = Logic[x][r][q]
         /\ Values(x, r, q)["y"] = Out[Logic[x][r][q]]
BY DEF Values, Signal

(* After the leaves are loaded they are there. *)
LEMMA LeavesRight ==
  ASSUME NEW x, NEW r, NEW q, NEW c, Right(c, x, r, q)
  PROVE  LET d == LoadLeaves(c, x, r, q)
         IN  Right(d, x, r, q) /\ d["x"] = x /\ d["rst"] = r /\ d["q"] = q
<1> DEFINE c1 == Keep(c, "x", x)
           c2 == Keep(c1, "rst", r)
           c3 == Keep(c2, "q", q)
<1>0. "x" \in Signal /\ "rst" \in Signal /\ "q" \in Signal
  BY DEF Signal
<1>1. Right(c1, x, r, q) /\ c1["x"] = x
  BY <1>0, KeepRight, ValuesAre
<1>2. Right(c2, x, r, q) /\ c2["x"] = x /\ c2["rst"] = r
  <2> HIDE DEF c1
  <2>1. Right(c2, x, r, q) /\ c2["rst"] = r /\ \A t \in Signal \ {"rst"} : c2[t] = c1[t]
    BY <1>0, <1>1, KeepRight, ValuesAre
  <2> HIDE DEF c2
  <2> QED
    BY <1>0, <1>1, <2>1
<1>3. Right(c3, x, r, q) /\ c3["x"] = x /\ c3["rst"] = r /\ c3["q"] = q
  <2> HIDE DEF c2
  <2>1. Right(c3, x, r, q) /\ c3["q"] = q /\ \A t \in Signal \ {"q"} : c3[t] = c2[t]
    BY <1>0, <1>2, KeepRight, ValuesAre
  <2> HIDE DEF c3
  <2> QED
    BY <1>0, <1>2, <2>1
<1> QED
  BY <1>3 DEF LoadLeaves

LEMMA WireRight ==
  ASSUME NEW x, NEW r, NEW q, NEW c, Right(c, x, r, q)
  PROVE  LET d == LoadWire(c, x, r, q)
         IN  Right(d, x, r, q) /\ d["w"] = Logic[x][r][q]
<1> USE DEF Signal
<1>1. CASE c["w"] # Unset
  BY <1>1, ValuesAre DEF LoadWire, Right
<1>2. CASE c["w"] = Unset
  <2> DEFINE l == LoadLeaves(c, x, r, q)
             d == [l EXCEPT !["w"] = Logic[l["x"]][l["rst"]][l["q"]]]
  <2>1. Right(l, x, r, q) /\ l["x"] = x /\ l["rst"] = r /\ l["q"] = q
    BY LeavesRight
  <2>2. LoadWire(c, x, r, q) = d
    BY <1>2 DEF LoadWire
  <2> HIDE DEF l
  <2>3. d = [t \in Signal |-> IF t = "w" THEN Logic[x][r][q] ELSE l[t]]
    BY <2>1 DEF Right
  <2>4. Right(d, x, r, q) /\ d["w"] = Logic[x][r][q]
    BY <2>1, <2>3, ValuesAre DEF Right
  <2> QED
    BY <2>2, <2>4
<1> QED
  BY <1>1, <1>2

LEMMA OutputRight ==
  ASSUME NEW x, NEW r, NEW q, NEW c, Right(c, x, r, q)
  PROVE  LET d == LoadOutput(c, x, r, q)
         IN  Right(d, x, r, q) /\ d["y"] = Out[Logic[x][r][q]]
<1> USE DEF Signal
<1>1. CASE c["y"] # Unset
  BY <1>1, ValuesAre DEF LoadOutput, Right
<1>2. CASE c["y"] = Unset
  <2> DEFINE l == LoadWire(c, x, r, q)
             d == [l EXCEPT !["y"] = Out[l["w"]]]
  <2>1. Right(l, x, r, q) /\ l["w"] = Logic[x][r][q]
    BY WireRight
  <2>2. LoadOutput(c, x, r, q) = d
    BY <1>2 DEF LoadOutput
  <2> HIDE DEF l
  <2>3. d = [t \in Signal |-> IF t = "y" THEN Out[Logic[x][r][q]] ELSE l[t]]
    BY <2>1 DEF Right
  <2>4. Right(d, x, r, q) /\ d["y"] = Out[Logic[x][r][q]]
    BY <2>1, <2>3, ValuesAre DEF Right
  <2> QED
    BY <2>2, <2>4
<1> QED
  BY <1>1, <1>2

(* _eval_signal_bits: loading a signal keeps a right cache right, and what *)
(* is read is what the signal is worth.                                    *)
LEMMA LoadRight ==
  ASSUME NEW x, NEW r, NEW q, NEW c, Right(c, x, r, q), NEW s \in Signal
  PROVE  /\ Right(Load(c, s, x, r, q), x, r, q)
         /\ Load(c, s, x, r, q)[s] = Values(x, r, q)[s]
<1>1. CASE s \in {"x", "rst", "q"}
  BY <1>1, KeepRight, ValuesAre DEF Load
<1>2. CASE s = "w"
  BY <1>2, WireRight, ValuesAre DEF Load
<1>3. CASE s = "y"
  BY <1>3, OutputRight, ValuesAre DEF Load
<1> QED
  BY <1>1, <1>2, <1>3 DEF Signal

(* A cache that was dropped is right, whatever the stores hold. *)
LEMMA EmptyRight ==
  ASSUME NEW x, NEW r, NEW q
  PROVE  Right(Empty, x, r, q)
BY DEF Right, Empty

(* What a settling call leaves in the caches, and the output if it was     *)
(* evaluated.                                                              *)
LEMMA EvaluatedRight ==
  ASSUME NEW x, NEW r, NEW q, NEW c, Right(c, x, r, q), NEW outputs
  PROVE  LET d == Evaluated(c, x, r, q, outputs)
         IN  /\ Right(d, x, r, q)
             /\ outputs => d["y"] = Out[Logic[x][r][q]]
BY WireRight, OutputRight DEF Evaluated

(* Every watch of a settling call shows what the call left. *)
LEMMA CapturedRight ==
  ASSUME NEW x, NEW r, NEW q, NEW c, Right(c, x, r, q), NEW s \in Signal
  PROVE  Captured(c, x, r, q)[s] \in {Unset, Values(x, r, q)[s]}
BY LoadRight, ValuesAre DEF Captured

(* What set() stores. *)
LEMMA UnsignedTyped ==
  ASSUME NEW v \in Int
  PROVE  ToUnsigned(v, Width) \in Bits /\ ToUnsigned(v, 1) \in {0, 1}
<1>1. v % 2 ^ Width \in 0 .. 2 ^ Width - 1
  BY PowerAssumption
<1>2. v % 2 ^ 1 \in {0, 1}
  OBVIOUS
<1> QED
  BY <1>1, <1>2 DEF ToUnsigned, Bits

(* The next value of the register is its driver's, stale or not. *)
LEMMA NextTyped ==
  ASSUME SessionInv
  PROVE  /\ NextQ = IF in_rst = 1 THEN InitQ ELSE Logic[in_x][in_rst][reg_q]
         /\ NextQ \in Bits
<1>1. LoadWire(cached, in_x, in_rst, reg_q)["w"] = Logic[in_x][in_rst][reg_q]
  BY WireRight DEF SessionInv
<1>2. Logic[in_x][in_rst][reg_q] \in Bits
  BY SessionAssumption DEF SessionInv, StoresTyped
<1> QED
  BY <1>1, <1>2, SessionAssumption DEF NextQ

(* A settling call: the stores it leaves are what the caches and the       *)
(* watches show.                                                           *)
LEMMA SettleRight ==
  ASSUME NEW x \in Bits, NEW r \in {0, 1}, NEW q \in Bits, NEW outputs \in BOOLEAN,
         Settle(x, r, q, outputs)
  PROVE  SessionInv' /\ (outputs => cached'["y"] = Fresh'["y"])
<1> DEFINE c == Evaluated(Invalidated(cached), x, r, q, outputs)
<1>1. Right(c, x, r, q) /\ (outputs => c["y"] = Out[Logic[x][r][q]])
  BY EmptyRight, EvaluatedRight DEF Invalidated
<1>2. in_x' = x /\ in_rst' = r /\ reg_q' = q /\ cached' = c
  BY DEF Settle
<1>3. watch_values' = Captured(c, x, r, q) /\ settled' = Values(x, r, q)
  BY DEF Settle
<1> HIDE DEF c
<1>4. (StoresTyped /\ Right(cached, in_x, in_rst, reg_q))'
  BY <1>1, <1>2 DEF StoresTyped, Right
<1>5. \A s \in Signal : Captured(c, x, r, q)[s] \in {Unset, Values(x, r, q)[s]}
  BY <1>1, CapturedRight
<1>6. WatchesOfOneMoment'
  BY <1>3, <1>5 DEF WatchesOfOneMoment
<1>7. watch_values' = [s \in Signal |-> watch_values'[s]]
  BY <1>3 DEF Captured
<1>8. settled' = [s \in Signal |-> settled'[s]]
  BY <1>3 DEF Values
<1>9. outputs => cached'["y"] = Fresh'["y"]
  BY <1>1, <1>2, ValuesAre DEF Fresh
<1> QED
  BY <1>4, <1>6, <1>7, <1>8, <1>9 DEF SessionInv, Moment

(* The calls that settle nothing: they leave the watches alone, and the    *)
(* cache right.                                                            *)
LEMMA OthersRight ==
  ASSUME SessionInv, StoresTyped', Right(cached, in_x, in_rst, reg_q)',
         UNCHANGED <<watch_values, settled>>
  PROVE  SessionInv'
BY DEF SessionInv, Moment, WatchesOfOneMoment

(* Every call of a session, whether it is made directly or by a recorder   *)
(* that reads the outputs.                                                 *)
SessionCall ==
  \/ \E v \in Given : SetInput(v) \/ SetRegister(v) \/ SetResetLine(v)
  \/ \E v \in {0, 1}, outputs \in BOOLEAN : ResetSession(v, outputs)
  \/ (\E s \in ReadSignal : Get(s)) \/ (\E s \in WatchedSignal : Watch(s))
  \/ Eval \/ (\E outputs \in BOOLEAN : StepSession(outputs)) \/ PeekNext \/ ClearWatches

LEMMA SessionInvInit == SessionInit => SessionInv
<1> SUFFICES ASSUME SessionInit
             PROVE  SessionInv
  OBVIOUS
<1>1. StoresTyped
  <2>1. 0 \in Bits
    BY PowerAssumption DEF Bits
  <2> QED
    BY <2>1, SessionAssumption DEF SessionInit, StoresTyped
<1>2. Right(cached, in_x, in_rst, reg_q)
  BY EmptyRight DEF SessionInit
<1>3. Moment
  BY DEF SessionInit, Moment, Empty, WatchesOfOneMoment
<1> QED
  BY <1>1, <1>2, <1>3 DEF SessionInv

LEMMA SessionInvStep == SessionInv /\ [SessionCall]_sessionVars => SessionInv'
<1> SUFFICES ASSUME SessionInv, [SessionCall]_sessionVars
             PROVE  SessionInv'
  OBVIOUS
<1>0. StoresTyped /\ Right(cached, in_x, in_rst, reg_q)
  BY DEF SessionInv
<1>1. ASSUME NEW v \in Given, SetInput(v) PROVE SessionInv'
  <2>1. StoresTyped'
    BY <1>0, <1>1, UnsignedTyped, SessionAssumption DEF SetInput, StoresTyped
  <2>2. cached' = Empty /\ UNCHANGED <<watch_values, settled>>
    BY <1>1 DEF SetInput, Invalidated
  <2> QED
    BY <2>1, <2>2, EmptyRight, OthersRight
<1>2. ASSUME NEW v \in Given, SetRegister(v) PROVE SessionInv'
  <2>1. StoresTyped'
    BY <1>0, <1>2, UnsignedTyped, SessionAssumption DEF SetRegister, StoresTyped
  <2>2. cached' = Empty /\ UNCHANGED <<watch_values, settled>>
    BY <1>2 DEF SetRegister, Invalidated
  <2> QED
    BY <2>1, <2>2, EmptyRight, OthersRight
<1>3. ASSUME NEW v \in Given, SetResetLine(v) PROVE SessionInv'
  <2>1. StoresTyped'
    BY <1>0, <1>3, UnsignedTyped, SessionAssumption DEF SetResetLine, StoresTyped
  <2>2. cached' = Empty /\ UNCHANGED <<watch_values, settled>>
    BY <1>3 DEF SetResetLine, Invalidated
  <2> QED
    BY <2>1, <2>2, EmptyRight, OthersRight
<1>4. ASSUME NEW v \in {0, 1}, NEW outputs \in BOOLEAN, ResetSession(v, outputs)
      PROVE  SessionInv'
  BY <1>0, <1>4, SettleRight, SessionAssumption DEF ResetSession, StoresTyped
<1>5. ASSUME NEW s \in ReadSignal, Get(s) PROVE SessionInv'
  <2>1. s \in Signal
    BY SessionAssumption DEF Signal
  <2>2. Right(cached', in_x, in_rst, reg_q)
    BY <1>0, <1>5, <2>1, LoadRight DEF Get
  <2> QED
    BY <1>0, <1>5, <2>2, OthersRight DEF Get, StoresTyped
<1>6. ASSUME NEW s \in WatchedSignal, Watch(s) PROVE SessionInv'
  BY <1>0, <1>6, OthersRight DEF Watch, StoresTyped
<1>7. CASE Eval
  BY <1>0, <1>7, SettleRight DEF Eval, StoresTyped
<1>8. ASSUME NEW outputs \in BOOLEAN, StepSession(outputs) PROVE SessionInv'
  BY <1>0, <1>8, NextTyped, SettleRight DEF StepSession, StoresTyped
<1>9. CASE PeekNext
  <2>1. Right(cached', in_x, in_rst, reg_q)
    BY <1>0, <1>9, WireRight DEF PeekNext
  <2> QED
    BY <1>0, <1>9, <2>1, OthersRight DEF PeekNext, StoresTyped
<1>10. CASE ClearWatches
  BY <1>0, <1>10 DEF ClearWatches, SessionInv, StoresTyped, Right, Moment, Empty,
                     WatchesOfOneMoment
<1>11. CASE UNCHANGED sessionVars
  BY <1>0, <1>11, OthersRight DEF sessionVars, StoresTyped
<1> QED
  BY <1>1, <1>2, <1>3, <1>4, <1>5, <1>6, <1>7, <1>8, <1>9, <1>10, <1>11
  DEF SessionCall

LEMMA SessionNextCalls == SessionNext => SessionCall
BY DEF SessionNext, SessionCall

(* Every call keeps the cache right and the watches of one moment.         *)
THEOREM SessionInvHolds == SessionSpec => []SessionInv
<1>1. SessionInv /\ [SessionNext]_sessionVars => SessionInv'
  BY SessionNextCalls, SessionInvStep
<1> QED
  BY <1>1, SessionInvInit, PTL DEF SessionSpec

(* No read is stale, whatever the design's functions and the order of the  *)
(* calls.                                                                  *)
THEOREM SessionNothingStale == SessionSpec => []NothingStale
<1>1. SessionInv => NothingStale
  BY DEF SessionInv, Right, NothingStale, Fresh
<1> QED
  BY <1>1, SessionInvHolds, PTL

(* All watches show the state the last settling call left.                 *)
THEOREM SessionWatchesOfOneMoment == SessionSpec => []WatchesOfOneMoment
<1>1. SessionInv => WatchesOfOneMoment
  BY DEF SessionInv, Moment
<1> QED
  BY <1>1, SessionInvHolds, PTL

-----------------------------------------------------------------------------
(* The replay.                                                             *)

(* A disciplined session holds the init value as long as the line is up:   *)
(* without it a second reset(), which is no edge to the hardware, could    *)
(* part the registers.                                                     *)
ReplayInv ==
  /\ SessionInv
  /\ ReplayInStep
  /\ disciplined /\ in_rst = 1 => reg_q = InitQ

LEMMA ReplayNextCalls == ReplayNext => SessionCall
<1> SUFFICES ASSUME ReplayNext
             PROVE  SessionCall
  OBVIOUS
<1>1. ASSUME NEW v \in Given,
             RecordSetInput(v) \/ RecordSetRegister(v) \/ RecordSetResetLine(v)
      PROVE  SessionCall
  BY <1>1 DEF RecordSetInput, RecordSetRegister, RecordSetResetLine, SessionCall
<1>2. ASSUME NEW v \in {0, 1}, RecordReset(v)
      PROVE  SessionCall
  <2>1. (v = 1) \in BOOLEAN
    OBVIOUS
  <2>2. ResetSession(v, v = 1)
    BY <1>2 DEF RecordReset
  <2> QED
    BY <2>1, <2>2 DEF SessionCall
<1>3. CASE RecordEval
  BY <1>3 DEF RecordEval, SessionCall
<1>4. CASE RecordStep
  BY <1>4 DEF RecordStep, SessionCall
<1>5. CASE Delegated
  BY <1>5 DEF Delegated, SessionCall
<1> QED
  BY <1>1, <1>2, <1>3, <1>4, <1>5 DEF ReplayNext

(* What the comparison of an event sees when both sides agree.             *)
LEMMA OutputsMatch ==
  ASSUME NEW x, NEW r, NEW q \in Bits
  PROVE  HwOut(x, r, q) = Values(x, r, q)["y"]
BY ValuesAre, XAssumption DEF HwOut

LEMMA ReplayInvInit == ReplayInit => ReplayInv
BY SessionInvInit DEF ReplayInit, SessionInit, ReplayInv, ReplayInStep

LEMMA ReplayInvStep == ReplayInv /\ [ReplayNext]_replayVars => ReplayInv'
<1> SUFFICES ASSUME ReplayInv, [ReplayNext]_replayVars
             PROVE  ReplayInv'
  OBVIOUS
<1> USE DEF ReplayInv, ReplayInStep
<1>0. SessionInv'
  BY ReplayNextCalls, SessionInvStep DEF replayVars
<1>1. ASSUME NEW v \in Given, RecordSetInput(v) PROVE ReplayInv'
  BY <1>0, <1>1 DEF RecordSetInput, SetInput
<1>2. ASSUME NEW v \in Given, RecordSetRegister(v) PROVE ReplayInv'
  <2>1. /\ in_x' = in_x /\ in_rst' = in_rst /\ hw_x' = hw_x /\ hw_rst' = hw_rst
        /\ reg_q' = ToUnsigned(v, Width) /\ hw_q' = ToUnsigned(v, Width)
    BY <1>2 DEF RecordSetRegister, SetRegister
  <2>2. disciplined' => in_rst = 0
    BY <1>2, Zenon DEF RecordSetRegister
  <2> QED
    BY <1>0, <2>1, <2>2
<1>3. ASSUME NEW v \in Given, RecordSetResetLine(v) PROVE ReplayInv'
  <2>1. PICK b : b = ToUnsigned(v, 1)
    OBVIOUS
  <2>2. /\ in_x' = in_x /\ in_rst' = b /\ reg_q' = reg_q
        /\ hw_x' = hw_x /\ hw_rst' = b
        /\ hw_q' = IF hw_rst = 0 /\ b = 1 THEN InitQ ELSE hw_q
    BY <1>3, <2>1 DEF RecordSetResetLine, SetResetLine, DriveLine
  <2>3. disciplined' = (disciplined /\ ~(in_rst = 0 /\ b = 1))
    BY <1>3, <2>1 DEF RecordSetResetLine
  <2>4. disciplined' => disciplined /\ ~(in_rst = 0 /\ b = 1)
    BY <2>3, Zenon
  <2>5. in_rst \in {0, 1}
    BY DEF SessionInv, StoresTyped
  <2> QED
    BY <1>0, <2>2, <2>4, <2>5
<1>4. ASSUME NEW v \in {0, 1}, RecordReset(v) PROVE ReplayInv'
  <2>1. /\ in_x' = in_x /\ in_rst' = v /\ reg_q' = IF v = 1 THEN InitQ ELSE reg_q
        /\ hw_x' = hw_x /\ hw_rst' = v
        /\ hw_q' = IF hw_rst = 0 /\ v = 1 THEN InitQ ELSE hw_q
        /\ disciplined' = (disciplined \/ (in_rst = 0 /\ v = 1))
    BY <1>4 DEF RecordReset, ResetSession, Settle, ReplayReset, DriveLine
  <2>2. in_rst \in {0, 1}
    BY DEF SessionInv, StoresTyped
  <2> QED
    BY <1>0, <2>1, <2>2
<1>5. CASE RecordEval
  BY <1>0, <1>5 DEF RecordEval, Eval, Settle, hardware
<1>6. CASE RecordStep
  <2>1. /\ in_x' = in_x /\ in_rst' = in_rst /\ reg_q' = NextQ
        /\ hw_x' = hw_x /\ hw_rst' = hw_rst
        /\ hw_q' = IF hw_rst = 1 THEN InitQ ELSE HwWire
        /\ disciplined' = (disciplined \/ in_rst = 1)
    BY <1>6 DEF RecordStep, StepSession, Settle
  <2>2. NextQ = IF in_rst = 1 THEN InitQ ELSE Logic[in_x][in_rst][reg_q]
    BY NextTyped
  <2>3. disciplined => HwWire = Logic[in_x][in_rst][reg_q]
    BY XAssumption DEF HwWire, SessionInv, StoresTyped
  <2> QED
    BY <1>0, <2>1, <2>2, <2>3
<1>7. CASE Delegated
  BY <1>0, <1>7 DEF Delegated, Get, Watch, PeekNext, ClearWatches, hardware
<1>8. CASE UNCHANGED replayVars
  BY <1>0, <1>8 DEF replayVars, sessionVars, hardware
<1> QED
  BY <1>1, <1>2, <1>3, <1>4, <1>5, <1>6, <1>7, <1>8 DEF ReplayNext

(* The strengthening of ReplayInStep holds of every recorded session.      *)
THEOREM ReplayInvHolds == ReplaySpec => []ReplayInv
BY ReplayInvInit, ReplayInvStep, PTL DEF ReplaySpec

(* A disciplined session leaves simulator and hardware with the same       *)
(* register.                                                               *)
THEOREM ReplayKeepsStep == ReplaySpec => []ReplayInStep
<1>1. ReplayInv => ReplayInStep
  BY DEF ReplayInv
<1> QED
  BY <1>1, ReplayInvHolds, PTL

(* A recorded session is a session: neither its reads nor its watches are  *)
(* stale either.                                                           *)
THEOREM ReplayNothingStale == ReplaySpec => [](NothingStale /\ WatchesOfOneMoment)
<1>1. ReplayInv => NothingStale /\ WatchesOfOneMoment
  BY DEF ReplayInv, SessionInv, Right, NothingStale, Fresh, Moment
<1> QED
  BY <1>1, ReplayInvHolds, PTL

(* The comparisons of the generated testbench agree with the hardware.     *)
LEMMA ReplayStepSilent ==
  ReplayInv /\ ReplayInv' /\ [ReplayNext]_replayVars
    => [disciplined' /\ ~fatal => ~fatal']_replayVars
<1> SUFFICES ASSUME ReplayInv, ReplayInv', [ReplayNext]_replayVars,
                    disciplined', ~fatal
             PROVE  ~fatal'
  OBVIOUS
<1>1. hw_x' = in_x' /\ hw_rst' = in_rst' /\ hw_q' = reg_q' /\ reg_q' \in Bits
  BY DEF ReplayInv, ReplayInStep, SessionInv, StoresTyped
<1>2. HwOut(hw_x', hw_rst', hw_q') = Fresh'["y"]
  BY <1>1, OutputsMatch DEF Fresh
<1>3. ASSUME NEW compared \in BOOLEAN, Check(compared),
             compared => cached'["y"] = Fresh'["y"]
      PROVE  ~fatal'
  BY <1>2, <1>3 DEF Check, Expected
<1>4. StoresTyped /\ NextQ \in Bits
  BY NextTyped DEF ReplayInv, SessionInv
<1>5. ASSUME NEW v \in Given,
             RecordSetInput(v) \/ RecordSetRegister(v) \/ RecordSetResetLine(v)
      PROVE  ~fatal'
  BY <1>3, <1>5 DEF RecordSetInput, RecordSetRegister, RecordSetResetLine
<1>6. ASSUME NEW v \in {0, 1}, RecordReset(v)
      PROVE  ~fatal'
  <2>1. ResetSession(v, v = 1) /\ Check(v = 1)
    BY <1>6 DEF RecordReset
  <2>2. Settle(in_x, v, IF v = 1 THEN InitQ ELSE reg_q, v = 1)
    BY <2>1 DEF ResetSession
  <2>3. (v = 1) => cached'["y"] = Fresh'["y"]
    BY <1>4, <2>2, SettleRight, SessionAssumption DEF StoresTyped
  <2> QED
    BY <1>3, <2>1, <2>3
<1>7. CASE RecordEval
  BY <1>3, <1>4, <1>7, SettleRight DEF RecordEval, Eval, StoresTyped
<1>8. CASE RecordStep
  BY <1>3, <1>4, <1>8, SettleRight DEF RecordStep, StepSession, StoresTyped
<1>9. CASE Delegated \/ UNCHANGED replayVars
  BY <1>9 DEF Delegated, replayVars
<1> QED
  BY <1>5, <1>6, <1>7, <1>8, <1>9 DEF ReplayNext

(* The replay of a disciplined session never reports a mismatch.           *)
THEOREM ReplayNoFalseAlarm == ReplaySpec => NoFalseAlarm
BY ReplayInvHolds, ReplayStepSilent, PTL DEF ReplaySpec, NoFalseAlarm

-----------------------------------------------------------------------------
(* The memory.                                                             *)

Words == [Cell -> Word]

MemoryTyped == /\ sim_mem \in Words
               /\ mem \in [Cell -> WordX]
               /\ rst \in BOOLEAN

(* The inductive invariant: the output needs the array.                    *)
MemInv == MemoryTyped /\ MemoriesAgree /\ OutputAgrees

LEMMA BlendTyped ==
  ASSUME NEW old \in Word, NEW w \in Write
  PROVE  /\ Blend(old, w) \in Word
         /\ \A c \in Chunk :
              Blend(old, w)[c] = IF c \in w.mask THEN w.data[c] ELSE old[c]
<1>1. w.data \in [Chunk -> Val]
  BY DEF Write, Word
<1> QED
  BY <1>1 DEF Blend, Word

(* The array before the writes of an edge, and after each of them. *)
IsHistory(f, writes) ==
  f = [p \in 0 .. Ports |->
         IF p = 0 THEN sim_mem
         ELSE IF writes[p].addr \in Cell
         THEN [f[p - 1] EXCEPT ![writes[p].addr] = Blend(@, writes[p])]
         ELSE f[p - 1]]

LEMMA HistoryExists ==
  ASSUME MemoryTyped, NEW writes \in [1 .. Ports -> Write]
  PROVE  \E f \in [0 .. Ports -> Words] : IsHistory(f, writes)
<1> DEFINE after(p, v) == IF writes[p].addr \in Cell
                          THEN [v EXCEPT ![writes[p].addr] = Blend(@, writes[p])]
                          ELSE v
           next == [p \in 1 .. Ports |-> [v \in Words |-> after(p, v)]]
<1>1. ASSUME NEW p \in 1 .. Ports, NEW v \in Words
      PROVE  after(p, v) \in Words
  <2>1. CASE writes[p].addr \in Cell
    <3>1. Blend(v[writes[p].addr], writes[p]) \in Word
      BY <2>1, BlendTyped DEF Words
    <3> QED
      BY <2>1, <3>1 DEF Words
  <2> QED
    BY <2>1
<1> HIDE DEF after
<1>2. next \in [1 .. Ports -> [Words -> Words]]
  BY <1>1
<1>3. \A p \in 1 .. Ports : \A v \in Words : next[p][v] = after(p, v)
  OBVIOUS
<1> HIDE DEF next
<1>4. Ports \in Nat /\ sim_mem \in Words
  BY MemoryAssumption DEF MemoryTyped
<1>5. PICK f \in [0 .. Ports -> Words] : IsRun(f, Ports, sim_mem, next)
  BY <1>2, <1>4, RecursionExists
<1>6. \A p \in 1 .. Ports : f[p] = after(p, f[p - 1])
  BY <1>3, <1>4, <1>5 DEF IsRun
<1>7. f = [p \in 0 .. Ports |-> IF p = 0 THEN sim_mem ELSE after(p, f[p - 1])]
  BY <1>4, <1>5, <1>6 DEF IsRun
<1>8. IsHistory(f, writes)
  BY <1>7 DEF IsHistory, after
<1> QED
  BY <1>8

(* The last of the first p writes to a chunk counts. *)
LastCounts(v, writes, p, a, c) ==
  \/ /\ \A l \in 1 .. p : ~(writes[l].addr = a /\ c \in writes[l].mask)
     /\ v[a][c] = sim_mem[a][c]
  \/ \E l \in 1 .. p :
       /\ writes[l].addr = a /\ c \in writes[l].mask
       /\ \A m \in l + 1 .. p : ~(writes[m].addr = a /\ c \in writes[m].mask)
       /\ v[a][c] = writes[l].data[c]

(* commit_next_state: one write after the other. *)
LEMMA CommitLastCounts ==
  ASSUME MemoryTyped, NEW writes \in [1 .. Ports -> Write]
  PROVE  /\ commit_next_state(writes) \in Words
         /\ \A a \in Cell, c \in Chunk :
              LastCounts(commit_next_state(writes), writes, Ports, a, c)
<1> DEFINE f == CHOOSE g : IsHistory(g, writes)
<1>1. commit_next_state(writes) = f[Ports]
  BY DEF commit_next_state, IsHistory
<1>2. IsHistory(f, writes)
  BY HistoryExists
<1> HIDE DEF f
<1>3. Ports \in Nat /\ f[0] = sim_mem /\ sim_mem \in Words
  BY <1>2, MemoryAssumption DEF IsHistory, MemoryTyped
<1>4. ASSUME NEW p \in 1 .. Ports
      PROVE  f[p] = IF writes[p].addr \in Cell
                    THEN [f[p - 1] EXCEPT ![writes[p].addr] = Blend(@, writes[p])]
                    ELSE f[p - 1]
  <2>1. p \in 0 .. Ports /\ p # 0
    BY <1>3
  <2> QED
    BY <1>2, <2>1 DEF IsHistory
<1> DEFINE Good(p) == /\ f[p] \in Words
                      /\ \A a \in Cell, c \in Chunk : LastCounts(f[p], writes, p, a, c)
           S == {p \in 0 .. Ports : Good(p)}
<1>5. Good(0)
  BY <1>3 DEF LastCounts
<1>6. ASSUME NEW q \in 0 .. Ports - 1, Good(q)
      PROVE  Good(q + 1)
  <2> DEFINE p == q + 1
             w == writes[p]
  <2>1. p \in 1 .. Ports /\ p - 1 = q
    BY <1>3
  <2>2. w \in Write
    BY <2>1
  <2>3. f[p] \in Words /\ \A a \in Cell, c \in Chunk :
          f[p][a][c] = IF w.addr = a /\ c \in w.mask THEN w.data[c] ELSE f[q][a][c]
    <3>1. CASE w.addr \in Cell
      <4>1. f[p] = [f[q] EXCEPT ![w.addr] = Blend(f[q][w.addr], w)]
        BY <1>4, <2>1, <3>1
      <4>2. f[q][w.addr] \in Word
        BY <1>6, <3>1 DEF Words
      <4>3. /\ Blend(f[q][w.addr], w) \in Word
            /\ \A c \in Chunk : Blend(f[q][w.addr], w)[c]
                 = IF c \in w.mask THEN w.data[c] ELSE f[q][w.addr][c]
        BY <2>2, <4>2, BlendTyped
      <4> QED
        BY <1>6, <3>1, <4>1, <4>3 DEF Words
    <3>2. CASE w.addr \notin Cell
      <4>1. f[p] = f[q]
        BY <1>4, <2>1, <3>2
      <4> QED
        BY <1>6, <3>2, <4>1
    <3> QED
      BY <3>1, <3>2
  <2>4. ASSUME NEW a \in Cell, NEW c \in Chunk
        PROVE  LastCounts(f[p], writes, p, a, c)
    <3>1. CASE w.addr = a /\ c \in w.mask
      <4>1. f[p][a][c] = w.data[c]
        BY <2>3, <3>1
      <4>2. \A m \in p + 1 .. p : FALSE
        BY <2>1
      <4> QED
        BY <2>1, <3>1, <4>1, <4>2 DEF LastCounts
    <3>2. CASE ~(w.addr = a /\ c \in w.mask)
      <4>1. f[p][a][c] = f[q][a][c]
        BY <2>3, <3>2
      <4>2. LastCounts(f[q], writes, q, a, c)
        BY <1>6
      <4>3. \A m \in 1 .. p : m \in 1 .. q \/ m = p
        BY <2>1
      <4>4. CASE /\ \A l \in 1 .. q : ~(writes[l].addr = a /\ c \in writes[l].mask)
                 /\ f[q][a][c] = sim_mem[a][c]
        BY <3>2, <4>1, <4>3, <4>4 DEF LastCounts
      <4>5. CASE \E l \in 1 .. q :
                   /\ writes[l].addr = a /\ c \in writes[l].mask
                   /\ \A m \in l + 1 .. q : ~(writes[m].addr = a /\ c \in writes[m].mask)
                   /\ f[q][a][c] = writes[l].data[c]
        <5>1. PICK l \in 1 .. q :
                /\ writes[l].addr = a /\ c \in writes[l].mask
                /\ \A m \in l + 1 .. q : ~(writes[m].addr = a /\ c \in writes[m].mask)
                /\ f[q][a][c] = writes[l].data[c]
          BY <4>5
        <5>2. l \in 1 .. p /\ \A m \in l + 1 .. p : m \in l + 1 .. q \/ m = p
          BY <2>1
        <5> QED
          BY <3>2, <4>1, <5>1, <5>2 DEF LastCounts
      <4> QED
        BY <4>2, <4>4, <4>5 DEF LastCounts
    <3> QED
      BY <3>1, <3>2
  <2> QED
    BY <2>3, <2>4
<1> HIDE DEF Good
<1>7. \A p \in 0 .. Ports : p \in S
  <2>1. 0 \in S
    BY <1>3, <1>5
  <2>2. \A p \in 0 .. Ports - 1 : p \in S => p + 1 \in S
    BY <1>3, <1>6
  <2> HIDE DEF S
  <2> QED
    BY <1>3, <2>1, <2>2, BoundedInduction
<1>8. Good(Ports)
  BY <1>3, <1>7
<1> QED
  BY <1>1, <1>8 DEF Good

LEMMA MaxIs ==
  ASSUME NEW T \in SUBSET Int, NEW l \in T, \A m \in T : m <= l
  PROVE  Max(T) = l
<1>1. Max(T) \in T /\ \A m \in T : Max(T) >= m
  BY DEF Max
<1>2. Max(T) \in Int /\ l \in Int /\ Max(T) >= l /\ Max(T) <= l
  BY <1>1
<1> QED
  BY <1>2

(* The nonblocking assignments: the last one to a chunk counts, too. *)
LEMMA EmitLastCounts ==
  ASSUME MemoryTyped, NEW writes \in [1 .. Ports -> Write],
         NEW a \in Cell, NEW c \in Chunk
  PROVE  /\ (\A l \in 1 .. Ports : ~(writes[l].addr = a /\ c \in writes[l].mask))
              => emit_write(writes)[a][c] = mem[a][c]
         /\ \A l \in 1 .. Ports :
              /\ writes[l].addr = a /\ c \in writes[l].mask
              /\ \A m \in l + 1 .. Ports : ~(writes[m].addr = a /\ c \in writes[m].mask)
              => emit_write(writes)[a][c] = writes[l].data[c]
<1> DEFINE hits == {p \in 1 .. Ports : writes[p].addr = a /\ c \in writes[p].mask}
<1>1. emit_write(writes)[a][c] = IF hits = {} THEN mem[a][c] ELSE writes[Max(hits)].data[c]
  BY DEF emit_write
<1>2. ASSUME NEW l \in 1 .. Ports, writes[l].addr = a, c \in writes[l].mask,
             \A m \in l + 1 .. Ports : ~(writes[m].addr = a /\ c \in writes[m].mask)
      PROVE  emit_write(writes)[a][c] = writes[l].data[c]
  <2>1. l \in hits /\ hits \in SUBSET Int
    BY <1>2
  <2>2. ASSUME NEW m \in hits
        PROVE  m <= l
    <3>1. m \notin l + 1 .. Ports
      BY <1>2
    <3> QED
      BY <3>1, MemoryAssumption
  <2> HIDE DEF hits
  <2>3. Max(hits) = l
    BY <2>1, <2>2, MaxIs
  <2> QED
    BY <1>1, <2>1, <2>3
<1>3. ASSUME \A l \in 1 .. Ports : ~(writes[l].addr = a /\ c \in writes[l].mask)
      PROVE  emit_write(writes)[a][c] = mem[a][c]
  BY <1>1, <1>3
<1> QED
  BY <1>2, <1>3

(* "Last write wins": wherever the two arrays agreed before the edge they  *)
(* agree after it, and a chunk that was written is defined in both.        *)
LEMMA WritesAgree ==
  ASSUME MemoryTyped, MemoriesAgree, NEW writes \in [1 .. Ports -> Write], NEW a \in Cell
  PROVE  Predicts(commit_next_state(writes)[a], emit_write(writes)[a])
<1> SUFFICES ASSUME NEW c \in Chunk, emit_write(writes)[a][c] # X
             PROVE  commit_next_state(writes)[a][c] = emit_write(writes)[a][c]
  BY DEF Predicts
<1>1. LastCounts(commit_next_state(writes), writes, Ports, a, c)
  BY CommitLastCounts
<1>2. CASE /\ \A l \in 1 .. Ports : ~(writes[l].addr = a /\ c \in writes[l].mask)
           /\ commit_next_state(writes)[a][c] = sim_mem[a][c]
  <2>1. emit_write(writes)[a][c] = mem[a][c]
    BY <1>2, EmitLastCounts
  <2> QED
    BY <1>2, <2>1 DEF MemoriesAgree, Predicts
<1>3. CASE \E l \in 1 .. Ports :
             /\ writes[l].addr = a /\ c \in writes[l].mask
             /\ \A m \in l + 1 .. Ports : ~(writes[m].addr = a /\ c \in writes[m].mask)
             /\ commit_next_state(writes)[a][c] = writes[l].data[c]
  BY <1>3, EmitLastCounts
<1> QED
  BY <1>1, <1>2, <1>3 DEF LastCounts

LEMMA EmitTyped ==
  ASSUME MemoryTyped, NEW writes \in [1 .. Ports -> Write]
  PROVE  emit_write(writes) \in [Cell -> WordX]
<1> SUFFICES ASSUME NEW a \in Cell, NEW c \in Chunk
             PROVE  emit_write(writes)[a][c] \in Val \cup {X}
  BY DEF emit_write, WordX
<1>0. \A l \in 1 .. Ports :
        /\ writes[l].addr = a /\ c \in writes[l].mask
        /\ \A m \in l + 1 .. Ports : ~(writes[m].addr = a /\ c \in writes[m].mask)
        => emit_write(writes)[a][c] = writes[l].data[c]
  BY EmitLastCounts
<1>1. mem[a][c] \in Val \cup {X}
  BY DEF MemoryTyped, WordX
<1>2. \A l \in 1 .. Ports : writes[l].data[c] \in Val
  BY DEF Write, Word
<1>3. CASE \A l \in 1 .. Ports : ~(writes[l].addr = a /\ c \in writes[l].mask)
  BY <1>1, <1>3, EmitLastCounts
<1>4. CASE \E l \in 1 .. Ports :
             /\ writes[l].addr = a /\ c \in writes[l].mask
             /\ \A m \in l + 1 .. Ports : ~(writes[m].addr = a /\ c \in writes[m].mask)
  <2>1. PICK l \in 1 .. Ports :
          /\ writes[l].addr = a /\ c \in writes[l].mask
          /\ \A m \in l + 1 .. Ports : ~(writes[m].addr = a /\ c \in writes[m].mask)
    BY <1>4
  <2>2. emit_write(writes)[a][c] = writes[l].data[c]
    BY <1>0, <2>1
  <2>3. writes[l].data[c] \in Val
    BY <1>2
  <2> QED
    BY <2>2, <2>3
<1>5. LastCounts(commit_next_state(writes), writes, Ports, a, c)
  BY CommitLastCounts
<1> QED
  BY <1>3, <1>4, <1>5 DEF LastCounts

LEMMA MemInvInit == MemInit => MemInv
<1> SUFFICES ASSUME MemInit
             PROVE  MemInv
  OBVIOUS
<1>1. Cleared \in Word /\ Cleared \in WordX /\ Unknown \in WordX
  BY MemoryAssumption DEF Cleared, Unknown, Word, WordX
<1>2. MemoryTyped
  BY <1>1 DEF MemInit, MemoryTyped, Words
<1>3. MemoriesAgree
  BY DEF MemInit, MemoriesAgree, Predicts, Cleared, Unknown
<1> QED
  BY <1>2, <1>3 DEF MemInit, MemInv, OutputAgrees

LEMMA MemInvStep == MemInv /\ [MemNext]_memVars => MemInv'
<1> SUFFICES ASSUME MemInv, [MemNext]_memVars
             PROVE  MemInv'
  OBVIOUS
<1>0. MemoryTyped /\ MemoriesAgree /\ OutputAgrees
  BY DEF MemInv
<1>1. ASSUME NEW arm \in {FALSE, Armed}, NEW writes \in [1 .. Ports -> Write],
             NEW en \in BOOLEAN, NEW a \in Addr, Step(arm, writes, en, a)
      PROVE  MemInv'
  <2>1. Cleared \in Word /\ Cleared \in WordX
    BY MemoryAssumption DEF Cleared, Word, WordX
  <2>2. MemoryTyped'
    <3>1. sim_mem' \in Words
      <4>1. CASE arm
        BY <1>1, <2>1, <4>1 DEF Step, Words
      <4>2. CASE ~arm
        BY <1>0, <1>1, <4>2, CommitLastCounts DEF Step
      <4> QED
        BY <4>1, <4>2
    <3>2. mem' \in [Cell -> WordX]
      <4>1. CASE arm
        BY <1>1, <2>1, <4>1 DEF Step
      <4>2. CASE ~arm
        BY <1>0, <1>1, <4>2, EmitTyped DEF Step
      <4> QED
        BY <4>1, <4>2
    <3> QED
      BY <1>0, <1>1, <3>1, <3>2 DEF MemoryTyped, Step
  <2>3. MemoriesAgree'
    <3>1. CASE arm
      BY <1>1, <3>1 DEF Step, MemoriesAgree, Predicts
    <3>2. CASE ~arm
      <4>1. sim_mem' = commit_next_state(writes) /\ mem' = emit_write(writes)
        BY <1>1, <3>2 DEF Step
      <4>2. \A x \in Cell : Predicts(commit_next_state(writes)[x], emit_write(writes)[x])
        BY <1>0, WritesAgree
      <4> QED
        BY <4>1, <4>2 DEF MemoriesAgree
    <3> QED
      BY <3>1, <3>2
  <2>4. OutputAgrees'
    <3> SUFFICES ASSUME synced'
                 PROVE  Predicts(sim_rd', rd')
      BY DEF OutputAgrees
    <3>1. ~rst /\ (synced \/ en)
      BY <1>1, Zenon DEF Step
    <3>2. CASE en
      <4>1. sim_rd' = sim_read(a) /\ rd' = rtl_read(a)
        BY <1>1, <3>1, <3>2 DEF Step, sim_capture
      <4>2. Predicts(sim_read(a), rtl_read(a))
        BY <1>0 DEF MemoriesAgree, Predicts, sim_read, rtl_read, Unknown
      <4> QED
        BY <4>1, <4>2
    <3>3. CASE ~en
      <4>1. sim_rd' = sim_rd /\ rd' = rd
        BY <1>1, <3>1, <3>3 DEF Step, sim_capture
      <4> QED
        BY <1>0, <3>1, <3>3, <4>1 DEF OutputAgrees
    <3> QED
      BY <3>2, <3>3
  <2> QED
    BY <2>2, <2>3, <2>4 DEF MemInv
<1>2. CASE Reset
  BY <1>0, <1>2 DEF Reset, MemInv, MemoryTyped, MemoriesAgree, OutputAgrees
<1>3. ASSUME NEW level \in BOOLEAN, DriveReset(level)
      PROVE  MemInv'
  BY <1>0, <1>3 DEF DriveReset, MemInv, MemoryTyped, MemoriesAgree, OutputAgrees
<1>4. CASE UNCHANGED memVars
  BY <1>0, <1>4 DEF memVars, MemInv, MemoryTyped, MemoriesAgree, OutputAgrees
<1> QED
  BY <1>1, <1>2, <1>3, <1>4 DEF MemNext

(* What the captures and both arrays hold of each other is invariant.      *)
THEOREM MemInvHolds == MemSpec => []MemInv
BY MemInvInit, MemInvStep, PTL DEF MemSpec

(* For any number of masked ports, any depth, out-of-range addresses and a *)
(* reset arm, the two arrays agree wherever the Verilog one is defined.    *)
THEOREM LastWriteWins == MemSpec => []MemoriesAgree
<1>1. MemInv => MemoriesAgree
  BY DEF MemInv
<1> QED
  BY <1>1, MemInvHolds, PTL

(* Both capture registers sample the word before the edge. *)
THEOREM CapturesAgree == MemSpec => []OutputAgrees
<1>1. MemInv => OutputAgrees
  BY DEF MemInv
<1> QED
  BY <1>1, MemInvHolds, PTL
=============================================================================
