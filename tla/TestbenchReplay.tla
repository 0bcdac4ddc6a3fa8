-------------------------- MODULE TestbenchReplay ---------------------------
(***************************************************************************)
(* verilog_testbench.py: TestbenchGenSimulator delegates a session to the  *)
(* simulator, records what is done to the design and what its output was,  *)
(* and emits a Verilog testbench that does the same to the emitted design  *)
(* and compares.  What the replay does with the events so far does not     *)
(* depend on later ones, so here the hardware runs beside the recording,   *)
(* one event after the other.                                              *)
(*                                                                         *)
(* The hardware's register has an asynchronous reset and no value before   *)
(* the first; the testbench starts with all inputs at 0.                   *)
(***************************************************************************)
EXTENDS SimulatorSession

CONSTANT Undefined     \* an undefined value

ASSUME XAssumption == Undefined \notin Bits

VARIABLES
  hw_x, hw_rst, hw_q,   \* the hardware's inputs and register
  fatal,                \* a comparison has failed and ended the replay
  disciplined           \* history: the session has started with a reset, and
                        \* no reset raised by set() waits for its step()

hardware == <<hw_x, hw_rst, hw_q>>
replayVars == <<sessionVars, hardware, fatal, disciplined>>

(* What the hardware's wire and output are worth. *)
HwWire == IF hw_q = Undefined THEN Undefined ELSE Logic[hw_x][hw_rst][hw_q]
HwOut(x, r, q) == IF q = Undefined THEN Undefined ELSE Out[Logic[x][r][q]]

(* fault: the snapshot is taken before the call *)
ExpectsBefore == Fresh["y"]
(* _snapshot(): the output the simulator shows after the call. *)
Expected == cached'["y"]
(* `if (y !== <expected>) $fatal`: an undefined output is a failure. *)
Check(compared) ==
  fatal' = (fatal \/ (compared /\ HwOut(hw_x', hw_rst', hw_q') # Expected))

(* An assignment of the testbench to the reset line: its rising edge       *)
(* resets the register.                                                    *)
DriveLine(v) ==
  /\ hw_rst' = v
  /\ hw_q' = IF hw_rst = 0 /\ v = 1 THEN InitQ ELSE hw_q
  /\ UNCHANGED hw_x

-----------------------------------------------------------------------------
(* set(): recorded without a delay and without a comparison. *)
RecordSetInput(v) ==
  /\ SetInput(v)
  /\ hw_x' = ToUnsigned(v, Width) /\ UNCHANGED <<hw_rst, hw_q>>
  /\ Check(FALSE) /\ UNCHANGED disciplined
RecordSetRegister(v) ==
  /\ SetRegister(v)
  /\ hw_q' = ToUnsigned(v, Width) /\ UNCHANGED <<hw_x, hw_rst>>
  /\ Check(FALSE)
  /\ disciplined' = (disciplined /\ in_rst = 0)
RecordSetResetLine(v) ==
  /\ SetResetLine(v)
  /\ DriveLine(ToUnsigned(v, 1))
  /\ Check(FALSE)
  /\ disciplined' = (disciplined /\ ~(in_rst = 0 /\ ToUnsigned(v, 1) = 1))

(* eval(): after a delay, the comparison. *)
RecordEval ==
  /\ Eval
  /\ UNCHANGED hardware
  /\ Check(TRUE) /\ UNCHANGED disciplined

(* step(): clock up, clock down, the comparison. *)
RecordStep ==
  /\ StepSession(TRUE)
  /\ hw_q' = IF hw_rst = 1 THEN InitQ ELSE HwWire
  /\ UNCHANGED <<hw_x, hw_rst>>
  /\ Check(TRUE)
  /\ disciplined' = (disciplined \/ in_rst = 1)

(* fault: lowering the line is not recorded *)
DropsLowering(v) == IF v = 1 THEN DriveLine(v) ELSE UNCHANGED hardware
ReplayReset(v) == DriveLine(v)
(* reset(): the line, and if it was raised a comparison.  An edge of the   *)
(* line makes both registers the init value.                               *)
RecordReset(asserted) ==
  /\ ResetSession(asserted, asserted = 1)
  /\ ReplayReset(asserted)
  /\ Check(asserted = 1)
  /\ disciplined' = (disciplined \/ (in_rst = 0 /\ asserted = 1))

(* The rest is delegated and records nothing. *)
Delegated ==
  /\ \/ \E s \in ReadSignal : Get(s)
     \/ \E s \in WatchedSignal : Watch(s)
     \/ PeekNext
     \/ ClearWatches
  /\ UNCHANGED <<hardware, fatal, disciplined>>

ReplayInit ==
  /\ SessionInit
  /\ hw_x = 0 /\ hw_rst = 0 /\ hw_q = Undefined
  /\ fatal = FALSE
  /\ disciplined = FALSE

ReplayNext ==
  \/ \E v \in Given :
        RecordSetInput(v) \/ RecordSetRegister(v) \/ RecordSetResetLine(v)
  \/ \E v \in {0, 1} : RecordReset(v)
  \/ RecordEval \/ RecordStep \/ Delegated

ReplaySpec == ReplayInit /\ [][ReplayNext]_replayVars

-----------------------------------------------------------------------------
(* A session that starts with a reset and writes no register while the     *)
(* line is up leaves simulator and hardware with the same register,        *)
(* whatever was set, evaluated, clocked and reset in what order; also when *)
(* set() raises the line, a step() takes the reset and set() lowers it.    *)
(* Only between that set() and the next reset in both are they apart.      *)
ReplayInStep ==
  /\ hw_x = in_x /\ hw_rst = in_rst
  /\ disciplined => hw_q = reg_q

(* The replay of such a session never reports a mismatch: the recorded     *)
(* expectation is what the hardware shows when the comparison comes, the   *)
(* one of the step that takes a reset raised by set() included.            *)
NoFalseAlarm == [][disciplined' /\ ~fatal => ~fatal']_replayVars
=============================================================================
