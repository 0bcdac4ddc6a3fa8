---------------------------- MODULE OracleFreeze ----------------------------
(***************************************************************************)
(* The acceptance oracle of one slot of the design DB and the programs     *)
(* that choose, freeze and use it: store.register_slot (the default),      *)
(* spire db set-verification (cli.py), freeze_sim_verification and         *)
(* run_frozen_tb (verify_sim.py), and the gate of insert.py.               *)
(*                                                                         *)
(* The oracle lives in three files of the slot: verification.json names    *)
(* the method, vectors.dat holds the recorded trace, tb.sv the testbench.  *)
(* Nothing locks them: every program reads, decides and writes in steps of *)
(* its own.  What a trace contains is abstracted to its identity; the text *)
(* of tb.sv depends on the slot's ports only, so it is present or not.     *)
(***************************************************************************)
EXTENDS Naturals, FiniteSets

CONSTANTS
  Admin,       \* programs that register the slot or choose its oracle
  Inserter,    \* programs that insert a design
  Trace,       \* recorded traces: one per stimulus
  NoTrace,     \* no trace
  Sequential,  \* whether the slot's golden has registers
  InTurns,     \* whether the administrators are run one at a time
  MaxBegun     \* bound: calls of each program

Program == Admin \cup Inserter

ASSUME OracleAssumption ==
  /\ NoTrace \notin Trace
  /\ Trace \cap {"unverified", "cec"} = {}
  /\ Admin \cap Inserter = {}
  /\ Sequential \in BOOLEAN /\ InTurns \in BOOLEAN
  /\ MaxBegun \in Nat

VARIABLES
  recorded,  \* whether spec.json exists
  oracle,    \* verification.json: "unverified" (absent), "cec", or the trace
             \* a sim freeze was made from
  vectors,   \* vectors.dat: a trace, or NoTrace
  tb,        \* whether tb.sv exists
  admitted,  \* the yardsticks the admitted designs were measured with
  progress,  \* per program: its next step
  mine,      \* per program: the trace it recorded, or the yardstick it used
  started    \* per program: calls begun

slot == <<recorded, oracle, vectors, tb, admitted>>
oracleVars == <<recorded, oracle, vectors, tb, admitted, progress, mine, started>>

Frozen == oracle \in Trace

-----------------------------------------------------------------------------
Proceed(p, step) == progress' = [progress EXCEPT ![p] = step]

(* A program starts a call; administrators may be restricted to turns. *)
Start(p, step) ==
  /\ progress[p] = "idle" /\ started[p] < MaxBegun
  /\ InTurns /\ p \in Admin => \A q \in Admin : progress[q] = "idle"
  /\ Proceed(p, step)
  /\ started' = [started EXCEPT ![p] = @ + 1]

(* The call ends with an error, or its process is killed: whatever it has  *)
(* written stays.                                                          *)
Abort(p) ==
  /\ progress[p] # "idle"
  /\ Proceed(p, "idle")
  /\ UNCHANGED <<slot, mine, started>>

-----------------------------------------------------------------------------
(* register_slot writes spec.json, then looks whether a verification       *)
(* exists, and then writes the default: CEC for a combinational slot,      *)
(* nothing for a sequential one.                                           *)
RegisterSlot(p) ==
  /\ Start(p, "reg_check")
  /\ recorded' = TRUE
  /\ UNCHANGED <<oracle, vectors, tb, admitted, mine>>

RegisterCheck(p) ==
  /\ progress[p] = "reg_check"
  /\ Proceed(p, IF oracle = "unverified" /\ ~Sequential THEN "write_cec" ELSE "idle")
  /\ UNCHANGED <<slot, mine, started>>

(* set-verification --cec: refused for a sequential slot and when a sim    *)
(* verification is frozen.                                                 *)
ChooseCec(p) ==
  /\ recorded /\ ~Sequential /\ ~Frozen
  /\ Start(p, "write_cec")
  /\ UNCHANGED <<slot, mine>>

WriteCec(p) ==
  /\ progress[p] = "write_cec"
  /\ Proceed(p, "idle")
  /\ oracle' = "cec"
  /\ UNCHANGED <<recorded, vectors, tb, admitted, mine, started>>

-----------------------------------------------------------------------------
(* fault: a frozen slot is frozen again *)
AnySlot == recorded
(* freeze_sim_verification refuses a slot with a sim verification ... *)
MayFreeze == recorded /\ ~Frozen

(* ... else simulates the golden to record a trace, ... *)
Freeze(p, t) ==
  /\ MayFreeze
  /\ Start(p, "write_vectors")
  /\ mine' = [mine EXCEPT ![p] = t]
  /\ UNCHANGED slot

(* ... and writes the trace, ... *)
WriteVectors(p) ==
  /\ progress[p] = "write_vectors"
  /\ Proceed(p, "write_tb")
  /\ vectors' = mine[p]
  /\ UNCHANGED <<recorded, oracle, tb, admitted, mine, started>>

(* fault: verification.json is written before the testbench *)
JsonFirst(p) ==
  /\ progress[p] = "write_tb"
  /\ Proceed(p, "write_json")
  /\ oracle' = mine[p]
  /\ UNCHANGED <<recorded, vectors, tb, admitted, mine, started>>
(* ... the testbench, ... *)
WriteTb(p) ==
  /\ progress[p] = "write_tb"
  /\ Proceed(p, "write_json")
  /\ tb' = TRUE
  /\ UNCHANGED <<recorded, oracle, vectors, admitted, mine, started>>

(* ... and verification.json last. *)
WriteJson(p) ==
  /\ progress[p] = "write_json"
  /\ Proceed(p, "idle")
  /\ oracle' = mine[p]
  /\ UNCHANGED <<recorded, vectors, tb, admitted, mine, started>>

-----------------------------------------------------------------------------
(* insert_design resolves the slot's method when it starts; an unverified  *)
(* slot, or CEC on a sequential one, raises.                               *)
ResolveVerification(p) ==
  /\ recorded
  /\ \/ oracle = "cec" /\ ~Sequential /\ Start(p, "gate_cec")
     \/ Frozen /\ Start(p, "gate_sim")
  /\ UNCHANGED <<slot, mine>>

(* fault: any trace will do *)
AnyTrace == Trace
(* The trace the gate copies when it runs. *)
GateTrace == {vectors} \ {NoTrace}

(* _run_gate measures the candidate with the method resolved earlier, and  *)
(* with the files as they are now; a candidate that fails, or a slot       *)
(* without tb.sv or vectors.dat, raises.                                   *)
RunOracle(p) ==
  /\ \/ progress[p] = "gate_cec" /\ mine' = [mine EXCEPT ![p] = "cec"]
     \/ /\ progress[p] = "gate_sim" /\ tb
        /\ \E t \in GateTrace : mine' = [mine EXCEPT ![p] = t]
  /\ Proceed(p, "admit")
  /\ UNCHANGED <<slot, started>>

AdmitDesign(p) ==
  /\ progress[p] = "admit"
  /\ Proceed(p, "idle")
  /\ admitted' = admitted \cup {mine[p]}
  /\ UNCHANGED <<recorded, oracle, vectors, tb, mine, started>>

-----------------------------------------------------------------------------
OracleInit ==
  /\ recorded = FALSE
  /\ oracle = "unverified"
  /\ vectors = NoTrace
  /\ tb = FALSE
  /\ admitted = {}
  /\ progress = [p \in Program |-> "idle"]
  /\ mine = [p \in Program |-> NoTrace]
  /\ started = [p \in Program |-> 0]

Administer(p) ==
  \/ RegisterSlot(p) \/ RegisterCheck(p) \/ ChooseCec(p) \/ WriteCec(p)
  \/ \E t \in Trace : Freeze(p, t)
  \/ WriteVectors(p) \/ WriteTb(p) \/ WriteJson(p)

InsertDesign(p) == ResolveVerification(p) \/ RunOracle(p) \/ AdmitDesign(p)

OracleNext ==
  \/ \E p \in Admin : Administer(p)
  \/ \E p \in Inserter : InsertDesign(p)
  \/ \E p \in Program : Abort(p)

OracleSpec == OracleInit /\ [][OracleNext]_oracleVars

-----------------------------------------------------------------------------
OracleTyped ==
  /\ recorded \in BOOLEAN
  /\ oracle \in {"unverified", "cec"} \cup Trace
  /\ vectors \in Trace \cup {NoTrace}
  /\ tb \in BOOLEAN
  /\ admitted \subseteq {"cec"} \cup Trace
  /\ progress \in [Program -> {"idle", "reg_check", "write_cec", "write_vectors",
                      "write_tb", "write_json", "gate_cec", "gate_sim",
                      "admit"}]
  /\ mine \in [Program -> {"cec", NoTrace} \cup Trace]
  /\ started \in [Program -> 0 .. MaxBegun]

(* A slot whose verification.json names a simulation has the trace and the *)
(* testbench the gate needs, wherever a freezer was killed and whoever     *)
(* else was writing: the gate never meets "no frozen artifacts".           *)
FrozenHasArtifacts == Frozen => vectors # NoTrace /\ tb

(* A verified slot does not become unverified again, which would refuse    *)
(* every later insert.                                                     *)
StaysVerified ==
  [][oracle # "unverified" => oracle' # "unverified"]_oracleVars

(* "Immutable once frozen": neither the method nor the trace of a frozen   *)
(* slot changes any more.                                                  *)
FreezeIsFinal ==
  [][Frozen => oracle' = oracle /\ vectors' = vectors]_oracleVars

(* All designs admitted by simulation were measured with one trace, the    *)
(* one the slot shows: "judged by the same yardstick".                     *)
OneTrace == \A t \in admitted \cap Trace : oracle = t /\ vectors = t
=============================================================================
