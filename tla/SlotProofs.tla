------------------------------ MODULE SlotProofs ------------------------------
(***************************************************************************)
(* What holds of a slot of the design DB, for every number of processes:   *)
(* of its registration, for all names and structures, and of its oracle,   *)
(* for all administrators, inserters and traces.                           *)
(***************************************************************************)
EXTENDS OracleFreeze, SlotRegistry, TLAPS

-----------------------------------------------------------------------------
(* The oracle of a slot (OracleFreeze).                                    *)

(* Each program runs its own steps only. *)
OwnSteps ==
  /\ \A p \in Admin :
       progress[p] \in {"idle", "reg_check", "write_cec", "write_vectors",
                  "write_tb", "write_json"}
  /\ \A p \in Inserter : progress[p] \in {"idle", "gate_cec", "gate_sim", "admit"}

(* A freezer keeps the trace it recorded, and the files it has written are *)
(* there when it goes on, whoever else has written them meanwhile.         *)
FreezerSteps ==
  \A p \in Admin :
    /\ progress[p] \in {"write_vectors", "write_tb", "write_json"} => mine[p] \in Trace
    /\ progress[p] \in {"write_tb", "write_json"} => vectors # NoTrace
    /\ progress[p] = "write_json" => tb

(* A candidate that was measured has a yardstick. *)
MeasuredSteps ==
  \A p \in Inserter : progress[p] = "admit" => mine[p] \in {"cec"} \cup Trace

OracleInv == OracleTyped /\ OwnSteps /\ FreezerSteps /\ MeasuredSteps /\ FrozenHasArtifacts

-----------------------------------------------------------------------------
(* The invariant holds initially. *)
LEMMA OracleInvInit == ASSUME OracleInit PROVE OracleInv
<1>1. ~Frozen
  BY OracleAssumption DEF OracleInit, Frozen
<1>2. OracleTyped
  <2>1. recorded \in BOOLEAN /\ tb \in BOOLEAN
    BY DEF OracleInit
  <2>2. /\ oracle \in {"unverified", "cec"} \cup Trace
        /\ vectors \in Trace \cup {NoTrace}
        /\ admitted \subseteq {"cec"} \cup Trace
    BY DEF OracleInit
  <2>3. mine \in [Program -> {"cec", NoTrace} \cup Trace]
    BY DEF OracleInit
  <2>4. started \in [Program -> 0 .. MaxBegun]
    BY OracleAssumption DEF OracleInit
  <2>5. progress \in [Program -> {"idle", "reg_check", "write_cec", "write_vectors",
                         "write_tb", "write_json", "gate_cec", "gate_sim",
                         "admit"}]
    BY DEF OracleInit
  <2> QED
    BY <2>1, <2>2, <2>3, <2>4, <2>5 DEF OracleTyped
<1>3. OwnSteps /\ FreezerSteps /\ MeasuredSteps
  BY DEF OracleInit, OwnSteps, FreezerSteps, MeasuredSteps, Program
<1> QED
  BY <1>1, <1>2, <1>3 DEF OracleInv, FrozenHasArtifacts

(* The invariant is preserved by every step. *)
LEMMA OracleInvStep ==
  ASSUME OracleInv, [OracleNext]_oracleVars
  PROVE  OracleInv'
<1> USE OracleAssumption
    DEF OracleInv, OracleTyped, OwnSteps, FreezerSteps, MeasuredSteps,
        FrozenHasArtifacts, Frozen, Program, Proceed, Start, slot
<1>1. ASSUME NEW p \in Admin, RegisterSlot(p) PROVE OracleInv'
  BY <1>1 DEF RegisterSlot
<1>2. ASSUME NEW p \in Admin, RegisterCheck(p) PROVE OracleInv'
  BY <1>2 DEF RegisterCheck
<1>3. ASSUME NEW p \in Admin, ChooseCec(p) PROVE OracleInv'
  BY <1>3 DEF ChooseCec
<1>4. ASSUME NEW p \in Admin, WriteCec(p) PROVE OracleInv'
  BY <1>4 DEF WriteCec
<1>5. ASSUME NEW p \in Admin, NEW t \in Trace, Freeze(p, t) PROVE OracleInv'
  BY <1>5 DEF Freeze, MayFreeze
<1>6. ASSUME NEW p \in Admin, WriteVectors(p) PROVE OracleInv'
  BY <1>6 DEF WriteVectors
<1>7. ASSUME NEW p \in Admin, WriteTb(p) PROVE OracleInv'
  BY <1>7 DEF WriteTb
<1>8. ASSUME NEW p \in Admin, WriteJson(p) PROVE OracleInv'
  BY <1>8 DEF WriteJson
<1>9. ASSUME NEW p \in Inserter, ResolveVerification(p) PROVE OracleInv'
  BY <1>9 DEF ResolveVerification
<1>10. ASSUME NEW p \in Inserter, RunOracle(p) PROVE OracleInv'
  BY <1>10 DEF RunOracle, GateTrace
<1>11. ASSUME NEW p \in Inserter, AdmitDesign(p) PROVE OracleInv'
  BY <1>11 DEF AdmitDesign
<1>12. ASSUME NEW p \in Program, Abort(p) PROVE OracleInv'
  BY <1>12 DEF Abort
<1>13. CASE UNCHANGED oracleVars
  BY <1>13 DEF oracleVars
<1> QED
  BY <1>1, <1>2, <1>3, <1>4, <1>5, <1>6, <1>7, <1>8, <1>9, <1>10, <1>11,
     <1>12, <1>13 DEF OracleNext, Administer, InsertDesign

(* The inductive invariant of an unrestricted behaviour. *)
THEOREM OracleInvHolds == OracleSpec => []OracleInv
  BY OracleInvInit, OracleInvStep, PTL DEF OracleSpec

(* Every file of a slot, and every program's memory, holds what the code   *)
(* writes there: register_slot, set-verification and the freezers never    *)
(* leave verification.json with a third method or vectors.dat empty.       *)
THEOREM OracleTypeOK == OracleSpec => []OracleTyped
  BY OracleInvHolds, PTL DEF OracleInv

(* However many programs register, choose, freeze and insert at once, and  *)
(* wherever any of them is killed: a slot whose verification.json names a  *)
(* simulation has its trace and its testbench.                             *)
THEOREM OracleFrozenHasArtifacts == OracleSpec => []FrozenHasArtifacts
  BY OracleInvHolds, PTL DEF OracleInv

(* A slot with an oracle never loses it: no writer of verification.json    *)
(* writes anything but a method.                                           *)
THEOREM OracleStaysVerified == OracleSpec => StaysVerified
<1>1. ASSUME OracleInv, [OracleNext]_oracleVars
      PROVE  [oracle # "unverified" => oracle' # "unverified"]_oracleVars
  <2>1. CASE UNCHANGED oracleVars
    BY <2>1
  <2>2. ASSUME NEW p \in Admin, Administer(p), oracle # "unverified"
        PROVE  oracle' # "unverified"
    <3>1. CASE WriteCec(p)
      BY <3>1 DEF WriteCec
    <3>2. CASE WriteJson(p)
      BY <1>1, <2>2, <3>2, OracleAssumption
      DEF WriteJson, OracleInv, FreezerSteps
    <3>3. CASE ~WriteCec(p) /\ ~WriteJson(p)
      BY <2>2, <3>3
      DEF Administer, RegisterSlot, RegisterCheck, ChooseCec, Freeze, WriteVectors,
          WriteTb, slot
    <3> QED
      BY <3>1, <3>2, <3>3
  <2>3. ASSUME NEW p \in Inserter, InsertDesign(p)
        PROVE  oracle' = oracle
    BY <2>3 DEF InsertDesign, ResolveVerification, RunOracle, AdmitDesign, slot
  <2>4. ASSUME NEW p \in Program, Abort(p)
        PROVE  oracle' = oracle
    BY <2>4 DEF Abort, slot
  <2> QED
    BY <1>1, <2>1, <2>2, <2>3, <2>4 DEF OracleNext
<1> QED
  BY <1>1, OracleInvHolds, PTL DEF OracleSpec, StaysVerified

-----------------------------------------------------------------------------
(* With administrators that take turns, at most one of them is under way,  *)
(* ...                                                                     *)
OneAdministrator ==
  \A p, q \in Admin : progress[p] # "idle" /\ progress[q] # "idle" => p = q

(* ... nobody is about to write a method or a trace into a frozen slot,    *)
(* the trace on disk is the one of the freezer that wrote it, ...          *)
TurnSteps ==
  \A p \in Admin :
    /\ progress[p] \in {"write_cec", "write_vectors", "write_tb", "write_json"} => ~Frozen
    /\ progress[p] \in {"write_tb", "write_json"} => vectors = mine[p]

(* ... and a simulating gate finds, and leaves, the slot frozen with the   *)
(* trace it measures with.                                                 *)
GateSteps ==
  /\ Frozen => vectors = oracle
  /\ \A p \in Inserter :
       /\ progress[p] = "gate_sim" => Frozen
       /\ progress[p] = "admit" /\ mine[p] \in Trace => oracle = mine[p]

SerialInv == OracleInv /\ OneAdministrator /\ TurnSteps /\ GateSteps /\ OneTrace

LEMMA SerialInvInit == ASSUME OracleInit PROVE SerialInv
<1>1. OracleInv /\ ~Frozen
  BY OracleInvInit, OracleAssumption DEF OracleInit, Frozen
<1>2. OneAdministrator /\ TurnSteps /\ OneTrace
  BY DEF OracleInit, OneAdministrator, TurnSteps, OneTrace, Program
<1>3. GateSteps
  BY <1>1 DEF OracleInit, GateSteps, Program
<1> QED
  BY <1>1, <1>2, <1>3 DEF SerialInv

(* The invariant of turn-taking is preserved by every step. *)
LEMMA SerialInvStep ==
  ASSUME InTurns, SerialInv, [OracleNext]_oracleVars
  PROVE  SerialInv'
<1>0. OracleInv'
  BY OracleInvStep DEF SerialInv
<1>a. OracleTyped /\ OwnSteps /\ FreezerSteps /\ MeasuredSteps
  BY DEF SerialInv, OracleInv
<1> DEFINE Turns == OneAdministrator /\ TurnSteps /\ GateSteps /\ OneTrace
<1> SUFFICES Turns'
  BY <1>0 DEF SerialInv
<1> USE OracleAssumption, <1>a
    DEF SerialInv, OneAdministrator, TurnSteps, GateSteps, OneTrace, OracleTyped, OwnSteps,
        FreezerSteps, MeasuredSteps, Frozen, Program, Proceed, Start, slot
<1>1. ASSUME NEW p \in Admin, RegisterSlot(p) PROVE Turns'
  BY <1>1 DEF RegisterSlot
<1>2. ASSUME NEW p \in Admin, RegisterCheck(p) PROVE Turns'
  BY <1>2 DEF RegisterCheck
<1>3. ASSUME NEW p \in Admin, ChooseCec(p) PROVE Turns'
  BY <1>3 DEF ChooseCec
<1>4. ASSUME NEW p \in Admin, WriteCec(p) PROVE Turns'
  BY <1>4 DEF WriteCec
<1>5. ASSUME NEW p \in Admin, NEW t \in Trace, Freeze(p, t) PROVE Turns'
  BY <1>5 DEF Freeze, MayFreeze
<1>6. ASSUME NEW p \in Admin, WriteVectors(p) PROVE Turns'
  BY <1>6 DEF WriteVectors
<1>7. ASSUME NEW p \in Admin, WriteTb(p) PROVE Turns'
  BY <1>7 DEF WriteTb
<1>8. ASSUME NEW p \in Admin, WriteJson(p) PROVE Turns'
  BY <1>8 DEF WriteJson
<1>9. ASSUME NEW p \in Inserter, ResolveVerification(p) PROVE Turns'
  BY <1>9 DEF ResolveVerification
<1>10. ASSUME NEW p \in Inserter, RunOracle(p) PROVE Turns'
  BY <1>10 DEF RunOracle, GateTrace
<1>11. ASSUME NEW p \in Inserter, AdmitDesign(p) PROVE Turns'
  BY <1>11 DEF AdmitDesign
<1>12. ASSUME NEW p \in Program, Abort(p) PROVE Turns'
  BY <1>12 DEF Abort
<1>13. CASE UNCHANGED oracleVars
  BY <1>13 DEF oracleVars
<1> QED
  BY <1>1, <1>2, <1>3, <1>4, <1>5, <1>6, <1>7, <1>8, <1>9, <1>10, <1>11,
     <1>12, <1>13 DEF OracleNext, Administer, InsertDesign

(* With turns: the first frozen trace, and the choice of simulation, are   *)
(* final.                                                                  *)
THEOREM OracleFreezeIsFinal == ASSUME InTurns PROVE OracleSpec => FreezeIsFinal
<1>1. OracleSpec => []SerialInv
  BY SerialInvInit, SerialInvStep, PTL DEF OracleSpec
<1>2. ASSUME SerialInv, [OracleNext]_oracleVars
      PROVE  [Frozen => oracle' = oracle /\ vectors' = vectors]_oracleVars
  <2>1. CASE UNCHANGED oracleVars
    BY <2>1
  <2>2. ASSUME Frozen, NEW p \in Admin, Administer(p)
        PROVE  oracle' = oracle /\ vectors' = vectors
    <3>1. ~WriteCec(p) /\ ~WriteVectors(p) /\ ~WriteJson(p)
      BY <1>2, <2>2
      DEF SerialInv, TurnSteps, WriteCec, WriteVectors, WriteJson
    <3> QED
      BY <2>2, <3>1
      DEF Administer, RegisterSlot, RegisterCheck, ChooseCec, Freeze, WriteTb, slot
  <2>3. ASSUME NEW p \in Inserter, InsertDesign(p)
        PROVE  oracle' = oracle /\ vectors' = vectors
    BY <2>3 DEF InsertDesign, ResolveVerification, RunOracle, AdmitDesign, slot
  <2>4. ASSUME NEW p \in Program, Abort(p)
        PROVE  oracle' = oracle /\ vectors' = vectors
    BY <2>4 DEF Abort, slot
  <2> QED
    BY <1>2, <2>1, <2>2, <2>3, <2>4 DEF OracleNext
<1> QED
  BY <1>1, <1>2, PTL DEF OracleSpec, FreezeIsFinal

(* With turns, and any number of concurrent inserts: all designs of the    *)
(* slot that were admitted by simulation passed the slot's one trace.      *)
THEOREM OracleOneTrace == ASSUME InTurns PROVE OracleSpec => []OneTrace
<1>1. SerialInv => OneTrace
  BY DEF SerialInv
<1> QED
  BY <1>1, SerialInvInit, SerialInvStep, PTL DEF OracleSpec

-----------------------------------------------------------------------------
(* The registration of slots (SlotRegistry).                               *)

(* Every name the processes register means one structure. *)
ConsistentJobs == \A i, j \in Jobs : i[1] = j[1] => i = j

(* A registration has written the slot before it takes the lock, and works *)
(* on the manifest as it is while it holds the lock.                       *)
Prepared(p) ==
  /\ stage[p] # "idle" => pair[p] \in Jobs
  /\ stage[p] \in {"golden", "lock", "update", "read_source", "write_source"} =>
       from[KeyOf(p)] # Nil
  /\ stage[p] \in {"lock", "update"} => KeyOf(p) \in golden
  /\ stage[p] = "update" => lock = p /\ table[p] = manifest

RegistryInv ==
  /\ RegistryTyped
  /\ \A p \in Registrar : Prepared(p)
  /\ BindingComplete

-----------------------------------------------------------------------------
LEMMA RegistryInvInit == ASSUME RegistryInit PROVE RegistryInv
<1>1. RegistryTyped
  <2>1. /\ manifest \in [Name -> Key \cup {Nil}] /\ lock \in Registrar \cup {Nil}
        /\ golden \subseteq Key /\ returned \subseteq Jobs
        /\ source \in [Key -> BOOLEAN]
    BY DEF RegistryInit
  <2>2. from \in [Key -> (SUBSET Name) \cup {Nil}]
    BY DEF RegistryInit
  <2>3. NoSpec \in SpecFile
    BY DEF NoSpec, SpecFile
  <2>4. spec \in [Registrar -> SpecFile] /\ table \in [Registrar -> [Name -> Key \cup {Nil}]]
    BY <2>1, <2>3 DEF RegistryInit
  <2>5. pair \in [Registrar -> Jobs \cup {Nil}] /\ registrations \in [Registrar -> 0 .. MaxRegistrations]
    BY RegistryAssumption DEF RegistryInit
  <2>6. stage \in [Registrar -> {"idle"}]
    BY DEF RegistryInit
  <2> QED
    BY <2>1, <2>2, <2>4, <2>5, <2>6 DEF RegistryTyped
<1>2. \A p \in Registrar : Prepared(p)
  BY DEF RegistryInit, Prepared
<1>3. BindingComplete
  BY DEF RegistryInit, BindingComplete
<1> QED
  BY <1>1, <1>2, <1>3 DEF RegistryInv

(* What the process under way in a state with the invariant works on. *)
LEMMA JobTyped ==
  ASSUME RegistryInv, NEW p \in Registrar, stage[p] # "idle"
  PROVE  pair[p] \in Jobs /\ NameOf(p) \in Name /\ KeyOf(p) \in Key
  BY RegistryAssumption DEF RegistryInv, Prepared, NameOf, KeyOf, Pairs

(* Every step of a registration preserves the types. *)
LEMMA RegistryTypeStep ==
  ASSUME RegistryInv, [RegistryNext]_registryVars
  PROVE  RegistryTyped'
<1> USE RegistryAssumption DEF slotFiles, Continue
<1>0. RegistryTyped
  BY DEF RegistryInv
<1>1. ASSUME NEW p \in Registrar, NEW j \in Jobs, BeginRegistration(p, j) PROVE RegistryTyped'
  BY <1>0, <1>1 DEF BeginRegistration, RegistryTyped
<1>2. ASSUME NEW p \in Registrar, ReadSpec(p) PROVE RegistryTyped'
  <2>1. KeyOf(p) \in Key
    BY <1>2, JobTyped DEF ReadSpec
  <2>2. from[KeyOf(p)] # Nil =>
          [from |-> from[KeyOf(p)], source |-> source[KeyOf(p)]] \in SpecFile
    BY <1>0, <2>1 DEF RegistryTyped, SpecFile
  <2>3. NoSpec \in SpecFile
    BY DEF NoSpec, SpecFile
  <2>4. spec' \in [Registrar -> SpecFile]
    BY <1>0, <1>2, <2>2, <2>3 DEF ReadSpec, RegistryTyped
  <2> QED
    BY <1>0, <1>2, <2>4 DEF ReadSpec, RegistryTyped
<1>3. ASSUME NEW p \in Registrar, WriteSpec(p) PROVE RegistryTyped'
  <2>1. KeyOf(p) \in Key /\ NameOf(p) \in Name
    BY <1>3, JobTyped DEF WriteSpec
  <2>2. spec[p].from \in SUBSET Name /\ spec[p].source \in BOOLEAN
    BY <1>0 DEF RegistryTyped, SpecFile
  <2>3. spec[p].from \cup {NameOf(p)} \in SUBSET Name
    BY <2>1, <2>2
  <2>4. from' \in [Key -> (SUBSET Name) \cup {Nil}]
    BY <1>0, <1>3, <2>3 DEF WriteSpec, RegistryTyped
  <2>5. source' \in [Key -> BOOLEAN]
    BY <1>0, <1>3, <2>2 DEF WriteSpec, RegistryTyped
  <2> QED
    BY <1>0, <1>3, <2>4, <2>5 DEF WriteSpec, RegistryTyped
<1>4. ASSUME NEW p \in Registrar, WriteGolden(p) PROVE RegistryTyped'
  BY <1>0, <1>4, JobTyped DEF WriteGolden, RegistryTyped
<1>5. ASSUME NEW p \in Registrar, LockManifest(p) PROVE RegistryTyped'
  BY <1>0, <1>5 DEF LockManifest, RegistryTyped
<1>6. ASSUME NEW p \in Registrar, UpdateManifest(p) PROVE RegistryTyped'
  BY <1>0, <1>6, JobTyped DEF UpdateManifest, RegistryTyped
<1>7. ASSUME NEW p \in Registrar, ReadSource(p) PROVE RegistryTyped'
  <2>1. KeyOf(p) \in Key /\ from[KeyOf(p)] # Nil
    BY <1>7, JobTyped DEF ReadSource, RegistryInv, Prepared
  <2>2. [from |-> from[KeyOf(p)], source |-> source[KeyOf(p)]] \in SpecFile
    BY <1>0, <2>1 DEF RegistryTyped, SpecFile
  <2>3. spec' \in [Registrar -> SpecFile]
    BY <1>0, <1>7, <2>2 DEF ReadSource, RegistryTyped
  <2> QED
    BY <1>0, <1>7, <2>3 DEF ReadSource, RegistryTyped
<1>8. ASSUME NEW p \in Registrar, WriteSource(p) PROVE RegistryTyped'
  <2>1. spec[p].from \in SUBSET Name
    BY <1>0 DEF RegistryTyped, SpecFile
  <2> QED
    BY <1>0, <1>8, <2>1 DEF WriteSource, RegistryTyped
<1>9. ASSUME NEW p \in Registrar, Stop(p) PROVE RegistryTyped'
  BY <1>0, <1>9 DEF Stop, RegistryTyped
<1>10. CASE UNCHANGED registryVars
  BY <1>0, <1>10 DEF registryVars, RegistryTyped
<1> QED
  BY <1>1, <1>2, <1>3, <1>4, <1>5, <1>6, <1>7, <1>8, <1>9, <1>10
  DEF RegistryNext, Register

(* No step takes the spec.json or the golden of a slot away. *)
LEMMA SlotsStay ==
  ASSUME RegistryInv, [RegistryNext]_registryVars
  PROVE  /\ golden \subseteq golden'
         /\ \A k \in Key : from[k] # Nil => from'[k] # Nil
<1>0. RegistryTyped
  BY DEF RegistryInv
<1>1. ASSUME NEW p \in Registrar, WriteSpec(p) \/ WriteSource(p)
      PROVE  /\ golden' = golden
             /\ \A k \in Key : from[k] # Nil => from'[k] # Nil
  <2>1. spec[p].from \in SUBSET Name /\ NameOf(p) \in Name
    BY <1>0, <1>1, JobTyped DEF RegistryTyped, SpecFile, WriteSpec, WriteSource
  <2>2. spec[p].from # Nil /\ spec[p].from \cup {NameOf(p)} # Nil
    BY <2>1, RegistryAssumption
  <2> QED
    BY <1>0, <1>1, <2>2 DEF WriteSpec, WriteSource, RegistryTyped
<1>2. CASE \A p \in Registrar : ~WriteSpec(p) /\ ~WriteSource(p)
  BY <1>2
  DEF RegistryNext, Register, BeginRegistration, ReadSpec, WriteGolden, LockManifest,
      UpdateManifest, ReadSource, Stop, slotFiles, registryVars
<1> QED
  BY <1>1, <1>2

(* Neither its own step nor another one's unsettles a registration. *)
LEMMA PreparedStep ==
  ASSUME RegistryInv, [RegistryNext]_registryVars, NEW q \in Registrar
  PROVE  Prepared(q)'
<1> USE RegistryAssumption DEF Continue
<1>0. /\ RegistryTyped /\ Prepared(q)
      /\ golden \subseteq golden'
      /\ \A k \in Key : from[k] # Nil => from'[k] # Nil
  BY SlotsStay DEF RegistryInv
<1>1. ASSUME NEW p \in Registrar, NEW j \in Jobs, BeginRegistration(p, j) PROVE Prepared(q)'
  BY <1>0, <1>1 DEF BeginRegistration, Prepared, RegistryTyped, KeyOf, slotFiles
<1>2. ASSUME NEW p \in Registrar, ReadSpec(p) PROVE Prepared(q)'
  <2>1. \A r \in Registrar : stage[r] # "idle" => KeyOf(r) \in Key
    BY JobTyped DEF RegistryInv
  <2> QED
    BY <1>0, <1>2, <2>1 DEF ReadSpec, Prepared, RegistryTyped, KeyOf, slotFiles
<1>3. ASSUME NEW p \in Registrar, WriteSpec(p) PROVE Prepared(q)'
  <2>1. \A r \in Registrar : stage[r] # "idle" => KeyOf(r) \in Key
    BY JobTyped DEF RegistryInv
  <2> QED
    <3>1. CASE q # p
      BY <1>0, <1>3, <2>1, <3>1 DEF WriteSpec, Prepared, RegistryTyped, KeyOf
    <3>2. CASE q = p
      <4>1. spec[p].from \in SUBSET Name /\ NameOf(p) \in Name
        BY <1>0, <1>3, JobTyped DEF RegistryTyped, SpecFile, WriteSpec
      <4>2. spec[p].from \cup {NameOf(p)} # Nil
        BY <4>1
      <4>3. from'[KeyOf(p)] # Nil /\ stage'[p] = "golden" /\ pair' = pair
        BY <1>0, <1>3, <2>1, <4>2 DEF WriteSpec, RegistryTyped
      <4> QED
        BY <1>0, <1>3, <3>2, <4>3 DEF WriteSpec, Prepared, KeyOf
    <3> QED
      BY <3>1, <3>2
<1>4. ASSUME NEW p \in Registrar, WriteGolden(p) PROVE Prepared(q)'
  <2>1. \A r \in Registrar : stage[r] # "idle" => KeyOf(r) \in Key
    BY JobTyped DEF RegistryInv
  <2> QED
    BY <1>0, <1>4, <2>1 DEF WriteGolden, Prepared, RegistryTyped, KeyOf, slotFiles
<1>5. ASSUME NEW p \in Registrar, LockManifest(p) PROVE Prepared(q)'
  <2>1. \A r \in Registrar : stage[r] # "idle" => KeyOf(r) \in Key
    BY JobTyped DEF RegistryInv
  <2> QED
    BY <1>0, <1>5, <2>1 DEF LockManifest, Prepared, RegistryTyped, KeyOf, slotFiles
<1>6. ASSUME NEW p \in Registrar, UpdateManifest(p) PROVE Prepared(q)'
  <2>1. \A r \in Registrar : stage[r] # "idle" => KeyOf(r) \in Key
    BY JobTyped DEF RegistryInv
  <2> QED
    <3>1. lock = p
      BY <1>6 DEF UpdateManifest, RegistryInv, Prepared
    <3>2. UNCHANGED <<from, golden, pair, table>>
      BY <1>6 DEF UpdateManifest, slotFiles
    <3>3. stage'[q] = IF q = p THEN "read_source" ELSE stage[q]
      BY <1>0, <1>6 DEF UpdateManifest, RegistryTyped
    <3> QED
      BY <1>0, <1>6, <3>1, <3>2, <3>3 DEF UpdateManifest, Prepared, KeyOf
<1>7. ASSUME NEW p \in Registrar, ReadSource(p) PROVE Prepared(q)'
  <2>1. \A r \in Registrar : stage[r] # "idle" => KeyOf(r) \in Key
    BY JobTyped DEF RegistryInv
  <2> QED
    BY <1>0, <1>7, <2>1 DEF ReadSource, Prepared, RegistryTyped, KeyOf, slotFiles
<1>8. ASSUME NEW p \in Registrar, WriteSource(p) PROVE Prepared(q)'
  <2>1. \A r \in Registrar : stage[r] # "idle" => KeyOf(r) \in Key
    BY JobTyped DEF RegistryInv
  <2> QED
    BY <1>0, <1>8, <2>1 DEF WriteSource, Prepared, RegistryTyped, KeyOf, slotFiles
<1>9. ASSUME NEW p \in Registrar, Stop(p) PROVE Prepared(q)'
  <2>1. \A r \in Registrar : stage[r] # "idle" => KeyOf(r) \in Key
    BY JobTyped DEF RegistryInv
  <2> QED
    BY <1>0, <1>9, <2>1 DEF Stop, Prepared, RegistryTyped, KeyOf, slotFiles
<1>10. CASE UNCHANGED registryVars
  BY <1>0, <1>10 DEF registryVars, Prepared, KeyOf
<1> QED
  BY <1>1, <1>2, <1>3, <1>4, <1>5, <1>6, <1>7, <1>8, <1>9, <1>10 DEF RegistryNext, Register

(* The manifest changes by one entry, whose slot is written. *)
LEMMA UpdateBinds ==
  ASSUME RegistryInv, NEW p \in Registrar, UpdateManifest(p)
  PROVE  /\ manifest' = [manifest EXCEPT ![NameOf(p)] = KeyOf(p)]
         /\ KeyOf(p) \in golden /\ from[KeyOf(p)] # Nil
         /\ golden' = golden /\ from' = from
  BY DEF UpdateManifest, RegistryInv, Prepared, slotFiles

LEMMA OnlyUpdateBinds ==
  ASSUME [RegistryNext]_registryVars, \A p \in Registrar : ~UpdateManifest(p)
  PROVE  UNCHANGED <<manifest, returned>>
  BY DEF RegistryNext, Register, BeginRegistration, ReadSpec, WriteSpec, WriteGolden, LockManifest,
         ReadSource, WriteSource, Stop, registryVars

LEMMA RegistryInvStep ==
  ASSUME RegistryInv, [RegistryNext]_registryVars
  PROVE  RegistryInv'
<1>0. RegistryTyped /\ BindingComplete
  BY DEF RegistryInv
<1>1. BindingComplete'
  <2>1. ASSUME NEW p \in Registrar, UpdateManifest(p) PROVE BindingComplete'
    BY <1>0, <2>1, UpdateBinds DEF BindingComplete, RegistryTyped
  <2>2. CASE \A p \in Registrar : ~UpdateManifest(p)
    BY <1>0, <2>2, OnlyUpdateBinds, SlotsStay DEF BindingComplete, RegistryTyped
  <2> QED
    BY <2>1, <2>2
<1> QED
  BY <1>1, RegistryTypeStep, PreparedStep DEF RegistryInv

(* The inductive invariant. *)
THEOREM RegistryInvHolds == RegistrySpec => []RegistryInv
  BY RegistryInvInit, RegistryInvStep, PTL DEF RegistrySpec

(* The manifest and the spec.json files are well-formed whatever the       *)
(* interleaving of their unlocked readers and writers.                     *)
THEOREM RegistryTypeOK == RegistrySpec => []RegistryTyped
  BY RegistryInvHolds, PTL DEF RegistryInv

(* A name in the manifest leads to a slot with its spec.json and golden.v, *)
(* because register_slot binds the name last and nobody removes a slot.    *)
THEOREM RegistryBindingComplete == RegistrySpec => []BindingComplete
  BY RegistryInvHolds, PTL DEF RegistryInv

(* The manifest lock keeps every binding a registration returned for, as   *)
(* long as the names are used consistently.                                *)
THEOREM RegistryNoLostBinding ==
  ASSUME ConsistentJobs PROVE RegistrySpec => []NoLostBinding
<1>1. RegistryInit => NoLostBinding
  BY DEF RegistryInit, NoLostBinding
<1>2. ASSUME RegistryInv, NoLostBinding, [RegistryNext]_registryVars
      PROVE  NoLostBinding'
  <2>1. ASSUME NEW p \in Registrar, UpdateManifest(p) PROVE NoLostBinding'
    <3>1. /\ returned' = returned \cup {pair[p]}
          /\ pair[p] \in Jobs /\ returned \subseteq Jobs /\ NameOf(p) \in Name
      BY <1>2, <2>1, JobTyped DEF UpdateManifest, RegistryInv, RegistryTyped
    <3>2. /\ manifest'[NameOf(p)] = KeyOf(p)
          /\ \A n \in Name : n # NameOf(p) => manifest'[n] = manifest[n]
      BY <1>2, <2>1, <3>1, UpdateBinds DEF RegistryInv, RegistryTyped
    <3>3. \A j \in returned : j # pair[p] => j[1] \in Name /\ j[1] # NameOf(p)
      BY <3>1, RegistryAssumption DEF ConsistentJobs, NameOf
    <3> QED
      BY <1>2, <3>1, <3>2, <3>3 DEF NoLostBinding, NameOf, KeyOf
  <2>2. CASE \A p \in Registrar : ~UpdateManifest(p)
    BY <1>2, <2>2, OnlyUpdateBinds DEF NoLostBinding
  <2> QED
    BY <2>1, <2>2
<1> QED
  BY <1>1, <1>2, RegistryInvHolds, PTL DEF RegistrySpec

-----------------------------------------------------------------------------
(* Registrations run one after the other: the one under way bound no name  *)
(* to a second key, and what it read of spec.json is what is there.        *)
Undisturbed(p) ==
  /\ \A q \in Registrar : q # p => stage[q] = "idle"
  /\ manifest[NameOf(p)] \in {Nil, KeyOf(p)}
  /\ stage[p] \in {"write_spec", "write_source"} =>
       (from[KeyOf(p)] # Nil =>
          spec[p].from = from[KeyOf(p)] /\ spec[p].source = source[KeyOf(p)])

OneAtATime == \A p \in Registrar : stage[p] # "idle" => Undisturbed(p)

(* A source is captured in a spec.json that exists. *)
SourceInSpec == \A k \in Key : source[k] => from[k] # Nil

LEMMA SourceInSpecStep ==
  ASSUME RegistryInv, SourceInSpec, [RegistryNext]_registryVars
  PROVE  SourceInSpec'
<1>0. RegistryTyped
  BY DEF RegistryInv
<1>1. \A k \in Key : from[k] # Nil => from'[k] # Nil
  BY SlotsStay
<1>2. ASSUME NEW p \in Registrar, WriteSpec(p) \/ WriteSource(p) PROVE SourceInSpec'
  <2>1. KeyOf(p) \in Key /\ NameOf(p) \in Name /\ spec[p].from \in SUBSET Name
    BY <1>0, <1>2, JobTyped DEF WriteSpec, WriteSource, RegistryTyped, SpecFile
  <2>2. spec[p].from # Nil /\ spec[p].from \cup {NameOf(p)} # Nil
    BY <2>1, RegistryAssumption
  <2>3. from'[KeyOf(p)] # Nil
    BY <1>0, <1>2, <2>1, <2>2 DEF WriteSpec, WriteSource, RegistryTyped
  <2>4. \A k \in Key : k # KeyOf(p) => source'[k] = source[k]
    BY <1>0, <1>2, <2>1 DEF WriteSpec, WriteSource, RegistryTyped
  <2> QED
    BY <1>1, <2>3, <2>4 DEF SourceInSpec
<1>3. CASE \A p \in Registrar : ~WriteSpec(p) /\ ~WriteSource(p)
  <2>1. UNCHANGED source
    BY <1>3
    DEF RegistryNext, Register, BeginRegistration, ReadSpec, WriteGolden, LockManifest,
        UpdateManifest, ReadSource, Stop, slotFiles, registryVars
  <2> QED
    BY <1>1, <2>1 DEF SourceInSpec
<1> QED
  BY <1>2, <1>3

LEMMA OneAtATimeStep ==
  ASSUME Serial, RegistryInv, OneAtATime, [RegistryNext]_registryVars
  PROVE  OneAtATime'
<1> USE RegistryAssumption DEF Continue
<1>0. RegistryTyped
  BY DEF RegistryInv
<1>1. ASSUME NEW p \in Registrar, NEW j \in Jobs, BeginRegistration(p, j) PROVE OneAtATime'
  <2>1. /\ \A q \in Registrar : stage[q] = "idle"
        /\ \A q \in Registrar : q # p => stage'[q] = "idle"
        /\ stage'[p] \in {"read_spec", "idle"}
        /\ stage'[p] = "read_spec" => FreeFor(j[1], j[2])
        /\ pair'[p] = j /\ manifest' = manifest
    BY <1>0, <1>1 DEF BeginRegistration, RegistryTyped
  <2> QED
    BY <2>1 DEF OneAtATime, Undisturbed, FreeFor, NameOf, KeyOf
<1>2. ASSUME NEW p \in Registrar, stage[p] # "idle", stage'[p] # "idle",
             UNCHANGED <<manifest, pair>>,
             \A q \in Registrar : q # p => stage'[q] = stage[q],
             stage'[p] \in {"write_spec", "write_source"} =>
               (from'[KeyOf(p)] # Nil =>
                  spec'[p].from = from'[KeyOf(p)] /\ spec'[p].source = source'[KeyOf(p)])
      PROVE  OneAtATime'
  BY <1>2 DEF OneAtATime, Undisturbed, NameOf, KeyOf
<1>3. ASSUME NEW p \in Registrar, ReadSpec(p) PROVE OneAtATime'
  BY <1>0, <1>2, <1>3 DEF ReadSpec, RegistryTyped, slotFiles
<1>4. ASSUME NEW p \in Registrar, ReadSource(p) PROVE OneAtATime'
  <2>1. CASE source[KeyOf(p)]
    BY <1>0, <1>4, <2>1 DEF ReadSource, RegistryTyped, OneAtATime, Undisturbed
  <2>2. CASE ~source[KeyOf(p)]
    BY <1>0, <1>2, <1>4, <2>2 DEF ReadSource, RegistryTyped, slotFiles
  <2> QED
    BY <2>1, <2>2
<1>5. ASSUME NEW p \in Registrar, WriteSpec(p) \/ WriteGolden(p) \/ LockManifest(p)
      PROVE  OneAtATime'
  <2>1. stage[p] # "idle" /\ stage'[p] \in {"golden", "lock", "update"}
    BY <1>0, <1>5 DEF WriteSpec, WriteGolden, LockManifest, RegistryTyped
  <2>2. /\ UNCHANGED <<manifest, pair>>
        /\ \A q \in Registrar : q # p => stage'[q] = stage[q]
    BY <1>0, <1>5 DEF WriteSpec, WriteGolden, LockManifest, RegistryTyped
  <2> QED
    BY <1>2, <2>1, <2>2
<1>6. ASSUME NEW p \in Registrar, UpdateManifest(p) PROVE OneAtATime'
  <2>1. manifest'[NameOf(p)] = KeyOf(p)
    BY <1>0, <1>6, JobTyped, UpdateBinds DEF UpdateManifest, RegistryTyped
  <2>2. /\ stage[p] # "idle" /\ stage'[p] = "read_source" /\ pair' = pair
        /\ \A q \in Registrar : q # p => stage'[q] = stage[q]
    BY <1>0, <1>6 DEF UpdateManifest, RegistryTyped
  <2> QED
    BY <2>1, <2>2 DEF OneAtATime, Undisturbed, NameOf, KeyOf
<1>7. ASSUME NEW p \in Registrar, WriteSource(p) \/ Stop(p) PROVE OneAtATime'
  <2>1. stage[p] # "idle" /\ \A q \in Registrar : stage'[q] = IF q = p THEN "idle" ELSE stage[q]
    BY <1>0, <1>7 DEF WriteSource, Stop, RegistryTyped
  <2> QED
    BY <2>1 DEF OneAtATime, Undisturbed
<1>8. CASE UNCHANGED registryVars
  BY <1>8 DEF registryVars, OneAtATime, Undisturbed, NameOf, KeyOf
<1> QED
  BY <1>1, <1>3, <1>4, <1>5, <1>6, <1>7, <1>8 DEF RegistryNext, Register

(* Registrations of a serial schedule never overlap.                       *)
THEOREM OneAtATimeHolds == ASSUME Serial PROVE RegistrySpec => []OneAtATime
<1>1. RegistryInit => OneAtATime
  BY DEF RegistryInit, OneAtATime
<1> QED
  BY <1>1, RegistryInvHolds, OneAtATimeStep, PTL DEF RegistrySpec

(* register_slot raises for a name bound to another key: of registrations  *)
(* run one after the other, killed or not, none binds a name anew.         *)
THEOREM RegistryNamesPermanent == ASSUME Serial PROVE RegistrySpec => NamesPermanent
<1>1. ASSUME RegistryInv, OneAtATime, [RegistryNext]_registryVars,
             NEW n \in Name, manifest[n] # Nil
      PROVE  manifest'[n] = manifest[n]
  <2>1. ASSUME NEW p \in Registrar, UpdateManifest(p) PROVE manifest'[n] = manifest[n]
    <3>1. stage[p] = "update" /\ manifest \in [Name -> Key \cup {Nil}]
      BY <1>1, <2>1 DEF UpdateManifest, RegistryInv, RegistryTyped
    <3>2. manifest[NameOf(p)] \in {Nil, KeyOf(p)}
      BY <1>1, <3>1 DEF OneAtATime, Undisturbed
    <3> QED
      BY <1>1, <2>1, <3>1, <3>2, UpdateBinds
  <2>2. CASE \A p \in Registrar : ~UpdateManifest(p)
    BY <1>1, <2>2, OnlyUpdateBinds
  <2> QED
    BY <2>1, <2>2
<1>2. RegistryInv /\ OneAtATime /\ [RegistryNext]_registryVars =>
        [\A n \in Name : manifest[n] # Nil => manifest'[n] = manifest[n]]_registryVars
  BY <1>1
<1> QED
  BY <1>2, RegistryInvHolds, OneAtATimeHolds, PTL DEF RegistrySpec, NamesPermanent

(* Neither registration nor source capture takes an alias or a captured    *)
(* source out of spec.json, as long as they are run one after the other.   *)
THEOREM RegistrySlotOnlyGrows == ASSUME Serial PROVE RegistrySpec => SlotOnlyGrows
<1> DEFINE Grows == \A k \in Key :
             /\ from[k] # Nil => from'[k] # Nil /\ from[k] \subseteq from'[k]
             /\ source[k] => source'[k]
<1>1. ASSUME RegistryInv, OneAtATime, SourceInSpec, [RegistryNext]_registryVars
      PROVE  Grows
  <2>0. RegistryTyped /\ RegistryInv
    BY <1>1 DEF RegistryInv
  <2>1. ASSUME NEW p \in Registrar, WriteSpec(p) PROVE Grows
    <3>1. KeyOf(p) \in Key
      BY <2>0, <2>1, JobTyped DEF WriteSpec
    <3>2. from[KeyOf(p)] # Nil =>
            spec[p].from = from[KeyOf(p)] /\ spec[p].source = source[KeyOf(p)]
      BY <1>1, <2>1 DEF WriteSpec, OneAtATime, Undisturbed
    <3>3. \A k \in Key : from[k] # Nil => from'[k] # Nil
      BY <1>1, <2>0, SlotsStay
    <3>4. source[KeyOf(p)] => from[KeyOf(p)] # Nil
      BY <1>1, <3>1 DEF SourceInSpec
    <3> QED
      BY <2>0, <2>1, <3>1, <3>2, <3>3, <3>4 DEF WriteSpec, RegistryTyped
  <2>2. ASSUME NEW p \in Registrar, WriteSource(p) PROVE Grows
    <3>1. KeyOf(p) \in Key /\ from[KeyOf(p)] # Nil
      BY <2>0, <2>2, JobTyped DEF WriteSource, RegistryInv, Prepared
    <3>2. spec[p].from = from[KeyOf(p)]
      BY <1>1, <2>2, <3>1 DEF WriteSource, OneAtATime, Undisturbed
    <3>3. \A k \in Key : from[k] # Nil => from'[k] # Nil
      BY <1>1, <2>0, SlotsStay
    <3> QED
      BY <2>0, <2>2, <3>1, <3>2, <3>3 DEF WriteSource, RegistryTyped
  <2> QED
    BY <1>1, <2>1, <2>2
    DEF RegistryNext, Register, BeginRegistration, ReadSpec, WriteGolden, LockManifest,
        UpdateManifest, ReadSource, Stop, slotFiles, registryVars
<1>2. RegistryInv /\ OneAtATime /\ SourceInSpec /\ [RegistryNext]_registryVars =>
        [Grows]_registryVars
  BY <1>1
<1>3. RegistryInit => SourceInSpec
  BY DEF RegistryInit, SourceInSpec
<1> QED
  BY <1>2, <1>3, SourceInSpecStep, RegistryInvHolds, OneAtATimeHolds, PTL
  DEF RegistrySpec, SlotOnlyGrows
=============================================================================
