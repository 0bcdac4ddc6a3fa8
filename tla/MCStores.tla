------------------------------ MODULE MCStores ------------------------------
(***************************************************************************)
(* What processes keep between calls, one store at a time:                 *)
(*   oracle    a combinational slot with two administrators in turns, an   *)
(*             inserter and two traces;                                    *)
(*   registry  two processes with two registrations each, three names and  *)
(*             two structures, where every name means one structure;       *)
(*   cache     two processes that call two optimized functions with three  *)
(*             settings of the controls, one of which also clears the      *)
(*             cache, killed anywhere;                                     *)
(*   gate      two processes that insert under tags of their own, twice    *)
(*             each, one of two structures, of which the oracle rejects    *)
(*             one; one of them is killed once;                            *)
(*   wires     two expressions of one program and three wires, under three *)
(*             decorated functions, flat blocks and captured blocks, two   *)
(*             of them in each other, exceptions anywhere.                 *)
(***************************************************************************)
EXTENDS OracleFreeze, MCSlotRegistry, OptimizationCache, SharedWires, AdmissionGate

VARIABLE part     \* the store of this behaviour

storesVars == <<part, oracleVars, registryVars, cacheVars, sharedVars, gateVars>>

(* Every filler under a source tag of its own. *)
MCSource == {"original", "tuned"}
MCSourceOf == [p \in MCProc |-> IF p = p1 THEN "original" ELSE "tuned"]
MCHash == {"good", "bad"}
MCCorrect == {"good"}

MCControls == {<<"both", "both">>, <<"disk", "disk">>, <<"mem", "both">>}

StoresInit ==
  /\ part \in {"oracle", "registry", "cache", "wires", "gate"}
  /\ OracleInit /\ RegistryInit /\ CacheInit /\ SharedInit /\ Init

OracleRuns ==
  /\ part = "oracle" /\ OracleNext
  /\ UNCHANGED <<part, registryVars, cacheVars, sharedVars, gateVars>>
RegistryRuns ==
  /\ part = "registry" /\ RegistryNext
  /\ UNCHANGED <<part, oracleVars, cacheVars, sharedVars, gateVars>>
CacheRuns ==
  /\ part = "cache" /\ CacheNext
  /\ UNCHANGED <<part, oracleVars, registryVars, sharedVars, gateVars>>
WiresRuns ==
  /\ part = "wires" /\ SharedNext
  /\ UNCHANGED <<part, oracleVars, registryVars, cacheVars, gateVars>>
GateRuns ==
  /\ part = "gate" /\ Next
  /\ UNCHANGED <<part, oracleVars, registryVars, cacheVars, sharedVars>>

StoresSpec ==
  /\ StoresInit
  /\ [][OracleRuns \/ RegistryRuns \/ CacheRuns \/ WiresRuns \/ GateRuns]_storesVars
=============================================================================
