------------------------ MODULE MCControlStructures ------------------------
(***************************************************************************)
(* A 2-bit opcode and a 1-bit flag, at six of their eight joint values:    *)
(* every point is computed on its own, and these hold every value of both  *)
(* and both outcomes of opcode == flag under the labels 0 and 1.  if_      *)
(* tests opcode == 0 or flag == 1; case_ lists {0} or {1, 2}, or compares  *)
(* opcode with flag, a test the analysis cannot read.                      *)
(***************************************************************************)
EXTENDS ControlStructures

CONSTANTS opcode, flag

MCSelector == {opcode, flag}
MCPoint == {<<0, 0>>, <<0, 1>>, <<1, 0>>, <<1, 1>>, <<2, 0>>, <<3, 1>>}
MCRead == [x \in MCSelector |-> [p \in MCPoint |-> IF x = opcode THEN p[1] ELSE p[2]]]
MCWidth == [x \in MCSelector |-> IF x = opcode THEN 2 ELSE 1]

Equal == OpaqueCondition({p \in MCPoint : p[1] = p[2]})
MCGuards == {EqConst(opcode, 0), EqConst(flag, 1)}
MCLabels == {{0}, {1, 2}}
MCNonConsts == {Equal}
MCSwitched == {opcode}
MCRegionModes == {"onehot", "bittree"}
=============================================================================
