--------------------------- MODULE MCAdmissionGate --------------------------
(* Two processes and two structures, one of which the oracle rejects; each *)
(* process calls twice and one of them is killed once.                     *)
EXTENDS AdmissionGate, TLC

CONSTANTS p1, p2, s1, s2, good, bad

MCProc == {p1, p2}
MCSource == {s1, s2}
MCHash == {good, bad}
MCCorrect == {good}

(* Both fillers seed the slot: source "original". *)
SharedSource == p1 :> s1 @@ p2 :> s1
=============================================================================
