---------------------------- MODULE SharedWires ----------------------------
(***************************************************************************)
(* The shared-wire state of one process (_SharedCache, expr.py): while a   *)
(* design is built, an expression used as an operand becomes a wire, and   *)
(* the same wire when it is used again.  The state is global, so the       *)
(* optimizing decorators put it aside while they build a function's logic  *)
(* (_build_component, optimize.py), flat_emit() switches the sharing off   *)
(* for a block, and the FSM optimizers note how long the list of wires is  *)
(* when their block begins and take what was added when it ends.           *)
(* Functions call decorated functions, and any of them may raise.          *)
(***************************************************************************)
EXTENDS Integers, Sequences

CONSTANTS
  Object,      \* expressions a program builds
  NoWire,
  MaxDepth,    \* bound: nesting of calls and blocks
  MaxWires,    \* bound: wires ever made
  MaxCalls2    \* bound: calls of decorated functions and blocks

ASSUME SharedAssumption ==
  /\ MaxDepth \in Nat /\ MaxWires \in Nat /\ MaxCalls2 \in Nat
  /\ NoWire = 0

VARIABLES
  uidOf,          \* per object: _cse_uid, or NoWire
  nextUid,        \* the counter uid
  counts,         \* per uid: times seen in this context
  expr2sig,       \* per uid: its wire, or NoWire
  driverOf,       \* the objects behind the wires made, by wire
  wires,          \* the wires of this context
  opportunistic,  \* whether first uses are shared
  frames,         \* calls and blocks under way, innermost last
  calls2,
  escaped         \* history: an exception has left a decorated call since
                  \* the state was last reset

sharedVars == <<uidOf, nextUid, counts, expr2sig, driverOf, wires, opportunistic,
                frames, calls2, escaped>>

Uid == 1 .. MaxWires + MaxDepth
Fresh == [u \in Uid |-> NoWire]

-----------------------------------------------------------------------------
(* fault: the counter starts again with the rest of the state *)
ResetUid == 1
(* reset() leaves the counter of uids alone. *)
UidAfterReset == nextUid

(* _create_new_shared_wire: the list grows, the table does not.            *)
NewWire(e) ==
  /\ Len(driverOf) < MaxWires
  /\ driverOf' = Append(driverOf, e)
  /\ wires' = Append(wires, Len(driverOf) + 1)

(* _maybe_share: the wire of a known uid; else, when forced, or when uses  *)
(* are shared and this is the first, a new one; else the object itself.    *)
Share(e, force) ==
  LET u == IF uidOf[e] # NoWire THEN uidOf[e] ELSE nextUid
      makes == expr2sig[u] = NoWire /\ (force \/ (opportunistic /\ counts[u] = 0)) IN
  /\ u \in Uid
  /\ uidOf' = [uidOf EXCEPT ![e] = u]
  /\ nextUid' = IF uidOf[e] = NoWire THEN nextUid + 1 ELSE nextUid
  /\ counts' = [counts EXCEPT ![u] = IF @ < 2 THEN @ + 1 ELSE @]
  /\ \/ makes /\ NewWire(e) /\ expr2sig' = [expr2sig EXCEPT ![u] = Len(driverOf) + 1]
     \/ ~makes /\ UNCHANGED <<driverOf, expr2sig, wires>>
  /\ UNCHANGED <<opportunistic, frames, calls2, escaped>>

(* A wire the table does not know. *)
UntabledWire(e) ==
  /\ NewWire(e)
  /\ UNCHANGED <<uidOf, nextUid, counts, expr2sig, opportunistic, frames, calls2, escaped>>
(* fit_type and reinterpret; the operand, and its resized form, are shared *)
(* like any other (Share).                                                 *)
HelperWire(e) == UntabledWire(e)
(* Sharing and width isolation wire a node of a netlist that is emitted.   *)
(* Whose netlist it is makes no difference: that of a decorated function   *)
(* is emitted after its state was put away (_optimize_and_cache), so its   *)
(* wires go into the caller's list.                                        *)
EmissionWire(e) == UntabledWire(e)

-----------------------------------------------------------------------------
Enter(frame) ==
  /\ Len(frames) < MaxDepth /\ calls2 < MaxCalls2
  /\ frames' = Append(frames, frame)
  /\ calls2' = calls2 + 1
Innermost == frames[Len(frames)]
Leave == frames' = SubSeq(frames, 1, Len(frames) - 1)

(* _push_shared_state *)
CallDecorated ==
  /\ Enter([kind |-> "call", counts |-> counts, expr2sig |-> expr2sig,
            wires |-> wires, flag |-> opportunistic])
  /\ counts' = Fresh /\ expr2sig' = Fresh /\ wires' = <<>>
  /\ nextUid' = UidAfterReset
  /\ UNCHANGED <<uidOf, driverOf, opportunistic, escaped>>

(* fault: the wires made in the call stay known *)
MergedSignals(old) ==
  [u \in Uid |-> IF expr2sig[u] # NoWire THEN expr2sig[u] ELSE old[u]]
(* _pop_shared_state forgets what the call made. *)
RestoredSignals(old) == old

ReturnDecorated ==
  /\ frames # <<>> /\ Innermost.kind = "call"
  /\ counts' = Innermost.counts
  /\ expr2sig' = RestoredSignals(Innermost.expr2sig)
  /\ wires' = Innermost.wires
  /\ nextUid' = UidAfterReset
  /\ Leave
  /\ UNCHANGED <<uidOf, driverOf, opportunistic, calls2, escaped>>

(* flat_emit(enabled) *)
EnterFlat(enabled) ==
  /\ Enter([kind |-> "flat", flag |-> opportunistic])
  /\ opportunistic' = ~enabled
  /\ UNCHANGED <<uidOf, nextUid, counts, expr2sig, driverOf, wires, escaped>>
LeaveFlat ==
  /\ frames # <<>> /\ Innermost.kind = "flat"
  /\ opportunistic' = Innermost.flag
  /\ Leave
  /\ UNCHANGED <<uidOf, nextUid, counts, expr2sig, driverOf, wires, calls2, escaped>>

(* The block of optimized_encoding: SharedCacheSnapshot notes the length.  *)
(* `known` is history.                                                     *)
EnterCapture ==
  /\ Enter([kind |-> "capture", start |-> Len(wires), known |-> expr2sig])
  /\ UNCHANGED <<uidOf, nextUid, counts, expr2sig, driverOf, wires, opportunistic, escaped>>
(* new_wires: what was added to the list since. *)
NewWires(start) == {wires[i] : i \in start + 1 .. Len(wires)}
LeaveCapture ==
  /\ frames # <<>> /\ Innermost.kind = "capture"
  /\ Leave
  /\ UNCHANGED <<uidOf, nextUid, counts, expr2sig, driverOf, wires, opportunistic, calls2, escaped>>

(* An exception leaves the innermost call or block: flat_emit restores the *)
(* flag in its finally, _build_component restores nothing.                 *)
RaiseOut ==
  /\ frames # <<>>
  /\ opportunistic' = IF Innermost.kind = "flat" THEN Innermost.flag ELSE opportunistic
  /\ escaped' = (escaped \/ Innermost.kind = "call")
  /\ Leave
  /\ UNCHANGED <<uidOf, nextUid, counts, expr2sig, driverOf, wires, calls2>>

(* reset_shared_cache, before another design; whatever an exception left   *)
(* behind is gone.                                                         *)
ResetShared ==
  /\ frames = <<>>
  /\ counts' = Fresh /\ expr2sig' = Fresh /\ wires' = <<>>
  /\ nextUid' = UidAfterReset
  /\ escaped' = FALSE
  /\ UNCHANGED <<uidOf, driverOf, opportunistic, frames, calls2>>

SharedInit ==
  /\ uidOf = [e \in Object |-> NoWire]
  /\ nextUid = 1
  /\ counts = Fresh /\ expr2sig = Fresh
  /\ driverOf = <<>> /\ wires = <<>>
  /\ opportunistic = TRUE
  /\ frames = <<>> /\ calls2 = 0 /\ escaped = FALSE

SharedNext ==
  \/ \E e \in Object, force \in BOOLEAN : Share(e, force)
  \/ \E e \in Object : HelperWire(e) \/ EmissionWire(e)
  \/ CallDecorated \/ ReturnDecorated
  \/ \E enabled \in BOOLEAN : EnterFlat(enabled)
  \/ LeaveFlat \/ EnterCapture \/ LeaveCapture \/ RaiseOut \/ ResetShared
SharedSpec == SharedInit /\ [][SharedNext]_sharedVars

-----------------------------------------------------------------------------
(* The wire an expression is replaced by, now or when the calls under way  *)
(* have returned, is driven by that expression, whatever was put aside and *)
(* whatever raised: another expression's wire would be another value.      *)
Known(signals) ==
  \A e \in Object : uidOf[e] # NoWire /\ signals[uidOf[e]] # NoWire =>
    driverOf[signals[uidOf[e]]] = e
WireOfItsExpression ==
  /\ Known(expr2sig)
  /\ \A i \in 1 .. Len(frames) : frames[i].kind = "call" => Known(frames[i].expr2sig)

(* The wires an FSM optimizer takes at the end of its block hold every     *)
(* wire that an expression came to be replaced by within it, although      *)
(* decorated calls put the list away and bring it back in between and      *)
(* emissions add wires of their own: a state constant behind a wire that   *)
(* is missed would keep its old code.  An exception out of a decorated     *)
(* call leaves the list of the function behind, until the next reset.      *)
Finds(found, table, known) ==
  \A u \in Uid : table[u] # NoWire => table[u] = known[u] \/ table[u] \in found
CaptureFindsAll ==
  ~escaped /\ frames # <<>> /\ Innermost.kind = "capture" =>
    Finds(NewWires(Innermost.start), expr2sig, Innermost.known)
=============================================================================
