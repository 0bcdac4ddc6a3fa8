---------------------------- MODULE BoundedQueue ----------------------------
(***************************************************************************)
(* What a synchronous FIFO promises its user, cycle by cycle and without   *)
(* any storage layout: a queue of at most Cap elements, and the registered *)
(* output, which keeps the last element popped.  In one clock cycle the    *)
(* user may offer an element, ask for one, do both or neither; an offer to *)
(* a full queue and a request to an empty one are silently ignored.  The   *)
(* request of the last cycle and the level of the reset line are part of   *)
(* what the user sees, so an implementation cannot answer another request. *)
(***************************************************************************)
EXTENDS Integers, Sequences

CONSTANTS
  Cap,      \* the most elements the queue holds
  Elem,     \* the elements
  Zero      \* what the output shows after a reset

VARIABLES
  queue,    \* the elements stored, oldest first
  out,      \* the registered output
  req,      \* the request sampled by the last clock edge
  reset     \* level of the reset line

queueVars == <<queue, out, req, reset>>

Request == [push : BOOLEAN, pop : BOOLEAN, din : Elem]

QueueInit ==
  /\ queue = <<>>
  /\ out = Zero
  /\ req \in Request
  /\ reset = TRUE

(* Whether an offer is accepted is decided by the length BEFORE the edge:  *)
(* a full queue refuses a push even in the cycle that pops it.             *)
Serve(r) ==
  LET accepted == r.push /\ Len(queue) < Cap
      served   == r.pop /\ Len(queue) > 0
      rest     == IF served THEN Tail(queue) ELSE queue
  IN  /\ queue' = IF accepted THEN Append(rest, r.din) ELSE rest
      /\ out' = IF served THEN Head(queue) ELSE out

Clear ==
  /\ queue' = <<>>
  /\ out' = Zero

(* One clock cycle. *)
Cycle(r) ==
  /\ req' = r
  /\ IF reset THEN Clear ELSE Serve(r)
  /\ UNCHANGED reset

(* The reset line rises, which clears the queue at once, or falls. *)
ResetLine ==
  /\ reset' = ~reset
  /\ IF reset THEN UNCHANGED <<queue, out>> ELSE Clear
  /\ UNCHANGED req

QueueNext == (\E r \in Request : Cycle(r)) \/ ResetLine

QueueSpec == QueueInit /\ [][QueueNext]_queueVars
=============================================================================
