---------------------------- MODULE FifoPrimitive ---------------------------
(***************************************************************************)
(* primitives/primitive_fifo.py: the synchronous FIFO, as the always       *)
(* blocks custom_verilog() emits.  The data array lives in a clock-only    *)
(* block of its own (so that a memory can be inferred) and is written      *)
(* whatever the reset line says; pointers, count and output register live  *)
(* in a block that an asynchronous reset clears.                           *)
(***************************************************************************)
EXTENDS Integers, Sequences

CONSTANTS
  Depth,    \* number of slots
  AddrW,    \* width of the pointers
  Item,     \* element values
  NoItem      \* the value the output register resets to

(* The constructor refuses a depth that is below two or no power of two,   *)
(* and derives the pointer width from it.                                  *)
ASSUME DepthAssumption ==
  /\ Depth \in Nat
  /\ Depth >= 2
  /\ AddrW \in Nat
  /\ Depth = 2 ^ AddrW
ASSUME ElemAssumption == NoItem \in Item

VARIABLES
  mem,      \* the storage array
  wr, rd,   \* write and read pointers, AddrW bits
  cnt,      \* occupancy, AddrW+1 bits
  dout,     \* registered output
  in,       \* the inputs push, pop, din as sampled by the last clock edge
  rst       \* level of the reset line

fifoVars == <<mem, wr, rd, cnt, dout, in, rst>>

Inputs == [push : BOOLEAN, pop : BOOLEAN, din : Item]

(* fault: refuses the last free slot *)
FullTooEarly == cnt = Depth - 1
full  == cnt = Depth
empty == cnt = 0

(* the pointers wrap by truncation to their width *)
NextPtr(p) == (p + 1) % (2 ^ AddrW)
(* the count register is one bit wider than a pointer *)
Count(c) == c % (2 * 2 ^ AddrW)

-----------------------------------------------------------------------------
(* fault: overflow not gated off *)
UngatedPush(push) == push
DoPush(push) == push /\ ~full
DoPop(pop)   == pop /\ ~empty

ClearControl ==
  /\ wr' = 0
  /\ rd' = 0
  /\ cnt' = 0
  /\ dout' = NoItem

AdvanceControl(push, pop) ==
  /\ wr' = IF DoPush(push) THEN NextPtr(wr) ELSE wr
  /\ rd' = IF DoPop(pop) THEN NextPtr(rd) ELSE rd
  /\ dout' = IF DoPop(pop) THEN mem[rd] ELSE dout
  /\ cnt' = IF DoPush(push) = DoPop(pop) THEN cnt
            ELSE IF DoPush(push) THEN Count(cnt + 1) ELSE Count(cnt - 1)

(* A rising clock edge: both blocks sample the state before the edge. *)
ClockEdge(i) ==
  /\ in' = i
  /\ mem' = IF DoPush(i.push) THEN [mem EXCEPT ![wr] = i.din] ELSE mem
  /\ IF rst THEN ClearControl ELSE AdvanceControl(i.push, i.pop)
  /\ UNCHANGED rst

(* A rising edge of the asynchronous reset clears the control block only. *)
AssertReset ==
  /\ ~rst
  /\ rst' = TRUE
  /\ ClearControl
  /\ UNCHANGED <<mem, in>>

DeassertReset ==
  /\ rst
  /\ rst' = FALSE
  /\ UNCHANGED <<mem, wr, rd, cnt, dout, in>>

(* The array powers up with arbitrary contents.  The control registers are *)
(* unknown until the first reset, so a behaviour starts with it asserted.  *)
FifoInit ==
  /\ mem \in [0 .. Depth - 1 -> Item]
  /\ wr = 0 /\ rd = 0 /\ cnt = 0 /\ dout = NoItem
  /\ in \in Inputs
  /\ rst = TRUE

FifoNext ==
  \/ \E i \in Inputs : ClockEdge(i)
  \/ AssertReset
  \/ DeassertReset

FifoSpec == FifoInit /\ [][FifoNext]_fifoVars

-----------------------------------------------------------------------------
(* Every register holds a value of its declared width. *)
FifoTypeOK ==
  /\ mem \in [0 .. Depth - 1 -> Item]
  /\ wr \in 0 .. Depth - 1
  /\ rd \in 0 .. Depth - 1
  /\ cnt \in 0 .. 2 * Depth - 1
  /\ dout \in Item
  /\ in \in Inputs
  /\ rst \in BOOLEAN

(* The i-th slot from the read pointer, around the array's end. *)
Slot(i) == IF rd + i < Depth THEN rd + i ELSE rd + i - Depth

(* Three registers updated by three separate statements stay one fact: the *)
(* write pointer is cnt slots past the read pointer and cnt never leaves   *)
(* 0..depth, which is what makes full and empty mean what they say although *)
(* wr = rd holds in both (the do_push/do_pop gating, the case on {dpu,dpo}).*)
PointersAgree ==
  /\ cnt \in 0 .. Depth
  /\ wr = (rd + cnt) % Depth

(* The elements in flight, oldest first. *)
Contents == [i \in 1 .. cnt |-> mem[Slot(i - 1)]]

Queue == INSTANCE BoundedQueue WITH
  Cap <- Depth, Elem <- Item, Zero <- NoItem,
  queue <- Contents, out <- dout, req <- in, reset <- rst

(* The ring buffer implements the bounded queue: no element is lost,       *)
(* duplicated or reordered by wrap-around, simultaneous push and pop, or a *)
(* write that lands while reset is held (custom_verilog's two blocks).     *)
ImplementsQueue == Queue!QueueSpec
=============================================================================
