--------------------------- MODULE MemoryLockstep ---------------------------
(***************************************************************************)
(* The memory primitives (primitives/primitive_memory.py, primitive_ram.py *)
(* with a registered read) described twice in the code, and clocked here   *)
(* in lockstep: the simulator's store and capture register (memory.py,     *)
(* simulator.py) and the always block of primitives/_ram_template.py.      *)
(*                                                                         *)
(* A word is split into the chunks a write mask selects.  The simulator is *)
(* two-valued; a chunk of the Verilog memory nothing has defined is X.     *)
(***************************************************************************)
EXTENDS Integers, Sequences, FiniteSets, FiniteSetsExt

CONSTANTS
  Ports,     \* number of write ports, in the order of their registration
  Depth,     \* number of words
  AddrW,     \* width of an address: some addresses may be out of range
  Chunk,     \* the chunks of a word
  Val,       \* the values of a chunk
  Zero,      \* the value of a chunk of 0
  X,         \* the undefined value of a chunk
  Inited,    \* whether the memory is constructed with initial words (of 0)
  Armed      \* whether it has a reset arm (which clears the array)

ASSUME MemoryAssumption ==
  /\ Ports \in Nat \ {0} /\ Depth \in Nat \ {0} /\ AddrW \in Nat
  /\ Zero \in Val /\ X \notin Val
  /\ Inited \in BOOLEAN /\ Armed \in BOOLEAN

Cell    == 0 .. Depth - 1
Addr    == 0 .. 2 ^ AddrW - 1
Word    == [Chunk -> Val]
WordX   == [Chunk -> Val \cup {X}]
Cleared == [c \in Chunk |-> Zero]
Unknown == [c \in Chunk |-> X]

(* What one port is driven with; a port that is not enabled masks nothing. *)
Write == [addr : Addr, data : Word, mask : SUBSET Chunk]

VARIABLES
  sim_mem,   \* the simulator's array
  sim_rd,    \* its capture register
  mem,       \* the Verilog array
  rd,        \* the Verilog register <mem>__rd0
  rst,       \* level of the design's reset line
  synced     \* history: no reset since the registers last captured together

memVars == <<sim_mem, sim_rd, mem, rd, rst, synced>>

-----------------------------------------------------------------------------
(* The simulator reads 0 out of range, the Verilog X. *)
sim_read(a) == IF a \in Cell THEN sim_mem[a] ELSE Cleared
rtl_read(a) == IF a \in Cell THEN mem[a] ELSE Unknown

Blend(old, w) == [c \in Chunk |-> IF c \in w.mask THEN w.data[c] ELSE old[c]]

(* fault: a masked write starts from the word before the edge *)
CommitAlone(writes) ==
  [a \in Cell |->
     LET hits == {p \in 1 .. Ports : writes[p].addr = a /\ writes[p].mask # {}}
     IN  IF hits = {} THEN sim_mem[a]
         ELSE Blend(sim_mem[a], writes[Max(hits)])]
(* compute_next_state drops the writes out of range; commit_next_state     *)
(* applies the others to the array one by one.                             *)
commit_next_state(writes) ==
  LET After[p \in 0 .. Ports] ==
        IF p = 0 THEN sim_mem
        ELSE IF writes[p].addr \in Cell
        THEN [After[p - 1] EXCEPT ![writes[p].addr] = Blend(@, writes[p])]
        ELSE After[p - 1]
  IN  After[Ports]

(* The nonblocking assignments of an edge: of those to one chunk the last  *)
(* one counts.                                                             *)
emit_write(writes) ==
  [a \in Cell |-> [c \in Chunk |->
     LET hits == {p \in 1 .. Ports : writes[p].addr = a /\ c \in writes[p].mask}
     IN  IF hits = {} THEN mem[a][c] ELSE writes[Max(hits)].data[c]]]

(* fault: the simulator's capture sees the words of this edge *)
CapturesLate(en, a, writes) ==
  IF rst THEN Cleared
  ELSE IF ~en THEN sim_rd
  ELSE IF a \in Cell THEN commit_next_state(writes)[a] ELSE Cleared
(* The simulator treats its capture register like any other: it loads its  *)
(* init value on an edge under reset, and else samples before the edge.    *)
sim_capture(en, a, writes) ==
  IF rst THEN Cleared ELSE IF en THEN sim_read(a) ELSE sim_rd

(* A clock edge (Simulator.step): the reset arm goes before the writes;    *)
(* neither the arm nor the reset line touches the Verilog capture.         *)
Step(arm, writes, en, a) ==
  /\ sim_mem' = IF arm THEN [x \in Cell |-> Cleared]
                ELSE commit_next_state(writes)
  /\ mem' = IF arm THEN [x \in Cell |-> Cleared] ELSE emit_write(writes)
  /\ sim_rd' = sim_capture(en, a, writes)
  /\ rd' = IF en THEN rtl_read(a) ELSE rd
  /\ synced' = (~rst /\ (synced \/ en))
  /\ UNCHANGED rst

(* Simulator.reset() raises the line and loads the init value into every   *)
(* register, the capture register too.                                     *)
Reset ==
  /\ rst' = TRUE
  /\ sim_rd' = Cleared
  /\ synced' = FALSE
  /\ UNCHANGED <<sim_mem, mem, rd>>

(* Simulator.deassert_reset(), or set() on the reset input. *)
DriveReset(level) ==
  /\ rst # level
  /\ rst' = level
  /\ UNCHANGED <<sim_mem, sim_rd, mem, rd, synced>>

MemInit ==
  /\ sim_mem = [a \in Cell |-> Cleared]
  /\ sim_rd = Cleared
  /\ mem = [a \in Cell |-> IF Inited THEN Cleared ELSE Unknown]
  /\ rd = Unknown
  /\ rst = FALSE
  /\ synced = FALSE

MemNext ==
  \/ \E arm \in {FALSE, Armed}, writes \in [1 .. Ports -> Write],
        en \in BOOLEAN, a \in Addr : Step(arm, writes, en, a)
  \/ Reset
  \/ \E level \in BOOLEAN : DriveReset(level)

MemSpec == MemInit /\ [][MemNext]_memVars

-----------------------------------------------------------------------------
(* What the hardware defines, the simulator predicts. *)
Predicts(sim, rtl) == \A c \in Chunk : rtl[c] # X => sim[c] = rtl[c]

(* "Last write wins", chunk by chunk, whatever several masked ports write  *)
(* to one word on one edge, under the reset arm and out of range: the      *)
(* array the simulator updates write by write is the array the Verilog     *)
(* assignments leave.                                                      *)
MemoriesAgree == \A a \in Cell : Predicts(sim_mem[a], mem[a])

(* The registered output is predicted too once both registers captured     *)
(* without a reset in between: both sample the word before the edge, and   *)
(* hold it while the enable is low.                                        *)
OutputAgrees == synced => Predicts(sim_rd, rd)

(* "Registered-read capture registers ... hold their value through both    *)
(* paths" of a reset: a reset does not part the registers either.          *)
ResetKeepsOutput == Predicts(sim_rd, rd)
=============================================================================
