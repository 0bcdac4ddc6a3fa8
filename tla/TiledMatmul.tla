----------------------------- MODULE TiledMatmul ----------------------------
(***************************************************************************)
(* cores/output_stationary_matmul.py: the tiled matrix multiplier, clock   *)
(* edge by clock edge.  A T x T tile is one element here and the tile      *)
(* engine one multiply-add: the tile-local arithmetic is the engine's, the *)
(* addressing, the accumulation over k and the control are this module's.  *)
(* The accumulator is as wide as TiledMatmulConfig demands, so that sums   *)
(* do not wrap.                                                            *)
(***************************************************************************)
EXTENDS Integers

CONSTANTS
  MT, NT, KT,  \* the matrices' sizes in tiles
  Tile,        \* the tiles the host may store
  HostAddr     \* bound: the words of the input RAM the host accesses

ASSUME SizeAssumption ==
  /\ MT \in Nat \ {0} /\ NT \in Nat \ {0} /\ KT \in Nat \ {0}
  /\ Tile \subseteq Int /\ 0 \in Tile

VARIABLES
  in_ram,    \* the A tiles row-major, then the B tiles column-major
  out_ram,   \* the C tiles row-major
  busy,      \* a multiplication is under way
  i, j, k,   \* the output tile and the K-tile the engine works on
  acc,       \* the running sum of the output tile
  held,      \* history: mode has been 1 and reset low since the start
  elapsed    \* history: edges since the start, up to Overdue

matmulVars == <<in_ram, out_ram, busy, i, j, k, acc, held, elapsed>>

(* Bound of the history counter: one edge more than a multiplication takes.*)
Overdue == MT * NT * KT + 1

InAddr  == 0 .. MT * KT + KT * NT - 1
OutAddr == 0 .. MT * NT - 1

ASSUME HostAssumption == HostAddr \subseteq InAddr

(* The addresses the controller generates. *)
AddrA == i * KT + k
AddrB == MT * KT + j * KT + k
AddrC == i * NT + j

k_last == k = KT - 1
j_last == j = NT - 1
i_last == i = MT - 1
done_now == k_last /\ j_last /\ i_last

(* fault: the accumulator is not restarted with a new output tile *)
NoRestart(a, b) == acc + a * b
(* The engine adds a product to the accumulator, or to 0 on the first tile.*)
Engine(a, b) == (IF k = 0 THEN 0 ELSE acc) + a * b

-----------------------------------------------------------------------------
(* fault: the row counter moves with the column counter *)
RowRunsAhead ==
  /\ k' = IF k_last THEN 0 ELSE k + 1
  /\ j' = IF k_last THEN (IF j_last THEN 0 ELSE j + 1) ELSE j
  /\ i' = IF k_last THEN (IF i_last THEN i ELSE i + 1) ELSE i
(* Nested counters, k fastest, then j, then i. *)
Advance ==
  /\ k' = IF k_last THEN 0 ELSE k + 1
  /\ j' = IF k_last THEN (IF j_last THEN 0 ELSE j + 1) ELSE j
  /\ i' = IF k_last /\ j_last THEN (IF i_last THEN i ELSE i + 1) ELSE i

Tick(n) == IF n < Overdue THEN n + 1 ELSE n

(* fault: a start pulse restarts a multiplication under way *)
AnyPulse(mode, start) == mode /\ start
start_compute(mode, start) == mode /\ start /\ ~busy

Restart ==
  /\ busy' = TRUE
  /\ i' = 0 /\ j' = 0 /\ k' = 0
  /\ held' = TRUE
  /\ elapsed' = 0

(* One step of the schedule: the sum grows, and on the last K-tile it is   *)
(* written out, provided the mode input still selects computing.           *)
Compute(mode, a, b) ==
  /\ acc' = Engine(a, b)
  /\ out_ram' = IF mode /\ k_last
                THEN [out_ram EXCEPT ![AddrC] = Engine(a, b)] ELSE out_ram

(* A clock edge in compute mode. *)
ComputeEdge(start) ==
  /\ IF busy THEN Compute(TRUE, in_ram[AddrA], in_ram[AddrB])
             ELSE UNCHANGED <<acc, out_ram>>
  /\ IF start_compute(TRUE, start) THEN Restart
     ELSE IF busy
     THEN Advance /\ busy' = ~done_now /\ elapsed' = Tick(elapsed)
          /\ UNCHANGED held
     ELSE UNCHANGED <<busy, i, j, k, held, elapsed>>
  /\ UNCHANGED in_ram

(* A clock edge in access mode: the host reads or writes the input RAM at  *)
(* addr; a multiplication under way is not stopped, but sees the host's    *)
(* address in place of its own for A.                                      *)
AccessEdge(addr) ==
  /\ in_ram' \in {in_ram} \cup {[in_ram EXCEPT ![addr] = data] : data \in Tile}
  /\ held' = FALSE
  /\ IF busy
     THEN /\ Compute(FALSE, in_ram[addr], in_ram[AddrB])
          /\ Advance
          /\ busy' = ~done_now
          /\ elapsed' = Tick(elapsed)
     ELSE UNCHANGED <<out_ram, busy, i, j, k, acc, elapsed>>

(* The asynchronous reset clears the registers; the RAMs keep their words. *)
Reset ==
  /\ busy' = FALSE
  /\ i' = 0 /\ j' = 0 /\ k' = 0 /\ acc' = 0
  /\ held' = FALSE
  /\ elapsed' = 0
  /\ UNCHANGED <<in_ram, out_ram>>

(* The input RAM powers up with arbitrary words. *)
Init ==
  /\ in_ram \in [InAddr -> Tile]
  /\ out_ram = [a \in OutAddr |-> 0]
  /\ busy = FALSE
  /\ i = 0 /\ j = 0 /\ k = 0 /\ acc = 0
  /\ held = FALSE
  /\ elapsed = 0

Clock ==
  \/ \E start \in BOOLEAN : ComputeEdge(start)
  \/ \E addr \in HostAddr : AccessEdge(addr)

Next == Clock \/ Reset

Spec == Init /\ [][Next]_matmulVars

(* The clock runs. *)
LiveSpec == Spec /\ WF_matmulVars(Clock)

-----------------------------------------------------------------------------
TypeOK ==
  /\ in_ram \in [InAddr -> Tile]
  /\ DOMAIN out_ram = OutAddr
  /\ busy \in BOOLEAN /\ held \in BOOLEAN
  /\ i \in 0 .. MT - 1 /\ j \in 0 .. NT - 1 /\ k \in 0 .. KT - 1
  /\ elapsed \in 0 .. MT * NT * KT

(* The sum of the first n products of C[r, c], from the host's layout of   *)
(* the operands: A[r, t] at r*KT + t, B[t, c] at MT*KT + c*KT + t.         *)
Dot(ram, r, c, n) ==
  LET sum[m \in 0 .. KT] ==
        IF m = 0 THEN 0
        ELSE sum[m - 1] + ram[r * KT + m - 1] * ram[MT * KT + c * KT + m - 1]
  IN  sum[n]

(* Output tiles completed: all of them once the multiplier is idle again.  *)
Completed == IF busy THEN i * NT + j ELSE MT * NT

(* As long as the mode input is held, every completed output tile is the   *)
(* full dot product of the operands in the RAM and the accumulator is its  *)
(* prefix for the current one: the tiles stay apart across k = 0, the last *)
(* write and a start pulse that comes too early.                           *)
ProductRight ==
  held =>
    /\ \A t \in 0 .. Completed - 1 : out_ram[t] = Dot(in_ram, t \div NT, t % NT, KT)
    /\ busy /\ k > 0 => acc = Dot(in_ram, i, j, k)

(* One K-step per cycle: the three counters together count the edges since *)
(* the start, so a multiplication takes MT*NT*KT of them, whatever the     *)
(* host does meanwhile.                                                    *)
OnSchedule ==
  busy => elapsed = (i * NT + j) * KT + k

(* A multiplication ends, also when the host changes the mode. *)
Terminates == busy ~> ~busy
=============================================================================
