---------------------------- MODULE HardwareProofs ----------------------------
(***************************************************************************)
(* What holds of hardware of any size: the ring-buffer FIFO, for every     *)
(* power-of-two depth and every set of elements, the tiled multiplier, for *)
(* matrices of any size and any contents, and the prefix adders, for every *)
(* width, every network and every order of repairing it.                   *)
(***************************************************************************)
EXTENDS FifoPrimitive, TiledMatmul, PrefixLegalization, SequenceTheorems,
        FiniteRecursion, TLAPS

-----------------------------------------------------------------------------
(* The FIFO (FifoPrimitive).                                               *)

(* The inductive invariant: register widths, and the agreement of the      *)
(* three registers that describe the occupancy.                            *)
FifoInv == FifoTypeOK /\ PointersAgree

-----------------------------------------------------------------------------
(* Truncating an incremented pointer is a wrap at the last slot. *)
LEMMA NextPtrWraps ==
  ASSUME NEW p \in 0 .. Depth - 1
  PROVE  NextPtr(p) = IF p = Depth - 1 THEN 0 ELSE p + 1
BY DepthAssumption DEF NextPtr

(* The remainder of a sum of a pointer and an occupancy. *)
LEMMA SumWraps ==
  ASSUME NEW p \in 0 .. Depth - 1, NEW c \in 0 .. Depth
  PROVE  (p + c) % Depth = IF p + c < Depth THEN p + c ELSE p + c - Depth
BY DepthAssumption

(* Neither form of the occupancy update leaves the count's width. *)
LEMMA CountFits ==
  ASSUME NEW c \in 0 .. Depth
  PROVE  Count(c) = c
BY DepthAssumption DEF Count

-----------------------------------------------------------------------------
LEMMA InitFifoInv == FifoInit => FifoInv
<1> SUFFICES ASSUME FifoInit PROVE FifoInv
  OBVIOUS
<1>1. FifoTypeOK
  BY DepthAssumption, ElemAssumption DEF FifoInit, FifoTypeOK
<1>2. PointersAgree
  BY <1>1, SumWraps, DepthAssumption DEF FifoInit, PointersAgree, FifoTypeOK
<1> QED
  BY <1>1, <1>2 DEF FifoInv

(* The clock edge keeps the invariant: one case per combination of an      *)
(* accepted push and an accepted pop.                                      *)
LEMMA ClockFifoInv ==
  ASSUME FifoInv, NEW d \in Inputs,
         ClockEdge(d)
  PROVE  FifoInv'
<1> USE DepthAssumption
<1>1. /\ mem' \in [0 .. Depth - 1 -> Item]
      /\ in' \in Inputs
      /\ rst' \in BOOLEAN
  BY DEF ClockEdge, Inputs, FifoInv, FifoTypeOK
<1>2. CASE rst
  <2>1. wr' = 0 /\ rd' = 0 /\ cnt' = 0 /\ dout' = NoItem
    BY <1>2 DEF ClockEdge, ClearControl
  <2> QED
    BY <1>1, <2>1, ElemAssumption DEF FifoInv, FifoTypeOK, PointersAgree
<1>3. CASE ~rst
  <2>1. AdvanceControl(d.push, d.pop)
    BY <1>3 DEF ClockEdge
  <2>2. dout' \in Item
    BY <2>1 DEF AdvanceControl, FifoInv, FifoTypeOK
  <2>3. wr' = IF DoPush(d.push) THEN IF wr = Depth - 1 THEN 0 ELSE wr + 1 ELSE wr
    BY <2>1, NextPtrWraps DEF AdvanceControl, FifoInv, FifoTypeOK
  <2>4. rd' = IF DoPop(d.pop) THEN IF rd = Depth - 1 THEN 0 ELSE rd + 1 ELSE rd
    BY <2>1, NextPtrWraps DEF AdvanceControl, FifoInv, FifoTypeOK
  <2>5. wr = IF rd + cnt < Depth THEN rd + cnt ELSE rd + cnt - Depth
    BY SumWraps DEF FifoInv, FifoTypeOK, PointersAgree
  <2>6. cnt' = IF DoPush(d.push) = DoPop(d.pop) THEN cnt
               ELSE IF DoPush(d.push) THEN cnt + 1 ELSE cnt - 1
    BY <2>1, CountFits
    DEF AdvanceControl, DoPush, DoPop, full, empty, FifoInv, PointersAgree
  <2>7. cnt' \in 0 .. Depth
    BY <2>6 DEF DoPush, DoPop, full, empty, FifoInv, PointersAgree
  <2>8. wr' \in 0 .. Depth - 1 /\ rd' \in 0 .. Depth - 1
    BY <2>3, <2>4 DEF FifoInv, FifoTypeOK
  <2>9. wr' = IF rd' + cnt' < Depth THEN rd' + cnt' ELSE rd' + cnt' - Depth
    BY <2>3, <2>4, <2>5, <2>6
    DEF DoPush, DoPop, full, empty, FifoInv, FifoTypeOK, PointersAgree
  <2>10. PointersAgree'
    BY <2>7, <2>8, <2>9, SumWraps DEF PointersAgree
  <2> QED
    BY <1>1, <2>2, <2>7, <2>8, <2>10 DEF FifoInv, FifoTypeOK
<1> QED
  BY <1>2, <1>3

LEMMA NextFifoInv == FifoInv /\ [FifoNext]_fifoVars => FifoInv'
<1> SUFFICES ASSUME FifoInv, [FifoNext]_fifoVars PROVE FifoInv'
  OBVIOUS
<1> USE DepthAssumption
<1>1. ASSUME NEW d \in Inputs,
             ClockEdge(d)
      PROVE  FifoInv'
  BY <1>1, ClockFifoInv
<1>2. CASE AssertReset
  <2>1. /\ wr' = 0 /\ rd' = 0 /\ cnt' = 0 /\ dout' = NoItem
        /\ mem' = mem /\ in' = in /\ rst' = TRUE
    BY <1>2 DEF AssertReset, ClearControl
  <2> QED
    BY <2>1, ElemAssumption DEF FifoInv, FifoTypeOK, PointersAgree
<1>3. CASE DeassertReset
  BY <1>3 DEF DeassertReset, FifoInv, FifoTypeOK, PointersAgree
<1>4. CASE UNCHANGED fifoVars
  BY <1>4 DEF fifoVars, FifoInv, FifoTypeOK, PointersAgree
<1> QED
  BY <1>1, <1>2, <1>3, <1>4 DEF FifoNext

(* Every register of the FIFO always holds a value of its declared width. *)
THEOREM FifoTypeCorrect == FifoSpec => []FifoTypeOK
<1>1. FifoInv => FifoTypeOK
  BY DEF FifoInv
<1> QED
  BY <1>1, InitFifoInv, NextFifoInv, PTL DEF FifoSpec

(* The pointers and the count always describe the same occupancy, and the  *)
(* count never exceeds the depth, so full and empty are exact.             *)
THEOREM FifoPointersAgree == FifoSpec => []PointersAgree
<1>1. FifoInv => PointersAgree
  BY DEF FifoInv
<1> QED
  BY <1>1, InitFifoInv, NextFifoInv, PTL DEF FifoSpec

-----------------------------------------------------------------------------
(* The elements in flight form a sequence whose length is the count. *)
ContentsFacts ==
  /\ Contents \in Seq(Item)
  /\ Len(Contents) = cnt
  /\ \A n \in 1 .. cnt : Contents[n] = mem[Slot(n - 1)]

LEMMA ContentsSeq == FifoInv => ContentsFacts
<1> SUFFICES ASSUME FifoInv PROVE ContentsFacts
  OBVIOUS
<1>1. cnt \in Nat
  BY DepthAssumption DEF FifoInv, PointersAgree
<1>2. \A n \in 1 .. cnt : mem[Slot(n - 1)] \in Item
  BY DepthAssumption DEF FifoInv, FifoTypeOK, PointersAgree, Slot
<1>3. Contents \in [1 .. cnt -> Item]
  BY <1>2 DEF Contents
<1>4. Contents \in Seq(Item)
  BY <1>1, <1>3, SeqDef
<1> QED
  BY <1>1, <1>3, <1>4 DEF Contents, ContentsFacts

(* With reset low, the clock edge is one cycle of the bounded queue. *)
LEMMA EdgeIsCycle ==
  ASSUME FifoInv, NEW d \in Inputs,
         ClockEdge(d), ~rst
  PROVE  Queue!Serve(d)
<1> USE DepthAssumption
<1> DEFINE accepted == DoPush(d.push)
           served   == DoPop(d.pop)
           rest     == IF served THEN Tail(Contents) ELSE Contents
           next     == IF accepted THEN Append(rest, d.din) ELSE rest
           first    == IF served THEN 1 ELSE 0
<1>0. d.push \in BOOLEAN /\ d.pop \in BOOLEAN /\ d.din \in Item
  BY DEF Inputs
<1>1. FifoInv'
  BY ClockFifoInv
<1>2. AdvanceControl(d.push, d.pop)
  BY DEF ClockEdge
<1>3. /\ Contents \in Seq(Item) /\ Len(Contents) = cnt
      /\ \A n \in 1 .. cnt : Contents[n] = mem[Slot(n - 1)]
  BY ContentsSeq DEF ContentsFacts
<1>4. ContentsFacts'
  <2>1. (FifoInv => ContentsFacts)'
    BY ContentsSeq, PTL
  <2> QED
    BY <1>1, <2>1
<1>5. /\ rest \in Seq(Item) /\ Len(rest) = cnt - first
      /\ \A n \in 1 .. cnt - first : rest[n] = mem[Slot(n - 1 + first)]
  <2>1. CASE served
    <3>1. Contents # <<>>
      BY <1>3, <2>1 DEF DoPop, empty
    <3>2. /\ Tail(Contents) \in Seq(Item)
          /\ Len(Tail(Contents)) = cnt - 1
          /\ \A n \in 1 .. cnt - 1 : Tail(Contents)[n] = Contents[n + 1]
      BY <1>3, <3>1, HeadTailProperties
    <3>3. \A n \in 1 .. cnt - 1 : Contents[n + 1] = mem[Slot(n)]
      BY <1>3 DEF FifoInv, PointersAgree
    <3> QED
      BY <2>1, <3>2, <3>3 DEF FifoInv, PointersAgree
  <2>2. CASE ~served
    BY <1>3, <2>2 DEF FifoInv, PointersAgree
  <2> QED
    BY <2>1, <2>2
<1>6. cnt' = cnt - first + (IF accepted THEN 1 ELSE 0)
  BY <1>2, CountFits
  DEF AdvanceControl, DoPush, DoPop, full, empty, FifoInv, PointersAgree
<1>7. /\ next \in Seq(Item) /\ Len(next) = cnt'
      /\ \A n \in 1 .. cnt' :
           next[n] = IF n <= cnt - first THEN mem[Slot(n - 1 + first)] ELSE d.din
  <2>1. cnt - first \in Nat
    BY DEF DoPop, empty, FifoInv, PointersAgree
  <2>2. CASE accepted
    <3>1. /\ Append(rest, d.din) \in Seq(Item)
          /\ Len(Append(rest, d.din)) = cnt - first + 1
          /\ \A n \in 1 .. cnt - first : Append(rest, d.din)[n] = rest[n]
          /\ Append(rest, d.din)[cnt - first + 1] = d.din
      BY <1>0, <1>5, <2>1, AppendProperties
    <3> QED
      BY <1>5, <1>6, <2>1, <2>2, <3>1
  <2>3. CASE ~accepted
    BY <1>5, <1>6, <2>1, <2>3
  <2> QED
    BY <2>2, <2>3
<1>8. ASSUME NEW n \in 1 .. cnt'
      PROVE  Contents'[n] = next[n]
  <2>1. wr = IF rd + cnt < Depth THEN rd + cnt ELSE rd + cnt - Depth
    BY SumWraps DEF FifoInv, FifoTypeOK, PointersAgree
  <2>2. rd' = IF served THEN IF rd = Depth - 1 THEN 0 ELSE rd + 1 ELSE rd
    BY <1>2, NextPtrWraps DEF AdvanceControl, FifoInv, FifoTypeOK
  <2>3. Slot(n - 1)' = Slot(n - 1 + first)
    BY <2>2, <1>6
    DEF Slot, FifoInv, FifoTypeOK, PointersAgree, DoPush, DoPop, full, empty
  <2>4. mem' = IF accepted THEN [mem EXCEPT ![wr] = d.din] ELSE mem
    BY DEF ClockEdge
  <2>5. CASE n <= cnt - first
    <3>1. accepted => Slot(n - 1 + first) # wr
      BY <2>1, <2>5 DEF Slot, FifoInv, FifoTypeOK, PointersAgree, DoPush, full
    <3>2. Slot(n - 1 + first) \in 0 .. Depth - 1
      BY <2>5 DEF Slot, FifoInv, FifoTypeOK, PointersAgree
    <3>3. mem'[Slot(n - 1 + first)] = mem[Slot(n - 1 + first)]
      BY <2>4, <3>1, <3>2 DEF FifoInv, FifoTypeOK
    <3> QED
      BY <1>4, <1>7, <2>3, <2>5, <3>3 DEF ContentsFacts
  <2>6. CASE ~(n <= cnt - first)
    <3>1. accepted /\ n = cnt - first + 1
      BY <1>6, <2>6 DEF FifoInv, PointersAgree, DoPop, empty
    <3>2. Slot(n - 1 + first) = wr
      BY <2>1, <3>1 DEF Slot, FifoInv, FifoTypeOK, PointersAgree
    <3>3. mem'[wr] = d.din
      BY <2>4, <3>1 DEF FifoInv, FifoTypeOK
    <3> QED
      BY <1>4, <1>7, <2>3, <2>6, <3>2, <3>3 DEF ContentsFacts
  <2> QED
    BY <2>5, <2>6
<1>9. Contents' = next
  BY <1>4, <1>7, <1>8, SeqEqual DEF ContentsFacts
<1>10. dout' = IF served THEN Head(Contents) ELSE dout
  <2>1. served => Head(Contents) = mem[rd]
    BY <1>3 DEF Slot, DoPop, empty, FifoInv, FifoTypeOK, PointersAgree
  <2> QED
    BY <1>2, <2>1 DEF AdvanceControl
<1>11. /\ accepted <=> d.push /\ Len(Contents) < Depth
       /\ served <=> d.pop /\ Len(Contents) > 0
  BY <1>3 DEF DoPush, DoPop, full, empty, FifoInv, PointersAgree
<1> QED
  BY <1>9, <1>10, <1>11 DEF Queue!Serve

(* A cleared control block is a cleared queue. *)
LEMMA ClearIsClear == ClearControl => Queue!Clear
<1> SUFFICES ASSUME ClearControl PROVE Queue!Clear
  OBVIOUS
<1>1. Contents' = <<>>
  BY DEF ClearControl, Contents
<1> QED
  BY <1>1 DEF ClearControl, Queue!Clear

LEMMA InitIsQueueInit == FifoInit => Queue!QueueInit
BY DEF FifoInit, Inputs, Contents, Queue!QueueInit, Queue!Request

LEMMA StepIsQueueStep ==
  FifoInv /\ [FifoNext]_fifoVars => [Queue!QueueNext]_(Queue!queueVars)
<1> SUFFICES ASSUME FifoInv, [FifoNext]_fifoVars
             PROVE  [Queue!QueueNext]_(Queue!queueVars)
  OBVIOUS
<1>1. ASSUME NEW d \in Inputs,
             ClockEdge(d)
      PROVE  Queue!QueueNext
  <2>1. CASE rst
    BY <1>1, <2>1, ClearIsClear
    DEF ClockEdge, Inputs, Queue!QueueNext, Queue!Cycle, Queue!Request
  <2>2. CASE ~rst
    BY <1>1, <2>2, EdgeIsCycle
    DEF ClockEdge, Inputs, Queue!QueueNext, Queue!Cycle, Queue!Request
  <2> QED
    BY <2>1, <2>2
<1>2. CASE AssertReset
  BY <1>2, ClearIsClear DEF AssertReset, Queue!QueueNext, Queue!ResetLine
<1>3. CASE DeassertReset \/ UNCHANGED fifoVars
  <2>1. UNCHANGED <<mem, rd, cnt, dout, in>>
    BY <1>3 DEF DeassertReset, fifoVars
  <2>2. Contents' = Contents
    BY <2>1 DEF Contents, Slot
  <2>3. CASE DeassertReset
    BY <2>1, <2>2, <2>3 DEF DeassertReset, Queue!QueueNext, Queue!ResetLine
  <2>4. CASE UNCHANGED fifoVars
    BY <2>1, <2>2, <2>4 DEF fifoVars, Queue!queueVars
  <2> QED
    BY <1>3, <2>3, <2>4
<1> QED
  BY <1>1, <1>2, <1>3 DEF FifoNext

(* The ring buffer implements the bounded queue for every power-of-two     *)
(* depth: a user of the FIFO sees exactly the abstract queue, whatever the *)
(* pointers' position and whenever reset is asserted.                      *)
THEOREM FifoImplementsQueue == FifoSpec => ImplementsQueue
<1> QED
  BY InitFifoInv, NextFifoInv, InitIsQueueInit, StepIsQueueStep, PTL
  DEF FifoSpec, ImplementsQueue, Queue!QueueSpec

-----------------------------------------------------------------------------
(* The schedule and the results of the multiplier (TiledMatmul).           *)

(* A pair of counters, the second one bounded by B, counts to A * B. *)
LEMMA PairCounts ==
  ASSUME NEW A \in Nat \ {0}, NEW B \in Nat \ {0},
         NEW a \in 0 .. A - 1, NEW b \in 0 .. B - 1
  PROVE  a * B + b \in 0 .. A * B - 1
<1>1. a * B \in Nat /\ A * B \in Nat /\ (A - 1) * B = A * B - B
  OBVIOUS
<1>2. a * B <= (A - 1) * B
  OBVIOUS
<1> QED
  BY <1>1, <1>2

(* The step of the engine in the whole schedule. *)
Position == (i * NT + j) * KT + k

LEMMA PositionTyped ==
  ASSUME TypeOK
  PROVE  Position \in 0 .. MT * NT * KT - 1
<1>1. i * NT + j \in 0 .. MT * NT - 1 /\ MT * NT \in Nat \ {0}
  <2>1. i * NT + j \in 0 .. MT * NT - 1
    BY SizeAssumption, PairCounts DEF TypeOK
  <2> QED
    BY <2>1, SizeAssumption
<1> QED
  BY <1>1, SizeAssumption, PairCounts DEF TypeOK, Position

(* The counters advance together: by one, unless the schedule is at its    *)
(* end.                                                                    *)
LEMMA AdvanceCounts ==
  ASSUME TypeOK, Advance
  PROVE  /\ i' \in 0 .. MT - 1 /\ j' \in 0 .. NT - 1 /\ k' \in 0 .. KT - 1
         /\ ~done_now => Position' = Position + 1
<1> USE SizeAssumption DEF TypeOK, k_last, j_last, i_last
<1>1. i' \in 0 .. MT - 1 /\ j' \in 0 .. NT - 1 /\ k' \in 0 .. KT - 1
  BY DEF Advance
<1>2. CASE ~k_last
  BY <1>2 DEF Advance, Position
<1>3. CASE k_last /\ ~j_last
  <2>1. i' = i /\ j' = j + 1 /\ k' = 0
    BY <1>3 DEF Advance
  <2>2. (i * NT + j + 1) * KT = (i * NT + j) * KT + KT
    OBVIOUS
  <2> QED
    BY <1>1, <1>3, <2>1, <2>2 DEF Position
<1>4. CASE k_last /\ j_last /\ ~i_last
  <2>1. i' = i + 1 /\ j' = 0 /\ k' = 0
    BY <1>4 DEF Advance
  <2>2. (i + 1) * NT = i * NT + j + 1
    BY <1>4
  <2>3. (i * NT + j + 1) * KT = (i * NT + j) * KT + KT
    OBVIOUS
  <2> QED
    BY <1>1, <1>4, <2>1, <2>2, <2>3 DEF Position
<1> QED
  BY <1>1, <1>2, <1>3, <1>4 DEF done_now

-----------------------------------------------------------------------------
(* The inductive invariant: without the schedule, nothing bounds elapsed.  *)
ScheduleInv == TypeOK /\ OnSchedule

LEMMA ScheduleInvInit == ASSUME Init PROVE ScheduleInv
<1>1. MT * NT * KT \in Nat /\ 0 \in 0 .. MT * NT * KT
  <2>1. MT * NT * KT \in Nat
    BY SizeAssumption
  <2> QED
    BY <2>1
<1>2. 0 \in 0 .. MT - 1 /\ 0 \in 0 .. NT - 1 /\ 0 \in 0 .. KT - 1
  BY SizeAssumption
<1>3. in_ram \in [InAddr -> Tile]
  BY SizeAssumption DEF Init
<1>4. DOMAIN out_ram = OutAddr
  BY DEF Init
<1>5. TypeOK
  BY <1>1, <1>2, <1>3, <1>4 DEF Init, TypeOK
<1> QED
  BY <1>5 DEF Init, ScheduleInv, OnSchedule

(* One busy edge, in either mode. *)
LEMMA BusyStep ==
  ASSUME ScheduleInv, busy, Advance, busy' = ~done_now, elapsed' = Tick(elapsed)
  PROVE  /\ i' \in 0 .. MT - 1 /\ j' \in 0 .. NT - 1 /\ k' \in 0 .. KT - 1
         /\ elapsed' \in 0 .. MT * NT * KT
         /\ OnSchedule'
<1>1. TypeOK /\ elapsed = Position /\ Position \in 0 .. MT * NT * KT - 1
  BY PositionTyped DEF ScheduleInv, OnSchedule, Position
<1>2. MT * NT * KT \in Nat
  BY SizeAssumption
<1>3. elapsed' = elapsed + 1 /\ elapsed' \in 0 .. MT * NT * KT
  BY <1>1, <1>2 DEF Tick, Overdue
<1>4. busy' => Position' = Position + 1
  BY <1>1, AdvanceCounts
<1>5. OnSchedule'
  BY <1>1, <1>3, <1>4 DEF OnSchedule, Position
<1> QED
  BY <1>1, <1>3, <1>5, AdvanceCounts

LEMMA ScheduleInvStep ==
  ASSUME ScheduleInv, [Next]_matmulVars
  PROVE  ScheduleInv'
<1>0. TypeOK /\ OnSchedule /\ MT * NT * KT \in Nat
  BY SizeAssumption DEF ScheduleInv
<1>1. ASSUME NEW start \in BOOLEAN, ComputeEdge(start) PROVE ScheduleInv'
  <2>1. in_ram' = in_ram /\ DOMAIN out_ram' = OutAddr
    BY <1>0, <1>1 DEF ComputeEdge, Compute, TypeOK
  <2>2. CASE busy
    <3>1. Advance /\ busy' = ~done_now /\ elapsed' = Tick(elapsed) /\ held' = held
      BY <1>1, <2>2 DEF ComputeEdge, start_compute
    <3>2. busy' \in BOOLEAN
      BY <3>1 DEF done_now
    <3> QED
      BY <1>0, <2>1, <2>2, <3>1, <3>2, BusyStep DEF ScheduleInv, TypeOK
  <2>3. CASE ~busy /\ start
    <3>1. Restart
      BY <1>1, <2>3 DEF ComputeEdge, start_compute
    <3>2. 0 * NT + 0 = 0 /\ 0 * KT + 0 = 0
      BY SizeAssumption
    <3> QED
      BY <1>0, <2>1, <3>1, <3>2, SizeAssumption
      DEF Restart, ScheduleInv, TypeOK, OnSchedule
  <2>4. CASE ~busy /\ ~start
    BY <1>0, <1>1, <2>1, <2>4
    DEF ComputeEdge, start_compute, ScheduleInv, TypeOK, OnSchedule
  <2> QED
    BY <2>2, <2>3, <2>4
<1>2. ASSUME NEW addr \in HostAddr, AccessEdge(addr)
      PROVE  ScheduleInv'
  <2>1. in_ram' \in [InAddr -> Tile] /\ DOMAIN out_ram' = OutAddr /\ held' = FALSE
    BY <1>0, <1>2 DEF AccessEdge, Compute, TypeOK
  <2>2. CASE busy
    <3>1. Advance /\ busy' = ~done_now /\ elapsed' = Tick(elapsed)
      BY <1>2, <2>2 DEF AccessEdge
    <3>2. busy' \in BOOLEAN
      BY <3>1 DEF done_now
    <3> QED
      BY <2>1, <2>2, <3>1, <3>2, BusyStep DEF ScheduleInv, TypeOK
  <2>3. CASE ~busy
    BY <1>0, <1>2, <2>1, <2>3 DEF AccessEdge, ScheduleInv, TypeOK, OnSchedule
  <2> QED
    BY <2>2, <2>3
<1>3. ASSUME Reset PROVE ScheduleInv'
  <2>1. 0 \in 0 .. MT - 1 /\ 0 \in 0 .. NT - 1 /\ 0 \in 0 .. KT - 1
    BY SizeAssumption
  <2>2. 0 \in 0 .. MT * NT * KT
    BY <1>0
  <2>3. in_ram' \in [InAddr -> Tile] /\ DOMAIN out_ram' = OutAddr
    BY <1>0, <1>3 DEF Reset, TypeOK
  <2>4. TypeOK'
    BY <1>3, <2>1, <2>2, <2>3 DEF Reset, TypeOK
  <2> QED
    BY <1>3, <2>4 DEF Reset, ScheduleInv, OnSchedule
<1>4. CASE UNCHANGED matmulVars
  BY <1>0, <1>4 DEF matmulVars, ScheduleInv, TypeOK, OnSchedule
<1> QED
  BY <1>1, <1>2, <1>3, <1>4 DEF Next, Clock

(* Counters, mode and the steps since the start fit together throughout.   *)
THEOREM ScheduleInvHolds == Spec => []ScheduleInv
  BY ScheduleInvInit, ScheduleInvStep, PTL DEF Spec

(* Counters, addresses and RAM words stay in range for every matrix size,  *)
(* and no multiplication takes longer than MT*NT*KT edges.                 *)
THEOREM MatmulTypeOK == Spec => []TypeOK
  BY ScheduleInvHolds, PTL DEF ScheduleInv

(* One K-step per cycle for every matrix size, whatever the host does with *)
(* the mode, the start pulse and the reset.                                *)
THEOREM MatmulOnSchedule == Spec => []OnSchedule
  BY ScheduleInvHolds, PTL DEF ScheduleInv

-----------------------------------------------------------------------------
(* Row and column of an output address. *)
LEMMA RowAndColumn ==
  ASSUME NEW B \in Nat \ {0}, NEW a \in Nat, NEW b \in 0 .. B - 1
  PROVE  (a * B + b) \div B = a /\ (a * B + b) % B = b
OBVIOUS

(* The addresses of the controller are words of the RAMs. *)
LEMMA AddressesTyped ==
  ASSUME TypeOK, NEW r \in 0 .. MT - 1, NEW c \in 0 .. NT - 1, NEW t \in 0 .. KT - 1
  PROVE  /\ r * KT + t \in InAddr /\ MT * KT + c * KT + t \in InAddr
         /\ r * NT + c \in OutAddr
<1>1. r * KT + t \in 0 .. MT * KT - 1 /\ c * KT + t \in 0 .. NT * KT - 1
  BY SizeAssumption, PairCounts
<1>2. r * NT + c \in 0 .. MT * NT - 1
  BY SizeAssumption, PairCounts
<1>3. MT * KT \in Nat /\ NT * KT \in Nat /\ NT * KT = KT * NT /\ c * KT \in Nat
  BY SizeAssumption
<1> QED
  BY <1>1, <1>2, <1>3 DEF InAddr, OutAddr

-----------------------------------------------------------------------------
(* The sums of C[r, c], one for every number of products. *)
IsSum(g, ram, r, c) ==
  g = [m \in 0 .. KT |-> IF m = 0 THEN 0
                         ELSE g[m - 1] + ram[r * KT + m - 1]
                                       * ram[MT * KT + c * KT + m - 1]]

LEMMA SumExists ==
  ASSUME TypeOK, NEW ram \in [InAddr -> Tile], NEW r \in 0 .. MT - 1, NEW c \in 0 .. NT - 1
  PROVE  \E g \in [0 .. KT -> Int] : IsSum(g, ram, r, c)
<1> DEFINE product(m) == ram[r * KT + m - 1] * ram[MT * KT + c * KT + m - 1]
           next == [m \in 1 .. KT |-> [v \in Int |-> v + product(m)]]
<1>1. KT \in Nat /\ 0 \in Int
  BY SizeAssumption
<1>2. ASSUME NEW m \in 1 .. KT
      PROVE  product(m) \in Int
  <2>1. m - 1 \in 0 .. KT - 1
    BY <1>1
  <2>2. r * KT + (m - 1) \in InAddr /\ MT * KT + c * KT + (m - 1) \in InAddr
    BY <2>1, AddressesTyped
  <2>3. r * KT + (m - 1) = r * KT + m - 1 /\ MT * KT + c * KT + (m - 1) = MT * KT + c * KT + m - 1
    BY SizeAssumption
  <2>4. \A a \in InAddr : ram[a] \in Int
    BY SizeAssumption
  <2>5. ram[r * KT + m - 1] \in Int /\ ram[MT * KT + c * KT + m - 1] \in Int
    BY <2>2, <2>3, <2>4
  <2> QED
    BY <2>5
<1> HIDE DEF product
<1>3. next \in [1 .. KT -> [Int -> Int]]
  BY <1>2
<1>4. \A m \in 1 .. KT, v \in Int : next[m][v] = v + product(m)
  OBVIOUS
<1> HIDE DEF next
<1>5. PICK g \in [0 .. KT -> Int] : IsRun(g, KT, 0, next)
  BY <1>1, <1>3, RecursionExists
<1>6. \A m \in 1 .. KT : g[m] = g[m - 1] + product(m)
  BY <1>1, <1>4, <1>5 DEF IsRun
<1>7. g = [m \in 0 .. KT |-> IF m = 0 THEN 0 ELSE g[m - 1] + product(m)]
  BY <1>1, <1>5, <1>6 DEF IsRun
<1>8. IsSum(g, ram, r, c)
  BY <1>7 DEF IsSum, product
<1> QED
  BY <1>8

(* A sum is the one before and a product. *)
LEMMA DotSteps ==
  ASSUME TypeOK, NEW ram \in [InAddr -> Tile], NEW r \in 0 .. MT - 1, NEW c \in 0 .. NT - 1
  PROVE  /\ Dot(ram, r, c, 0) = 0
         /\ \A n \in 0 .. KT - 1 :
              Dot(ram, r, c, n + 1)
                = Dot(ram, r, c, n) + ram[r * KT + n] * ram[MT * KT + c * KT + n]
<1> DEFINE f == CHOOSE g : IsSum(g, ram, r, c)
<1>1. \A n : Dot(ram, r, c, n) = f[n]
  BY DEF Dot, IsSum
<1>2. IsSum(f, ram, r, c)
  BY SumExists
<1> HIDE DEF f
<1>3. KT \in Nat /\ 0 \in 0 .. KT
  BY SizeAssumption
<1>4. f[0] = 0
  BY <1>2, <1>3 DEF IsSum
<1>5. ASSUME NEW n \in 0 .. KT - 1
      PROVE  f[n + 1] = f[n] + ram[r * KT + n] * ram[MT * KT + c * KT + n]
  <2>1. n + 1 \in 0 .. KT /\ n + 1 # 0 /\ (n + 1) - 1 = n
    BY <1>3
  <2>2. r * KT + (n + 1) - 1 = r * KT + n /\ MT * KT + c * KT + (n + 1) - 1 = MT * KT + c * KT + n
    BY SizeAssumption
  <2> QED
    BY <1>2, <2>1, <2>2 DEF IsSum
<1> QED
  BY <1>1, <1>4, <1>5

-----------------------------------------------------------------------------
(* What the results rest on: the schedule, integers in the registers, and  *)
(* the sums of the tiles done and under way.                               *)
MatmulInv ==
  /\ ScheduleInv
  /\ acc \in Int /\ out_ram \in [OutAddr -> Int]
  /\ ProductRight

(* Every step of the engine multiplies words of the input RAM. *)
LEMMA EngineTyped ==
  ASSUME TypeOK, acc \in Int, NEW a \in InAddr, NEW b \in InAddr
  PROVE  Engine(in_ram[a], in_ram[b]) \in Int
<1>1. in_ram[a] \in Int /\ in_ram[b] \in Int
  BY SizeAssumption DEF TypeOK
<1>2. in_ram[a] * in_ram[b] \in Int
  BY <1>1
<1> QED
  BY <1>2 DEF Engine

(* With the mode held, a step extends the sum of the tile under way. *)
LEMMA EngineRight ==
  ASSUME MatmulInv, held, busy
  PROVE  Engine(in_ram[AddrA], in_ram[AddrB]) = Dot(in_ram, i, j, k + 1)
<1>1. /\ TypeOK /\ in_ram \in [InAddr -> Tile] /\ acc \in Int
      /\ i \in 0 .. MT - 1 /\ j \in 0 .. NT - 1 /\ k \in 0 .. KT - 1
      /\ k > 0 => acc = Dot(in_ram, i, j, k)
  BY DEF MatmulInv, ScheduleInv, TypeOK, ProductRight
<1>2. /\ Dot(in_ram, i, j, 0) = 0
      /\ Dot(in_ram, i, j, k + 1) = Dot(in_ram, i, j, k) + in_ram[AddrA] * in_ram[AddrB]
  BY <1>1, DotSteps DEF AddrA, AddrB
<1>3. CASE k = 0
  BY <1>2, <1>3 DEF Engine
<1>4. CASE k > 0
  BY <1>1, <1>2, <1>4 DEF Engine
<1> QED
  BY <1>1, <1>3, <1>4

(* A step in compute mode of a multiplication the host left alone. *)
LEMMA ProductStep ==
  ASSUME MatmulInv, held, busy, Compute(TRUE, in_ram[AddrA], in_ram[AddrB]), Advance,
         busy' = ~done_now, in_ram' = in_ram
  PROVE  ProductRight'
<1> DEFINE sum == Dot(in_ram, i, j, k + 1)
<1>1. /\ TypeOK /\ out_ram \in [OutAddr -> Int]
      /\ i \in 0 .. MT - 1 /\ j \in 0 .. NT - 1 /\ k \in 0 .. KT - 1
  BY DEF MatmulInv, ScheduleInv, TypeOK
<1>a. Completed = AddrC /\ i * NT \in Int
  BY <1>1, SizeAssumption DEF Completed, AddrC
<1>b. \A t \in 0 .. Completed - 1 : out_ram[t] = Dot(in_ram, t \div NT, t % NT, KT)
  BY DEF MatmulInv, ProductRight
<1>2. acc' = sum /\ out_ram' = IF k_last THEN [out_ram EXCEPT ![AddrC] = sum] ELSE out_ram
  BY EngineRight DEF Compute
<1> HIDE DEF sum
<1>3. /\ AddrC \in 0 .. MT * NT - 1 /\ AddrC \in OutAddr
      /\ MT * NT \in Nat
  BY <1>1, SizeAssumption, PairCounts DEF AddrC, OutAddr
<1>4. AddrC \div NT = i /\ AddrC % NT = j
  BY <1>1, SizeAssumption, RowAndColumn DEF AddrC
<1>5. CASE ~k_last
  <2>1. i' = i /\ j' = j /\ k' = k + 1 /\ busy' /\ out_ram' = out_ram
    BY <1>2, <1>5 DEF Advance, done_now
  <2>2. \A t \in 0 .. Completed' - 1 : out_ram'[t] = Dot(in_ram', t \div NT, t % NT, KT)
    <3>1. Completed' = Completed
      BY <1>a, <2>1 DEF Completed
    <3> QED
      BY <1>b, <2>1, <3>1
  <2>3. acc' = Dot(in_ram', i', j', k')
    BY <1>2, <2>1 DEF sum
  <2> QED
    BY <2>2, <2>3 DEF ProductRight
<1>6. CASE k_last
  <2>1. sum = Dot(in_ram, i, j, KT) /\ k' = 0
    BY <1>1, <1>6, SizeAssumption DEF sum, k_last, Advance
  <2>2. Completed' = AddrC + 1
    <3>1. CASE j_last /\ i_last
      <4>1. ~busy' /\ i = MT - 1 /\ j = NT - 1
        BY <1>6, <3>1 DEF done_now, j_last, i_last
      <4>2. (MT - 1) * NT + NT = MT * NT
        BY SizeAssumption
      <4> QED
        BY <4>1, <4>2, SizeAssumption DEF Completed, AddrC
    <3>2. CASE j_last /\ ~i_last
      <4>1. busy' /\ i' = i + 1 /\ j' = 0 /\ j = NT - 1
        BY <1>6, <3>2 DEF done_now, j_last, Advance
      <4>2. (i + 1) * NT = i * NT + NT
        BY <1>1, SizeAssumption
      <4> QED
        BY <1>1, <4>1, <4>2, SizeAssumption DEF Completed, AddrC
    <3>3. CASE ~j_last
      <4>1. busy' /\ i' = i /\ j' = j + 1
        BY <1>6, <3>3 DEF done_now, Advance
      <4> QED
        BY <1>1, <4>1, SizeAssumption DEF Completed, AddrC
    <3> QED
      BY <3>1, <3>2, <3>3
  <2>3. ASSUME NEW t \in 0 .. AddrC
        PROVE  out_ram'[t] = Dot(in_ram, t \div NT, t % NT, KT)
    <3>1. t \in OutAddr
      BY <1>3, <1>1, SizeAssumption DEF OutAddr
    <3>2. CASE t = AddrC
      BY <1>1, <1>2, <1>3, <1>4, <1>6, <2>1, <3>2
    <3>3. CASE t # AddrC
      <4>1. t \in 0 .. Completed - 1
        BY <1>a, <1>3, <3>3
      <4>2. out_ram'[t] = out_ram[t]
        BY <1>1, <1>2, <3>1, <3>3
      <4> QED
        BY <1>b, <4>1, <4>2
    <3> QED
      BY <3>2, <3>3
  <2>4. \A t \in 0 .. Completed' - 1 : out_ram'[t] = Dot(in_ram', t \div NT, t % NT, KT)
    BY <1>3, <2>2, <2>3
  <2> QED
    BY <2>1, <2>4 DEF ProductRight
<1> QED
  BY <1>5, <1>6

LEMMA MatmulInvStep ==
  ASSUME MatmulInv, [Next]_matmulVars
  PROVE  MatmulInv'
<1>0. /\ ScheduleInv /\ ScheduleInv' /\ TypeOK /\ ProductRight
      /\ acc \in Int /\ out_ram \in [OutAddr -> Int]
  BY ScheduleInvStep DEF MatmulInv, ScheduleInv
<1>1. /\ AddrA \in InAddr /\ AddrB \in InAddr /\ AddrC \in OutAddr
  BY <1>0, AddressesTyped DEF TypeOK, AddrA, AddrB, AddrC
<1>2. ASSUME NEW mode \in BOOLEAN, NEW a \in InAddr,
             Compute(mode, in_ram[a], in_ram[AddrB])
      PROVE  acc' \in Int /\ out_ram' \in [OutAddr -> Int]
  <2>1. Engine(in_ram[a], in_ram[AddrB]) \in Int
    BY <1>0, <1>1, EngineTyped
  <2> QED
    BY <1>0, <1>1, <1>2, <2>1 DEF Compute
<1>3. ASSUME NEW start \in BOOLEAN, ComputeEdge(start)
      PROVE  MatmulInv'
  <2>1. CASE busy
    <3>1. /\ Compute(TRUE, in_ram[AddrA], in_ram[AddrB]) /\ Advance
          /\ busy' = ~done_now /\ held' = held /\ in_ram' = in_ram
      BY <1>3, <2>1 DEF ComputeEdge, start_compute
    <3>2. acc' \in Int /\ out_ram' \in [OutAddr -> Int]
      BY <1>1, <1>2, <3>1
    <3>3. CASE held
      BY <1>0, <2>1, <3>1, <3>2, <3>3, ProductStep DEF MatmulInv
    <3>4. CASE ~held
      <4>1. ~held'
        BY <3>1, <3>4
      <4> QED
        BY <1>0, <3>2, <4>1 DEF MatmulInv, ProductRight
    <3> QED
      BY <3>3, <3>4
  <2>2. CASE ~busy /\ start
    <3>1. Restart /\ UNCHANGED <<acc, out_ram>>
      BY <1>3, <2>2 DEF ComputeEdge, start_compute
    <3>2. busy' /\ i' = 0 /\ j' = 0 /\ k' = 0
      BY <3>1 DEF Restart
    <3>3. 0 * NT + 0 = 0
      BY SizeAssumption
    <3>4. Completed' = 0
      BY <3>2, <3>3 DEF Completed
    <3>5. ProductRight'
      BY <3>2, <3>4 DEF ProductRight
    <3> QED
      BY <1>0, <3>1, <3>5 DEF MatmulInv
  <2>3. CASE ~busy /\ ~start
    <3>1. UNCHANGED matmulVars
      BY <1>3, <2>3 DEF ComputeEdge, start_compute, matmulVars
    <3> QED
      BY <1>0, <3>1 DEF MatmulInv, ProductRight, Completed, matmulVars
  <2> QED
    BY <2>1, <2>2, <2>3
<1>4. ASSUME NEW addr \in HostAddr, AccessEdge(addr)
      PROVE  MatmulInv'
  <2>1. ~held'
    BY <1>4 DEF AccessEdge
  <2>2. CASE busy
    <3>1. addr \in InAddr /\ Compute(FALSE, in_ram[addr], in_ram[AddrB])
      BY <1>4, <2>2, HostAssumption DEF AccessEdge
    <3>2. acc' \in Int /\ out_ram' \in [OutAddr -> Int]
      BY <1>2, <3>1
    <3> QED
      BY <1>0, <2>1, <3>2 DEF MatmulInv, ProductRight
  <2>3. CASE ~busy
    BY <1>0, <1>4, <2>1, <2>3 DEF AccessEdge, MatmulInv, ProductRight
  <2> QED
    BY <2>2, <2>3
<1>5. CASE Reset
  BY <1>0, <1>5 DEF Reset, MatmulInv, ProductRight
<1>6. CASE UNCHANGED matmulVars
  BY <1>0, <1>6 DEF MatmulInv, ProductRight, Completed, matmulVars
<1> QED
  BY <1>3, <1>4, <1>5, <1>6 DEF Next, Clock

(* The accumulator and the tiles done hold their partial dot products.     *)
THEOREM MatmulInvHolds == Spec => []MatmulInv
<1>1. Init => MatmulInv
  <2> SUFFICES ASSUME Init
               PROVE  MatmulInv
    OBVIOUS
  <2>1. ScheduleInv
    BY ScheduleInvInit
  <2> QED
    BY <2>1 DEF Init, MatmulInv, ProductRight
<1> QED
  BY <1>1, MatmulInvStep, PTL DEF Spec

(* While the host holds the mode, every output tile that is done is the    *)
(* full dot product, for matrices of any size and any contents.            *)
THEOREM MatmulProductRight == Spec => []ProductRight
  BY MatmulInvHolds, PTL DEF MatmulInv

-----------------------------------------------------------------------------
(* The prefix adders (PrefixLegalization).                                 *)

(* A node has two halves in a network if a split of it is valid there. *)
Halved(P, q) == ValidSplits(P, q[1], q[2]) # {}
Combine == {q \in Node : q[2] < q[1]}
Span(q) == q[1] - q[2]

LEMMA NodeParts ==
  ASSUME NEW q \in Node
  PROVE  /\ q[1] \in Nat /\ q[2] \in Nat /\ q[2] <= q[1] /\ q = <<q[1], q[2]>>
         /\ Span(q) \in Nat
BY DEF Node, Span

LEMMA NodeMade ==
  ASSUME NEW a \in Nat, NEW b \in Nat, b <= a
  PROVE  /\ <<a, b>> \in Node /\ Span(<<a, b>>) = a - b
         /\ <<a, b>>[1] = a /\ <<a, b>>[2] = b
         /\ b < a => <<a, b>> \in Combine
BY DEF Node, Span, Combine

(* Adding nodes takes no split away. *)
LEMMA SplitsKept ==
  ASSUME NEW P, NEW R, P \subseteq R, NEW q
  PROVE  /\ ValidSplits(P, q[1], q[2]) \subseteq ValidSplits(R, q[1], q[2])
         /\ Halved(P, q) => Halved(R, q)
BY DEF ValidSplits, Present, Halved

(* A node and the one below its highest bit. *)
LEMMA NextSplit ==
  ASSUME NEW P, NEW a \in Nat, NEW b \in Nat, b < a
  PROVE  /\ b = a - 1 => Halved(P, <<a, b>>)
         /\ <<a, a - 1>> \in P /\ b = a - 2 => Halved(P, <<a, b>>)
         /\ <<a, a - 1>> \in P /\ <<a - 2, b>> \in P /\ b < a - 2 => Halved(P, <<a, b>>)
<1>1. b = a - 1 => b \in ValidSplits(P, a, b)
  BY DEF ValidSplits, Present
<1>2. <<a, a - 1>> \in P /\ b = a - 2 => b \in ValidSplits(P, a, b)
  BY DEF ValidSplits, Present
<1>3. <<a, a - 1>> \in P /\ <<a - 2, b>> \in P /\ b < a - 2 => (a - 2) \in ValidSplits(P, a, b)
  <2>1. b < a - 2 => (a - 2) \in b..(a - 1) /\ (a - 2) + 1 = a - 1
    OBVIOUS
  <2> QED
    BY <2>1 DEF ValidSplits, Present
<1>4. <<a, b>>[1] = a /\ <<a, b>>[2] = b
  OBVIOUS
<1> QED
  BY <1>1, <1>2, <1>3, <1>4 DEF Halved

-----------------------------------------------------------------------------
(* fix_node as an equation. *)
FixDomain == (SUBSET Node) \X Node
FixStep(fix, t) ==
  LET Q == t[1]
      a == t[2][1]
      b == t[2][2]
      left == fix[<<Q \cup {<<a, a - 1>>}, <<a, a - 1>>>>]
  IN  IF a = b \/ ValidSplits(Q, a, b) # {} THEN Q
      ELSE IF a - 2 # b THEN fix[<<left \cup {<<a - 2, b>>}, <<a - 2, b>>>>]
      ELSE left

(* What fix_node asks of itself is smaller. *)
LEMMA FixSmaller ==
  ASSUME NEW Q \in SUBSET Node, NEW a \in Nat, NEW b \in Nat, b <= a,
         a # b, ValidSplits(Q, a, b) = {}
  PROVE  /\ b < a - 1 /\ a - 1 \in Nat /\ a - 2 \in Nat /\ b <= a - 2
         /\ <<a, a - 1>> \in Node /\ <<a - 2, b>> \in Node
         /\ Q \cup {<<a, a - 1>>} \in SUBSET Node
         /\ Span(<<a, a - 1>>) < Span(<<a, b>>) /\ Span(<<a - 2, b>>) < Span(<<a, b>>)
<1>1. b < a
  OBVIOUS
<1>2. b # a - 1
  BY <1>1, NextSplit DEF Halved
<1>3. b < a - 1 /\ a - 1 \in Nat /\ a - 2 \in Nat /\ b <= a - 2
  BY <1>1, <1>2
<1>4. /\ <<a, a - 1>> \in Node /\ Span(<<a, a - 1>>) = a - (a - 1)
      /\ <<a - 2, b>> \in Node /\ Span(<<a - 2, b>>) = (a - 2) - b
      /\ Span(<<a, b>>) = a - b
  BY <1>3, NodeMade
<1> QED
  BY <1>3, <1>4

LEMMA FixExists == \E fix : fix = [t \in FixDomain |-> FixStep(fix, t)]
<1> DEFINE V == SUBSET Node
           F == [FixDomain -> V]
           size == [t \in FixDomain |-> Span(t[2])]
           next == [t \in FixDomain |-> [fix \in F |-> FixStep(fix, t)]]
<1>1. size \in [FixDomain -> Nat] /\ \A t \in FixDomain : size[t] = Span(t[2])
  BY NodeParts DEF FixDomain
<1>2. V # {}
  OBVIOUS
<1>3. ASSUME NEW t \in FixDomain
      PROVE  /\ t[1] \in SUBSET Node /\ t[2][1] \in Nat /\ t[2][2] \in Nat
             /\ t[2][2] <= t[2][1] /\ t[2] = <<t[2][1], t[2][2]>>
  BY NodeParts DEF FixDomain
<1>4. ASSUME NEW t \in FixDomain, NEW fix \in F,
             t[2][1] # t[2][2], ValidSplits(t[1], t[2][1], t[2][2]) = {}
      PROVE  LET a == t[2][1]
                 b == t[2][2]
                 inner == <<t[1] \cup {<<a, a - 1>>}, <<a, a - 1>>>>
                 outer == <<fix[inner] \cup {<<a - 2, b>>}, <<a - 2, b>>>>
             IN  /\ inner \in FixDomain /\ size[inner] < size[t]
                 /\ outer \in FixDomain /\ size[outer] < size[t]
  <2> DEFINE a == t[2][1]
             b == t[2][2]
             inner == <<t[1] \cup {<<a, a - 1>>}, <<a, a - 1>>>>
             outer == <<fix[inner] \cup {<<a - 2, b>>}, <<a - 2, b>>>>
  <2>1. /\ <<a, a - 1>> \in Node /\ <<a - 2, b>> \in Node
        /\ t[1] \cup {<<a, a - 1>>} \in SUBSET Node
        /\ Span(<<a, a - 1>>) < Span(<<a, b>>) /\ Span(<<a - 2, b>>) < Span(<<a, b>>)
    BY <1>3, <1>4, FixSmaller
  <2>2. inner \in FixDomain
    BY <2>1 DEF FixDomain
  <2>3. fix[inner] \in SUBSET Node
    BY <2>2
  <2>4. outer \in FixDomain
    BY <2>1, <2>3 DEF FixDomain
  <2>5. size[inner] = Span(<<a, a - 1>>) /\ size[outer] = Span(<<a - 2, b>>)
        /\ size[t] = Span(<<a, b>>)
    BY <1>1, <1>3, <2>2, <2>4
  <2> QED
    BY <2>1, <2>2, <2>4, <2>5
<1>5. ASSUME NEW t \in FixDomain, NEW fix \in F PROVE FixStep(fix, t) \in V
  BY <1>3, <1>4 DEF FixStep
<1>6. next \in [FixDomain -> [F -> V]]
      /\ \A t \in FixDomain, fix \in F : next[t][fix] = FixStep(fix, t)
  BY <1>5
<1>7. ASSUME NEW t \in FixDomain, NEW f \in F, NEW g \in F,
             \A u \in FixDomain : size[u] < size[t] => f[u] = g[u]
      PROVE  FixStep(f, t) = FixStep(g, t)
  BY <1>4, <1>7 DEF FixStep
<1>8. Descends(FixDomain, V, size, next)
  BY <1>6, <1>7 DEF Descends
<1> HIDE DEF size, next, V
<1>9. \E fix \in [FixDomain -> V] : IsSolution(FixDomain, next, fix)
  BY <1>1, <1>2, <1>6, <1>8, MeasuredRecursion, Zenon
<1>10. PICK fix \in F : \A t \in FixDomain : fix[t] = FixStep(fix, t)
  BY <1>6, <1>9 DEF IsSolution
<1>11. fix = [t \in FixDomain |-> FixStep(fix, t)]
  BY <1>10
<1> QED
  BY <1>11

(* fix_node as the model defines it. *)
LEMMA FixIs ==
  \E fix : /\ \A t \in FixDomain : fix[t] = FixStep(fix, t)
           /\ \A P, bit, low : FixNode(P, bit, low) = fix[<<P, <<bit, low>>>>]
<1> DEFINE fix == CHOOSE f : f = [t \in FixDomain |-> FixStep(f, t)]
<1>1. fix = [t \in FixDomain |-> FixStep(fix, t)]
  BY FixExists
<1>2. \A P, bit, low : FixNode(P, bit, low) = fix[<<P, <<bit, low>>>>]
  BY DEF FixNode, FixStep, FixDomain
<1> HIDE DEF fix
<1>3. \A t \in FixDomain : fix[t] = FixStep(fix, t)
  BY <1>1
<1> QED
  BY <1>2, <1>3

(* What repairing node p of Q achieves. *)
Repaired(Q, p, R) ==
  /\ Q \subseteq R /\ R \subseteq Combine /\ Halved(R, p)
  /\ \A r \in R : Halved(R, r) \/ (r \in Q /\ ~Halved(Q, r))

LEMMA FixRepairs ==
  ASSUME NEW fix, \A t \in FixDomain : fix[t] = FixStep(fix, t),
         NEW Q \in SUBSET Combine, NEW p \in Combine
  PROVE  Repaired(Q, p, fix[<<Q, p>>])
<1> DEFINE Below(m) == \A R \in SUBSET Combine, q \in Combine :
                         Span(q) < m => Repaired(R, q, fix[<<R, q>>])
           S == {m \in Nat : Below(m)}
<1>1. ASSUME NEW R \in SUBSET Combine, NEW q \in Combine, Halved(R, q)
      PROVE  fix[<<R, q>>] = R /\ Repaired(R, q, R)
  <2>1. <<R, q>> \in FixDomain
    BY DEF FixDomain, Combine
  <2>2. fix[<<R, q>>] = FixStep(fix, <<R, q>>)
    BY <2>1
  <2>3. FixStep(fix, <<R, q>>) = R
    BY <1>1 DEF FixStep, Halved
  <2>4. Repaired(R, q, R)
    BY <1>1 DEF Repaired
  <2> QED
    BY <2>2, <2>3, <2>4
<1>2. ASSUME NEW m \in Nat, Below(m) PROVE Below(m + 1)
  <2>1. SUFFICES ASSUME NEW R \in SUBSET Combine, NEW q \in Combine, Span(q) < m + 1,
                        ~Halved(R, q)
                 PROVE  Repaired(R, q, fix[<<R, q>>])
    BY <1>1
  <2>2. PICK a \in Nat, b \in Nat : q = <<a, b>> /\ b < a
    BY DEF Combine, Node
  <2>3. a # b /\ ValidSplits(R, a, b) = {}
    BY <2>1, <2>2 DEF Halved
  <2>4. R \in SUBSET Node
    BY DEF Combine
  <2>5. /\ b < a - 1 /\ a - 1 \in Nat /\ a - 2 \in Nat /\ b <= a - 2
        /\ Span(<<a - 2, b>>) < Span(q)
    <3>1. b <= a
      BY <2>2
    <3>2. /\ b < a - 1 /\ a - 1 \in Nat /\ a - 2 \in Nat /\ b <= a - 2
          /\ Span(<<a - 2, b>>) < Span(<<a, b>>)
      BY <2>3, <2>4, <3>1, FixSmaller, Zenon
    <3> QED
      BY <2>2, <3>2
  <2> DEFINE upper == <<a, a - 1>>
             lower == <<a - 2, b>>
             U == R \cup {upper}
             W == U \cup {lower}
  <2>6. upper \in Combine /\ U \in SUBSET Combine /\ Halved(U, upper)
    <3>1. a - 1 < a /\ a - 1 <= a
      BY <2>5
    <3>2. upper \in Combine
      BY <2>5, <3>1, NodeMade
    <3>3. Halved(U, upper)
      BY <2>5, <3>1, NextSplit
    <3> QED
      BY <3>2, <3>3
  <2>7. fix[<<U, upper>>] = U
    BY <1>1, <2>6
  <2>8. fix[<<R, q>>] = IF a - 2 # b THEN fix[<<W, lower>>] ELSE U
    <3>1. <<R, q>> \in FixDomain
      BY <2>4 DEF FixDomain, Combine
    <3>2. fix[<<R, q>>] = FixStep(fix, <<R, q>>)
      BY <3>1
    <3> QED
      BY <2>2, <2>3, <2>7, <3>2 DEF FixStep
  <2> HIDE DEF U, W
  <2>9. R \subseteq U /\ U \subseteq W /\ upper \in U /\ lower \in W
        /\ (\A r \in U : r \in R \/ r = upper) /\ (\A r \in W : r \in U \/ r = lower)
    BY DEF U, W
  <2> HIDE DEF upper, lower
  <2>10. CASE a - 2 = b
    <3>1. Halved(U, q)
      BY <2>2, <2>5, <2>9, <2>10, NextSplit DEF upper
    <3>2. ASSUME NEW r \in U PROVE Halved(U, r) \/ (r \in R /\ ~Halved(R, r))
      BY <2>6, <2>9, SplitsKept
    <3> QED
      BY <2>6, <2>8, <2>9, <2>10, <3>1, <3>2 DEF Repaired
  <2>11. CASE a - 2 # b
    <3> DEFINE Z == fix[<<W, lower>>]
    <3>1. lower \in Combine /\ Span(lower) < m
      <4>1. b < a - 2
        BY <2>5, <2>11
      <4>2. lower \in Combine
        BY <2>5, <4>1, NodeMade DEF lower
      <4>3. Span(lower) \in Nat /\ Span(q) \in Nat
        BY <4>2, NodeParts DEF Combine
      <4>4. Span(lower) < Span(q)
        BY <2>5 DEF lower
      <4> QED
        BY <2>1, <4>2, <4>3, <4>4
    <3>2. W \in SUBSET Combine
      BY <2>6, <3>1, <2>9
    <3>3. Repaired(W, lower, Z)
      BY <1>2, <3>1, <3>2
    <3> HIDE DEF Z
    <3>4. W \subseteq Z /\ Z \subseteq Combine /\ Halved(Z, lower)
          /\ \A r \in Z : Halved(Z, r) \/ (r \in W /\ ~Halved(W, r))
      BY <3>3 DEF Repaired
    <3>5. Halved(Z, q)
      <4>1. upper \in Z /\ lower \in Z /\ b < a - 2
        BY <2>5, <2>9, <2>11, <3>4
      <4> QED
        BY <2>2, <2>5, <4>1, NextSplit DEF upper, lower
    <3>6. Halved(Z, upper)
      BY <2>6, <2>9, <3>4, SplitsKept
    <3>7. ASSUME NEW r \in Z PROVE Halved(Z, r) \/ (r \in R /\ ~Halved(R, r))
      <4>1. CASE r \in W /\ ~Halved(W, r) /\ r # upper /\ r # lower
        <5>1. r \in R
          BY <2>9, <4>1
        <5>2. Halved(R, r) => Halved(W, r)
          BY <2>9, SplitsKept
        <5> QED
          BY <4>1, <5>1, <5>2
      <4> QED
        BY <3>4, <3>6, <4>1
    <3>8. fix[<<R, q>>] = Z
      BY <2>8, <2>11 DEF Z
    <3> QED
      BY <2>9, <3>4, <3>5, <3>7, <3>8 DEF Repaired
  <2> QED
    BY <2>10, <2>11
<1>3. \A m \in Nat : Below(m)
  <2>1. Below(0)
    <3>1. \A q \in Combine : Span(q) \in Nat
      BY NodeParts DEF Combine
    <3> QED
      BY <3>1
  <2>2. 0 \in S /\ \A m \in Nat : m \in S => m + 1 \in S
    <3> HIDE DEF Below
    <3> QED
      BY <1>2, <2>1
  <2>3. \A m \in Nat : m \in S
    <3> HIDE DEF S
    <3> QED
      BY <2>2, NaturalSet
  <2> QED
    BY <2>3
<1>4. Span(p) + 1 \in Nat /\ Span(p) < Span(p) + 1
  BY NodeParts DEF Combine
<1> QED
  BY <1>3, <1>4

-----------------------------------------------------------------------------
(* The invariant: a node that is not waiting has two halves. *)
PrefixInv ==
  /\ width \in Nat \ {0}
  /\ prefixNodes \subseteq Combine /\ Carries(width) \subseteq prefixNodes
  /\ unvisited \subseteq prefixNodes
  /\ \A q \in prefixNodes : Halved(prefixNodes, q) \/ q \in unvisited
  /\ legalizing \in {"visit", "done"}
  /\ legalizing = "done" => unvisited = {}

LEMMA NodeRepaired ==
  ASSUME NEW Q \in SUBSET Combine, NEW p \in Combine
  PROVE  Repaired(Q, p, FixNode(Q, p[1], p[2]))
<1>1. PICK fix : /\ \A t \in FixDomain : fix[t] = FixStep(fix, t)
                 /\ \A P, bit, low : FixNode(P, bit, low) = fix[<<P, <<bit, low>>>>]
  BY FixIs
<1>2. p = <<p[1], p[2]>>
  BY NodeParts DEF Combine
<1>3. FixNode(Q, p[1], p[2]) = fix[<<Q, p>>]
  BY <1>1, <1>2
<1>4. Repaired(Q, p, fix[<<Q, p>>])
  BY <1>1, FixRepairs
<1> QED
  BY <1>3, <1>4

(* A node that has halves is left alone. *)
LEMMA HalvedKept ==
  ASSUME NEW Q \in SUBSET Combine, NEW a \in Nat, NEW b \in Nat, b <= a, Halved(Q, <<a, b>>)
  PROVE  FixNode(Q, a, b) = Q
<1>1. PICK fix : /\ \A t \in FixDomain : fix[t] = FixStep(fix, t)
                 /\ \A P, bit, low : FixNode(P, bit, low) = fix[<<P, <<bit, low>>>>]
  BY FixIs
<1>2. <<Q, <<a, b>>>> \in FixDomain
  BY NodeMade DEF FixDomain, Combine
<1>3. FixStep(fix, <<Q, <<a, b>>>>) = Q
  BY DEF FixStep, Halved
<1> QED
  BY <1>1, <1>2, <1>3

LEMMA CarryNodes ==
  ASSUME NEW n \in Nat \ {0}
  PROVE  Carries(n) \subseteq Combine /\ \A bit \in 1..(n - 1) : <<bit, 0>> \in Carries(n)
<1>1. ASSUME NEW bit \in 1..(n - 1) PROVE <<bit, 0>> \in Combine
  <2>1. bit \in Nat /\ 0 \in Nat /\ 0 < bit /\ 0 <= bit
    OBVIOUS
  <2> QED
    BY <2>1, NodeMade
<1> QED
  BY <1>1 DEF Carries

LEMMA InitPrefixInv == PrefixInit => PrefixInv
<1> SUFFICES ASSUME PrefixInit PROVE PrefixInv
  OBVIOUS
<1>1. PICK P : /\ width \in Nat \ {0} /\ P \subseteq Node
               /\ prefixNodes = StartNodes(P, width)
  <2>1. CASE \E t \in Topologies :
               /\ topology = t[1] /\ width = t[2]
               /\ InRange(PrefixMatrix(t[1], t[2]), t[2])
               /\ prefixNodes = StartNodes(PrefixMatrix(t[1], t[2]), t[2])
    BY <2>1, PrefixAssumption DEF InRange
  <2>2. CASE /\ topology = "random" /\ width = RandomWidth
             /\ \E P \in SUBSET AllNodes(RandomWidth) :
                  prefixNodes = StartNodes(P, RandomWidth)
    <3>1. AllNodes(RandomWidth) \subseteq Node
      BY PrefixAssumption DEF AllNodes, Node
    <3> QED
      BY <2>2, <3>1, PrefixAssumption
  <2> QED
    BY <2>1, <2>2 DEF PrefixInit
<1>2. Normalized(P) \subseteq Combine
  BY <1>1 DEF Normalized, Combine, Node
<1>3. prefixNodes \subseteq Combine /\ Carries(width) \subseteq prefixNodes
  BY <1>1, <1>2, CarryNodes DEF StartNodes
<1> QED
  BY <1>1, <1>3 DEF PrefixInit, PrefixInv

LEMMA VisitKeeps == PrefixInv /\ Visit => PrefixInv'
<1> SUFFICES ASSUME PrefixInv, Visit PROVE PrefixInv'
  OBVIOUS
<1>1. PICK p \in unvisited : /\ prefixNodes' = FixNode(prefixNodes, p[1], p[2])
                             /\ unvisited' = unvisited \ {p}
  BY DEF Visit
<1>2. prefixNodes \in SUBSET Combine /\ p \in Combine
  BY <1>1 DEF PrefixInv
<1>3. Repaired(prefixNodes, p, prefixNodes')
  BY <1>1, <1>2, NodeRepaired
<1>4. width' = width /\ legalizing' = "visit"
  BY DEF Visit
<1>5. \A q \in prefixNodes' : Halved(prefixNodes', q) \/ q \in unvisited'
  BY <1>1, <1>3 DEF PrefixInv, Repaired
<1>6. prefixNodes' \subseteq Combine /\ prefixNodes \subseteq prefixNodes'
  BY <1>3 DEF Repaired
<1> HIDE DEF Visit
<1> QED
  BY <1>1, <1>4, <1>5, <1>6 DEF PrefixInv

(* The last loop of legalize_P finds nothing left to repair. *)
LEMMA CarriesKept ==
  ASSUME NEW n \in Nat \ {0}, NEW P \in SUBSET Combine,
         \A bit \in 1..(n - 1) : Halved(P, <<bit, 0>>)
  PROVE  FixCarries(P, n) = P
<1> DEFINE fixed == [bit \in 0..(n - 1) |-> P]
           step(f, bit) == IF bit = 0 THEN P ELSE FixNode(f[bit - 1], bit, 0)
           chosen == CHOOSE f : f = [bit \in 0..(n - 1) |-> step(f, bit)]
<1>1. \A bit \in 1..(n - 1) : FixNode(P, bit, 0) = P
  <2>1. ASSUME NEW bit \in 1..(n - 1) PROVE FixNode(P, bit, 0) = P
    <3>1. bit \in Nat /\ 0 \in Nat /\ 0 <= bit /\ Halved(P, <<bit, 0>>)
      OBVIOUS
    <3> QED
      BY <3>1, HalvedKept
  <2> QED
    BY <2>1
<1>2. fixed = [bit \in 0..(n - 1) |-> step(fixed, bit)]
  <2>1. ASSUME NEW bit \in 0..(n - 1) PROVE step(fixed, bit) = P
    <3>1. bit # 0 => bit \in 1..(n - 1) /\ bit - 1 \in 0..(n - 1)
      OBVIOUS
    <3> QED
      BY <1>1, <3>1
  <2> QED
    BY <2>1
<1>3. \E f : f = [bit \in 0..(n - 1) |-> step(f, bit)]
  <2> HIDE DEF fixed
  <2> QED
    BY <1>2
<1>4. chosen = [bit \in 0..(n - 1) |-> step(chosen, bit)]
  BY <1>3
<1>5. FixCarries(P, n) = chosen[n - 1]
  BY DEF FixCarries
<1> HIDE DEF chosen, fixed
<1>6. \A bit \in 0..(n - 1) : chosen[bit] = IF bit = 0 THEN P ELSE FixNode(chosen[bit - 1], bit, 0)
  BY <1>4
<1> DEFINE S == {bit \in Nat : bit \in 0..(n - 1) => chosen[bit] = P}
<1>7. 0 \in S
  BY <1>6
<1>8. ASSUME NEW bit \in Nat, bit \in S PROVE bit + 1 \in S
  <2>1. CASE bit + 1 \in 0..(n - 1)
    <3>1. bit \in 0..(n - 1) /\ bit + 1 \in 1..(n - 1) /\ (bit + 1) - 1 = bit /\ bit + 1 # 0
      BY <2>1
    <3>2. chosen[bit] = P
      BY <1>8, <3>1
    <3>3. chosen[bit + 1] = FixNode(chosen[bit], bit + 1, 0)
      BY <1>6, <2>1, <3>1
    <3>4. chosen[bit + 1] = P
      BY <1>1, <3>1, <3>2, <3>3
    <3> QED
      BY <3>4
  <2> QED
    BY <2>1
<1>9. n - 1 \in S
  <2>1. n - 1 \in Nat
    OBVIOUS
  <2> HIDE DEF S
  <2> QED
    BY <1>7, <1>8, <2>1, NaturalSet
<1> QED
  BY <1>5, <1>9

LEMMA AllVisitedKeeps == PrefixInv /\ AllVisited => PrefixInv'
<1> SUFFICES ASSUME PrefixInv, AllVisited PROVE PrefixInv'
  OBVIOUS
<1>1. /\ unvisited = {} /\ unvisited' = {} /\ width' = width /\ legalizing' = "done"
      /\ prefixNodes' = FixCarries(prefixNodes, width)
  BY DEF AllVisited
<1>2. \A bit \in 1..(width - 1) : Halved(prefixNodes, <<bit, 0>>)
  BY <1>1, CarryNodes DEF PrefixInv
<1>3. prefixNodes' = prefixNodes
  BY <1>1, <1>2, CarriesKept DEF PrefixInv
<1> QED
  BY <1>1, <1>3 DEF PrefixInv

LEMMA PrefixInvKept == PrefixInv /\ [PrefixNext]_prefixVars => PrefixInv'
<1>1. PrefixInv /\ UNCHANGED prefixVars => PrefixInv'
  BY DEF PrefixInv, prefixVars
<1> QED
  BY <1>1, VisitKeeps, AllVisitedKeeps DEF PrefixNext

(* legalize_P makes every network legal, whatever it starts from and in    *)
(* whatever order it visits: every node has two halves and every carry a   *)
(* node, which is what validate_legality asks and the adder relies on.     *)
THEOREM NetworkLegal == PrefixSpec => [](legalizing = "done" => ValidNetwork(prefixNodes, width))
<1>1. PrefixInv /\ legalizing = "done" => ValidNetwork(prefixNodes, width)
  BY CarryNodes DEF PrefixInv, ValidNetwork, Halved
<1> QED
  BY <1>1, InitPrefixInv, PrefixInvKept, PTL DEF PrefixSpec

-----------------------------------------------------------------------------
(* Trees made of splits. *)
LegalSplits(P, splits) ==
  /\ P \in SUBSET Combine /\ splits \in [P -> Nat]
  /\ \A q \in P : splits[q] \in ValidSplits(P, q[1], q[2])

Upper(splits, q) == <<q[1], splits[q] + 1>>
Lower(splits, q) == <<splits[q], q[2]>>

LEMMA SplitHalves ==
  ASSUME NEW P \in SUBSET Combine, NEW bit \in Nat, NEW q \in Nodes(P, bit), q[1] # q[2],
         NEW cut \in ValidSplits(P, q[1], q[2])
  PROVE  /\ q \in P /\ cut \in Nat /\ q[2] <= cut /\ cut < q[1] /\ cut + 1 <= q[1]
         /\ <<q[1], cut + 1>> \in Nodes(P, bit) /\ Span(<<q[1], cut + 1>>) < Span(q)
         /\ <<cut, q[2]>> \in Nodes(P, bit) /\ Span(<<cut, q[2]>>) < Span(q)
<1>1. q \in Node /\ q[1] <= bit /\ Present(P, q[1], q[2])
  BY DEF Nodes
<1>2. /\ q[1] \in Nat /\ q[2] \in Nat /\ q[2] <= q[1] /\ q = <<q[1], q[2]>>
  BY <1>1, NodeParts
<1>3. q \in P
  BY <1>1, <1>2 DEF Present
<1>4. cut \in Nat /\ q[2] <= cut /\ cut < q[1] /\ cut + 1 <= q[1] /\ cut + 1 \in Nat /\ cut <= bit
  BY <1>1, <1>2 DEF ValidSplits
<1>5. Present(P, q[1], cut + 1) /\ Present(P, cut, q[2])
  BY DEF ValidSplits
<1>6. <<q[1], cut + 1>> \in Node /\ Span(<<q[1], cut + 1>>) = q[1] - (cut + 1)
      /\ <<cut, q[2]>> \in Node /\ Span(<<cut, q[2]>>) = cut - q[2]
      /\ Span(q) = q[1] - q[2]
  BY <1>2, <1>4, NodeMade
<1>7. Span(<<q[1], cut + 1>>) < Span(q) /\ Span(<<cut, q[2]>>) < Span(q)
  BY <1>2, <1>4, <1>6
<1> QED
  BY <1>1, <1>3, <1>4, <1>5, <1>6, <1>7 DEF Nodes

(* Induction over the nodes of a network, shorter ranges first. *)
LEMMA SpanInduction ==
  ASSUME NEW D \in SUBSET Node, NEW T,
         \A q \in D : (\A r \in D : Span(r) < Span(q) => r \in T) => q \in T
  PROVE  D \subseteq T
<1> SUFFICES ASSUME NEW x \in D, x \notin T PROVE FALSE
  OBVIOUS
<1> DEFINE B == {m \in Nat : \E q \in D : q \notin T /\ Span(q) = m}
<1>1. \A q \in D : Span(q) \in Nat
  BY NodeParts
<1>2. Span(x) \in B
  BY <1>1
<1>3. PICK m \in B : \A n \in B : m <= n
  <2>1. B \in SUBSET Nat /\ B # {}
    BY <1>2
  <2> HIDE DEF B
  <2> QED
    BY <2>1, LeastNatural
<1>4. PICK q \in D : q \notin T /\ Span(q) = m
  OBVIOUS
<1>5. \A r \in D : Span(r) < m => r \in T
  BY <1>1, <1>3
<1> QED
  BY <1>4, <1>5

(* A value at every node, made of the values at its two halves. *)
TreeStep(splits, leaf, op, f, q) ==
  IF q[1] = q[2] THEN leaf[q[1]]
  ELSE op[<<f[Upper(splits, q)], f[Lower(splits, q)]>>]
IsTree(P, bit, splits, leaf, op, f) ==
  \A q \in Nodes(P, bit) : f[q] = TreeStep(splits, leaf, op, f, q)

LEMMA LegalHalves ==
  ASSUME NEW P, NEW splits, LegalSplits(P, splits), NEW bit \in Nat,
         NEW q \in Nodes(P, bit), q[1] # q[2]
  PROVE  /\ q \in P /\ splits[q] \in Nat /\ q[2] <= splits[q] /\ splits[q] < q[1]
         /\ Upper(splits, q) \in Nodes(P, bit) /\ Span(Upper(splits, q)) < Span(q)
         /\ Lower(splits, q) \in Nodes(P, bit) /\ Span(Lower(splits, q)) < Span(q)
<1>1. P \in SUBSET Combine
  BY DEF LegalSplits
<1>2. q \in P
  BY NodeParts DEF Nodes, Present
<1>3. splits[q] \in ValidSplits(P, q[1], q[2])
  BY <1>2 DEF LegalSplits
<1> QED
  BY <1>1, <1>3, SplitHalves DEF Upper, Lower

LEMMA TreeExists ==
  ASSUME NEW P, NEW splits, LegalSplits(P, splits), NEW bit \in Nat,
         NEW V, V # {}, NEW leaf \in [0..bit -> V], NEW op \in [V \X V -> V]
  PROVE  \E f \in [Nodes(P, bit) -> V] : IsTree(P, bit, splits, leaf, op, f)
<1> DEFINE D == Nodes(P, bit)
           size == [q \in D |-> Span(q)]
           next == [q \in D |-> [f \in [D -> V] |-> TreeStep(splits, leaf, op, f, q)]]
<1>1. \A q \in D : q \in Node /\ q[1] \in 0..bit /\ Span(q) \in Nat
  BY NodeParts DEF Nodes
<1>2. size \in [D -> Nat] /\ \A q \in D : size[q] = Span(q)
  BY <1>1
<1>3. \A q \in D : q[1] # q[2] =>
         /\ Upper(splits, q) \in D /\ Lower(splits, q) \in D
         /\ Span(Upper(splits, q)) < Span(q) /\ Span(Lower(splits, q)) < Span(q)
  BY LegalHalves
<1> HIDE DEF D
<1>4. ASSUME NEW q \in D, NEW f \in [D -> V] PROVE TreeStep(splits, leaf, op, f, q) \in V
  BY <1>1, <1>3 DEF TreeStep
<1>5. /\ next \in [D -> [[D -> V] -> V]]
      /\ \A q \in D, f \in [D -> V] : next[q][f] = TreeStep(splits, leaf, op, f, q)
  BY <1>4
<1> HIDE DEF size, next
<1>6. ASSUME NEW q \in D, NEW f \in [D -> V], NEW g \in [D -> V],
             \A r \in D : size[r] < size[q] => f[r] = g[r]
      PROVE  next[q][f] = next[q][g]
  <2>1. q[1] # q[2] => /\ f[Upper(splits, q)] = g[Upper(splits, q)]
                       /\ f[Lower(splits, q)] = g[Lower(splits, q)]
    BY <1>2, <1>3, <1>6
  <2> QED
    BY <1>5, <2>1 DEF TreeStep
<1>7. Descends(D, V, size, next)
  BY <1>6 DEF Descends
<1>8. \E f \in [D -> V] : IsSolution(D, next, f)
  BY <1>2, <1>5, <1>7, MeasuredRecursion, Zenon
<1> QED
  BY <1>5, <1>8 DEF IsSolution, IsTree, D

-----------------------------------------------------------------------------
(* How a split is chosen. *)
LEMMA HighestSplit ==
  ASSUME NEW P \in SUBSET Combine, NEW q \in Combine, Halved(P, q)
  PROVE  FindSplit(P, q[1], q[2]) \in ValidSplits(P, q[1], q[2])
<1> DEFINE X == ValidSplits(P, q[1], q[2])
           B == {m \in Nat : q[1] - m \in X}
<1>1. q[1] \in Nat /\ q[2] \in Nat
  BY NodeParts DEF Combine
<1>2. X \subseteq q[2]..(q[1] - 1) /\ X # {}
  BY DEF ValidSplits, Halved
<1> HIDE DEF X
<1>3. B # {} /\ B \in SUBSET Nat
  <2>1. PICK cut \in X : TRUE
    BY <1>2
  <2>2. q[1] - cut \in Nat /\ q[1] - (q[1] - cut) = cut
    BY <1>1, <1>2
  <2> QED
    BY <2>2
<1>4. PICK m \in B : \A n \in B : m <= n
  <2> HIDE DEF B
  <2> QED
    BY <1>3, LeastNatural
<1>5. ASSUME NEW cut \in X PROVE q[1] - m >= cut
  <2>1. q[1] - cut \in Nat /\ q[1] - (q[1] - cut) = cut
    BY <1>1, <1>2
  <2>2. q[1] - cut \in B
    BY <2>1
  <2>3. m <= q[1] - cut /\ m \in Nat
    BY <1>4, <2>2
  <2> QED
    BY <1>1, <1>2, <2>3
<1>6. q[1] - m \in X
  BY <1>4
<1>7. \E x \in X : \A y \in X : x >= y
  BY <1>5, <1>6
<1>8. Max(X) \in X
  BY <1>7 DEF Max
<1> QED
  BY <1>8 DEF FindSplit, X

LEMMA LeastChosen ==
  ASSUME NEW T \in SUBSET Nat, T # {}
  PROVE  Min(T) \in T /\ \A m \in T : Min(T) <= m
<1>1. \E m \in T : \A n \in T : m <= n
  BY LeastNatural
<1> QED
  BY <1>1 DEF Min

(* What legalize_P makes. *)
Legal(P) == P \in SUBSET Combine /\ \A q \in P : Halved(P, q)

LEMMA NodeHalves ==
  ASSUME NEW P, Legal(P), NEW bit \in Nat, NEW q \in Nodes(P, bit), q[1] # q[2]
  PROVE  /\ q \in P /\ ValidSplits(P, q[1], q[2]) # {}
         /\ \A cut \in ValidSplits(P, q[1], q[2]) :
              /\ cut \in Nat
              /\ <<q[1], cut + 1>> \in Nodes(P, bit) /\ Span(<<q[1], cut + 1>>) < Span(q)
              /\ <<cut, q[2]>> \in Nodes(P, bit) /\ Span(<<cut, q[2]>>) < Span(q)
<1>1. P \in SUBSET Combine
  BY DEF Legal
<1>2. q \in P
  BY NodeParts DEF Nodes, Present
<1> QED
  BY <1>1, <1>2, SplitHalves DEF Legal, Halved

(* The depth of a network's nodes, as an equation. *)
Costs(P, f, q) ==
  {1 + Larger(f[<<q[1], cut + 1>>], f[<<cut, q[2]>>]) : cut \in ValidSplits(P, q[1], q[2])}
DepthStep(P, f, q) == IF q[1] = q[2] THEN 0 ELSE Min(Costs(P, f, q))
IsDepth(P, bit, f) == \A q \in Nodes(P, bit) : f[q] = DepthStep(P, f, q)

LEMMA LargerNatural ==
  ASSUME NEW x \in Nat, NEW y \in Nat
  PROVE  /\ Larger(x, y) \in Nat /\ 1 + Larger(x, y) \in Nat
         /\ x <= Larger(x, y) /\ y <= Larger(x, y)
BY DEF Larger

LEMMA CostsNatural ==
  ASSUME NEW P, Legal(P), NEW bit \in Nat, NEW q \in Nodes(P, bit), q[1] # q[2], NEW f,
         \A r \in Nodes(P, bit) : Span(r) < Span(q) => f[r] \in Nat
  PROVE  /\ Costs(P, f, q) \in SUBSET Nat /\ Costs(P, f, q) # {}
         /\ DepthStep(P, f, q) \in Costs(P, f, q)
         /\ \A m \in Costs(P, f, q) : DepthStep(P, f, q) <= m
<1>1. \A cut \in ValidSplits(P, q[1], q[2]) :
        f[<<q[1], cut + 1>>] \in Nat /\ f[<<cut, q[2]>>] \in Nat
  BY NodeHalves
<1>2. Costs(P, f, q) \in SUBSET Nat
  <2>1. ASSUME NEW cut \in ValidSplits(P, q[1], q[2])
        PROVE  1 + Larger(f[<<q[1], cut + 1>>], f[<<cut, q[2]>>]) \in Nat
    BY <1>1, LargerNatural
  <2> QED
    BY <2>1 DEF Costs
<1>3. Costs(P, f, q) # {}
  <2>1. ValidSplits(P, q[1], q[2]) # {}
    BY NodeHalves
  <2> QED
    BY <2>1 DEF Costs
<1>4. DepthStep(P, f, q) = Min(Costs(P, f, q))
  BY DEF DepthStep
<1> QED
  BY <1>2, <1>3, <1>4, LeastChosen

(* A node's step looks at shorter nodes only. *)
LEMMA DepthDescends ==
  ASSUME NEW P, Legal(P), NEW bit \in Nat, NEW q \in Nodes(P, bit), NEW f, NEW g,
         \A r \in Nodes(P, bit) : Span(r) < Span(q) => f[r] = g[r]
  PROVE  DepthStep(P, f, q) = DepthStep(P, g, q)
<1>1. CASE q[1] = q[2]
  BY <1>1 DEF DepthStep
<1>2. CASE q[1] # q[2]
  <2>1. \A cut \in ValidSplits(P, q[1], q[2]) :
          f[<<q[1], cut + 1>>] = g[<<q[1], cut + 1>>] /\ f[<<cut, q[2]>>] = g[<<cut, q[2]>>]
    BY <1>2, NodeHalves
  <2>2. Costs(P, f, q) = Costs(P, g, q)
    BY <2>1 DEF Costs
  <2> QED
    BY <2>2 DEF DepthStep
<1> QED
  BY <1>1, <1>2

LEMMA DepthExists ==
  ASSUME NEW P, Legal(P), NEW bit \in Nat
  PROVE  \E f \in [Nodes(P, bit) -> Nat] : IsDepth(P, bit, f)
<1> DEFINE D == Nodes(P, bit)
           size == [q \in D |-> Span(q)]
           next == [q \in D |-> [f \in [D -> Nat] |-> DepthStep(P, f, q)]]
<1>1. \A q \in D : Span(q) \in Nat
  BY NodeParts DEF Nodes
<1>2. size \in [D -> Nat] /\ \A q \in D : size[q] = Span(q)
  BY <1>1
<1>3. ASSUME NEW q \in D, NEW f \in [D -> Nat] PROVE DepthStep(P, f, q) \in Nat
  <2>1. CASE q[1] = q[2]
    BY <2>1 DEF DepthStep
  <2>2. CASE q[1] # q[2]
    <3>1. \A r \in D : f[r] \in Nat
      OBVIOUS
    <3> QED
      BY <2>2, <3>1, CostsNatural
  <2> QED
    BY <2>1, <2>2
<1> HIDE DEF D
<1>4. /\ next \in [D -> [[D -> Nat] -> Nat]]
      /\ \A q \in D, f \in [D -> Nat] : next[q][f] = DepthStep(P, f, q)
  BY <1>3
<1> HIDE DEF size, next
<1>5. ASSUME NEW q \in D, NEW f \in [D -> Nat], NEW g \in [D -> Nat],
             \A r \in D : size[r] < size[q] => f[r] = g[r]
      PROVE  next[q][f] = next[q][g]
  <2>1. \A r \in D : Span(r) < Span(q) => f[r] = g[r]
    BY <1>2, <1>5
  <2>2. DepthStep(P, f, q) = DepthStep(P, g, q)
    BY <2>1, DepthDescends DEF D
  <2> QED
    BY <1>4, <2>2
<1>6. Descends(D, Nat, size, next)
  BY <1>5 DEF Descends
<1>7. Nat # {}
  OBVIOUS
<1>8. \E f \in [D -> Nat] : IsSolution(D, next, f)
  BY <1>2, <1>4, <1>6, <1>7, MeasuredRecursion, Zenon
<1> QED
  BY <1>4, <1>8 DEF IsSolution, IsDepth, D

LEMMA DepthNatural ==
  ASSUME NEW P, Legal(P), NEW bit \in Nat, NEW f, IsDepth(P, bit, f)
  PROVE  \A q \in Nodes(P, bit) : f[q] \in Nat
<1> DEFINE D == Nodes(P, bit)
           T == {q \in D : f[q] \in Nat}
<1>1. ASSUME NEW q \in D, \A r \in D : Span(r) < Span(q) => r \in T PROVE q \in T
  <2>1. \A r \in D : Span(r) < Span(q) => f[r] \in Nat
    BY <1>1
  <2>2. DepthStep(P, f, q) \in Nat
    <3>1. CASE q[1] = q[2]
      BY <3>1 DEF DepthStep
    <3>2. CASE q[1] # q[2]
      BY <2>1, <3>2, CostsNatural
    <3> QED
      BY <3>1, <3>2
  <2> QED
    BY <2>2 DEF IsDepth
<1>2. D \in SUBSET Node
  BY DEF Nodes
<1>3. D \subseteq T
  <2> HIDE DEF D, T
  <2> QED
    BY <1>1, <1>2, SpanInduction
<1> QED
  BY <1>3

(* The depth of a node does not depend on how far up the analysis goes. *)
LEMMA DepthAgrees ==
  ASSUME NEW P, Legal(P), NEW bit \in Nat, NEW low \in Nat, low <= bit,
         NEW f, IsDepth(P, bit, f), NEW g, IsDepth(P, low, g)
  PROVE  \A q \in Nodes(P, low) : q \in Nodes(P, bit) /\ f[q] = g[q]
<1> DEFINE D == Nodes(P, low)
           T == {q \in D : f[q] = g[q]}
<1>1. \A q \in D : q \in Nodes(P, bit)
  BY NodeParts DEF Nodes
<1>2. ASSUME NEW q \in D, \A r \in D : Span(r) < Span(q) => r \in T PROVE q \in T
  <2>1. \A r \in D : Span(r) < Span(q) => f[r] = g[r]
    BY <1>2
  <2>2. DepthStep(P, f, q) = DepthStep(P, g, q)
    BY <2>1, DepthDescends
  <2> QED
    BY <1>1, <2>2 DEF IsDepth
<1>3. D \in SUBSET Node
  BY DEF Nodes
<1>4. D \subseteq T
  <2> HIDE DEF D, T
  <2> QED
    BY <1>2, <1>3, SpanInduction
<1> QED
  BY <1>1, <1>4

LEMMA NodeDepthIs ==
  ASSUME NEW P, Legal(P), NEW bit \in Nat
  PROVE  \E f : IsDepth(P, bit, f) /\ \A low : NodeDepth(P, bit, low) = f[<<bit, low>>]
<1> DEFINE f == CHOOSE h : h = [q \in Nodes(P, bit) |-> DepthStep(P, h, q)]
<1>1. f = [q \in Nodes(P, bit) |-> DepthStep(P, f, q)]
  <2>1. PICK h \in [Nodes(P, bit) -> Nat] : IsDepth(P, bit, h)
    BY DepthExists
  <2>2. h = [q \in Nodes(P, bit) |-> DepthStep(P, h, q)]
    BY <2>1 DEF IsDepth
  <2> QED
    BY <2>2
<1>2. \A low : NodeDepth(P, bit, low) = f[<<bit, low>>]
  BY DEF NodeDepth, DepthStep, Costs
<1> HIDE DEF f
<1>3. \A q \in Nodes(P, bit) : f[q] = DepthStep(P, f, q)
  BY <1>1
<1> QED
  BY <1>2, <1>3 DEF IsDepth

(* The least that a split of the node costs. *)
LEMMA DepthOfNode ==
  ASSUME NEW P, Legal(P), NEW q \in Node, Present(P, q[1], q[2])
  PROVE  LET depth == NodeDepth(P, q[1], q[2])
             cost(cut) == 1 + Larger(NodeDepth(P, q[1], cut + 1), NodeDepth(P, cut, q[2]))
         IN  /\ depth \in Nat
             /\ q[1] = q[2] => depth = 0
             /\ q[1] # q[2] =>
                  /\ \A cut \in ValidSplits(P, q[1], q[2]) : depth <= cost(cut)
                  /\ \E cut \in ValidSplits(P, q[1], q[2]) : depth = cost(cut)
<1> DEFINE bit == q[1]
           low == q[2]
           cost(cut) == 1 + Larger(NodeDepth(P, bit, cut + 1), NodeDepth(P, cut, low))
<1>1. bit \in Nat /\ low \in Nat /\ low <= bit /\ q = <<bit, low>>
  BY NodeParts
<1>2. PICK f : IsDepth(P, bit, f) /\ \A l : NodeDepth(P, bit, l) = f[<<bit, l>>]
  BY <1>1, NodeDepthIs
<1>3. q \in Nodes(P, bit) /\ NodeDepth(P, bit, low) = f[q]
  BY <1>1, <1>2 DEF Nodes
<1>4. \A r \in Nodes(P, bit) : f[r] \in Nat
  BY <1>1, <1>2, DepthNatural
<1>5. f[q] = DepthStep(P, f, q)
  BY <1>2, <1>3 DEF IsDepth
<1>6. CASE bit = low
  BY <1>3, <1>5, <1>6 DEF DepthStep
<1>7. CASE bit # low
  <2>1. ASSUME NEW cut \in ValidSplits(P, bit, low)
        PROVE  cost(cut) = 1 + Larger(f[<<q[1], cut + 1>>], f[<<cut, q[2]>>])
    <3>1. /\ cut \in Nat /\ cut <= bit /\ <<cut, low>> \in Nodes(P, cut)
      <4>1. P \in SUBSET Combine
        BY DEF Legal
      <4>2. cut \in Nat /\ cut < bit /\ <<cut, low>> \in Nodes(P, bit) /\ cut <= bit
        <5>1. cut \in ValidSplits(P, q[1], q[2]) /\ q[1] # q[2]
          BY <1>7
        <5>2. /\ cut \in Nat /\ cut < q[1] /\ <<cut, q[2]>> \in Nodes(P, bit)
          BY <1>1, <1>3, <4>1, <5>1, SplitHalves
        <5> QED
          BY <1>1, <5>2
      <4> QED
        BY <1>1, <4>2, NodeMade DEF Nodes
    <3>2. PICK g : IsDepth(P, cut, g) /\ \A l : NodeDepth(P, cut, l) = g[<<cut, l>>]
      BY <3>1, NodeDepthIs
    <3>3. f[<<cut, low>>] = g[<<cut, low>>]
      BY <1>1, <1>2, <3>1, <3>2, DepthAgrees
    <3> QED
      BY <1>2, <3>2, <3>3
  <2>2. Costs(P, f, q) = {cost(cut) : cut \in ValidSplits(P, bit, low)}
    BY <2>1 DEF Costs
  <2>3. /\ f[q] \in {cost(cut) : cut \in ValidSplits(P, bit, low)}
        /\ \A m \in {cost(cut) : cut \in ValidSplits(P, bit, low)} : f[q] <= m
    BY <1>1, <1>3, <1>4, <1>5, <1>7, <2>2, CostsNatural
  <2> HIDE DEF cost
  <2>4. /\ \A cut \in ValidSplits(P, bit, low) : f[q] <= cost(cut)
        /\ \E cut \in ValidSplits(P, bit, low) : f[q] = cost(cut)
    BY <2>3
  <2> QED
    BY <1>3, <1>4, <1>7, <2>4 DEF cost
<1> QED
  BY <1>6, <1>7, <1>3, <1>4

LEMMA BestSplitIs ==
  ASSUME NEW P, Legal(P), NEW q \in P
  PROVE  LET cost(cut) == 1 + Larger(NodeDepth(P, q[1], cut + 1), NodeDepth(P, cut, q[2]))
             best == BestSplit(P, q[1], q[2])
         IN  /\ best \in ValidSplits(P, q[1], q[2])
             /\ \A cut \in ValidSplits(P, q[1], q[2]) : cost(best) <= cost(cut)
<1> DEFINE bit == q[1]
           low == q[2]
           X == ValidSplits(P, bit, low)
           least(cut) == Larger(NodeDepth(P, bit, cut + 1), NodeDepth(P, cut, low))
           T == {least(cut) : cut \in X}
<1>1. q \in Combine /\ q \in Node /\ Present(P, bit, low) /\ bit # low /\ bit \in Nat /\ low \in Nat
  BY NodeParts DEF Legal, Combine, Present
<1>2. X # {} /\ X \in SUBSET Nat
  BY <1>1 DEF Legal, Halved, ValidSplits
<1>3. ASSUME NEW cut \in X PROVE least(cut) \in Nat
  <2>1. /\ <<bit, cut + 1>> \in Node /\ Present(P, bit, cut + 1)
        /\ <<cut, low>> \in Node /\ Present(P, cut, low)
    <3>1. bit \in Nat /\ q \in Nodes(P, bit)
      BY <1>1 DEF Nodes
    <3>2. <<q[1], cut + 1>> \in Nodes(P, bit) /\ <<cut, q[2]>> \in Nodes(P, bit)
      BY <1>1, <3>1, NodeHalves
    <3> QED
      BY <3>2 DEF Nodes
  <2>2. NodeDepth(P, bit, cut + 1) \in Nat
    <3>1. <<bit, cut + 1>>[1] = bit /\ <<bit, cut + 1>>[2] = cut + 1
      OBVIOUS
    <3> QED
      BY <2>1, <3>1, DepthOfNode
  <2>3. NodeDepth(P, cut, low) \in Nat
    <3>1. <<cut, low>>[1] = cut /\ <<cut, low>>[2] = low
      OBVIOUS
    <3> QED
      BY <2>1, <3>1, DepthOfNode
  <2> QED
    BY <2>2, <2>3, LargerNatural
<1>4. BestSplit(P, bit, low) =
        CHOOSE cut \in X : \A m \in X : least(cut) < least(m) \/ (least(cut) = least(m) /\ cut <= m)
  BY DEF BestSplit
<1>5. ASSUME NEW cut \in X
      PROVE  1 + least(cut)
               = 1 + Larger(NodeDepth(P, q[1], cut + 1), NodeDepth(P, cut, q[2]))
  OBVIOUS
<1> HIDE DEF least, X, bit, low
<1>6. PICK c \in T : \A m \in T : c <= m
  <2>1. T \in SUBSET Nat /\ T # {}
    BY <1>2, <1>3
  <2> HIDE DEF T
  <2> QED
    BY <2>1, LeastNatural
<1> DEFINE K == {cut \in X : least(cut) = c}
<1>7. PICK cut \in K : \A m \in K : cut <= m
  <2>1. K \in SUBSET Nat /\ K # {}
    BY <1>2, <1>6
  <2> HIDE DEF K
  <2> QED
    BY <2>1, LeastNatural
<1>8. \A m \in X : c \in Nat /\ least(m) \in Nat /\ c <= least(m)
  BY <1>3, <1>6
<1>9. cut \in X /\ \A m \in X : least(cut) < least(m) \/ (least(cut) = least(m) /\ cut <= m)
  BY <1>7, <1>8
<1>10. /\ BestSplit(P, bit, low) \in X
       /\ \A m \in X : \/ least(BestSplit(P, bit, low)) < least(m)
                       \/ least(BestSplit(P, bit, low)) = least(m) /\ BestSplit(P, bit, low) <= m
  BY <1>4, <1>9
<1>11. \A m \in X : 1 + least(BestSplit(P, bit, low)) <= 1 + least(m)
  BY <1>3, <1>10
<1> QED
  BY <1>5, <1>10, <1>11 DEF X, bit, low

(* Either way of choosing splits, and the lowest ones, make trees. *)
LEMMA SplitsLegal ==
  ASSUME NEW P, Legal(P), NEW mode \in SplitModes
  PROVE  LegalSplits(P, Splits(P, mode)) /\ DOMAIN Splits(P, mode) = P
<1> DEFINE splits == Splits(P, mode)
<1>1. \A q \in P : splits[q] = IF mode = "min_depth_splits" THEN BestSplit(P, q[1], q[2])
                               ELSE FindSplit(P, q[1], q[2])
  BY DEF Splits
<1>2. ASSUME NEW q \in P PROVE splits[q] \in ValidSplits(P, q[1], q[2])
  <2>1. FindSplit(P, q[1], q[2]) \in ValidSplits(P, q[1], q[2])
    BY HighestSplit DEF Legal
  <2>2. BestSplit(P, q[1], q[2]) \in ValidSplits(P, q[1], q[2])
    BY BestSplitIs
  <2> QED
    BY <1>1, <2>1, <2>2
<1>3. ASSUME NEW q \in P PROVE splits[q] \in Nat
  <2>1. q[1] \in Nat /\ q[2] \in Nat
    BY NodeParts DEF Legal, Combine
  <2> QED
    BY <1>2, <2>1 DEF ValidSplits
<1>4. splits = [q \in P |-> splits[q]] /\ DOMAIN splits = P
  BY DEF Splits
<1> HIDE DEF splits
<1>5. splits \in [P -> Nat]
  BY <1>3, <1>4
<1> QED
  BY <1>2, <1>4, <1>5 DEF LegalSplits, Legal, splits

LowestSplits(P) == [q \in P |-> Min(ValidSplits(P, q[1], q[2]))]

LEMMA LowestLegal ==
  ASSUME NEW P, Legal(P)
  PROVE  LegalSplits(P, LowestSplits(P)) /\ DOMAIN LowestSplits(P) = P
<1>1. ASSUME NEW q \in P
      PROVE  /\ LowestSplits(P)[q] \in ValidSplits(P, q[1], q[2])
             /\ LowestSplits(P)[q] \in Nat
  <2>1. q[1] \in Nat /\ q[2] \in Nat
    BY NodeParts DEF Legal, Combine
  <2>2. ValidSplits(P, q[1], q[2]) \in SUBSET Nat /\ ValidSplits(P, q[1], q[2]) # {}
    BY <2>1 DEF ValidSplits, Legal, Halved
  <2>3. Min(ValidSplits(P, q[1], q[2])) \in ValidSplits(P, q[1], q[2])
    BY <2>2, LeastChosen
  <2> QED
    BY <2>2, <2>3 DEF LowestSplits
<1>2. LowestSplits(P) \in [P -> Nat] /\ DOMAIN LowestSplits(P) = P
  BY <1>1 DEF LowestSplits
<1> QED
  BY <1>1, <1>2 DEF LegalSplits, Legal

-----------------------------------------------------------------------------
(* Depth. *)
IsSplitDepth(P, bit, splits, f) ==
  \A q \in Nodes(P, bit) :
    f[q] = IF q[1] = q[2] THEN 0 ELSE 1 + Larger(f[Upper(splits, q)], f[Lower(splits, q)])

LEMMA SplitDepthIs ==
  ASSUME NEW P, NEW splits, LegalSplits(P, splits), NEW bit \in Nat
  PROVE  \E f : /\ IsSplitDepth(P, bit, splits, f)
                /\ \A low : SplitDepth(splits, bit, low) = f[<<bit, low>>]
<1> DEFINE step(f, q) ==
             IF q[1] = q[2] THEN 0 ELSE 1 + Larger(f[Upper(splits, q)], f[Lower(splits, q)])
           f == CHOOSE h : h = [q \in Nodes(DOMAIN splits, bit) |-> step(h, q)]
           leaf == [x \in 0..bit |-> 0]
           op == [t \in Nat \X Nat |-> 1 + Larger(t[1], t[2])]
<1>1. DOMAIN splits = P
  BY DEF LegalSplits
<1>2. leaf \in [0..bit -> Nat] /\ op \in [Nat \X Nat -> Nat] /\ Nat # {}
  BY LargerNatural
<1>3. PICK h \in [Nodes(P, bit) -> Nat] : IsTree(P, bit, splits, leaf, op, h)
  <2> HIDE DEF leaf, op
  <2> QED
    BY <1>2, TreeExists
<1>4. ASSUME NEW q \in Nodes(P, bit) PROVE h[q] = step(h, q)
  <2>1. q[1] \in 0..bit
    BY NodeParts DEF Nodes
  <2>2. CASE q[1] = q[2]
    BY <1>3, <2>1, <2>2 DEF IsTree, TreeStep
  <2>3. CASE q[1] # q[2]
    <3>1. Upper(splits, q) \in Nodes(P, bit) /\ Lower(splits, q) \in Nodes(P, bit)
      BY <2>3, LegalHalves
    <3>2. h[q] = op[<<h[Upper(splits, q)], h[Lower(splits, q)]>>]
      BY <1>3, <2>3 DEF IsTree, TreeStep
    <3> QED
      BY <2>3, <3>1, <3>2
  <2> QED
    BY <2>2, <2>3
<1>5. f = [q \in Nodes(DOMAIN splits, bit) |-> step(f, q)]
  <2>1. h = [q \in Nodes(DOMAIN splits, bit) |-> step(h, q)]
    BY <1>1, <1>4
  <2> QED
    BY <2>1
<1>6. \A low : SplitDepth(splits, bit, low) = f[<<bit, low>>]
  BY DEF SplitDepth, Upper, Lower
<1> HIDE DEF f
<1>7. \A q \in Nodes(P, bit) : f[q] = step(f, q)
  BY <1>1, <1>5
<1> QED
  BY <1>6, <1>7 DEF IsSplitDepth

(* A tree is at least as deep as the analysis says of its node, and the    *)
(* tree of the splits of least depth exactly as deep.                      *)
LEMMA DepthLeast ==
  ASSUME NEW P, Legal(P), NEW splits, LegalSplits(P, splits), NEW bit \in Nat,
         NEW f, IsSplitDepth(P, bit, splits, f)
  PROVE  \A q \in Nodes(P, bit) :
           /\ f[q] \in Nat /\ NodeDepth(P, q[1], q[2]) <= f[q]
           /\ splits = Splits(P, "min_depth_splits") => f[q] = NodeDepth(P, q[1], q[2])
<1> DEFINE D == Nodes(P, bit)
           Good(q) == /\ f[q] \in Nat /\ NodeDepth(P, q[1], q[2]) <= f[q]
                      /\ splits = Splits(P, "min_depth_splits")
                           => f[q] = NodeDepth(P, q[1], q[2])
           T == {q \in D : Good(q)}
<1>1. ASSUME NEW q \in D, \A r \in D : Span(r) < Span(q) => r \in T PROVE Good(q)
  <2>1. q \in Node /\ Present(P, q[1], q[2])
    BY DEF Nodes
  <2>2. CASE q[1] = q[2]
    <3>1. f[q] = 0
      BY <2>2 DEF IsSplitDepth
    <3>2. NodeDepth(P, q[1], q[2]) = 0
      BY <2>1, <2>2, DepthOfNode
    <3> QED
      BY <3>1, <3>2
  <2>3. CASE q[1] # q[2]
    <3> DEFINE cut == splits[q]
               up == f[Upper(splits, q)]
               lo == f[Lower(splits, q)]
               upd == NodeDepth(P, q[1], cut + 1)
               lod == NodeDepth(P, cut, q[2])
               depth == NodeDepth(P, q[1], q[2])
    <3>1. /\ Good(Upper(splits, q)) /\ Good(Lower(splits, q))
          /\ Upper(splits, q) \in D /\ Lower(splits, q) \in D
      BY <1>1, <2>3, LegalHalves
    <3>2. Upper(splits, q) = <<q[1], cut + 1>> /\ Lower(splits, q) = <<cut, q[2]>>
      BY DEF Upper, Lower
    <3>3. /\ up \in Nat /\ upd <= up /\ lo \in Nat /\ lod <= lo
          /\ splits = Splits(P, "min_depth_splits") => up = upd /\ lo = lod
      BY <3>1, <3>2
    <3>4. upd \in Nat /\ lod \in Nat
      <4>1. <<q[1], cut + 1>> \in Node /\ Present(P, q[1], cut + 1)
        BY <3>1, <3>2 DEF Nodes
      <4>2. <<cut, q[2]>> \in Node /\ Present(P, cut, q[2])
        BY <3>1, <3>2 DEF Nodes
      <4>3. upd \in Nat
        <5>1. <<q[1], cut + 1>>[1] = q[1] /\ <<q[1], cut + 1>>[2] = cut + 1
          OBVIOUS
        <5> HIDE DEF cut
        <5> QED
          BY <4>1, <5>1, DepthOfNode
      <4>4. lod \in Nat
        <5>1. <<cut, q[2]>>[1] = cut /\ <<cut, q[2]>>[2] = q[2]
          OBVIOUS
        <5> HIDE DEF cut
        <5> QED
          BY <4>2, <5>1, DepthOfNode
      <4> QED
        BY <4>3, <4>4
    <3>5. f[q] = 1 + Larger(up, lo)
      BY <2>3 DEF IsSplitDepth
    <3>6. q \in P /\ cut \in ValidSplits(P, q[1], q[2])
      BY <2>1, <2>3, NodeParts DEF Present, LegalSplits
    <3>7. depth \in Nat /\ depth <= 1 + Larger(upd, lod)
      BY <2>1, <2>3, <3>6, DepthOfNode
    <3>8. splits = Splits(P, "min_depth_splits") => depth = 1 + Larger(upd, lod)
      <4>1. SUFFICES ASSUME splits = Splits(P, "min_depth_splits")
                     PROVE  depth = 1 + Larger(upd, lod)
        OBVIOUS
      <4> DEFINE cost(l) == 1 + Larger(NodeDepth(P, q[1], l + 1), NodeDepth(P, l, q[2]))
      <4>2. cut = BestSplit(P, q[1], q[2])
        BY <3>6, <4>1 DEF Splits
      <4>3. \A l \in ValidSplits(P, q[1], q[2]) : cost(cut) <= cost(l)
        BY <3>6, <4>2, BestSplitIs
      <4>4. \E l \in ValidSplits(P, q[1], q[2]) : depth = cost(l)
        BY <2>1, <2>3, DepthOfNode
      <4>5. cost(cut) <= depth /\ cost(cut) = 1 + Larger(upd, lod)
        BY <4>3, <4>4
      <4> HIDE DEF cost, depth, upd, lod
      <4>6. cost(cut) \in Nat
        BY <3>4, <4>5, LargerNatural
      <4> QED
        BY <3>7, <4>5, <4>6
    <3> HIDE DEF up, lo, upd, lod, depth
    <3>9. Larger(upd, lod) <= Larger(up, lo) /\ Larger(up, lo) \in Nat /\ Larger(upd, lod) \in Nat
      BY <3>3, <3>4 DEF Larger
    <3>10. /\ f[q] \in Nat /\ depth <= f[q]
           /\ splits = Splits(P, "min_depth_splits") => f[q] = depth
      BY <3>3, <3>5, <3>7, <3>8, <3>9
    <3> QED
      BY <3>10 DEF depth
  <2> QED
    BY <2>2, <2>3
<1>2. D \in SUBSET Node
  BY DEF Nodes
<1>3. D \subseteq T
  <2> HIDE DEF D, Good
  <2>1. \A q \in D : (\A r \in D : Span(r) < Span(q) => r \in T) => q \in T
    BY <1>1
  <2> HIDE DEF T
  <2> QED
    BY <1>2, <2>1, SpanInduction
<1> QED
  BY <1>3

(* No way of choosing splits makes a carry's tree shallower. *)
LEMMA NoneShallower ==
  ASSUME NEW P, Legal(P), NEW n \in Nat \ {0}, Carries(n) \subseteq P,
         NEW splits, LegalSplits(P, splits), NEW bit \in 1..(n - 1)
  PROVE  /\ SplitDepth(splits, bit, 0) \in Nat
         /\ SplitDepth(Splits(P, "min_depth_splits"), bit, 0) = NodeDepth(P, bit, 0)
         /\ NodeDepth(P, bit, 0) <= SplitDepth(splits, bit, 0)
<1> DEFINE best == Splits(P, "min_depth_splits")
<1>1. LegalSplits(P, best)
  BY SplitsLegal DEF SplitModes
<1>2. bit \in Nat /\ <<bit, 0>> \in Nodes(P, bit) /\ <<bit, 0>>[1] = bit /\ <<bit, 0>>[2] = 0
  <2>1. <<bit, 0>> \in P /\ bit \in Nat /\ 0 \in Nat /\ 0 <= bit
    BY CarryNodes
  <2> QED
    BY <2>1, NodeMade DEF Nodes, Present
<1>3. PICK f : /\ IsSplitDepth(P, bit, splits, f)
               /\ \A low : SplitDepth(splits, bit, low) = f[<<bit, low>>]
  BY <1>2, SplitDepthIs
<1>4. PICK g : /\ IsSplitDepth(P, bit, best, g)
               /\ \A low : SplitDepth(best, bit, low) = g[<<bit, low>>]
  <2> HIDE DEF best
  <2> QED
    BY <1>1, <1>2, SplitDepthIs
<1>5. f[<<bit, 0>>] \in Nat /\ NodeDepth(P, bit, 0) <= f[<<bit, 0>>]
  BY <1>2, <1>3, DepthLeast
<1>6. g[<<bit, 0>>] = NodeDepth(P, bit, 0)
  BY <1>1, <1>2, <1>4, DepthLeast
<1> QED
  BY <1>3, <1>4, <1>5, <1>6

LEMMA LegalShallowest ==
  ASSUME NEW P, Legal(P), NEW n \in Nat \ {0}, Carries(n) \subseteq P
  PROVE  Shallowest(P, n)
<1>1. LegalSplits(P, Splits(P, "first_split")) /\ LegalSplits(P, LowestSplits(P))
  BY SplitsLegal, LowestLegal DEF SplitModes
<1>2. \A bit : GreedyDepth(P, bit, 0) = SplitDepth(LowestSplits(P), bit, 0)
  BY DEF GreedyDepth, LowestSplits
<1>3. ASSUME NEW bit \in 1..(n - 1)
      PROVE  /\ SplitDepth(Splits(P, "min_depth_splits"), bit, 0)
                  <= SplitDepth(Splits(P, "first_split"), bit, 0)
             /\ SplitDepth(Splits(P, "min_depth_splits"), bit, 0) <= GreedyDepth(P, bit, 0)
  BY <1>1, <1>2, NoneShallower
<1> QED
  BY <1>3 DEF Shallowest

LEMMA DoneLegal == PrefixInv /\ legalizing = "done" => Legal(prefixNodes)
BY DEF PrefixInv, Legal

(* The splits of least depth make every carry's tree as shallow as any, in *)
(* networks of every width: get_depth and first_split find none shallower, *)
(* and neither does any other choice of valid splits.                      *)
THEOREM DepthMinimalHolds ==
  PrefixSpec => [](/\ DepthMinimal
                   /\ legalizing = "done" =>
                        /\ Shallowest(prefixNodes, width)
                        /\ \A splits : LegalSplits(prefixNodes, splits) =>
                             \A bit \in 1..(width - 1) :
                               SplitDepth(Splits(prefixNodes, "min_depth_splits"), bit, 0)
                                 <= SplitDepth(splits, bit, 0))
<1>1. ASSUME PrefixInv, legalizing = "done"
      PROVE  /\ Shallowest(prefixNodes, width)
             /\ \A splits : LegalSplits(prefixNodes, splits) =>
                  \A bit \in 1..(width - 1) :
                    SplitDepth(Splits(prefixNodes, "min_depth_splits"), bit, 0)
                      <= SplitDepth(splits, bit, 0)
  <2>1. Legal(prefixNodes) /\ width \in Nat \ {0} /\ Carries(width) \subseteq prefixNodes
    BY <1>1, DoneLegal DEF PrefixInv
  <2> QED
    BY <2>1, LegalShallowest, NoneShallower
<1> QED
  BY <1>1, InitPrefixInv, PrefixInvKept, PTL DEF PrefixSpec, DepthMinimal

Bits == {0, 1}

LEMMA BitValues ==
  ASSUME NEW x \in Bits, NEW y \in Bits
  PROVE  /\ BitXor(x, y) \in Bits /\ BitAnd(x, y) \in Bits /\ BitOr(x, y) \in Bits
         /\ BitAnd(x, 0) = 0 /\ BitOr(x, 0) = x
<1>1. x \in {0, 1} /\ y \in {0, 1}
  BY DEF Bits
<1> QED
  BY <1>1 DEF Bits, BitXor, BitAnd, BitOr

(* One position of an addition. *)
LEMMA FullAdder ==
  ASSUME NEW a \in Bits, NEW b \in Bits, NEW c \in Bits
  PROVE  a + b + c = BitXor(BitXor(a, b), c)
                     + 2 * BitOr(BitAnd(a, b), BitAnd(BitXor(a, b), c))
<1>1. a \in {0, 1} /\ b \in {0, 1} /\ c \in {0, 1}
  BY DEF Bits
<1> QED
  BY <1>1 DEF BitXor, BitAnd, BitOr

(* Two groups, one above the other. *)
GroupOf(hi, lo) == <<BitOr(hi[1], BitAnd(hi[2], lo[1])), BitAnd(hi[2], lo[2])>>
CarryOut(gp, c) == BitOr(gp[1], BitAnd(gp[2], c))

LEMMA GroupsCarry ==
  ASSUME NEW hi \in Bits \X Bits, NEW lo \in Bits \X Bits, NEW c \in Bits
  PROVE  /\ GroupOf(hi, lo) \in Bits \X Bits
         /\ CarryOut(GroupOf(hi, lo), c) = CarryOut(hi, CarryOut(lo, c))
<1> DEFINE h == hi[1]
           cut == hi[2]
           l == lo[1]
           m == lo[2]
<1>1. h \in {0, 1} /\ cut \in {0, 1} /\ l \in {0, 1} /\ m \in {0, 1} /\ c \in {0, 1}
  BY DEF Bits
<1> HIDE DEF h, cut, l, m
<1>2. BitOr(h, BitAnd(cut, l)) \in Bits /\ BitAnd(cut, m) \in Bits
  BY <1>1 DEF Bits, BitOr, BitAnd
<1>3. BitOr(BitOr(h, BitAnd(cut, l)), BitAnd(BitAnd(cut, m), c))
        = BitOr(h, BitAnd(cut, BitOr(l, BitAnd(m, c))))
  BY <1>1 DEF BitOr, BitAnd
<1> QED
  BY <1>2, <1>3 DEF GroupOf, CarryOut, h, cut, l, m

IsGroup(P, bit, splits, g, p, f) ==
  \A q \in Nodes(P, bit) :
    f[q] = IF q[1] = q[2] THEN <<g[q[1]], p[q[1]]>>
           ELSE GroupOf(f[Upper(splits, q)], f[Lower(splits, q)])

GivesGroups(splits, g, p, bit, f) == \A low : GroupGP(splits, g, p, bit, low) = f[<<bit, low>>]

LEMMA GroupIs ==
  ASSUME NEW P, NEW splits, LegalSplits(P, splits), NEW n \in Nat, NEW bit \in 0..(n - 1),
         NEW g \in [0..(n - 1) -> Bits], NEW p \in [0..(n - 1) -> Bits]
  PROVE  \E f : IsGroup(P, bit, splits, g, p, f) /\ GivesGroups(splits, g, p, bit, f)
<1> DEFINE step(f, q) == IF q[1] = q[2] THEN <<g[q[1]], p[q[1]]>>
                         ELSE GroupOf(f[Upper(splits, q)], f[Lower(splits, q)])
           f == CHOOSE h : h = [q \in Nodes(DOMAIN splits, bit) |-> step(h, q)]
           leaf == [x \in 0..bit |-> <<g[x], p[x]>>]
           V == Bits \X Bits
           op == [t \in V \X V |-> GroupOf(t[1], t[2])]
<1>1. DOMAIN splits = P /\ bit \in Nat
  BY DEF LegalSplits
<1>2. leaf \in [0..bit -> V]
  OBVIOUS
<1>3. op \in [V \X V -> V] /\ V # {}
  <2>1. 0 \in Bits
    BY DEF Bits
  <2>2. ASSUME NEW t \in V \X V PROVE GroupOf(t[1], t[2]) \in V
    BY <2>1, GroupsCarry
  <2>3. <<0, 0>> \in V
    BY <2>1
  <2> HIDE DEF V
  <2> QED
    BY <2>2, <2>3
<1>4. PICK h \in [Nodes(P, bit) -> V] : IsTree(P, bit, splits, leaf, op, h)
  <2> HIDE DEF leaf, op, V
  <2> QED
    BY <1>1, <1>2, <1>3, TreeExists
<1>5. ASSUME NEW q \in Nodes(P, bit) PROVE h[q] = step(h, q)
  <2>1. q[1] \in 0..bit
    BY <1>1, NodeParts DEF Nodes
  <2>2. CASE q[1] = q[2]
    BY <1>4, <2>1, <2>2 DEF IsTree, TreeStep
  <2>3. CASE q[1] # q[2]
    <3>1. Upper(splits, q) \in Nodes(P, bit) /\ Lower(splits, q) \in Nodes(P, bit)
      BY <1>1, <2>3, LegalHalves
    <3>2. h[q] = op[<<h[Upper(splits, q)], h[Lower(splits, q)]>>]
      BY <1>4, <2>3 DEF IsTree, TreeStep
    <3>3. h[Upper(splits, q)] \in V /\ h[Lower(splits, q)] \in V
      BY <3>1
    <3> HIDE DEF V
    <3>4. h[q] = GroupOf(h[Upper(splits, q)], h[Lower(splits, q)])
      BY <3>2, <3>3
    <3> QED
      BY <2>3, <3>4
  <2> QED
    BY <2>2, <2>3
<1>6. f = [q \in Nodes(DOMAIN splits, bit) |-> step(f, q)]
  <2>1. h = [q \in Nodes(DOMAIN splits, bit) |-> step(h, q)]
    BY <1>1, <1>5
  <2> QED
    BY <2>1
<1>7. \A low : GroupGP(splits, g, p, bit, low) = f[<<bit, low>>]
  BY DEF GroupGP, GroupOf, Upper, Lower
<1> HIDE DEF f
<1>8. \A q \in Nodes(P, bit) : f[q] = step(f, q)
  BY <1>1, <1>6
<1> QED
  BY <1>7, <1>8 DEF IsGroup, GivesGroups

(* The carries of a ripple addition. *)
Ripples(n, g, p, cin, carry) ==
  /\ carry[0] = cin
  /\ \A x \in 0..(n - 1) : carry[x + 1] = CarryOut(<<g[x], p[x]>>, carry[x])

(* A group hands the carry into its lowest bit on to the bit above it. *)
HandsOn(P, bit, carry, f) ==
  \A q \in Nodes(P, bit) : /\ f[q] \in Bits \X Bits
                         /\ carry[q[1] + 1] = CarryOut(f[q], carry[q[2]])

LEMMA GroupCarries ==
  ASSUME NEW P, NEW splits, LegalSplits(P, splits), NEW n \in Nat, NEW bit \in 0..(n - 1),
         NEW g \in [0..(n - 1) -> Bits], NEW p \in [0..(n - 1) -> Bits],
         NEW cin, NEW carry \in [0..n -> Bits], Ripples(n, g, p, cin, carry),
         NEW f, IsGroup(P, bit, splits, g, p, f)
  PROVE  HandsOn(P, bit, carry, f)
<1> DEFINE D == Nodes(P, bit)
           Good(q) == f[q] \in Bits \X Bits /\ carry[q[1] + 1] = CarryOut(f[q], carry[q[2]])
           T == {q \in D : Good(q)}
<1>1. ASSUME NEW q \in D, \A r \in D : Span(r) < Span(q) => r \in T PROVE Good(q)
  <2>1. q[1] \in 0..(n - 1) /\ q[2] \in 0..(n - 1) /\ q[2] \in 0..n
    BY NodeParts DEF Nodes
  <2>2. CASE q[1] = q[2]
    <3>1. f[q] = <<g[q[1]], p[q[1]]>>
      BY <2>2 DEF IsGroup
    <3> QED
      BY <2>1, <2>2, <3>1 DEF Ripples
  <2>3. CASE q[1] # q[2]
    <3> DEFINE hi == f[Upper(splits, q)]
               lo == f[Lower(splits, q)]
    <3>1. bit \in Nat
      OBVIOUS
    <3>2. Good(Upper(splits, q)) /\ Good(Lower(splits, q))
      BY <1>1, <2>3, <3>1, LegalHalves
    <3>3. f[q] = GroupOf(hi, lo)
      BY <2>3 DEF IsGroup
    <3>4. /\ hi \in Bits \X Bits /\ carry[q[1] + 1] = CarryOut(hi, carry[splits[q] + 1])
          /\ lo \in Bits \X Bits /\ carry[splits[q] + 1] = CarryOut(lo, carry[q[2]])
      BY <3>2 DEF Upper, Lower
    <3>5. carry[q[2]] \in Bits
      BY <2>1
    <3> HIDE DEF hi, lo
    <3> QED
      BY <3>3, <3>4, <3>5, GroupsCarry
  <2> QED
    BY <2>2, <2>3
<1>2. D \in SUBSET Node
  BY DEF Nodes
<1>3. D \subseteq T
  <2> HIDE DEF D, Good
  <2>1. \A q \in D : (\A r \in D : Span(r) < Span(q) => r \in T) => q \in T
    BY <1>1
  <2> HIDE DEF T
  <2> QED
    BY <1>2, <2>1, SpanInduction
<1> QED
  BY <1>3 DEF HandsOn

LEMMA CarriesExist ==
  ASSUME NEW n \in Nat, NEW cin \in Bits,
         NEW g \in [0..(n - 1) -> Bits], NEW p \in [0..(n - 1) -> Bits]
  PROVE  \E carry \in [0..n -> Bits] : Ripples(n, g, p, cin, carry)
<1> DEFINE next == [m \in 1..n |-> [c \in Bits |-> CarryOut(<<g[m - 1], p[m - 1]>>, c)]]
<1>1. ASSUME NEW m \in 1..n, NEW c \in Bits PROVE CarryOut(<<g[m - 1], p[m - 1]>>, c) \in Bits
  <2>1. g[m - 1] \in Bits /\ p[m - 1] \in Bits
    OBVIOUS
  <2> QED
    BY <2>1, BitValues DEF CarryOut
<1>2. /\ next \in [1..n -> [Bits -> Bits]]
      /\ \A m \in 1..n, c \in Bits : next[m][c] = CarryOut(<<g[m - 1], p[m - 1]>>, c)
  BY <1>1
<1> HIDE DEF next
<1>3. PICK f \in [0..n -> Bits] : IsRun(f, n, cin, next)
  BY <1>2, RecursionExists
<1>4. ASSUME NEW x \in 0..(n - 1) PROVE f[x + 1] = CarryOut(<<g[x], p[x]>>, f[x])
  <2>1. x + 1 \in 1..n /\ (x + 1) - 1 = x /\ x \in 0..n
    OBVIOUS
  <2>2. f[x + 1] = next[x + 1][f[x]]
    BY <1>3, <2>1 DEF IsRun
  <2>3. f[x] \in Bits
    BY <2>1
  <2> QED
    BY <1>2, <2>1, <2>2, <2>3
<1> QED
  BY <1>3, <1>4 DEF IsRun, Ripples

(* The number that bits spell, bit by bit. *)
IsNumber(bits, m, f) ==
  /\ f[m + 1] = 0
  /\ \A pos \in 1..m : f[pos] = bits[pos] + 2 * f[pos + 1]

LEMMA NumberIs ==
  ASSUME NEW m \in Nat, NEW bits \in [1..m -> Bits]
  PROVE  \E f \in [1..(m + 1) -> Nat] : IsNumber(bits, m, f) /\ Number(bits) = f[1]
<1> DEFINE step(f, pos) == IF pos > Len(bits) THEN 0 ELSE bits[pos] + 2 * f[pos + 1]
           from == CHOOSE h : h = [pos \in 1..(Len(bits) + 1) |-> step(h, pos)]
           next == [l \in 1..m |-> [v \in Nat |-> bits[m + 1 - l] + 2 * v]]
<1>1. bits \in Seq(Bits) /\ Len(bits) = m
  OBVIOUS
<1>2. \A pos \in 1..m : bits[pos] \in Nat
  BY DEF Bits
<1>3. /\ next \in [1..m -> [Nat -> Nat]]
      /\ \A l \in 1..m, v \in Nat : next[l][v] = bits[m + 1 - l] + 2 * v
  <2>1. \A l \in 1..m : m + 1 - l \in 1..m
    OBVIOUS
  <2>2. \A l \in 1..m, v \in Nat : bits[m + 1 - l] + 2 * v \in Nat
    BY <1>2, <2>1
  <2> QED
    BY <2>2
<1> HIDE DEF next
<1>4. PICK h \in [0..m -> Nat] : IsRun(h, m, 0, next)
  <2>1. 0 \in Nat
    OBVIOUS
  <2> QED
    BY <1>3, <2>1, RecursionExists
<1> DEFINE g == [pos \in 1..(m + 1) |-> h[m + 1 - pos]]
<1>5. /\ \A pos \in 1..(m + 1) : g[pos] = h[m + 1 - pos]
      /\ g = [pos \in 1..(m + 1) |-> g[pos]]
  OBVIOUS
<1> HIDE DEF g
<1>6. ASSUME NEW pos \in 1..(m + 1) PROVE g[pos] = step(g, pos)
  <2>1. CASE pos = m + 1
    <3>1. g[pos] = h[0]
      BY <1>5, <2>1
    <3> QED
      BY <1>1, <1>4, <2>1, <3>1 DEF IsRun
  <2>2. CASE pos \in 1..m
    <3> DEFINE l == m + 1 - pos
    <3>1. l \in 1..m /\ l - 1 \in 0..m /\ m + 1 - l = pos /\ m + 1 - (pos + 1) = l - 1
          /\ pos + 1 \in 1..(m + 1) /\ ~(pos > m)
      BY <2>2
    <3>2. h[l] = next[l][h[l - 1]]
      BY <1>4, <3>1 DEF IsRun
    <3>3. h[l] = bits[pos] + 2 * h[l - 1]
      BY <1>3, <3>1, <3>2
    <3>4. g[pos] = h[l] /\ g[pos + 1] = h[l - 1]
      BY <1>5, <3>1
    <3> HIDE DEF l
    <3> QED
      BY <1>1, <3>1, <3>3, <3>4
  <2> QED
    BY <2>1, <2>2
<1>7. from = [pos \in 1..(Len(bits) + 1) |-> step(from, pos)]
  <2>1. g = [pos \in 1..(Len(bits) + 1) |-> step(g, pos)]
    BY <1>1, <1>5, <1>6
  <2> QED
    BY <2>1
<1>8. Number(bits) = from[1]
  BY DEF Number
<1> HIDE DEF from
<1>9. /\ \A pos \in 1..(m + 1) : from[pos] = step(from, pos)
      /\ from = [pos \in 1..(m + 1) |-> from[pos]]
  BY <1>1, <1>7
<1>10. IsNumber(bits, m, from)
  <2>1. m + 1 \in 1..(m + 1) /\ m + 1 > m
    OBVIOUS
  <2>2. \A pos \in 1..m : pos \in 1..(m + 1) /\ ~(pos > m)
    OBVIOUS
  <2> QED
    BY <1>1, <1>9, <2>1, <2>2 DEF IsNumber
<1> DEFINE S == {l \in Nat : l \in 0..m => from[m + 1 - l] \in Nat}
<1>11. \A l \in Nat : l \in S
  <2>1. 0 \in S
    BY <1>10 DEF IsNumber
  <2>2. ASSUME NEW l \in Nat, l \in S PROVE l + 1 \in S
    <3>1. CASE l + 1 \in 0..m
      <4>1. l \in 0..m /\ m - l \in 1..m /\ m + 1 - (l + 1) = m - l /\ (m - l) + 1 = m + 1 - l
        BY <3>1
      <4>2. from[m - l] = bits[m - l] + 2 * from[m + 1 - l]
        BY <1>10, <4>1 DEF IsNumber
      <4>3. from[m + 1 - l] \in Nat /\ bits[m - l] \in Nat
        BY <1>2, <2>2, <4>1
      <4>4. from[m - l] \in Nat
        BY <4>2, <4>3
      <4> QED
        BY <4>1, <4>4
    <3> QED
      BY <3>1
  <2> HIDE DEF S
  <2> QED
    BY <2>1, <2>2, NaturalSet
<1>12. ASSUME NEW pos \in 1..(m + 1) PROVE from[pos] \in Nat
  <2>1. m + 1 - pos \in 0..m /\ m + 1 - pos \in Nat /\ m + 1 - (m + 1 - pos) = pos
    OBVIOUS
  <2>2. m + 1 - pos \in S
    BY <1>11, <2>1
  <2> QED
    BY <2>1, <2>2
<1>13. from \in [1..(m + 1) -> Nat]
  BY <1>9, <1>12
<1> QED
  BY <1>8, <1>10, <1>13

(* The sum bits are those of a ripple addition. *)
Generates(n, a, b) == [bit \in 0..(n - 1) |-> BitAnd(a[bit], b[bit])]
Propagates(n, a, b) == [bit \in 0..(n - 1) |-> BitXor(a[bit], b[bit])]
IsSumRow(n, a, b, carry, s) ==
  /\ s \in [1..(n + 1) -> Bits] /\ s[n + 1] = carry[n]
  /\ \A pos \in 1..n : s[pos] = BitXor(BitXor(a[pos - 1], b[pos - 1]), carry[pos - 1])

LEMMA PrefixCarries ==
  ASSUME NEW P, Legal(P), NEW n \in Nat \ {0}, Carries(n) \subseteq P,
         NEW splits, LegalSplits(P, splits),
         NEW a \in [0..(n - 1) -> Bits], NEW b \in [0..(n - 1) -> Bits], NEW cin \in Bits
  PROVE  \E carry \in [0..n -> Bits] :
           /\ Ripples(n, Generates(n, a, b), Propagates(n, a, b), cin, carry)
           /\ IsSumRow(n, a, b, carry, PrefixSum(splits, n, a, b, cin))
<1> DEFINE p == Propagates(n, a, b)
           g == Generates(n, a, b)
           made == [bit \in 0..n |-> IF bit = 0 THEN cin
                      ELSE LET gp == GroupGP(splits, g, p, bit - 1, 0)
                           IN  BitOr(gp[1], BitAnd(gp[2], cin))]
<1>1. /\ p \in [0..(n - 1) -> Bits] /\ g \in [0..(n - 1) -> Bits] /\ n \in Nat
      /\ \A x \in 0..(n - 1) : p[x] = BitXor(a[x], b[x])
  BY BitValues DEF Propagates, Generates
<1>2. /\ \A bit \in 0..n : made[bit] = IF bit = 0 THEN cin
                                   ELSE CarryOut(GroupGP(splits, g, p, bit - 1, 0), cin)
      /\ made = [bit \in 0..n |-> made[bit]]
  BY DEF CarryOut
<1>3. PrefixSum(splits, n, a, b, cin) =
        [bit \in 1..(n + 1) |-> IF bit = n + 1 THEN made[n] ELSE BitXor(p[bit - 1], made[bit - 1])]
  BY DEF PrefixSum, Propagates, Generates
<1> HIDE DEF p, g, made
<1>4. PICK carry \in [0..n -> Bits] : Ripples(n, g, p, cin, carry)
  BY <1>1, CarriesExist
<1>5. ASSUME NEW m \in 0..(n - 1)
      PROVE  CarryOut(GroupGP(splits, g, p, m, 0), cin) = carry[m + 1]
  <2>1. m \in Nat /\ 0 \in Nat /\ 0 <= m /\ m <= m
    BY <1>1
  <2>2. PICK f : /\ IsGroup(P, m, splits, g, p, f)
                 /\ GivesGroups(splits, g, p, m, f)
    <3>1. /\ LegalSplits(P, splits) /\ n \in Nat /\ m \in 0..(n - 1)
          /\ g \in [0..(n - 1) -> Bits] /\ p \in [0..(n - 1) -> Bits]
      BY <1>1
    <3> QED
      BY <3>1, GroupIs, Zenon
  <2>3. <<m, 0>> \in Nodes(P, m) /\ <<m, 0>>[1] = m /\ <<m, 0>>[2] = 0
    <3>1. m = 0 \/ <<m, 0>> \in P
      <4>1. m # 0 => m \in 1..(n - 1)
        BY <1>1
      <4> QED
        BY <4>1, CarryNodes
    <3>2. <<m, 0>> \in Node
      BY <2>1, NodeMade
    <3> QED
      BY <2>1, <3>1, <3>2 DEF Nodes, Present
  <2>4. carry[m + 1] = CarryOut(f[<<m, 0>>], carry[0])
    <3>1. HandsOn(P, m, carry, f)
      <4>1. /\ LegalSplits(P, splits) /\ n \in Nat /\ m \in 0..(n - 1)
            /\ g \in [0..(n - 1) -> Bits] /\ p \in [0..(n - 1) -> Bits]
            /\ carry \in [0..n -> Bits] /\ Ripples(n, g, p, cin, carry)
            /\ IsGroup(P, m, splits, g, p, f)
        BY <1>1, <1>4, <2>2
      <4> QED
        BY <4>1, GroupCarries, Zenon
    <3> QED
      BY <2>3, <3>1 DEF HandsOn
  <2> QED
    BY <1>4, <2>2, <2>4 DEF Ripples, GivesGroups
<1>6. \A bit \in 0..n : made[bit] = carry[bit]
  <2>1. \A bit \in 0..n : bit # 0 => bit - 1 \in 0..(n - 1) /\ (bit - 1) + 1 = bit
    BY <1>1
  <2> QED
    BY <1>2, <1>4, <1>5, <2>1 DEF Ripples
<1> DEFINE s == PrefixSum(splits, n, a, b, cin)
<1>7. ASSUME NEW pos \in 1..n
      PROVE  /\ s[pos] = BitXor(BitXor(a[pos - 1], b[pos - 1]), carry[pos - 1])
             /\ BitXor(BitXor(a[pos - 1], b[pos - 1]), carry[pos - 1]) \in Bits
  <2>1. pos - 1 \in 0..(n - 1) /\ pos - 1 \in 0..n /\ pos \in 1..(n + 1) /\ pos # n + 1
    BY <1>1
  <2>2. a[pos - 1] \in Bits /\ b[pos - 1] \in Bits /\ carry[pos - 1] \in Bits
    BY <2>1
  <2>3. s[pos] = BitXor(p[pos - 1], made[pos - 1])
    BY <1>3, <2>1
  <2> QED
    BY <1>1, <1>6, <2>1, <2>2, <2>3, BitValues
<1>8. s[n + 1] = carry[n] /\ carry[n] \in Bits
  <2>1. n + 1 \in 1..(n + 1) /\ n \in 0..n
    BY <1>1
  <2> QED
    BY <1>3, <1>6, <2>1
<1>9. s \in [1..(n + 1) -> Bits]
  <2>1. s = [pos \in 1..(n + 1) |-> s[pos]]
    BY <1>3
  <2>2. \A pos \in 1..(n + 1) : pos # n + 1 => pos \in 1..n
    BY <1>1
  <2> HIDE DEF s
  <2>3. \A pos \in 1..(n + 1) : s[pos] \in Bits
    BY <1>7, <1>8, <2>2
  <2> QED
    BY <2>1, <2>3
<1>10. IsSumRow(n, a, b, carry, s)
  BY <1>7, <1>8, <1>9 DEF IsSumRow
<1> QED
  BY <1>4, <1>10 DEF p, g

Value(n, x) == Number([pos \in 1..n |-> x[pos - 1]])

Column(x, y, c, s, restX, restY, restS) ==
  (x + 2 * restX) + (y + 2 * restY) + c = s + 2 * restS

LEMMA ColumnAdds ==
  ASSUME NEW x \in Nat, NEW y \in Nat, NEW c \in Nat, NEW s \in Nat, NEW d \in Nat,
         NEW restX \in Nat, NEW restY \in Nat, NEW restS \in Nat,
         x + y + c = s + 2 * d, restX + restY + d = restS
  PROVE  Column(x, y, c, s, restX, restY, restS)
BY DEF Column

LEMMA PrefixSumAdds ==
  ASSUME NEW P, Legal(P), NEW n \in Nat \ {0}, Carries(n) \subseteq P,
         NEW splits, LegalSplits(P, splits),
         NEW a \in [0..(n - 1) -> Bits], NEW b \in [0..(n - 1) -> Bits], NEW cin \in Bits
  PROVE  Number(PrefixSum(splits, n, a, b, cin)) = Value(n, a) + Value(n, b) + cin
<1> DEFINE s == PrefixSum(splits, n, a, b, cin)
           bitsA == [pos \in 1..n |-> a[pos - 1]]
           bitsB == [pos \in 1..n |-> b[pos - 1]]
<1>1. PICK carry \in [0..n -> Bits] :
        /\ Ripples(n, Generates(n, a, b), Propagates(n, a, b), cin, carry)
        /\ IsSumRow(n, a, b, carry, s)
  BY PrefixCarries
<1>2. /\ bitsA \in [1..n -> Bits] /\ \A pos \in 1..n : bitsA[pos] = a[pos - 1]
      /\ bitsB \in [1..n -> Bits] /\ \A pos \in 1..n : bitsB[pos] = b[pos - 1]
      /\ n \in Nat
  <2>1. \A pos \in 1..n : pos - 1 \in 0..(n - 1)
    OBVIOUS
  <2> QED
    BY <2>1
<1>3. /\ s \in [1..(n + 1) -> Bits] /\ s[n + 1] = carry[n] /\ carry[0] = cin
      /\ \A pos \in 1..n : s[pos] = BitXor(BitXor(a[pos - 1], b[pos - 1]), carry[pos - 1])
      /\ \A x \in 0..(n - 1) :
           carry[x + 1] = CarryOut(<<BitAnd(a[x], b[x]), BitXor(a[x], b[x])>>, carry[x])
  BY <1>1 DEF IsSumRow, Ripples, Generates, Propagates
<1>4. Value(n, a) = Number(bitsA) /\ Value(n, b) = Number(bitsB)
  BY DEF Value
<1> HIDE DEF s, bitsA, bitsB
<1>5. PICK A \in [1..(n + 1) -> Nat] : IsNumber(bitsA, n, A) /\ Number(bitsA) = A[1]
  BY <1>2, NumberIs
<1>6. PICK B \in [1..(n + 1) -> Nat] : IsNumber(bitsB, n, B) /\ Number(bitsB) = B[1]
  BY <1>2, NumberIs
<1>7. PICK S \in [1..((n + 1) + 1) -> Nat] : IsNumber(s, n + 1, S) /\ Number(s) = S[1]
  <2>1. n + 1 \in Nat
    OBVIOUS
  <2> QED
    BY <1>3, <2>1, NumberIs
(* What is left to add from a position on is what the sum has there. *)
<1> DEFINE Left(pos) == A[pos] + B[pos] + carry[pos - 1] = S[pos]
           T == {l \in Nat : l \in 0..n => Left(n + 1 - l)}
<1>8. \A pos \in 1..(n + 1) :
        A[pos] \in Nat /\ B[pos] \in Nat /\ S[pos] \in Nat /\ carry[pos - 1] \in Nat
  <2>1. \A pos \in 1..(n + 1) : pos - 1 \in 0..n /\ pos \in 1..((n + 1) + 1)
    OBVIOUS
  <2>2. \A x \in 0..n : carry[x] \in Bits
    OBVIOUS
  <2>3. \A x \in 0..n : carry[x] \in Nat
    <3>1. \A c \in Bits : c \in Nat
      BY DEF Bits
    <3> QED
      BY <2>2, <3>1
  <2> QED
    BY <2>1, <2>3
<1>9. Left(n + 1)
  <2>1. n + 1 \in 1..(n + 1) /\ (n + 1) - 1 = n
    OBVIOUS
  <2>2. A[n + 1] = 0 /\ B[n + 1] = 0
    BY <1>5, <1>6 DEF IsNumber
  <2>3. S[n + 1] = carry[n] + 2 * 0
    BY <1>3, <1>7, <2>1 DEF IsNumber
  <2> QED
    BY <1>8, <2>1, <2>2, <2>3
<1>10. ASSUME NEW pos \in 1..n, Left(pos + 1) PROVE Left(pos)
  <2> DEFINE x == BitXor(BitXor(a[pos - 1], b[pos - 1]), carry[pos - 1])
  <2>1. /\ pos \in 1..(n + 1) /\ pos + 1 \in 1..(n + 1)
        /\ pos - 1 \in 0..(n - 1) /\ pos - 1 \in 0..n
        /\ (pos - 1) + 1 = pos /\ (pos + 1) - 1 = pos /\ pos \in 0..n
    OBVIOUS
  <2>2. A[pos] = a[pos - 1] + 2 * A[pos + 1] /\ B[pos] = b[pos - 1] + 2 * B[pos + 1]
    BY <1>2, <1>5, <1>6 DEF IsNumber
  <2>3. S[pos] = x + 2 * S[pos + 1]
    BY <1>3, <1>7, <2>1 DEF IsNumber
  <2>4. a[pos - 1] \in Bits /\ b[pos - 1] \in Bits /\ carry[pos - 1] \in Bits
    BY <2>1
  <2>5. carry[pos] = BitOr(BitAnd(a[pos - 1], b[pos - 1]),
                           BitAnd(BitXor(a[pos - 1], b[pos - 1]), carry[pos - 1]))
    BY <1>3, <2>1 DEF CarryOut
  <2>6. a[pos - 1] + b[pos - 1] + carry[pos - 1] = x + 2 * carry[pos]
    BY <2>4, <2>5, FullAdder
  <2>7. A[pos + 1] + B[pos + 1] + carry[pos] = S[pos + 1]
    BY <1>10, <2>1
  <2>8. x \in Nat /\ a[pos - 1] \in Nat /\ b[pos - 1] \in Nat /\ carry[pos - 1] \in Nat
    <3>1. x \in Bits
      BY <2>4, BitValues
    <3> HIDE DEF x
    <3> QED
      BY <2>4, <3>1 DEF Bits
  <2>9. /\ A[pos + 1] \in Nat /\ B[pos + 1] \in Nat /\ S[pos + 1] \in Nat
        /\ carry[(pos + 1) - 1] \in Nat /\ carry[pos] \in Nat
    BY <1>8, <2>1
  <2> HIDE DEF x
  <2>10. Column(a[pos - 1], b[pos - 1], carry[pos - 1], x, A[pos + 1], B[pos + 1], S[pos + 1])
    BY <2>6, <2>7, <2>8, <2>9, ColumnAdds, Zenon
  <2> QED
    BY <2>2, <2>3, <2>10 DEF Column
<1>11. \A l \in Nat : l \in T
  <2>1. 0 \in T
    BY <1>9
  <2>2. ASSUME NEW l \in Nat, l \in T PROVE l + 1 \in T
    <3>1. CASE l + 1 \in 0..n
      <4>1. l \in 0..n /\ n - l \in 1..n /\ n + 1 - l = (n - l) + 1 /\ n + 1 - (l + 1) = n - l
        BY <3>1
      <4>2. Left((n - l) + 1)
        BY <2>2, <4>1
      <4>3. Left(n - l)
        <5> HIDE DEF Left
        <5> QED
          BY <1>10, <4>1, <4>2
      <4> QED
        BY <4>1, <4>3
    <3> QED
      BY <3>1
  <2> HIDE DEF T
  <2> QED
    BY <2>1, <2>2, NaturalSet
<1>12. Left(1)
  <2>1. n \in Nat /\ n \in 0..n /\ n + 1 - n = 1
    BY <1>2
  <2>2. n \in T
    BY <1>11, <2>1
  <2> QED
    BY <2>1, <2>2
<1>13. A[1] + B[1] + cin = S[1]
  BY <1>3, <1>12
<1> QED
  BY <1>4, <1>5, <1>6, <1>7, <1>13 DEF s

LEMMA LegalAdds ==
  ASSUME NEW P, Legal(P), NEW n \in Nat \ {0}, Carries(n) \subseteq P
  PROVE  Adds(P, n)
<1> SUFFICES ASSUME NEW mode \in SplitModes, NEW r \in RowsOf(n), NEW cin \in {0, 1}
             PROVE  LET a == [bit \in 0..(n - 1) |-> r[bit][1]]
                        b == [bit \in 0..(n - 1) |-> r[bit][2]]
                    IN  Number(PrefixSum(Splits(P, mode), n, a, b, cin))
                          = Value(n, a) + Value(n, b) + cin
  BY DEF Adds, Value
<1> DEFINE a == [bit \in 0..(n - 1) |-> r[bit][1]]
           b == [bit \in 0..(n - 1) |-> r[bit][2]]
<1>1. ASSUME NEW bit \in 0..(n - 1) PROVE r[bit][1] \in Bits /\ r[bit][2] \in Bits
  <2>1. r[bit] \in {<<0, 0>>, <<1, 0>>, <<1, 1>>}
    BY DEF RowsOf
  <2> QED
    BY <2>1 DEF Bits
<1>2. a \in [0..(n - 1) -> Bits] /\ b \in [0..(n - 1) -> Bits] /\ cin \in Bits
  BY <1>1 DEF Bits
<1>3. LegalSplits(P, Splits(P, mode))
  BY SplitsLegal
<1> HIDE DEF a, b
<1>4. Number(PrefixSum(Splits(P, mode), n, a, b, cin)) = Value(n, a) + Value(n, b) + cin
  BY <1>2, <1>3, PrefixSumAdds
<1> QED
  BY <1>4 DEF a, b

(* Whatever network came in and in whatever order it was repaired, the     *)
(* adder built from it adds: any two rows of any width, any carry in, and  *)
(* any choice of valid splits, so the two the code makes among them.       *)
THEOREM NetworkAddsHolds ==
  PrefixSpec => [](/\ NetworkAdds
                   /\ legalizing = "done" =>
                        /\ Adds(prefixNodes, width)
                        /\ \A splits : LegalSplits(prefixNodes, splits) =>
                             \A a, b \in [0..(width - 1) -> Bits], cin \in Bits :
                                 Number(PrefixSum(splits, width, a, b, cin))
                                   = Value(width, a) + Value(width, b) + cin)
<1>1. ASSUME PrefixInv, legalizing = "done"
      PROVE  /\ Adds(prefixNodes, width)
             /\ \A splits : LegalSplits(prefixNodes, splits) =>
                  \A a, b \in [0..(width - 1) -> Bits], cin \in Bits :
                      Number(PrefixSum(splits, width, a, b, cin))
                        = Value(width, a) + Value(width, b) + cin
  <2>1. Legal(prefixNodes) /\ width \in Nat \ {0} /\ Carries(width) \subseteq prefixNodes
    BY <1>1, DoneLegal DEF PrefixInv
  <2> QED
    BY <2>1, LegalAdds, PrefixSumAdds
<1> QED
  BY <1>1, InitPrefixInv, PrefixInvKept, PTL DEF PrefixSpec, NetworkAdds
=============================================================================
