# SpireHDL in TLA+

SpireHDL is a Python-embedded hardware description language with a simulator,
primitive components, generators of arithmetic circuits, an optimization flow, and
a *design DB* that several programs fill concurrently.  This directory holds TLA+ models of its parts,
TLC configurations that check small instances, and theorems checked by TLAPS.
Paths below are relative to `src/src/spire/` unless they start with `docs/`
(`src/docs/`).

Contents: 1 the system and its parts, 2 the modules, 3 the runs, 4 the proofs,
5 what the checks found, 6 what is not modelled, 7 the plan.

## 1. The system: components, state, hazards

### 1.1 Components that keep state

**Design DB, admission** (`design_db/insert.py`, `design_db/store.py`).
State: a directory per slot with `designs/<id>` (admitted) and
`designs/<id>.tmp` (in preparation), `index.json` (a cache).  Operations:
`insert_design` (elaborate, hash, dedup scan, gate, write, rename, refresh),
`read_index`.  No lock: any number of processes work on the same directories,
and the only synchronisation is what the file system gives (mkdir fails on an
existing path, a rename replaces only an empty directory).  Hard: two inserts
with one identifier; a kill between two system calls; rmtree racing a rename.
Correct if: an admitted directory is complete, verified and permanent; no call
fails because of what others did; the cache comes to show it.

**Design DB, registry** (`design_db/store.py` `register_slot`,
`design_db/decorator.py` `_capture_source`).  State: `manifest.json` (name to
structural key) under an `fcntl` lock, per slot `spec.json`, `golden.v`.
Operations: register a structure under a name; capture its source.  Hard: the
lock covers the update of the manifest but neither the test that a name is free
nor `spec.json`.  Correct if: bindings are not lost and permanent, and a bound
name leads to a slot that can be used.

**Design DB, acceptance oracle** (`design_db/verify_sim.py`,
`design_db/verify.py`, `design_db/cli.py`).  State: `verification.json`,
`vectors.dat`, `tb.sv` of a slot.  Operations: the default oracle at
registration, `spire db set-verification --cec`, `freeze_sim_verification`, and
the gate that uses the files (`run_frozen_tb`).  It interacts with admission:
`insert_design` resolves the method at its start and runs the gate later.
Correct if: a freeze is final, a frozen slot has its artifacts, and all designs
admitted by simulation have passed the same trace.  A slot may go from CEC to a
simulation while an insert that resolved to CEC is still under way: its design is then
admitted by CEC, which nothing in the repository rules out.

**Design DB, the rest**: `annotate.py` (adds measurements to a design's
`metrics.json`), `select.py` (picks a design from the index), `overrides.py` (a
context-local stack of pins), `keys.py`, `_yosys.py` (external tools).

**Simulator** (`simulator.py`, `simulator_base.py`, `memory.py`).  State: input
and register values, memory arrays, evaluation caches, watches.  Operations:
`set`, `get`, `peek`, `peek_next`, `eval`, `step`, `reset`, `deassert_reset`,
`watch`, `clear_watches`.  Hard: every call must drop exactly the caches it makes
stale, and watches must show one moment.  It must agree with the Verilog the same
components emit; `docs/README_semantics.md` states the rules.

**Memory and FIFO primitives** (`primitives/*`).  Each exists twice: as
something the simulator runs and as emitted Verilog.  Hard: same-edge reads and
writes, several masked ports, out-of-range addresses, reset arms, full and empty
at the wrap-around.

**Testbench recorder** (`verilog_testbench.py`).  State: the list of recorded
events.  Records the calls made on a simulator and emits a Verilog testbench
that replays them.  Hard: the hardware's reset is asynchronous, the simulator's
is not, and before the first reset the hardware's registers have no value.
Correct if the replay expects what the hardware does.

**Tiled matrix multiplier** (`cores/output_stationary_matmul.py`).  State: two
RAMs, the busy flag, three counters, the accumulator.  Inputs: mode, start, host
accesses.  Correct if the product is, and if the protocol of the inputs holds.

**Optimization cache** (`optimize/optimize.py`).  State: an in-memory cache per
process and, shared by all processes, one file per key.  No lock: writers use
temporary files of their own and a rename; a clear removes the directory under
everybody.  Correct if an entry is whole or absent and an answer belongs to the
function called.

**Shared wires** (`expr._SharedCache`, `_push_shared_state`/`_pop_shared_state`,
`flat_emit`).  State: a global table from expressions to the wires they became,
and a list of all wires made, saved, emptied and restored around the construction of an
optimized function's logic.  Hard: nesting, and exceptions out of any level; wires that
are listed and in no table; the FSM optimizers, which read the list by position.
Correct if no expression is replaced by the wire of another, and a block is found all
the wires its expressions became.

**Emission** (`component.py`, `simplify.py`, `cse.py`, `width_isolation.py`,
`ir.py`).  State: the drivers of the netlist, which every emission rewrites *in
place* (simplification to a fixpoint, balancing, sharing, width isolation) before it
prints them; a design can be emitted again, with other options, simulated, or
exported, at any time.  Correct if none of it changes a value.

**Arithmetic replacement** (`arithmetic/int_arithmetic_config.py`).  State: the
expression DAG, in which operators and whole chains of them give way to circuits,
in place.  Hard: which nodes a chain consumes while others still read them.

**State machine optimization** (`optimize/fsm/`).  State: the codes of a State
class, which every expression refers to; the search that tries other codes; the
circuits rewritten from the table.  Operations: the exits of `optimized_fsm` and
`optimized_encoding`.  Hard: merged states must stay merged, trial codes must leave
no trace, the reset must still enter the start state.

**Control structures** (`control_structures.py`, `selection_analysis.py`,
`selection_emission.py`).  State, while a design is described: the stacks of
open conditions, switches and emission regions, the pending if-chain, and the
driver of each signal, which every assignment wraps in one more mux.  Operations:
entering and leaving `if_`, `elif_`, `else_`, `switch_`, `case_`, `default`,
`selection_topology`, `fresh_condition_scope`; assignments; the emission pass.
Hard: the muxes nest in the reverse of program order, so first-match order hangs
on gates that are left out when an incremental, purely syntactic analysis calls
them dead; a pending chain may be claimed from another block; an exception may
unwind any of it; emission modes rest on the same analysis.  Correct if the
hardware delivers what the program text says.

### 1.2 Components that are functions

The typing and meaning of expressions (`expr.py`), their Verilog text (`ir.py`), the
AIGER export (`aiger.py`); reductions, scans and selections (`reduce.py`); prefix
networks and their repair; partial products, compressor trees, final adders and the
multipliers, adders and inner products made of them; multipliers in other encodings
and made of smaller ones; the cores that multiply matrices; floating point
(`arithmetic/`); pipelining (`pipeline.py`).  Their hazards are numeric: widths,
signs, carries out of the top, ties, boundary cases; for the multi-pass ones also
the order of the passes, which for `legalize_P` is that of a Python set.

`PROJECT.json` lists all components with their status and all hazards with the
line where each bites and the properties that would notice.

## 2. The modules

Design DB and processes:

| module | models | state |
|---|---|---|
| `DesignLibrary` | what admission promises its callers | library, per caller: asked, verdict, told |
| `AdmissionGate` | `insert_design`, `read_index` | directories as objects with identity, their files, `index.json`, per process its place in the call |
| `OracleFreeze` | the oracle's life | the three files, the yardsticks admitted designs were measured with |
| `SlotRegistry` | registration and source capture | manifest, lock, `spec.json`, `golden.v`, per process what it has read |
| `OptimizationCache` | the caches of the optimizing decorators | memory per process, entry and temporary files, per process its place in the call |
| `SharedWires` | the shared-wire state and what the FSM optimizers capture of it | uids, table and list of wires, calls and blocks under way |

Describing, simulating, emitting a design:

| module | models | state |
|---|---|---|
| `FirstMatchProgram` | what the control structures promise, read as a program | value of the signal at every input valuation, open blocks, chain, scopes put aside |
| `SelectionLowering` | `_classify_sel`, `DisjointnessTracker`, `analyze_chain`; the emission modes, `rewrite`, `choose_mode` | none: operators on conditions and cascades |
| `ControlStructures` | the constructs and the assignment | the four stacks and the pending chain, open contexts, saved scopes, driver, exception under way |
| `SimulatorSession` | a session with the simulator | inputs, register, caches, watches |
| `TestbenchReplay` | the recorder and the replayed hardware | the session, the hardware's register, whether the replay has failed |
| `MemoryLockstep` | simulator and Verilog memories clocked together | both arrays, both capture registers, reset line |
| `Expressions` | the expression IR: constructors, types, values | none |
| `VerilogText` | the emitted text and what IEEE 1364 makes of it | none |
| `AigerBlasting` | the AIGER export | none |
| `Simplification` | the rewriting rules, the balancer | none |
| `NetlistEmission` | the emission passes, repeated | the driver as rewritten so far, phase, rounds, emissions |
| `ArithmeticReplacement` | `replace_arithmetic_ops` | heap of nodes, chains, place in the walk, replacements |
| `FsmOptimization` | table extraction, partition refinement, screening, the two wrappers, rewriting, the machine before and after | codes, arms left, trial encoding, best so far, both machines running |

Hardware:

| module | models | state |
|---|---|---|
| `BoundedQueue` | what a FIFO promises | queue, output, request, reset |
| `FifoPrimitive` | the emitted FIFO | array, two pointers, count, output register, reset line |
| `TiledMatmul` | the multiplier, edge by edge | RAMs, counters, accumulator, busy |
| `PrefixNetworks` | topologies, splits, the adder of a network | none |
| `PrefixLegalization` | `legalize_P` | nodes, nodes still to visit |
| `PartialProducts` | the partial-product generators | none |
| `CompressorTrees` | accumulators and final adders | none |
| `StageArithmetic` | multiplier, adder, subtractor, sums, inner products | the columns of each tree, stage |
| `EncodedMultipliers` | sign-magnitude, 4-bit blocks, Karatsuba | job, product |
| `MatmulCores` | plain, Winograd's, sign-magnitude | operands, elements |
| `Reductions` | folds, scans, selections, clamps | job, result |
| `FloatingPoint` | the multipliers and the adder | operand, results |

`MCHardware`, `MCSimulation` and `MCStores` put components that do not interact
side by side: a variable `part`, chosen in the initial state, says which of them
runs, and the others rest in one of their initial states.  That keeps the
components' definitions and properties as they are, and the number of runs small;
the states of such a run are the sum, not the product, of the parts'.  `MCFsm`,
`MCControlStructures`, `MCAdmissionGate` and `MCSlotRegistry` give the constants
of one component their values; `MCStores` extends `AdmissionGate` itself, so that its
properties are those the theorems state.  The `*Proofs` modules hold the proofs about one
or a few components, section 4 says which; `FiniteRecursion` holds the induction and
recursion lemmas several of them use.

### 2.1 FifoPrimitive and BoundedQueue

`custom_verilog()` emits two always blocks: the array is clocked only and
written regardless of reset, everything else has an asynchronous reset.
`ClockEdge` is both blocks at one edge; `AssertReset` is the asynchronous edge.
`NextPtr` and `Count` truncate to the registers' widths.  `BoundedQueue` is a
sequence with the rules push-unless-full and pop-unless-empty;
`ImplementsQueue` maps `Contents` (the `cnt` slots from the read pointer) to it.
A behaviour starts with reset asserted, as the registers are unknown before.

### 2.2 AdmissionGate and DesignLibrary

One action per system call another process can observe.  `Begin` is everything
up to the dedup scan, which happens in a private directory.  A design is reduced
to its structural hash, an identifier to `<<tag, hash>>`.  A directory is an
*inode*: a path names at most one, a rename moves it, and a process inside
`rmtree` keeps the directory it opened (`RmOpen`, `RmUnlink`) but removes by path
(`RmDir`).  Whether unlinking a vanished entry raises depends on the Python
version; both outcomes are allowed.  Of the files of a design the four that every
insert writes are kept, in the order of writing; the optional Python sources are
not.  The gate passes, rejects, or exceeds its budget.  `Crash` kills a process
anywhere and leaves the disk as it is.  The state before any insert is an
existing, empty slot (`register_slot` makes `designs/`).

The tag is the caller's `source` argument (`SourceOf`).  With distinct tags the
`.tmp` directories are private; with one tag two processes collide on them.
Both are checked.  `DesignLibrary` is the caller's view, in which an insert is
atomic: it either adds the design (which the oracle must pass) and answers with
it, answers with a stored one of that structure, refuses, or leaves the matter
undecided; nothing is ever removed.

### 2.3 OracleFreeze

`verification.json` is one value: absent, CEC, or the identity of the trace a
freeze was made from; `vectors.dat` is a trace, `tb.sv` is present or not (its
text depends on the ports only).  `Freeze` is the check and the recording, which
precede all writes; the three writes are actions in the code's order, each the
atomic replacement `atomic_write_text` makes.  `Abort` ends a call at any point:
a kill, or an error of a tool or a later check.  `InTurns` restricts
administrators, never inserters, to taking turns.  The default oracle
`register_slot` writes is the same `WriteCec` step `--cec` takes.

### 2.4 SlotRegistry

Names, keys and the pairs `Jobs` the programs register.  `BeginRegistration` reads the
manifest *without* the lock, `LockManifest`/`UpdateManifest` are the locked
read-modify-write (`flock` is released when the holder dies, see `Stop`).
`golden` stands for `golden.v` and the default verification, which are written
unless present and always with the same contents.  `ReadSource`/`WriteSource`
are `_capture_source`.

### 2.5 TiledMatmul

A tile is one element and the engine one multiply-add: this module is about
addressing, accumulation and control.  `ComputeEdge` and `AccessEdge` are a clock
edge with the mode input 1 and 0.  `held` and `elapsed` are history variables:
`elapsed` counts edges since the start up to `Overdue`, one more than a
multiplication takes, so that a controller that runs too long is seen.

### 2.6 MemoryLockstep

The two descriptions of a memory share inputs and clock.  `commit_next_state`
applies writes to the array one by one, as the Python does; `emit_write` gives
the result of the nonblocking assignments, the last to a chunk winning.  The
simulator reads 0 out of range, the Verilog X, and the Verilog array and output
register start as X unless initialised.  `Predicts` says: where the hardware is
defined, the simulator has that value.  `_MemoryArray` and the RAM template
support several ports, masks and a reset arm together; each primitive class
offers a subset (`MemoryPrimitive` one port and the arm, `RamPrimitive` masks
and two ports).

### 2.7 ControlStructures, SelectionLowering, FirstMatchProgram

A condition is a pair: the *points* (input valuations) at which the hardware will
find it true, and the *class* `_classify_sel` reads off its syntax.  Both are
carried through `&`, `|` and `~`; the guarantee is that the class never claims more
than the points bear out (`BornOut`).  Expressions themselves are not represented,
so the conditions of a program are an `==` with a constant or something opaque;
the budget that makes the classifier give up early is covered by opaque conditions.

A driver is the cascade `collect_chain` finds: arms, first match first, and a tail.
Values are sets of bits, so that the AND-OR network of `OneHot` is modelled by what
it computes: a union, which mixes the bits of two arms if both masks are on.
`Tournament` and `BitTree` yield cascades again, with conditions the later analysis
sees as it would see the generated expressions.

One action per construct: entering (`If` ... `Region`, `Fresh`), leaving (`LeaveIf`
...), `Assign`, the emission pass.  `Raise` is any error the code raises for a
misplaced construct (`elif_` without a chain, `case_` after `default`, a conditional
assignment without a prior driver, a refused emission mode) and `Throw` one of the
program's own; while `raising`, only `Leave` steps and `Catch` are possible, and
contexts are left the way their `__exit__` does under an exception.  Objects the
code compares by identity have an `id`.

`FirstMatchProgram` knows no conditions: a block has the set of points for which it
runs, a chain or switch the points it has left, and an assignment changes the value
at the points at which its block runs.  `RunsTheProgram` maps `driver` to the value
it `Delivers` at each point, the contexts to blocks, and the pending chain to the
chain that may still be continued.  So no rewrite of a driver, by a region or by the
emission pass, may change anything, and an `elif_` is accepted in just the block in
which its chain was left.  Each `with` makes its own context object, as the
documentation shows it; an object that is kept and entered twice would carry its
identity from one block to the next.

### 2.8 OptimizationCache and SharedWires

A key is a digest of the logic and the options, so it stands for one function; a
result is the function whose circuit it holds.  `OpenTmp`, `DumpEntry`,
`ReplaceEntry`, `UnlinkTmp` are `_write_cache_entry`, whose errors are swallowed;
`IsFile` and `OpenEntry` are `_read_cache_entry`, where an entry that is not whole
is a miss but one that vanishes between the two raises.  `clear_optimization_cache`
is an `rmtree` over the files it listed.  `KillWorker` may come anywhere, and the
process comes back with an empty memory and the same temporary name.  The optimizer
finds a circuit of the function, or fails.

`Share` is `_maybe_share`; a decorated call puts the state aside (`CallDecorated`,
`ReturnDecorated`), a `flat_emit` block only the flag; `RaiseOut` is an exception
that leaves the innermost of them: `flat_emit` has a `finally`, `_build_component`
has none.  `escaped` remembers that, since nothing can be said of the design under
construction afterwards except that no expression is taken for another
(`WireOfItsExpression`), for which it is essential that `reset()` leaves the counter
of uids alone.

The list of wires and the table of what is replaced by what are two things.
`_maybe_share` enters a wire in both; `fit_type`, `reinterpret` (`HelperWire`) and the
passes of an emission (`EmissionWire`) in the list only.  They take whatever list is
current: a decorated function's netlist is emitted after its state was put away, so
these wires come to stand among the caller's.  The FSM optimizers read the list by
position: `SharedCacheSnapshot` notes its length when the block begins (`EnterCapture`)
and takes the rest when it ends (`NewWires`, `LeaveCapture`), while calls in the block
put the list away and bring it back.  `CaptureFindsAll` says that they still get every
wire that came into the table meanwhile; too many is harmless, as they look for state
constants behind them, too few would leave a constant with its old code.  `known`, in
the frame of a block, is history.

### 2.9 SimulatorSession and TestbenchReplay

A design with an input, the reset line, a register, a wire that reads all three and
an output that reads the wire; what the two compute are constants, any functions.
Every call drops (`Invalidated`) and fills (`Load`) the caches as the code does.
`settled` is a history variable: what all signals were worth when the last call that
captures watches ended.  `TestbenchReplay` extends it: each `Record` action is the
call, the event and what the emitted design does with it, since what the replay does
with the events so far does not depend on later ones.  `disciplined` holds whenever
a replay can agree: the session has begun with a reset and wrote no register while the
line was up.  A `set()` that raises the line acts at once in the hardware and at the
next `step()` in the simulator; between the two they differ, and the step makes them
agree again, so that the usual `set(rst, 1)`, `step()`, `set(rst, 0)` is covered.

### 2.10 Expressions, VerilogText, AigerBlasting, Simplification, NetlistEmission

An expression is a tree of records with the width and signedness the constructors
give it; a wire made for sharing is a node `auto` over its driver.  `Sim` is the
simulator's evaluator.  `Emitted` is the syntax tree of the printed text and
`VlogValue` what the standard's sizing rules, as the repository's differential tests
implement them, make of it.  An AIGER literal is the set of input valuations at which
it is true, so that the exporter's structural shortcuts change nothing.

`NetlistEmission` is one output and the passes over its driver, one action each, in
the order of `to_verilog`, repeated for up to `MaxEmissions` emissions with any
options each.  `Conforming` is what the documentation asks for: simplification is for
unsigned designs built with shared operands.

### 2.11 ArithmeticReplacement

The heap is the design's nodes in the order of the walk, followed by the replacements.
`DetectChains` finds chains of products and sums with the single-consumer tests of the
code; one of `PassBy`, `ReplaceEquality`, `FuseChain`, `ReplaceAddChain`,
`ReplaceOperator` visits the next node; `RewriteReferences` makes what stays refer to the
replacements.
`Unfolded` reads the resulting graph back as expressions.  A generated circuit is
written as its result, which `StageArithmetic` justifies.

### 2.12 FsmOptimization

A machine has a one-bit input; its next states and outputs are functions.  The design
is the cascade of muxes the State class's codes make of it: `arms` are the arms that
simplification leaves when two names share a code.  `ExitFsm` extracts the table and
merges; then one of the strategies runs: predefined, exhaustive, adjacency (the screen
and the ladder that falls back to swapping), swap with its restarts, or none.  Where a
search keeps the first of several cheapest, any of them may be kept.  The costs the
synthesis tools report are choices of the machine (`cost`): a distance, a partial
failure, failure throughout.  `EmitBits` is the bit-level rewrite; with don't-cares
its tables may say anything outside the used codes.  Then the machine as written and
the optimized design run side by side on the same inputs and resets.  A
partition is the set of its blocks; `Partitions` is a recursive function of the number of
rounds, and the code's loop ends at `LastRound`, one that splits nothing.  `cheapest` is a
history variable: the least cost measured in the search.  `FsmAssumption` names what the
model needs of its machines (`IsMachine`), among it two facts of arithmetic: that the codes
a State class gives its names differ, and that Gray codes do.  TLC evaluates them for the
machines of the runs.

### 2.13 PrefixNetworks and PrefixLegalization

A network is a set of nodes `<<i, j>>`.  Each topology is translated from its
generator, the tabulated ones from their table.  `legalize_P` visits a Python set, so
`PrefixLegalization` visits in any order (networks of more than `FreeOrder` nodes in one
order).  A network with a node out of range is refused (`InRange`).  `Splits` are the two
ways of choosing a node's operands.  What the code computes by recursion over nodes
(repairs, depths, groups, carries) are recursive functions, so that the proofs can use
their equations.

### 2.14 PartialProducts, CompressorTrees, StageArithmetic

A generator turns two operands into columns of bits.  An accumulator is a *plan*, the
compressors it applies to a column of a height, and a *discipline*, which heights count
and where results go; `fifo`, `lifo` and `earliest` choose the bits.  A bit carries its
arrival level and its age, the latter because ties in the heap are broken by it.
`StageArithmetic` runs one job through `Generate`, `Accumulate` (one pass a step),
`Cleanup` and `FinalSum`; jobs are multipliers, adders, subtractors, multi-operand sums and the three
fused inner products.  What a column too high makes the final adder raise is
`Unexpected`.

### 2.15 EncodedMultipliers, MatmulCores, Reductions, FloatingPoint

Each elaborates one job in one step; the properties compare with a reference.
`EncodedMultipliers` translates the classes over an exact inner multiplier;
`MatmulCores` builds on them.  `Reductions` runs folds and scans over one-element
sequences with concatenation, which shows for every associative operation at once what
is combined in which order.  `FloatingPoint` translates the circuits (cut, sticky bit,
round, carry, flush) for any exponent and fraction width and compares with the exact
result, a number of units of the least subnormal, encoded by the library's encoder.

## 3. The runs

"pass" runs must hold; "violation" runs each check one statement of the documentation
or of a comment the code does not keep (section 5).  Every property of a pass run has a
*mutant*, a definition commented `fault:` in a module, that breaks it.

| run | parts and instance | properties | states |
|---|---|---|---|
| `hardware` | `fifo`: depth 4, 2 values | `PointersAgree` `ImplementsQueue` | 235,893 in all |
| | `matmul`: 2 x 2 x 2 tiles over {0, 1}, the host rewrites one tile of each operand | `ProductRight` `OnSchedule` `Terminates` | |
| | `fsm`: machines of 2 to 5 states with every implemented strategy and option | `BehaviourKept` `SharesExactlyEquivalent` `CheapestCommitted` | |
| | `prefix`: the named topologies up to 11 bits, the tabulated ones at up to 32, every set of nodes of 4 bits | `NetworkAdds` `DepthMinimal` | |
| | `stage`: every generator, accumulator with each mode, final adder and job | `ResultExact` | |
| | `encoded`: all operands at 3 and 4 bits, edge values up to 10 | `EncodedExact` | |
| | `cores`: matrices up to 2 x 2 x 2 and 1 x 4 x 1 | `CoreExact` | |
| | `reduction`: up to 7 items | `ReductionsAgree` | |
| | `float`: 6 formats, every pair of words | `FloatExact` | |
| `stores` | `oracle`: 2 administrators in turns, 1 inserter, 2 traces, 2 calls each, killed anywhere | `OneTrace` `FrozenHasArtifacts` `FreezeIsFinal` | 1,893,935 in all |
| | `registry`: 2 processes, 3 names on 2 keys, 2 calls each, killed anywhere | `BindingComplete` `NoLostBinding` | |
| | `gate`: 2 processes with own tags, 2 structures (1 correct), 2 calls each, 1 kill | `AdmittedComplete` `NeverRaises` `ImplementsLibrary` | |
| | `cache`: 2 processes, 2 functions, 3 settings, 2 calls each, one clears, killed anywhere | `AnswersRight` `CacheNeverFails` | |
| | `wires`: 2 expressions, 3 wires, 3 calls and blocks up to 2 deep, exceptions anywhere | `WireOfItsExpression` `CaptureFindsAll` | |
| `simulation` | `memory`: 2 masked ports, 1 word of 2 chunks, 1 address out of range, reset arm, not initialised | `MemoriesAgree` `OutputAgrees` | 124,350 in all |
| | `session`: a one-bit design, written with -1, 0 and 1 | `NothingStale` `WatchesOfOneMoment` `ReplayInStep` `NoFalseAlarm` | |
| | `emission`: every operator inside every other, constants, cascades; two emissions with 4 option sets | `MeaningKept` `EmittedMeansSimulated` `AigerAgrees` | |
| | `replace`: 19 shapes of sums and products, shared operands or flat, 2 settings | `ReplacementKeepsValues` | |
| | `gate`: 2 processes with one shared tag, 2 structures, any number of reads, 1 kill | `CacheHeals` | |
| `control` | 2-bit and 1-bit selector, 6 points, 3 arms, 2 assignments, 2 frames, 6 constructs in all, depth 3, modes `onehot` and `bittree` in regions, `auto` in the pass | `RunsTheProgram` `FirstMatchOnly` | 886,566 |

What the passing runs show, in the words of the code.  *Stores*: an insert that is
alone with its tag survives any kill and any other insert; a freeze followed by anything
an administrator may start afterwards is final; a name in the manifest always leads to a
slot that can be used; the disk cache of optimized circuits never gives a wrong circuit,
and no call fails on its files unless it is cleared meanwhile; an expression is
replaced by its own wire however optimized functions nest, and a captured block misses
none.  *Simulation*: no simulator read is stale; a replayed
testbench raises no false alarm from the first reset on, except between a `set()` that
raises the reset line and the `step()` that takes it; the two
descriptions of a memory agree chunk by chunk; simulator, Verilog text and AIGER export
agree on every pair of operators, before and after any sequence of emissions; arithmetic
replacement keeps every output of the listed designs; `index.json`, though a slow
reader may put an older view over a newer one, ends up right as long as somebody reads.  *Control*: a program of control structures becomes
hardware that does what it says.  *Hardware*: each completed tile is the dot product
although start pulses, mode changes and resets arrive at any edge; every network, in
every order of repair, adds; every combination of stages listed is exact; the multipliers
and cores in other encodings are exact, the ends of the ranges included; selections take the
leftmost of equals in all topologies; every floating-point circuit is correctly rounded;
optimized machines keep their outputs, share codes exactly between equivalent states,
and take the cheapest encoding measured.

**Bounds.**  Two processes suffice for the races: each involves one pair of
conflicting steps, and the proofs of section 4 remove the bound for the admission gate,
the oracle, the registry and the cache, as they do for the sizes of memories, FIFOs,
matrices and state machines.  Two calls each let a call meet what an earlier one, or an
earlier kill, left; one kill is enough for that in the gate, and elsewhere kills are
unlimited.  One correct and one incorrect structure tell the gate's verdicts apart.
Depth 4 wraps the FIFO's pointers and distinguishes full, empty and both kinds of partly
filled.  2 x 2 x 2 tiles have every kind of counter step (k wraps, j wraps, i stays at
its last value); 0/1 elements give every pattern of missing and doubled products; the
input RAM starts with any contents, so two words the host can rewrite (`HostAddr`) are
enough for its writes to hit both operands at any time.  One word with a one-bit address
has one address in range and one out of range; words do not interact, but the chunks of
a word and the ports do.  Three wires are one made before, one
in and one after a nested call.  A one-bit design that reads its own reset line has every kind
of dependency a cache can miss.  Emission designs have operators two deep, because the
sizing rules concern an operator and the context it stands in, and all 32 valuations of
the inputs; `BalanceMin` is the least threshold the code accepts (its default is 16), `MaxPasses`
the code's `_MAX_ITERS`.  Sums and products over 2-bit
operands overflow, borrow and sign-extend in every way; multiplier operands of 2 and 3
bits are enumerated, 5 x 5 bits (edge values) are what gives columns high enough for
five-to-two compressors.  Sets of nodes of 4 bits include every way a node's operands can be missing.  The float formats have one exponent bit, one fraction bit, and more of each
than the other; all words means every tie, carry and subnormal.  Machines of three
states have every pattern of outputs and branches, four and five on a ring are what
refinement needs several rounds for;
the search budgets are lowered (`ExhaustiveBudget` 20 for 5040, `TopK` 4 for 64, `SwapIters`
2 for 200, `SwapRestarts` 2 for 4) so that every rung of the ladder is reached.
Named bounds: `MaxCalls`, `MaxCrashes` (`AdmissionGate`), `MaxRegistrations` (`SlotRegistry`),
`MaxBegun` (`OracleFreeze`), `MaxRuns` (`OptimizationCache`), `MaxDepth`, `MaxWires`,
`MaxCalls2` (`SharedWires`), `MaxEmissions` (`NetlistEmission`), `RandomWidth`,
`FreeOrder` (`PrefixLegalization`), `HostAddr` and `Overdue` (`TiledMatmul`), `MaxArms`,
`MaxAssigns`, `MaxFrames`, `MaxMade`, `MaxDepth` (`ControlStructures`).  Six constructs
are what a wrong claim takes (two arms of one chain, an assignment in each, and a switch
or region around or between them); the thresholds of the emission pass are lowered from
16 to 3 and 2 arms so that both of its rewrites happen.  Points are independent of each
other; the six chosen hold every value of both selectors and every outcome of the tests.

**Deadlock** is not checked where the system is finished at some point: in `stores`
when all programs have made all their calls, in `simulation` when a design has been
emitted or rewritten or the inserts are made, in `hardware` when a circuit has been
generated, in `control` when the program is written to its end, and in the violation
runs over these modules.

Type invariants are proved (section 4) and not run separately.

**Fairness.**  `HardwareSpec` has weak fairness of the multiplier's clock
(`MatmulClock`) and of nothing else: the host's inputs and the reset stay unconstrained.
A clock that stops is outside the design.  The resets cannot prevent `Terminates`: they
clear busy.  `CacheHeals` assumes no fairness: it speaks of behaviours in which reads go
on, which it says itself, and some process may be stuck for ever.  The design DB and the
cache have no other liveness property: a process may be
killed for good, and nothing waits on anything but the manifest lock, which the kernel
frees.  The generators and passes end after a bounded number of steps by construction.

## 4. The proofs

The theorems hold for every value of the constants that meets the named
assumptions of the modules.

**`FiniteRecursion`** has no theorem of its own but the lemmas the recursive
definitions need.  The library's induction principles quantify over predicates, which
the installed provers cannot instantiate; these say the same of *sets*.
`LeastNatural` (a nonempty set of naturals has a least element) gives
`BoundedInduction` (a set with 0 that has n + 1 with n, up to a bound, has everything up
to it), and that gives `RecursionExists`: a function over `0 .. N` whose value at 0 and
step are given exists, so that a CHOOSE of one, or a recursive function, has its
equations.  `MeasuredRecursion` does the same for recursion over any set whose elements
have a size, here the nodes of a network by the bits they span.

**`HardwareProofs`**, the FIFO: `FifoTypeCorrect`, `FifoPointersAgree`,
`FifoImplementsQueue`.  `TypeOK /\ PointersAgree` is inductive as it stands:
`cnt <= Depth` keeps `Count` from wrapping and `wr = (rd + cnt) % Depth` is kept
by arithmetic modulo the depth.  The refinement needs three lemmas: a push
appends to `Contents` without touching other slots (slots of one queue are
distinct), a pop removes its head, and both together do both.

The multiplier, for every matrix size and any contents: `MatmulTypeOK` and
`MatmulOnSchedule`, from the mixed-radix identity between the counters and `elapsed`;
`MatmulProductRight`, every completed tile is the dot product of its row and column.
`MatmulInv` is the schedule, integers in the registers and `ProductRight`, which together
are inductive: `Dot` is given by its recursion (`RecursionExists`), an engine step adds its
next term, and the address of a tile determines its row and column (`RowAndColumn`), so
that a store leaves the tiles done before it.

The prefix adders, for every width, every set of nodes and every order of visiting:
`NetworkLegal`, `NetworkAddsHolds`, `DepthMinimalHolds`.  `PrefixInv` says that a node
without two halves is still to be visited.  It is kept because a visit ends with the
node halved and every node added on the way halved too, and takes no halves from others
(`FixRepairs`, by induction over the span of the node); so the last loop of `legalize_P`
finds nothing to do (`CarriesKept`).  In a legal network each choice of valid splits
makes a tree of every carry.  By induction over the span, a group hands the carry into its
lowest bit on to the bit above (`GroupCarries`), so the carries are those of a ripple
addition, and position by position the sum bits spell the sum (`PrefixSumAdds`).
Likewise no tree is shallower than the analysis says of its node, and the tree of the
splits it picks is exactly that deep (`DepthLeast`).  Both theorems hold of every choice of
valid splits and of any two rows of bits, where the runs have the code's choices
and widths up to 5 or 6.

**`AdmissionGateProofs`** (any tags): `GateTypeOK`, `GateOnlyVerified`,
`GateCacheOnlyLags` (`index.json` lists nothing that is not admitted),
`GateNeverWithdrawn`.  `OnlyVerified` is not inductive: the
invariant `GateInv` adds that a process beyond the gate inserts a correct
structure.  `CacheOnlyLags` includes the views of processes between deriving and
writing for the same reason, and needs that admitted directories stay, which is
an action property of every step.

The same module, assuming `DistinctSources` (no two processes use one tag):
`OwnAdmittedComplete`, `OwnNeverRaises`, `OwnImplementsLibrary`.
`OwnInv` says what privacy buys: a `.tmp` directory under a tag was made by the
owner of that tag, no directory has two paths, a writer's directory holds
exactly the files it has written, and an `rmtree` under way holds the directory
its path names.  From it, no branch that raises is enabled, a rename moves a
complete directory, and each step maps to a step of `DesignLibrary` or to a
stutter.  Without `DistinctSources` the first fails (`admission_lost`).

**`SlotProofs`**, the oracle: `OracleTypeOK`, `OracleFrozenHasArtifacts`,
`OracleStaysVerified` for any number of racing administrators (the invariant
carries that `vectors.dat` precedes `tb.sv` precedes `verification.json` in every
freezer); `OracleFreezeIsFinal` and `OracleOneTrace` assuming `InTurns`, where the
invariant (`OneAdministrator`) adds that at most one administrator is active and that none
is inside a write path once the slot is frozen.

The registry: `RegistryTypeOK`, `RegistryBindingComplete` for any
jobs; `RegistryNoLostBinding` assuming `ConsistentJobs` (a name stands for one
structure).  The invariant ties the lock to the one process inside the update
and its copy of the table to the manifest.  `RegistryNamesPermanent` and
`RegistrySlotOnlyGrows` assume `Serial`: the invariant `OneAtATime` adds that the
name of the registration under way is free for its key, and that what it read of
`spec.json` is still there.  Without `Serial` the first fails (`registry_rebind`).

**`SelectionProofs`** (any points, selectors and conditions, programs of any length
and depth), in four parts.
*Conditions.* `ClassesBornOut`: the classes of `~`, `|` and `&` claim nothing false, the
case analysis behind every other claim.  `ChainsStayKnown`: the invariant `ChainsKnown`,
which is inductive, says of every chain and switch, pending, open, put aside by a
scope or kept by a context, that what it covers lies within the labels its tracker
remembers, or the tracker has given up.  From it `GateExact`, an arm takes what its
condition holds at and earlier arms leave, and `FirstMatchHolds`.
*Rewrites.* `EmittedExact`: a rewrite that is not refused delivers what the cascade
delivered.  For a tournament, by induction over its rounds, each of which halves the
pairs and keeps the first match; for the one-hot network because at most one mask is on
at a point (`OneHotExact`); for the bit tree because the highest bit set in a value
decides which arm is taken, and what is read under it is the rest of the value, so the
leaf is the one named for the value (for 0, the tail).  `PowerAssumption` of
`SelectionLowering` names the two facts on powers of two this takes, which the provers
do not know and TLC evaluates.
*Stacks.* `ProgramInvHolds`: each of the three stacks a scope is identified by is as
long as there are open contexts of the kind that pushes onto it (`Fits`); a pending
chain whose scope is the present one was left in a block that is still open
(`LeftInside`), and conditions and switches are numbered by identities issued so far
(`Issued`).  The same holds of each scope put aside (`OuterFit`).  This is needed because
the code decides whether `elif_` may follow by comparing copies of those stacks: without
it, two different blocks could have equal scopes.  `ControlTypeOK` follows.
*Refinement.* `ProgramRuns` states `RunsTheProgram`.  The initial states correspond;
entering, leaving, also under an exception, starting and ending a function, assigning
and raising are each the step of `FirstMatchProgram` of that name; leaving a region and
the emission pass may rewrite the driver but, by `EmittedExact`, not what it delivers.

**`SimulationProofs`**, for any functions of wire and output, any width and any writes.
A session: `SessionInv` says of every cached value that it is what the stores give now
(`Right`), which each call keeps because it drops the caches of all that depends on the
store it writes; `NothingStale` and `WatchesOfOneMoment` follow (`SessionNothingStale`,
`SessionWatchesOfOneMoment`), as they do for recorded sessions (`ReplayNothingStale`).
A replay: `ReplayInStep` is not inductive.  `ReplayInv` adds that a disciplined session
holds the init value while the line is up; without it a second `reset()`, which is an edge
to the simulator and none to the hardware, would part the registers.  `ReplayKeepsStep`,
and from the same invariant the action property `ReplayNoFalseAlarm`.
The memory, for any number of masked ports, words and chunks: `LastWriteWins`
(`MemoriesAgree`) and `CapturesAgree` (`OutputAgrees`).  The writes of an edge are a
recursive function of the ports applied; an induction over the ports shows that a chunk
ends with the data of the last port that writes it, which is what the nonblocking
assignments leave.

**`OptimizationProofs`**, the cache, for any number of processes and functions:
`CacheAnswersRight` and `CacheSafe`.  `CacheInv` says that a file, temporary or not, holds
nothing or a whole or partial entry of the function it is named for, that a process which
is storing holds its own function's circuit, and that an entry `is_file()` has seen is
there when it is opened unless the directory was cleared; a partial entry is a miss.
Shared wires, for any expressions and any nesting: `SharedWiresRight`, `SharedCapturesFind`.
`SharedInv` says that uids are never given twice and that a table maps a uid to a wire
driven by the object with that uid, also the tables put aside in the frames.
`CaptureFindsAll` speaks of the innermost block only and is not inductive.
`CapturesRight` says of every block under way, unless an exception left a decorated call
(`escaped`), that the context it belongs to, which is the one the next call inside it
put aside or else the current one, lists what its table came to know since the block
began.  A call moves the current context into its frame, a return moves it back
(`CoveredInCall`, `CoveredOutside`), a new wire only extends the list (`CoveredGrown`).

**`FsmProofs`**, for any machines, strategies and budgets.
`FsmSharesExactly`: `LastRoundRight` shows that refinement ends, since a round that
changes anything has more blocks and there are no more blocks than states;
`MergesEquivalent` is two inductions, that no round parts equivalent states and that the
last partition is one every input respects, so that states it keeps together are not told
apart by any number of inputs.  `DesignInv` then carries through the search and the
rewriting that the codes share exactly what was merged.  `FsmCheapest`: `SearchInv` says
that what a search has in hand is an encoding with the cost measured for it, and the least
so far.  `FsmBehaviourKept` (`InStep`: the register holds the code of the state the machine
is in, as long as the reset value is the code of the start state) assumes `Undelayed`, no
guard that reads a delayed input: `fsm_delayed` shows that it is false otherwise.

**Model-checked only.**  `Terminates` and `CacheHeals`: liveness is outside the
prover's reach, as is ENABLED.  `ResultExact`, `EncodedExact`, `CoreExact`,
`ReductionsAgree`, `FloatExact`, `MeaningKept`, `EmittedMeansSimulated`, `AigerAgrees` and
`ReplacementKeepsValues`: their definitions are RECURSIVE operators over trees or columns,
which the prover cannot take, and would need an induction over that data each.  The
modules theorems are about declare no RECURSIVE operator; modules only TLC evaluates do.

Some theorems say more than a run: `FrozenHasArtifacts` also holds when administrators
race, while the run has them in turns.  `GateOnlyVerified`, `GateNeverWithdrawn`,
`OracleStaysVerified` and `RegistrySlotOnlyGrows` have no run of their own.

## 5. Where code and documentation differ

Each of the first eight is the single property of a violation run; `PROJECT.json`
quotes the statement.

* `admission_lost` (`AdmittedComplete`): inserts of one structure under one tag
  share `designs/<id>.tmp`, and an incomplete directory can be admitted, where
  the documentation says that concurrent inserts cannot lose a design.  With a
  tag per process this does not happen (proved).  For the same reason the loser
  of such a race can end in an uncaught `OSError` (`NeverRaises`, which is
  checked and proved for a tag per process only).
* `oracle_final` (`FreezeIsFinal`): `register_slot` looks for `verification.json`, and
  before it writes the default another administrator freezes a simulation; the default,
  `cec`, replaces the frozen oracle.  The run has two administrators with one call each,
  and the first must register the slot, so this is the race it shows.  With
  `Sequential = TRUE` and `MaxBegun = 2` in the same configuration TLC finds two
  overlapping freezes, the second of which replaces the trace of the first.
  Administrators in turns do neither (proved).
* `registry_rebind` (`NamesPermanent`): two concurrent registrations of different
  structures under one name both succeed.  One after the other they do not
  (proved).
* `memory_reset` (`ResetKeepsOutput`): `Simulator.reset()` clears capture
  registers that the hardware, and the semantics document, hold.
* `fsm_reset` (`ResetEntersStart`): `set_init` copies the reset state's constant
  (`expr.py:380`), so a search that gives that state another code leaves the register
  resetting to the old one, where `docs/README_fsm_optimization.md:345-346` says that a
  change of codes reaches every use at once.  `BehaviourKept` therefore assumes that the
  reset value is still the code of the reset state.
* `fsm_shared` (`FlagKept`): measuring a trial encoding emits the design, and sharing
  joins muxes in place that are equal under the trial codes only;
  `docs/README_semantics.md:60` says that emission options never change values.
* `fsm_delayed` (`BehaviourKept`): the table is extracted through the drivers of other
  registers (`optimize/fsm/_walker.py:54`), so states whose guards read a delayed input
  are merged with states that read the input itself.
* `replace_shared` (`ReplacementKeepsValues`): with `s1 = a*b + c*d`, `y1 = s1 + e*f`
  and `y2 = s1 ^ e`, the chain behind `y1` consumes the product inside `s1`, and `y2`
  is given the whole sum.

Others were met while modelling and have no run:

* `fit_type` (`expr.py:389`) makes a helper wire and assigns it; inside an `if_` or
  `case_` that assignment is wrapped in the open condition and raises for want of a
  prior driver.  A comparison of a signed with an unsigned operand, which
  `docs/README_semantics.md` (line 34) defines, therefore fails inside an `if_`.
  `selection_topology.__exit__` avoids the same trap with a fresh scope.
* A `selection_topology` or `switch_` object that is kept and entered by two
  `with` statements has one identity in both, so a chain left in the first can be
  continued in the second, where `selection_emission.py:279` says that a straddling
  `elif_` fails.
* The prefix comparator of `reduce.py` sign-extends an unsigned operand when the other
  is signed, and then orders the two differently from the ripple comparator.
* The `matrix` selection takes the width of its first item (`reduce.py:292`): wider
  items lose bits and signed ones their type.  `Reductions` is run with items of one
  type.
* `OptimizedSignMagnitudeMultiplier` always raises in its constructor
  (`multipliers_ext_optimized.py:190` against the assertion in
  `multipliers_ext.py:32-46`); a Karatsuba multiplier with a preoptimized leaf of an
  even width that is no power of two raises.
* `fused_inner_product`'s record of operands renames automatically named signals, and a
  design with two of them has a duplicate port name.
* When every encoding measured fails, a listing search commits its first candidate,
  where `docs/README_fsm_optimization.md:189` says that it warns and keeps the old one;
  machines with too many inputs are skipped without the warning the same document
  announces; a swap search over a machine whose states were all merged raises
  `ValueError`.
* A simplification rule that returns an operand returns it with the operand's own width
  and signedness (`simplify.py:355-361`), which changes what an enclosing signed or wider
  expression means; a warning (`ir.py:168`) restricts simplification to unsigned designs.
* `optimize.py:536-538` says that the outer circuit is unaffected by the function built
  for optimization, and `optimize/fsm/_capture.py:4-5` that its inner wires are
  discarded; the function is emitted for its cache key (`optimize.py:650`) after the
  caller's state is back, so the wires that emission makes stay in the caller's list.
  A netlist collects its wires from its own drivers, so only an emission with
  `collect_signals=False` (`ir.py:261`) would declare them.
* `FpMul`, and `FpMulSN` without subnormals, flush a product that rounds up to the least
  normal number, unless `always_subnormal_rounding` is set; the tests take this into
  account, and so does `ProductWord` (`early`).

## 6. What is not modelled

External programs (yosys, verilator, abc, sympy, the equivalence checker): their answers
are choices.  Contents of files beyond what the properties distinguish.  File systems
that lose completed writes at a power failure.  Threads within one process (the
temporary names of `atomic_write_text` and of the optimization cache are unique per
process only).  Advisory counts (`rediscoveries`).

Of components modelled in part: asynchronous reads, writeFirst, ROM contents and the
register-built FIFO and memory; X in the control registers of the multiplier before the
first reset; names, records, ports and always blocks of emitted modules; latches, the
import and the file formats of AIGER; several State classes in one design; several
signals in one emission region; the data-driven testbench; the star multiplier; the
tables of measured circuits `int_arithmetic_config.py` looks circuits up in, and its
generator's command line; HiFloat8, whose logic builder's own test is switched off
(`testing/floating_point/test_hif8.py`).

Not modelled at all: annotation, selection, overrides and keys of the design DB;
pipelining and the stream interfaces; plotting, VCD, evaluation scripts, the RISC-V
example, tests.  Most of the lines not covered are of this kind: plots, reports, command
lines and sweeps over configurations, which keep no state a property could be about.

## 7. Plan

Done, in the order of importance to the data a user could lose or be misled by:
admission, oracle, registry, FIFO, multiplier, memories, control structures, with their
theorems; then sessions and replay, the optimization cache and shared wires and state
machine optimization, now with theirs; expressions and emission, arithmetic replacement,
and the generators of arithmetic, model-checked.

Next:

1. `Annotate` and `Selection` (`design_db`), composed with `AdmissionGate`:
   `annotate_design` rewrites `metrics.json` from an earlier read without a lock.
2. `PipelineStages` (`pipeline.py`) and the stream interfaces: latency and backpressure
   against an abstract queue.
3. HiFloat8, and the AIGER import next to the export.
4. `ControlStructures` with helper wires, which would give the first divergence of
   section 5 without a run one of its own.

Theorems wanted: `ResultExact`, for which the operators over columns have to become
recursive functions first, as those of the state machines, the memory's write order, the
matrix product, the selection trees and the prefix networks have.
