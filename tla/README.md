# Saturnis in TLA+

Saturnis is a deterministic model of a dual-CPU bus: producers (scripted or SH-2
CPUs, DMA) hand bus operations to an arbiter, which executes them one at a time
in virtual time and writes a trace. Its promise is determinism: the same scripts
give the same trace, byte for byte, whatever the host's threads do. This
directory models the code that has to keep that promise.

## Inventory

Source paths are relative to the repository's `src/` directory.

| Part | State | Operations | Talks to |
|---|---|---|---|
| `BusArbiter` (`bus/`) | bus free time, last tie winner, last address, per-producer request times (executed, enqueued), per-CPU watermarks | `commit`, `commit_dma`, `commit_batch`, `commit_pending`, `update_progress` | owns memory, devices and trace; called by the host loops |
| `TraceLog` (`core/trace`) | lines, `halt_on_fault`, `should_halt` | `add_commit`, `add_fault`, `add_state`, `set_halt_on_fault` | the arbiter polls `should_halt` |
| `CommittedMemory` (`mem/`) | bytes | `read`, `write`, `read_block` | arbiter only |
| `StoreBuffer`, `TinyCache` (`mem/`) | entries; lines | `push`, `forward`, `retire`; `read`, `write`, `fill_line` | one per CPU |
| `ScriptedCPU` (`cpu/`) | program counter, local time, sequence, store buffer, cache | `produce`, `apply_response` | host loop or its own thread |
| `run_scripted_pair` (`core/emulator`) | two pending operations | one loop | CPUs, arbiter |
| `run_scripted_pair_multithread` | six mailboxes, two done flags, `SignalHub` | two producer threads, one coordinator | CPUs in threads, arbiter in the coordinator |
| `DeviceHub` (`dev/`) | registers, interrupt bits, VDP1/SMPC command state | `read`, `write` | arbiter only |
| `run_bios_trace` (`core/emulator`) | two pending operations, a sequence counter, `max_steps` | one loop, then two DMA probes | SH-2 cores, arbiter |
| demo and stress entry points (`core/emulator`) | none | build a pair of scripts, run it | the two runners |
| `SH2Core`, `sh2_decode` (`cpu/`) | registers, instruction cache, pending access, pending branch, exception and return context | `produce_until_bus`, `apply_ifetch_and_step`, `request_exception_vector`, `step` | BIOS loop, tests |
| `libbusarb` (`busarb/`, `include/busarb/`) | bus free tick, last grant | `query_wait`, `pick_winner`, `commit_grant` | external emulators |
| `trace_replay`, `bios_metrics` (`tools/`), platform, `main` | none that outlives a run | file and text processing | - |

What is hard to test here:

* arbitration decides between operations that may not have arrived yet: the
  watermark horizon must be safe, strict, and not block for ever;
* selection is a pairwise comparison folded over a vector whose order depends on
  the host;
* faults and the halt latch strike in the middle of a batch;
* in the threaded runner each request, watermark, response and wake-up crosses
  threads separately, in any interleaving;
* stores reach the CPU's cache before they reach the bus, byte by byte, and a store
  may straddle two lines;
* two SH-2 cores run ahead of each other inside their instruction caches, which
  never see a store, while the bus has to execute accesses in order of time;
* device registers combine byte lanes, masks, two interrupt latches and commands,
  and two CPUs write them in any order;
* an emulator that uses `libbusarb` sleeps on an answer that later grants make
  out of date;
* an SH-2 instruction is spread over up to four bus accesses and its progress over
  optional members, while the cache, run-ahead, delay slots and exceptions decide
  on which path it is executed.

## Modules

| Module | Models |
|---|---|
| `ByteMemory` | `CommittedMemory`: bytes, big-endian accesses of one, two and four bytes |
| `TinyCache` | `TinyCache`, the data cache of a scripted CPU and instruction cache of an SH-2 core |
| `BusOps` | `BusOp` and the arbiter's pure functions of one operation |
| `BusArbiter` | the arbiter's state and every public operation, memory, trace and halt latch |
| `ArbiterHost` | the arbiter with arbitrary callers: `commit_pending`, direct `commit`/`commit_dma`, watermarks |
| `ArbiterHostProofs` | theorems about `ArbiterHost` |
| `HostProofs` | lemmas about sequences, scripted CPUs, caches, `commit_batch` and `pick_next`, for the proofs about the three host loops |
| `ScriptedCpu` | `ScriptedCPU`, `StoreBuffer` as functions on a CPU's state |
| `DemoScripts` | the scripts of the demo and stress entry points |
| `AtomicPair` | abstract specification: two CPUs, one commit at a time, in request-time order |
| `ScriptedPair` | `run_scripted_pair` |
| `SingleProofs` | theorems about `ScriptedPair` |
| `ScriptedPairMT` | `run_scripted_pair_multithread` |
| `PairProofs` | theorems about `ScriptedPairMT` |
| `DeviceHub` | the device registers: masks, byte lanes, interrupt latches, VDP1 and SMPC commands |
| `DeviceSoftware` | software on the two CPUs writing those registers, with what it may expect |
| `DeviceProofs` | theorems about `DeviceSoftware` |
| `BusArb` | `libbusarb`'s `Arbiter` |
| `BusArbHost` | its callers: an emulator's adapter and `trace_replay` |
| `BusArbProofs` | theorems about `BusArbHost` |
| `Sh2Alu` | the register-to-register instructions of `execute_instruction` |
| `Sh2Arith` | software that chains them over several words |
| `Sh2Instr` | operands, addresses, branch targets: what both of the next two share |
| `Sh2Isa` | abstract specification: one instruction or exception entry at a time |
| `Sh2Core` | `SH2Core`'s functions on its state |
| `Sh2Host` | the core in `step` and in the BIOS loop, and callers that request exceptions |
| `Sh2Proofs` | theorems about `Sh2Host` and `Sh2Arith` |
| `Sh2OnBus` | a core with its clock, step count, instruction cache and bus operations |
| `AtomicCores` | abstract specification: two cores, one instruction or one commit at a time |
| `BiosPair` | `run_bios_trace`: both cores, `produce_until_bus`, watermarks, batches, step limit, DMA probes |
| `BiosProofs` | theorems about `BiosPair` |
| `MC...` | small instances for TLC |

**ByteMemory, TinyCache.** Memory is a function from addresses to bytes. A value
is taken apart and put together most significant byte first, as the shifts of the
code do, so accesses of different widths overlap as they do there. A byte has
`ByteMod` values, which is all that is small about it. A cache line is a tag and
its bytes; an access that crosses the end of a line misses, and a store that does
so leaves the line alone.

**BusArbiter.** The variables carry the names of the members of the class
without the trailing underscore; `producer_seen_`/`has_last_addr_` are the value
`None` of the variable they guard. `commit` and `commit_dma` are one step each.
`commit_batch` is a step per iteration of its two loops, with its locals in the
variable `call`, so a fault can latch the halt between two operations of a
batch. `pick_next` is the code's fold, not a minimum: the comparison `Beats` is
not an order. The three record kinds of a rejected operation (a FAULT line and a
zero-length COMMIT line) are one element of `trace`. The build modelled is the
one without assertions; with them, an invalid operation aborts the program.

**ArbiterHost.** `Emit`, `Publish`, `Drain...`, `DirectCommit`,
`SetHaltOnFault` are the uses that `emulator.cpp` and the tests make of the
arbiter. With `Honest = TRUE` producers keep the contract of
`docs/architecture.md` (request times do not decrease, nothing is emitted below
the published watermark, the host publishes before it drains); with `FALSE` they
pass anything. `commit_pending`'s compaction loop is a step per element.

**ScriptedCpu.** `produce` runs the local instructions in front of the CPU in
one go (`RunAhead`), then issues one bus operation (`Issue`, `OpOf`). A CPU is
private to its thread, so both functions are atomic.

**ScriptedPair, ScriptedPairMT.** One action per stage of the loop, and in the
threaded version one action per access to a mailbox, a done flag or the hub.
`SignalHub`'s epoch is only compared with a thread's `seen_epoch`, so a Boolean
per thread says whether they differ.

**DemoScripts.** The four pairs of scripts that the program ships, translated
round by round. Addresses are small numbers that keep which operations share a
word and, with the program's lines of 16 bytes (`cpu/scripted_cpu.hpp:29`), a line:
`0x2000..0x200F` is one line, so after its first load of a line a CPU's loads hit
its own cache and the stores, device accesses and barriers go to the bus. A stored
value keeps only who stored it.

**AtomicPair.** The abstract specification. Given the two scripts it is
deterministic, so refining it means writing the one possible trace. The
refinement mapping sends a CPU to the state in which the reply that is already
in a result list or a mailbox has been delivered and `produce` has been run.

**DeviceHub, DeviceSoftware.** A word is the set of positions of its one bits,
so `|`, `&` and `& ~` are union, intersection and difference and no bit is
abstracted away. `write` is the disjunction of one action per branch of
`DeviceHub::write`; `read` changes nothing and is an operator. The history
variables of `DeviceSoftware` say in terms of bytes, without the hub's shifts,
what software may expect: `bytes` for the plain registers, `unacked` and `raised`
for interrupts, `armed` and `completions` for the VDP1. The arbiter serialises
accesses and rejects misaligned ones, so a write is one step and accesses are
aligned.

**BusArb, BusArbHost.** The library keeps three variables and is called by code
outside the repository. The adapter (`Request`, `Requery`, `Arbitrate`, `Tick`)
follows `docs/libbusarb_integration.md` and is marked external: each master has
one request at most, sleeps for the wait it was told, and the adapter lists the
contenders of a tick in any order. `Replay` is `trace_replay`, which commits each
record at the tick of its first attempt, however far in the past.

**Sh2Core, Sh2Host.** The state of `SH2Core` is one record whose fields are the
members of the class; an empty `std::optional` is `None`. `produce_until_bus` is a
step per iteration of its loop (`RunHit`, `RunMemory`, `RunFetch`), with the
budget left in `fuel`; an answer is a step. `Effect` is the decoder's chain of
branches, `execute_instruction` puts delay slots around it, `decode_memory` is
the part of `produce_until_bus` that knows data accesses and is reached by cache
hits only, and `apply_pending` goes through the accesses of exceptions, `TRAPA`,
`RTE` and read-modify-writes. An instruction is a decoded record, so the bit
patterns are not modelled, but which of the two decoders knows an instruction is.
`depth` counts exceptions as software does, independently of
`has_exception_return_context_`.

**Sh2Isa.** What software may rely on, without bus, cache and run-ahead. The
refinement mapping sends the core to the state in which the accesses of the
instruction in progress have been answered (`Settled`).

**Sh2OnBus, BiosPair.** `Sh2OnBus` wraps the core of `Sh2Core` with what the loop
and the arbiter see of it: `t`, `executed`, the cache and the `BusOp`s of fetches
and data accesses. An instruction is a halfword of the shared memory, which
`Decode` turns into a record, so a store by either core may change it.
`produce_until_bus` is a step per decision (`StartRun`, `RunHit`, `RunMemory`,
`RunFetch`, `RunEnd`), and the two cores take their turns in it one after the
other, as in the loop. `Reported` is the watermark of each core; `LoopCall`,
`InBatch` and `LoopApply` are the call of `commit_batch`, its iterations and the
delivery of its results; `Probe` is the pair of `commit_dma` calls behind the loop.

**AtomicCores.** What programs on the two cores may rely on: a core executes what
is in its cache by itself, an access is executed when no access of the other core
can come before it, and the answer is there at once. There are no budget, no
batches and no watermarks. The refinement mapping delivers the results that
`commit_batch` has already computed, and drops the sequence numbers, which count
calls and are not part of a COMMIT line.

**Sh2Alu, Sh2Arith.** Words have `WordBits` bits and the carry, overflow and
wrap-around are those of that width. `Sh2Arith` compares chains of instructions
with arithmetic on the integers.

### Abstractions

* A byte has few values (`ByteMod` 2 or 8) and a word is four bytes; sizes, byte
  order and overlap are those of the code.
* Devices are any state machine with a read and a write function; they do not
  see the time or the CPU of an access, which `DeviceHub::write` only logs.
* The VDP1 counters of 32 bits are visible modulo 256; `CounterRange` is that
  modulus. The log of device writes is left out.
* Latencies are arbitrary naturals in the proofs and the defaults of
  `LatencyModel` in the runs. Ticks do not wrap (64 bits in the code).
* The `CACHE_FILL_MISMATCH` branch of `apply_response` is unreachable, because
  the arbiter answers with the line of the operation's own address.
* In `Sh2Host` the core is alone on the bus, programs do not write their own
  instructions, and local time and instruction counts are left out; all of these
  are in `BiosPair`. A core's fault lines and STATE lines are left out of both.
* In `BiosPair` an instruction word is the number of an instruction in a short
  list, 0xBAD0 (the low half of the answer to a rejected fetch) among them. The
  images hold no `TRAPA` and no `RTE`, because of the third finding below.
* `DeviceHub` is checked with software of its own and is not the device of the
  arbiter's runs, which have a register that remembers two bits: the arbiter
  hands accesses through, and nothing in it depends on what a device answers.
* `reset` is that of a new core: general registers are zero and the instruction
  cache is empty, neither of which `SH2Core::reset` itself touches.

## Runs

| Run | Result | Bounds | What it asks |
|---|---|---|---|
| `arbiter_contract` | pass | 4 operations, one outstanding per producer, request times {0,1,6}, watermarks {1,7} | does arbitration keep its documented policy when the contract is kept? |
| `arbiter_faults` | pass | 3 operations of any producer, times {0,5}, malformed ones among them | what can arbitrary callers break? |
| `pair_single` | pass | 64 x 64 small scripts of three steps and the four shipped pairs | does the loop refine `AtomicPair`, end, and keep caches coherent? |
| `pair_early_finish` | violation | one pair of scripts | does the loop end when one script ends early? |
| `pair_threads` | pass | two pairs of scripts, all interleavings | does the threaded runner refine `AtomicPair` and end? |
| `pair_threads_tie` | violation | `dual_demo_scripts` | is the trace that of the single-threaded runner? |
| `busarb_callers` | pass | ticks up to 8, 5 requests of three masters, waits cut at 3 | are grants serial, waits safe, CPUs treated fairly, callers' orders irrelevant? |
| `device_registers` | pass | every sequence of 4 writes out of 59, `CounterRange` 2 | do registers, interrupts and command status read as software may expect? |
| `sh2_carries` | pass | all operands of 3-bit words, two limbs | do carries, borrows, shifts and signed results agree with the integers? |
| `sh2_refines` | pass | all pairs of 49 instructions, budgets 1 and 3; 140 programs with exceptions | does the core implement the instruction set? |
| `sh2_runahead` | violation | `TRAPA` and a `BF/S`, budgets 1, 2 and 16 | ... when it runs from cached lines? |
| `bios_pair` | pass | 1000 images, budget 2, 20 steps | is run-ahead invisible to two cores on one bus, and does the loop end? |

The bounds of the arbiter runs hold every class of operation that arbitration
tells apart (RAM, MMIO, barrier, DMA, same address, malformed) and enough of
them for two successive ties or a fault between two executions. The request
times contain a tie, a near miss and one beyond the bus latency. The scripts of
the pair runs contain loads, stores, device accesses, barriers and computation
over two lines of 16 bytes, with accesses of one, two and four bytes that overlap, a
store that straddles the lines, and a cache of one line instead of 64, so that a load
from the second line evicts the first. No shipped script touches a second line of RAM,
so for them the number of lines makes no difference. Every small script ends in a computation longer than the
bus can stay busy, because of the first finding below. The shipped scripts need no
such tail. `pair_threads` has operations that never ask at the same tick, because
of the second finding; that the threaded runner ends for `dual_demo_scripts`, too,
was checked once, over 330 602 states, and is not a run. `Publish` keeps every state of
the arbiter runs live, so deadlock is checked there and in the pair runs.

`busarb_callers` has an address whose callback returns zero and one slower to
read than to write; `WaitMax` 3 is below the longest transaction, so the wait
saturates and masters have to ask again. Grants start at tick 8 at the latest,
which leaves room for four. `device_registers` writes words with bits in every
lane at every aligned offset and width; four writes are enough to raise, mask,
acknowledge and raise again, or to command, complete, pulse again and trigger,
and the counters wrap at 2 instead of 256. In both, software and masters may
stop, and time and writes are bounded, so deadlock is not checked.

The SH-2 programs have a prologue, two instructions under test, a subroutine and
two handlers, one of them in the uncached alias. Pairs are what delay slots,
flags and post-increments connect; a pair also puts every instruction into the
delay slot of every branch. `sh2_refines` keeps away from the known deviations
listed under Findings: data accesses at the start of a line, `TRAPA` and `RTE`
under a budget above one, requests in front of a delay slot, inside handlers or
while an access is under way, pops through R0, stores that push their own pointer, branch
displacements and immediates that end in 0 or 1. Budget 3 lets run-ahead
cross a branch and its slot. Bytes have three bits, words 12, and the alias bit is 2048, so that
SR with Q and M and all addresses fit. Programs end in a loop, so deadlock is checked; the chains of `Sh2Arith` end.

The images of `bios_pair` are a loop over two lines of four halfwords, in a cache of
two lines, with three free places: all combinations of loads, stores, device
accesses, a read-modify-write, a store over the program's first instruction, `MUL.L`
(which takes a tick more and so separates the cores), an addition of the alias bit
and a jump through a register, which may go to the uncached alias or to an odd
address. Budget 2 ends in the middle of a line, so that a core comes back with and
without an operation, and 20 steps are about three rounds of the loop: enough for a
line to be filled, overwritten in memory by the other core, and run again stale.

Properties, by run:

* `arbiter_contract`: `TypeOK` (in particular stalls are not negative),
  `BusSerial`, `TiesAlternate`, `PickIgnoresHostOrder`, `NoLateArrival`.
* `arbiter_faults`: `ProducerTimeMonotone`, `NothingLost`, `FaultsAreInert`,
  `HaltFreezes`.
* `pair_single`: `CommitsInAbstractOrder` (refinement), `Terminates`,
  `OwnStoresCoherent`, `StoresRetired`.
* `pair_threads`: `OneInFlight`, `RequestTimeOrder`, `TraceParity`
  (refinement), `Terminates`.
* `busarb_callers`: `GrantsSerial`, `NobodyOversleeps`, `BoundedBypass`,
  `WinnerIgnoresOrder`.
* `device_registers`: `HubTypeOK`, `ReadsMatchBytes`, `InterruptsTruthful`,
  `CommandStatusTruthful`.
* `sh2_carries`: `CarriesChain`, `AgreesWithIntegers`.
* `sh2_refines`: `HoldsWords` (the types), `Conforms` (none of the known deviations
  is met, which is what the proof of the refinement supposes), `PendingWellFormed`,
  `RefinesIsa` (refinement).
* `bios_pair`: `StepsBounded`, `StaleOnlyByStore`, `RunAheadInvisible` (refinement),
  `Terminates`.

Each has a mutant: an operator marked "Seeded fault" in the module, which put in
the place of the definition it precedes makes TLC report the property violated.

### Fairness

`ScriptedPair` and `BiosPair` assume weak fairness of their only thread. `ScriptedPairMT`
assumes weak fairness of each of the three threads, which is what a host
scheduler gives: a thread that can run is eventually run. Nothing is assumed
about mutexes beyond that; each critical section is one step. Waiting threads
are enabled only by a notification. The other specifications assume no fairness
and have safety properties only.

### Findings

1. **Early finish** (`pair_early_finish`). A CPU that has ended keeps its last
   `local_time` as its watermark, so an operation of the other CPU at or after
   that time is never below the horizon and the loop spins.
2. **Watermark overtakes request** (`pair_threads_tie`). The coordinator empties
   the request mailboxes before the watermark mailboxes; a request pushed in
   between is invisible while its watermark counts, and a tie is decided with
   one party missing. The trace then differs from the single-threaded one, for the
   very scripts whose parity `tests/test_trace_regression.cpp:185` asserts. The
   order by request time is still kept (`RequestTimeOrder` in `pair_threads`).
3. **TRAPA under run-ahead** (`sh2_runahead`, with `Setups <- TrapSetups`). `TRAPA`
   leaves `pc_` where it is and an access pending, but the loop of
   `produce_until_bus` goes on, and executes it again until the budget is used up.
   `run_bios_trace` has a budget of 16. `RTE` in a cached line has the same
   weakness: what follows it is executed before it has popped.
4. **Branches taken for stores** (`sh2_runahead`). On a cache hit the loop of
   `produce_until_bus` tests the words 0x8xy0 and 0x8xy1 for `MOV.B` and `MOV.W
   R0,@(disp,Rn)` whatever x is (`cpu/sh2_core.cpp:856`). `BT`, `BF`, `BT/S`, `BF/S`
   and `CMP/EQ #imm` with such a low byte are executed as stores, against
   `docs/architecture.md:91`. Fetched from the bus they are executed as what they
   are, which is how the tests run them (`tests/test_kernel.cpp:5583`).

Other deviations that the model has, and that the passing runs leave out by a
precondition or by their programs:

* `docs/architecture.md:44` promises that ties within a producer slot keep producer
  order. `pick_next` compares pairs (`bus/bus_arbiter.cpp:230`), and "same slot:
  sequence", "other slot: priority, then round robin" is not transitive: with two
  operations of CPU 1 queued, its early RAM operation loses the round robin to CPU
  0's, which loses on priority to CPU 1's later MMIO operation. Every runner of this
  repository holds one operation per CPU, and so do the hosts of the runs.
* A store through the cache that crosses the end of a line, or one through the
  uncached alias, leaves the CPU's cached copy as it was; `OwnStoresCoherent` says
  so by speaking of the bytes that no such store has written.
* A rejected fetch answers 0xBAD0BAD0, and the core executes its low half, which is
  a `BSR` (`bios_pair` reaches this through jumps to odd addresses).
* `SUBC` and `NEGC` form `Rm + T` in 32 bits; for `Rm = 0xFFFFFFFF` and `T = 1` it
  is zero and the borrow is lost (`Wraps` in `CarriesChain`), although
  `tests/test_kernel.cpp` asks for a borrow chain.
* Data accesses are decoded on cache hits only. Fetched on a miss or through the
  uncached alias they are `ILLEGAL_OP` and skipped; the stack pushes and pops that
  `execute_instruction` does know advance `pc_` twice there.
* An exception requested in front of a delay slot is entered there; the branch
  stays pending and is taken behind the handler's first instruction. One requested
  while an access is pending replaces that access (`tests/test_kernel.cpp:5419`
  requests a second one while the entry of the first is under way, so that SR is pushed
  twice and PC once); one requested while an instruction is being fetched is entered
  behind it, which `Sh2Isa` does not describe.
* `LDC.L`/`LDS.L @R0+` do not increment R0, because their `dst_reg` is 0.
* `DIV1` ignores the bit shifted out of Rn, so `DIV0U` and `DIV1` do not divide in
  general. A pre-decrement store of its own pointer stores the decremented value.
  The return context is a Boolean, which nested exceptions overwrite
  (`docs/code_review.md` lists them as open).
* `STS PR,Rn` and `LDS Rm,PR` have no branch in `execute_instruction` and are skipped.
  `TRAPA` and `RTE` in a delay slot begin behind the branch: `TRAPA` returns past the
  first instruction at the target, `RTE` takes that instruction for its delay slot.
* `docs/libbusarb_integration.md` promises the fixed priority `DMA > SH2_A >
  SH2_B`; `pick_winner` alternates between the CPUs (`BoundedBypass`), which is
  what `tests/test_busarb.cpp` expects.
* `pick_winner`, given several requests of one master at one address, lets a larger
  write and a smaller read displace each other, so there the caller's order
  decides; the adapter has one request per master.
* A byte or halfword write to the upper lanes of a command register
  (`kSmpcCommandAddr`, `kVdp1CommandAddr`, `kVdp1ScuIrqBridgeAddr`) acts as a write
  of zero to the low byte, so it replaces or cancels the command.

## Proofs

### The arbiter

`ArbiterHostProofs` proves, for every latency model, device, set of operations,
request times and watermarks and for behaviours of any length:

| Theorem | Property |
|---|---|
| `TypeCorrect` | `TypeOK` |
| `BusIsSerial` | `BusSerial` |
| `ProducersAreMonotone` | `ProducerTimeMonotone` |
| `RejectedOpsAreInert` | `FaultsAreInert` |
| `HaltIsFinal` | `HaltFreezes` |
| `HorizonIsSafe` | `NoLateArrival`, assuming `Honest` |
| `NothingIsLost` | `NothingLost` |
| `RoundRobinAlternates` | `TiesAlternate`, assuming `OnePerProducer` |
| `PickIsOrderBlind` | `PickIgnoresHostOrder`, assuming `OnePerProducer` |

Assumptions: `LatencyAssumption`, `AddrAssumption`, `ValueAssumption`,
`TickMaxAssumption`, `DeviceAssumption` (devices return values and keep their
state type), `HostAssumption` (operations are well typed, an MMIO kind has an
MMIO address, nobody publishes the sentinel tick).

The argument. `StepCases` shows that each of the actions either leaves the bus,
memory, devices and trace alone, or appends a fault line and nothing else, or
executes one operation with `Grant`, the last two only while no halt is
requested. `FaultsAreInert` and `HaltFreezes` follow at once. `BusSerial` is
inductive with `TypeOK`, since `Start` is at least `bus_free_time` and `Finish`
at least `Start`. `ProducerTimeMonotone` is not inductive: nothing in it links
the trace to the array that `execute_commit` tests. `LastRequestCovers` is the
strengthening: the slot's entry is set and bounds every executed request of the
slot. `NoLateArrival` rests on `HorizonInv`: a drain runs with tracking on and
every executed CPU operation lies strictly below both watermarks, which only
rise (`AdvanceFacts`); the producer's contract does the rest.

`NothingLost` speaks of the moments between calls; what happens inside one is
`LostInv`. Sequence numbers tell the operations of the vector apart, and the
answers (`NumbersInv`); an operation of the vector has an answer exactly if the
batch in progress has committed it (`AnswersInv`); every operation is in the
vector or answered (`CoverInv`); what the batch has accepted are elements of the
vector, each once and not yet committed (`DrainInv`); and the compaction has kept
exactly the uncommitted operations in front of its index (`KeepInv`). A fault in
the first loop is a line of the log but no answer: the operation stays with the
caller. TLC checked `LostInv` on the configuration of `arbiter_faults`.

The last two theorems are about callers like those of `core/emulator.cpp`:
`OnePerProducer` says that a producer has at most one operation in the vector and
that operations go by the slot of the CPU or DMA they name. It cannot be dropped:
with two operations of one CPU the comparison of `pick_next` is not transitive (see
Findings). `SlotsInv` carries it through emission and compaction, `DrainInv` into the
batch. Between operations of different slots the comparison is that of a rank
(`Outranks`: the earlier start, then `Urgency`, which is the priority class and the
CPU whose turn it is), so the loop ends at the one operation that outranks all others
(`PickIsBest`), and a reordering of the vector, being onto, cannot change it. For the
round robin `TiesInv` links the history to the arbiter: `last_grant_cpu` is the winner
of the last tie. The winner of a tie is the preferred CPU, which is the other one, and
`HadTie` is true exactly then (a DMA has a priority of its own), so it is remembered.
TLC checked `SlotsInv` and `TiesInv` on the configuration of `arbiter_contract`.

`BatchCommit` says "some member of `Committable` that is `pick_next`'s result", so
that these proofs need only membership; TLC would report a deadlock if the fold
ever left the set. Where a proof needs what the fold selects, see `PickRuns` below.

### The devices

`DeviceProofs` proves, for every set of aligned accesses and number of writes:

| Theorem | Property |
|---|---|
| `LanesAreBigEndian` | the shifts and masks of `DeviceHub::write` select the bytes an access covers |
| `HubTypeCorrect` | `HubTypeOK` |
| `PlainRegistersAreBytes` | `ReadsMatchBytes` |
| `InterruptsAreTruthful` | `InterruptsTruthful` |
| `CommandStatusIsTruthful` | `CommandStatusTruthful` |

Assumptions: `CounterAssumption`, `AccessAssumption`, `BoundAssumption`. The
inductive invariant `HubInv` adds to the types what links the hub to the history:
`BytesInv` (each byte software remembers is the byte of the materialised register)
and `HistoryInv` (`unacked` is contained in the two latches, the latches in
`raised`; `armed` and `completions` equal the members they describe). The
properties speak of `read`; the lemmas on lanes (`LaneOfByte`, `WordBits`,
`ReadBits`) carry them from register values to reads of any width.

### libbusarb

`BusArbProofs` proves, for every callback, configuration, request and replayed
tick, from `CallbackAssumption`, `ConfigAssumption` and `HostAssumption`:

| Theorem | Property |
|---|---|
| `GrantsAreSerial` | `GrantsSerial` |
| `SleepersAreAwake` | `NobodyOversleeps` |
| `BypassIsBounded` | `BoundedBypass` |
| `WinnerIsUnique` | `WinnerIgnoresOrder` |

`NobodyOversleeps` is not inductive; `HostInv` adds that a master was told to
wait at most until `bus_free_tick` or the present, which later grants can only
make truer because `bus_free_tick` never falls. The other two need what
`pick_winner`'s fold selects. Between requests of different masters its comparison
is that of a rank (`Rank`: DMA, then the CPU whose turn it is), and the fold ends at
a contender of the highest rank (`WinnerIsBest`), whatever the order of the list.
`FairInv` then says that a CPU that was passed over still waits, and that the last
CPU granted was the other one, so that its turn comes next.

### The SH-2 core

`Sh2Proofs` proves `PendingAlwaysWellFormed` (`PendingWellFormed`) for every program,
memory, cache geometry, budget and caller, the known deviations included: what the
core does there is wrong, but no empty optional is dereferenced. A caller may request
an exception whenever `produce_until_bus` is not running (`Request`): in front of a
delay slot, in a handler, over a pending access or over one on the bus. The run has
the callers that `Conforms` allows; before the proof TLC also checked the invariant
once with callers that ask at any time, two requests and handlers nested two deep,
over 258 758 states. The properties of `PendingWellFormed` are not inductive: `IInv`
adds that an `RTE` never starts its pops while the restoration of an earlier one is
outstanding (the popped address would be overwritten under the pending branch), and
that nothing is on the bus inside `produce_until_bus`. There is a lemma for each
function of `Sh2Core` (`EffectStarts`, `ExecuteOK`, `DecodeOK`, `ApplyPendingOK`,
...), and one case per action in `NextIInv`.

`CoreImplementsIsa` is the refinement, `RefinesIsa`, of `Sh2Isa` by `Sh2Host`:

    Spec /\ [](HoldsWords /\ Conforms) => RefinesIsa

`Sh2Isa` does an instruction at once, `Sh2Host` splits it into up to four accesses;
under the refinement mapping the core and the memory are taken as they will be when
these are answered (`Settled`). So the step that decides on the first access is the
instruction, its answers are stutters, and so are fetches, the loop and its budget.
`HoldsWords` says that registers are `uint32_t` and memory holds bytes; that the
logical operations keep it is an induction over bits, so TLC checks it instead.
`Conforms` excludes the deviations under Findings, one conjunct for each that can
happen between the core and `Sh2Isa` (the arithmetic is shared by both); so of all
requests it leaves those between two instructions outside of handlers. It cannot
be dropped, as `sh2_runahead` shows for two of them; the theorem says that there are
no others, for any program. `sh2_refines` checks both hypotheses as invariants.

The inductive invariant is `IsaInv`: the core is `Sound` (a known pending access, and
an SR to restore only behind a delay slot), an operation on the bus is the one the
core asks for (`BusOK`), a requested exception waits for a core between instructions
(`IrqOK`), and the return context agrees with the software's count of exceptions but
for the accesses that are about to change it (`ContextOK`). `Chain` bounds the
accesses that follow one: an answer shortens it (`ApplyShortens`), so four stages
settle every core, and settling after an answer or before it is the same
(`AfterAnswer`). There is a lemma for the effect of each chain (`AfterEntry`,
`AfterReturn`, `AfterLoad`, `AfterStore`, `AfterModify`, ...), one for each action of
`Sh2Isa` (`IsaLoad`, `IsaBranch`, `IsaEnter`, ...) and one for each action of
`Sh2Host` (`RunHitRefines`, `DataResponseRefines`, ...). Assumptions: those of the
modules; `ProgramAssumption` (programs consist of instructions that the decoder knows)
and `ByteAssumption` (a word has four bytes) serve this theorem only.

For the arithmetic of `Sh2Arith`, words of any width and numbers of any length, it
proves:

| Theorem | Property |
|---|---|
| `CarriesAreExact` | `CarriesChain` |
| `SignedIsInteger` | `AgreesWithIntegers` |

`LimbFacts` says what one instruction of a chain does as an equation between integers
(`ADDC`: `n' + WordMod * T' = n + m + T`). `ChainInv` sums these equations over the
limbs done so far, each with its weight `Place`: `Added`, `Doubled`, `Subtracted` and
`Negated` over the low limbs, `Halved` over the high ones, since `ROTCR` works
downwards. Weights and partial sums are recursive functions: that they exist and are
integers, and that replacing one limb changes nothing below or above it (`SameLimbs`),
takes inductions, done with `UpTo`, which speaks of a set and not of a predicate.
`SignedFacts`, `DoubleWord` and `ShiftFacts` are the arithmetic of single instructions.
The provers know nothing of powers, so `PowerAssumption` states that a word has twice
as many values as one with a bit less; TLC evaluates it. TLC checked `ChainInv` for two
limbs of three bits and three limbs of two.

### The BIOS loop

`BiosProofs` proves `StepsAreBounded` (`StepsBounded`) for every image, instruction
set, latency model, device, budget and step limit. `max_steps` is tested at the top
of the loop only, while instructions retire in three places: in the run-ahead of
each core and in the answers to fetches and accesses. `CreditInv` is the
strengthening: the instructions retired, plus what each core may still retire before
the next test (`Credit`: a whole budget before its turn, the fuel left during it, one
for the answer it then waits for), stay below `MaxSteps + 2 * Budget`. A core that
returns with an operation has stopped before its budget was used up, which pays for
the answer (`ProducedKeeps`). `LoopInv` says that the locals of `produce_until_bus`
do not outlive it, and that a batch answers only operations that a core waits for.

`OnlyStoresMakeStale` (`StaleOnlyByStore`) says that a cached instruction byte
differs from memory only if a store to it has committed since its line was last
filled. A fill is in the trace before its line is in the cache, and between the two
the batch may execute a store of the other core; so `CachesInv` speaks of the cache
as it will be once the results of the batch have been applied (`View`), and `OpsInv`
adds that a core asks for a line only if it does not have it. Two hypotheses:

* `WholeImages`: images fill a RAM of whole cache lines of an even size. Of a line
  that is only partly RAM the cache would hold bytes that no memory has, and an
  aligned fetch across the end of a line would not find what it has just filled.
* `NumberedAddresses`: the address of an operation is a number, which in the code its
  type `uint32_t` says. Here the instruction set is a parameter, and that its address
  arithmetic stays within the numbers would need the types of the whole core. TLC
  checked it, with `StaleInv`, on the configuration of `bios_pair`.

`RunAheadLeavesNoMark` (`RunAheadInvisible`) says that `BiosPair` implements
`AtomicCores`, for every image, latency model, device, budget and step limit. The
refinement maps a core to the state it will have once the results of the batch under
way have been applied, and an operation to itself without its sequence number, which
depends on who produced first (`Unnumbers`, `ExecuteRefines`). The crucial step is
again an iteration of `commit_batch`'s second loop (`PicksTheNext`): an operation
within the horizon is the next one in time, although the other core may still have
instructions to run before it asks for the bus. `AheadInv` is the strengthening:

* `HeldInv`: what a core holds on the bus is its next operation, as `AtomicCores`
  would produce it from the core's present state. Without it a batch could answer an
  operation that the core no longer wants.
* `MarkInv`: no watermark is ahead of what its core would report now. So an operation
  before the horizon is before everything that a core without an operation may still
  ask for, since its clock only advances (`ClockInv`).
* `RunInv`: inside `produce_until_bus` the core waits for nothing, so that an
  instruction run ahead is one that `AtomicCores` may run at that moment.
* `CallInv`: a batch answers what the cores held when it was called. `ProbeInv`: the
  probes come after the last instruction, and nothing from the DMA before them.

One hypothesis, `NoTraps`: no word decodes to a TRAPA or an RTE, which is also what the
property says of its programs. Executed from the cache, these two leave an access
pending without returning it to the loop (`sh2_core.cpp`, `produce_until_bus`), so the
core would run on in a state in which `AtomicCores` has it wait. TLC checked `AheadInv`
on the configuration of `bios_pair`, whose instruction list satisfies `NoTraps`.

### The single-threaded runner

`SingleProofs` proves, for all scripts, latencies, devices and cache geometries:

| Theorem | Property | Hypotheses |
|---|---|---|
| `BuffersDrain` | `StoresRetired` | none |
| `LoopImplementsAtomicPair` | `CommitsInAbstractOrder` | `PositiveLatencies`, `WellFormedScripts` |
| `CachesSeeOwnStores` | `OwnStoresCoherent` | `WellFormedScripts`, `WholeLines` |

`IInv` says that a pending operation is the last one its CPU issued, at that CPU's
present time; that a batch holds the pending operations and nothing else; that
watermarks and executed requests are not ahead of the CPU they came from; and that a
store buffer holds the one store its CPU waits for, under the token of its operation.

The refinement maps a CPU to the state in which the replies in `call.committed` have
been delivered and `produce` has been run. The crucial step is an iteration of
`commit_batch`'s second loop: what it picks among the committable operations has to be
what `AtomicPair` picks among the operations of both CPUs, including one that the
concrete CPU has not issued yet, because its reply is still in the batch. Such an
operation asks strictly later than the one that was answered, provided that no reply
comes at the tick of its request (`StallInv`). That is why base latencies must not be
zero (the defaults of `LatencyModel` are not) and accesses must be valid: a rejected
operation is answered at once, and the CPU's next request may tie with the operation
that the batch executes next.

`CacheInv` says what a cache holds byte by byte: `Expected` is the byte in memory, or
the byte of the store that the CPU waits for and the arbiter has not executed
(`StoreAhead`), up to bytes that the other CPU or a store around the cache has
written. The hypotheses exclude a rejected load, which fills a line of zeros, and lines
that are only partly RAM.

### The threaded runner

`PairProofs` proves, for all scripts, latencies and devices and all interleavings of
the three threads:

| Theorem | Property | Hypothesis |
|---|---|---|
| `ExactlyOneInFlight` | `OneInFlight` | none |
| `BusInRequestOrder` | `RequestTimeOrder` | none |
| `ThreadsImplementAtomicPair` | `TraceParity` | `[]Untied` |

`IInv` says for each CPU (`LinkInv`) what links it to its thread's location, its
mailboxes and the coordinator: a waiting producer's operation is in exactly one of
request mailbox, coordinator and response mailbox, it asks at the CPU's present time,
and neither a watermark under way nor a line of the log is ahead of that. Hence no
reply is lost, doubled or sent to a CPU that did not ask, and a request that the
coordinator has not seen cannot be earlier than one it has executed. `produce` skips
the local instructions of a script, so `StopsAtBusOp` needs an induction over the
script; it is done by the least counterexample (`LeastElement`), which the provers
can use where they cannot instantiate an induction rule.

`ThreadsImplementAtomicPair` is trace parity with the single-threaded runner, because
`AtomicPair` is deterministic. `Untied` says that the two CPUs, as the abstract
specification sees them, do not ask for the bus at the same tick. It cannot be
dropped: the second finding is a tie that the coordinator decides with one party
missing. TLC found `Untied` to be an invariant of the configuration of `pair_threads`.

### Host loops

The proofs about the three loops rest on `HostProofs`. `OnePerCpu` describes
`commit_batch` at every iteration, for a caller that passes at most one operation of
each CPU: which operations are still to be accepted, accepted, and answered.
`PickRuns` says how the loop of `pick_next` runs, again by a least counterexample, and
`PickOfTwo` what it selects from two operations. `CacheWriteFacts` and `FillFacts` say what a store and a fill do
to each byte of a `TinyCache`.

Assumptions: those of the arbiter, `ScriptsAssumption` (scripts are sequences of
`ScriptOp`), and for the BIOS loop that the budget is positive.

### Only model-checked

* The invariants `HoldsWords` and `Conforms` of `sh2_refines`, the hypotheses of
  `CoreImplementsIsa`: the first is an induction over the bits of the logical
  operations, the second speaks of the programs of that run. Every other invariant,
  action property and refinement that a passing run checks is also proved; those that
  need a hypothesis beyond `Spec` name it above.
* All liveness (`Terminates`): fairness is out of the prover's reach. The abstract
  specifications state none.

## Not modelled

* `sh2_decode`: a table of instruction names that only tests use; the decoder that
  runs is the chain of branches in `execute_instruction`. The bit patterns of
  instructions are modelled where two of them are confused (`AsDecoded`).
* The text of trace lines, and STATE lines: how a core's STATE lines fall between
  COMMIT lines depends on the budget, and no document promises an order.
* `trace_replay` beyond its use of `libbusarb`: at this commit `main` assigns members
  that `ReplayResult` does not have (`tools/trace_replay/trace_replay.cpp:652-735`
  against `:40-66`), so the program does not compile and has no behaviour.
* The ymir timing table is constant data, read through the callback that
  `BusArbHost` leaves arbitrary. The metrics scripts, file and window I/O keep no
  state that outlives a call.

## Plan

1. Done: arbiter and its hosts, byte-level memory and caches, scripted CPUs, both
   runners on small and shipped scripts, device registers, `libbusarb`, the SH-2
   instruction set in all widths, two cores in the BIOS loop; three abstract
   specifications that four detailed ones refine; thirty-one theorems, the four
   refinements among them.
2. Proofs: the types of the SH-2 core, which would discharge `NumberedAddresses` and
   `HoldsWords`.
3. `DeviceHub` as the arbiter's device (`DevState`, `DevRead`, `DevWrite`), for the
   scripts that use the VDP1 and interrupt registers.
