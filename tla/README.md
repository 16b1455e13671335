# rv-o3: a TLA+ verification project

rv-o3 is a cycle-level simulator of a superscalar, out-of-order RV32IM core. The
program is sequential C++, but the machine it simulates is a large concurrent
system: instructions execute out of order and speculatively, results race for
writeback ports, loads run ahead of stores, a squash invalidates work that is
still in flight in five other structures, and cache misses complete in any
order. Around the machine there are real processes: the Doom port runs the
simulator and a viewer under a launcher, connected by two pipes. This project
models both.

## 1. Inventory

| Component | Source | State | Operations | Correct when |
| --- | --- | --- | --- | --- |
| Ring | core/ring.h | `headIdx`, `n`, slots | alloc, popHead, popTail, indexOf, live | ring index of a live entry is stable and unique |
| Slot sets | core/slot_set.h | bitmap over slots | set, reset, visit (oldest first), visitOlder (newest first) | visits are in ring age order, whatever the wrap |
| Rename | core/rename.h, dispatch/commit/recover in core/ooo.cpp | `map`, free list, `prevPhys`/`pdst` in the ROB | rename, free at commit, undo walk at a squash | no register is named twice, none leaks, a squash restores the map exactly |
| ROB and back end | core/rob.h, core/ooo.cpp | ROB entries, PRF `val`/`ready`, ops in units, `wbReady` | dispatch, issue, writeback, recover, commit | committed values are those of one-at-a-time execution |
| Issue queue | core/iq.h | occupied/blocked/ready bitmaps, wait rows | allocate, track, wakeup, release, flushYounger, visitReady | no lost or spurious wakeup, also after a squash and register reuse |
| Functional units | core/fu.h | pipeline stages, `cur`, `out` | canAccept, accept, tick, flushYounger | nothing is lost or overtaken under writeback backpressure |
| LSQ and store buffer | core/lsq.h, aguDrain/violationScan/lsqOperate in core/ooo.cpp | LSQ entries, work sets, `storeWords`, store buffer, generations, dependence table | alloc, resolve, forward, issue, complete, report, capture, replay, drain, ack | a committed load returns the value of the youngest older store, in all three modes |
| Front end | core/predictor.*, fetchStage/processFetch | `pc`, `fOutstanding`, `fStale`, `fetchQ`, `pendRedirect`, history, RAS, BTB | fetch, predict, restore, replay, update | only the predicted path after the last redirect enters the queue; a flush restores the history |
| Cache | memory/cache.* | arrays, MSHRs, writeback queue, pending installs, hit pipe | access, deliverBelowResponse, tick, peek8 | requests to a line take effect in arrival order; nothing is lost |
| Memory system | memory/system.*, dram.*, memory.h | L1I, L1D, L2, DRAM, backing store | tick (routing), peek8 | the hierarchy behaves as one memory; peek8 sees the newest byte |
| ISA | isa/* | none | decode, execute, extendLoad, classification | shared by both models (pure functions) |
| Reference model | core/refmodel.*, core/commit.h | regs, pc, memory | step | it is the specification of the core |
| Driver, checker | sim/main.cpp | ref model, verified | onCommit compare, final compare | the two models agree on every commit, and on registers and memory at the end |
| Configuration | sim/config.* | SimConfig | parse, override, validate | accepted configurations satisfy the assumptions of the core |
| Syscalls, display bridge | sim/syscall.h, sim/display.h | partial key event, pipes | runSyscall, present, pollKey | frames and key events cross the pipes whole |
| Doom port | doom/* | viewer key state, launcher processes | event loop, launch, shutdown | key releases always follow presses; the launcher always terminates both children |
| Programs | bench/, cdemo/, tests/ | - | - | not part of the system |

### How the parts interact

`OoOCore::stepCycle` calls the stages in reverse pipeline order: commit,
writeback, aguDrain, lsqOperate, issue, dispatch, fetch; then the redirect is
applied, the functional units tick and the memory system ticks. Stages share the
ROB, the physical register file and the LSQ; ops in flight name their ROB and LSQ
entries by ring index. The core talks to the memory system through two tagged,
nonblocking ports; a load names its LSQ slot and generation in the tag.

The simulator, in `present` and `pollKey`, and the viewer, in its event loop, share
two pipes: frames one way, key events the other. Both may move any part of a
message at a time. The launcher starts both, waits for whichever ends first, gives
the other a grace period and stops it.

### What is hard here

The simulated machine has no threads, but it has every hazard of a concurrent
system: results, answers and acknowledgements in any order; squashes that race
what is in flight; slots, registers and tags reused while an old owner's answer is
still travelling; state read at fetch or dispatch and used many cycles later;
queues at their limit that wait for each other. The display bridge has the hazards
of processes: partial reads and writes, a peer that ends at any moment, timeouts
that race the end they wait for. `PROJECT.json` lists the hazards
with the line where each bites and the properties that would catch it.

## 2. Modules

Each module is one component; an arrow means "is shown to implement".

| Module | Models | Builds on |
| --- | --- | --- |
| `Ring` | index arithmetic of core/ring.h | |
| `Rename` -> `Checkpoints` | rename map, free list, undo walk | `Ring` |
| `Backend` -> `InOrder` | dispatch, issue, aguDrain, memory accesses, writeback, recover, commit | `Rename`, `Isa` |
| `MemOrder` -> `SeqMemory` | load/store queue, store buffer, three ordering modes | `Ring` |
| `LsqSets` | the work sets, counters and word filter kept beside the queue | `MemOrder` |
| `IssueQueue` -> `WaitingOps` | bitmaps and wait rows of core/iq.h, and its selection | `SlotSet`, `Ring` |
| `SlotSet` | the scans of core/slot_set.h and `visitReady`, as operators | |
| `Units` -> `DelayLines` | core/fu.h, `wbReady`, the writeback ports | |
| `FrontEnd` | fetch, redirects, speculative predictor state, code that is rewritten | |
| `Cache` | a cache's state and operations, as operators on a record | |
| `CacheOverMemory` -> `ArrivalMemory` | one cache over an arbitrary lower level | `Cache` |
| `MemSystem` -> `ArrivalMemory` | L1I and L1D over L2 over DRAM, `MemorySystem::tick` | `Cache`, three times |
| `DisplayLink` | the pipes, the simulator's end (sim/display.h) and the viewer's loop (doom/viewer.cpp) | |
| `Launcher` -> `Session` | doom/run.py around the two processes | `DisplayLink` |
| `RingProofs` | lemmas on ring indices, which the other proofs cite | `Ring` |
| `BackendProofs` | invariants of renaming and of the back end, `Rename` -> `Checkpoints`, `Backend` -> `InOrder` | `RingProofs` |
| `IssueQueueProofs` | invariants of the queue and its scans, `IssueQueue` -> `WaitingOps` | `RingProofs` |
| `MemOrderProofs` | invariants of the memory engine and of its work sets, `MemOrder` -> `SeqMemory` | `LsqSets`, `RingProofs` |
| `CacheProofs` | invariants of the cache, `CacheOverMemory` -> `ArrivalMemory` | `CacheOverMemory`, `RingProofs` |
| `FrontEndProofs` | invariants of fetch | `FrontEnd`, `RingProofs` |
| `UnitsProofs` | invariants of the units, `Units` -> `DelayLines` | `RingProofs` |
| `LauncherProofs` | the launcher, the end of the frame pipe, the key events | `Launcher` |
| `MC*` | instances for TLC | |

### Renaming: `Rename`, `Checkpoints`

`map`, the free list and the `pdst`/`prevPhys` fields of the reorder buffer.
`RenameDispatch` is the renaming half of `dispatchStage`, `RenameCommit` frees
`prevPhys` as `commitStage` does, `RenameRecover` is the undo walk of `recover()`
in closed form: each register squashed writers displaced goes back to the mapping
the oldest of them displaced. `Checkpoints` is the textbook alternative, a copy of
the whole map taken by every instruction and brought back at a squash. The free
list is a set (which free register is handed out is data).

### Execution: `Backend`, `InOrder`, `Isa`

One action is one instruction's step through a stage, so every width, latency and
number of units or ports is covered by interleaving. `InOrder` is core/refmodel.cpp,
the specification the program itself uses: `onCommit` in sim/main.cpp compares
the two models record by record, and the end of `main` compares registers and
memory. `Isa` has the control outcome of `execute` and one arithmetic operation.
Predictions are arbitrary, except that only a branch is predicted taken.

This is the composition of the core: renaming, the issue queue, the units, the
load/store queue, the store buffer and memory in one state. `ResolveStore` is a
store leaving the AGU with the `violationScan` it causes, `AccessLoad` a load that
forwards from a queued or committed store or reads memory, `CaptureStoreData` the
late capture of a store's datum, `DrainStore` a committed store reaching memory. The
ordering mode is Speculative with the dependence counters free; the cautious modes
are the behaviours in which loads happen to wait, so what holds of every behaviour
here holds of theirs. An access outside memory yields zero and ends the program
only if it commits (`CommitFault`). A syscall is `sys` (returns an input in a0) or
`show` (reads memory at the address in a0, as a frame or a string does).

The refinement mapping says what the architectural state is at any moment: the
registers are what the map names after everything in flight is undone, and memory
is what the committed stores still in the buffer will make of it, until the program
halts; then it is simply what is there, which is what sim/main.cpp compares.
`MemOrder` has the engine behind `AccessLoad` and `DrainStore` in detail.

### Loads and stores: `MemOrder`, `LsqSets`, `SeqMemory`

Both queues are rings, as in the code; a load is matched to its answer by slot
and generation, a store by buffer slot and transaction. `MemAccess` is one pass of
the candidate walk of `lsqOperate` in full: what each pending load finds (a
supplier, a blocker, an unknown address to wait for), up to the access it sends.
`ResolveAddress` includes `violationScan`. The L1D is external: it performs what
it accepted at any time, keeping order between requests that share a byte only,
and answers in any order; `CacheOverMemory` shows that the real cache does that.
`SeqMemory` has no queues: an operation takes effect when it commits, and a
committed load returns what memory then holds.

The code does not search the queue. It keeps bitmaps of slots with work of each
kind, and counts resolved stores per word to skip the search for a supplier.
`LsqSets` runs beside `MemOrder`, updated by the member function each step calls;
`SetsExact` says that they always equal what a search would find.

### Caches: `Cache`, `CacheOverMemory`, `MemSystem`, `ArrivalMemory`

`Cache` has one operator per member function, applied to a record with the arrays,
MSHRs with their waiting requests, writeback queue, refills that wait for room
and the hit pipe. `CacheOverMemory` puts one cache over a level that may refuse,
delay and reorder; `MemSystem` connects three of them and DRAM in the order of
`MemorySystem::tick`. `ArrivalMemory` performs each request when it arrives. Its
memory is refined by `peek8`, so the refinement also says that peek8 sees the
newest byte in every reachable state.

### Front end: `FrontEnd`

The stages of `stepCycle` in their order, because the hazards are about what
happens within one cycle (a squash, then an answer, then the redirect at the clock
edge). The queue, the one fetch in flight and its stale mark, and the history ring
with a fold per position are explicit. What the tables predict is free. The
committed program is kept beside it (`arch`) as the reference of the properties.
`Rewrite` is code that changes one of its own instructions and then runs a FENCE,
as the program of tests/interface.py does, in flat memory. The target buffer is
every instruction a word has ever held (`trained`): an entry may outlive the
instruction it was made for.

### The structures in detail: `IssueQueue`, `SlotSet`, `Units`

`Backend` treats the queue as records with a set of blocked sources and lets a
unit finish when it likes. These modules justify that: `IssueQueue` implements a set of
instructions with the registers they need, `Units` implements one delay line per
unit, and the scans of `SlotSet` are in age order. In `IssueQueue` a bitmap is the
set of its slots; words and masks are in `SlotSet`, and `IssueQueue` selects
through its `VisitReady`. A scan there is the sequence of what it takes from one word
after another, and from which end of the word it takes its bits (`Rising` for
`forwardBits`, `Falling` for the loop of `reverse`); `Visits` says when that is an order.

### The display bridge: `DisplayLink`, `Launcher`, `Session`

A pipe is a bounded sequence of parts of messages. The viewer goes through its loop in the order of doom/viewer.cpp: window events, keys
out, frames in, the last complete frame shown. Every read and write may move any
part. Either process may end at any moment (`ViewerGone`, `SimulatorGone`: a crash,
a kill, the user's signal), and the other finds its pipe broken.
`Launcher` is `main` of doom/run.py from its pipes on: spawning, which may fail,
closing its own ends, waiting for the first child, the grace period, `terminate`,
the second wait and `kill`, and an interrupt at any point. `Session` is what the user sees: frames appear whole, in order,
none made up; keys reach the program whole and in order.

## 3. Runs

| Run | Question | Bounds and why they are enough |
| --- | --- | --- |
| `rename` | is any register lost, shared or reused too early; is a squash exact? | 3 architectural and 6 physical registers, 3 entries, 5 dispatches: two writers of one register squashed together, a wrapped ring and an empty free list all occur |
| `backend` | does out-of-order execution commit, output and leave behind what the reference model does, and does every instruction leave? | six programs of five instructions, each around one difficulty (`MCBackend`: dependences across a branch, a late datum, a late address whose stale value faults, output and bad addresses, a jump through a register, a loop that stores); two words of memory, 4 entries and 6 dispatches, so a squash, a refetch and a second squash occur |
| `mem_speculative` | do guesses, replays and late answers keep one memory when slots are reused? | 3 queue slots, 2 buffer slots, 4 operations, single bytes and the pair that overlaps them |
| `mem_modes` | do the cautious modes never guess; do the work sets and the word filter stay exact; does each mode survive faults on wrong paths; do both queues empty? | all three modes, 3 queue slots, 3 operations: a supplier, a blocker and a load; pairs that fault included |
| `mem_one_load` | finding, see section 7 | 2 queue slots, 3 operations |
| `cache` | partial and whole-line writes, merges, restores | one set, one way, two MSHRs, so that every second line evicts; two slots for writebacks, since `canAccept` demands a free one and a restore needs a parked victim as well; 3 requests |
| `hierarchy` | do the levels together behave as one memory, do fetches get code, does a delayed install keep its place, is everything answered? | 3 lines through one-way caches evict at both levels; one writeback slot in the L2, so that its refills find no room for a victim; 3 data requests and a fetch |
| `front_end` | does an abandoned block get in; do history and return stack follow the surviving path? | a branch, a call, a jump and a return over 6 words, blocks of 2, queue of 4, buffer of 3, 7 fetches, history of 2 bits; the jump's target may be rewritten |
| `self_modify` | finding, see section 7 | the same, the jump rewritten to an instruction that does not branch |
| `units` | is each result delivered once, in time, or squashed? | units of latency 1, 3 (pipelined) and 2 (not), a load slot and one port |
| `issue_queue` | is a wakeup lost, early or for the wrong occupant; is selection oldest first? | 3 slots, 2 entries, 2 registers, 4 dispatches: every slot is reused. The scans are also evaluated for every set, head and capacity from 1 to 7 with words of 2 bits: one to four words, full and partial |
| `display` | do frames and keys cross whole and in order, is every press released, does the launcher always return with both processes gone, is the last frame shown? | two frames of one or two pixels behind a header of two parts, events of two parts, two scan codes that stand for one key code, three window events, pipes smaller than a frame or two events, a queue of keys at its limit, one interrupt |

The type invariant of a module (`BackTypeOK`, `MemTypeOK`, ...) is a conjunct of its
structural invariant (`WorkMatchesEntries`, `BufferedMemory`, `CopiesSound`,
`SpeculationUndone`, `NoneLostOrDoubled`, `QueueExact`, `KeysPaired`), so each run
checks it; `RenameTypeOK` is part of `BackTypeOK` and is also proved.

Bounds on counters (`MaxSeq`, `MaxOps`, `MaxRequests`, `MaxData`, `MaxFetches`,
`MaxBlocks`, `PortCap`) are in the guards, and named where they are declared. Runs
with CHECK_DEADLOCK FALSE are those where the bounded program, or a committed halt
or fault, really ends. Each property of a passing run has a mutant in
`PROJECT.json`: a plausible mistake in one operator (its `Bug...` form stands
before it) that makes TLC find the property violated.

### Fairness

A simulator calls every stage each cycle, so weak fairness is on what the stages
do with work they already have, never on new work:

- `BackFairSpec`: some step of an instruction already dispatched, or of a store in the
  buffer, is taken while one can be (units always finish, the L1D always answers,
  the oldest instruction can always go next). Dispatch is not fair.
- `MemFairSpec`: the same for addresses, data, answers, accesses and commits; which
  comes first is free, and squashes and dispatches are not fair. `SetsFairSpec` is the
  same with the work sets beside it.
- `MFairSpec`: the hierarchy is ticked with what is ripe, the core takes answers.
  Requests are not fair. (In `MFairSpec` the weak fairness of `RipeCycle` is written out, because
  the evaluation of ENABLED over a whole cycle is slow; the comment gives the
  reason why it is the same formula.)
- `UFairSpec`: the stages of a cycle follow each other. Issue and dispatch are not
  fair.
- `LauncherSpec`: the launcher runs and its timeouts expire. Simulator and viewer may
  hang forever, so `LauncherReturns` says that whoever ends, the other one cannot
  keep the launcher.

## 4. What is proved

Every theorem holds for all values of the constants that satisfy the assumptions of
its module: the bounds `validateConfig` enforces, and in `Backend` what makes a
program one (branches stay inside it, a halt ends it). That is every size of every
queue, ring and register file, every set of programs or accesses, every bound on
the number of steps. The extra hypotheses, `MaxOps < GenMod`, `BranchesStay` and
`KindsStay`, are explained below.

### Renaming: `RingProofs`, `BackendProofs`

From `RenameAssumption`:

- `TypeCorrect`: type correctness.
- `RegistersNeverLost` (`RegistersConserved`): every physical register is free or
  stands for exactly one thing. It joins `FreeListSafe` (no free register is named),
  `FreeListComplete` (none leaks) and `NoAliasing` (none is named twice).
- `ChainHolds` (`MappingChain`): displaced mappings form the chain the undo walk needs.
- `UndoIsCheckpoint` (`RefinesCheckpoints`): `Rename` implements `Checkpoints`, with
  the map and a computed snapshot per entry as refinement mapping.

The inductive invariant is `RenameInv`, the conjunction of the type invariant,
the three parts of `RegistersConserved` and `MappingChain`. The one that
matters is `MappingChain`: if an instruction wrote register r, then what the next
younger writer of r displaced is its `pdst`, and the map holds the youngest
writer's. Without it a squash says nothing: the undo walk writes `prevPhys`
back, and only the chain makes that the mapping of the youngest survivor, with
`NamedOnce` making sure that the freed `pdst` is named nowhere else. The proof of
the step has one lemma per action (`DispatchNone`, `DispatchDest`, `CommitKeeps`,
`SquashKeeps`). The undo walk is non-recursive (`Undo` in terms of the oldest
squashed writer), which is what lets it be proved about.

`RingProofs` proves that `Ring::live` accepts exactly the occupied slots for every
capacity and head (`LiveIsOccupied`), from `IndexInRange`, `IndexInjective` and
`IndexShift`, which the other proofs use.

### The back end: `BackendProofs`

From `RenameAssumption` and `BackendAssumption`, for every set of programs in the
modelled instructions:

- `WorkAccountedFor` (`WorkMatchesEntries`): what waits or runs belongs to exactly the
  live unfinished entries; `BackTypes` is its type invariant.
- `NoWakeupLost` (`WaitsAreSound`): an operand is blocked exactly while its register
  has no value, and every awaited register has a live producer.
- `LateCapture` (`LateCaptureSafe`): a store's datum is still in the register it
  watches when it is captured.
- `NamedValuesStay` (`WrittenOnce`): a register that has its value keeps it as long
  as anything names it.
- `OutOfOrderIsInOrder` (`RefinesInOrder`): the core implements `InOrder`.

The inductive invariant `BackInv` is `RenameInv` and nine more conjuncts. `Matched`
puts every busy entry in one place, the queue or a unit. `Dests` and `ReadyIffDone`
say whose destination has its value, and that every register in use that nobody
is about to write has. `SourcesWatched` and `DataWatched` are the heart: what an
entry watches is what the map said just before it was dispatched (`Before`, the undo of
everything from it on). That stays true through commits and squashes only because
of `MappingChain`, and it is what turns "reads the physical register it was given"
into "reads what program order says".

The refinement needs `RefInv`: an issued entry had its sources (`SourcesReady`); what is
in flight or finished is the right result of those sources (`InFlightRight`,
`AddressesRight`, `ResultsRight`), where right for a load means the datum of the newest
older store known to write its address (`Reads`); and every entry follows where its
predecessor goes (`OnPath`). The last two are invariants of the entries that stay: a
branch that was predicted wrongly, and a store that learns of its address late,
break them for what is younger, and throw exactly that away in the same step. With nothing older
than it, the head of the reorder buffer has then done what `InOrder` does next.
Entries are named by slot, not by age, in these proofs: ages shift at every commit.

### The issue queue: `IssueQueueProofs`

From `IssueQueueAssumption`:

- `QueueConsistent` (`QueueExact`): wait rows, bitmaps, ready slots and the count agree.
- `NoneOverslept` (`NoLostWakeup`): no instruction waits for a register already written.
- `BitmapsImplementWaiting` (`RefinesWaiting`): bitmaps and rows implement a set of
  instructions with the registers they need.
- `SelectsInProgramOrder` (`SelectsOldestFirst`): the scan of the ready entries follows
  the program, however slots are reused and the ring turns.
- `ScansAlwaysExact` (`ScansInAgeOrder`, also from `SlotSetAssumption`): each word-wise
  scan of core/slot_set.h and core/iq.h visits every member of a bitmap once and in order,
  for every width of a word, every capacity, head, end and set; the run looks at words of
  two bits and up to seven slots.

`IqInv` adds to these what the queue itself does not keep: the slots of the reorder
buffer hold increasing sequence numbers from the head on, also those that have left
the queue (`SlotsOrdered`). `flushYounger` compares sequence numbers in slots, so it
removes the right ones only because of it. The scans need no invariant: `WordOrder` says
that a later word holds later slots and that a word holds its slots in order, `CutIs`
which slots are left of an outer word after masking, and `VisitsJoin` when two scans one
after the other are still in order. `SelectsInProgramOrder` puts the two together: by
`SlotsOrdered`, the slot's distance from the head is its place in the program.

### The units: `UnitsProofs`

From `UnitsAssumption`, for every number of units, latencies and ports:

- `OneWayOut` (`NoneLostOrDoubled`): an executing instruction is in exactly one place, any
  other in none; `UnitsTypeOK` is a part of it.
- `EveryResultCompetesOnce` (`WbReadyExact`): the candidates are the full output slots,
  each once.
- `UnitsAreDelayLines` (`RefinesDelayLines`): the units implement `DelayLines`.

`UnitsInv` speaks of spots: a busy unit, a stage or an output slot, and what each holds.
Every step does one of three things to spots: an instruction enters an empty one
(`Entered`), some leave (`Left`), or they move without meeting (`Moved`), and `Located`
survives each. `Sound` is what a unit must keep for that: a pipe's `inFlight` counts its
full stages, and a unit that is busy for its whole latency has an empty output slot. A
count that drifts would leave a pipe that holds something idle (`tick` returns early), and a
tick into a full slot would lose a result. For the refinement, a stage is as many cycles from
the output as it lies behind `inputSlot` on the circle (`BehindIs`).

### The memory engine: `MemOrderProofs`

From `MemOrderAssumption`, for the sets `LsqSetsAssumption`, and `MaxOps < GenMod`, in all three ordering modes:

- `OwnResponseOnly` (`ResponsesFindTheirOwner`): every waiting load and store is answered
  by its own request and no other.
- `BufferHoldsTheRest` (`BufferedMemory`): memory and store buffer together are committed
  memory, whatever order acknowledgements come in.
- `NoLoadGuesses` (`NeverPassesUnknownStore`): in the cautious modes no load has read past
  an unknown address.
- `WrongGuessesAreGone` (`SpeculationRepaired`): once the addresses of older stores are
  known, a completed load holds the value of program order.
- `OneMemoryInProgramOrder` (`RefinesSeqMemory`): the engine implements `SeqMemory`.
- `SetsAlwaysExact` (`SetsExact`): the bitmaps and counters of `LsqSets` say what a search
  of the live entries would, and no store is missed where `storeWords` counts none.

`MemInv` follows a value byte by byte. `StoresInPort` and `LoadsInPort` match requests
to owners: store requests are in the order of the buffer, and a load request belongs to
the entry in its slot exactly as long as the generation is the entry's. `MemoryRight`
says of each byte that writes reach it in age order, memory has the youngest that
did, and committed memory what the youngest entry of the buffer will write.
`LoadsRight` says that a load in flight overlaps no store known to be older, in queue or
buffer, so that whatever moment the cache chooses, it reads what was committed; and
that a finished load has the value of the youngest older stores known. The conjunct
that a step breaks is again the one about what that step throws away: a store that
learns of its address and finds a younger load that read too early squashes it. Loads behind an
older store that faults are exempt (`Clean`); they never commit.

For the work sets `SetsInv` is `MemInv` and `Exact`: each set is the live slots whose entry
is of one kind (`Unsent`, `Sent`, `Arrived`, ...), each counter their number. It is
a predicate of a value of `work`, a queue and a set of slots, because a step calls
several methods in a row: a replay resolves one entry and removes others, the walk
completes many and issues one. Each method has a lemma that says between which
queues it keeps `Exact` (`ResolveWork`, `CompleteWork`, `RemoveWork`, ...), and each step
of the engine composes them. That each method is called on an entry in the state it
expects, and a completed load is counted once, is where `MemInv` is needed. The last conjunct
rests on arithmetic: an aligned load lies in one word, and a store that overlaps it,
misaligned or not, has its first or its last byte there (`StoreCountsThere`).

`MaxOps < GenMod` says that generations do not come round: a slot is dispatched to at
most `MaxOps` times. Both are parameters, so this is not a bound on the size of the
system, but in the code `GenMod` is 65536 and a run is longer. There the theorems say
what they say of the generations within one access; see section 6.

### The cache: `CacheProofs`

From `CacheAssumption` and `PortAssumption`: any number of sets, ways, MSHRs and
writeback entries, any lines and access shapes.

- `CopiesAlwaysSound` (`CopiesSound`): a line has one home, and what may be dropped without a
  writeback is the same below.
- `CacheRefinesArrival` (`RefinesArrival`): a cache over a level that refuses, delays and
  reorders is a memory where each request takes effect when it arrives.

The invariant `Good` is again one of values (a cache, the level below, the refills under way,
the requests made), since one tick goes through several caches. `Fits`: capacities hold.
`Apart`: arrays, writeback queue and outstanding misses share no line. `Awaited`: every
refill, under way or delayed, is for a miss that was sent and still waits, at most one
for each, and carries what the level below has now; this is where it matters that a line
is never refilled while its newest data is still in the writeback queue.
`Numbered`: no two requests have one tag. For the refinement, every
operation of the cache has a lemma on `Good`, on the memory the cache stands for (`Contents`,
what peek8 sees) and on the answers it owes (`Due`, those of waiting requests included). All
but the arrival of a request leave the last two alone. The case that takes the most
work is `tryInstall`: in the middle of performing the requests that waited, the
line is in the arrays and in its MSHR. The proof gives the MSHR back first
(`GiveBack`), so that there is one home throughout, and shows that the order does
not matter (`ReplayFreed`); then each request performed answers what its place in the
list promised (`Promise`, `ReplayStep`).

### Fetch: `FrontEndProofs`

From `FrontEndAssumption` and `BranchesStay`, for every program, block and queue:

- `OnePathAlways` (`OnePath`): the instructions in flight are one path, from where the
  committed program is to where fetch continues.
- `FaultIsAlwaysReal` (`FaultIsReal`): a fetch fault is the committed program's own.
- `RewrittenBranchesRun` (`RunsTheNewCode`): what commits next is where the code, as it is
  now, goes.

`BranchesStay` says that no rewrite turns a word that was once a branch into one that is
not. It is exactly what the finding `self_modify` of section 7 lacks, and the theorems
say that nothing else is needed; a program that does not rewrite itself satisfies it
trivially, the one of run `front_end` does as well. `FrontInv` adds to `OnePath` what a
step needs of the past. `Training`: an entry of the target buffer that predicts a branch
is for a word that still is one, so whatever is predicted taken will be checked when it
resolves. `Continues`: while a redirect waits for the clock edge, an answer on its way is
stale; without this the block of an abandoned path that arrives in the cycle of the
squash would follow the survivors. `Shape`: words and pcs stay inside memory, since a
block that starts there ends there (`BlockInMemory`).

Then what speculation leaves in the predictor, for every length of history and every
mix of mispredicts and replays:

- `HistoryAlwaysExact` (`HistoryExact`, a part of `SpeculationUndone`): the last bits of
  the ring and the fold over them are the history of the committed program followed by the
  instructions in flight, and each checkpoint still finds the history its prediction used,
  although the ring is overwritten by wrong paths and never cleared.
- `SpeculationAlwaysUndone` (`SpeculationUndone`): the depth of the return stack is exact as
  well, and both queues stay within their bounds. It assumes `KindsStay`: a rewrite changes
  where an instruction goes and not what kind it is, which the run `front_end` satisfies and
  any program that does not rewrite itself. Without it the depth is not exact: the target
  buffer goes on treating as a call a word that is now a jump, and if the jump goes where
  the call went, the prediction is right and nothing takes the push back. `KindsStay`
  implies `BranchesStay` (`KindsAreBranches`).

`SpecInv` adds to `FrontInv` the record of what is speculative. `Tracks`: the positions at
which the instructions in flight took their checkpoints, and the predictor's own after the
last of them, follow one another by the effect of each instruction (`Enters`: a conditional
branch pushes one bit, and nothing else moves the position); the fold at each of them counts
the ones in its window; the depths follow in the same way (`Nested`). `Room`: the queues
have a place for the block being fetched, so all live positions lie less than a ring apart
and no push overwrites a bit that an older checkpoint can still reach (`ApartInRing`,
`RingIsLong`): the proof needs a ring longer than a history, a ROB and a fetch queue
together, and the code allocates more (predictor.cpp:21).
`Fits` and `SameKinds`: a prediction has the effect of the kind of its word. `restore`
takes the record back to a prefix (`TracksShort`), a commit drops its first element
(`TracksLater`), a fetched block extends it word by word (`TracksMore`, `TracksBlock`), and
`RecordIsExact` reads the properties off it: `Program`, the history and depth along the
instructions in flight, is a recursive function, and agrees with the record at each of them.

What `processFetch` leaves of the predictor is a recursion over the words of a block.
`BeforeIs` and `BeforeTypes` do their induction without the library's induction theorems,
by the least counterexample (`MinExists`).

### The launcher and the display link: `LauncherProofs`

`NoOneLeftBehind` (`NothingLeftBehind`): when the launcher returns, unless an interrupt
came outside its waits, both processes have ended and its exit status is true of how. It
holds for every size of pipe, frame and key queue: `LinkStands` reduces the twenty actions of
the two processes to what they do to `status`. The one fact about the pipes it
needs is `ViewerEndsLast`: a viewer ends well by itself only after end of file or a broken
pipe, hence after its simulator, and not while the launcher holds the other ends. So a
simulator that is stopped with status 0 was stopped because the window was closed.

`NoFrameMissed` (`LastFrameShown`): a viewer becomes "ok" by itself in two ways
(`EndsWell`), and the one that is left when it has no key events to write sees neither
bytes in the pipe nor a part of a frame.

`KeysAlwaysPaired` (`KeysPaired`) holds for any number of scan codes and codes, any
sharing among them, words of any length and pipes of any size. `Carries(bytes, from, to)`
says that bytes are whole words, each beginning with a code, whose events lead from one
set of pressed codes to another, each changing it. The invariant `KeysInv` has
`Carries(InTransit, down, Pressed)` while both processes are there. Each window event
appends a piece that carries on (`CarriesWord`, `CarriesReleases`, joined by
`CarriesJoin`), a write moves bytes from one term of `InTransit` to the next, and the
read that completes a word takes the first event (`CarriesOn`). It needs two facts more:
`counts` is the number of scan codes held for a code (`KeysCounted`), or a shared code
would be released with the first of them; and after the viewer died in the middle of a
word, what is left in the pipe still begins its words with codes (`CodesLead`), which
`DisplayTypeOK` needs for `down`. `NotBegun` says that a process starts on empty pipes
and is not started twice.

## 5. What is only model-checked

- `MemSystem`: that three caches over DRAM compose into one memory, and that refills and
  fetches are answered. `CacheProofs` proves what each level does over one that performs in
  order of arrival; the composition would need that argument three times over, with the
  tags and sources of two requesters.
- The refinement of `Session` by `DisplayLink`: that frames appear whole and in order needs
  `Packets`, a recursive function over a stream of packets of different lengths.
- Liveness, and anything with ENABLED, which TLAPS does not support: `EverythingLeaves`,
  `EngineDrains`, `LauncherReturns` and the others stated under the fairness of section 3.

## 6. What is not modelled, and why

- Cycle counts, widths, latencies and port counts as numbers: an interleaving of
  single steps covers all of them, and performance is not a correctness property.
  Statistics and the trace are left out.
- The predictor's tables (TAGE and gshare lookup and training, replacement in the
  target buffer, the addresses on the return stack): any prediction is allowed
  instead, which includes theirs. Branches to misaligned addresses, which wait for
  a squash or fault at commit like those outside memory, are excluded from
  `FrontEnd` and `Backend`.
- In `Backend`: partial words, misaligned accesses and requests in flight to memory
  (`MemOrder` has them), and the text output and file input of the console syscalls.
- In `MemOrder`: the dependence counters (any load may be cautious), 32-bit wrap of an
  address sum, and 16-bit wrap of generations (core/lsq.h:91; `GenMod` is a constant, at
  its real value in the runs, and above `MaxOps` in the theorems). A wrap does harm only
  when a slot is reused 65536 times while one access is out.
- Flat memory mode beyond its part in `Rewrite`, image loading, the backing store's
  size check, and a memory that ends inside a line (memory/dram.cpp:19).
- Decoding, disassembly, arithmetic: pure functions shared by both models of the
  simulator.
- Argument handling and parsing of the configuration; rendering, the guest runtime
  of the Doom port (fixed point, memory operations, the WAD reader), its setup, and
  the benchmark programs: straight-line sequential code, or not part of the system.

## 7. Findings

Run `mem_one_load`. core/lsq.h:17 says that the Conservative mode "also issues loads
one at a time". The walk in `lsqOperate` (core/ooo.cpp:492) stops only at candidates
younger than the oldest load in flight. A load whose address resolves late is older than
the load in flight and issues beside it: two loads are in flight. No value is
wrong; the run `mem_modes` still refines `SeqMemory`.

Run `self_modify`. tests/interface.py:152 says "A program that rewrites one of its own
instructions runs the new one." A target buffer entry is only ever replaced when
another taken branch commits. When a branch is rewritten to an instruction that
does not branch, `processFetch` (core/ooo.cpp:850) still follows the entry, and
writeback compares the outcome with the prediction only for what dispatch
classified as a branch (core/ooo.cpp:261), so the instructions in between are never
fetched. The program in tests/interface.py rewrites an ADDI to an ADDI and
does not meet this. A program that calls a JAL until it is trained, stores a NOP
over it, runs a FENCE and calls it again makes the simulator's own differential
check fail, at widths 1, 2 and 8. With a target that changes, or a branch that becomes
another branch, the comparison corrects it; run `front_end` includes that case.

Observations that no run calls a violation:

- doom/run.py:104 lets a viewer "show the last complete frame and exit". A viewer
  that still has key events to write meets the broken pipe first
  (doom/viewer.cpp:114-125) and exits without the last frame. `LastFrameShown` is
  stated for a viewer with no events queued.
- An interrupt outside the launcher's two waits (inside `Popen`, between closing
  the pipe ends and clearing the list, inside the cleanup) can leave a process behind.
  `NothingLeftBehind` is stated for interrupts at the waits (`untimely` marks the rest).

## 8. Plan

Done: the modules above. Next, most important first:

1. Proofs: `MemSystem`, with the lemmas of `CacheProofs` for each of its caches.
2. Runs for an address space that ends inside a line and for generations that wrap
   within one access.
3. `Predictor`: target buffer replacement and training, and the real addresses of
   the return stack.
