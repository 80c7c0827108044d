# WebTSan in TLA+

WebTSan (`src/`) is a patch set for Chromium and V8 that finds data races on
SharedArrayBuffers.  The renderer keeps one vector clock per worker and two shadow
cells per shared byte; V8 and Blink call it from memory accesses, atomics, futexes,
messages and thread lifecycle events.  A race detector is a concurrent program that
judges concurrent programs, so it can be wrong in two directions: it may accuse two
accesses that are ordered, or stay silent about two that are not.  And it is called
from code that is concurrent itself: futexes, growing memories, workers that are
terminated, a compiler that must put each call where the access is.  This project
models both, checks them with TLC on small instances and proves most of it with TLAPS
for every size: the detector, the hooks of atomics, the reports, the futexes, the
backing store and the registry of shared memories.

Paths below: `tsan/` is `src/patches/chromium/new-files/third_party/blink/renderer/core/tsan/`,
`v8/` is `src/patches/v8/{new-files,modified-files}/src/`, `blink/` is
`src/patches/chromium/modified-files/third_party/blink/renderer/`.

## 1. Inventory

| Part | State | Operations | Module |
|---|---|---|---|
| Vector clocks, `tsan/web_tsan.h` | 64 epochs | construct, Increment, Join, HappensBefore | `VClocks` |
| Detector, `tsan/web_tsan.cc` | thread clocks, live slots, `next_tid_`, orphan clock, sync clocks, message edges | ThreadCreate/Finish/Destroy/Join/Detach/Absorb, Acquire, Release, mutex hooks, HappensBefore/After | `WebTSan` |
| Shadow buffer, same file | cells (tid, epoch, kind) per byte; pages; stripe locks | RecordAccess, ClearRange, create, remove | `WebTSan` (one cell array), `SharedMemories` (whose shadow, how long) |
| Atomics hooks, `v8/builtins/builtins-sharedarraybuffer-gen.cc`, `v8/wasm/baseline/liftoff-compiler.cc`, `v8/runtime/runtime-tsan.cc`, `runtime-test-wasm.cc` | none of their own: the order of hook and instruction | load, store, exchange, compareExchange, add..., and the Wasm atomics | `AtomicsHooks` |
| Race reporting, tail of `MemoryAccess`, `tsan/web_tsan_init.cc`, `runtime-tsan.cc`, `runtime-test-wasm.cc` | reported sites, pending report and guards in thread-local storage | dedup, consume_race, three ways to console.error | `RaceReports` |
| Futexes, `v8/execution/futex-emulation.cc` | wait lists, nodes, promises to resolve, timeout tasks | wait, waitAsync, notify, time-out, interrupt, end of an isolate | `Futex`, promising `WaiterLists` |
| Backing store, `v8/objects/backing-store.cc` | length, committed pages, reservation, guard regions | allocate with retries, copy, grow in place (Wasm and growable), resize, free | `BackingStore`, promising `MemoryLength` |
| Registry of shared memories, same file | weak references, its mutex, each store's isolates | register, attach, grow and broadcast, refresh views, purge, the destructor's steps | `SharedMemories` |
| Workers, `blink/core/workers/worker_thread.cc` and the files around it | termination progress, thread state, children, tasks | start, close, freeze, terminate, forcible termination, shutdown | `WorkerThread` |
| postMessage, `blink/core/messaging`, `blink/core/workers` | messages in flight with an edge id, early tasks | send, receive, drop, both directions and ports | `Messages`, over `WebTSan` |
| Liftoff, `v8/wasm/baseline/liftoff-compiler.cc` | value stack, use counts, control stack, out-of-line code | the handler of each instruction; bounds checks; casts, calls; TraceMemoryOperation | `LiftoffNumeric`, `LiftoffMemory`, `LiftoffControl`, `LiftoffObjects`, `LiftoffCasts`, `LiftoffObjectAtomics`, `LiftoffTables`, `LiftoffStrings`, `LiftoffCalls`, `LiftoffCompiler` |
| C functions for Wasm, `v8/wasm/wasm-external-refs.cc` | none | conversions, divisions, shifts; bulk memory and its samples | `WasmNumerics`, `WasmMachine` |
| Tier-up, `v8/flags/flag-definitions.h`, Liftoff | flags and what they imply, the budget | imply, compile, check the budget | `TierUp` |
| Suppression, `web_tsan_hooks.h` | depth per thread | push, pop | not modelled |
| Start-up, process hosts, JavaScript globals, build files | none of the detector's | register, install, pass switches on | not modelled, except the state they leave |

**Interaction.**  V8 reaches Blink through a table of callbacks
(`runtime-tsan.h`), registered once by `InitializeWebTSan`.  All calls are
synchronous, on the thread that makes the access, under the detector's locks:
`thread_lock_` (then `sync_lock_` or `hb_lock_`) for clocks, `shadow_lock_` for the
table of buffers, a stripe lock per byte.  The current thread's logical tid and its
pending report are in thread-local storage.  Liftoff emits the calls for plain
accesses after the access; the builtins make those of JavaScript atomics before the
instruction; futexes, messages and workers call the clock operations where they hand
over.  The destructor of a backing store removes the shadow of its memory.

**What is hard.**  One access takes `shadow_lock_`, then `thread_lock_`, then one
stripe lock per byte, and everything else may run in between.  Slots are reused.
Clocks are copied to sync addresses, edges, children and snapshots, and an epoch that
has been copied anywhere must not be written under again.  A hook and the
instruction it stands for are two steps.  A report calls JavaScript, which comes
back into the hooks.  A waiter may be woken, time out and be interrupted at once; a
memory is grown by several threads and its pages by one; a store dies while the
registry looks it up; a worker is terminated while it starts, is frozen or runs a
script that never returns; a message waits for a script that may never be loaded.  A
compiler keeps values in registers across branches it merges.  The list with lines is
"hazards" in `PROJECT.json`.

**What correctness means.**

- Detector: no false race, no missed race among the cells that are kept, clocks never
  go back, loops stay in the buffer.
- Atomics hooks: what the memory model orders, the clocks order.
- Reporting: a silenced site has exactly one report, and only one that no reporter
  follows may be overwritten; the guards neither stick nor let a reporter into itself.
- Futexes: a node is on exactly one list, a notify that counted a waiter wakes it and
  passes on the clock, who has waited longest is woken first, and a wait that has to end
  ends.
- Backing store: what is readable is committed, what a shrink gave up is zero, nothing
  is leaked, racing grows are linear.
- Registry: no store meets the entry or the shadow of an earlier one, the mutex is
  released, every isolate sees a grown memory.
- Workers: one shutdown, after everything else; scripts run while the worker owns its
  slot; termination ends.
- Messages: each message in flight is in one queue once, its edge waits for it and
  orders what was written before it, and messages arrive in order.  Nothing is claimed
  of the edges that dropped messages and those of ports leave behind.
- Liftoff: registers are counted as they are used, the code means what the function
  means, and the detector is told of each access after it, as it was made.

## 2. Modules

`VClocks` - clocks as functions from slots to naturals.  Epochs are 64 bits and are
ticked once per synchronisation, so their overflow is left out.

`WebTSan` - the detector.  Variables carry the code's names without the trailing
underscore.  An action is one critical section:

| Action | Code (`web_tsan.cc`) |
|---|---|
| ThreadCreate (StartThread, Allocated, BirthClock) | 186-219, with the wrap-around search and the case of no free slot |
| ThreadFinish, ThreadDestroy, ThreadJoin, ThreadAbsorb | 221-253, 424-446 |
| Acquire, Release, MutexPostLock, MutexReadLock, MutexUnlock, MutexCreate, MutexDestroy | 336-418 |
| HappensBefore, HappensAfter | 452-478 |
| MemoryAccess, TakeSnapshot, RecordByte | 259-297 lookup, snapshot; 58-109 one action per byte |
| ClearShadow, ClearByte, RemoveShadow | 484-506, 111-142 |

The *history variables* `thread_hb`, `sync_hb`, `edge_hb`, `orphan_hb`, `snap_hb`
keep, without clocks, which recorded accesses happen before a thread, address, edge,
the orphan clock and a running access.  They are the reference the clocks are
compared with: sets of cells that are handed on by union.  A cell leaves all of them
when it is overwritten.  No guard reads them.

`Next` allows every operation to every live thread in every order.
`DisciplinedNext` is the order the worker code keeps: a worker starts while a slot
is free, a thread that has finished or was left makes no more calls, and only a
finished thread is joined; postMessage and children of a parent are left out of it
because of finding 1 below.

`RaceDetector` - what the detector promises a disciplined program.  It has the same
histories, slots, cells and accesses, but no clock and no epoch: an access is named by
its cell, a synchronisation hands on the set of accesses that happen before it, and in
the byte under its cursor an access races with the conflicting cells it does not know.
`ClocksAreTheOrder` in `WebTSan` is an instance of it: the slots are Status, the cells
lose their epochs (KeptCells), an access is seen from its snapshot on (RunningAccess),
and the races are the cells that pass RecordAccess's test on clocks (RacesFound).  Since
`Next` fixes the races after every step to be the unordered ones, the instance says that
the test takes those and no others, and that an access ends at the first byte with one.

`AtomicsHooks` - each atomic operation is a sequence of steps (acquire, release,
read, write, rmw, cas, convert), read off the builtin or the Liftoff code; the
detector is reduced to Acquire and Release, the program to one plain cell per
thread.  `thread_hb`, `value_hb` and `value_own` are the memory model's order.

`RaceReports` - sites are buckets of buffers; the exclusive or that makes their keys is
the constant `ExclusiveOr`, of which only that its values are naturals is assumed, and which
`MCRaceReports` gives as the bitwise one.  An access is three steps, between which other
threads run: Begin (RecordAccess has met a race), MemoryAccess (the dedup silences the
site and makes the race the pending report) and ConsumeRace (its reporter takes what is
pending); a bulk sample ends without the third.  `frames` is the stack of console.error
calls, so that a reporter can be re-entered.  Two histories: `unattended` are the threads
whose pending report was made where no reporter follows, `settled` says of each report
whether a reporter took it or another report overwrote it.  That a buffer is freed
changes nothing here, which is why there is no action for it: its sites stay silenced.

`Futex` - one action per critical section of the wait list's mutex, and the steps
between two: a synchronous waiter is a thread asleep on its node, an asynchronous one
a node with a promise, a timeout task and an isolate.  The detector is reduced to the
clocks the hooks pass on.  `woken_by` remembers which notify has counted a node.
Taking nodes out of a list is `Kept`, a recursive function over its prefixes.

`WaiterLists` - what Atomics.wait, waitAsync and notify promise.  It has no lists, queues
or tasks, only who waits where and who waits longer than whom; a notify is asked, wakes
at one moment those who have waited longest, and wakes neither more than its count nor
fewer while somebody else waits.  An exception is stated, not hidden: an orphan is an
asynchronous waiter whose memory is gone, and a notify that clears one away may wake
fewer.  `WokenInOrder` in `Futex` is an instance of it: the place of a node is its
location (WaitsAt), one waits longer than another that is behind it on a list (Earlier;
what a list holds of woken threads is left out), and Notified are the nodes a notify has
counted, from the critical section of Wake until the wait returns or the promise is
resolved.

`BackingStore` - one store, from the retries of its reservation to its destructor.  A
step is what a thread does between two accesses to `byte_length_` or two calls of the
page allocator, each of which may fail.  `MemoryLength` is what it promises of the
length: the comment on GrowWasmMemoryInPlace says the result "appears like the result
of an RMW-update on {byte_length_}", and `LengthIsLinear` is exactly that, an
instance of `MemoryLength` with the length as its refinement mapping.

`SharedMemories` - many stores at few addresses: the registry, its mutex, the
isolates' lists, the broadcast by interrupt, the purge, and the destructor in its
three steps (unregister, remove the shadow, free the pages), so that an address can be
used again in between.

`WorkerThread` - the page's thread, workers and nested workers, each with a queue of
tasks and the position in the task it runs.  A step is a critical section of `lock_`
or the posting of a task.

`Messages` - EXTENDS `WebTSan`: the worker and its owner are two of its slots, and
each call of postMessage, each delivery and each lifecycle step takes the detector's
action with it in the same step; accesses of both ends run in between.

Liftoff is a compiler, and its model is one: a handler takes the compiler's state to
the next one, appending instructions of an abstract machine.

| Module | Handlers |
|---|---|
| `LiftoffAssembler` (external) | the cache state: values in registers, constants and slots, use counts, merges |
| `LiftoffNumeric` | constants, locals, arithmetic, conversions; null constants |
| `LiftoffMemory` | globals, bounds checks, loads, stores, atomics, bulk memory, tracing |
| `LiftoffControl` | blocks, loops, branches, fused compares, out-of-line code, tier-up checks |
| `LiftoffObjects` | structs, arrays, i31, null checks |
| `LiftoffCasts` | ref.test, ref.cast and the branches on them, down the list of supertypes |
| `LiftoffObjectAtomics` | atomic fields and elements, wait queues |
| `LiftoffTables` | tables and their index, which saturates |
| `LiftoffStrings` | strings and their views |
| `LiftoffCalls` | direct, indirect and reference calls, tail calls, feedback slots |
| `LiftoffCompiler` | which handler an instruction calls |
| `LiftoffDecoder` (external) | the validating decoder that calls the handlers, one instruction a step |

Each handler module EXTENDS the one before.  `WasmMachine` runs the code; `WasmSemantics` is
the reference interpreter, with the Wasm specification's own definitions for what
Liftoff compiles to checks, several instructions or C functions.  Both stand on what is
not Liftoff's: `WasmNumerics` (the C functions and the specification's operators side by
side), `WasmObjects` (heap, types, tables, the builtins for them), `WasmFunctions`
(signatures, dispatch tables, callees) and, for the interpreter, `WasmReferences`.

`TierUp` - the flags, their implications in any order, and the budget checks.

`MC*` - instances for TLC.  Theorems, with the module each is about: `WebTSanProofs`
(`WebTSan` and `Messages`), `AtomicsHooksProofs`, `RaceReportsProofs`, `FutexProofs`,
`BackingStoreProofs`, `SharedMemoriesProofs`, `WorkerThreadProofs`, `TierUpProofs`.

## 3. Runs

| Run (cfg) | Checks | Bounds |
|---|---|---|
| all_operations (MCWebTSan) | TypeOK, NoFalseRace, ClocksNeverGoBack | 2 slots, epoch 2, 1 byte of 1 cell, 1 edge |
| disciplined (MCDisciplined) | NoMissedRace, EpochsUnseen, ClocksAreTheOrder | 2 slots reused, 2 bytes of 1 cell, 1 address, epoch 2, a range past the end |
| atomics (MCAtomics) | SettledIsPublished, HandOffIsOrdered | 2 threads, 2 locations, all hooked operations |
| reports (MCReports) | SiteHasOneReport, GuardsMatchFrames | 2 threads, 4 sources, 2 buffers whose sites share a key, reporter comes back |
| futex (MCFutex) | TypeOK, OwnedByOneList, NoDanglingNode, CountedIsWoken, WokenIsOrdered, DueWaitEnds, WokenInOrder | 2 threads, 1 location, 1 node of waitAsync, 1 interrupt, 1 reuse |
| backing_store (MCBackingStore) | TypeOK, LengthIsCommitted, TailIsZero, NothingLeaked, LengthIsLinear | 2 threads, 4 pages of 2 bytes, 5 with guards |
| shared_memories (MCSharedMemories) | TypeOK, RegisterSucceeds, ShadowOfItsStore, NobodyGoneIsListed, MutexIsReleased, GrownIsSeen | 2 isolates, 2 stores, 1 address, 2 lengths |
| worker_thread (MCWorkerThread) | TypeOK, PerformedOnce, NothingAfterShutdown, SlotWhileScript, TerminationEnds | page, worker, nested worker, 1 script each |
| messages (MCMessages) | EdgeWaits, OrderedByMessages, HandledInOrder, MessagesArrive | 2 slots, 2 messages, 1 byte |
| liftoff (MCLiftoff) | UseCountsMatch, CompiledIsSpecified, TracedIsAccessed | 262 families of functions, i32 of 4 bits, 2 to 6 registers |

The bounds are those at which the cases happen that the properties are about: a slot
is used again with two slots, eviction needs as many threads as cells, a byte loop
needs two bytes, messages received out of order need two edges, one tick tells an
epoch from the next; the smallest maximum of which AllocateWasmMemory tries smaller
ones is four pages, and a page of two bytes has a length that is no whole page; an
address that is used again needs two stores and one address, a purge that races a
broadcast two isolates; the last child's report that races a termination needs a
nested worker.  Four bits are two bytes of two bits, so partial accesses, byte
orders and every edge of a signed number occur, and the machine can be run on every
input.

`all_operations` stops (CONSTRAINT) where a live thread has lost its slot, of which
nothing is claimed, and where a message and another clock, of a sync address or of a
thread that is gone, would both be under way; it leaves `finished` and `retired`,
which `Spec` does not read, out of the fingerprint (VIEW).  `atomics` takes it that
converting an argument writes no shared memory (`ConversionWrites`); with TRUE,
Atomics.exchange, which releases before it converts, does not publish those writes.
The types of `AtomicsHooks` and `RaceReports` are not among the properties of their
runs: they are proved.
Deadlock is checked in `reports`, where a thread can always go on, and not in the others:
the bounds on epochs, stores and messages end behaviours, and the programs modelled may
stop.

**Fairness.**  Safety properties assume none.  Each liveness property assumes only
that threads go on with what they have begun and that event loops get to the tasks
posted to them, which the platform's schedulers do; nothing is assumed of the program
(no thread has to wait, notify, send, close or terminate).

- `futex`: weak fairness of a thread that is signalled, timed out or in the middle of
  a call, strong fairness of the two tasks of the event loop, which other work may
  delay.  DueWaitEnds is about waits that were notified, timed out or interrupted.
- `shared_memories`: strong fairness of an isolate in the middle of an operation,
  because the registry's mutex is a lock others may take again and again, and of the
  interrupt, which every loop back edge looks for.
- `worker_thread`: weak fairness of each thread's next step and of the tasks it takes,
  of the end of a script that is interrupted (not of one that is not: it may run for
  ever) and of the delayed forcible termination.  TerminationEnds leaves out a worker
  whose owner is itself in a script or frozen, since the report of its end is a task.
- `messages`: weak fairness of a running access, strong fairness of the event loops.
  MessagesArrive is about receivers that live.

### Where the code and what it says of itself differ

Two runs expect a violation of what a comment or document states.

1. `message_missed` - postMessage does not tick the sender's clock
   (`web_tsan.cc:461`), so a write after the send is taken for ordered.  ThreadCreate
   with a parent (`:207`) has the same gap: SPECIFICATION ChildrenSpec, MaxEdges = 0.
2. `tier_up` - "When wasm_tsan is enabled, disable tier-up so all WASM code stays in
   Liftoff" (`flag-definitions.h:2000`), but the implication leaves
   `wasm_dynamic_tiering` on, which is what Liftoff looks at (`liftoff-compiler.cc:1145`).

Further differences were met while modelling.  Those with a configuration can be seen
with TLC; the others were read off the code.

- With 64 live threads ThreadCreate hands out a live slot; the CHECK_LT beside it
  cannot fire (`web_tsan.cc:193-199`; TooManyThreadsIsCaught in `WebTSan`).
- Atomics.load acquires before it loads, a Wasm atomic store publishes after it has
  stored: a reader between hook and instruction misses the order (a false race where
  the atomic is what orders two accesses).
- Atomics.add, sub, and, or, xor and 64-bit Atomics.store have no hook
  (`builtins-sharedarraybuffer-gen.cc:776`).
- Not every race is reported, although "the full stream of races" is what two comments
  want kept (`runtime-test-wasm.cc:842`, `runtime-tsan.cc:38`).  The samples of one bulk
  operation overwrite each other's pending report (`wasm-external-refs.cc:754`), as do
  accesses inside a flush; the key of a reported site is an exclusive or, shared by sites
  of two buffers, and outlives its buffer (`web_tsan.cc:303-308`), so a race at another
  site of the key is silent.  In `RaceReports` a report that is overwritten is one in
  `settled`, and SiteHasOneReport allows it for exactly those no reporter follows; that
  a race at a silenced key is reported is claimed by no property.
- Of ranges of 65 to 127 bytes the first 64 are sampled, not "evenly spaced" ones
  (`wasm-external-refs.cc:731`); TracedIsAccessed asks for as many different bytes of
  the range, wherever they are.
- memory.init writes the memory without telling the detector (`:769-789`).  The machine
  records the write, and TracedIsAccessed states it as its one exception.
- A message that is dropped, and one through a port, leaves its edge in `hb_edges_` for
  ever; the model keeps it too, and no property bounds them.
- The shadow keeps the length of the first access, so what a memory has grown by has
  no cells (`web_tsan.cc:512`; `ShadowCoversMemory` in `SharedMemories`).
- A MessagePort's edge id is lost in mojo's serialisation (`Messages` models the port
  without it).
- `g_in_race_report`, which the comment at `web_tsan_hooks.h:35` says is set while
  console.error runs, is set nowhere; a report of one path is re-entered by another.
- f32.load_f16 overwrites the register of the index before it is traced; on ia32 the
  64-bit compare-exchange traces a register that holds no index.
- "Retrieve the next node to iterate before calling NotifyAsyncWaiter"
  (`futex-emulation.cc:723`): the branch that clears a waiter whose memory is gone reads
  `next_` afterwards (`:766`), when it has been reset, so the notify ends there and those
  behind sleep on.  This is the exception in `WaiterLists`.
- A wait that timed out acquires a clock although nobody woke it; waitAsync that finds
  another value acquires none.

## 4. Proofs

Assumptions: `MaxThreadsAssumption` (at least one slot), `ShadowAssumption` (at
least one cell per byte and one byte; ranges begin inside the buffer and are not
empty, as the instrumented code's bounds check and the size test of the callbacks
ensure; the bounds are naturals), `BackingStoreAssumption` (a page and a maximum
are not empty, a guarded reservation holds the maximum), `OpsAssumption` (there is a
location; the program's operations are among those of the code), `ReportAssumption`
(buffers are addresses and lengths, keys are naturals), `SharedMemoriesAssumption`
(finitely many isolates, none of them called None), `FutexAssumption` (threads and
asynchronous nodes, finitely many, have different names) and `ParentAssumption` (a
worker's owner is another thread).  Everything else is arbitrary: slots, cells, bytes,
addresses, locations, nodes, edges, threads, isolates, stores, workers, sizes.  TLC evaluates the assumptions in the runs.

- `WebTSanProofs!TypeCorrect`: `Spec => [](TypeOK /\ CursorInBuffer)`;
  `ClocksMonotone`: `Spec => ClocksNeverGoBack`.
- `WebTSanProofs!NoFalseAlarm`: `Spec => []NoFalseRace`.  NoFalseRace speaks
  only of the snapshots of running accesses and is not inductive: the next snapshot
  is taken from a thread clock, which came from an address or an edge.  `SoundInv`
  says of *every* clock that it has reached the epoch of each access that happens
  before its holder, and that a thread in a call is live and its own epoch has not
  fallen below its snapshot's.  Joins and ticks keep it because they only raise
  clocks; RecordByte, which adds an access to a history, needs the second part.
- `WebTSanProofs!NoRaceMissed` and `NoEpochSeen`: `DisciplinedSpec =>
  []NoMissedRace` and `[]EpochsUnseen`.  `CompleteInv` has four parts: `BoundInv`
  (no clock but a thread's own has reached its current epoch, nor, for a slot that
  is finished or free, one more than its last), `CallInv` (only running threads are
  in a call, and their epoch stands still meanwhile), `HistoryExact` (a clock has
  reached the epoch of *no* cell outside its holder's history) and `OwnCells` (a
  thread's accesses happen before it and, once it is gone, before every later owner
  of its slot).  Releasing needs the tick and slot reuse needs the orphan join:
  without either `BoundInv` breaks; finding 1 names two more places where it would.
- `WebTSanProofs!ClocksAreOrder`, the refinement `DisciplinedSpec => ClocksAreTheOrder`.
  `ExactInv` joins the two inductive invariants above and says that no live thread has
  lost its slot, which a disciplined program keeps.  Where it holds, NoFalseRace and
  NoMissedRace make the test of RecordAccess the one of `RaceDetector`
  (`RacesAreUnordered`), so a step needs to be shown only for the rest of the state:
  thread operations and synchronisation map to the actions of the same name, TakeSnapshot
  to Begin, RecordByte to Record, ClearByte and RemoveShadow to Clear; MemoryAccess and
  ClearShadow, which only look the shadow up, are stutters (`Unseen`).  That RecordByte
  ends an access exactly where Record does is where the equality of the races is used.
- `WebTSanProofs!EdgesWait`, `MessagesOrder` and `MessagesInOrder`: `MessagesSpec =>
  []EdgeWaits`, `[]OrderedByMessages` and `HandledInOrder`.  EdgeWaits counts messages and
  says nothing of their order, and HandledInOrder needs the queues in order; both follow
  from `MessagesInv`: edges are handed out in increasing order (`QueuesInv`: every queue
  is sorted by them, every edge of a queue is in hb_edges_, and what is on its way is
  younger than what its side has handled) and a message waits for the script only while
  nothing has been posted (`EarlyTasks`), so posting what has waited puts it before all
  others.  Every step but the handling of a port's message is a step of `[Next]_vars` for
  the detector (`DetectorStep`), so `SoundInv` holds until the first of those and
  OrderedByMessages follows as NoFalseRace does.
- `BackingStoreProofs`: `CommittedLength`, `ZeroTail`, `NoLeak`, `TypeCorrect` and the
  refinement `Linear` (`Spec => LengthIsLinear`).  A grow keeps the length it will
  store in its own variables while others grow, and an allocation its list of sizes:
  `GrowInv` says that what a grow holds is between the old length and the capacity and
  is committed once its permissions are set, `RequestInv` that every maximum still to
  be tried has room for the length and that an allocation is alone.  The lemmas on
  whole pages (rounding up, order, division) carry the arithmetic.  For `Linear`, the
  steps that return from a call, and those that make or free a store, map to steps of
  `MemoryLength`; all others stutter.
- `AtomicsHooksProofs`: `HandOffOrdered` and `HookedIsPublished`.  Both need to know
  where in its operation each thread is, so `TypeInv` lists what can be left of one
  (`Left`), and that a component of a clock is nowhere ahead of its owner's.
  HandOffIsOrdered says that a reader's clock covers what it has seen when it is done;
  `HandOffInv` says what holds before that: the clock of a location covers whatever is
  ordered before its value, the store has already put it there before the value
  (`StoreIsCovered`), and a reader between its load and its hook finds it at the
  location (`SeenIsCovered`).  `PublishInv` is the other order: a maker of a value has
  published what it wrote, or it is between its Wasm store and the hook.  Its theorem
  assumes `Hooked`, which leaves out exactly the operations without a hook (Atomics.add
  and its kin, Atomics.store of 64 bits) and, if converting an argument can write, those
  that release before they convert; the run `atomics` is an instance.
- `RaceReportsProofs`: `OneReport`, `GuardsMatch` and `TypeCorrect`.  For `OneReport` the
  inductive invariant `Inv` says where the one report of each silenced key is
  (`Reports`), that none is lost (`NoneLost`) and, because a report is made in one step
  and taken in another, that an attended pending report has its reporter still to come
  (`Waiting`), also while other threads publish and console.error comes back.  It says
  nothing of races met at keys that are silenced already.  The frames are unbounded: `DepthOfCall`
  and `DepthOfReturn` say that a call and its return change the frames of one reporter by
  the innermost one.
- `FutexProofs`: `OneOwner`, `NothingDangles`, `CountedWakes`, `WokenAfterNotify`, from
  one inductive invariant, because each of them is broken by what another one forbids.
  `ListInv`: what is on a location's list waits there, or is a thread that has been
  woken and has not returned; every waiting node is on the list of its location, once.
  `QueueInv`: what waits no longer is in exactly one of the two queues of its isolate,
  and a queue that is not empty has its task.  `TimeInv`: a timeout task is one of a
  node that exists, and only a waiting node has a timeout.  `CountInv`: what a notify has
  counted waits no longer, and the clock of its location has reached the epoch of that
  notify, also while the waiter handles interrupts with the lock released.  A list keeps
  what is not taken out, in which order does not matter to any of these: `KeptNodes`.
- `FutexProofs!WokenFirst`, the refinement `Spec => WokenInOrder`, where the order does
  matter.  What leaves a list leaves the order of the others (`KeptOrder`,
  `WithoutOrder`) and a new node comes behind all of them (`AppendOrder`), so a step that
  takes a set of nodes out is one of Remove (`TakesRemoves`), also when one of them is a
  woken thread in the middle of its list.  `StoreInv` adds that no node is of a memory
  that is yet to come.  The loop of Wake is the hard step (`WakeCounts`): Reached is
  defined by what lies before a position, the promise by how many were woken.  Everybody
  woken has fewer than count waiters before it, so the last one shows that not more than
  count were (`CountReached`); and if a waiter was left out without an orphan being
  cleared, the first of those left out has count woken ones before it.
- `SharedMemoriesProofs`: `RegisterFindsNoOther`, `ShadowIsOfItsStore`,
  `GoneIsNeverListed`.  `OneStoreAtAnAddress` is what they are about; that the
  destructor keeps it needs `DestroyedOnce` (it runs once, for a store nobody refers to,
  and what it has passed is undone), that Register keeps it needs
  `PrivateUntilRegistered`, and an access in progress `WorksOnItsOwn`.  For the isolates
  that end, `PurgesUnderLock` and `PurgedIsUnlisted` follow Purge through the registry:
  an entry is passed or still to come, and what it keeps alive stays registered.
- `WorkerThreadProofs`: `ShutdownOnce`, `NothingComesAfter`, `SlotForScripts`.  None is
  inductive, since the decision falls in one place and its effect in another: Terminate
  reads the children under the lock of the worker, the shutdown it posts runs much later
  on the worker's thread, and tasks of freezing and resuming come in between.  `Shuts`
  ties the termination progress to the queue: "perform" is in it or done exactly when the
  progress is Performing, once and last, with the preparation before it unless that has
  already begun; `Asks` says how far an owner in the middle of Terminate has got, so that
  nobody posts to a worker that performs its shutdown; `Told`, that a report of an end is
  true.  `Starts` is the other end of the queue, the initialization that comes first and
  lets nothing run before the worker has its slot; with `OwnerRuns` it keeps an owner's
  steps away from one that is not initialized.  `OwnsSlot` needs that the preparation ends
  a nested event loop: without that a script would wait in it after the slot is gone.
- `TierUpProofs!StaysWithLiftoffOnly`: with `liftoff_only` or
  `disable_optimizing_compilers` no function leaves Liftoff.  It is the counterpart of
  finding 2: these flags imply the end of dynamic tiering, which wasm_tsan does not.

**How.**  The prover has no induction over data, and the lists of `Futex` need it: that
the recursion of `Kept` has a solution, which nodes it keeps and in which order.  These lemmas go
through sets instead: the lengths for which the claim fails have a least one (`Least`,
from the library's theorem that < is well founded), and the recursive equation refutes it.

Only model-checked:

- liveness under fairness, which is out of the prover's reach: DueWaitEnds,
  MutexIsReleased, GrownIsSeen, TerminationEnds and MessagesArrive;
- Liftoff, whose machine and interpreter are recursive operators.

With messages NoMissedRace does not hold, so there is nothing to prove (finding 1).

## 5. What is abstracted or left out

- One buffer per run of `WebTSan`, of constant length; pages and stripes are one
  array, since a byte's cells are only touched under its stripe lock.
- The outcome of evicting a cell: a race with an access that was evicted is not
  found, by design (2 cells per byte), and no property claims it.
- In `WebTSan` RemoveShadow happens when no access is running; `SharedMemories` is
  about when that is so.  Calls come from live slots.
- Counters, logging, report texts, `race_callback_` (never set), `Reset` and
  `Disable` (never called), Runtime_WebTSanRecordRead and RecordWrite (never called:
  plain typed-array accesses are not instrumented, although `docs/HOW_IT_WORKS.md`
  lists them).
- Suppression: an access under it is one that is not made.  Its counter, and the swap
  of tids in a pool of pthreads, are driven by a libc outside the repository.
- A reader's unlock publishes nothing, in the code and therefore in the histories.
- Futexes: the words' values (the expected one or not), queues of managed objects, the
  testing helpers.
- Backing store: embedders' allocators, wrapped and empty stores,
  MakeWasmMemoryResizableByJS; a failed call that succeeds after a garbage collection
  is a call that succeeds.
- Messages: serialisation, transferred objects, errors, shared workers.
- Workers: threads that do not own their backing thread (IsOwningBackingThread() false,
  `worker_thread.cc:656`, `:874`).
- Liftoff: a 64-bit platform with compressed pointers, one class of registers, one
  memory and one data segment; memory sizes are read from the instance, not cached;
  trace_wasm_memory is off, and no_bounds_checks, a flag for
  testing (`liftoff-compiler.cc:3734`), too.  Negative zero is not told from zero.  What a callee, a
  string builtin or a table builtin does is left open: it is known by its name and its
  arguments, its results and its effect on the memory depend on those, and the code and
  the interpreter must make the same calls in the same order.  A string builtin that
  reads or writes memory is not traced, and the model does not trace it.
- Liftoff, left out: deoptimisation and the set-up of prototypes around a call,
  exceptions, stack switching (which Liftoff refuses), shared types and custom
  descriptors, the debugger's side tables, and of SIMD everything that does not access
  memory, which is one machine instruction for each Wasm instruction.  One of these was
  seen to go wrong while reading: `f16x8.replace_lane` takes its replacement as an i32
  (`EmitSimdReplaceLaneOp<kI32>`) although it is an f32.
- `render_process_host_impl.cc`, `render_thread_impl.cc`, `runtime.h`, most of
  `flag-definitions.h` and of `runtime-test-wasm.cc` are Chromium's and V8's own
  process management, tables and testing functions, in the repository because the
  patch adds a few lines to each.  They never call the detector and keep no state it
  depends on.

## 6. Plan

Done: the modules above.  Next, in this order:

1. `ShadowBuffer`: pages on demand, stripes and their locks, implementing the cell
   array of `WebTSan` by refinement; the order of all locks.
2. Liftoff: exceptions, whose landing pads merge into the state of a catch block, and
   deoptimisation points.
