------------------------------- MODULE WebTSan -------------------------------
(***************************************************************************)
(* The race detector of web_tsan.cc: the singleton WebTSan with its vector *)
(* clocks, thread slots, sync-address clocks, postMessage edges and the    *)
(* shadow of one SharedArrayBuffer.                                        *)
(*                                                                         *)
(* Each action is one critical section of the code.  Everything but a      *)
(* memory access and a shadow clear runs entirely under thread_lock_ (and  *)
(* the lock nested in it), so it is one action; those two take other locks *)
(* for the lookup of the shadow, for the copy of the thread's clock and    *)
(* for each byte, so each of these is an action of its own, and the other  *)
(* threads run in between.                                                 *)
(*                                                                         *)
(* The state is that of a renderer started with --enable-web-tsan:         *)
(* enabled_ is set before the first thread exists, and neither Disable nor *)
(* Reset has a caller, so the early returns on !enabled_ are not taken.    *)
(*                                                                         *)
(* History variables (suffix _hb) keep the happens-before relation the     *)
(* clocks stand for, without any clock: of each thread, sync address,      *)
(* edge, snapshot and of the orphan clock, the shadow cells whose recorded *)
(* access happens before it.  They are never read by an action's guard.    *)
(***************************************************************************)
EXTENDS VClocks

CONSTANTS
  kShadowCellsPerByte,  \* shadow cells of one SAB byte (2 in web_tsan.h)
  ByteLength,           \* byte_length_ of the SAB's shadow buffer
  SyncAddr,             \* keys of sync_clocks_: atomics and mutex addresses
  Ranges,               \* the <<offset, size>> of accesses and clears
  MaxEpoch,             \* bound: a thread ticks its clock up to this epoch
  MaxEdges              \* bound: postMessage edges handed out

ASSUME ShadowAssumption ==
  /\ kShadowCellsPerByte \in Nat \ {0}
  /\ ByteLength \in Nat \ {0}
  /\ Ranges \subseteq (0 .. ByteLength - 1) \X (Nat \ {0})
  /\ MaxEpoch \in Nat
  /\ MaxEdges \in Nat

VARIABLES
  thread_clocks,  \* thread_clocks_
  thread_alive,   \* thread_alive_, as the set of slots that are true
  next_tid,       \* next_tid_
  orphan_clock,   \* orphan_clock_
  sync_clocks,    \* sync_clocks_; an address with no entry has ZeroClock
  hb_edges,       \* the clocks of hb_edges_
  edges,          \* the ids present in hb_edges_
  next_edge_id,   \* next_edge_id_
  shadow,         \* the cells of the ShadowBuffer
  pc,             \* what each logical thread is executing
  call,           \* the access or clear it executes: byte cursor, end, kind
  snapshot,       \* clock_snapshot of MemoryAccess
  thread_hb, orphan_hb, sync_hb, edge_hb, snap_hb,     \* history
  finished,       \* history: threads that have called ThreadFinish
  retired,        \* history: threads whose OS thread went over to another
  robbed          \* history: live threads whose slot was given away

slotVars == <<thread_alive, next_tid, finished, retired, robbed>>
syncVars == <<sync_clocks, sync_hb>>
edgeVars == <<hb_edges, edges, next_edge_id, edge_hb>>
orphanVars == <<orphan_clock, orphan_hb>>
callVars == <<pc, call, snapshot, snap_hb>>
vars == <<thread_clocks, thread_hb, slotVars, syncVars, edgeVars, orphanVars,
          shadow, callVars>>

NoTid == kMaxThreads                \* UINT32_MAX: no logical thread
Byte == 0 .. ByteLength - 1
Slot == 0 .. kShadowCellsPerByte - 1
Cell == Byte \X Slot
EdgeId == 1 .. MaxEdges

\* kind merges the fields valid and is_write: "none" is an invalid cell.
ShadowCell == [tid : Tid, epoch : Nat, kind : {"none", "read", "write"}]
EmptyCell == [tid |-> 0, epoch |-> 0, kind |-> "none"]

Call == [byte : Nat, end : Nat, kind : {"read", "write"}]
NoCall == [byte |-> 0, end |-> 0, kind |-> "read"]

(* Every variable keeps its type under every operation of web_tsan.cc: in  *)
(* particular next_tid_ stays a slot and every copied clock stays a clock. *)
TypeOK ==
  /\ thread_clocks \in [Tid -> VClock]
  /\ thread_alive \subseteq Tid
  /\ next_tid \in Tid
  /\ orphan_clock \in VClock
  /\ sync_clocks \in [SyncAddr -> VClock]
  /\ hb_edges \in [EdgeId -> VClock]
  /\ edges \subseteq EdgeId
  /\ next_edge_id \in 1 .. MaxEdges + 1
  /\ shadow \in [Cell -> ShadowCell]
  /\ pc \in [Tid -> {"idle", "lookup", "access", "clear"}]
  /\ call \in [Tid -> Call]
  /\ snapshot \in [Tid -> VClock]
  /\ thread_hb \in [Tid -> SUBSET Cell]
  /\ orphan_hb \subseteq Cell
  /\ sync_hb \in [SyncAddr -> SUBSET Cell]
  /\ edge_hb \in [EdgeId -> SUBSET Cell]
  /\ snap_hb \in [Tid -> SUBSET Cell]
  /\ finished \subseteq Tid
  /\ retired \subseteq Tid
  /\ robbed \subseteq Tid

\* The state InitializeWebTSan leaves: the main thread has slot 0.
Init ==
  /\ thread_clocks = [t \in Tid |-> IF t = 0 THEN Increment(ZeroClock, 0)
                                             ELSE ZeroClock]
  /\ thread_alive = {0}
  /\ next_tid = 1 % kMaxThreads
  /\ orphan_clock = ZeroClock
  /\ sync_clocks = [a \in SyncAddr |-> ZeroClock]
  /\ hb_edges = [i \in EdgeId |-> ZeroClock]
  /\ edges = {}
  /\ next_edge_id = 1
  /\ shadow = [x \in Cell |-> EmptyCell]
  /\ pc = [t \in Tid |-> "idle"]
  /\ call = [t \in Tid |-> NoCall]
  /\ snapshot = [t \in Tid |-> ZeroClock]
  /\ thread_hb = [t \in Tid |-> {}]
  /\ orphan_hb = {}
  /\ sync_hb = [a \in SyncAddr |-> {}]
  /\ edge_hb = [i \in EdgeId |-> {}]
  /\ snap_hb = [t \in Tid |-> {}]
  /\ finished = {}
  /\ retired = {}
  /\ robbed = {}

\* A call into the detector comes from a live thread that is in no other.
Idle(t) == t \in thread_alive /\ pc[t] = "idle"

-----------------------------------------------------------------------------
(* Thread lifecycle.                                                       *)

\* Probes of the allocation loop before it looks at slot u.
Probes(u) == IF u >= next_tid THEN u - next_tid
                              ELSE u + kMaxThreads - next_tid

\* The slot the loop settles on: the first free one from next_tid on, and
\* next_tid itself when none is free.
Allocated(tid) ==
  IF thread_alive = Tid
  THEN tid = next_tid
  ELSE /\ tid \in Tid \ thread_alive
       /\ \A u \in Tid \ thread_alive : Probes(tid) <= Probes(u)

\* next_tid_ wraps around.
NextTidUnwrapped(tid) == tid + 1            \* mutant: the wrap is forgotten
NextTid(tid) == (tid + 1) % kMaxThreads

\* The clock of a new thread: what it inherits, joined with the clocks of the
\* threads that are gone, and ticked.
BirthClockNoOrphan(clock, tid) == Increment(clock, tid)     \* mutant
BirthClock(clock, tid) == Increment(Join(clock, orphan_clock), tid)

\* A live parent (the new thread's own slot is live by now) passes on its clock.
Inherited(parent, tid) ==
  IF parent \in thread_alive \cup {tid} THEN thread_clocks[parent] ELSE ZeroClock
InheritedHb(parent, tid) ==
  IF parent \in thread_alive \cup {tid} THEN thread_hb[parent] ELSE {}

\* The CHECK_LT in ThreadCreate never fires, because next_tid < kMaxThreads.
StartThread(parent, tid) ==
  /\ Allocated(tid)
  /\ Inherited(parent, tid)[tid] < MaxEpoch /\ orphan_clock[tid] < MaxEpoch
  /\ thread_alive' = thread_alive \cup {tid}
  /\ next_tid' = NextTid(tid)
  /\ thread_clocks' = [thread_clocks EXCEPT
                         ![tid] = BirthClock(Inherited(parent, tid), tid)]
  /\ thread_hb' = [thread_hb EXCEPT ![tid] = InheritedHb(parent, tid) \cup orphan_hb]
  /\ finished' = finished \ {tid}
  /\ retired' = retired \ {tid}
  /\ robbed' = robbed \cup (thread_alive \cap {tid})
  /\ UNCHANGED <<syncVars, edgeVars, orphanVars, shadow, callVars>>

ThreadCreate(parent) == \E tid \in Tid : StartThread(parent, tid)

\* The final clock goes to the orphan clock and to every live thread.
ThreadFinish(t) ==
  /\ Idle(t)
  /\ orphan_clock' = Join(orphan_clock, thread_clocks[t])
  /\ orphan_hb' = orphan_hb \cup thread_hb[t]
  /\ thread_clocks' = [u \in Tid |-> IF u # t /\ u \in thread_alive
                                     THEN Join(thread_clocks[u], thread_clocks[t])
                                     ELSE thread_clocks[u]]
  /\ thread_hb' = [u \in Tid |-> IF u # t /\ u \in thread_alive
                                 THEN thread_hb[u] \cup thread_hb[t]
                                 ELSE thread_hb[u]]
  /\ finished' = finished \cup {t}
  /\ UNCHANGED <<thread_alive, next_tid, retired, robbed, syncVars, edgeVars,
                 shadow, callVars>>

ThreadDestroy(t) ==
  /\ Idle(t)
  /\ orphan_clock' = Join(orphan_clock, thread_clocks[t])
  /\ orphan_hb' = orphan_hb \cup thread_hb[t]
  /\ thread_alive' = thread_alive \ {t}
  /\ UNCHANGED <<thread_clocks, thread_hb, next_tid, finished, retired, robbed,
                 syncVars, edgeVars, shadow, callVars>>

\* The clock of thread dst joins clock c; h is what happens before c.
OverwriteWith(dst, c, h) ==           \* mutant: an assignment for the join
  /\ thread_clocks' = [thread_clocks EXCEPT ![dst] = c]
  /\ thread_hb' = [thread_hb EXCEPT ![dst] = @ \cup h]
JoinInto(dst, c, h) ==
  /\ thread_clocks' = [thread_clocks EXCEPT ![dst] = Join(@, c)]
  /\ thread_hb' = [thread_hb EXCEPT ![dst] = @ \cup h]

\* ThreadDetach changes nothing.
ThreadJoin(joiner, child) ==
  /\ Idle(joiner) /\ Idle(child) /\ joiner # child
  /\ JoinInto(joiner, thread_clocks[child], thread_hb[child])
  /\ thread_alive' = thread_alive \ {child}
  /\ UNCHANGED <<next_tid, finished, retired, robbed, syncVars, edgeVars,
                 orphanVars, shadow, callVars>>

\* Called by src when its OS thread goes over to the logical thread dst.
ThreadAbsorb(dst, src) ==
  /\ Idle(src) /\ Idle(dst) /\ dst # src
  /\ JoinInto(dst, thread_clocks[src], thread_hb[src])
  /\ retired' = retired \cup {src}
  /\ UNCHANGED <<thread_alive, next_tid, finished, robbed, syncVars, edgeVars,
                 orphanVars, shadow, callVars>>

-----------------------------------------------------------------------------
(* Acquire / release on a sync address: Atomics operations and mutexes.    *)
(* An atomic read-modify-write (OnAtomicsRMW) is Acquire and then Release, *)
(* two critical sections between which other threads run.                  *)

Acquire(t, a) ==
  /\ Idle(t)
  /\ JoinInto(t, sync_clocks[a], sync_hb[a])
  /\ UNCHANGED <<slotVars, syncVars, edgeVars, orphanVars, shadow, callVars>>

\* Publishes the thread's clock at the address, then ticks it.
PublishNoTick(t, a) ==                \* mutant: the tick is forgotten
  /\ sync_clocks' = [sync_clocks EXCEPT ![a] = Join(@, thread_clocks[t])]
  /\ UNCHANGED thread_clocks
Publish(t, a) ==
  /\ sync_clocks' = [sync_clocks EXCEPT ![a] = Join(@, thread_clocks[t])]
  /\ thread_clocks' = [thread_clocks EXCEPT ![t] = Increment(@, t)]

Release(t, a) ==
  /\ Idle(t)
  /\ thread_clocks[t][t] < MaxEpoch
  /\ Publish(t, a)
  /\ sync_hb' = [sync_hb EXCEPT ![a] = @ \cup thread_hb[t]]
  /\ UNCHANGED <<thread_hb, slotVars, edgeVars, orphanVars, shadow, callVars>>

\* MutexCreate and MutexDestroy: the address forgets its clock.
Forget(a) ==
  /\ sync_clocks' = [sync_clocks EXCEPT ![a] = ZeroClock]
  /\ sync_hb' = [sync_hb EXCEPT ![a] = {}]
  /\ UNCHANGED <<thread_clocks, thread_hb, slotVars, edgeVars, orphanVars, shadow,
                 callVars>>

MutexCreate(a) == Forget(a)
MutexDestroy(a) == Forget(a)

\* MutexPreLock and MutexReadUnlock have an empty body.
MutexPostLock(t, a) == Acquire(t, a)
MutexReadLock(t, a) == Acquire(t, a)
MutexUnlock(t, a) == Release(t, a)

-----------------------------------------------------------------------------
(* postMessage edges.                                                      *)

\* The sender's clock is stored under a fresh id; the clock does not tick.
HappensBefore(sender) ==
  /\ Idle(sender)
  /\ next_edge_id <= MaxEdges
  /\ hb_edges' = [hb_edges EXCEPT ![next_edge_id] = thread_clocks[sender]]
  /\ edge_hb' = [edge_hb EXCEPT ![next_edge_id] = thread_hb[sender]]
  /\ edges' = edges \cup {next_edge_id}
  /\ next_edge_id' = next_edge_id + 1
  /\ UNCHANGED <<thread_clocks, thread_hb, slotVars, syncVars, orphanVars, shadow,
                 callVars>>

\* The message reaches its receiver: the edge is joined and erased.
HappensAfterWithoutJoin(receiver, id) ==          \* mutant: erased, not joined
  /\ Idle(receiver)
  /\ id \in edges
  /\ thread_hb' = [thread_hb EXCEPT ![receiver] = @ \cup edge_hb[id]]
  /\ edges' = edges \ {id}
  /\ hb_edges' = [hb_edges EXCEPT ![id] = ZeroClock]
  /\ edge_hb' = [edge_hb EXCEPT ![id] = {}]
  /\ UNCHANGED <<thread_clocks, next_edge_id, slotVars, syncVars, orphanVars, shadow,
                 callVars>>
HappensAfter(receiver, id) ==
  /\ Idle(receiver)
  /\ id \in edges
  /\ JoinInto(receiver, hb_edges[id], edge_hb[id])
  /\ edges' = edges \ {id}
  /\ hb_edges' = [hb_edges EXCEPT ![id] = ZeroClock]
  /\ edge_hb' = [edge_hb EXCEPT ![id] = {}]
  /\ UNCHANGED <<next_edge_id, slotVars, syncVars, orphanVars, shadow, callVars>>

-----------------------------------------------------------------------------
(* Memory accesses and the shadow.                                         *)

\* The bytes of a range that the shadow buffer has cells for.
RangeEndUnclamped(range) == range[1] + range[2]       \* mutant: no clamp
RangeEnd(range) == IF range[1] + range[2] < ByteLength THEN range[1] + range[2]
                                                       ELSE ByteLength

\* shadow_lock_ is free: no ClearShadow is running.
ShadowUnlocked == \A t \in Tid : pc[t] # "clear"

\* MemoryAccess finds the shadow under shadow_lock_; every cell of a new one is
\* empty, so creating it changes nothing here.
MemoryAccess(t, range, kind) ==
  /\ Idle(t)
  /\ ShadowUnlocked
  /\ pc' = [pc EXCEPT ![t] = "lookup"]
  /\ call' = [call EXCEPT ![t] = [byte |-> range[1], end |-> RangeEnd(range),
                                  kind |-> kind]]
  /\ UNCHANGED <<thread_clocks, thread_hb, slotVars, syncVars, edgeVars, orphanVars,
                 shadow, snapshot, snap_hb>>

\* Then it copies the thread's clock, under thread_lock_.
TakeSnapshot(t) ==
  /\ pc[t] = "lookup"
  /\ pc' = [pc EXCEPT ![t] = "access"]
  /\ snapshot' = [snapshot EXCEPT ![t] = thread_clocks[t]]
  /\ snap_hb' = [snap_hb EXCEPT ![t] = thread_hb[t]]
  /\ UNCHANGED <<thread_clocks, thread_hb, slotVars, syncVars, edgeVars, orphanVars,
                 shadow, call>>

\* Cell x holds an access of another thread that conflicts with t's call.
Conflicts(t, x) ==
  /\ shadow[x].kind # "none"
  /\ shadow[x].tid # t
  /\ shadow[x].kind = "write" \/ call[t].kind = "write"

\* The cells of the byte under t's cursor that pass RecordAccess's test; the
\* first of them goes into the report.
Races(t) ==
  {x \in {call[t].byte} \X Slot :
     Conflicts(t, x) /\ snapshot[t][shadow[x].tid] < shadow[x].epoch}

\* t's call ends behind the last byte, or if done; its cursor moves on if not.
Ends(t, done) == done \/ call[t].byte + 1 = call[t].end
Advance(t, done) ==
  IF Ends(t, done)
  THEN /\ pc' = [pc EXCEPT ![t] = "idle"]
       /\ call' = [call EXCEPT ![t] = NoCall]
  ELSE /\ call' = [call EXCEPT ![t].byte = @ + 1]
       /\ UNCHANGED pc

\* One iteration of RecordAccess, under the byte's stripe lock.
RecordByte(t) ==
  LET x == <<call[t].byte, t % kShadowCellsPerByte>>
      race == Races(t) # {}
  IN
  /\ pc[t] = "access"
  /\ shadow' = [shadow EXCEPT ![x] = [tid |-> t, epoch |-> snapshot[t][t],
                                      kind |-> call[t].kind]]
  /\ Advance(t, race)
  /\ snapshot' = [snapshot EXCEPT ![t] = IF Ends(t, race) THEN ZeroClock ELSE @]
  /\ thread_hb' = [u \in Tid |-> IF u = t THEN thread_hb[u] \cup {x}
                                          ELSE thread_hb[u] \ {x}]
  /\ snap_hb' = [u \in Tid |-> IF u = t /\ Ends(t, race) THEN {}
                                                         ELSE snap_hb[u] \ {x}]
  /\ orphan_hb' = orphan_hb \ {x}
  /\ sync_hb' = [a \in SyncAddr |-> sync_hb[a] \ {x}]
  /\ edge_hb' = [i \in EdgeId |-> edge_hb[i] \ {x}]
  /\ UNCHANGED <<thread_clocks, slotVars, sync_clocks, hb_edges, edges,
                 next_edge_id, orphan_clock>>

\* The buffer's destructor: nobody can be using it any more.
RemoveShadow ==
  /\ \A t \in Tid : pc[t] = "idle"
  /\ shadow' = [x \in Cell |-> EmptyCell]
  /\ UNCHANGED <<thread_clocks, thread_hb, slotVars, syncVars, edgeVars, orphanVars,
                 callVars>>

\* ClearShadow holds shadow_lock_ from here until ClearRange has returned.
ClearShadow(t, range) ==
  /\ Idle(t)
  /\ ShadowUnlocked
  /\ pc' = [pc EXCEPT ![t] = "clear"]
  /\ call' = [call EXCEPT ![t] = [byte |-> range[1], end |-> RangeEnd(range),
                                  kind |-> "write"]]
  /\ UNCHANGED <<thread_clocks, thread_hb, slotVars, syncVars, edgeVars, orphanVars,
                 shadow, snapshot, snap_hb>>

\* One iteration of ClearRange, under the byte's stripe lock.
ClearByte(t) ==
  /\ pc[t] = "clear"
  /\ shadow' = [x \in Cell |-> IF x[1] = call[t].byte THEN EmptyCell ELSE shadow[x]]
  /\ Advance(t, FALSE)
  /\ UNCHANGED <<thread_clocks, thread_hb, slotVars, syncVars, edgeVars, orphanVars,
                 snapshot, snap_hb>>

-----------------------------------------------------------------------------
(* Atomics, mutexes and memory: what every program uses, by threads of T.  *)
SyncNext(T) ==
  \/ \E t \in T, a \in SyncAddr :
       \/ Acquire(t, a) \/ Release(t, a)
       \/ MutexPostLock(t, a) \/ MutexReadLock(t, a) \/ MutexUnlock(t, a)
  \/ \E a \in SyncAddr : MutexCreate(a) \/ MutexDestroy(a)
  \/ \E t \in T, range \in Ranges :
       \/ \E kind \in {"read", "write"} : MemoryAccess(t, range, kind)
       \/ ClearShadow(t, range)
  \/ \E t \in T : TakeSnapshot(t) \/ RecordByte(t) \/ ClearByte(t)
  \/ RemoveShadow

\* Every operation, called in every order.
Next ==
  \/ SyncNext(Tid)
  \/ \E parent \in {t \in Tid : Idle(t)} \cup {NoTid} : ThreadCreate(parent)
  \/ \E t \in Tid : ThreadFinish(t) \/ ThreadDestroy(t) \/ HappensBefore(t)
  \/ \E t, u \in Tid : ThreadJoin(t, u) \/ ThreadAbsorb(t, u)
  \/ \E t \in Tid, id \in EdgeId : HappensAfter(t, id)

Spec == Init /\ [][Next]_vars

(* The operations used as the browser's own worker code uses them, without *)
(* the two that hand out a clock and do not tick it (postMessage edges and *)
(* children of a parent): a worker starts while a slot is free, nothing    *)
(* runs as a thread that has finished or was left, and only a finished     *)
(* thread is joined.                                                       *)
Running == thread_alive \ (finished \cup retired)

DisciplinedNext ==
  \/ SyncNext(Running)
  \/ thread_alive # Tid /\ ThreadCreate(NoTid)
  \/ \E t \in Running : ThreadFinish(t)
  \/ \E t \in thread_alive : ThreadDestroy(t)
  \/ \E t \in Running, u \in finished : ThreadJoin(t, u)
  \/ \E t, u \in Running : ThreadAbsorb(t, u)

DisciplinedSpec == Init /\ [][DisciplinedNext]_vars

-----------------------------------------------------------------------------
(* Correctness.                                                            *)

(* The loops of RecordAccess and ClearRange stay inside the shadow buffer, *)
(* whatever range the caller passes and however many steps of the others   *)
(* come between two bytes: the clamp to byte_length_.                      *)
CursorInBuffer ==
  \A t \in Tid : pc[t] # "idle" =>
    /\ call[t].byte \in Byte
    /\ call[t].byte < call[t].end
    /\ call[t].end <= ByteLength

(* No false alarm: an access never reports a cell whose access happens     *)
(* before it, however the operations interleave with its byte loop, as     *)
(* long as no live thread lost its slot (RecordAccess, web_tsan.cc).       *)
NoFalseRace ==
  robbed = {} => \A t \in Tid : pc[t] = "access" => Races(t) \cap snap_hb[t] = {}

(* No missed race among the cells that are kept: every conflicting cell of *)
(* the byte whose access does not happen before the call passes the test   *)
(* of RecordAccess, so the call reports a race if there is one.            *)
NoMissedRace ==
  \A t \in Tid : pc[t] = "access" =>
    \A x \in {call[t].byte} \X Slot :
       /\ shadow[x].kind # "none"
       /\ shadow[x].tid # t
       /\ "write" \in {shadow[x].kind, call[t].kind}
       /\ x \notin snap_hb[t]
       => x \in Races(t)

(* A thread's current epoch is its own secret: no other thread, sync       *)
(* address, orphan clock or snapshot has reached it.  It is what makes a   *)
(* later write of the thread, or of the next owner of its slot, unordered  *)
(* with everybody who has not synchronised since (the tick in Release and  *)
(* the orphan join in ThreadCreate).                                       *)
EpochsUnseen ==
  \A u \in Running :
    LET now == thread_clocks[u][u] IN
    /\ orphan_clock[u] < now
    /\ \A t \in Tid \ {u} : thread_clocks[t][u] < now
    /\ \A a \in SyncAddr : sync_clocks[a][u] < now
    /\ \A t \in Tid \ {u} : pc[t] = "access" => snapshot[t][u] < now

(* A live thread's clock never goes back (VClock::Join, Increment): what   *)
(* it has synchronised with stays ordered before it, whatever the other    *)
(* threads do, unless its slot is given away.                              *)
ClocksNeverGoBack ==
  [][\A t \in thread_alive \ robbed' : Leq(thread_clocks[t], thread_clocks'[t])]_vars

(* ThreadCreate says CHECK_LT(tid, kMaxThreads) << "too many concurrent    *)
(* threads": more than kMaxThreads threads are caught, and no live thread  *)
(* loses its slot.                                                         *)
TooManyThreadsIsCaught == robbed = {}

\* The state of the detector, without its clocks, in the terms of RaceDetector.
Status == [t \in Tid |-> IF t \notin thread_alive THEN "free"
                         ELSE IF t \in finished THEN "finished"
                         ELSE IF t \in retired THEN "left"
                         ELSE "running"]
KeptCells == [x \in Cell |-> [tid |-> shadow[x].tid, kind |-> shadow[x].kind]]
RunningAccess ==
  [t \in Tid |-> IF pc[t] = "access"
                 THEN [byte |-> call[t].byte, end |-> call[t].end,
                       kind |-> call[t].kind, before |-> snap_hb[t]]
                 ELSE [byte |-> 0, end |-> 0, kind |-> "none", before |-> {}]]
RacesFound == [t \in Tid |-> IF pc[t] = "access" THEN Races(t) ELSE {}]

(* The clocks stand for the order: to a disciplined program the detector   *)
(* behaves as one that knows what happens before what and compares no      *)
(* clock.  At each byte of an access the cells that pass RecordAccess's    *)
(* test are those with a conflicting access that does not happen before it,*)
(* and the access stops at the first byte that has one.                    *)
Order == INSTANCE RaceDetector
  WITH status <- Status, cells <- KeptCells, known <- thread_hb, orphans <- orphan_hb,
       published <- sync_hb, access <- RunningAccess, races <- RacesFound
ClocksAreTheOrder == Order!Spec

-----------------------------------------------------------------------------
(* Inductive strengthening of NoFalseRace.                                 *)

\* Clock c has reached the epoch of every valid cell of the set h.
Covers(cells, c, h) ==
  \A x \in h : cells[x].kind # "none" => cells[x].epoch <= c[cells[x].tid]

\* Every clock covers the accesses that happen before its holder.
HistoryCovered ==
  /\ \A t \in Tid : Covers(shadow, thread_clocks[t], thread_hb[t])
  /\ Covers(shadow, orphan_clock, orphan_hb)
  /\ \A a \in SyncAddr : Covers(shadow, sync_clocks[a], sync_hb[a])
  /\ \A i \in EdgeId : Covers(shadow, hb_edges[i], edge_hb[i])
  /\ \A t \in Tid : Covers(shadow, snapshot[t], snap_hb[t])

\* A thread in a call is live, and its clock has not gone back since.
CallsCurrent ==
  \A t \in Tid :
    /\ pc[t] # "idle" => t \in thread_alive
    /\ pc[t] = "access" => snapshot[t][t] <= thread_clocks[t][t]

SoundInv == robbed = {} => HistoryCovered /\ CallsCurrent

-----------------------------------------------------------------------------
(* Inductive strengthening of NoMissedRace and EpochsUnseen, for the       *)
(* disciplined program.                                                    *)

\* Every clock but u's own is below Bound[u] in u's component.
Bound == [u \in Tid |->
            IF u \in Running THEN thread_clocks[u][u]
            ELSE IF u \in thread_alive THEN thread_clocks[u][u] + 1
            ELSE orphan_clock[u] + 1]

Below(c, bound, S) == \A u \in S : c[u] < bound[u]

BoundInv ==
  /\ Below(orphan_clock, Bound, Tid)
  /\ \A t \in Tid : Below(thread_clocks[t], Bound, Tid \ {t})
  /\ \A a \in SyncAddr : Below(sync_clocks[a], Bound, Tid)
  /\ \A t \in Tid : pc[t] = "access" => Below(snapshot[t], Bound, Tid \ {t})

\* Only running threads are in a call; their own epoch stands still in it;
\* the orphan clock has the last epoch of a finished thread.
CallInv ==
  /\ \A t \in Tid : pc[t] # "idle" => t \in Running
  /\ \A t \in Tid : pc[t] = "access" => snapshot[t][t] = thread_clocks[t][t]
  /\ \A t \in finished \cap thread_alive : thread_clocks[t][t] <= orphan_clock[t]

\* Clock c has not reached the epoch of any valid cell outside h.
Distinguishes(cells, c, h, S) ==
  \A x \in Cell \ h : cells[x].kind # "none" /\ cells[x].tid \in S
                      => c[cells[x].tid] < cells[x].epoch

HistoryExact ==
  /\ \A t \in Tid : Distinguishes(shadow, thread_clocks[t], thread_hb[t], Tid)
  /\ Distinguishes(shadow, orphan_clock, orphan_hb, Tid)
  /\ \A a \in SyncAddr : Distinguishes(shadow, sync_clocks[a], sync_hb[a], Tid)
  /\ \A t \in Tid : pc[t] = "access" =>
       Distinguishes(shadow, snapshot[t], snap_hb[t], Tid \ {t})

\* A thread's own accesses happen before it, and before every later owner of
\* its slot once it is finished or gone.
OwnCells ==
  \A x \in Cell : shadow[x].kind # "none" =>
    /\ shadow[x].epoch > 0
    /\ shadow[x].tid \in thread_alive => x \in thread_hb[shadow[x].tid]
    /\ shadow[x].tid \notin thread_alive \ finished => x \in orphan_hb

CompleteInv == BoundInv /\ CallInv /\ HistoryExact /\ OwnCells

=============================================================================
