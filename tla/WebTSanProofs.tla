---------------------------- MODULE WebTSanProofs ----------------------------
(***************************************************************************)
(* Theorems about the detector of WebTSan.tla, for every number of         *)
(* threads, cells, bytes, sync addresses, ranges and edges, that it        *)
(* implements RaceDetector.tla, and about the messages of Messages.tla,    *)
(* which runs on it.                                                       *)
(***************************************************************************)
EXTENDS Messages, FiniteSetTheorems, TLAPS

-----------------------------------------------------------------------------
(* Vector clocks.                                                          *)

(* VClock::Join, VClock::Increment and the constructor give vector clocks. *)
LEMMA ClockTypes ==
  /\ ZeroClock \in VClock
  /\ \A c \in VClock, t \in Tid : Increment(c, t) \in VClock
  /\ \A c, d \in VClock : Join(c, d) \in VClock
BY DEF ZeroClock, VClock, Increment, Join

(* VClock::Join is an upper bound of both clocks, component by component,  *)
(* and in each component one of the two.                                   *)
LEMMA JoinBounds ==
  ASSUME NEW c \in VClock, NEW d \in VClock, NEW u \in Tid
  PROVE  /\ c[u] \in Nat /\ d[u] \in Nat
         /\ c[u] <= Join(c, d)[u] /\ d[u] <= Join(c, d)[u]
         /\ Join(c, d)[u] = c[u] \/ Join(c, d)[u] = d[u]
BY DEF VClock, Join

(* VClock::Increment moves one component, by one.                          *)
LEMMA IncrementBounds ==
  ASSUME NEW c \in VClock, NEW t \in Tid, NEW u \in Tid
  PROVE  Increment(c, t)[u] = IF u = t THEN c[u] + 1 ELSE c[u]
BY DEF VClock, Increment

(* A wrapped thread id is a thread id, and an access has a cell of its own *)
(* in every byte: next_tid_ and evict_slot stay in range.                  *)
LEMMA SlotTypes ==
  /\ \A t \in Tid : NextTid(t) \in Tid
  /\ 0 \in Tid /\ 1 % kMaxThreads \in Tid
  /\ \A t \in Tid : t % kShadowCellsPerByte \in Slot
BY MaxThreadsAssumption, ShadowAssumption DEF Tid, NextTid, Slot

-----------------------------------------------------------------------------
(* Type correctness.                                                       *)

TypeInv == TypeOK /\ CursorInBuffer

(* A call that starts covers at least one byte of the buffer.              *)
LEMMA RangeBounds ==
  ASSUME NEW range \in Ranges
  PROVE  /\ range[1] \in Byte
         /\ RangeEnd(range) \in Nat
         /\ range[1] < RangeEnd(range)
         /\ RangeEnd(range) <= ByteLength
BY ShadowAssumption DEF RangeEnd, Byte

(* The cell an access takes in the byte under its cursor.                  *)
LEMMA CursorCell ==
  ASSUME TypeInv, NEW t \in Tid, pc[t] # "idle"
  PROVE  <<call[t].byte, t % kShadowCellsPerByte>> \in Cell
BY SlotTypes DEF TypeInv, CursorInBuffer, Cell

(* InitializeWebTSan leaves a well-typed state.                            *)
LEMMA InitType == Init => TypeInv
<1> SUFFICES ASSUME Init PROVE TypeInv
  OBVIOUS
<1>1. TypeOK
  BY ClockTypes, SlotTypes, ShadowAssumption
  DEF Init, TypeOK, NoCall, Call, EmptyCell, ShadowCell
<1>2. CursorInBuffer
  BY DEF Init, CursorInBuffer
<1> QED BY <1>1, <1>2 DEF TypeInv

(* The cursor of a call that moves on, or ends.                            *)
LEMMA AdvanceType ==
  ASSUME TypeInv, NEW t \in Tid, pc[t] # "idle", NEW done, Advance(t, done)
  PROVE  /\ pc' \in [Tid -> {"idle", "lookup", "access", "clear"}]
         /\ call' \in [Tid -> Call]
         /\ CursorInBuffer'
<1> USE DEF TypeInv, TypeOK, CursorInBuffer
<1>1. CASE Ends(t, done)
  <2>1. /\ pc' = [pc EXCEPT ![t] = "idle"]
        /\ call' = [call EXCEPT ![t] = NoCall]
    BY <1>1 DEF Advance
  <2>2. NoCall \in Call
    BY DEF NoCall, Call
  <2>3. \A u \in Tid : pc'[u] # "idle" => pc[u] # "idle" /\ call'[u] = call[u]
    BY <2>1
  <2>4. CursorInBuffer'
    BY <2>3
  <2> QED BY <2>1, <2>2, <2>4
<1>2. CASE ~ Ends(t, done)
  <2>1. /\ pc' = pc
        /\ call' = [call EXCEPT ![t].byte = @ + 1]
    BY <1>2 DEF Advance
  <2>2. call[t].byte + 1 # call[t].end /\ call[t].byte + 1 \in Nat
    BY <1>2 DEF Ends, Call
  <2>3. /\ call' \in [Tid -> Call]
        /\ call'[t].byte = call[t].byte + 1 /\ call'[t].end = call[t].end
        /\ \A u \in Tid \ {t} : call'[u] = call[u]
    BY <2>1, <2>2 DEF Call
  <2>4. CursorInBuffer'
    <3> SUFFICES ASSUME NEW u \in Tid, pc'[u] # "idle"
                 PROVE  /\ call'[u].byte \in Byte
                        /\ call'[u].byte < call'[u].end
                        /\ call'[u].end <= ByteLength
      OBVIOUS
    <3>1. CASE u = t
      <4>1. /\ call[t].byte \in Nat /\ call[t].end \in Nat
            /\ call[t].byte < call[t].end /\ call[t].end <= ByteLength
        BY DEF Call
      <4> QED BY <4>1, <3>1, <2>2, <2>3, ShadowAssumption DEF Byte
    <3>2. CASE u # t
      BY <3>2, <2>1, <2>3
    <3> QED BY <3>1, <3>2
  <2> QED BY <2>1, <2>3, <2>4
<1> QED BY <1>1, <1>2

(* One step of any operation, by any thread, keeps the state well typed    *)
(* and every cursor inside the buffer.                                     *)
LEMMA StepType == TypeInv /\ [Next]_vars => TypeInv'
<1> SUFFICES ASSUME TypeInv, [Next]_vars PROVE TypeInv'
  OBVIOUS
<1> USE DEF TypeInv, TypeOK, CursorInBuffer, Idle
<1>1. CASE UNCHANGED vars
  BY <1>1 DEF vars, slotVars, syncVars, edgeVars, orphanVars, callVars, Races, Conflicts
<1>2. ASSUME NEW parent \in Tid \cup {NoTid}, ThreadCreate(parent) PROVE TypeInv'
  <2>1. PICK tid \in Tid : StartThread(parent, tid)
    BY <1>2 DEF ThreadCreate
  <2>2. Inherited(parent, tid) \in VClock /\ InheritedHb(parent, tid) \subseteq Cell
    BY ClockTypes DEF Inherited, InheritedHb
  <2>3. BirthClock(Inherited(parent, tid), tid) \in VClock
    BY <2>2, ClockTypes DEF BirthClock
  <2> QED
    BY <2>1, <2>2, <2>3, SlotTypes
    DEF StartThread, syncVars, edgeVars, orphanVars, callVars
<1>3. ASSUME NEW t \in Tid, ThreadFinish(t) PROVE TypeInv'
  BY <1>3, ClockTypes DEF ThreadFinish, syncVars, edgeVars, callVars
<1>4. ASSUME NEW t \in Tid, ThreadDestroy(t) PROVE TypeInv'
  BY <1>4, ClockTypes DEF ThreadDestroy, syncVars, edgeVars, callVars
<1>5. ASSUME NEW t \in Tid, NEW u \in Tid, ThreadJoin(t, u) PROVE TypeInv'
  BY <1>5, ClockTypes
  DEF ThreadJoin, JoinInto, syncVars, edgeVars, orphanVars, callVars
<1>6. ASSUME NEW t \in Tid, NEW u \in Tid, ThreadAbsorb(t, u) PROVE TypeInv'
  BY <1>6, ClockTypes
  DEF ThreadAbsorb, JoinInto, syncVars, edgeVars, orphanVars, callVars
<1>7. ASSUME NEW t \in Tid, NEW a \in SyncAddr, Acquire(t, a) PROVE TypeInv'
  BY <1>7, ClockTypes
  DEF Acquire, JoinInto, slotVars, syncVars, edgeVars, orphanVars, callVars
<1>8. ASSUME NEW t \in Tid, NEW a \in SyncAddr, Release(t, a) PROVE TypeInv'
  BY <1>8, ClockTypes
  DEF Release, Publish, slotVars, edgeVars, orphanVars, callVars
<1>9. ASSUME NEW a \in SyncAddr, Forget(a) PROVE TypeInv'
  BY <1>9, ClockTypes DEF Forget, slotVars, edgeVars, orphanVars, callVars
<1>10. ASSUME NEW t \in Tid, HappensBefore(t) PROVE TypeInv'
  BY <1>10, ClockTypes, ShadowAssumption
  DEF HappensBefore, EdgeId, slotVars, syncVars, orphanVars, callVars
<1>11. ASSUME NEW t \in Tid, NEW id \in EdgeId, HappensAfter(t, id) PROVE TypeInv'
  BY <1>11, ClockTypes
  DEF HappensAfter, JoinInto, slotVars, syncVars, orphanVars, callVars
<1>12. ASSUME NEW t \in Tid, NEW range \in Ranges, NEW kind \in {"read", "write"},
              MemoryAccess(t, range, kind)
       PROVE  TypeInv'
  BY <1>12, RangeBounds
  DEF MemoryAccess, Call, Byte, slotVars, syncVars, edgeVars, orphanVars
<1>s. ASSUME NEW t \in Tid, TakeSnapshot(t) PROVE TypeInv'
  BY <1>s DEF TakeSnapshot, slotVars, syncVars, edgeVars, orphanVars
<1>13. ASSUME NEW t \in Tid, RecordByte(t) PROVE TypeInv'
  <2> DEFINE x == <<call[t].byte, t % kShadowCellsPerByte>>
  <2>1. x \in Cell
    BY <1>13, CursorCell DEF RecordByte
  <2>2. [tid |-> t, epoch |-> snapshot[t][t], kind |-> call[t].kind] \in ShadowCell
    BY DEF ShadowCell, Call, VClock
  <2>3. shadow' \in [Cell -> ShadowCell]
    BY <1>13, <2>1, <2>2 DEF RecordByte
  <2>4. /\ thread_hb' \in [Tid -> SUBSET Cell] /\ snap_hb' \in [Tid -> SUBSET Cell]
        /\ orphan_hb' \subseteq Cell /\ sync_hb' \in [SyncAddr -> SUBSET Cell]
        /\ edge_hb' \in [EdgeId -> SUBSET Cell]
    BY <1>13, <2>1 DEF RecordByte
  <2>5. /\ pc' \in [Tid -> {"idle", "lookup", "access", "clear"}] /\ call' \in [Tid -> Call]
        /\ CursorInBuffer'
    BY <1>13, AdvanceType DEF RecordByte
  <2>6. snapshot' \in [Tid -> VClock]
    BY <1>13, ClockTypes DEF RecordByte
  <2> QED BY <1>13, <2>3, <2>4, <2>5, <2>6 DEF RecordByte, slotVars
<1>14. CASE RemoveShadow
  BY <1>14, SlotTypes DEF RemoveShadow, EmptyCell, ShadowCell, slotVars, syncVars, edgeVars,
               orphanVars, callVars
<1>15. ASSUME NEW t \in Tid, NEW range \in Ranges, ClearShadow(t, range)
       PROVE  TypeInv'
  BY <1>15, RangeBounds
  DEF ClearShadow, Call, Byte, slotVars, syncVars, edgeVars, orphanVars
<1>16. ASSUME NEW t \in Tid, ClearByte(t) PROVE TypeInv'
  <2>1. shadow' \in [Cell -> ShadowCell]
    BY <1>16, SlotTypes DEF ClearByte, EmptyCell, ShadowCell
  <2>2. /\ pc' \in [Tid -> {"idle", "lookup", "access", "clear"}] /\ call' \in [Tid -> Call]
        /\ CursorInBuffer'
    BY <1>16, AdvanceType DEF ClearByte
  <2> QED BY <1>16, <2>1, <2>2 DEF ClearByte, slotVars, syncVars, edgeVars, orphanVars
<1> QED
  BY <1>1, <1>2, <1>3, <1>4, <1>5, <1>6, <1>7, <1>8, <1>9, <1>10, <1>11, <1>12,
     <1>s, <1>13, <1>14, <1>15, <1>16
  DEF Next, SyncNext, MutexCreate, MutexDestroy, MutexPostLock, MutexReadLock,
      MutexUnlock

(* Every reachable state of the detector is well typed, and RecordAccess   *)
(* and ClearRange never leave the shadow buffer.                           *)
THEOREM TypeCorrect == Spec => [](TypeOK /\ CursorInBuffer)
<1>1. Spec => []TypeInv
  BY InitType, StepType, PTL DEF Spec
<1>2. TypeInv => TypeOK /\ CursorInBuffer
  BY DEF TypeInv
<1> QED BY <1>1, <1>2, PTL

(* A clock is below itself, below its join with another and below its tick.*)
LEMMA LeqGrows ==
  ASSUME NEW c \in VClock, NEW d \in VClock, NEW t \in Tid
  PROVE  Leq(c, c) /\ Leq(c, Join(c, d)) /\ Leq(c, Increment(c, t))
<1>1. ASSUME NEW u \in Tid
      PROVE  /\ ~ (c[u] > c[u]) /\ ~ (c[u] > Join(c, d)[u])
             /\ ~ (c[u] > Increment(c, t)[u])
  <2>1. c[u] \in Nat /\ d[u] \in Nat
    BY DEF VClock
  <2> QED BY <2>1 DEF Join, Increment, VClock
<1>2. Leq(c, c)
  BY <1>1 DEF Leq
<1>3. Leq(c, Join(c, d))
  BY <1>1, Zenon DEF Leq
<1>4. Leq(c, Increment(c, t))
  BY <1>1, Zenon DEF Leq
<1> QED BY <1>2, <1>3, <1>4

(* A step in which every clock of a slot that stays stays, joins or ticks. *)
LEMMA GrowingClocks ==
  ASSUME TypeInv,
         \A t \in thread_alive \ robbed' :
            \/ thread_clocks'[t] = thread_clocks[t]
            \/ \E d \in VClock : thread_clocks'[t] = Join(thread_clocks[t], d)
            \/ thread_clocks'[t] = Increment(thread_clocks[t], t)
  PROVE  \A t \in thread_alive \ robbed' : Leq(thread_clocks[t], thread_clocks'[t])
<1> SUFFICES ASSUME NEW t \in thread_alive \ robbed'
             PROVE  Leq(thread_clocks[t], thread_clocks'[t])
  OBVIOUS
<1>1. t \in Tid /\ thread_clocks[t] \in VClock
  BY DEF TypeInv, TypeOK
<1>2. CASE thread_clocks'[t] = thread_clocks[t]
  BY <1>1, <1>2, LeqGrows
<1>3. CASE \E d \in VClock : thread_clocks'[t] = Join(thread_clocks[t], d)
  BY <1>1, <1>3, LeqGrows
<1>4. CASE thread_clocks'[t] = Increment(thread_clocks[t], t)
  BY <1>1, <1>4, LeqGrows
<1> QED BY <1>2, <1>3, <1>4

(* No step takes back what a live thread's clock has reached: Join and     *)
(* Increment are all that happens to it, and ThreadCreate overwrites only  *)
(* the clock of a slot it allocates.                                       *)
THEOREM ClocksMonotone == Spec => ClocksNeverGoBack
<1> DEFINE Grows == \A t \in thread_alive \ robbed' :
                      Leq(thread_clocks[t], thread_clocks'[t])
<1>1. TypeInv /\ [Next]_vars => [Grows]_vars
  <2> SUFFICES ASSUME TypeInv, Next PROVE Grows
    OBVIOUS
  <2> USE DEF TypeInv, TypeOK
  <2>1. CASE UNCHANGED thread_clocks
    BY <2>1, GrowingClocks
  <2>2. ASSUME NEW parent, ThreadCreate(parent) PROVE Grows
    <3>1. PICK tid \in Tid : StartThread(parent, tid)
      BY <2>2 DEF ThreadCreate
    <3>2. \A t \in thread_alive \ robbed' : thread_clocks'[t] = thread_clocks[t]
      BY <3>1 DEF StartThread
    <3> QED BY <3>2, GrowingClocks
  <2>3. ASSUME NEW t \in Tid, ThreadFinish(t) PROVE Grows
    BY <2>3, GrowingClocks DEF ThreadFinish
  <2>4. ASSUME NEW t \in Tid, NEW c \in VClock, NEW h, JoinInto(t, c, h) PROVE Grows
    BY <2>4, GrowingClocks DEF JoinInto
  <2>5. ASSUME NEW t \in Tid, NEW u \in Tid, ThreadJoin(t, u) \/ ThreadAbsorb(t, u)
        PROVE  Grows
    BY <2>4, <2>5 DEF ThreadJoin, ThreadAbsorb
  <2>6. ASSUME NEW t \in Tid, NEW a \in SyncAddr, Acquire(t, a) PROVE Grows
    BY <2>4, <2>6 DEF Acquire
  <2>7. ASSUME NEW t \in Tid, NEW a \in SyncAddr, Release(t, a) PROVE Grows
    BY <2>7, GrowingClocks DEF Release, Publish
  <2>8. ASSUME NEW t \in Tid, NEW id \in EdgeId, HappensAfter(t, id) PROVE Grows
    BY <2>4, <2>8 DEF HappensAfter
  <2>9. ASSUME NEW t \in Tid,
               \/ ThreadDestroy(t) \/ HappensBefore(t)
               \/ TakeSnapshot(t) \/ RecordByte(t) \/ ClearByte(t)
        PROVE  UNCHANGED thread_clocks
    BY <2>9 DEF ThreadDestroy, HappensBefore, TakeSnapshot, RecordByte, ClearByte
  <2>10. ASSUME NEW t \in Tid, NEW range \in Ranges,
                \/ \E kind \in {"read", "write"} : MemoryAccess(t, range, kind)
                \/ ClearShadow(t, range)
         PROVE  UNCHANGED thread_clocks
    BY <2>10 DEF MemoryAccess, ClearShadow
  <2>11. ASSUME RemoveShadow \/ \E a \in SyncAddr : Forget(a)
         PROVE  UNCHANGED thread_clocks
    BY <2>11 DEF RemoveShadow, Forget
  <2> HIDE DEF Grows
  <2> QED
    BY <2>1, <2>2, <2>3, <2>5, <2>6, <2>7, <2>8, <2>9, <2>10, <2>11
    DEF Next, SyncNext, MutexCreate, MutexDestroy, MutexPostLock, MutexReadLock,
        MutexUnlock
<1> QED BY InitType, StepType, <1>1, PTL DEF Spec, ClocksNeverGoBack

-----------------------------------------------------------------------------
(* No false alarm: in every behaviour of Spec in which no live thread      *)
(* loses its slot, RecordAccess reports no access that happens before the  *)
(* current one.                                                            *)
(*                                                                         *)
(* NoFalseRace speaks of the snapshot of one running access.  It follows   *)
(* from SoundInv, which says the same of every clock the detector keeps: a *)
(* clock has reached the epoch of each access that happens before its      *)
(* holder.  Joins and ticks only raise clocks, so every operation keeps    *)
(* it; the one step that adds an epoch, RecordByte, takes it from the      *)
(* snapshot, and needs that the thread's own clock has not gone back.      *)

(* A join covers what both clocks covered (VClock::Join).                  *)
LEMMA CoversJoin ==
  ASSUME NEW s \in [Cell -> ShadowCell], NEW c \in VClock, NEW d \in VClock,
         NEW g \in SUBSET Cell, NEW h \in SUBSET Cell,
         Covers(s, c, g), Covers(s, d, h)
  PROVE  Covers(s, Join(c, d), g \cup h)
<1> SUFFICES ASSUME NEW x \in g \cup h, s[x].kind # "none"
             PROVE  s[x].epoch <= Join(c, d)[s[x].tid]
  BY DEF Covers
<1>1. s[x].tid \in Tid /\ s[x].epoch \in Nat
  BY DEF ShadowCell
<1>2. s[x].epoch <= c[s[x].tid] \/ s[x].epoch <= d[s[x].tid]
  BY DEF Covers
<1>3. Join(c, d)[s[x].tid] \in Nat
  BY <1>1, ClockTypes DEF VClock
<1> QED BY <1>1, <1>2, <1>3, JoinBounds

(* A tick covers what the clock covered (VClock::Increment).               *)
LEMMA CoversIncrement ==
  ASSUME NEW s \in [Cell -> ShadowCell], NEW c \in VClock, NEW t \in Tid,
         NEW h \in SUBSET Cell, Covers(s, c, h)
  PROVE  Covers(s, Increment(c, t), h)
<1> SUFFICES ASSUME NEW x \in h, s[x].kind # "none"
             PROVE  s[x].epoch <= Increment(c, t)[s[x].tid]
  BY DEF Covers
<1>1. s[x].tid \in Tid /\ s[x].epoch \in Nat /\ c[s[x].tid] \in Nat
  BY DEF ShadowCell, VClock
<1>2. s[x].epoch <= c[s[x].tid]
  BY DEF Covers
<1> QED BY <1>1, <1>2, IncrementBounds

(* Overwriting a cell, or clearing cells, takes nothing from what a clock  *)
(* covers of the others.                                                   *)
LEMMA CoversFewer ==
  ASSUME NEW s, NEW r, NEW c, NEW g, NEW h, h \subseteq g,
         \A x \in h : r[x] = s[x] \/ r[x].kind = "none",
         Covers(s, c, g)
  PROVE  Covers(r, c, h)
BY DEF Covers

(* Nothing happens before an empty history.                                *)
LEMMA CoversNothing == \A s, c : Covers(s, c, {})
BY DEF Covers

-----------------------------------------------------------------------------
(* The initial state and the steps.                                        *)

LEMMA InitSound == Init => SoundInv
<1> SUFFICES ASSUME Init PROVE HistoryCovered /\ CallsCurrent
  BY DEF SoundInv
<1>1. HistoryCovered
  BY CoversNothing DEF Init, HistoryCovered
<1>2. CallsCurrent
  BY DEF Init, CallsCurrent
<1> QED BY <1>1, <1>2

(* A thread's clock joins a clock that covers its history: what ThreadJoin,*)
(* ThreadAbsorb, Acquire and HappensAfter do.                              *)
LEMMA JoinIntoSound ==
  ASSUME TypeInv, HistoryCovered, CallsCurrent,
         NEW dst \in Tid, NEW c \in VClock, NEW h \in SUBSET Cell,
         Covers(shadow, c, h), JoinInto(dst, c, h),
         UNCHANGED <<shadow, callVars>>
  PROVE  /\ \A t \in Tid : Covers(shadow', thread_clocks'[t], thread_hb'[t])
         /\ \A t \in Tid : Covers(shadow', snapshot'[t], snap_hb'[t])
         /\ \A t \in Tid : pc'[t] = "access" => snapshot'[t][t] <= thread_clocks'[t][t]
<1> USE DEF TypeInv, TypeOK
<1>1. /\ thread_clocks'[dst] = Join(thread_clocks[dst], c)
      /\ thread_hb'[dst] = thread_hb[dst] \cup h
      /\ \A t \in Tid \ {dst} : /\ thread_clocks'[t] = thread_clocks[t]
                                /\ thread_hb'[t] = thread_hb[t]
      /\ shadow' = shadow /\ pc' = pc /\ snapshot' = snapshot /\ snap_hb' = snap_hb
  BY DEF JoinInto, callVars
<1>2. Covers(shadow, Join(thread_clocks[dst], c), thread_hb[dst] \cup h)
  BY CoversJoin DEF HistoryCovered
<1>3. \A t \in Tid : Covers(shadow', thread_clocks'[t], thread_hb'[t])
  BY <1>1, <1>2 DEF HistoryCovered
<1>4. \A t \in Tid : Covers(shadow', snapshot'[t], snap_hb'[t])
  BY <1>1 DEF HistoryCovered
<1>5. ASSUME NEW t \in Tid, pc'[t] = "access"
      PROVE  snapshot'[t][t] <= thread_clocks'[t][t]
  <2>1. snapshot[t][t] <= thread_clocks[t][t] /\ snapshot[t][t] \in Nat
    BY <1>1, <1>5 DEF CallsCurrent, VClock
  <2>2. CASE t = dst
    <3>1. /\ thread_clocks[t][t] \in Nat /\ Join(thread_clocks[dst], c)[t] \in Nat
          /\ thread_clocks[t][t] <= Join(thread_clocks[dst], c)[t]
      BY <2>2, JoinBounds, ClockTypes DEF VClock
    <3> QED BY <1>1, <2>1, <2>2, <3>1
  <2>3. CASE t # dst
    BY <1>1, <2>1, <2>3
  <2> QED BY <2>2, <2>3
<1> QED BY <1>3, <1>4, <1>5

(* One step of any operation keeps SoundInv.                               *)
LEMMA StepSound == TypeInv /\ TypeInv' /\ SoundInv /\ [Next]_vars => SoundInv'
<1> SUFFICES ASSUME TypeInv, TypeInv', SoundInv, [Next]_vars, robbed' = {}
             PROVE  (HistoryCovered /\ CallsCurrent)'
  BY DEF SoundInv
<1> USE DEF TypeInv, TypeOK
<1>a. robbed = {}
  BY DEF Next, SyncNext, vars, slotVars, ThreadCreate, StartThread, ThreadFinish,
         ThreadDestroy, ThreadJoin, ThreadAbsorb, Acquire, Release, Forget,
         MutexCreate, MutexDestroy, MutexPostLock, MutexReadLock, MutexUnlock,
         HappensBefore, HappensAfter, MemoryAccess, TakeSnapshot, RecordByte, RemoveShadow,
         ClearShadow, ClearByte
<1>b. HistoryCovered /\ CallsCurrent
  BY <1>a DEF SoundInv
<1>1. CASE UNCHANGED vars
  <2>1. HistoryCovered'
    BY <1>1, <1>b DEF vars, syncVars, edgeVars, orphanVars, callVars, HistoryCovered
  <2>2. CallsCurrent'
    BY <1>1, <1>b DEF vars, slotVars, callVars, CallsCurrent
  <2> QED BY <2>1, <2>2
<1>2. ASSUME NEW parent \in Tid \cup {NoTid}, ThreadCreate(parent)
      PROVE  (HistoryCovered /\ CallsCurrent)'
  <2>1. PICK tid \in Tid : StartThread(parent, tid)
    BY <1>2 DEF ThreadCreate
  <2>2. tid \notin thread_alive /\ pc[tid] = "idle"
    BY <2>1, <1>b DEF StartThread, CallsCurrent
  <2> DEFINE c == Inherited(parent, tid)
             h == InheritedHb(parent, tid)
  <2>3. c \in VClock /\ h \in SUBSET Cell /\ Covers(shadow, c, h)
    BY <1>b, ClockTypes, CoversNothing DEF Inherited, InheritedHb, HistoryCovered
  <2>4. Covers(shadow, Join(c, orphan_clock), h \cup orphan_hb)
    BY <2>3, <1>b, CoversJoin DEF HistoryCovered
  <2>5. Covers(shadow, BirthClock(c, tid), h \cup orphan_hb)
    BY <2>3, <2>4, CoversIncrement, ClockTypes DEF BirthClock
  <2>6. HistoryCovered'
    BY <2>1, <2>5, <1>b
    DEF StartThread, HistoryCovered, syncVars, edgeVars, orphanVars, callVars
  <2>7. CallsCurrent'
    BY <2>1, <2>2, <1>b DEF StartThread, CallsCurrent, callVars
  <2> QED BY <2>6, <2>7
<1>3. ASSUME NEW t \in Tid, ThreadFinish(t) PROVE (HistoryCovered /\ CallsCurrent)'
  <2>1. Covers(shadow, orphan_clock, orphan_hb) /\ Covers(shadow, thread_clocks[t], thread_hb[t])
    BY <1>b DEF HistoryCovered
  <2>2. Covers(shadow', orphan_clock', orphan_hb')
    BY <1>3, <2>1, CoversJoin DEF ThreadFinish
  <2>3. ASSUME NEW u \in Tid PROVE Covers(shadow', thread_clocks'[u], thread_hb'[u])
    <3>1. CASE u # t /\ u \in thread_alive
      <4>1. /\ thread_clocks'[u] = Join(thread_clocks[u], thread_clocks[t])
            /\ thread_hb'[u] = thread_hb[u] \cup thread_hb[t]
            /\ shadow' = shadow
        BY <1>3, <3>1 DEF ThreadFinish
      <4>2. Covers(shadow, thread_clocks[u], thread_hb[u])
        BY <1>b DEF HistoryCovered
      <4>3. Covers(shadow, Join(thread_clocks[u], thread_clocks[t]),
                   thread_hb[u] \cup thread_hb[t])
        BY <2>1, <4>2, CoversJoin
      <4> QED BY <4>1, <4>3
    <3>2. CASE ~(u # t /\ u \in thread_alive)
      BY <1>3, <3>2, <1>b DEF ThreadFinish, HistoryCovered
    <3> QED BY <3>1, <3>2
  <2>4. HistoryCovered'
    BY <1>3, <2>2, <2>3, <1>b
    DEF ThreadFinish, HistoryCovered, syncVars, edgeVars, callVars
  <2>5. ASSUME NEW u \in Tid, pc'[u] = "access"
        PROVE  snapshot'[u][u] <= thread_clocks'[u][u]
    <3>1. /\ snapshot[u][u] <= thread_clocks[u][u]
          /\ snapshot'[u][u] = snapshot[u][u] /\ snapshot[u][u] \in Nat
      BY <1>3, <2>5, <1>b DEF ThreadFinish, CallsCurrent, callVars, VClock
    <3>2. /\ thread_clocks[u][u] <= thread_clocks'[u][u]
          /\ thread_clocks[u][u] \in Nat /\ thread_clocks'[u][u] \in Nat
      <4>1. thread_clocks'[u] = thread_clocks[u]
              \/ thread_clocks'[u] = Join(thread_clocks[u], thread_clocks[t])
        BY <1>3 DEF ThreadFinish
      <4>2. /\ thread_clocks[u][u] <= Join(thread_clocks[u], thread_clocks[t])[u]
            /\ thread_clocks[u] \in VClock /\ thread_clocks'[u] \in VClock
        BY JoinBounds
      <4> QED BY <4>1, <4>2 DEF VClock
    <3> QED BY <3>1, <3>2
  <2>6. CallsCurrent'
    BY <1>3, <2>5, <1>b DEF ThreadFinish, CallsCurrent, callVars
  <2> QED BY <2>4, <2>6
<1>4. ASSUME NEW t \in Tid, ThreadDestroy(t) PROVE (HistoryCovered /\ CallsCurrent)'
  <2>1. Covers(shadow, Join(orphan_clock, thread_clocks[t]), orphan_hb \cup thread_hb[t])
    BY <1>b, CoversJoin DEF HistoryCovered
  <2>2. HistoryCovered'
    BY <1>4, <2>1, <1>b
    DEF ThreadDestroy, HistoryCovered, syncVars, edgeVars, callVars
  <2>3. CallsCurrent'
    BY <1>4, <1>b DEF ThreadDestroy, Idle, CallsCurrent, callVars
  <2> QED BY <2>2, <2>3
<1>5. ASSUME NEW t \in Tid, NEW u \in Tid, ThreadJoin(t, u)
      PROVE  (HistoryCovered /\ CallsCurrent)'
  <2>1. /\ \A v \in Tid : Covers(shadow', thread_clocks'[v], thread_hb'[v])
        /\ \A v \in Tid : Covers(shadow', snapshot'[v], snap_hb'[v])
        /\ \A v \in Tid : pc'[v] = "access" => snapshot'[v][v] <= thread_clocks'[v][v]
    BY <1>5, <1>b, JoinIntoSound DEF ThreadJoin, HistoryCovered
  <2>2. HistoryCovered'
    BY <1>5, <2>1, <1>b DEF ThreadJoin, HistoryCovered, syncVars, edgeVars, orphanVars
  <2>3. CallsCurrent'
    BY <1>5, <2>1, <1>b DEF ThreadJoin, Idle, CallsCurrent, callVars
  <2> QED BY <2>2, <2>3
<1>6. ASSUME NEW t \in Tid, NEW u \in Tid, ThreadAbsorb(t, u)
      PROVE  (HistoryCovered /\ CallsCurrent)'
  <2>1. /\ \A v \in Tid : Covers(shadow', thread_clocks'[v], thread_hb'[v])
        /\ \A v \in Tid : Covers(shadow', snapshot'[v], snap_hb'[v])
        /\ \A v \in Tid : pc'[v] = "access" => snapshot'[v][v] <= thread_clocks'[v][v]
    BY <1>6, <1>b, JoinIntoSound DEF ThreadAbsorb, HistoryCovered
  <2>2. HistoryCovered'
    BY <1>6, <2>1, <1>b DEF ThreadAbsorb, HistoryCovered, syncVars, edgeVars, orphanVars
  <2>3. CallsCurrent'
    BY <1>6, <2>1, <1>b DEF ThreadAbsorb, CallsCurrent, callVars
  <2> QED BY <2>2, <2>3
<1>7. ASSUME NEW t \in Tid, NEW a \in SyncAddr, Acquire(t, a)
      PROVE  (HistoryCovered /\ CallsCurrent)'
  <2>1. /\ \A v \in Tid : Covers(shadow', thread_clocks'[v], thread_hb'[v])
        /\ \A v \in Tid : Covers(shadow', snapshot'[v], snap_hb'[v])
        /\ \A v \in Tid : pc'[v] = "access" => snapshot'[v][v] <= thread_clocks'[v][v]
    BY <1>7, <1>b, JoinIntoSound DEF Acquire, HistoryCovered
  <2>2. HistoryCovered'
    BY <1>7, <2>1, <1>b DEF Acquire, HistoryCovered, syncVars, edgeVars, orphanVars
  <2>3. CallsCurrent'
    BY <1>7, <2>1, <1>b DEF Acquire, CallsCurrent, callVars, slotVars
  <2> QED BY <2>2, <2>3
<1>8. ASSUME NEW t \in Tid, NEW a \in SyncAddr, Release(t, a)
      PROVE  (HistoryCovered /\ CallsCurrent)'
  <2>1. /\ Covers(shadow, Join(sync_clocks[a], thread_clocks[t]), sync_hb[a] \cup thread_hb[t])
        /\ Covers(shadow, Increment(thread_clocks[t], t), thread_hb[t])
    BY <1>b, CoversJoin, CoversIncrement DEF HistoryCovered
  <2>2. HistoryCovered'
    BY <1>8, <2>1, <1>b
    DEF Release, Publish, HistoryCovered, edgeVars, orphanVars, callVars
  <2>3. CallsCurrent'
    BY <1>8, <1>b, IncrementBounds
    DEF Release, Publish, Idle, CallsCurrent, callVars, slotVars
  <2> QED BY <2>2, <2>3
<1>9. ASSUME NEW a \in SyncAddr, Forget(a) PROVE (HistoryCovered /\ CallsCurrent)'
  <2>1. HistoryCovered'
    BY <1>9, <1>b, CoversNothing DEF Forget, HistoryCovered, edgeVars, orphanVars, callVars
  <2>2. CallsCurrent'
    BY <1>9, <1>b DEF Forget, CallsCurrent, callVars, slotVars
  <2> QED BY <2>1, <2>2
<1>10. ASSUME NEW t \in Tid, HappensBefore(t) PROVE (HistoryCovered /\ CallsCurrent)'
  <2>1. HistoryCovered'
    BY <1>10, <1>b DEF HappensBefore, HistoryCovered, syncVars, orphanVars, callVars
  <2>2. CallsCurrent'
    BY <1>10, <1>b DEF HappensBefore, CallsCurrent, callVars, slotVars
  <2> QED BY <2>1, <2>2
<1>11. ASSUME NEW t \in Tid, NEW id \in EdgeId, HappensAfter(t, id)
       PROVE  (HistoryCovered /\ CallsCurrent)'
  <2>1. /\ \A v \in Tid : Covers(shadow', thread_clocks'[v], thread_hb'[v])
        /\ \A v \in Tid : Covers(shadow', snapshot'[v], snap_hb'[v])
        /\ \A v \in Tid : pc'[v] = "access" => snapshot'[v][v] <= thread_clocks'[v][v]
    BY <1>11, <1>b, JoinIntoSound DEF HappensAfter, HistoryCovered
  <2>2. HistoryCovered'
    BY <1>11, <2>1, <1>b, CoversNothing
    DEF HappensAfter, HistoryCovered, syncVars, orphanVars
  <2>3. CallsCurrent'
    BY <1>11, <2>1, <1>b DEF HappensAfter, CallsCurrent, callVars, slotVars
  <2> QED BY <2>2, <2>3
<1>12. ASSUME NEW t \in Tid, NEW range \in Ranges, NEW kind \in {"read", "write"},
              MemoryAccess(t, range, kind)
       PROVE  (HistoryCovered /\ CallsCurrent)'
  <2>1. HistoryCovered'
    BY <1>12, <1>b DEF MemoryAccess, HistoryCovered, syncVars, edgeVars, orphanVars
  <2>2. CallsCurrent'
    BY <1>12, <1>b DEF MemoryAccess, Idle, CallsCurrent, slotVars
  <2> QED BY <2>1, <2>2
<1>s. ASSUME NEW t \in Tid, TakeSnapshot(t) PROVE (HistoryCovered /\ CallsCurrent)'
  <2>1. HistoryCovered'
    BY <1>s, <1>b DEF TakeSnapshot, HistoryCovered, syncVars, edgeVars, orphanVars
  <2>2. CallsCurrent'
    BY <1>s, <1>b DEF TakeSnapshot, CallsCurrent, slotVars, VClock
  <2> QED BY <2>1, <2>2
<1>13. ASSUME NEW t \in Tid, RecordByte(t) PROVE (HistoryCovered /\ CallsCurrent)'
  <2> DEFINE x == <<call[t].byte, t % kShadowCellsPerByte>>
  <2>1. /\ x \in Cell /\ t \in thread_alive
        /\ snapshot[t][t] <= thread_clocks[t][t]
    BY <1>13, <1>b, CursorCell DEF RecordByte, CallsCurrent
  <2>2. /\ \A y \in Cell \ {x} : shadow'[y] = shadow[y]
        /\ shadow'[x].tid = t /\ shadow'[x].epoch = snapshot[t][t]
    BY <1>13, <2>1 DEF RecordByte
  <2>3. ASSUME NEW c, NEW h \in SUBSET Cell, Covers(shadow, c, h)
        PROVE  Covers(shadow', c, h \ {x})
    BY <2>2, <2>3, CoversFewer
  <2>4. ASSUME NEW u \in Tid PROVE Covers(shadow', thread_clocks'[u], thread_hb'[u])
    <3>1. Covers(shadow', thread_clocks[u], thread_hb[u] \ {x})
      BY <2>3, <1>b DEF HistoryCovered
    <3>2. CASE u = t
      BY <3>1, <3>2, <1>13, <2>1, <2>2 DEF RecordByte, Covers
    <3>3. CASE u # t
      BY <3>1, <3>3, <1>13 DEF RecordByte
    <3> QED BY <3>2, <3>3
  <2>5. Covers(shadow', orphan_clock', orphan_hb')
    BY <1>13, <2>3, <1>b DEF RecordByte, HistoryCovered
  <2>6. \A a \in SyncAddr : Covers(shadow', sync_clocks'[a], sync_hb'[a])
    BY <1>13, <2>3, <1>b DEF RecordByte, HistoryCovered
  <2>7. \A i \in EdgeId : Covers(shadow', hb_edges'[i], edge_hb'[i])
    BY <1>13, <2>3, <1>b DEF RecordByte, HistoryCovered
  <2>8. ASSUME NEW u \in Tid PROVE Covers(shadow', snapshot'[u], snap_hb'[u])
    <3>1. CASE u = t /\ Ends(t, Races(t) # {})
      BY <3>1, <1>13, CoversNothing DEF RecordByte
    <3>2. CASE ~(u = t /\ Ends(t, Races(t) # {}))
      <4>1. snapshot'[u] = snapshot[u] /\ snap_hb'[u] = snap_hb[u] \ {x}
        BY <3>2, <1>13 DEF RecordByte, Advance
      <4> QED BY <4>1, <2>3, <1>b DEF HistoryCovered
    <3> QED BY <3>1, <3>2
  <2>9. HistoryCovered'
    BY <2>4, <2>5, <2>6, <2>7, <2>8 DEF HistoryCovered
  <2>10. CallsCurrent'
    BY <1>13, <1>b DEF RecordByte, Advance, CallsCurrent, slotVars
  <2> QED BY <2>9, <2>10
<1>14. ASSUME \A x \in Cell : shadow'[x] = shadow[x] \/ shadow'[x].kind = "none",
              UNCHANGED <<thread_clocks, thread_hb, syncVars, edgeVars, orphanVars,
                          snapshot, snap_hb>>
       PROVE  HistoryCovered'
  <2>1. ASSUME NEW c, NEW h \in SUBSET Cell, Covers(shadow, c, h)
        PROVE  Covers(shadow', c, h)
    BY <1>14, <2>1, CoversFewer
  <2> QED BY <1>14, <2>1, <1>b
          DEF HistoryCovered, syncVars, edgeVars, orphanVars
<1>15. CASE RemoveShadow
  <2>1. HistoryCovered'
    BY <1>15, <1>14 DEF RemoveShadow, EmptyCell, callVars
  <2>2. CallsCurrent'
    BY <1>15, <1>b DEF RemoveShadow, CallsCurrent, callVars, slotVars
  <2> QED BY <2>1, <2>2
<1>16. ASSUME NEW t \in Tid, NEW range \in Ranges, ClearShadow(t, range)
       PROVE  (HistoryCovered /\ CallsCurrent)'
  <2>1. HistoryCovered'
    BY <1>16, <1>14 DEF ClearShadow
  <2>2. CallsCurrent'
    BY <1>16, <1>b DEF ClearShadow, Idle, CallsCurrent, slotVars
  <2> QED BY <2>1, <2>2
<1>17. ASSUME NEW t \in Tid, ClearByte(t) PROVE (HistoryCovered /\ CallsCurrent)'
  <2>1. HistoryCovered'
    BY <1>17, <1>14 DEF ClearByte, EmptyCell
  <2>2. CallsCurrent'
    BY <1>17, <1>b DEF ClearByte, Advance, CallsCurrent, slotVars
  <2> QED BY <2>1, <2>2
<1> QED
  BY <1>1, <1>2, <1>3, <1>4, <1>5, <1>6, <1>7, <1>8, <1>9, <1>10, <1>11, <1>12,
     <1>s, <1>13, <1>15, <1>16, <1>17
  DEF Next, SyncNext, MutexCreate, MutexDestroy, MutexPostLock, MutexReadLock,
      MutexUnlock

(* A clock that covers the history of its holder passes no access of that  *)
(* history as a race.                                                      *)
LEMMA SoundNoFalseRace == TypeInv /\ SoundInv => NoFalseRace
<1> SUFFICES ASSUME TypeInv, SoundInv, robbed = {}, NEW t \in Tid,
                    NEW x \in Races(t), x \in snap_hb[t]
             PROVE  FALSE
  BY DEF NoFalseRace
<1>1. x \in Cell
  BY DEF TypeInv, TypeOK
<1>2. snapshot[t][shadow[x].tid] < shadow[x].epoch /\ shadow[x].kind # "none"
  BY DEF Races, Conflicts
<1>3. shadow[x].epoch <= snapshot[t][shadow[x].tid]
  BY <1>2 DEF SoundInv, HistoryCovered, Covers
<1>4. shadow[x].epoch \in Nat /\ snapshot[t][shadow[x].tid] \in Nat
  BY <1>1 DEF TypeInv, TypeOK, ShadowCell, VClock
<1> QED BY <1>2, <1>3, <1>4

(* No false alarm, for every instance of the detector: while no live       *)
(* thread has lost its slot, RecordAccess never reports an access that     *)
(* happens before the one it records.                                      *)
THEOREM NoFalseAlarm == Spec => []NoFalseRace
BY SoundNoFalseRace, InitType, StepType, InitSound, StepSound, PTL DEF Spec

-----------------------------------------------------------------------------
(* In a disciplined program the detector misses nothing it has a cell for: *)
(* every behaviour of DisciplinedSpec satisfies NoMissedRace, for every    *)
(* number of threads, cells, bytes and sync addresses.                     *)
(*                                                                         *)
(* The argument is the converse of the one for NoFalseAlarm: a clock       *)
(* has NOT reached the epoch of an access outside its holder's history.    *)
(* RecordByte creates such an epoch, and it must be above every clock of   *)
(* the others: that is BoundInv, which says that a running thread's epoch  *)
(* is seen by nobody, and that the epochs of a thread that is gone are at  *)
(* most the orphan clock's, from which the next owner of its slot starts.  *)

\* Clocks below a bound.

(* A join of two clocks below a bound is below it (VClock::Join).          *)
LEMMA BelowJoin ==
  ASSUME NEW c \in VClock, NEW d \in VClock, NEW b \in [Tid -> Nat],
         NEW S \in SUBSET Tid, Below(c, b, S), Below(d, b, S)
  PROVE  Below(Join(c, d), b, S)
<1> SUFFICES ASSUME NEW u \in S PROVE Join(c, d)[u] < b[u]
  BY DEF Below
<1>1. c[u] < b[u] /\ d[u] < b[u]
  BY DEF Below
<1> QED BY <1>1, JoinBounds

(* A higher bound is a bound.                                              *)
LEMMA BelowHigher ==
  ASSUME NEW c \in VClock, NEW b \in [Tid -> Nat], NEW e \in [Tid -> Nat],
         NEW S \in SUBSET Tid, Below(c, b, S), \A u \in S : b[u] <= e[u]
  PROVE  Below(c, e, S)
BY DEF Below, VClock

(* A join with a clock that is at most the thread's own in the thread's    *)
(* component leaves that component alone.                                  *)
LEMMA JoinOwn ==
  ASSUME NEW c \in VClock, NEW d \in VClock, NEW u \in Tid, d[u] <= c[u]
  PROVE  Join(c, d)[u] = c[u]
BY JoinBounds DEF Join, VClock

(* The bounds are naturals.                                                *)
LEMMA BoundType == TypeInv => Bound \in [Tid -> Nat]
BY DEF TypeInv, TypeOK, Bound, VClock

-----------------------------------------------------------------------------
(* Clocks that have not reached an epoch.                                  *)

LEMMA DistinguishesJoin ==
  ASSUME NEW s \in [Cell -> ShadowCell], NEW c \in VClock, NEW d \in VClock,
         NEW g \in SUBSET Cell, NEW h \in SUBSET Cell, NEW S \in SUBSET Tid,
         Distinguishes(s, c, g, S), Distinguishes(s, d, h, S)
  PROVE  Distinguishes(s, Join(c, d), g \cup h, S)
<1> SUFFICES ASSUME NEW x \in Cell \ (g \cup h), s[x].kind # "none", s[x].tid \in S
             PROVE  Join(c, d)[s[x].tid] < s[x].epoch
  BY DEF Distinguishes
<1>1. s[x].tid \in Tid /\ s[x].epoch \in Nat
  BY DEF ShadowCell
<1>2. c[s[x].tid] < s[x].epoch /\ d[s[x].tid] < s[x].epoch
  BY DEF Distinguishes
<1> QED BY <1>1, <1>2, JoinBounds

(* The zero clock has reached no epoch, as every epoch is positive.        *)
LEMMA ZeroDistinguishes ==
  ASSUME NEW s \in [Cell -> ShadowCell], NEW h, NEW S,
         \A x \in Cell : s[x].kind # "none" => s[x].epoch > 0
  PROVE  Distinguishes(s, ZeroClock, h, S)
<1> SUFFICES ASSUME NEW x \in Cell \ h, s[x].kind # "none"
             PROVE  ZeroClock[s[x].tid] < s[x].epoch
  BY DEF Distinguishes
<1>1. s[x].tid \in Tid /\ s[x].epoch \in Nat /\ s[x].epoch > 0
  BY DEF ShadowCell
<1> QED BY <1>1 DEF ZeroClock

(* A tick of t's component changes nothing if t has no cell outside h.     *)
LEMMA DistinguishesIncrement ==
  ASSUME NEW s \in [Cell -> ShadowCell], NEW c \in VClock, NEW t \in Tid,
         NEW h \in SUBSET Cell, NEW S \in SUBSET Tid, Distinguishes(s, c, h, S),
         \A x \in Cell : s[x].kind # "none" /\ s[x].tid = t => x \in h
  PROVE  Distinguishes(s, Increment(c, t), h, S)
<1> SUFFICES ASSUME NEW x \in Cell \ h, s[x].kind # "none", s[x].tid \in S
             PROVE  Increment(c, t)[s[x].tid] < s[x].epoch
  BY DEF Distinguishes
<1>1. s[x].tid \in Tid /\ s[x].tid # t
  BY DEF ShadowCell
<1>2. c[s[x].tid] < s[x].epoch
  BY DEF Distinguishes
<1> QED BY <1>1, <1>2, IncrementBounds

(* Clearing cells gives a clock less to distinguish.                       *)
LEMMA DistinguishesFewer ==
  ASSUME NEW s, NEW r, NEW c, NEW h, NEW S,
         \A x \in Cell : r[x] = s[x] \/ r[x].kind = "none",
         Distinguishes(s, c, h, S)
  PROVE  Distinguishes(r, c, h, S)
BY DEF Distinguishes

-----------------------------------------------------------------------------
(* The initial state and the steps.                                        *)

LEMMA InitComplete == Init => CompleteInv
<1> SUFFICES ASSUME Init PROVE CompleteInv
  OBVIOUS
<1>1. TypeInv
  BY InitType
<1>2. /\ Running = {0} /\ thread_alive = {0} /\ orphan_clock = ZeroClock
      /\ thread_clocks[0] = Increment(ZeroClock, 0)
      /\ \A t \in Tid \ {0} : thread_clocks[t] = ZeroClock
      /\ \A a \in SyncAddr : sync_clocks[a] = ZeroClock
      /\ \A t \in Tid : pc[t] = "idle"
      /\ finished = {}
  BY SlotTypes DEF Init, Running
<1>3. \A u \in Tid : /\ ZeroClock[u] = 0
                     /\ Increment(ZeroClock, 0)[u] = IF u = 0 THEN 1 ELSE 0
  BY ClockTypes, SlotTypes, IncrementBounds DEF ZeroClock
<1>4. \A u \in Tid : Bound[u] = 1
  BY <1>2, <1>3, SlotTypes DEF Bound
<1>5. BoundInv
  BY <1>2, <1>3, <1>4, SlotTypes DEF BoundInv, Below
<1>6. CallInv
  BY <1>2 DEF CallInv
<1>7. \A x \in Cell : shadow[x].kind = "none"
  BY DEF Init, EmptyCell
<1>8. HistoryExact /\ OwnCells
  BY <1>7 DEF HistoryExact, OwnCells, Distinguishes
<1> QED BY <1>5, <1>6, <1>8 DEF CompleteInv

(* A disciplined step is a step.                                           *)
LEMMA DisciplinedIsNext == TypeInv /\ [DisciplinedNext]_vars => [Next]_vars
<1> SUFFICES ASSUME TypeInv, DisciplinedNext PROVE Next
  OBVIOUS
<1>1. Running \subseteq Tid /\ finished \subseteq Tid /\ thread_alive \subseteq Tid
  BY DEF TypeInv, TypeOK, Running
<1>2. CASE SyncNext(Running)
  BY <1>1, <1>2 DEF SyncNext, Next
<1>3. CASE ~ SyncNext(Running)
  BY <1>1, <1>3 DEF DisciplinedNext, Next
<1> QED BY <1>2, <1>3

(* A running thread's clock joins clock c, whose component for the thread  *)
(* is not above the thread's own: nobody's own epoch moves, and the new    *)
(* clock knows no more than the two did (Acquire, ThreadJoin,              *)
(* ThreadAbsorb).                                                          *)
LEMMA JoinIntoComplete ==
  ASSUME TypeInv, CompleteInv,
         NEW dst \in Running, pc[dst] = "idle", NEW c \in VClock, NEW h \in SUBSET Cell,
         c[dst] < thread_clocks[dst][dst],
         Distinguishes(shadow, c, h, Tid), JoinInto(dst, c, h),
         UNCHANGED <<shadow, callVars>>
  PROVE  /\ thread_clocks' \in [Tid -> VClock]
         /\ \A t \in Tid : thread_clocks'[t][t] = thread_clocks[t][t]
         /\ \A t \in Tid \ {dst} : thread_clocks'[t] = thread_clocks[t]
         /\ thread_clocks'[dst] = Join(thread_clocks[dst], c)
         /\ \A t \in Tid : thread_hb[t] \subseteq thread_hb'[t]
         /\ \A t \in Tid : Distinguishes(shadow', thread_clocks'[t], thread_hb'[t], Tid)
         /\ \A t \in Tid : pc'[t] = "access" =>
              Distinguishes(shadow', snapshot'[t], snap_hb'[t], Tid \ {t})
<1> USE DEF TypeInv, TypeOK
<1>0. dst \in Tid
  BY DEF Running
<1>1. /\ thread_clocks'[dst] = Join(thread_clocks[dst], c)
      /\ thread_hb'[dst] = thread_hb[dst] \cup h
      /\ \A t \in Tid \ {dst} : /\ thread_clocks'[t] = thread_clocks[t]
                                /\ thread_hb'[t] = thread_hb[t]
      /\ shadow' = shadow /\ pc' = pc /\ snapshot' = snapshot /\ snap_hb' = snap_hb
  BY <1>0 DEF JoinInto, callVars
<1>2. Join(thread_clocks[dst], c)[dst] = thread_clocks[dst][dst]
  <2>1. c[dst] <= thread_clocks[dst][dst]
    BY <1>0 DEF VClock
  <2> QED BY <1>0, <2>1, JoinOwn
<1>3. Distinguishes(shadow, Join(thread_clocks[dst], c), thread_hb[dst] \cup h, Tid)
  BY <1>0, DistinguishesJoin DEF CompleteInv, HistoryExact
<1>4. \A t \in Tid : Distinguishes(shadow', thread_clocks'[t], thread_hb'[t], Tid)
  BY <1>1, <1>3 DEF CompleteInv, HistoryExact
<1>5. \A t \in Tid : pc'[t] = "access" =>
        Distinguishes(shadow', snapshot'[t], snap_hb'[t], Tid \ {t})
  BY <1>1 DEF CompleteInv, HistoryExact
<1>6. thread_clocks' \in [Tid -> VClock]
  BY <1>0, ClockTypes DEF JoinInto
<1> QED BY <1>0, <1>1, <1>2, <1>4, <1>5, <1>6

(* The clocks stay below their bounds when no bound falls and the clocks   *)
(* that change are below the new ones.                                     *)
LEMMA BoundStep ==
  ASSUME TypeInv, TypeInv', BoundInv,
         \A u \in Tid : Bound[u] <= Bound'[u],
         orphan_clock' = orphan_clock \/ Below(orphan_clock', Bound', Tid),
         \A t \in Tid : thread_clocks'[t] = thread_clocks[t]
                          \/ Below(thread_clocks'[t], Bound', Tid \ {t}),
         \A a \in SyncAddr : sync_clocks'[a] = sync_clocks[a]
                               \/ Below(sync_clocks'[a], Bound', Tid),
         \A t \in Tid : pc'[t] = "access" =>
             \/ pc[t] = "access" /\ snapshot'[t] = snapshot[t]
             \/ Below(snapshot'[t], Bound', Tid \ {t})
  PROVE  BoundInv'
<1> USE DEF TypeInv, TypeOK
<1>1. Bound \in [Tid -> Nat] /\ Bound' \in [Tid -> Nat]
  BY BoundType DEF Bound, VClock
<1>2. ASSUME NEW c \in VClock, NEW S \in SUBSET Tid, Below(c, Bound, S)
      PROVE  Below(c, Bound', S)
  BY <1>1, <1>2, BelowHigher
<1>3. Below(orphan_clock', Bound', Tid)
  BY <1>2 DEF BoundInv
<1>4. \A t \in Tid : Below(thread_clocks'[t], Bound', Tid \ {t})
  BY <1>2 DEF BoundInv
<1>5. \A a \in SyncAddr : Below(sync_clocks'[a], Bound', Tid)
  BY <1>2 DEF BoundInv
<1>6. \A t \in Tid : pc'[t] = "access" => Below(snapshot'[t], Bound', Tid \ {t})
  BY <1>2 DEF BoundInv
<1> QED BY <1>3, <1>4, <1>5, <1>6 DEF BoundInv

(* A worker starts in a free slot.                                         *)
LEMMA CreateComplete ==
  ASSUME TypeInv, TypeInv', CompleteInv, thread_alive # Tid, ThreadCreate(NoTid)
  PROVE  CompleteInv'
<1> USE DEF TypeInv, TypeOK
<1>1. PICK tid \in Tid : StartThread(NoTid, tid)
  BY DEF ThreadCreate
<1>2. tid \notin thread_alive
  BY <1>1 DEF StartThread, Allocated
<1>3. NoTid \notin Tid
  BY MaxThreadsAssumption DEF NoTid, Tid
<1>4. Inherited(NoTid, tid) = ZeroClock /\ InheritedHb(NoTid, tid) = {}
  BY <1>3 DEF Inherited, InheritedHb
<1> DEFINE c == Join(ZeroClock, orphan_clock)
<1>5. /\ thread_clocks' = [thread_clocks EXCEPT ![tid] = Increment(c, tid)]
      /\ thread_hb' = [thread_hb EXCEPT ![tid] = orphan_hb]
      /\ thread_alive' = thread_alive \cup {tid}
      /\ finished' = finished \ {tid} /\ retired' = retired \ {tid}
      /\ orphan_clock' = orphan_clock /\ orphan_hb' = orphan_hb
      /\ sync_clocks' = sync_clocks /\ sync_hb' = sync_hb
      /\ shadow' = shadow /\ pc' = pc /\ snapshot' = snapshot /\ snap_hb' = snap_hb
  BY <1>1, <1>4 DEF StartThread, BirthClock, orphanVars, syncVars, callVars
<1>6. c \in VClock /\ \A u \in Tid : c[u] = orphan_clock[u]
  BY ClockTypes DEF Join, ZeroClock, VClock
<1> HIDE DEF c
<1>7. \A u \in Tid : Increment(c, tid)[u] = IF u = tid THEN orphan_clock[u] + 1
                                                       ELSE orphan_clock[u]
  BY <1>6 DEF Increment, VClock
<1>8. tid \notin Running /\ Running' = Running \cup {tid} /\ pc[tid] = "idle"
  BY <1>2, <1>5 DEF Running, CompleteInv, CallInv
<1>9. /\ \A u \in Tid \ {tid} : thread_clocks'[u] = thread_clocks[u]
      /\ thread_clocks'[tid] = Increment(c, tid)
  BY <1>5
<1>10. \A u \in Tid : Bound'[u] = Bound[u]
  <2> SUFFICES ASSUME NEW u \in Tid PROVE Bound'[u] = Bound[u]
    OBVIOUS
  <2>1. CASE u = tid
    BY <2>1, <1>2, <1>7, <1>8, <1>9 DEF Bound
  <2>2. CASE u # tid
    BY <2>2, <1>5, <1>8, <1>9 DEF Bound
  <2> QED BY <2>1, <2>2
<1>11. Below(thread_clocks'[tid], Bound', Tid \ {tid})
  BY <1>7, <1>9, <1>10 DEF CompleteInv, BoundInv, Below
<1>12. BoundInv'
  <2>1. \A u \in Tid : Bound[u] <= Bound'[u]
    BY <1>10, BoundType
  <2> QED BY <2>1, <1>5, <1>9, <1>11, BoundStep DEF CompleteInv
<1>13. CallInv'
  <2>1. \A t \in Tid : pc'[t] # "idle" => t \in Running' /\ t # tid
    BY <1>5, <1>8 DEF CompleteInv, CallInv
  <2>2. \A t \in Tid : pc'[t] = "access" => snapshot'[t][t] = thread_clocks'[t][t]
    BY <1>5, <1>9, <2>1 DEF CompleteInv, CallInv
  <2>3. \A t \in (finished \cap thread_alive)' : thread_clocks'[t][t] <= orphan_clock'[t]
    BY <1>5, <1>9 DEF CompleteInv, CallInv
  <2> QED BY <2>1, <2>2, <2>3 DEF CallInv
<1>14. \A x \in Cell : shadow[x].kind # "none" /\ shadow[x].tid = tid => x \in orphan_hb
  BY <1>2 DEF CompleteInv, OwnCells
<1>15. Distinguishes(shadow, Increment(c, tid), orphan_hb, Tid)
  <2>1. Distinguishes(shadow, c, orphan_hb, Tid)
    BY <1>6 DEF CompleteInv, HistoryExact, Distinguishes
  <2> QED BY <2>1, <1>6, <1>14, DistinguishesIncrement
<1>16. HistoryExact'
  BY <1>5, <1>15 DEF CompleteInv, HistoryExact
<1>17. OwnCells'
  <2> SUFFICES ASSUME NEW x \in Cell, shadow'[x].kind # "none"
               PROVE  /\ shadow'[x].epoch > 0
                      /\ shadow'[x].tid \in thread_alive' => x \in thread_hb'[shadow'[x].tid]
                      /\ shadow'[x].tid \notin (thread_alive \ finished)' => x \in orphan_hb'
    BY DEF OwnCells
  <2>1. CASE shadow[x].tid = tid
    BY <2>1, <1>2, <1>5, <1>14 DEF CompleteInv, OwnCells
  <2>2. CASE shadow[x].tid # tid
    BY <2>2, <1>5 DEF CompleteInv, OwnCells
  <2> QED BY <2>1, <2>2
<1> QED BY <1>12, <1>13, <1>16, <1>17 DEF CompleteInv

(* A running thread finishes: its clock goes to all.                       *)
LEMMA FinishComplete ==
  ASSUME TypeInv, TypeInv', CompleteInv, NEW t \in Running, ThreadFinish(t)
  PROVE  CompleteInv'
<1> USE DEF TypeInv, TypeOK
<1>1. t \in Tid /\ t \in thread_alive /\ t \notin finished
  BY DEF Running
<1> DEFINE ct == thread_clocks[t]
<1>2. /\ orphan_clock' = Join(orphan_clock, ct) /\ orphan_hb' = orphan_hb \cup thread_hb[t]
      /\ \A u \in Tid : IF u # t /\ u \in thread_alive
           THEN /\ thread_clocks'[u] = Join(thread_clocks[u], ct)
                /\ thread_hb'[u] = thread_hb[u] \cup thread_hb[t]
           ELSE thread_clocks'[u] = thread_clocks[u] /\ thread_hb'[u] = thread_hb[u]
      /\ finished' = finished \cup {t} /\ retired' = retired /\ thread_alive' = thread_alive
      /\ sync_clocks' = sync_clocks /\ sync_hb' = sync_hb
      /\ shadow' = shadow /\ pc' = pc /\ snapshot' = snapshot /\ snap_hb' = snap_hb
      /\ pc[t] = "idle"
  BY DEF ThreadFinish, Idle, syncVars, callVars
<1>3. Running' = Running \ {t}
  BY <1>2 DEF Running
<1>4. ct \in VClock /\ Below(ct, Bound, Tid \ {t}) /\ Bound[t] = ct[t]
  BY <1>1 DEF CompleteInv, BoundInv, Bound
<1>5. ASSUME NEW u \in Tid PROVE thread_clocks'[u][u] = thread_clocks[u][u]
  <2>1. CASE u # t /\ u \in thread_alive
    <3>1. ct[u] < Bound[u] /\ Bound[u] <= thread_clocks[u][u] + 1
      BY <2>1, <1>4 DEF Bound, Below, VClock
    <3>2. ct[u] \in Nat /\ Bound[u] \in Nat /\ thread_clocks[u][u] \in Nat
      BY <1>4, BoundType DEF VClock
    <3>3. ct[u] <= thread_clocks[u][u]
      BY <3>1, <3>2
    <3> QED BY <2>1, <3>3, <1>2, <1>4, JoinOwn
  <2>2. CASE ~(u # t /\ u \in thread_alive)
    BY <2>2, <1>2
  <2> QED BY <2>1, <2>2
<1>6. ASSUME NEW u \in Tid
      PROVE  Bound'[u] = IF u = t THEN Bound[u] + 1 ELSE Bound[u]
  <2>1. CASE u = t
    BY <2>1, <1>1, <1>2, <1>3, <1>5 DEF Bound
  <2>2. CASE u # t /\ u \in thread_alive
    BY <2>2, <1>2, <1>3, <1>5 DEF Bound
  <2>3. CASE u # t /\ u \notin thread_alive
    <3>1. u \notin Running /\ u \notin Running'
      BY <2>3, <1>3 DEF Running
    <3>2. Bound[u] = orphan_clock[u] + 1 /\ Bound'[u] = orphan_clock'[u] + 1
      BY <2>3, <3>1, <1>2 DEF Bound
    <3>3. ct[u] <= orphan_clock[u]
      BY <2>3, <3>2, <1>4 DEF Below, VClock
    <3>4. Join(orphan_clock, ct)[u] = orphan_clock[u]
      BY <3>3, <1>4, JoinOwn
    <3> QED BY <2>3, <3>2, <3>4, <1>2
  <2> QED BY <2>1, <2>2, <2>3
<1>7. \A u \in Tid : Bound[u] <= Bound'[u] /\ Bound[u] \in Nat /\ Bound'[u] \in Nat
  <2>1. Bound \in [Tid -> Nat]
    BY BoundType
  <2> HIDE DEF TypeInv, TypeOK
  <2> QED BY <2>1, <1>6
<1>8. Bound' \in [Tid -> Nat]
  BY DEF Bound, VClock
<1>9. Below(ct, Bound', Tid)
  <2> SUFFICES ASSUME NEW u \in Tid PROVE ct[u] < Bound'[u]
    BY DEF Below
  <2>1. ct[u] \in Nat /\ Bound[u] \in Nat
    BY <1>4, <1>7 DEF VClock
  <2>2. CASE u = t
    BY <2>1, <2>2, <1>4, <1>6
  <2>3. CASE u # t
    BY <2>3, <1>4, <1>6 DEF Below
  <2> QED BY <2>2, <2>3
<1>10. ASSUME NEW c \in VClock, NEW S \in SUBSET Tid, Below(c, Bound, S)
       PROVE  Below(Join(c, ct), Bound', S)
  <2>1. Below(c, Bound', S)
    BY <1>7, <1>8, <1>10, BoundType, BelowHigher
  <2>2. Below(ct, Bound', S)
    BY <1>9 DEF Below
  <2> QED BY <2>1, <2>2, <1>4, <1>8, BelowJoin
<1>11. BoundInv'
  <2>1. Below(orphan_clock', Bound', Tid)
    BY <1>2, <1>10 DEF CompleteInv, BoundInv
  <2>2. \A u \in Tid : thread_clocks'[u] = thread_clocks[u]
                         \/ Below(thread_clocks'[u], Bound', Tid \ {u})
    BY <1>2, <1>10 DEF CompleteInv, BoundInv
  <2> QED BY <2>1, <2>2, <1>2, <1>7, BoundStep DEF CompleteInv
<1>12. orphan_clock'[t] = ct[t] /\ \A u \in Tid : orphan_clock[u] <= orphan_clock'[u]
  <2>1. orphan_clock[t] < ct[t]
    BY <1>1, <1>4 DEF CompleteInv, BoundInv, Below
  <2> QED BY <2>1, <1>1, <1>2, <1>4, JoinBounds
<1>13. CallInv'
  <2>1. \A u \in Tid : pc'[u] # "idle" => u \in Running'
    BY <1>2, <1>3 DEF CompleteInv, CallInv
  <2>2. \A u \in Tid : pc'[u] = "access" => snapshot'[u][u] = thread_clocks'[u][u]
    BY <1>2, <1>5 DEF CompleteInv, CallInv
  <2>3. ASSUME NEW u \in finished' \cap thread_alive'
        PROVE  thread_clocks'[u][u] <= orphan_clock'[u]
    <3>1. CASE u = t
      BY <3>1, <1>1, <1>4, <1>5, <1>12 DEF VClock
    <3>2. CASE u # t
      <4>1. u \in Tid /\ u \in finished \cap thread_alive
        BY <3>2, <2>3, <1>2
      <4>2. thread_clocks[u][u] <= orphan_clock[u]
        BY <4>1 DEF CompleteInv, CallInv
      <4> QED BY <4>1, <4>2, <1>5, <1>12 DEF VClock
    <3> QED BY <3>1, <3>2
  <2> QED BY <2>1, <2>2, <2>3 DEF CallInv
<1>14. HistoryExact'
  <2>1. ASSUME NEW c \in VClock, NEW h \in SUBSET Cell, Distinguishes(shadow, c, h, Tid)
        PROVE  Distinguishes(shadow', Join(c, ct), h \cup thread_hb[t], Tid)
    BY <2>1, <1>1, <1>2, <1>4, DistinguishesJoin DEF CompleteInv, HistoryExact
  <2>2. Distinguishes(shadow', orphan_clock', orphan_hb', Tid)
    BY <2>1, <1>2 DEF CompleteInv, HistoryExact
  <2>3. ASSUME NEW u \in Tid
        PROVE  Distinguishes(shadow', thread_clocks'[u], thread_hb'[u], Tid)
    <3>1. Distinguishes(shadow, thread_clocks[u], thread_hb[u], Tid)
      BY DEF CompleteInv, HistoryExact
    <3>2. Distinguishes(shadow', Join(thread_clocks[u], ct), thread_hb[u] \cup thread_hb[t], Tid)
      BY <2>1, <3>1
    <3> QED BY <3>1, <3>2, <1>2
  <2> QED BY <2>2, <2>3, <1>2 DEF CompleteInv, HistoryExact
<1>15. OwnCells'
  BY <1>1, <1>2 DEF CompleteInv, OwnCells
<1> QED BY <1>11, <1>13, <1>14, <1>15 DEF CompleteInv

(* A thread's slot becomes free (ThreadDestroy).                           *)
LEMMA DestroyComplete ==
  ASSUME TypeInv, TypeInv', CompleteInv, NEW t \in Tid, ThreadDestroy(t)
  PROVE  CompleteInv'
<1> USE DEF TypeInv, TypeOK
<1> DEFINE ct == thread_clocks[t]
<1>1. /\ t \in thread_alive /\ pc[t] = "idle"
      /\ orphan_clock' = Join(orphan_clock, ct) /\ orphan_hb' = orphan_hb \cup thread_hb[t]
      /\ thread_alive' = thread_alive \ {t} /\ Running' = Running \ {t}
      /\ finished' = finished /\ retired' = retired
      /\ thread_clocks' = thread_clocks /\ thread_hb' = thread_hb
      /\ sync_clocks' = sync_clocks /\ sync_hb' = sync_hb
      /\ shadow' = shadow /\ pc' = pc /\ snapshot' = snapshot /\ snap_hb' = snap_hb
  BY DEF ThreadDestroy, Idle, Running, syncVars, callVars
<1>2. ct \in VClock /\ Below(ct, Bound, Tid \ {t}) /\ Below(orphan_clock, Bound, Tid)
  BY DEF CompleteInv, BoundInv
<1>3. \A u \in Tid : /\ orphan_clock[u] \in Nat /\ ct[u] \in Nat /\ orphan_clock'[u] \in Nat
                     /\ orphan_clock[u] <= orphan_clock'[u] /\ ct[u] <= orphan_clock'[u]
                     /\ orphan_clock'[u] = orphan_clock[u] \/ orphan_clock'[u] = ct[u]
  BY <1>1, <1>2, JoinBounds DEF VClock
<1>4. Bound \in [Tid -> Nat] /\ Bound' \in [Tid -> Nat]
  BY BoundType DEF Bound, VClock
<1>5. Bound[t] <= ct[t] + 1 /\ Bound'[t] = orphan_clock'[t] + 1
  BY <1>1, <1>2 DEF Bound, VClock, Running
<1>6. ASSUME NEW u \in Tid \ {t} PROVE Bound'[u] = Bound[u]
  <2>1. CASE u \in thread_alive
    BY <2>1, <1>1 DEF Bound
  <2>2. CASE u \notin thread_alive
    <3>1. Bound[u] = orphan_clock[u] + 1 /\ Bound'[u] = orphan_clock'[u] + 1
      BY <2>2, <1>1 DEF Bound, Running
    <3>2. ct[u] < orphan_clock[u] + 1
      BY <3>1, <1>2 DEF Below
    <3>3. orphan_clock'[u] = orphan_clock[u]
      <4>1. /\ orphan_clock[u] \in Nat /\ ct[u] \in Nat
            /\ orphan_clock[u] <= orphan_clock'[u]
            /\ orphan_clock'[u] = orphan_clock[u] \/ orphan_clock'[u] = ct[u]
        BY <1>3
      <4> HIDE DEF ct, TypeInv, TypeOK
      <4> QED BY <4>1, <3>2
    <3> QED BY <3>1, <3>3
  <2> QED BY <2>1, <2>2
<1>7. \A u \in Tid : Bound[u] <= Bound'[u]
  BY <1>3, <1>4, <1>5, <1>6
<1>8. Below(orphan_clock', Bound', Tid)
  <2> SUFFICES ASSUME NEW u \in Tid PROVE orphan_clock'[u] < Bound'[u]
    BY DEF Below
  <2>1. CASE u = t
    BY <2>1, <1>3, <1>5
  <2>2. CASE u # t
    <3>1. orphan_clock[u] < Bound[u] /\ ct[u] < Bound[u] /\ Bound'[u] = Bound[u]
      BY <2>2, <1>2, <1>6 DEF Below
    <3> QED BY <3>1, <1>3
  <2> QED BY <2>1, <2>2
<1>9. BoundInv'
  BY <1>1, <1>7, <1>8, BoundStep DEF CompleteInv
<1>10. CallInv'
  <2>1. ASSUME NEW u \in finished' \cap thread_alive'
        PROVE  thread_clocks'[u][u] <= orphan_clock'[u]
    <3>1. thread_clocks[u][u] <= orphan_clock[u] /\ u \in Tid
      BY <2>1, <1>1 DEF CompleteInv, CallInv
    <3> QED BY <3>1, <1>1, <1>3 DEF VClock
  <2> QED BY <2>1, <1>1 DEF CompleteInv, CallInv
<1>11. HistoryExact'
  <2>1. Distinguishes(shadow, Join(orphan_clock, ct), orphan_hb \cup thread_hb[t], Tid)
    BY <1>2, DistinguishesJoin DEF CompleteInv, HistoryExact
  <2> QED BY <2>1, <1>1 DEF CompleteInv, HistoryExact
<1>12. OwnCells'
  BY <1>1 DEF CompleteInv, OwnCells
<1> QED BY <1>9, <1>10, <1>11, <1>12 DEF CompleteInv

(* A running thread joins a finished one, whose slot becomes free.         *)
LEMMA JoinComplete ==
  ASSUME TypeInv, TypeInv', CompleteInv,
         NEW t \in Running, NEW u \in finished, ThreadJoin(t, u)
  PROVE  CompleteInv'
<1> USE DEF TypeInv, TypeOK
<1> DEFINE cu == thread_clocks[u]
<1>1. /\ t \in Tid /\ u \in Tid /\ t # u /\ u \in thread_alive /\ pc[t] = "idle" /\ pc[u] = "idle"
      /\ thread_alive' = thread_alive \ {u} /\ Running' = Running /\ u \notin Running
      /\ finished' = finished /\ retired' = retired
      /\ orphan_clock' = orphan_clock /\ orphan_hb' = orphan_hb
      /\ sync_clocks' = sync_clocks /\ sync_hb' = sync_hb
      /\ shadow' = shadow /\ pc' = pc /\ snapshot' = snapshot /\ snap_hb' = snap_hb
      /\ JoinInto(t, cu, thread_hb[u]) /\ UNCHANGED <<shadow, callVars>>
  BY DEF ThreadJoin, Idle, Running, syncVars, orphanVars, callVars
<1>2. cu \in VClock /\ Below(cu, Bound, Tid \ {u}) /\ cu[t] < thread_clocks[t][t]
  BY <1>1 DEF CompleteInv, BoundInv, Below, Bound
<1>3. Distinguishes(shadow, cu, thread_hb[u], Tid)
  BY <1>1 DEF CompleteInv, HistoryExact
<1>4. /\ \A v \in Tid : thread_clocks'[v][v] = thread_clocks[v][v]
      /\ \A v \in Tid \ {t} : thread_clocks'[v] = thread_clocks[v]
      /\ thread_clocks'[t] = Join(thread_clocks[t], cu)
      /\ \A v \in Tid : thread_hb[v] \subseteq thread_hb'[v]
      /\ \A v \in Tid : Distinguishes(shadow', thread_clocks'[v], thread_hb'[v], Tid)
      /\ \A v \in Tid : pc'[v] = "access" =>
           Distinguishes(shadow', snapshot'[v], snap_hb'[v], Tid \ {v})
  BY <1>1, <1>2, <1>3, JoinIntoComplete
<1>5. Bound \in [Tid -> Nat] /\ Bound' \in [Tid -> Nat]
  BY BoundType DEF Bound, VClock
<1>6. cu[u] <= orphan_clock[u] /\ Bound[u] = cu[u] + 1 /\ Bound'[u] = orphan_clock[u] + 1
  BY <1>1 DEF CompleteInv, CallInv, Bound
<1>7. \A v \in Tid \ {u} : Bound'[v] = Bound[v]
  BY <1>1, <1>4 DEF Bound
<1>8. \A v \in Tid : Bound[v] <= Bound'[v]
  <2> SUFFICES ASSUME NEW v \in Tid PROVE Bound[v] <= Bound'[v]
    OBVIOUS
  <2>1. Bound[v] \in Nat /\ Bound'[v] \in Nat
    BY <1>5
  <2>2. CASE v = u
    <3>1. cu[u] \in Nat /\ orphan_clock[u] \in Nat
      BY <1>1, <1>2 DEF VClock
    <3> QED BY <2>2, <3>1, <1>6
  <2>3. CASE v # u
    BY <2>1, <2>3, <1>7
  <2> QED BY <2>2, <2>3
<1>9. Below(thread_clocks'[t], Bound', Tid \ {t})
  <2>1. Below(cu, Bound', Tid \ {t})
    <3> SUFFICES ASSUME NEW v \in Tid \ {t} PROVE cu[v] < Bound'[v]
      BY DEF Below
    <3>1. CASE v = u
      <4>1. cu[u] \in Nat /\ orphan_clock[u] \in Nat
        BY <1>1, <1>2 DEF VClock
      <4> QED BY <3>1, <4>1, <1>6
    <3>2. CASE v # u
      BY <3>2, <1>2, <1>7 DEF Below
    <3> QED BY <3>1, <3>2
  <2>2. Below(thread_clocks[t], Bound', Tid \ {t})
    BY <1>1, <1>5, <1>8, BelowHigher DEF CompleteInv, BoundInv
  <2> QED BY <2>1, <2>2, <1>1, <1>2, <1>4, <1>5, BelowJoin
<1>10. BoundInv'
  BY <1>1, <1>4, <1>8, <1>9, BoundStep DEF CompleteInv
<1>11. CallInv'
  BY <1>1, <1>4 DEF CompleteInv, CallInv
<1>12. HistoryExact'
  BY <1>1, <1>4 DEF CompleteInv, HistoryExact
<1>13. OwnCells'
  <2> SUFFICES ASSUME NEW x \in Cell, shadow'[x].kind # "none"
               PROVE  /\ shadow'[x].epoch > 0
                      /\ shadow'[x].tid \in thread_alive' => x \in thread_hb'[shadow'[x].tid]
                      /\ shadow'[x].tid \notin (thread_alive \ finished)' => x \in orphan_hb'
    BY DEF OwnCells
  <2>1. shadow[x].tid \in Tid
    BY DEF ShadowCell
  <2> QED BY <2>1, <1>1, <1>4 DEF CompleteInv, OwnCells
<1> QED BY <1>10, <1>11, <1>12, <1>13 DEF CompleteInv

(* An OS thread goes over from one running thread to another.              *)
LEMMA AbsorbComplete ==
  ASSUME TypeInv, TypeInv', CompleteInv,
         NEW t \in Running, NEW u \in Running, ThreadAbsorb(t, u)
  PROVE  CompleteInv'
<1> USE DEF TypeInv, TypeOK
<1> DEFINE cu == thread_clocks[u]
<1>1. /\ t \in Tid /\ u \in Tid /\ t # u /\ u \in thread_alive /\ pc[t] = "idle" /\ pc[u] = "idle"
      /\ thread_alive' = thread_alive /\ Running' = Running \ {u}
      /\ finished' = finished
      /\ orphan_clock' = orphan_clock /\ orphan_hb' = orphan_hb
      /\ sync_clocks' = sync_clocks /\ sync_hb' = sync_hb
      /\ shadow' = shadow /\ pc' = pc /\ snapshot' = snapshot /\ snap_hb' = snap_hb
      /\ JoinInto(t, cu, thread_hb[u]) /\ UNCHANGED <<shadow, callVars>>
  BY DEF ThreadAbsorb, Idle, Running, syncVars, orphanVars, callVars
<1>2. cu \in VClock /\ Below(cu, Bound, Tid \ {u}) /\ cu[t] < thread_clocks[t][t]
  BY <1>1 DEF CompleteInv, BoundInv, Below, Bound
<1>3. Distinguishes(shadow, cu, thread_hb[u], Tid)
  BY <1>1 DEF CompleteInv, HistoryExact
<1>4. /\ \A v \in Tid : thread_clocks'[v][v] = thread_clocks[v][v]
      /\ \A v \in Tid \ {t} : thread_clocks'[v] = thread_clocks[v]
      /\ thread_clocks'[t] = Join(thread_clocks[t], cu)
      /\ \A v \in Tid : thread_hb[v] \subseteq thread_hb'[v]
      /\ \A v \in Tid : Distinguishes(shadow', thread_clocks'[v], thread_hb'[v], Tid)
      /\ \A v \in Tid : pc'[v] = "access" =>
           Distinguishes(shadow', snapshot'[v], snap_hb'[v], Tid \ {v})
  BY <1>1, <1>2, <1>3, JoinIntoComplete
<1>5. Bound \in [Tid -> Nat] /\ Bound' \in [Tid -> Nat]
  BY BoundType DEF Bound, VClock
<1>6. Bound[u] = cu[u] /\ Bound'[u] = cu[u] + 1
  BY <1>1, <1>4 DEF Bound
<1>7. \A v \in Tid \ {u} : Bound'[v] = Bound[v]
  BY <1>1, <1>4 DEF Bound
<1>8. \A v \in Tid : Bound[v] <= Bound'[v]
  <2> SUFFICES ASSUME NEW v \in Tid PROVE Bound[v] <= Bound'[v]
    OBVIOUS
  <2>1. Bound[v] \in Nat /\ Bound'[v] \in Nat
    BY <1>5
  <2>2. CASE v = u
    <3>1. cu[u] \in Nat /\ orphan_clock[u] \in Nat
      BY <1>1, <1>2 DEF VClock
    <3> QED BY <2>2, <3>1, <1>6
  <2>3. CASE v # u
    BY <2>1, <2>3, <1>7
  <2> QED BY <2>2, <2>3
<1>9. Below(thread_clocks'[t], Bound', Tid \ {t})
  <2>1. Below(cu, Bound', Tid \ {t})
    <3> SUFFICES ASSUME NEW v \in Tid \ {t} PROVE cu[v] < Bound'[v]
      BY DEF Below
    <3>1. CASE v = u
      <4>1. cu[u] \in Nat /\ orphan_clock[u] \in Nat
        BY <1>1, <1>2 DEF VClock
      <4> QED BY <3>1, <4>1, <1>6
    <3>2. CASE v # u
      BY <3>2, <1>2, <1>7 DEF Below
    <3> QED BY <3>1, <3>2
  <2>2. Below(thread_clocks[t], Bound', Tid \ {t})
    BY <1>1, <1>5, <1>8, BelowHigher DEF CompleteInv, BoundInv
  <2> QED BY <2>1, <2>2, <1>1, <1>2, <1>4, <1>5, BelowJoin
<1>10. BoundInv'
  BY <1>1, <1>4, <1>8, <1>9, BoundStep DEF CompleteInv
<1>11. CallInv'
  BY <1>1, <1>4 DEF CompleteInv, CallInv
<1>12. HistoryExact'
  BY <1>1, <1>4 DEF CompleteInv, HistoryExact
<1>13. OwnCells'
  <2> SUFFICES ASSUME NEW x \in Cell, shadow'[x].kind # "none"
               PROVE  /\ shadow'[x].epoch > 0
                      /\ shadow'[x].tid \in thread_alive' => x \in thread_hb'[shadow'[x].tid]
                      /\ shadow'[x].tid \notin (thread_alive \ finished)' => x \in orphan_hb'
    BY DEF OwnCells
  <2>1. shadow[x].tid \in Tid
    BY DEF ShadowCell
  <2> QED BY <2>1, <1>1, <1>4 DEF CompleteInv, OwnCells
<1> QED BY <1>10, <1>11, <1>12, <1>13 DEF CompleteInv

(* A running thread acquires a sync address.                               *)
LEMMA AcquireComplete ==
  ASSUME TypeInv, TypeInv', CompleteInv, NEW t \in Running, NEW a \in SyncAddr,
         Acquire(t, a)
  PROVE  CompleteInv'
<1> USE DEF TypeInv, TypeOK
<1> DEFINE ca == sync_clocks[a]
<1>1. /\ t \in Tid /\ pc[t] = "idle" /\ Running' = Running
      /\ thread_alive' = thread_alive /\ finished' = finished
      /\ orphan_clock' = orphan_clock /\ orphan_hb' = orphan_hb
      /\ sync_clocks' = sync_clocks /\ sync_hb' = sync_hb
      /\ shadow' = shadow /\ pc' = pc /\ snapshot' = snapshot /\ snap_hb' = snap_hb
      /\ JoinInto(t, ca, sync_hb[a]) /\ UNCHANGED <<shadow, callVars>>
  BY DEF Acquire, Idle, Running, slotVars, syncVars, orphanVars, callVars
<1>2. ca \in VClock /\ Below(ca, Bound, Tid) /\ ca[t] < thread_clocks[t][t]
  BY <1>1 DEF CompleteInv, BoundInv, Below, Bound
<1>3. Distinguishes(shadow, ca, sync_hb[a], Tid)
  BY DEF CompleteInv, HistoryExact
<1>4. /\ \A v \in Tid : thread_clocks'[v][v] = thread_clocks[v][v]
      /\ \A v \in Tid \ {t} : thread_clocks'[v] = thread_clocks[v]
      /\ thread_clocks'[t] = Join(thread_clocks[t], ca)
      /\ \A v \in Tid : thread_hb[v] \subseteq thread_hb'[v]
      /\ \A v \in Tid : Distinguishes(shadow', thread_clocks'[v], thread_hb'[v], Tid)
      /\ \A v \in Tid : pc'[v] = "access" =>
           Distinguishes(shadow', snapshot'[v], snap_hb'[v], Tid \ {v})
  BY <1>1, <1>2, <1>3, JoinIntoComplete
<1>5. Bound' = Bound /\ Bound \in [Tid -> Nat]
  BY <1>1, <1>4, BoundType DEF Bound
<1>6. Below(thread_clocks'[t], Bound, Tid \ {t})
  <2>1. Below(thread_clocks[t], Bound, Tid \ {t}) /\ Below(ca, Bound, Tid \ {t})
    BY <1>1, <1>2 DEF CompleteInv, BoundInv, Below
  <2>2. Below(Join(thread_clocks[t], ca), Bound, Tid \ {t})
    BY <2>1, <1>1, <1>2, <1>5, BelowJoin
  <2> QED BY <2>2, <1>4
<1>7. BoundInv'
  <2>1. \A v \in Tid : Bound[v] <= Bound'[v]
    BY <1>5
  <2> QED BY <2>1, <1>1, <1>4, <1>5, <1>6, BoundStep DEF CompleteInv
<1>8. CallInv'
  BY <1>1, <1>4 DEF CompleteInv, CallInv
<1>9. HistoryExact'
  BY <1>1, <1>4 DEF CompleteInv, HistoryExact
<1>10. OwnCells'
  <2> SUFFICES ASSUME NEW x \in Cell, shadow'[x].kind # "none"
               PROVE  /\ shadow'[x].epoch > 0
                      /\ shadow'[x].tid \in thread_alive' => x \in thread_hb'[shadow'[x].tid]
                      /\ shadow'[x].tid \notin (thread_alive \ finished)' => x \in orphan_hb'
    BY DEF OwnCells
  <2>1. shadow[x].tid \in Tid
    BY DEF ShadowCell
  <2> QED BY <2>1, <1>1, <1>4 DEF CompleteInv, OwnCells
<1> QED BY <1>7, <1>8, <1>9, <1>10 DEF CompleteInv

(* A running thread releases a sync address and ticks.                     *)
LEMMA ReleaseComplete ==
  ASSUME TypeInv, TypeInv', CompleteInv, NEW t \in Running, NEW a \in SyncAddr,
         Release(t, a)
  PROVE  CompleteInv'
<1> USE DEF TypeInv, TypeOK
<1> DEFINE ct == thread_clocks[t]
<1>1. /\ t \in Tid /\ t \in thread_alive /\ pc[t] = "idle" /\ Running' = Running
      /\ thread_alive' = thread_alive /\ finished' = finished /\ t \notin finished
      /\ orphan_clock' = orphan_clock /\ orphan_hb' = orphan_hb
      /\ sync_clocks' = [sync_clocks EXCEPT ![a] = Join(sync_clocks[a], ct)]
      /\ sync_hb' = [sync_hb EXCEPT ![a] = sync_hb[a] \cup thread_hb[t]]
      /\ thread_clocks' = [thread_clocks EXCEPT ![t] = Increment(ct, t)]
      /\ thread_hb' = thread_hb
      /\ shadow' = shadow /\ pc' = pc /\ snapshot' = snapshot /\ snap_hb' = snap_hb
  BY DEF Release, Publish, Idle, Running, slotVars, orphanVars, callVars
<1>2. /\ ct \in VClock /\ Increment(ct, t)[t] = ct[t] + 1
      /\ \A u \in Tid \ {t} : Increment(ct, t)[u] = ct[u]
  BY <1>1 DEF Increment, VClock
<1>3. Bound \in [Tid -> Nat] /\ Bound' \in [Tid -> Nat]
  BY BoundType DEF Bound, VClock
<1>4. Bound[t] = ct[t] /\ Bound'[t] = ct[t] + 1
  BY <1>1, <1>2 DEF Bound
<1>5. \A u \in Tid \ {t} : Bound'[u] = Bound[u]
  BY <1>1 DEF Bound
<1>6. \A u \in Tid : Bound[u] <= Bound'[u]
  <2> SUFFICES ASSUME NEW u \in Tid PROVE Bound[u] <= Bound'[u]
    OBVIOUS
  <2>1. Bound[u] \in Nat
    BY <1>3
  <2>2. Bound'[u] = Bound[u] \/ Bound'[u] = Bound[u] + 1
    BY <1>4, <1>5
  <2> HIDE DEF TypeInv, TypeOK
  <2> QED BY <2>1, <2>2
<1>7. Below(ct, Bound', Tid)
  <2> SUFFICES ASSUME NEW u \in Tid PROVE ct[u] < Bound'[u]
    BY DEF Below
  <2>1. CASE u = t
    BY <2>1, <1>1, <1>2, <1>4 DEF VClock
  <2>2. CASE u # t
    BY <2>2, <1>1, <1>5 DEF CompleteInv, BoundInv, Below
  <2> QED BY <2>1, <2>2
<1>8. Below(sync_clocks'[a], Bound', Tid)
  <2>1. Below(sync_clocks[a], Bound', Tid)
    BY <1>3, <1>6, BelowHigher DEF CompleteInv, BoundInv
  <2> QED BY <2>1, <1>1, <1>2, <1>3, <1>7, BelowJoin
<1>9. Below(thread_clocks'[t], Bound', Tid \ {t})
  BY <1>1, <1>2, <1>7 DEF Below
<1>10. BoundInv'
  BY <1>1, <1>6, <1>8, <1>9, BoundStep DEF CompleteInv
<1>11. CallInv'
  BY <1>1 DEF CompleteInv, CallInv
<1>12. Distinguishes(shadow, Join(sync_clocks[a], ct), sync_hb[a] \cup thread_hb[t], Tid)
  BY <1>1, <1>2, DistinguishesJoin DEF CompleteInv, HistoryExact
<1>13. Distinguishes(shadow, Increment(ct, t), thread_hb[t], Tid)
  <2>1. \A x \in Cell : shadow[x].kind # "none" /\ shadow[x].tid = t => x \in thread_hb[t]
    BY <1>1 DEF CompleteInv, OwnCells
  <2> QED BY <2>1, <1>1, <1>2, DistinguishesIncrement DEF CompleteInv, HistoryExact
<1>14. HistoryExact'
  BY <1>1, <1>12, <1>13 DEF CompleteInv, HistoryExact
<1>15. OwnCells'
  BY <1>1 DEF CompleteInv, OwnCells
<1> QED BY <1>10, <1>11, <1>14, <1>15 DEF CompleteInv

(* A mutex is created or destroyed: its address forgets its clock.         *)
LEMMA ForgetComplete ==
  ASSUME TypeInv, TypeInv', CompleteInv, NEW a \in SyncAddr, Forget(a)
  PROVE  CompleteInv'
<1> USE DEF TypeInv, TypeOK
<1>1. /\ Running' = Running /\ Bound' = Bound
      /\ thread_alive' = thread_alive /\ finished' = finished
      /\ orphan_clock' = orphan_clock /\ orphan_hb' = orphan_hb
      /\ sync_clocks' = [sync_clocks EXCEPT ![a] = ZeroClock]
      /\ sync_hb' = [sync_hb EXCEPT ![a] = {}]
      /\ thread_clocks' = thread_clocks /\ thread_hb' = thread_hb
      /\ shadow' = shadow /\ pc' = pc /\ snapshot' = snapshot /\ snap_hb' = snap_hb
  BY DEF Forget, Running, Bound, slotVars, orphanVars, callVars
<1>2. Below(ZeroClock, Bound, Tid)
  <2> SUFFICES ASSUME NEW u \in Tid PROVE 0 < Bound[u]
    BY DEF Below, ZeroClock
  <2>1. orphan_clock[u] < Bound[u] /\ orphan_clock[u] \in Nat /\ Bound[u] \in Nat
    BY BoundType DEF CompleteInv, BoundInv, Below, VClock
  <2> QED BY <2>1
<1>3. BoundInv'
  <2>1. \A u \in Tid : Bound[u] <= Bound'[u]
    BY <1>1, BoundType
  <2> QED BY <2>1, <1>1, <1>2, BoundStep DEF CompleteInv
<1>4. CallInv'
  BY <1>1 DEF CompleteInv, CallInv
<1>5. Distinguishes(shadow, ZeroClock, {}, Tid)
  BY ZeroDistinguishes DEF CompleteInv, OwnCells
<1>6. HistoryExact'
  BY <1>1, <1>5 DEF CompleteInv, HistoryExact
<1>7. OwnCells'
  BY <1>1 DEF CompleteInv, OwnCells
<1> QED BY <1>3, <1>4, <1>6, <1>7 DEF CompleteInv

(* An access copies the thread's clock.                                    *)
LEMMA SnapshotComplete ==
  ASSUME TypeInv, TypeInv', CompleteInv, NEW t \in Running, TakeSnapshot(t)
  PROVE  CompleteInv'
<1> USE DEF TypeInv, TypeOK
<1>1. /\ t \in Tid /\ Running' = Running /\ Bound' = Bound
      /\ thread_alive' = thread_alive /\ finished' = finished
      /\ orphan_clock' = orphan_clock /\ orphan_hb' = orphan_hb
      /\ sync_clocks' = sync_clocks /\ sync_hb' = sync_hb
      /\ thread_clocks' = thread_clocks /\ thread_hb' = thread_hb /\ shadow' = shadow
      /\ pc' = [pc EXCEPT ![t] = "access"]
      /\ snapshot' = [snapshot EXCEPT ![t] = thread_clocks[t]]
      /\ snap_hb' = [snap_hb EXCEPT ![t] = thread_hb[t]]
  BY DEF TakeSnapshot, Running, Bound, slotVars, orphanVars, syncVars
<1>2. BoundInv'
  <2>1. \A u \in Tid : Bound[u] <= Bound'[u]
    BY <1>1, BoundType
  <2>2. Below(snapshot'[t], Bound', Tid \ {t})
    BY <1>1 DEF CompleteInv, BoundInv
  <2> QED BY <2>1, <2>2, <1>1, BoundStep DEF CompleteInv
<1>3. CallInv'
  BY <1>1 DEF CompleteInv, CallInv
<1>4. Distinguishes(shadow, thread_clocks[t], thread_hb[t], Tid \ {t})
  BY <1>1 DEF CompleteInv, HistoryExact, Distinguishes
<1>5. HistoryExact'
  BY <1>1, <1>4 DEF CompleteInv, HistoryExact
<1>6. OwnCells'
  BY <1>1 DEF CompleteInv, OwnCells
<1> QED BY <1>2, <1>3, <1>5, <1>6 DEF CompleteInv

(* One byte of a running access: its cell takes the thread's epoch, which  *)
(* no other clock has reached.                                             *)
LEMMA RecordComplete ==
  ASSUME TypeInv, TypeInv', CompleteInv, NEW t \in Running, RecordByte(t)
  PROVE  CompleteInv'
<1> USE DEF TypeInv, TypeOK
<1> DEFINE x == <<call[t].byte, t % kShadowCellsPerByte>>
           now == thread_clocks[t][t]
<1>1. t \in Tid /\ t \in thread_alive /\ t \notin finished
  BY DEF Running
<1>2. x \in Cell /\ pc[t] = "access" /\ snapshot[t][t] = now
  BY <1>1, CursorCell DEF RecordByte, CompleteInv, CallInv
<1>3. /\ Running' = Running /\ Bound' = Bound
      /\ thread_alive' = thread_alive /\ finished' = finished
      /\ orphan_clock' = orphan_clock /\ orphan_hb' = orphan_hb \ {x}
      /\ sync_clocks' = sync_clocks /\ \A a \in SyncAddr : sync_hb'[a] = sync_hb[a] \ {x}
      /\ thread_clocks' = thread_clocks
      /\ \A u \in Tid \ {t} : thread_hb'[u] = thread_hb[u] \ {x}
      /\ thread_hb'[t] = thread_hb[t] \cup {x}
  BY <1>1 DEF RecordByte, Running, Bound, slotVars
<1>4. /\ \A y \in Cell \ {x} : shadow'[y] = shadow[y]
      /\ shadow'[x].tid = t /\ shadow'[x].epoch = now
      /\ shadow'[x].kind = call[t].kind /\ shadow'[x].kind # "none"
  BY <1>1, <1>2 DEF RecordByte, Call
<1>5. ASSUME NEW u \in Tid, pc'[u] = "access"
      PROVE  /\ pc[u] = "access" /\ snapshot'[u] = snapshot[u]
             /\ snap_hb'[u] = snap_hb[u] \ {x}
  <2>1. CASE u = t
    <3>1. ~ Ends(t, Races(t) # {})
      BY <2>1, <1>1, <1>5 DEF RecordByte, Advance
    <3> QED BY <2>1, <3>1, <1>2 DEF RecordByte
  <2>2. CASE u # t
    BY <2>2, <1>5 DEF RecordByte, Advance
  <2> QED BY <2>1, <2>2
<1>6. Bound[t] = now /\ now \in Nat /\ now > 0
  <2>1. Bound[t] = now /\ now \in Nat /\ orphan_clock[t] \in Nat
    BY <1>1 DEF Bound, VClock
  <2>2. orphan_clock[t] < Bound[t]
    BY <1>1 DEF CompleteInv, BoundInv, Below
  <2> QED BY <2>1, <2>2
<1>7. BoundInv'
  <2>1. \A u \in Tid : Bound[u] <= Bound'[u]
    BY <1>3, BoundType
  <2> QED BY <2>1, <1>3, <1>5, BoundStep DEF CompleteInv
<1>8. CallInv'
  <2>1. \A u \in Tid : pc'[u] # "idle" => pc[u] # "idle"
    BY <1>1 DEF RecordByte, Advance
  <2> QED BY <2>1, <1>3, <1>5 DEF CompleteInv, CallInv
<1>9. ASSUME NEW c, NEW h, NEW S \in SUBSET Tid, Distinguishes(shadow, c, h, S),
             t \in S => c[t] < now
      PROVE  Distinguishes(shadow', c, h \ {x}, S)
  <2> SUFFICES ASSUME NEW y \in Cell \ (h \ {x}), shadow'[y].kind # "none",
                      shadow'[y].tid \in S
               PROVE  c[shadow'[y].tid] < shadow'[y].epoch
    BY DEF Distinguishes
  <2>1. CASE y = x
    BY <2>1, <1>4, <1>9
  <2>2. CASE y # x
    BY <2>2, <1>4, <1>9 DEF Distinguishes
  <2> QED BY <2>1, <2>2
<1>10. Distinguishes(shadow', thread_clocks'[t], thread_hb'[t], Tid)
  BY <1>1, <1>3, <1>4 DEF CompleteInv, HistoryExact, Distinguishes
<1>11. ASSUME NEW u \in Tid \ {t}
       PROVE  Distinguishes(shadow', thread_clocks'[u], thread_hb'[u], Tid)
  <2>1. thread_clocks[u][t] < now
    BY <1>1, <1>6 DEF CompleteInv, BoundInv, Below
  <2> QED BY <2>1, <1>3, <1>9 DEF CompleteInv, HistoryExact
<1>12. Distinguishes(shadow', orphan_clock', orphan_hb', Tid)
  <2>1. orphan_clock[t] < now
    BY <1>1, <1>6 DEF CompleteInv, BoundInv, Below
  <2> QED BY <2>1, <1>3, <1>9 DEF CompleteInv, HistoryExact
<1>13. ASSUME NEW a \in SyncAddr
       PROVE  Distinguishes(shadow', sync_clocks'[a], sync_hb'[a], Tid)
  <2>1. sync_clocks[a][t] < now
    BY <1>1, <1>6 DEF CompleteInv, BoundInv, Below
  <2> QED BY <2>1, <1>3, <1>9 DEF CompleteInv, HistoryExact
<1>14. ASSUME NEW u \in Tid, pc'[u] = "access"
       PROVE  Distinguishes(shadow', snapshot'[u], snap_hb'[u], Tid \ {u})
  <2>1. t \in Tid \ {u} => snapshot[u][t] < now
    BY <1>1, <1>5, <1>6, <1>14 DEF CompleteInv, BoundInv, Below
  <2>2. Distinguishes(shadow, snapshot[u], snap_hb[u], Tid \ {u})
    BY <1>5, <1>14 DEF CompleteInv, HistoryExact
  <2>3. Distinguishes(shadow', snapshot[u], snap_hb[u] \ {x}, Tid \ {u})
    BY <2>1, <2>2, <1>9
  <2> QED BY <2>3, <1>5, <1>14
<1>15. HistoryExact'
  BY <1>10, <1>11, <1>12, <1>13, <1>14 DEF HistoryExact
<1>16. OwnCells'
  <2> SUFFICES ASSUME NEW y \in Cell, shadow'[y].kind # "none"
               PROVE  /\ shadow'[y].epoch > 0
                      /\ shadow'[y].tid \in thread_alive' => y \in thread_hb'[shadow'[y].tid]
                      /\ shadow'[y].tid \notin (thread_alive \ finished)' => y \in orphan_hb'
    BY DEF OwnCells
  <2>1. CASE y = x
    BY <2>1, <1>1, <1>3, <1>4, <1>6
  <2>2. CASE y # x
    <3>1. shadow'[y] = shadow[y] /\ shadow[y].tid \in Tid
      BY <2>2, <1>4 DEF ShadowCell
    <3> QED BY <3>1, <2>2, <1>3 DEF CompleteInv, OwnCells
  <2> QED BY <2>1, <2>2
<1> QED BY <1>7, <1>8, <1>15, <1>16 DEF CompleteInv

(* Clearing cells, and starting a clear or an access: no clock moves.      *)
LEMMA ClearComplete ==
  ASSUME TypeInv, TypeInv', CompleteInv,
         \A x \in Cell : shadow'[x] = shadow[x] \/ shadow'[x].kind = "none",
         UNCHANGED <<thread_clocks, thread_hb, slotVars, syncVars, orphanVars,
                     snapshot, snap_hb>>,
         \A u \in Tid : pc'[u] = pc[u] \/ pc'[u] = "idle"
                          \/ (pc'[u] \in {"clear", "lookup"} /\ u \in Running)
  PROVE  CompleteInv'
<1> USE DEF TypeInv, TypeOK
<1>1. /\ Running' = Running /\ Bound' = Bound
      /\ thread_alive' = thread_alive /\ finished' = finished
      /\ orphan_clock' = orphan_clock /\ orphan_hb' = orphan_hb
      /\ sync_clocks' = sync_clocks /\ sync_hb' = sync_hb
      /\ thread_clocks' = thread_clocks /\ thread_hb' = thread_hb
      /\ snapshot' = snapshot /\ snap_hb' = snap_hb
      /\ \A u \in Tid : pc'[u] = "access" => pc[u] = "access"
  BY DEF Running, Bound, slotVars, orphanVars, syncVars
<1>2. BoundInv'
  <2>1. \A u \in Tid : Bound[u] <= Bound'[u]
    BY <1>1, BoundType
  <2> QED BY <2>1, <1>1, BoundStep DEF CompleteInv
<1>3. CallInv'
  BY <1>1 DEF CompleteInv, CallInv
<1>4. HistoryExact'
  BY <1>1, DistinguishesFewer DEF CompleteInv, HistoryExact
<1>5. OwnCells'
  BY <1>1 DEF CompleteInv, OwnCells
<1> QED BY <1>2, <1>3, <1>4, <1>5 DEF CompleteInv

(* One step of the disciplined program keeps CompleteInv.                  *)
LEMMA StepComplete ==
  TypeInv /\ TypeInv' /\ CompleteInv /\ [DisciplinedNext]_vars => CompleteInv'
<1> SUFFICES ASSUME TypeInv, TypeInv', CompleteInv, [DisciplinedNext]_vars
             PROVE  CompleteInv'
  OBVIOUS
<1>0. Running \subseteq Tid /\ thread_alive \subseteq Tid
  BY DEF TypeInv, TypeOK, Running
<1>1. CASE UNCHANGED vars
  BY <1>1, ClearComplete DEF vars, callVars
<1>2. CASE RemoveShadow
  BY <1>2, ClearComplete DEF RemoveShadow, EmptyCell, callVars
<1>3. ASSUME NEW t \in Running, NEW range \in Ranges, ClearShadow(t, range)
      PROVE  CompleteInv'
  BY <1>0, <1>3, ClearComplete DEF ClearShadow, TypeInv, TypeOK
<1>4. ASSUME NEW t \in Running, ClearByte(t) PROVE CompleteInv'
  <2>1. \A u \in Tid : pc'[u] = pc[u] \/ pc'[u] = "idle"
    <3>1. pc' = pc \/ pc' = [pc EXCEPT ![t] = "idle"]
      BY <1>4 DEF ClearByte, Advance
    <3>2. pc \in [Tid -> {"idle", "lookup", "access", "clear"}]
      BY DEF TypeInv, TypeOK
    <3> QED BY <3>1, <3>2
  <2> QED BY <2>1, <1>4, ClearComplete DEF ClearByte, EmptyCell
<1>a. ASSUME NEW t \in Running, NEW range \in Ranges, NEW kind \in {"read", "write"},
             MemoryAccess(t, range, kind)
      PROVE  CompleteInv'
  BY <1>0, <1>a, ClearComplete DEF MemoryAccess, TypeInv, TypeOK
<1>5. CASE SyncNext(Running)
  BY <1>5, <1>2, <1>3, <1>4, <1>a, AcquireComplete, ReleaseComplete, ForgetComplete,
     SnapshotComplete, RecordComplete
  DEF SyncNext, MutexCreate, MutexDestroy, MutexPostLock, MutexReadLock, MutexUnlock
<1> QED
  BY <1>0, <1>1, <1>5, CreateComplete, FinishComplete, DestroyComplete, JoinComplete,
     AbsorbComplete
  DEF DisciplinedNext

LEMMA DisciplinedComplete == DisciplinedSpec => [](TypeInv /\ CompleteInv)
BY InitType, StepType, DisciplinedIsNext, InitComplete, StepComplete, PTL
DEF DisciplinedSpec

(* A clock that has not reached the epoch of an access outside its holder's*)
(* history lets none of them pass as ordered.                              *)
LEMMA CompleteNoMissedRace == TypeInv /\ CompleteInv => NoMissedRace
<1> SUFFICES ASSUME TypeInv, CompleteInv, NEW t \in Tid, pc[t] = "access",
                    NEW x \in {call[t].byte} \X Slot,
                    shadow[x].kind # "none", shadow[x].tid # t,
                    "write" \in {shadow[x].kind, call[t].kind}, x \notin snap_hb[t]
             PROVE  x \in Races(t)
  BY DEF NoMissedRace
<1>1. x \in Cell /\ shadow[x].tid \in Tid
  BY DEF TypeInv, TypeOK, CursorInBuffer, Cell, ShadowCell
<1>2. snapshot[t][shadow[x].tid] < shadow[x].epoch
  BY <1>1 DEF CompleteInv, HistoryExact, Distinguishes
<1> QED BY <1>2 DEF Races, Conflicts

(* No missed race, for every instance of the disciplined program: an       *)
(* access reports each conflicting access still in a cell of its byte that *)
(* does not happen before it (RecordAccess, with the tick of Release and   *)
(* the orphan clock of ThreadCreate).                                      *)
THEOREM NoRaceMissed == DisciplinedSpec => []NoMissedRace
BY CompleteNoMissedRace, DisciplinedComplete, PTL

(* Nobody has seen a running thread's epoch, for every instance of the     *)
(* disciplined program.                                                    *)
THEOREM NoEpochSeen == DisciplinedSpec => []EpochsUnseen
<1>1. TypeInv /\ CompleteInv => EpochsUnseen
  <2> SUFFICES ASSUME TypeInv, CompleteInv, NEW u \in Running
               PROVE  /\ orphan_clock[u] < thread_clocks[u][u]
                      /\ \A t \in Tid \ {u} : thread_clocks[t][u] < thread_clocks[u][u]
                      /\ \A a \in SyncAddr : sync_clocks[a][u] < thread_clocks[u][u]
                      /\ \A t \in Tid \ {u} : pc[t] = "access" =>
                           snapshot[t][u] < thread_clocks[u][u]
    BY DEF EpochsUnseen
  <2>1. u \in Tid /\ Bound[u] = thread_clocks[u][u]
    BY DEF TypeInv, TypeOK, Running, Bound
  <2> QED BY <2>1 DEF CompleteInv, BoundInv, Below
<1> QED BY <1>1, DisciplinedComplete, PTL

-----------------------------------------------------------------------------
(* The clocks stand for the order, for every instance of the disciplined   *)
(* program: with NoFalseRace and NoMissedRace the test of RecordAccess is  *)
(* the one of RaceDetector, and every step of the detector is a step of    *)
(* RaceDetector or leaves all that it speaks of alone.                     *)

ExactInv == TypeInv /\ CompleteInv /\ SoundInv /\ robbed = {}

(* The slots are what RaceDetector calls them.                             *)
LEMMA StatusOf ==
  ASSUME NEW t \in Tid
  PROVE  /\ Status[t] = "free" <=> t \notin thread_alive
         /\ Status[t] = "running" <=> t \in Running
         /\ Status[t] = "finished" <=> t \in thread_alive \cap finished
BY DEF Status, Running

(* A disciplined program starts a worker only while a slot is free, so no  *)
(* live thread loses its slot.                                             *)
LEMMA NobodyLosesSlot == robbed = {} /\ [DisciplinedNext]_vars => robbed' = {}
<1> SUFFICES ASSUME robbed = {}, [DisciplinedNext]_vars PROVE robbed' = {}
  OBVIOUS
<1>1. ASSUME thread_alive # Tid, ThreadCreate(NoTid) PROVE robbed' = {}
  BY <1>1 DEF ThreadCreate, StartThread, Allocated
<1>2. CASE SyncNext(Running) \/ UNCHANGED vars
  BY <1>2
  DEF SyncNext, vars, slotVars, Acquire, Release, Forget, MutexCreate, MutexDestroy,
      MutexPostLock, MutexReadLock, MutexUnlock, MemoryAccess, TakeSnapshot, RecordByte,
      RemoveShadow, ClearShadow, ClearByte
<1>3. ASSUME NEW t, NEW u, \/ ThreadFinish(t) \/ ThreadDestroy(t)
                           \/ ThreadJoin(t, u) \/ ThreadAbsorb(t, u)
      PROVE  robbed' = {}
  BY <1>3 DEF ThreadFinish, ThreadDestroy, ThreadJoin, ThreadAbsorb
<1> QED BY <1>1, <1>2, <1>3 DEF DisciplinedNext

LEMMA DisciplinedExact == DisciplinedSpec => []ExactInv
<1>1. Init => ExactInv
  BY InitType, InitSound, InitComplete DEF ExactInv, Init
<1>2. ExactInv /\ [DisciplinedNext]_vars => ExactInv'
  BY DisciplinedIsNext, StepType, StepSound, StepComplete, NobodyLosesSlot DEF ExactInv
<1> QED BY <1>1, <1>2, PTL DEF DisciplinedSpec

(* The test of RecordAccess picks the conflicting cells that do not happen *)
(* before the access: none of them is missed, and no other is taken.       *)
LEMMA RacesAreUnordered ==
  ExactInv => RacesFound = [t \in Tid |-> Order!Unordered(t)]
<1> SUFFICES ASSUME ExactInv, NEW t \in Tid
             PROVE  (IF pc[t] = "access" THEN Races(t) ELSE {}) = Order!Unordered(t)
  BY DEF RacesFound
<1>1. CASE pc[t] # "access"
  <2>1. RunningAccess[t].kind = "none"
    BY <1>1 DEF RunningAccess
  <2> QED BY <1>1, <2>1 DEF Order!Unordered
<1>2. CASE pc[t] = "access"
  <2>1. /\ RunningAccess[t].byte = call[t].byte /\ RunningAccess[t].kind = call[t].kind
        /\ RunningAccess[t].before = snap_hb[t]
    BY <1>2 DEF RunningAccess
  <2>2. call[t].byte \in Byte /\ call[t].kind \in {"read", "write"}
    BY <1>2 DEF ExactInv, TypeInv, TypeOK, CursorInBuffer, Call
  <2>3. ASSUME NEW x \in {call[t].byte} \X Slot
        PROVE  /\ x \in Cell /\ KeptCells[x].kind = shadow[x].kind
               /\ KeptCells[x].tid = shadow[x].tid
    BY <2>2 DEF Cell, KeptCells
  <2>4. NoMissedRace /\ NoFalseRace
    BY CompleteNoMissedRace, SoundNoFalseRace DEF ExactInv
  <2>5. ASSUME NEW x \in {call[t].byte} \X Slot
        PROVE  x \in Races(t) <=>
                 /\ shadow[x].kind # "none" /\ shadow[x].tid # t
                 /\ "write" \in {shadow[x].kind, call[t].kind}
                 /\ x \notin snap_hb[t]
    <3>1. x \in Races(t) => Conflicts(t, x) /\ x \notin snap_hb[t]
      BY <1>2, <2>4 DEF Races, NoFalseRace, ExactInv
    <3>2. Conflicts(t, x) <=> /\ shadow[x].kind # "none" /\ shadow[x].tid # t
                              /\ "write" \in {shadow[x].kind, call[t].kind}
      BY DEF Conflicts
    <3> QED BY <1>2, <2>4, <3>1, <3>2 DEF NoMissedRace
  <2>6. Races(t) \subseteq {call[t].byte} \X Slot
    BY DEF Races
  <2>7. Order!Unordered(t) =
          {x \in {call[t].byte} \X Slot :
             /\ shadow[x].kind # "none" /\ shadow[x].tid # t
             /\ "write" \in {shadow[x].kind, call[t].kind}
             /\ x \notin snap_hb[t]}
    BY <2>1, <2>2, <2>3 DEF Order!Unordered, Order!Slot, Slot
  <2> QED BY <1>2, <2>5, <2>6, <2>7
<1> QED BY <1>1, <1>2

\* The steps that RaceDetector does not see.
Unseen == UNCHANGED <<Status, KeptCells, thread_hb, orphan_hb, sync_hb, RunningAccess>>

(* The races are the unordered accesses in both states, so a step of       *)
(* RaceDetector needs nothing else of them.                                *)
LEMMA StepWithRaces ==
  ASSUME ExactInv, ExactInv', Order!Step \/ Unseen
  PROVE  [Order!Next]_(Order!state)
<1>1. /\ RacesFound = [t \in Tid |-> Order!Unordered(t)]
      /\ RacesFound' = [t \in Tid |-> Order!Unordered(t)']
  <2>1. (ExactInv => RacesFound = [t \in Tid |-> Order!Unordered(t)])'
    BY RacesAreUnordered, PTL
  <2> QED BY <2>1, RacesAreUnordered
<1>2. CASE Order!Step
  BY <1>1, <1>2 DEF Order!Next
<1>3. CASE Unseen
  <2>1. \A t \in Tid : Order!Unordered(t)' = Order!Unordered(t)
    BY <1>3 DEF Unseen, Order!Unordered
  <2> QED BY <1>1, <1>3, <2>1 DEF Unseen, Order!state
<1> QED BY <1>2, <1>3

(* A thread in no call has no access.                                      *)
LEMMA IdleRuns ==
  ASSUME NEW t \in Running, Idle(t), t \in Tid
  PROVE  Order!Runs(t)
BY StatusOf DEF Order!Runs, Order!NoAccess, RunningAccess, Idle

(* The operations on the life of a thread.                                 *)
LEMMA LifeIsOrder ==
  ASSUME ExactInv,
         \/ thread_alive # Tid /\ ThreadCreate(NoTid)
         \/ \E t \in Running : ThreadFinish(t)
         \/ \E t \in thread_alive : ThreadDestroy(t)
         \/ \E t \in Running, u \in finished : ThreadJoin(t, u)
         \/ \E t, u \in Running : ThreadAbsorb(t, u)
  PROVE  Order!Step
<1>0. /\ thread_alive \subseteq Tid /\ finished \subseteq Tid /\ Running \subseteq Tid
      /\ Running = thread_alive \ (finished \cup retired)
      /\ thread_hb \in [Tid -> SUBSET Cell]
      /\ Status \in [Tid -> {"free", "finished", "left", "running"}]
  BY DEF ExactInv, TypeInv, TypeOK, Running, Status
<1>1. CASE thread_alive # Tid /\ ThreadCreate(NoTid)
  <2>1. PICK t \in Tid : StartThread(NoTid, t)
    BY <1>1 DEF ThreadCreate
  <2>2. t \notin thread_alive /\ InheritedHb(NoTid, t) = {}
    BY <1>0, <1>1, <2>1, MaxThreadsAssumption DEF StartThread, Allocated, InheritedHb, NoTid, Tid
  <2>3. /\ Status' = [Status EXCEPT ![t] = "running"]
        /\ thread_hb' = [thread_hb EXCEPT ![t] = orphan_hb]
    BY <2>1, <2>2 DEF StartThread, Status
  <2>4. UNCHANGED <<KeptCells, orphan_hb, sync_hb, RunningAccess>>
    BY <2>1 DEF StartThread, KeptCells, RunningAccess, orphanVars, syncVars, callVars
  <2>5. Order!Create(t)
    BY <2>2, <2>3, <2>4, StatusOf DEF Order!Create
  <2> QED BY <2>5 DEF Order!Step
<1>2. ASSUME NEW t \in Running, ThreadFinish(t) PROVE Order!Step
  <2>1. t \in Tid /\ Order!Runs(t)
    BY <1>0, <1>2, IdleRuns DEF ThreadFinish
  <2>2. Status' = [Status EXCEPT ![t] = "finished"]
    BY <1>0, <1>2 DEF ThreadFinish, Status
  <2>3. thread_hb' = [u \in Tid |-> IF u # t /\ Status[u] # "free"
                                    THEN thread_hb[u] \cup thread_hb[t] ELSE thread_hb[u]]
    BY <1>2, StatusOf DEF ThreadFinish
  <2>4. /\ orphan_hb' = orphan_hb \cup thread_hb[t]
        /\ UNCHANGED <<KeptCells, sync_hb, RunningAccess>>
    BY <1>2 DEF ThreadFinish, KeptCells, RunningAccess, syncVars, callVars
  <2>5. Order!Finish(t)
    BY <2>1, <2>2, <2>3, <2>4 DEF Order!Finish
  <2> QED BY <2>1, <2>5 DEF Order!Step
<1>3. ASSUME NEW t \in thread_alive, ThreadDestroy(t) PROVE Order!Step
  <2>1. t \in Tid /\ Status[t] # "free" /\ RunningAccess[t] = Order!NoAccess
    BY <1>0, <1>3, StatusOf DEF ThreadDestroy, Idle, RunningAccess, Order!NoAccess
  <2>2. Status' = [Status EXCEPT ![t] = "free"]
    BY <1>0, <1>3 DEF ThreadDestroy, Status
  <2>3. /\ orphan_hb' = orphan_hb \cup thread_hb[t]
        /\ UNCHANGED <<KeptCells, thread_hb, sync_hb, RunningAccess>>
    BY <1>3 DEF ThreadDestroy, KeptCells, RunningAccess, syncVars, callVars
  <2>4. Order!Destroy(t)
    BY <2>1, <2>2, <2>3 DEF Order!Destroy
  <2> QED BY <2>1, <2>4 DEF Order!Step
<1>4. ASSUME NEW t \in Running, NEW u \in finished, ThreadJoin(t, u) PROVE Order!Step
  <2>1. t \in Tid /\ u \in Tid /\ Order!Runs(t) /\ Status[u] = "finished"
    BY <1>0, <1>4, IdleRuns, StatusOf DEF ThreadJoin, Idle
  <2>2. Status' = [Status EXCEPT ![u] = "free"]
    BY <1>0, <1>4 DEF ThreadJoin, Status
  <2>3. /\ thread_hb' = [thread_hb EXCEPT ![t] = @ \cup thread_hb[u]]
        /\ UNCHANGED <<KeptCells, orphan_hb, sync_hb, RunningAccess>>
    BY <1>4 DEF ThreadJoin, JoinInto, KeptCells, RunningAccess, syncVars, orphanVars, callVars
  <2>4. Order!JoinThread(t, u)
    BY <2>1, <2>2, <2>3 DEF Order!JoinThread
  <2> QED BY <2>1, <2>4 DEF Order!Step
<1>5. ASSUME NEW t \in Running, NEW u \in Running, ThreadAbsorb(t, u) PROVE Order!Step
  <2>1. t \in Tid /\ u \in Tid /\ t # u /\ Order!Runs(t) /\ Order!Runs(u)
    BY <1>0, <1>5, IdleRuns DEF ThreadAbsorb
  <2>2. Status' = [Status EXCEPT ![u] = "left"]
    BY <1>0, <1>5 DEF ThreadAbsorb, Status
  <2>3. /\ thread_hb' = [thread_hb EXCEPT ![t] = @ \cup thread_hb[u]]
        /\ UNCHANGED <<KeptCells, orphan_hb, sync_hb, RunningAccess>>
    BY <1>5
    DEF ThreadAbsorb, JoinInto, KeptCells, RunningAccess, syncVars, orphanVars, callVars
  <2>4. Order!Absorb(t, u)
    BY <2>1, <2>2, <2>3 DEF Order!Absorb
  <2> QED BY <2>1, <2>4 DEF Order!Step
<1> QED BY <1>1, <1>2, <1>3, <1>4, <1>5

(* Acquire and release, of atomics and of mutexes.                         *)
LEMMA SyncIsOrder ==
  ASSUME ExactInv,
         \/ \E t \in Running, a \in SyncAddr : Acquire(t, a) \/ Release(t, a)
         \/ \E a \in SyncAddr : Forget(a)
  PROVE  Order!Step
<1>0. Running \subseteq Tid
  BY DEF ExactInv, TypeInv, TypeOK, Running
<1>1. ASSUME NEW t \in Running, NEW a \in SyncAddr, Acquire(t, a) PROVE Order!Step
  <2>1. t \in Tid /\ Order!Runs(t)
    BY <1>0, <1>1, IdleRuns DEF Acquire
  <2>2. /\ thread_hb' = [thread_hb EXCEPT ![t] = @ \cup sync_hb[a]]
        /\ UNCHANGED <<Status, KeptCells, orphan_hb, sync_hb, RunningAccess>>
    BY <1>1
    DEF Acquire, JoinInto, Status, KeptCells, RunningAccess, slotVars, syncVars, orphanVars,
        callVars
  <2>3. Order!Acquire(t, a)
    BY <2>1, <2>2 DEF Order!Acquire
  <2> QED BY <2>1, <2>3 DEF Order!Step
<1>2. ASSUME NEW t \in Running, NEW a \in SyncAddr, Release(t, a) PROVE Order!Step
  <2>1. t \in Tid /\ Order!Runs(t)
    BY <1>0, <1>2, IdleRuns DEF Release
  <2>2. /\ sync_hb' = [sync_hb EXCEPT ![a] = @ \cup thread_hb[t]]
        /\ UNCHANGED <<Status, KeptCells, thread_hb, orphan_hb, RunningAccess>>
    BY <1>2 DEF Release, Status, KeptCells, RunningAccess, slotVars, orphanVars, callVars
  <2>3. Order!Release(t, a)
    BY <2>1, <2>2 DEF Order!Release
  <2> QED BY <2>1, <2>3 DEF Order!Step
<1>3. ASSUME NEW a \in SyncAddr, Forget(a) PROVE Order!Step
  <2>1. /\ sync_hb' = [sync_hb EXCEPT ![a] = {}]
        /\ UNCHANGED <<Status, KeptCells, thread_hb, orphan_hb, RunningAccess>>
    BY <1>3 DEF Forget, Status, KeptCells, RunningAccess, slotVars, orphanVars, callVars
  <2>2. Order!Forget(a)
    BY <2>1 DEF Order!Forget
  <2> QED BY <2>2 DEF Order!Step
<1> QED BY <1>1, <1>2, <1>3

(* The range of a call is one that an access of RaceDetector may have.     *)
LEMMA CallInTypes ==
  ASSUME ExactInv, NEW t \in Tid, pc[t] # "idle"
  PROVE  /\ call[t].byte \in Byte /\ call[t].byte \in 0 .. ByteLength - 1
         /\ call[t].end \in 1 .. ByteLength /\ call[t].byte < call[t].end
         /\ call[t].kind \in {"read", "write"}
         /\ call[t] \in Call
<1>1. call[t] \in Call /\ call[t].byte \in Byte /\ call[t].byte < call[t].end
      /\ call[t].end <= ByteLength
  BY DEF ExactInv, TypeInv, TypeOK, CursorInBuffer
<1> QED BY <1>1, ShadowAssumption DEF Call, Byte

(* The copy of the thread's clock begins the access, with what is known    *)
(* now: what is learnt later does not happen before it.                    *)
LEMMA BeginIsOrder ==
  ASSUME ExactInv, NEW t \in Tid, TakeSnapshot(t)
  PROVE  Order!Step
<1>1. Status[t] = "running" /\ RunningAccess[t] = Order!NoAccess
  <2>1. t \in Running
    BY DEF ExactInv, CompleteInv, CallInv, TakeSnapshot
  <2> QED BY <2>1, StatusOf DEF TakeSnapshot, RunningAccess, Order!NoAccess
<1>2. /\ call[t].byte \in 0 .. ByteLength - 1 /\ call[t].end \in 1 .. ByteLength
      /\ call[t].byte < call[t].end /\ call[t].kind \in {"read", "write"}
  BY CallInTypes DEF TakeSnapshot
<1>3. pc \in [Tid -> {"idle", "lookup", "access", "clear"}] /\ snap_hb \in [Tid -> SUBSET Cell]
  BY DEF ExactInv, TypeInv, TypeOK
<1>4. RunningAccess' =
        [RunningAccess EXCEPT ![t] = [byte |-> call[t].byte, end |-> call[t].end,
                                      kind |-> call[t].kind, before |-> thread_hb[t]]]
  BY <1>3 DEF TakeSnapshot, RunningAccess
<1>5. UNCHANGED <<Status, KeptCells, thread_hb, orphan_hb, sync_hb>>
  BY DEF TakeSnapshot, Status, KeptCells, slotVars, orphanVars, syncVars
<1>6. Order!Begin(t)
  BY <1>1, <1>2, <1>4, <1>5 DEF Order!Begin, Order!Runs, Order!Byte
<1> QED BY <1>6 DEF Order!Step

(* What an access becomes when a cell is taken from what happens before it.*)
LEMMA AccessWithout ==
  ASSUME NEW K, NEW gone, NEW r \in [byte : Nat, end : Nat, kind : K, before : SUBSET Cell]
  PROVE  [r EXCEPT !.before = @ \ gone]
           = [byte |-> r.byte, end |-> r.end, kind |-> r.kind, before |-> r.before \ gone]
OBVIOUS

(* Accesses with the same fields are the same.                             *)
LEMMA SameAccess ==
  ASSUME NEW K, NEW a \in [byte : Nat, end : Nat, kind : K, before : SUBSET Cell],
         NEW b \in [byte : Nat, end : Nat, kind : K, before : SUBSET Cell],
         a.byte = b.byte, a.end = b.end, a.kind = b.kind, a.before = b.before
  PROVE  a = b
OBVIOUS

(* The cursor moves on, and a cell is taken from what happens before.      *)
LEMMA AccessMoved ==
  ASSUME NEW K, NEW gone, NEW r \in [byte : Nat, end : Nat, kind : K, before : SUBSET Cell]
  PROVE  [r EXCEPT !.byte = @ + 1, !.before = @ \ gone]
           = [byte |-> r.byte + 1, end |-> r.end, kind |-> r.kind, before |-> r.before \ gone]
<1> DEFINE a == [r EXCEPT !.byte = @ + 1, !.before = @ \ gone]
           b == [byte |-> r.byte + 1, end |-> r.end, kind |-> r.kind,
                 before |-> r.before \ gone]
           Accesses == [byte : Nat, end : Nat, kind : K, before : SUBSET Cell]
<1>1. r.byte + 1 \in Nat /\ r.before \ gone \in SUBSET Cell
  OBVIOUS
<1>2. a \in Accesses /\ b \in Accesses
  BY <1>1
<1>3. a.byte = r.byte + 1 /\ a.end = r.end /\ a.kind = r.kind /\ a.before = r.before \ gone
  BY <1>1
<1>4. b.byte = r.byte + 1 /\ b.end = r.end /\ b.kind = r.kind /\ b.before = r.before \ gone
  BY <1>1
<1>5. a = b
  <2> HIDE DEF a, b
  <2> QED BY <1>2, <1>3, <1>4, SameAccess
<1> QED BY <1>5

(* Recording the byte of an access ends it at a race or at its last byte,  *)
(* and the cell's old access is forgotten by all.                          *)
LEMMA RecordIsOrder ==
  ASSUME ExactInv, NEW t \in Tid, RecordByte(t)
  PROVE  Order!Step
<1> DEFINE x == <<call[t].byte, t % kShadowCellsPerByte>>
           race == Races(t) # {}
<1>1. pc[t] = "access"
  BY DEF RecordByte
<1>2. /\ call[t].byte \in Byte /\ call[t].kind \in {"read", "write"} /\ call[t] \in Call
  BY <1>1, CallInTypes
<1>3. /\ pc \in [Tid -> {"idle", "lookup", "access", "clear"}] /\ call \in [Tid -> Call]
      /\ snap_hb \in [Tid -> SUBSET Cell] /\ shadow \in [Cell -> ShadowCell]
  BY DEF ExactInv, TypeInv, TypeOK
<1>4. ASSUME NEW u \in Tid, pc[u] = "access"
      PROVE  /\ RunningAccess[u] \in [byte : Nat, end : Nat, kind : {"read", "write"},
                                      before : SUBSET Cell]
             /\ RunningAccess[u].byte = call[u].byte /\ RunningAccess[u].end = call[u].end
             /\ RunningAccess[u].kind = call[u].kind /\ RunningAccess[u].before = snap_hb[u]
  BY <1>3, <1>4 DEF RunningAccess, Call
<1>5. RunningAccess[t] # Order!NoAccess
  BY <1>1, <1>4 DEF Order!NoAccess
<1>6. (RacesFound[t] # {}) <=> race
  BY <1>1 DEF RacesFound
<1>7. KeptCells' = [KeptCells EXCEPT ![x] = [tid |-> t, kind |-> call[t].kind]]
  BY <1>3 DEF RecordByte, KeptCells
<1>8. /\ thread_hb' = [u \in Tid |-> IF u = t THEN thread_hb[u] \cup {x} ELSE thread_hb[u] \ {x}]
      /\ orphan_hb' = orphan_hb \ {x}
      /\ sync_hb' = [a \in SyncAddr |-> sync_hb[a] \ {x}]
      /\ UNCHANGED Status
  BY DEF RecordByte, Status, slotVars
<1> DEFINE ends == RacesFound[t] # {} \/ RunningAccess[t].byte + 1 = RunningAccess[t].end
<1>9. ends <=> Ends(t, race)
  BY <1>1, <1>4, <1>6 DEF Ends
<1>10. RunningAccess' = [u \in Tid |->
         IF u # t THEN [RunningAccess[u] EXCEPT !.before = @ \ {x}]
         ELSE IF ends THEN Order!NoAccess
         ELSE [RunningAccess[t] EXCEPT !.byte = @ + 1, !.before = @ \ {x}]]
  <2> DEFINE After(u) == IF pc'[u] = "access"
                         THEN [byte |-> call'[u].byte, end |-> call'[u].end,
                               kind |-> call'[u].kind, before |-> snap_hb'[u]]
                         ELSE Order!NoAccess
  <2>0. RunningAccess' = [u \in Tid |-> After(u)]
    BY DEF RunningAccess, Order!NoAccess
  <2>1. ASSUME NEW u \in Tid, u # t
        PROVE  After(u) = [RunningAccess[u] EXCEPT !.before = @ \ {x}]
    <3>1. pc'[u] = pc[u] /\ call'[u] = call[u] /\ snap_hb'[u] = snap_hb[u] \ {x}
      BY <1>3, <2>1 DEF RecordByte, Advance
    <3>2. CASE pc[u] = "access"
      <4> DEFINE r == RunningAccess[u]
      <4>1. /\ r \in [byte : Nat, end : Nat, kind : {"read", "write"}, before : SUBSET Cell]
            /\ r.byte = call[u].byte /\ r.end = call[u].end /\ r.kind = call[u].kind
            /\ r.before = snap_hb[u]
        BY <1>4, <3>2
      <4>2. After(u) = [r EXCEPT !.before = @ \ {x}]
        <5> HIDE DEF r, x
        <5> QED BY <3>1, <3>2, <4>1, AccessWithout
      <4> QED BY <4>2
    <3>3. CASE pc[u] # "access"
      <4>1. RunningAccess[u] = [byte |-> 0, end |-> 0, kind |-> "none", before |-> {}]
        BY <3>3 DEF RunningAccess
      <4> HIDE DEF x
      <4> QED BY <3>1, <3>3, <4>1 DEF Order!NoAccess
    <3> QED BY <3>2, <3>3
  <2>2. CASE Ends(t, race)
    <3>1. pc'[t] = "idle"
      BY <1>3, <2>2 DEF RecordByte, Advance
    <3>2. After(t) = Order!NoAccess
      BY <3>1
    <3> HIDE DEF After
    <3> QED BY <1>9, <2>0, <2>1, <2>2, <3>2
  <2>3. CASE ~Ends(t, race)
    <3>1. pc'[t] = "access" /\ call'[t] = [call[t] EXCEPT !.byte = @ + 1]
          /\ snap_hb'[t] = snap_hb[t] \ {x}
      BY <1>1, <1>3, <2>3 DEF RecordByte, Advance
    <3>2. After(t) = [RunningAccess[t] EXCEPT !.byte = @ + 1, !.before = @ \ {x}]
      <4>1. /\ call'[t].byte = call[t].byte + 1 /\ call'[t].end = call[t].end
            /\ call'[t].kind = call[t].kind
        BY <1>2, <3>1 DEF Call
      <4> DEFINE r == RunningAccess[t]
      <4>2. /\ r \in [byte : Nat, end : Nat, kind : {"read", "write"}, before : SUBSET Cell]
            /\ r.byte = call[t].byte /\ r.end = call[t].end /\ r.kind = call[t].kind
            /\ r.before = snap_hb[t]
        BY <1>1, <1>4
      <4>3. [r EXCEPT !.byte = @ + 1, !.before = @ \ {x}]
              = [byte |-> r.byte + 1, end |-> r.end, kind |-> r.kind,
                 before |-> r.before \ {x}]
        <5> HIDE DEF r, x
        <5> QED BY <4>2, AccessMoved
      <4> QED BY <3>1, <4>1, <4>2, <4>3
    <3> HIDE DEF After
    <3> QED BY <1>9, <2>0, <2>1, <2>3, <3>2
  <2> QED BY <2>2, <2>3
<1>11. RunningAccess[t].byte = call[t].byte /\ RunningAccess[t].kind = call[t].kind
  BY <1>1, <1>4
<1>12. Order!Record(t)
  <2> HIDE DEF race
  <2> QED BY <1>5, <1>7, <1>8, <1>10, <1>11 DEF Order!Record
<1> QED BY <1>12 DEF Order!Step

(* Cells are emptied by ClearRange, a byte at a time, and all at once when *)
(* the buffer goes.                                                        *)
LEMMA ClearIsOrder ==
  ASSUME ExactInv, RemoveShadow \/ \E t \in Tid : ClearByte(t)
  PROVE  Order!Step
<1>0. Order!NoCell = [tid |-> EmptyCell.tid, kind |-> EmptyCell.kind]
      /\ Order!Cell = Cell /\ Order!Byte = Byte
  BY DEF Order!NoCell, EmptyCell, Order!Cell, Cell, Order!Byte, Byte, Order!Slot, Slot
<1>1. CASE RemoveShadow
  <2>1. KeptCells' = [x \in Order!Cell |-> IF x[1] \in Byte THEN Order!NoCell ELSE KeptCells[x]]
    BY <1>0, <1>1 DEF RemoveShadow, KeptCells, Cell
  <2>2. UNCHANGED <<Status, thread_hb, orphan_hb, sync_hb, RunningAccess>>
    BY <1>1 DEF RemoveShadow, Status, RunningAccess, slotVars, orphanVars, syncVars, callVars
  <2>3. Order!Clear(Byte)
    BY <2>1, <2>2 DEF Order!Clear
  <2> QED BY <1>0, <2>3 DEF Order!Step
<1>2. ASSUME NEW t \in Tid, ClearByte(t) PROVE Order!Step
  <2>1. pc[t] = "clear" /\ call[t].byte \in Byte
    BY <1>2, CallInTypes DEF ClearByte
  <2>2. KeptCells' = [x \in Order!Cell |-> IF x[1] \in {call[t].byte} THEN Order!NoCell
                                                                      ELSE KeptCells[x]]
    BY <1>0, <1>2 DEF ClearByte, KeptCells
  <2>3. UNCHANGED RunningAccess
    <3>1. pc \in [Tid -> {"idle", "lookup", "access", "clear"}] /\ call \in [Tid -> Call]
      BY DEF ExactInv, TypeInv, TypeOK
    <3>2. ASSUME NEW u \in Tid
          PROVE  (pc'[u] = "access" <=> pc[u] = "access") /\ (u # t => call'[u] = call[u])
                 /\ snap_hb'[u] = snap_hb[u]
      BY <1>2, <2>1, <3>1 DEF ClearByte, Advance
    <3> QED BY <2>1, <3>2 DEF RunningAccess
  <2>4. UNCHANGED <<Status, thread_hb, orphan_hb, sync_hb>>
    BY <1>2 DEF ClearByte, Status, slotVars, orphanVars, syncVars
  <2>5. Order!Clear({call[t].byte})
    BY <2>2, <2>3, <2>4 DEF Order!Clear
  <2>6. {call[t].byte} \in SUBSET Order!Byte
    BY <1>0, <2>1
  <2> QED BY <2>5, <2>6 DEF Order!Step
<1> QED BY <1>1, <1>2

(* A call that looks for its shadow has no access yet.                     *)
LEMMA LookupIsUnseen ==
  ASSUME ExactInv, NEW t \in Tid, NEW range,
         ClearShadow(t, range) \/ \E kind \in {"read", "write"} : MemoryAccess(t, range, kind)
  PROVE  Unseen
<1>1. pc \in [Tid -> {"idle", "lookup", "access", "clear"}] /\ call \in [Tid -> Call]
  BY DEF ExactInv, TypeInv, TypeOK
<1>2. ASSUME NEW u \in Tid
      PROVE  (pc'[u] = "access" <=> pc[u] = "access")
             /\ (pc[u] = "access" => call'[u] = call[u]) /\ snap_hb'[u] = snap_hb[u]
  BY <1>1 DEF ClearShadow, MemoryAccess, Idle
<1>3. UNCHANGED RunningAccess
  BY <1>2 DEF RunningAccess
<1>4. UNCHANGED <<Status, KeptCells, thread_hb, orphan_hb, sync_hb>>
  BY DEF ClearShadow, MemoryAccess, Status, KeptCells, slotVars, orphanVars, syncVars
<1> QED BY <1>3, <1>4 DEF Unseen

(* Every step of the disciplined program is one of RaceDetector, or unseen.*)
LEMMA StepIsOrder ==
  ASSUME ExactInv, [DisciplinedNext]_vars
  PROVE  Order!Step \/ Unseen
<1>0. Running \subseteq Tid
  BY DEF ExactInv, TypeInv, TypeOK, Running
<1>1. CASE UNCHANGED vars
  BY <1>1 DEF vars, slotVars, syncVars, orphanVars, callVars, Unseen, Status, KeptCells,
              RunningAccess
<1>2. CASE SyncNext(Running)
  <2>1. CASE \/ \E t \in Running, a \in SyncAddr :
                  \/ Acquire(t, a) \/ Release(t, a)
                  \/ MutexPostLock(t, a) \/ MutexReadLock(t, a) \/ MutexUnlock(t, a)
             \/ \E a \in SyncAddr : MutexCreate(a) \/ MutexDestroy(a)
    BY <2>1, SyncIsOrder
    DEF MutexPostLock, MutexReadLock, MutexUnlock, MutexCreate, MutexDestroy
  <2>2. CASE \E t \in Running, range \in Ranges :
               \/ \E kind \in {"read", "write"} : MemoryAccess(t, range, kind)
               \/ ClearShadow(t, range)
    BY <1>0, <2>2, LookupIsUnseen
  <2>3. CASE \E t \in Running : TakeSnapshot(t) \/ RecordByte(t) \/ ClearByte(t)
    BY <1>0, <2>3, BeginIsOrder, RecordIsOrder, ClearIsOrder
  <2>4. CASE RemoveShadow
    BY <2>4, ClearIsOrder
  <2> QED BY <1>2, <2>1, <2>2, <2>3, <2>4 DEF SyncNext
<1>3. CASE \/ thread_alive # Tid /\ ThreadCreate(NoTid)
           \/ \E t \in Running : ThreadFinish(t)
           \/ \E t \in thread_alive : ThreadDestroy(t)
           \/ \E t \in Running, u \in finished : ThreadJoin(t, u)
           \/ \E t, u \in Running : ThreadAbsorb(t, u)
  BY <1>3, LifeIsOrder
<1> QED BY <1>1, <1>2, <1>3 DEF DisciplinedNext

(* The detector starts where RaceDetector does.                            *)
LEMMA InitIsOrder == Init => Order!Init
<1> SUFFICES ASSUME Init PROVE Order!Init
  OBVIOUS
<1>1. Status = [t \in Tid |-> IF t = 0 THEN "running" ELSE "free"]
  BY DEF Init, Status
<1>2. KeptCells = [x \in Order!Cell |-> Order!NoCell]
  BY DEF Init, KeptCells, EmptyCell, Order!NoCell, Order!Cell, Cell, Order!Byte, Byte,
         Order!Slot, Slot
<1>3. /\ RunningAccess = [t \in Tid |-> Order!NoAccess] /\ RacesFound = [t \in Tid |-> {}]
  BY DEF Init, RunningAccess, RacesFound, Order!NoAccess
<1> QED BY <1>1, <1>2, <1>3 DEF Init, Order!Init

(* The detector of web_tsan.cc, with its clocks, implements the one that   *)
(* knows the order and has none: for every number of threads, of shadow    *)
(* cells, of bytes and of sync addresses, a disciplined program gets from  *)
(* RecordAccess, at every byte of every access, the conflicting accesses   *)
(* that are kept and do not happen before it, no more and no less.         *)
THEOREM ClocksAreOrder == DisciplinedSpec => ClocksAreTheOrder
<1>1. ExactInv /\ ExactInv' /\ [DisciplinedNext]_vars => [Order!Next]_(Order!state)
  BY StepIsOrder, StepWithRaces
<1> QED BY <1>1, InitIsOrder, DisciplinedExact, PTL
        DEF DisciplinedSpec, ClocksAreTheOrder, Order!Spec

-----------------------------------------------------------------------------
(* Messages: each is on its way once, with its edge waiting for it, and    *)
(* what was written before it was sent is never reported as a race with    *)
(* its handler, for every instance of the detector.                        *)
(*                                                                         *)
(* The edges are handed out in increasing order, so the queues are ordered *)
(* by them; and a message waits for the script only as long as no other    *)
(* has been posted to the worker, so waiting does not change the order.    *)

\* The edges under which the messages of a queue were sent.
Sent(queue) == {queue[i].sent : i \in 1 .. Len(queue)}

\* A queue of messages that carry their edges, in the order they were sent in.
Ordered(queue) ==
  /\ queue \in Seq(Message)
  /\ \A i \in 1 .. Len(queue) : queue[i].edge = queue[i].sent
  /\ \A i, j \in 1 .. Len(queue) : i < j => queue[i].sent < queue[j].sent

TransportTypes ==
  /\ worker_tid \in Tid \cup {NoTid}
  /\ worker_tid # NoTid => worker_tid \in thread_alive
  /\ port_handled \in BOOLEAN
  /\ to_port \in [End -> Seq(Message)]
  /\ handled \in [End -> Nat]

\* A message waits for the script, or is posted, but never before one that waits.
EarlyTasks ==
  /\ IF was_script_evaluated THEN queued_early_tasks = <<>> ELSE to_worker = <<>>
  /\ "evaluated" \in reports \/ worker = "starting" => ~ was_script_evaluated
  /\ worker = "starting" => "evaluated" \notin reports

\* What is on its way has its edge, and is younger than what has been handled.
QueuesInv ==
  /\ Ordered(queued_early_tasks) /\ Ordered(to_worker) /\ Ordered(to_owner)
  /\ Sent(queued_early_tasks) \cup Sent(to_worker) \cup Sent(to_owner) \subseteq edges
  /\ (Sent(queued_early_tasks) \cup Sent(to_worker)) \cap Sent(to_owner) = {}
  /\ \A i \in Sent(queued_early_tasks) \cup Sent(to_worker) : handled["worker"] < i
  /\ \A i \in Sent(to_owner) : handled["owner"] < i
  /\ \A i \in edges : i < next_edge_id
  /\ \A end \in End : handled[end] < next_edge_id

MessagesInv ==
  /\ TypeInv /\ TransportTypes /\ EarlyTasks /\ QueuesInv
  /\ ~ port_handled => SoundInv

(* A message that is sent last, after all others of its queue.             *)
LEMMA MessageAppended ==
  ASSUME NEW queue, Ordered(queue), NEW m \in Message, m.edge = m.sent,
         \A i \in Sent(queue) : i < m.sent
  PROVE  /\ Ordered(Append(queue, m))
         /\ Sent(Append(queue, m)) = Sent(queue) \cup {m.sent}
<1> DEFINE q == Append(queue, m)
<1>1. /\ queue \in Seq(Message)
      /\ \A i \in 1 .. Len(queue) : queue[i].edge = queue[i].sent
      /\ \A i, j \in 1 .. Len(queue) : i < j => queue[i].sent < queue[j].sent
  BY DEF Ordered
<1>2. /\ q \in Seq(Message) /\ Len(q) = Len(queue) + 1 /\ Len(queue) \in Nat
      /\ \A i \in 1 .. Len(queue) : q[i] = queue[i]
      /\ q[Len(queue) + 1] = m
  BY <1>1
<1> HIDE DEF q
<1>3. \A i \in 1 .. Len(q) : i \in 1 .. Len(queue) \/ i = Len(queue) + 1
  BY <1>2
<1>4. \A i \in 1 .. Len(queue) : queue[i].sent < m.sent
  BY DEF Sent
<1>5. \A i \in 1 .. Len(q) : q[i].edge = q[i].sent
  BY <1>1, <1>2, <1>3
<1>6. ASSUME NEW i \in 1 .. Len(q), NEW j \in 1 .. Len(q), i < j
      PROVE  q[i].sent < q[j].sent
  <2>1. i \in 1 .. Len(queue)
    BY <1>2, <1>3, <1>6
  <2>2. CASE j \in 1 .. Len(queue)
    BY <1>1, <1>2, <1>6, <2>1, <2>2
  <2>3. CASE j = Len(queue) + 1
    BY <1>2, <1>4, <2>1, <2>3
  <2> QED BY <1>3, <2>2, <2>3
<1>7. Sent(q) = Sent(queue) \cup {m.sent}
  <2>1. ASSUME NEW x \in Sent(q) PROVE x \in Sent(queue) \cup {m.sent}
    BY <1>2, <1>3 DEF Sent
  <2>2. ASSUME NEW x \in Sent(queue) PROVE x \in Sent(q)
    <3>1. PICK i \in 1 .. Len(queue) : queue[i].sent = x
      BY DEF Sent
    <3>2. i \in 1 .. Len(q) /\ q[i].sent = x
      BY <1>2, <3>1
    <3> QED BY <3>2 DEF Sent
  <2>3. m.sent \in Sent(q)
    <3>1. Len(queue) + 1 \in 1 .. Len(q)
      BY <1>2
    <3> QED BY <1>2, <3>1 DEF Sent
  <2> QED BY <2>1, <2>2, <2>3
<1> QED BY <1>2, <1>5, <1>6, <1>7 DEF Ordered, q

(* The message that is taken was sent before the others of its queue.      *)
LEMMA MessageTaken ==
  ASSUME NEW queue, Ordered(queue), queue # <<>>
  PROVE  /\ Ordered(Tail(queue))
         /\ Head(queue) \in Message /\ Head(queue).edge = Head(queue).sent
         /\ Head(queue).sent \in Sent(queue) /\ Sent(Tail(queue)) \subseteq Sent(queue)
         /\ \A i \in Sent(Tail(queue)) : Head(queue).sent < i
<1> DEFINE q == Tail(queue)
<1>1. /\ queue \in Seq(Message)
      /\ \A i \in 1 .. Len(queue) : queue[i].edge = queue[i].sent
      /\ \A i, j \in 1 .. Len(queue) : i < j => queue[i].sent < queue[j].sent
  BY DEF Ordered
<1>2. /\ q \in Seq(Message) /\ Len(q) + 1 = Len(queue) /\ Len(q) \in Nat
      /\ \A i \in 1 .. Len(q) : q[i] = queue[i + 1]
  BY <1>1
<1>3. Head(queue) = queue[1] /\ Head(queue) \in Message /\ 1 \in 1 .. Len(queue)
  BY <1>1
<1> HIDE DEF q
<1>4. \A i \in 1 .. Len(q) : i + 1 \in 1 .. Len(queue) /\ 1 < i + 1
  BY <1>2
<1>5. \A i \in 1 .. Len(q) : q[i].edge = q[i].sent
  BY <1>1, <1>2, <1>4
<1>6. ASSUME NEW i \in 1 .. Len(q), NEW j \in 1 .. Len(q), i < j
      PROVE  q[i].sent < q[j].sent
  <2>1. i + 1 < j + 1
    BY <1>2, <1>6
  <2> QED BY <1>1, <1>2, <1>4, <2>1
<1>7. /\ Head(queue).sent \in Sent(queue)
      /\ \A i \in 1 .. Len(q) : q[i].sent \in Sent(queue) /\ Head(queue).sent < q[i].sent
  BY <1>1, <1>2, <1>3, <1>4 DEF Sent
<1>8. Sent(q) \subseteq Sent(queue) /\ \A x \in Sent(q) : Head(queue).sent < x
  BY <1>7 DEF Sent
<1> QED BY <1>1, <1>2, <1>3, <1>5, <1>6, <1>7, <1>8 DEF Ordered, q

(* The empty queue.                                                        *)
LEMMA NothingSent == Ordered(<<>>) /\ Sent(<<>>) = {}
BY DEF Ordered, Sent

(* A queue holds as many messages as it is long.                           *)
LEMMA EachOnce ==
  ASSUME NEW queue, Ordered(queue)
  PROVE  /\ IsFiniteSet({queue[i] : i \in 1 .. Len(queue)})
         /\ Cardinality({queue[i] : i \in 1 .. Len(queue)}) = Len(queue)
<1> DEFINE S == 1 .. Len(queue)
           T == {queue[i] : i \in S}
<1>1. /\ queue \in Seq(Message) /\ Len(queue) \in Nat
      /\ \A i, j \in S : i < j => queue[i].sent < queue[j].sent
      /\ \A i \in S : queue[i].sent \in Nat
  <2>1. queue \in Seq(Message) /\ Len(queue) \in Nat
    BY DEF Ordered
  <2>2. \A i \in S : queue[i] \in Message
    BY <2>1
  <2> QED BY <2>1, <2>2, ShadowAssumption DEF Ordered, Message, EdgeId
<1>2. \A i, j \in S : queue[i] = queue[j] => i = j
  <2> SUFFICES ASSUME NEW i \in S, NEW j \in S, queue[i] = queue[j], i # j PROVE FALSE
    OBVIOUS
  <2>1. i \in Nat /\ j \in Nat /\ queue[i].sent \in Nat
    BY <1>1
  <2>2. ~ (i < j)
    BY <1>1, <2>1
  <2>3. ~ (j < i)
    BY <1>1, <2>1
  <2> QED BY <2>1, <2>2, <2>3
<1>3. IsFiniteSet(S) /\ Cardinality(S) = Len(queue)
  <2>1. 1 \in Int /\ Len(queue) \in Int
    BY <1>1
  <2>2. /\ IsFiniteSet(1 .. Len(queue))
        /\ Cardinality(1 .. Len(queue)) =
             IF 1 > Len(queue) THEN 0 ELSE Len(queue) - 1 + 1
    BY <2>1, FS_Interval, Zenon
  <2> QED BY <1>1, <2>2
<1> DEFINE f == [i \in S |-> queue[i]]
<1>4. f \in Bijection(S, T)
  BY <1>2 DEF Bijection, Injection, Surjection, IsInjective
<1>5. ExistsBijection(S, T)
  BY <1>4 DEF ExistsBijection
<1> HIDE DEF S, T, f
<1>6. IsFiniteSet(T) /\ Cardinality(T) = Cardinality(S)
  BY <1>3, <1>5, FS_Bijection
<1> QED BY <1>3, <1>6 DEF S, T


-----------------------------------------------------------------------------
\* What the detector does for a message.

\* A step that leaves the edges alone.
EdgesKept == edges' = edges /\ next_edge_id' = next_edge_id

(* OnPostMessageSend hands out an edge that no message has yet.            *)
LEMMA EdgeHandedOut ==
  ASSUME MessagesInv, NEW t, HappensBefore(t)
  PROVE  /\ NextMessage \in Message /\ NextMessage.edge = next_edge_id
         /\ NextMessage.sent = next_edge_id
         /\ [edge |-> 0, sent |-> next_edge_id] \in Message
         /\ next_edge_id \in EdgeId /\ next_edge_id \in Nat
         /\ edges' = edges \cup {next_edge_id} /\ next_edge_id' = next_edge_id + 1
         /\ thread_alive' = thread_alive /\ t \in Tid
<1>1. next_edge_id \in 1 .. MaxEdges + 1 /\ next_edge_id <= MaxEdges /\ thread_alive \subseteq Tid
  BY DEF HappensBefore, MessagesInv, TypeInv, TypeOK
<1>2. next_edge_id \in EdgeId /\ next_edge_id \in Nat
  BY <1>1, ShadowAssumption DEF EdgeId
<1> QED BY <1>1, <1>2 DEF HappensBefore, Idle, Message, NextMessage, slotVars

(* OnPostMessageReceive takes the edge of the message, and no other.       *)
LEMMA EdgeTaken ==
  ASSUME MessagesInv, NEW t, NEW id, HappensAfter(t, id)
  PROVE  /\ edges' = edges \ {id} /\ next_edge_id' = next_edge_id
         /\ id \in EdgeId /\ id \in edges
         /\ thread_alive' = thread_alive /\ t \in Tid
BY DEF HappensAfter, Idle, MessagesInv, TypeInv, TypeOK, slotVars

(* The accesses of the two threads touch neither the edges nor the slots.  *)
LEMMA AccessFrame ==
  ASSUME AccessNext
  PROVE  EdgesKept /\ thread_alive' = thread_alive /\ UNCHANGED transportVars
<1>1. UNCHANGED transportVars
  BY DEF AccessNext
<1>2. ASSUME NEW t \in Tid, NEW range \in Ranges, NEW kind \in {"read", "write"},
             MemoryAccess(t, range, kind)
      PROVE  EdgesKept /\ thread_alive' = thread_alive
  BY <1>2 DEF MemoryAccess, EdgesKept, edgeVars, slotVars
<1>3. ASSUME NEW t \in Tid, TakeSnapshot(t) PROVE EdgesKept /\ thread_alive' = thread_alive
  BY <1>3 DEF TakeSnapshot, EdgesKept, edgeVars, slotVars
<1>4. ASSUME NEW t \in Tid, RecordByte(t) PROVE EdgesKept /\ thread_alive' = thread_alive
  BY <1>4 DEF RecordByte, EdgesKept, slotVars
<1> QED BY <1>1, <1>2, <1>3, <1>4 DEF AccessNext

(* DispatchMessageEvent of a port: only the history of its thread changes. *)
LEMMA DispatchType ==
  ASSUME MessagesInv, NEW end \in End, DispatchMessageEvent(end)
  PROVE  TypeInv'
<1> DEFINE m == Head(to_port[end])
<1>1. to_port[end] \in Seq(Message) /\ to_port[end] # <<>>
  BY DEF MessagesInv, TransportTypes, DispatchMessageEvent
<1>2. m \in Message
  BY <1>1
<1>3. edge_hb[m.sent] \subseteq Cell
  BY <1>2 DEF Message, MessagesInv, TypeInv, TypeOK
<1> HIDE DEF m
<1>4. thread_hb' \in [Tid -> SUBSET Cell]
  <2>1. thread_hb' = [thread_hb EXCEPT ![TidOf(end)] = @ \cup edge_hb[m.sent]]
    BY DEF DispatchMessageEvent, m
  <2> QED BY <1>3, <2>1 DEF MessagesInv, TypeInv, TypeOK
<1>5. UNCHANGED <<thread_clocks, slotVars, syncVars, edgeVars, orphanVars, shadow, callVars>>
  BY DEF DispatchMessageEvent
<1> QED
  BY <1>4, <1>5
  DEF MessagesInv, TypeInv, TypeOK, CursorInBuffer, slotVars, syncVars, edgeVars, orphanVars,
      callVars

(* Every other step calls the detector as any program may, or not at all.  *)
LEMMA DetectorStep ==
  ASSUME MessagesInv, [MessagesNext]_allVars
  PROVE  [Next]_vars \/ \E end \in End : DispatchMessageEvent(end)
<1> USE DEF Next, SyncNext
<1>1. CASE UNCHANGED allVars
  BY <1>1 DEF allVars
<1>2. CASE WorkerCreated
  BY <1>2 DEF WorkerCreated, ThreadCreate
<1>3. CASE RunWorkerScript \/ Close \/ Terminate \/ DidEvaluateScript
  BY <1>3 DEF RunWorkerScript, Close, Terminate, DidEvaluateScript
<1>4. CASE PerformShutdown
  <2>1. ThreadDestroy(worker_tid) /\ worker_tid \in Tid
    BY <1>4 DEF PerformShutdown, ThreadDestroy, Idle, MessagesInv, TypeInv, TypeOK
  <2> QED BY <2>1
<1>5. ASSUME NEW t, HappensBefore(t) PROVE Next
  BY <1>5, EdgeHandedOut
<1>6. ASSUME NEW t, NEW id, HappensAfter(t, id) PROVE Next
  BY <1>6, EdgeTaken
<1>7. CASE PostMessageToWorker \/ PostMessageToOwner \/ \E end \in End : PortPostMessage(end)
  BY <1>5, <1>7 DEF PostMessageToWorker, PostMessageToOwner, PortPostMessage
<1>8. CASE ReceiveMessage \/ PostMessageToWorkerObject
  BY <1>6, <1>8 DEF ReceiveMessage, PostMessageToWorkerObject
<1>9. CASE AccessNext
  BY <1>9 DEF AccessNext
<1> HIDE DEF Next, SyncNext
<1> QED BY <1>1, <1>2, <1>3, <1>4, <1>7, <1>8, <1>9 DEF MessagesNext, Deliver

-----------------------------------------------------------------------------
\* The queues, and the worker's life.

(* Before the first message nothing is on its way.                         *)
LEMMA InitMessages == MessagesInit => MessagesInv
<1> SUFFICES ASSUME MessagesInit PROVE MessagesInv
  OBVIOUS
<1>1. TypeInv /\ SoundInv
  BY InitType, InitSound DEF MessagesInit
<1>2. TransportTypes
  <2>1. <<>> \in Seq(Message)
    OBVIOUS
  <2>2. to_port \in [End -> Seq(Message)] /\ handled \in [End -> Nat]
    BY <2>1 DEF MessagesInit
  <2> QED BY <2>2 DEF MessagesInit, TransportTypes
<1>3. EarlyTasks
  BY DEF MessagesInit, EarlyTasks
<1>4. edges = {} /\ next_edge_id = 1
  BY DEF MessagesInit, Init
<1>5. QueuesInv
  BY <1>4, NothingSent DEF MessagesInit, QueuesInv, End
<1> QED BY <1>1, <1>2, <1>3, <1>5 DEF MessagesInv

(* Nothing that a step leaves alone, or takes out of a queue, can break    *)
(* the order.                                                              *)
LEMMA FewerMessages ==
  ASSUME QueuesInv, EdgesKept, handled' = handled,
         to_worker' \in {to_worker, <<>>}, to_owner' = to_owner,
         queued_early_tasks' = queued_early_tasks
  PROVE  QueuesInv'
BY NothingSent DEF QueuesInv, EdgesKept

\* What MessagesInv says of the messages, without the detector.
Transport == TransportTypes /\ EarlyTasks /\ QueuesInv

(* The worker's life: it is born, runs its script, closes itself, is       *)
(* terminated and shut down.                                               *)
LEMMA WorkerLife ==
  ASSUME MessagesInv,
         \/ WorkerCreated \/ RunWorkerScript \/ Close \/ Terminate \/ PerformShutdown
  PROVE  Transport'
<1> USE DEF MessagesInv, Transport
<1>1. CASE WorkerCreated
  <2>1. PICK tid \in Tid : StartThread(NoTid, tid) /\ worker_tid' = tid
    BY <1>1 DEF WorkerCreated
  <2>2. EdgesKept /\ worker_tid' \in thread_alive' /\ worker_tid' \in Tid
    BY <2>1 DEF StartThread, EdgesKept, edgeVars
  <2>3. UNCHANGED <<worker, proxyVars, queueVars, historyVars>>
    BY <1>1 DEF WorkerCreated
  <2> QED
    BY <2>2, <2>3, FewerMessages
    DEF TransportTypes, EarlyTasks, proxyVars, queueVars, historyVars
<1>2. CASE RunWorkerScript
  <2>1. EdgesKept /\ thread_alive' = thread_alive
    BY <1>2 DEF RunWorkerScript, EdgesKept, vars, edgeVars, slotVars
  <2> QED
    BY <1>2, <2>1, FewerMessages
    DEF RunWorkerScript, TransportTypes, EarlyTasks, proxyVars, historyVars
<1>3. CASE Close
  <2>1. EdgesKept /\ thread_alive' = thread_alive
    BY <1>3 DEF Close, EdgesKept, vars, edgeVars, slotVars
  <2> QED
    BY <1>3, <2>1, FewerMessages
    DEF Close, TransportTypes, EarlyTasks, proxyVars, historyVars
<1>4. CASE Terminate
  <2>1. EdgesKept /\ thread_alive' = thread_alive
    BY <1>4 DEF Terminate, EdgesKept, vars, edgeVars, slotVars
  <2> QED
    BY <1>4, <2>1, FewerMessages
    DEF Terminate, TransportTypes, EarlyTasks, historyVars
<1>5. CASE PerformShutdown
  <2>1. EdgesKept
    BY <1>5 DEF PerformShutdown, ThreadDestroy, EdgesKept, edgeVars
  <2> QED
    BY <1>5, <2>1, FewerMessages
    DEF PerformShutdown, TransportTypes, EarlyTasks, proxyVars, historyVars
<1> QED BY <1>1, <1>2, <1>3, <1>4, <1>5

(* What has waited for the script is posted in the order it was sent in:   *)
(* nothing has been posted before it.                                      *)
LEMMA EarlyTasksPosted == MessagesInv /\ DidEvaluateScript => Transport'
<1> SUFFICES ASSUME MessagesInv, DidEvaluateScript PROVE Transport'
  OBVIOUS
<1> USE DEF MessagesInv, Transport
<1>1. EdgesKept /\ thread_alive' = thread_alive
  BY DEF DidEvaluateScript, EdgesKept, vars, edgeVars, slotVars
<1>2. to_worker = <<>> /\ queued_early_tasks \in Seq(Message)
  BY DEF DidEvaluateScript, EarlyTasks, QueuesInv, Ordered
<1>3. to_worker' = <<>> \/ to_worker' = queued_early_tasks
  BY <1>2 DEF DidEvaluateScript
<1>4. QueuesInv'
  BY <1>1, <1>3, NothingSent DEF DidEvaluateScript, QueuesInv, EdgesKept, historyVars
<1> QED
  BY <1>1, <1>4 DEF DidEvaluateScript, TransportTypes, EarlyTasks, historyVars

(* A message that is sent goes behind the others, or nowhere.              *)
LEMMA MessagePosted ==
  ASSUME QueuesInv, NEW m \in Message, m.edge = m.sent, m.sent = next_edge_id,
         next_edge_id \in Nat, edges \subseteq Nat, edges' = edges \cup {next_edge_id},
         next_edge_id' = next_edge_id + 1, handled' = handled,
         handled \in [End -> Nat],
         \/ /\ queued_early_tasks' \in {queued_early_tasks, Append(queued_early_tasks, m)}
            /\ to_worker' = to_worker /\ to_owner' = to_owner
         \/ /\ to_worker' \in {to_worker, Append(to_worker, m)}
            /\ queued_early_tasks' = queued_early_tasks /\ to_owner' = to_owner
         \/ /\ to_owner' = Append(to_owner, m)
            /\ queued_early_tasks' = queued_early_tasks /\ to_worker' = to_worker
  PROVE  QueuesInv'
<1>1. /\ Ordered(queued_early_tasks) /\ Ordered(to_worker) /\ Ordered(to_owner)
      /\ Sent(queued_early_tasks) \cup Sent(to_worker) \cup Sent(to_owner) \subseteq edges
      /\ (Sent(queued_early_tasks) \cup Sent(to_worker)) \cap Sent(to_owner) = {}
      /\ \A i \in Sent(queued_early_tasks) \cup Sent(to_worker) : handled["worker"] < i
      /\ \A i \in Sent(to_owner) : handled["owner"] < i
      /\ \A i \in edges : i < next_edge_id
      /\ \A end \in End : handled[end] < next_edge_id
  BY DEF QueuesInv
<1>2. /\ Ordered(Append(queued_early_tasks, m))
      /\ Sent(Append(queued_early_tasks, m)) = Sent(queued_early_tasks) \cup {next_edge_id}
  BY <1>1, MessageAppended
<1>3. /\ Ordered(Append(to_worker, m))
      /\ Sent(Append(to_worker, m)) = Sent(to_worker) \cup {next_edge_id}
  BY <1>1, MessageAppended
<1>4. /\ Ordered(Append(to_owner, m))
      /\ Sent(Append(to_owner, m)) = Sent(to_owner) \cup {next_edge_id}
  BY <1>1, MessageAppended
<1>5. /\ handled["worker"] < next_edge_id /\ handled["owner"] < next_edge_id
      /\ next_edge_id \notin edges /\ next_edge_id \in edges' /\ edges \subseteq edges'
  BY <1>1 DEF End
<1>6. Ordered(queued_early_tasks') /\ Ordered(to_worker') /\ Ordered(to_owner')
  BY <1>1, <1>2, <1>3, <1>4
<1>7. \/ /\ Sent(queued_early_tasks') \cup Sent(to_worker')
              \subseteq Sent(queued_early_tasks) \cup Sent(to_worker) \cup {next_edge_id}
         /\ Sent(to_owner') = Sent(to_owner)
      \/ /\ Sent(queued_early_tasks') = Sent(queued_early_tasks)
         /\ Sent(to_worker') = Sent(to_worker)
         /\ Sent(to_owner') = Sent(to_owner) \cup {next_edge_id}
  BY <1>2, <1>3, <1>4
<1>8. /\ \A i \in edges' : i < next_edge_id'
      /\ \A end \in End : handled'[end] < next_edge_id'
  <2>1. ASSUME NEW i \in edges' PROVE i < next_edge_id'
    <3>1. CASE i = next_edge_id
      BY <3>1
    <3>2. CASE i \in edges
      BY <1>1, <3>2
    <3> QED BY <2>1, <3>1, <3>2
  <2>2. ASSUME NEW end \in End PROVE handled'[end] < next_edge_id'
    BY <1>1
  <2> QED BY <2>1, <2>2
<1>9. /\ Sent(queued_early_tasks') \cup Sent(to_worker') \cup Sent(to_owner') \subseteq edges'
      /\ (Sent(queued_early_tasks') \cup Sent(to_worker')) \cap Sent(to_owner') = {}
  BY <1>1, <1>5, <1>7
<1>10. /\ \A i \in Sent(queued_early_tasks') \cup Sent(to_worker') : handled'["worker"] < i
       /\ \A i \in Sent(to_owner') : handled'["owner"] < i
  BY <1>1, <1>5, <1>7
<1> QED BY <1>6, <1>8, <1>9, <1>10 DEF QueuesInv

(* The hook of the sender, then what the proxy and the worker's global     *)
(* scope do with the message.                                              *)
LEMMA MessageSent ==
  ASSUME MessagesInv,
         \/ PostMessageToWorker \/ PostMessageToOwner
         \/ \E end \in End : PortPostMessage(end)
  PROVE  Transport'
<1> USE DEF MessagesInv, Transport
<1>0. QueuesInv /\ handled \in [End -> Nat] /\ edges \subseteq Nat
  BY ShadowAssumption DEF TransportTypes, TypeInv, TypeOK, EdgeId
<1>1. CASE PostMessageToWorker
  <2>1. /\ HappensBefore(Owner)
        /\ UNCHANGED <<worker, worker_tid, asked_to_terminate, was_script_evaluated, to_owner,
                       reports, to_port, historyVars>>
    BY <1>1 DEF PostMessageToWorker
  <2>2. /\ NextMessage \in Message /\ NextMessage.edge = NextMessage.sent
        /\ NextMessage.sent = next_edge_id /\ next_edge_id \in Nat
        /\ edges' = edges \cup {next_edge_id} /\ next_edge_id' = next_edge_id + 1
        /\ thread_alive' = thread_alive
    BY <2>1, EdgeHandedOut
  <2>3. CASE was_script_evaluated
    <3>1. queued_early_tasks' = queued_early_tasks
      BY <1>1, <2>3 DEF PostMessageToWorker
    <3>2. to_worker' \in {to_worker, Append(to_worker, NextMessage)}
      BY <1>1 DEF PostMessageToWorker
    <3>3. QueuesInv'
      BY <1>0, <2>1, <2>2, <3>1, <3>2, MessagePosted DEF historyVars
    <3> QED BY <2>1, <2>2, <2>3, <3>1, <3>3 DEF TransportTypes, EarlyTasks, historyVars
  <2>4. CASE ~ was_script_evaluated
    <3>1. to_worker' = to_worker
      BY <1>1, <2>4 DEF PostMessageToWorker
    <3>2. queued_early_tasks' \in {queued_early_tasks, Append(queued_early_tasks, NextMessage)}
      BY <1>1 DEF PostMessageToWorker
    <3>3. QueuesInv'
      BY <1>0, <2>1, <2>2, <3>1, <3>2, MessagePosted DEF historyVars
    <3> QED BY <2>1, <2>2, <2>4, <3>1, <3>3 DEF TransportTypes, EarlyTasks, historyVars
  <2> QED BY <2>3, <2>4
<1>2. CASE PostMessageToOwner
  <2>1. /\ HappensBefore(worker_tid) /\ to_owner' = Append(to_owner, NextMessage)
        /\ UNCHANGED <<worker, worker_tid, proxyVars, to_worker, reports, to_port, historyVars>>
    BY <1>2 DEF PostMessageToOwner
  <2>2. /\ NextMessage \in Message /\ NextMessage.edge = NextMessage.sent
        /\ NextMessage.sent = next_edge_id /\ next_edge_id \in Nat
        /\ edges' = edges \cup {next_edge_id} /\ next_edge_id' = next_edge_id + 1
        /\ thread_alive' = thread_alive
    BY <2>1, EdgeHandedOut
  <2>3. QueuesInv'
    BY <1>0, <2>1, <2>2, MessagePosted DEF historyVars, proxyVars
  <2> QED BY <2>1, <2>2, <2>3 DEF TransportTypes, EarlyTasks, historyVars, proxyVars
<1>3. ASSUME NEW end \in End, PortPostMessage(end) PROVE Transport'
  <2>1. /\ HappensBefore(TidOf(end))
        /\ UNCHANGED <<worker, worker_tid, proxyVars, to_worker, to_owner, reports, historyVars>>
    BY <1>3 DEF PortPostMessage
  <2> DEFINE m == [edge |-> 0, sent |-> next_edge_id]
  <2>2. /\ m \in Message /\ next_edge_id \in Nat
        /\ edges' = edges \cup {next_edge_id} /\ next_edge_id' = next_edge_id + 1
        /\ thread_alive' = thread_alive
    BY <2>1, EdgeHandedOut
  <2>3. PICK other \in End : to_port' = [to_port EXCEPT ![other] = Append(@, m)]
    BY <1>3 DEF PortPostMessage
  <2> HIDE DEF m
  <2>4. to_port' \in [End -> Seq(Message)]
    BY <2>2, <2>3 DEF TransportTypes
  <2>5. QueuesInv'
    <3>1. /\ \A i \in edges' : i < next_edge_id'
          /\ \A e \in End : handled'[e] < next_edge_id'
      <4>1. \A i \in edges : i < next_edge_id /\ i \in Nat
        BY <1>0 DEF QueuesInv
      <4>2. \A e \in End : handled[e] < next_edge_id /\ handled[e] \in Nat
        BY <1>0 DEF QueuesInv
      <4> QED BY <2>1, <2>2, <4>1, <4>2 DEF historyVars
    <3> QED BY <1>0, <2>1, <2>2, <3>1 DEF QueuesInv, proxyVars, historyVars
  <2> QED BY <2>1, <2>2, <2>4, <2>5 DEF TransportTypes, EarlyTasks, historyVars, proxyVars
<1> QED BY <1>1, <1>2, <1>3

(* A message of the queue that is taken with its edge: what is left is     *)
(* younger, and keeps its edges.                                           *)
LEMMA MessageHandled ==
  ASSUME QueuesInv, handled \in [End -> Nat], next_edge_id' = next_edge_id,
         \/ /\ to_worker # <<>> /\ queued_early_tasks = <<>>
            /\ to_worker' = Tail(to_worker) /\ to_owner' = to_owner
            /\ edges' = edges \ {Head(to_worker).edge}
            /\ Handles("worker", Head(to_worker))
         \/ /\ to_owner # <<>>
            /\ to_owner' = Tail(to_owner) /\ to_worker' = to_worker
            /\ edges' = edges \ {Head(to_owner).edge}
            /\ Handles("owner", Head(to_owner)),
         queued_early_tasks' = queued_early_tasks
  PROVE  /\ QueuesInv' /\ handled' \in [End -> Nat]
         /\ \A end \in End : handled'[end] >= handled[end]
<1>1. /\ Ordered(queued_early_tasks) /\ Ordered(to_worker) /\ Ordered(to_owner)
      /\ Sent(queued_early_tasks) \cup Sent(to_worker) \cup Sent(to_owner) \subseteq edges
      /\ (Sent(queued_early_tasks) \cup Sent(to_worker)) \cap Sent(to_owner) = {}
      /\ \A i \in Sent(queued_early_tasks) \cup Sent(to_worker) : handled["worker"] < i
      /\ \A i \in Sent(to_owner) : handled["owner"] < i
      /\ \A i \in edges : i < next_edge_id
      /\ \A end \in End : handled[end] < next_edge_id
  BY DEF QueuesInv
<1>2. ASSUME NEW m, m \in Message PROVE m.sent \in Nat
  BY <1>2, ShadowAssumption DEF Message, EdgeId
<1>3. CASE /\ to_worker # <<>> /\ queued_early_tasks = <<>>
           /\ to_worker' = Tail(to_worker) /\ to_owner' = to_owner
           /\ edges' = edges \ {Head(to_worker).edge}
           /\ Handles("worker", Head(to_worker))
  <2>1. PICK m : m = Head(to_worker)
    OBVIOUS
  <2>2. /\ Ordered(to_worker') /\ m \in Message /\ m.edge = m.sent
        /\ m.sent \in Sent(to_worker) /\ Sent(to_worker') \subseteq Sent(to_worker)
        /\ \A i \in Sent(to_worker') : m.sent < i
    BY <1>1, <1>3, <2>1, MessageTaken
  <2>3. m.sent \in Nat /\ handled["worker"] < m.sent /\ m.sent < next_edge_id
    BY <1>1, <1>2, <2>2
  <2>4. handled' = [handled EXCEPT !["worker"] = m.sent] /\ edges' = edges \ {m.sent}
    BY <1>3, <2>1, <2>2 DEF Handles
  <2>5. /\ handled' \in [End -> Nat] /\ handled'["worker"] = m.sent
        /\ handled'["owner"] = handled["owner"]
    BY <2>3, <2>4 DEF End
  <2>6. Sent(queued_early_tasks') = {} /\ Ordered(queued_early_tasks')
    BY <1>3, NothingSent
  <2>7. m.sent \notin Sent(to_worker')
    BY <2>2, <2>3
  <2>8. \A end \in End : handled'[end] >= handled[end] /\ handled'[end] < next_edge_id
    BY <1>1, <2>3, <2>5 DEF End
  <2>9. /\ Sent(queued_early_tasks') \cup Sent(to_worker') \cup Sent(to_owner') \subseteq edges'
        /\ (Sent(queued_early_tasks') \cup Sent(to_worker')) \cap Sent(to_owner') = {}
    BY <1>1, <1>3, <2>2, <2>4, <2>6, <2>7
  <2>10. /\ \A i \in Sent(queued_early_tasks') \cup Sent(to_worker') : handled'["worker"] < i
         /\ \A i \in Sent(to_owner') : handled'["owner"] < i
         /\ \A i \in edges' : i < next_edge_id'
    BY <1>1, <1>3, <2>2, <2>4, <2>5, <2>6
  <2> QED BY <1>1, <1>3, <2>2, <2>5, <2>6, <2>8, <2>9, <2>10 DEF QueuesInv
<1>4. CASE /\ to_owner # <<>>
           /\ to_owner' = Tail(to_owner) /\ to_worker' = to_worker
           /\ edges' = edges \ {Head(to_owner).edge}
           /\ Handles("owner", Head(to_owner))
  <2>1. PICK m : m = Head(to_owner)
    OBVIOUS
  <2>2. /\ Ordered(to_owner') /\ m \in Message /\ m.edge = m.sent
        /\ m.sent \in Sent(to_owner) /\ Sent(to_owner') \subseteq Sent(to_owner)
        /\ \A i \in Sent(to_owner') : m.sent < i
    BY <1>1, <1>4, <2>1, MessageTaken
  <2>3. m.sent \in Nat /\ handled["owner"] < m.sent /\ m.sent < next_edge_id
    BY <1>1, <1>2, <2>2
  <2>4. handled' = [handled EXCEPT !["owner"] = m.sent] /\ edges' = edges \ {m.sent}
    BY <1>4, <2>1, <2>2 DEF Handles
  <2>5. /\ handled' \in [End -> Nat] /\ handled'["owner"] = m.sent
        /\ handled'["worker"] = handled["worker"]
    BY <2>3, <2>4 DEF End
  <2>6. m.sent \notin Sent(to_owner')
    BY <2>2, <2>3
  <2>7. \A end \in End : handled'[end] >= handled[end] /\ handled'[end] < next_edge_id
    BY <1>1, <2>3, <2>5 DEF End
  <2>8. /\ Sent(queued_early_tasks') \cup Sent(to_worker') \cup Sent(to_owner') \subseteq edges'
        /\ (Sent(queued_early_tasks') \cup Sent(to_worker')) \cap Sent(to_owner') = {}
    BY <1>1, <1>4, <2>2, <2>4, <2>6
  <2>9. /\ \A i \in Sent(queued_early_tasks') \cup Sent(to_worker') : handled'["worker"] < i
        /\ \A i \in Sent(to_owner') : handled'["owner"] < i
        /\ \A i \in edges' : i < next_edge_id'
    BY <1>1, <1>4, <2>2, <2>4, <2>5
  <2> QED BY <1>1, <1>4, <2>2, <2>5, <2>7, <2>8, <2>9 DEF QueuesInv
<1> QED BY <1>3, <1>4

(* ReceiveMessage of the worker and PostMessageToWorkerObject of the proxy *)
(* handle a younger message than the last one, or drop it.                 *)
LEMMA MessageReceived ==
  ASSUME MessagesInv, ReceiveMessage \/ PostMessageToWorkerObject
  PROVE  Transport' /\ \A end \in End : handled'[end] >= handled[end]
<1> USE DEF MessagesInv, Transport
<1>0. QueuesInv /\ handled \in [End -> Nat]
  BY DEF TransportTypes
<1>1. CASE ReceiveMessage
  <2>1. /\ worker = "running" /\ to_worker # <<>>
        /\ HappensAfter(worker_tid, Head(to_worker).edge)
        /\ to_worker' = Tail(to_worker) /\ Handles("worker", Head(to_worker))
        /\ UNCHANGED <<worker, worker_tid, proxyVars, to_owner, reports, to_port, port_handled>>
    BY <1>1 DEF ReceiveMessage
  <2>2. /\ edges' = edges \ {Head(to_worker).edge} /\ next_edge_id' = next_edge_id
        /\ thread_alive' = thread_alive
    BY <2>1, EdgeTaken
  <2>3. was_script_evaluated /\ queued_early_tasks = <<>>
    BY <2>1 DEF EarlyTasks
  <2>4. /\ QueuesInv' /\ handled' \in [End -> Nat]
        /\ \A end \in End : handled'[end] >= handled[end]
    BY <1>0, <2>1, <2>2, <2>3, MessageHandled DEF proxyVars
  <2> QED BY <2>1, <2>2, <2>3, <2>4 DEF TransportTypes, EarlyTasks, proxyVars
<1>2. CASE PostMessageToWorkerObject
  <2>1. /\ to_owner # <<>> /\ to_owner' = Tail(to_owner)
        /\ UNCHANGED <<worker, worker_tid, proxyVars, to_worker, reports, to_port, port_handled>>
    BY <1>2 DEF PostMessageToWorkerObject
  <2>2. CASE asked_to_terminate
    <3>1. EdgesKept /\ thread_alive' = thread_alive /\ handled' = handled
      BY <1>2, <2>2 DEF PostMessageToWorkerObject, EdgesKept, vars, edgeVars, slotVars
    <3>2. Ordered(to_owner') /\ Sent(to_owner') \subseteq Sent(to_owner)
      BY <2>1, MessageTaken DEF QueuesInv
    <3>3. QueuesInv'
      BY <2>1, <3>1, <3>2 DEF QueuesInv, EdgesKept, proxyVars
    <3> QED BY <1>0, <2>1, <3>1, <3>3 DEF TransportTypes, EarlyTasks, proxyVars
  <2>3. CASE ~ asked_to_terminate
    <3>1. HappensAfter(Owner, Head(to_owner).edge) /\ Handles("owner", Head(to_owner))
      BY <1>2, <2>3 DEF PostMessageToWorkerObject
    <3>2. /\ edges' = edges \ {Head(to_owner).edge} /\ next_edge_id' = next_edge_id
          /\ thread_alive' = thread_alive
      BY <3>1, EdgeTaken
    <3>3. /\ QueuesInv' /\ handled' \in [End -> Nat]
          /\ \A end \in End : handled'[end] >= handled[end]
      BY <1>0, <2>1, <3>1, <3>2, MessageHandled DEF proxyVars
    <3> QED BY <2>1, <3>2, <3>3 DEF TransportTypes, EarlyTasks, proxyVars
  <2> QED BY <2>2, <2>3
<1> QED BY <1>1, <1>2

(* A message of a port, and an access, change neither queue nor edge.      *)
LEMMA PortMessageHandled ==
  ASSUME MessagesInv, AccessNext \/ \E end \in End : DispatchMessageEvent(end)
  PROVE  Transport' /\ handled' = handled
<1> USE DEF MessagesInv, Transport
<1>1. CASE AccessNext
  <2>1. EdgesKept /\ thread_alive' = thread_alive /\ UNCHANGED transportVars
    BY <1>1, AccessFrame
  <2> QED
    BY <2>1, FewerMessages
    DEF transportVars, proxyVars, queueVars, historyVars, TransportTypes, EarlyTasks
<1>2. ASSUME NEW end \in End, DispatchMessageEvent(end) PROVE Transport' /\ handled' = handled
  <2>1. /\ EdgesKept /\ thread_alive' = thread_alive
        /\ to_port[end] # <<>> /\ to_port' = [to_port EXCEPT ![end] = Tail(@)]
        /\ port_handled' = TRUE
        /\ UNCHANGED <<worker, worker_tid, proxyVars, to_worker, to_owner, reports, handled>>
    BY <1>2 DEF DispatchMessageEvent, EdgesKept, edgeVars, slotVars
  <2>2. Tail(to_port[end]) \in Seq(Message)
    <3>1. to_port[end] \in Seq(Message)
      BY DEF TransportTypes
    <3> QED BY <2>1, <3>1
  <2>3. to_port' \in [End -> Seq(Message)]
    BY <2>1, <2>2 DEF TransportTypes
  <2> QED BY <2>1, <2>3, FewerMessages DEF proxyVars, TransportTypes, EarlyTasks
<1> QED BY <1>1, <1>2

-----------------------------------------------------------------------------
\* The invariant, and what follows from it.

(* The transport invariant is kept by every step.                          *)
LEMMA StepTransport ==
  ASSUME MessagesInv, [MessagesNext]_allVars
  PROVE  Transport' /\ \A end \in End : handled'[end] >= handled[end]
<1>1. \A end \in End : handled[end] >= handled[end]
  BY DEF MessagesInv, TransportTypes
<1>2. CASE UNCHANGED allVars
  <2>1. /\ EdgesKept /\ thread_alive' = thread_alive /\ UNCHANGED transportVars
    BY <1>2 DEF allVars, vars, EdgesKept, edgeVars, slotVars
  <2> QED
    BY <1>1, <2>1, FewerMessages
    DEF transportVars, proxyVars, queueVars, historyVars, Transport, MessagesInv,
        TransportTypes, EarlyTasks
<1>3. CASE \/ WorkerCreated \/ RunWorkerScript \/ Close \/ Terminate \/ PerformShutdown
  <2>1. handled' = handled
    BY <1>3
    DEF WorkerCreated, RunWorkerScript, Close, Terminate, PerformShutdown, historyVars
  <2> QED BY <1>1, <1>3, <2>1, WorkerLife
<1>4. CASE DidEvaluateScript
  <2>1. handled' = handled
    BY <1>4 DEF DidEvaluateScript, historyVars
  <2> QED BY <1>1, <1>4, <2>1, EarlyTasksPosted
<1>5. CASE PostMessageToWorker \/ PostMessageToOwner \/ \E end \in End : PortPostMessage(end)
  <2>1. handled' = handled
    BY <1>5 DEF PostMessageToWorker, PostMessageToOwner, PortPostMessage, historyVars
  <2> QED BY <1>1, <1>5, <2>1, MessageSent
<1>6. CASE ReceiveMessage \/ PostMessageToWorkerObject
  BY <1>6, MessageReceived
<1>7. CASE AccessNext \/ \E end \in End : DispatchMessageEvent(end)
  BY <1>1, <1>7, PortMessageHandled
<1> QED BY <1>2, <1>3, <1>4, <1>5, <1>6, <1>7 DEF MessagesNext, Deliver

(* The soundness of the detector lasts until a message of a port is        *)
(* handled, and the handling itself is a step of the history only.         *)
LEMMA StepMessages == MessagesInv /\ [MessagesNext]_allVars => MessagesInv'
<1> SUFFICES ASSUME MessagesInv, [MessagesNext]_allVars PROVE MessagesInv'
  OBVIOUS
<1>1. (TransportTypes /\ EarlyTasks /\ QueuesInv)'
  BY StepTransport DEF Transport
<1>2. CASE \E end \in End : DispatchMessageEvent(end)
  <2>1. PICK end \in End : DispatchMessageEvent(end)
    BY <1>2
  <2>2. TypeInv'
    BY <2>1, DispatchType
  <2>3. port_handled'
    BY <2>1 DEF DispatchMessageEvent
  <2> QED BY <1>1, <2>2, <2>3 DEF MessagesInv
<1>3. CASE [Next]_vars /\ ~ \E end \in End : DispatchMessageEvent(end)
  <2>1. TypeInv'
    BY <1>3, StepType DEF MessagesInv
  <2>2. port_handled' = port_handled
    BY <1>3
    DEF MessagesNext, Deliver, WorkerCreated, RunWorkerScript, Close, Terminate,
        PerformShutdown, DidEvaluateScript, PostMessageToWorker, PostMessageToOwner,
        PortPostMessage, ReceiveMessage, PostMessageToWorkerObject, AccessNext,
        allVars, transportVars, historyVars
  <2>3. ~ port_handled => SoundInv'
    BY <1>3, <2>1, StepSound DEF MessagesInv
  <2> QED BY <1>1, <2>1, <2>2, <2>3 DEF MessagesInv
<1> QED BY <1>2, <1>3, DetectorStep

(* Each message is in one queue, once, and its edge waits for it.          *)
LEMMA MessagesWait == MessagesInv => EdgeWaits
<1> SUFFICES ASSUME MessagesInv PROVE EdgeWaits
  OBVIOUS
<1> DEFINE In(queue) == {queue[i] : i \in 1 .. Len(queue)}
<1>1. /\ Ordered(queued_early_tasks) /\ Ordered(to_worker) /\ Ordered(to_owner)
      /\ Sent(queued_early_tasks) \cup Sent(to_worker) \cup Sent(to_owner) \subseteq edges
      /\ (Sent(queued_early_tasks) \cup Sent(to_worker)) \cap Sent(to_owner) = {}
  BY DEF MessagesInv, QueuesInv
<1>2. ASSUME NEW queue, Ordered(queue), NEW m \in In(queue)
      PROVE  m.sent \in Sent(queue) /\ m.edge = m.sent
  BY <1>2 DEF Ordered, Sent
<1>3. \A m \in InFlight : m.edge \in edges
  BY <1>1, <1>2 DEF InFlight
<1>4. worker_tid # NoTid => worker_tid \in thread_alive
  BY DEF MessagesInv, TransportTypes
<1>5. PICK queue \in {queued_early_tasks, to_worker} :
        /\ InFlight = In(queue) \cup In(to_owner)
        /\ Len(queued_early_tasks) + Len(to_worker) + Len(to_owner) = Len(queue) + Len(to_owner)
  <2>1. Len(queued_early_tasks) \in Nat /\ Len(to_worker) \in Nat /\ Len(to_owner) \in Nat
    BY <1>1 DEF Ordered
  <2>2. CASE queued_early_tasks = <<>>
    <3>1. In(queued_early_tasks) = {} /\ Len(queued_early_tasks) = 0
      BY <2>2
    <3> QED BY <2>1, <3>1 DEF InFlight
  <2>3. CASE to_worker = <<>>
    <3>1. In(to_worker) = {} /\ Len(to_worker) = 0
      BY <2>3
    <3> QED BY <2>1, <3>1 DEF InFlight
  <2> QED BY <2>2, <2>3 DEF MessagesInv, EarlyTasks
<1>6. /\ IsFiniteSet(In(queue)) /\ Cardinality(In(queue)) = Len(queue)
      /\ IsFiniteSet(In(to_owner)) /\ Cardinality(In(to_owner)) = Len(to_owner)
  BY <1>1, EachOnce
<1>7. In(queue) \cap In(to_owner) = {}
  <2> SUFFICES ASSUME NEW m \in In(queue), m \in In(to_owner) PROVE FALSE
    OBVIOUS
  <2>1. m.sent \in Sent(queue) /\ m.sent \in Sent(to_owner)
    BY <1>1, <1>2
  <2> QED BY <1>1, <2>1
<1> HIDE DEF In
<1>8. Cardinality(InFlight) = Len(queue) + Len(to_owner)
  <2>1. Cardinality(In(queue) \cup In(to_owner)) =
          Cardinality(In(queue)) + Cardinality(In(to_owner))
            - Cardinality(In(queue) \cap In(to_owner))
    BY <1>6, FS_Union
  <2>2. Cardinality(In(queue) \cap In(to_owner)) = 0
    BY <1>7, FS_EmptySet
  <2>3. Len(queue) \in Nat /\ Len(to_owner) \in Nat
    BY <1>1 DEF Ordered
  <2> QED BY <1>5, <1>6, <2>1, <2>2, <2>3
<1> QED BY <1>3, <1>4, <1>5, <1>8 DEF EdgeWaits

(* Each message between the worker and its object is in one queue once and *)
(* its edge waits in hb_edges_ for it, and a worker that runs keeps its    *)
(* slot, whatever is posted, terminated or closed in between.              *)
THEOREM EdgesWait == MessagesSpec => []EdgeWaits
<1>1. MessagesSpec => []MessagesInv
  BY InitMessages, StepMessages, PTL DEF MessagesSpec
<1> QED BY <1>1, MessagesWait, PTL

(* What was written before a message was sent is never reported as a race  *)
(* with its handler, as long as no message of a port has been handled: the *)
(* edge carries the clock that was sent (OnPostMessageSend).               *)
THEOREM MessagesOrder == MessagesSpec => []OrderedByMessages
<1>1. MessagesSpec => []MessagesInv
  BY InitMessages, StepMessages, PTL DEF MessagesSpec
<1>2. MessagesInv => OrderedByMessages
  BY SoundNoFalseRace DEF MessagesInv, OrderedByMessages
<1> QED BY <1>1, <1>2, PTL

(* Each side handles the messages of the other in the order they were sent *)
(* in, also those that had to wait for the script (DidEvaluateScript).     *)
THEOREM MessagesInOrder == MessagesSpec => HandledInOrder
<1> DEFINE Forward == \A end \in End : handled'[end] >= handled[end]
<1>1. MessagesInv /\ [MessagesNext]_allVars => [Forward]_allVars
  BY StepTransport
<1> HIDE DEF Forward
<1>2. MessagesSpec => [][Forward]_allVars
  BY <1>1, InitMessages, StepMessages, PTL DEF MessagesSpec
<1> QED BY <1>2, PTL DEF HandledInOrder, Forward

=============================================================================
