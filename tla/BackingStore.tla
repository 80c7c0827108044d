----------------------------- MODULE BackingStore -----------------------------
(***************************************************************************)
(* One backing store of backing-store.cc from its allocation to its end: a *)
(* Wasm memory, a growable shared buffer ("gsab") or a resizable buffer of *)
(* one thread ("rab").                                                     *)
(*                                                                         *)
(* A step is what one thread does between two accesses to byte_length_ or  *)
(* two calls of the page allocator, whose failures are choices.  A failed  *)
(* call that succeeds after a garbage collection (gc_retry) is a call that *)
(* succeeds.  Pages of the page allocator and pages of Wasm are one size.  *)
(* Contents are abstracted to how far from the start a byte may differ     *)
(* from zero.                                                              *)
(***************************************************************************)
EXTENDS Integers, Sequences

CONSTANTS
  Thread,
  PageSize,     \* bytes of a page
  MaxPages,     \* the largest maximum of a memory, in pages
  GuardPages    \* reserved pages of a memory with guard regions

ASSUME BackingStoreAssumption ==
  /\ PageSize \in Nat \ {0} /\ MaxPages \in Nat \ {0}
  /\ GuardPages \in Nat /\ GuardPages >= MaxPages

VARIABLES
  store,         \* kind, shared, guards and capacity of the store, or NoStore
  byte_length,   \* byte_length_
  committed,     \* bytes from buffer_start_ on with kReadWrite permission
  dirty,         \* bytes from buffer_start_ on that may be other than zero
  reserved,      \* pages that the process has reserved
  covered,       \* pages that the trap handler takes for guarded memory
  request,       \* the allocation in progress, or NoRequest
  pc,            \* where each thread is in a grow
  answer         \* history: the last answer of a call

vars == <<store, byte_length, committed, dirty, reserved, covered, request, pc, answer>>
memVars == <<byte_length, committed, dirty>>
osVars == <<reserved, covered>>

NoStore == [kind |-> "none", shared |-> FALSE, guards |-> FALSE, capacity |-> 0]
NoRequest == [at |-> "none"]
Idle == [at |-> "idle"]

Kind == {"wasm", "gsab", "rab"}
Pages == 0 .. MaxPages
Bytes == 0 .. MaxPages * PageSize
Minimum(m, n) == IF m < n THEN m ELSE n
Maximum(m, n) == IF m < n THEN n ELSE m

\* GetWasmReservationSize, in pages.
ReservationSize(guards, capacity) == IF guards THEN GuardPages ELSE capacity
RoundUpToPageSize(n) == (n + PageSize - 1) \div PageSize

Init ==
  /\ store = NoStore
  /\ byte_length = 0 /\ committed = 0 /\ dirty = 0
  /\ reserved = 0 /\ covered = 0
  /\ request = NoRequest
  /\ pc = [t \in Thread |-> Idle]
  /\ answer = <<>>

\* A thread calls only what it may: a memory that is not shared has one thread.
Calls(t) ==
  /\ pc[t] = Idle /\ request = NoRequest
  /\ store # NoStore
  /\ store.shared \/ \A u \in Thread \ {t} : pc[u] = Idle

AllIdle == request = NoRequest /\ \A t \in Thread : pc[t] = Idle

-----------------------------------------------------------------------------
(* Allocation.                                                             *)

\* The numbers of pages that AllocateWasmMemory tries in turn.  A maximum of no
\* page reserves one, because some systems cannot reserve none.
Sizes(initial, maximum, kind, guards) ==
  LET delta == (maximum - initial) \div 4
      smaller == IF kind = "wasm" /\ ~ guards /\ maximum - initial >= 4
                 THEN <<maximum - delta, maximum - 2 * delta, maximum - 3 * delta, initial>>
                 ELSE <<>>
      all == <<maximum>> \o smaller
  IN [i \in DOMAIN all |-> Maximum(all[i], 1)]

\* A new store, or a copy of the Wasm memory, which takes over its sharing.
StartAllocate(kind, shared, guards, length, maximum, copy) ==
  /\ request' = [at |-> "reserve", kind |-> kind, shared |-> shared, guards |-> guards,
                 length |-> length, copy |-> copy,
                 sizes |-> Sizes(RoundUpToPageSize(length), maximum, kind, guards)]
  /\ UNCHANGED <<store, memVars, osVars, pc, answer>>

Allocate(kind) ==
  /\ AllIdle /\ store = NoStore
  /\ \E shared, guards \in BOOLEAN, length \in Bytes, maximum \in Pages :
       /\ RoundUpToPageSize(length) <= maximum
       /\ shared = (kind = "gsab") \/ kind = "wasm"
       /\ guards => kind = "wasm"
       /\ kind = "wasm" => length % PageSize = 0
       /\ StartAllocate(kind, shared, guards, length, maximum, FALSE)

CopyWasmMemory ==
  /\ AllIdle /\ store.kind = "wasm"
  /\ \E guards \in BOOLEAN, new_pages, maximum \in Pages :
       /\ new_pages * PageSize >= byte_length /\ new_pages <= maximum
       /\ StartAllocate("wasm", store.shared, guards, new_pages * PageSize, maximum, TRUE)

TryNextForEver(sizes) ==         \* mutant: no end of the retries
  [request EXCEPT !.at = "reserve", !.sizes = Tail(sizes)]
TryNext(sizes) == IF Len(sizes) = 1 THEN NoRequest
                  ELSE [request EXCEPT !.at = "reserve", !.sizes = Tail(sizes)]

ReservePages ==
  /\ request.at = "reserve"
  /\ \/ /\ reserved' = reserved + ReservationSize(request.guards, Head(request.sizes))
        /\ request' = [request EXCEPT !.at = "commit"]
     \/ /\ request' = TryNext(request.sizes)
        /\ UNCHANGED reserved
  /\ UNCHANGED <<store, memVars, covered, pc, answer>>

CommitFailsKeepsPages ==         \* mutant: no FreePages
  /\ request.at = "commit" /\ request.length # 0
  /\ request' = TryNext(request.sizes)
  /\ UNCHANGED <<store, memVars, osVars, pc, answer>>
CommitFails ==
  /\ request.at = "commit" /\ request.length # 0
  /\ reserved' = reserved - ReservationSize(request.guards, Head(request.sizes))
  /\ request' = TryNext(request.sizes)
  /\ UNCHANGED <<store, memVars, covered, pc, answer>>

\* The new store; a copy has the contents of the old store, which is freed.
CommitPages ==
  /\ request.at = "commit"
  /\ ~ request.copy \/ request.guards = store.guards
  /\ store' = [kind |-> request.kind, shared |-> request.shared, guards |-> request.guards,
               capacity |-> Head(request.sizes) * PageSize]
  /\ byte_length' = request.length
  /\ committed' = RoundUpToPageSize(request.length) * PageSize
  /\ covered' = IF request.guards THEN GuardPages ELSE 0
  /\ reserved' = reserved
       - (IF request.copy THEN ReservationSize(store.guards, store.capacity \div PageSize)
                          ELSE 0)
  /\ request' = NoRequest
  /\ UNCHANGED <<dirty, pc, answer>>

\* A copy of another layout is given up.
CopyRefused ==
  /\ request.at = "commit"
  /\ request.copy /\ request.guards # store.guards
  /\ reserved' = reserved - ReservationSize(request.guards, Head(request.sizes))
  /\ request' = NoRequest
  /\ UNCHANGED <<store, memVars, covered, pc, answer>>

\* The destructor.
Free ==
  /\ AllIdle /\ store # NoStore
  /\ covered' = 0
  /\ reserved' = reserved - ReservationSize(store.guards, store.capacity \div PageSize)
  /\ store' = NoStore
  /\ byte_length' = 0 /\ committed' = 0 /\ dirty' = 0
  /\ answer' = <<>>
  /\ UNCHANGED <<request, pc>>

\* The program writes to the memory.
Write(t) ==
  /\ Calls(t)
  /\ dirty' = byte_length
  /\ UNCHANGED <<store, byte_length, committed, osVars, request, pc, answer>>

-----------------------------------------------------------------------------
(* GrowWasmMemoryInPlace and GrowInPlace: a compare-exchange loop.         *)

Return(t, what, n, result) ==
  /\ pc' = [pc EXCEPT ![t] = Idle]
  /\ answer' = <<t, what, n, result>>

\* The head of the loop, with the length that was read.
Loop(t, what, arg, limit, old) ==
  \/ what = "by" /\ old > limit - arg /\ Return(t, "by", arg, <<"failure">>)
  \/ what = "to" /\ arg < old /\ Return(t, "to", arg, <<"race">>)
  \/ what = "to" /\ arg = old /\ Return(t, "to", arg, <<"success">>)
  \/ /\ IF what = "by" THEN old <= limit - arg ELSE arg > old
     /\ pc' = [pc EXCEPT ![t] = [at |-> "permissions", what |-> what, arg |-> arg,
                                 limit |-> limit, old |-> old]]
     /\ UNCHANGED answer

GrowWasmMemoryInPlace(t) ==
  /\ Calls(t) /\ store.kind = "wasm"
  /\ \E delta, maximum \in Pages :
       LET max_pages == Minimum(maximum, store.capacity \div PageSize) IN
       \/ delta = 0 /\ Return(t, "by", 0, <<"was", byte_length>>)
       \/ delta > max_pages /\ Return(t, "by", delta * PageSize, <<"failure">>)
       \/ /\ delta # 0 /\ delta <= max_pages
          /\ Loop(t, "by", delta * PageSize, max_pages * PageSize, byte_length)
  /\ UNCHANGED <<store, memVars, osVars, request>>

GrowInPlace(t) ==
  /\ Calls(t) /\ store.kind = "gsab"
  /\ \E n \in Bytes :
       n <= store.capacity /\ Loop(t, "to", n, store.capacity, byte_length)
  /\ UNCHANGED <<store, memVars, osVars, request>>

\* The length a grow asks for, from the length it has read.
New(t) == IF pc[t].what = "by" THEN pc[t].old + pc[t].arg ELSE pc[t].arg

\* Permissions are set from the start of the buffer up to the new length.
SetPermissions(t) ==
  /\ pc[t].at = "permissions"
  /\ \/ /\ committed' = Maximum(committed, RoundUpToPageSize(New(t)) * PageSize)
        /\ pc' = [pc EXCEPT ![t].at = "exchange"]
        /\ UNCHANGED answer
     \/ /\ Return(t, pc[t].what, pc[t].arg, <<"failure">>)
        /\ UNCHANGED committed
  /\ UNCHANGED <<store, byte_length, dirty, osVars, request>>

\* The compare-exchange, which is weak: it may fail although the length is the
\* one that was read.
Exchanged(t) ==
  /\ byte_length' = New(t)
  /\ Return(t, pc[t].what, pc[t].arg, IF pc[t].what = "by" THEN <<"was", pc[t].old>>
                                               ELSE <<"success">>)

StoresLength(t) ==             \* mutant: a store for the exchange
  /\ pc[t].at = "exchange"
  /\ Exchanged(t)
  /\ UNCHANGED <<store, committed, dirty, osVars, request>>
RetriesExchange(t) ==          \* mutant: only the exchange is repeated
  /\ pc[t].at = "exchange"
  /\ \/ byte_length = pc[t].old /\ Exchanged(t)
     \/ /\ pc' = [pc EXCEPT ![t].old = byte_length]
        /\ UNCHANGED <<byte_length, answer>>
  /\ UNCHANGED <<store, committed, dirty, osVars, request>>
CompareExchange(t) ==
  /\ pc[t].at = "exchange"
  /\ \/ byte_length = pc[t].old /\ Exchanged(t)
     \/ /\ Loop(t, pc[t].what, pc[t].arg, pc[t].limit, byte_length)
        /\ UNCHANGED byte_length
  /\ UNCHANGED <<store, committed, dirty, osVars, request>>

-----------------------------------------------------------------------------
(* ResizeInPlace, of a buffer that one thread has.                         *)

ShrinkKeepsTail(t, n) ==       \* mutant: the bytes given up are not cleared
  /\ n < byte_length
  /\ \/ /\ committed' = RoundUpToPageSize(n) * PageSize
        /\ byte_length' = n
        /\ dirty' = Minimum(dirty, RoundUpToPageSize(n) * PageSize)
        /\ Return(t, "resize", n, <<"success">>)
     \/ /\ RoundUpToPageSize(n) < RoundUpToPageSize(byte_length)
        /\ Return(t, "resize", n, <<"failure">>)
        /\ UNCHANGED memVars
Shrink(t, n) ==
  /\ n < byte_length
  /\ dirty' = Minimum(dirty, n)
  /\ \/ /\ committed' = RoundUpToPageSize(n) * PageSize
        /\ byte_length' = n
        /\ Return(t, "resize", n, <<"success">>)
     \/ /\ RoundUpToPageSize(n) < RoundUpToPageSize(byte_length)
        /\ Return(t, "resize", n, <<"failure">>)
        /\ UNCHANGED <<committed, byte_length>>

Lengthen(t, n) ==
  /\ n >= byte_length
  /\ \/ /\ committed' = RoundUpToPageSize(n) * PageSize
        /\ byte_length' = n
        /\ Return(t, "resize", n, <<"success">>)
     \/ /\ n > byte_length
        /\ Return(t, "resize", n, <<"failure">>)
        /\ UNCHANGED <<committed, byte_length>>
  /\ UNCHANGED dirty

ResizeInPlace(t) ==
  /\ Calls(t) /\ store.kind = "rab"
  /\ \E n \in Bytes : n <= store.capacity /\ (Shrink(t, n) \/ Lengthen(t, n))
  /\ UNCHANGED <<store, osVars, request>>

Next ==
  \/ \E kind \in Kind : Allocate(kind)
  \/ CopyWasmMemory
  \/ ReservePages \/ CommitPages \/ CommitFails \/ CopyRefused
  \/ Free
  \/ \E t \in Thread :
       \/ Write(t)
       \/ GrowWasmMemoryInPlace(t) \/ GrowInPlace(t) \/ ResizeInPlace(t)
       \/ SetPermissions(t) \/ CompareExchange(t)

Spec == Init /\ [][Next]_vars

-----------------------------------------------------------------------------
(* Correctness.                                                            *)

Store == [kind : Kind, shared : BOOLEAN, guards : BOOLEAN, capacity : Nat]
Request == [at : {"reserve", "commit"}, kind : Kind, shared : BOOLEAN, guards : BOOLEAN,
            length : Nat, copy : BOOLEAN, sizes : Seq(Nat \ {0}) \ {<<>>}]
Growing == [at : {"permissions", "exchange"}, what : {"by", "to"}, arg : Nat \ {0},
            limit : Nat, old : Nat]

(* Lengths are natural numbers, and what is in progress is well formed.    *)
TypeOK ==
  /\ store \in Store \cup {NoStore}
  /\ byte_length \in Nat /\ committed \in Nat /\ dirty \in Nat
  /\ reserved \in Nat /\ covered \in {0, GuardPages}
  /\ request \in Request \cup {NoRequest}
  /\ pc \in [Thread -> Growing \cup {Idle}]

(* "{byte_length_} is always lower or equal than the amount of memory with *)
(* permissions set to kReadWrite", and these lie in the capacity, also     *)
(* while grows race: a thread that reads a length may access all below it. *)
LengthIsCommitted == byte_length <= committed /\ committed <= store.capacity

(* Bytes that are not below the length are zero, so a buffer that is grown *)
(* has zeros there, whatever was written before it was made shorter.       *)
TailIsZero == dirty <= byte_length

(* Whatever fails on the way to a store or to a copy, exactly the pages of *)
(* the store and of the attempt in progress are reserved, and the trap     *)
(* handler covers no pages but those of a store with guard regions.        *)
NothingLeaked ==
  /\ reserved = ReservationSize(store.guards, store.capacity \div PageSize)
       + (IF request.at = "commit"
          THEN ReservationSize(request.guards, Head(request.sizes)) ELSE 0)
  /\ covered = IF store.guards THEN GuardPages ELSE 0

(* Racing grows are linear: each one appears as a single read-modify-write *)
(* of the length, so two of them never return the same old length, and a   *)
(* growable buffer is refused as raced only if it is longer by then.       *)
Length == INSTANCE MemoryLength
  WITH Lengths <- Bytes,
       length <- IF store = NoStore THEN -1 ELSE byte_length
LengthIsLinear == Length!Spec

===============================================================================
