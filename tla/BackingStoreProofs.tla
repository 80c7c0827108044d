-------------------------- MODULE BackingStoreProofs --------------------------
(***************************************************************************)
(* What one backing store keeps for every size of pages and memories and   *)
(* any number of threads that grow it: the length stays below what is      *)
(* committed, what a shrink gave up is zero, a failed allocation leaks no  *)
(* page, and racing grows are linear.                                      *)
(*                                                                         *)
(* None of these is inductive.  A grow that has set its permissions holds  *)
(* the length it will store in its own variables, and so does an           *)
(* allocation that is waiting for its pages: the invariant says of both    *)
(* that they fit.                                                          *)
(***************************************************************************)
EXTENDS BackingStore, SequenceTheorems, TLAPS

-----------------------------------------------------------------------------
(* Whole pages.                                                            *)

(* Multiplying by the size of a page keeps the order of lengths.           *)
LEMMA PagesOrdered ==
  \A j, k \in Nat : (j <= k) <=> (j * PageSize <= k * PageSize)
<1> SUFFICES ASSUME NEW j \in Nat, NEW k \in Nat
             PROVE  (j <= k) <=> (j * PageSize <= k * PageSize)
  OBVIOUS
<1> DEFINE d == k - j
           e == j - k
<1>0. PageSize \in Nat \ {0}
  BY BackingStoreAssumption
<1>1. CASE j <= k
  <2>1. d \in Nat /\ k = j + d
    BY <1>1
  <2>2. d * PageSize >= 0
    BY <2>1, <1>0
  <2>3. k * PageSize = j * PageSize + d * PageSize
    BY <2>1, <1>0
  <2> QED BY <1>1, <2>1, <2>2, <2>3, <1>0
<1>2. CASE k < j
  <2>1. e \in Nat \ {0} /\ j = k + e
    BY <1>2
  <2>2. e * PageSize > 0
    BY <2>1, <1>0
  <2>3. j * PageSize = k * PageSize + e * PageSize
    BY <2>1, <1>0
  <2> QED BY <1>2, <2>1, <2>2, <2>3, <1>0
<1> QED BY <1>1, <1>2

(* As many pages as RoundUpToPageSize says are enough, and no fewer are.   *)
LEMMA RoundUp ==
  \A n \in Nat : /\ RoundUpToPageSize(n) \in Nat
                 /\ n <= RoundUpToPageSize(n) * PageSize
                 /\ RoundUpToPageSize(n) * PageSize < n + PageSize
<1> SUFFICES ASSUME NEW n \in Nat
             PROVE  /\ RoundUpToPageSize(n) \in Nat
                    /\ n <= RoundUpToPageSize(n) * PageSize
                    /\ RoundUpToPageSize(n) * PageSize < n + PageSize
  OBVIOUS
<1> DEFINE a == n + PageSize - 1
           q == a \div PageSize
           r == a % PageSize
<1>0. PageSize \in Nat \ {0} /\ a \in Nat
  BY BackingStoreAssumption
<1>1. q \in Int /\ r \in 0 .. PageSize - 1 /\ a = PageSize * q + r
  BY <1>0
<1>2. q >= 0
  BY <1>0, <1>1
<1>3. q * PageSize = PageSize * q
  BY <1>0, <1>1
<1>4. RoundUpToPageSize(n) = q
  BY DEF RoundUpToPageSize
<1> HIDE DEF q, r
<1> QED BY <1>0, <1>1, <1>2, <1>3, <1>4

(* What fits in whole pages fits in them rounded up.                       *)
LEMMA RoundUpFits ==
  \A n, k \in Nat : n <= k * PageSize <=> RoundUpToPageSize(n) <= k
<1> SUFFICES ASSUME NEW n \in Nat, NEW k \in Nat
             PROVE  n <= k * PageSize <=> RoundUpToPageSize(n) <= k
  OBVIOUS
<1> DEFINE q == RoundUpToPageSize(n)
<1>0. PageSize \in Nat \ {0}
  BY BackingStoreAssumption
<1>1. q \in Nat /\ n <= q * PageSize /\ q * PageSize < n + PageSize
  BY RoundUp
<1> HIDE DEF q
<1>2. k * PageSize \in Nat /\ q * PageSize \in Nat /\ (k + 1) * PageSize = k * PageSize + PageSize
  BY <1>0, <1>1
<1>3. n <= k * PageSize <=> q <= k
  <2>1. CASE q <= k
    BY <1>0, <1>1, <1>2, <2>1, PagesOrdered
  <2>2. CASE k + 1 <= q
    <3>1. (k + 1) * PageSize <= q * PageSize
      BY <1>1, <2>2, PagesOrdered
    <3> QED BY <1>0, <1>1, <1>2, <2>2, <3>1
  <2> QED BY <1>1, <2>1, <2>2
<1> QED BY <1>3 DEF q

(* The pages of a length of whole pages.                                   *)
LEMMA PagesOf == \A k \in Nat : (k * PageSize) \div PageSize = k
<1> SUFFICES ASSUME NEW k \in Nat PROVE (k * PageSize) \div PageSize = k
  OBVIOUS
<1>0. PageSize \in Nat \ {0}
  BY BackingStoreAssumption
<1> QED BY <1>0, Z3

-----------------------------------------------------------------------------
(* The inductive invariant.                                                *)

\* The capacity is whole pages, of which the length is a part, and what is
\* committed lies between; without a store there is nothing.
StoreInv ==
  /\ LengthIsCommitted
  /\ TailIsZero
  /\ \E k \in Pages : store.capacity = k * PageSize

\* An allocation is alone, every maximum it may still try has room for the
\* length, and what it copies is a memory that is not longer.
RequestInv == request # NoRequest =>
  /\ \A t \in Thread : pc[t] = Idle
  /\ \A j \in DOMAIN request.sizes : /\ RoundUpToPageSize(request.length) <= request.sizes[j]
                                     /\ request.sizes[j] <= MaxPages
  /\ IF request.copy THEN store # NoStore /\ byte_length <= request.length
     ELSE store = NoStore

\* A grow is of a store that nobody shortens meanwhile; the new length is longer
\* than the old and in the limits, and committed once the permissions are set.
GrowInv == \A t \in Thread : pc[t] # Idle =>
  /\ store \in Store /\ store.kind # "rab"
  /\ pc[t].old <= New(t) /\ New(t) <= pc[t].limit /\ pc[t].limit <= store.capacity
  /\ pc[t].at = "exchange" => New(t) <= committed

IInv == TypeOK /\ StoreInv /\ RequestInv /\ GrowInv /\ NothingLeaked

(* A number before a sequence of numbers.                                  *)
LEMMA Prepend ==
  ASSUME NEW x \in Nat, NEW s \in Seq(Nat)
  PROVE  /\ <<x>> \o s \in Seq(Nat) /\ Len(<<x>> \o s) = Len(s) + 1
         /\ \A j \in 1 .. Len(s) + 1 : (<<x>> \o s)[j] = IF j = 1 THEN x ELSE s[j - 1]
OBVIOUS

(* Every maximum that AllocateWasmMemory tries has room for the initial    *)
(* pages, is at least one, and is not above the first.                     *)
LEMMA SizesFit ==
  ASSUME NEW initial \in Nat, NEW maximum \in Pages, initial <= maximum,
         NEW kind \in Kind, NEW guards \in BOOLEAN
  PROVE  LET sizes == Sizes(initial, maximum, kind, guards) IN
         /\ sizes \in Seq(Nat \ {0}) \ {<<>>}
         /\ \A j \in DOMAIN sizes : initial <= sizes[j] /\ sizes[j] <= MaxPages
<1> DEFINE delta == (maximum - initial) \div 4
           smaller == IF kind = "wasm" /\ ~ guards /\ maximum - initial >= 4
                      THEN <<maximum - delta, maximum - 2 * delta, maximum - 3 * delta, initial>>
                      ELSE <<>>
           all == <<maximum>> \o smaller
           sizes == [j \in DOMAIN all |-> Maximum(all[j], 1)]
<1>0. MaxPages \in Nat \ {0} /\ maximum \in Nat /\ maximum <= MaxPages
  BY BackingStoreAssumption DEF Pages
<1>1. delta \in Nat /\ 4 * delta <= maximum - initial
  BY <1>0
<1>s. sizes = Sizes(initial, maximum, kind, guards)
  BY DEF Sizes
<1> HIDE DEF delta
<1>2. /\ smaller \in Seq(Nat)
      /\ \A j \in 1 .. Len(smaller) : initial <= smaller[j] /\ smaller[j] <= maximum
  BY <1>0, <1>1
<1> HIDE DEF smaller
<1>3. /\ all \in Seq(Nat) /\ Len(all) = Len(smaller) + 1
      /\ \A j \in 1 .. Len(all) : initial <= all[j] /\ all[j] <= maximum
  <2>1. /\ all \in Seq(Nat) /\ Len(all) = Len(smaller) + 1
        /\ \A j \in 1 .. Len(smaller) + 1 : all[j] = IF j = 1 THEN maximum ELSE smaller[j - 1]
    BY <1>0, <1>2, Prepend
  <2> HIDE DEF all
  <2>2. ASSUME NEW j \in 1 .. Len(all) PROVE initial <= all[j] /\ all[j] <= maximum
    <3>1. CASE j = 1
      BY <1>0, <1>2, <2>1, <3>1
    <3>2. CASE j # 1
      <4>1. j - 1 \in 1 .. Len(smaller)
        BY <1>2, <2>1, <3>2
      <4> QED BY <1>2, <2>1, <3>2, <4>1
    <3> QED BY <3>1, <3>2
  <2> QED BY <2>1, <2>2
<1> HIDE DEF all
<1>4. DOMAIN all = 1 .. Len(all) /\ Len(all) \in Nat \ {0}
  BY <1>2, <1>3
<1>5. \A j \in DOMAIN all : sizes[j] \in Nat \ {0} /\ initial <= sizes[j] /\ sizes[j] <= MaxPages
  <2> SUFFICES ASSUME NEW j \in DOMAIN all
               PROVE sizes[j] \in Nat \ {0} /\ initial <= sizes[j] /\ sizes[j] <= MaxPages
    OBVIOUS
  <2>1. all[j] \in Nat /\ initial <= all[j] /\ all[j] <= maximum
    BY <1>3, <1>4
  <2> QED BY <1>0, <2>1 DEF Maximum
<1>6. sizes \in Seq(Nat \ {0}) /\ Len(sizes) = Len(all) /\ DOMAIN sizes = DOMAIN all
  BY <1>3, <1>4, <1>5
<1> HIDE DEF sizes
<1>7. sizes # <<>>
  BY <1>4, <1>6
<1> QED BY <1>5, <1>6, <1>7, <1>s

LEMMA InitInv == Init => IInv
<1> SUFFICES ASSUME Init PROVE IInv
  OBVIOUS
<1> USE DEF Init, NoStore, NoRequest, Idle
<1>0. PageSize \in Nat \ {0} /\ MaxPages \in Nat \ {0} /\ GuardPages \in Nat
  BY BackingStoreAssumption
<1>1. TypeOK
  BY <1>0 DEF TypeOK
<1>2. StoreInv
  <2>1. 0 \in Pages /\ store.capacity = 0 * PageSize
    BY <1>0 DEF Pages
  <2> QED BY <2>1 DEF StoreInv, LengthIsCommitted, TailIsZero
<1>3. RequestInv /\ GrowInv
  BY DEF RequestInv, GrowInv
<1>4. NothingLeaked
  <2>1. 0 \div PageSize = 0
    BY <1>0, PagesOf
  <2> QED BY <2>1 DEF NothingLeaked, ReservationSize
<1> QED BY <1>1, <1>2, <1>3, <1>4 DEF IInv

-----------------------------------------------------------------------------
(* Every step keeps the invariant.                                         *)

(* The numbers of pages are natural.                                       *)
LEMMA ReservationType ==
  ASSUME NEW guards \in BOOLEAN, NEW capacity \in Nat
  PROVE  ReservationSize(guards, capacity) \in Nat
BY BackingStoreAssumption DEF ReservationSize

(* What the invariant says of an allocation.                               *)
LEMMA RequestFacts ==
  ASSUME IInv, request # NoRequest
  PROVE  /\ request \in Request /\ pc = [t \in Thread |-> Idle]
         /\ Head(request.sizes) \in Pages \ {0}
         /\ RoundUpToPageSize(request.length) <= Head(request.sizes)
         /\ ReservationSize(request.guards, Head(request.sizes)) \in Nat
<1>1. request \in Request
  BY DEF IInv, TypeOK
<1>2. pc = [t \in Thread |-> Idle]
  BY DEF IInv, TypeOK, RequestInv
<1>3. 1 \in DOMAIN request.sizes /\ Head(request.sizes) = request.sizes[1]
  BY <1>1 DEF Request
<1>4. Head(request.sizes) \in Nat \ {0}
  BY <1>1, <1>3 DEF Request
<1>5. /\ RoundUpToPageSize(request.length) <= Head(request.sizes)
      /\ Head(request.sizes) <= MaxPages
  BY <1>3 DEF IInv, RequestInv
<1>6. Head(request.sizes) \in Pages \ {0}
  BY <1>4, <1>5, BackingStoreAssumption DEF Pages
<1>7. request.guards \in BOOLEAN
  BY <1>1 DEF Request
<1>8. ReservationSize(request.guards, Head(request.sizes)) \in Nat
  BY <1>4, <1>7, ReservationType
<1> QED BY <1>1, <1>2, <1>5, <1>6, <1>8

(* An allocation starts with maxima that have room for its length.         *)
LEMMA StartAllocateInv ==
  ASSUME IInv, AllIdle, NEW kind \in Kind, NEW shared \in BOOLEAN, NEW guards \in BOOLEAN,
         NEW length \in Nat, NEW maximum \in Pages, NEW copy \in BOOLEAN,
         RoundUpToPageSize(length) <= maximum,
         IF copy THEN store # NoStore /\ byte_length <= length ELSE store = NoStore,
         StartAllocate(kind, shared, guards, length, maximum, copy)
  PROVE  IInv'
<1> USE DEF IInv
<1>1. /\ UNCHANGED <<store, byte_length, committed, dirty, reserved, covered, pc, answer>>
      /\ request.at = "none" /\ \A t \in Thread : pc[t] = Idle
  BY DEF StartAllocate, AllIdle, NoRequest, memVars, osVars
<1> DEFINE sizes == Sizes(RoundUpToPageSize(length), maximum, kind, guards)
<1>2. RoundUpToPageSize(length) \in Nat
  BY RoundUp
<1>3. /\ sizes \in Seq(Nat \ {0}) \ {<<>>}
      /\ \A j \in DOMAIN sizes : /\ RoundUpToPageSize(length) <= sizes[j]
                                 /\ sizes[j] <= MaxPages
  BY <1>2, SizesFit
<1>4. request' = [at |-> "reserve", kind |-> kind, shared |-> shared, guards |-> guards,
                  length |-> length, copy |-> copy, sizes |-> sizes]
  BY DEF StartAllocate
<1> HIDE DEF sizes
<1>5. TypeOK'
  BY <1>1, <1>3, <1>4 DEF TypeOK, Request
<1>6. StoreInv'
  BY <1>1 DEF StoreInv, LengthIsCommitted, TailIsZero
<1>7. RequestInv'
  BY <1>1, <1>3, <1>4 DEF RequestInv
<1>8. GrowInv'
  BY <1>1 DEF GrowInv
<1>9. NothingLeaked'
  BY <1>1, <1>4 DEF NothingLeaked
<1> QED BY <1>5, <1>6, <1>7, <1>8, <1>9

LEMMA AllocateInv == ASSUME IInv, NEW kind \in Kind, Allocate(kind) PROVE IInv'
<1>1. PICK shared \in BOOLEAN, guards \in BOOLEAN, length \in Bytes, maximum \in Pages :
        /\ RoundUpToPageSize(length) <= maximum
        /\ StartAllocate(kind, shared, guards, length, maximum, FALSE)
  BY DEF Allocate
<1>2. AllIdle /\ store = NoStore /\ length \in Nat
  BY BackingStoreAssumption DEF Allocate, Bytes
<1> QED BY <1>1, <1>2, StartAllocateInv

LEMMA CopyWasmMemoryInv == ASSUME IInv, CopyWasmMemory PROVE IInv'
<1>1. PICK guards \in BOOLEAN, new_pages \in Pages, maximum \in Pages :
        /\ new_pages * PageSize >= byte_length /\ new_pages <= maximum
        /\ StartAllocate("wasm", store.shared, guards, new_pages * PageSize, maximum, TRUE)
  BY DEF CopyWasmMemory
<1>2. AllIdle /\ store # NoStore /\ store.shared \in BOOLEAN
  BY DEF CopyWasmMemory, NoStore, IInv, TypeOK, Store
<1>3. new_pages \in Nat /\ new_pages * PageSize \in Nat
  BY BackingStoreAssumption DEF Pages
<1>4. RoundUpToPageSize(new_pages * PageSize) <= new_pages
  BY <1>3, RoundUpFits
<1>5. RoundUpToPageSize(new_pages * PageSize) <= maximum
  BY <1>1, <1>3, <1>4, RoundUp DEF Pages
<1>6. byte_length <= new_pages * PageSize
  BY <1>1, <1>3 DEF IInv, TypeOK
<1> QED BY <1>1, <1>2, <1>3, <1>5, <1>6, StartAllocateInv DEF Kind

(* A sequence without its first element.                                   *)
LEMMA ShorterTail ==
  ASSUME NEW S, NEW s \in Seq(S), s # <<>>, Len(s) # 1
  PROVE  /\ Tail(s) \in Seq(S) \ {<<>>}
         /\ \A j \in DOMAIN Tail(s) : j + 1 \in DOMAIN s /\ Tail(s)[j] = s[j + 1]
<1>1. Len(s) \in Nat /\ Len(s) > 1 /\ DOMAIN s = 1 .. Len(s)
  BY EmptySeq
<1>2. Tail(s) \in Seq(S) /\ Len(Tail(s)) = Len(s) - 1
  BY <1>1
<1>3. DOMAIN Tail(s) = 1 .. Len(s) - 1
  BY <1>1, <1>2
<1>4. Tail(s) # <<>>
  <2>1. Len(Tail(s)) # 0
    BY <1>1, <1>2
  <2> QED BY <1>2, <2>1, EmptySeq
<1>5. \A j \in 1 .. Len(s) - 1 : Tail(s)[j] = s[j + 1]
  BY <1>1
<1> QED BY <1>1, <1>2, <1>3, <1>4, <1>5

(* What TryNext leaves to be tried.                                        *)
LEMMA TryNextInv ==
  ASSUME IInv, request # NoRequest
  PROVE  LET next == TryNext(request.sizes) IN
         /\ next \in Request \cup {NoRequest} /\ next.at # "commit"
         /\ next # NoRequest =>
              /\ next.at = "reserve" /\ next.length = request.length /\ next.copy = request.copy
              /\ \A j \in DOMAIN next.sizes :
                   RoundUpToPageSize(next.length) <= next.sizes[j] /\ next.sizes[j] <= MaxPages
<1> DEFINE sizes == request.sizes
           next == TryNext(sizes)
<1>1. request \in Request
  BY RequestFacts
<1>2. sizes \in Seq(Nat \ {0}) /\ sizes # <<>>
  BY <1>1 DEF Request
<1>3. \A j \in DOMAIN sizes : RoundUpToPageSize(request.length) <= sizes[j] /\ sizes[j] <= MaxPages
  BY DEF IInv, RequestInv
<1>4. CASE Len(sizes) = 1
  <2>1. next = NoRequest
    BY <1>4 DEF TryNext
  <2> QED BY <2>1 DEF NoRequest
<1>5. CASE Len(sizes) # 1
  <2>1. /\ Tail(sizes) \in Seq(Nat \ {0}) \ {<<>>}
        /\ \A j \in DOMAIN Tail(sizes) : j + 1 \in DOMAIN sizes /\ Tail(sizes)[j] = sizes[j + 1]
    BY <1>2, <1>5, ShorterTail
  <2>2. next = [request EXCEPT !.at = "reserve", !.sizes = Tail(sizes)]
    BY <1>5 DEF TryNext
  <2> HIDE DEF next
  <2>3. /\ next \in Request /\ next.at = "reserve" /\ next.length = request.length
        /\ next.copy = request.copy /\ next.sizes = Tail(sizes)
    BY <1>1, <2>1, <2>2 DEF Request
  <2>4. \A j \in DOMAIN next.sizes :
          RoundUpToPageSize(next.length) <= next.sizes[j] /\ next.sizes[j] <= MaxPages
    BY <1>3, <2>1, <2>3
  <2> QED BY <2>3, <2>4 DEF next
<1> QED BY <1>4, <1>5

(* What the store holds, and what is reserved while pages are committed.   *)
LEMMA StoreFacts ==
  ASSUME IInv
  PROVE  /\ store.guards \in BOOLEAN
         /\ \E k \in Pages : store.capacity = k * PageSize /\ store.capacity \div PageSize = k
         /\ ReservationSize(store.guards, store.capacity \div PageSize) \in Nat
<1>1. store.guards \in BOOLEAN
  <2>1. CASE store \in Store
    BY <2>1 DEF Store
  <2>2. CASE store = NoStore
    <3>1. store.guards = FALSE
      BY <2>2 DEF NoStore
    <3> QED BY <3>1
  <2> QED BY <2>1, <2>2 DEF IInv, TypeOK
<1>2. PICK k \in Pages : store.capacity = k * PageSize
  BY DEF IInv, StoreInv
<1>3. k \in Nat
  BY BackingStoreAssumption DEF Pages
<1>4. store.capacity \div PageSize = k
  BY <1>2, <1>3, PagesOf
<1> QED BY <1>1, <1>2, <1>3, <1>4, ReservationType

LEMMA ReservePagesInv == ASSUME IInv, ReservePages PROVE IInv'
<1>1. /\ UNCHANGED <<store, byte_length, committed, dirty, covered, pc, answer>>
      /\ request.at = "reserve"
  BY DEF ReservePages, memVars
<1>2. request # NoRequest
  BY <1>1 DEF NoRequest
<1>3. StoreInv'
  BY <1>1 DEF IInv, StoreInv, LengthIsCommitted, TailIsZero
<1>4. GrowInv'
  BY <1>1 DEF IInv, GrowInv, New
<1>5. CASE /\ reserved' = reserved + ReservationSize(request.guards, Head(request.sizes))
           /\ request' = [request EXCEPT !.at = "commit"]
  <2>1. request' \in Request /\ request'.at = "commit" /\ request'.sizes = request.sizes
        /\ request'.length = request.length /\ request'.copy = request.copy
        /\ request'.guards = request.guards
    BY <1>2, <1>5, RequestFacts DEF Request
  <2>2. TypeOK'
    BY <1>1, <1>2, <1>5, <2>1, RequestFacts DEF IInv, TypeOK
  <2>3. RequestInv'
    BY <1>1, <1>2, <2>1 DEF IInv, RequestInv
  <2>4. NothingLeaked'
    <3>1. reserved = ReservationSize(store.guards, store.capacity \div PageSize) + 0
      BY <1>1 DEF IInv, NothingLeaked
    <3>2. reserved = ReservationSize(store.guards, store.capacity \div PageSize)
      BY <3>1, StoreFacts
    <3>3. covered' = IF store'.guards THEN GuardPages ELSE 0
      BY <1>1 DEF IInv, NothingLeaked
    <3>4. reserved' = ReservationSize(store'.guards, store'.capacity \div PageSize)
                        + ReservationSize(request'.guards, Head(request'.sizes))
      BY <1>1, <1>5, <2>1, <3>2
    <3> QED BY <2>1, <3>3, <3>4 DEF NothingLeaked
  <2> QED BY <1>3, <1>4, <2>2, <2>3, <2>4 DEF IInv
<1>6. CASE request' = TryNext(request.sizes) /\ UNCHANGED reserved
  <2>1. TypeOK'
    BY <1>1, <1>2, <1>6, TryNextInv DEF IInv, TypeOK
  <2>2. RequestInv'
    BY <1>1, <1>2, <1>6, TryNextInv DEF IInv, RequestInv
  <2>3. NothingLeaked'
    <3>1. request'.at # "commit" /\ request.at # "commit"
      BY <1>1, <1>2, <1>6, TryNextInv
    <3>2. reserved = ReservationSize(store.guards, store.capacity \div PageSize) + 0
      BY <3>1 DEF IInv, NothingLeaked
    <3>3. store' = store /\ covered' = covered /\ reserved' = reserved
      BY <1>1, <1>6
    <3>4. reserved' = ReservationSize(store'.guards, store'.capacity \div PageSize) + 0
      BY <3>2, <3>3
    <3>5. covered' = IF store'.guards THEN GuardPages ELSE 0
      BY <3>3 DEF IInv, NothingLeaked
    <3> QED BY <3>1, <3>4, <3>5 DEF NothingLeaked
  <2> QED BY <1>3, <1>4, <2>1, <2>2, <2>3 DEF IInv
<1> QED BY <1>5, <1>6 DEF ReservePages

LEMMA CommitFailsInv == ASSUME IInv, CommitFails PROVE IInv'
<1>1. /\ UNCHANGED <<store, byte_length, committed, dirty, covered, pc, answer>>
      /\ request.at = "commit" /\ request' = TryNext(request.sizes)
      /\ reserved' = reserved - ReservationSize(request.guards, Head(request.sizes))
  BY DEF CommitFails, memVars
<1>2. request # NoRequest
  BY <1>1 DEF NoRequest
<1>3. reserved' = ReservationSize(store.guards, store.capacity \div PageSize)
  BY <1>1, <1>2, RequestFacts, StoreFacts DEF IInv, NothingLeaked
<1>4. TypeOK'
  BY <1>1, <1>2, <1>3, TryNextInv, StoreFacts DEF IInv, TypeOK
<1>5. StoreInv'
  BY <1>1 DEF IInv, StoreInv, LengthIsCommitted, TailIsZero
<1>6. RequestInv'
  BY <1>1, <1>2, TryNextInv DEF IInv, RequestInv
<1>7. GrowInv'
  BY <1>1 DEF IInv, GrowInv, New
<1>8. NothingLeaked'
  BY <1>1, <1>2, <1>3, TryNextInv, StoreFacts DEF IInv, NothingLeaked
<1> QED BY <1>4, <1>5, <1>6, <1>7, <1>8 DEF IInv

LEMMA CopyRefusedInv == ASSUME IInv, CopyRefused PROVE IInv'
<1>1. /\ UNCHANGED <<store, byte_length, committed, dirty, covered, pc, answer>>
      /\ request.at = "commit" /\ request' = NoRequest
      /\ reserved' = reserved - ReservationSize(request.guards, Head(request.sizes))
  BY DEF CopyRefused, memVars
<1>2. request # NoRequest
  BY <1>1 DEF NoRequest
<1>3. reserved' = ReservationSize(store.guards, store.capacity \div PageSize)
  BY <1>1, <1>2, RequestFacts, StoreFacts DEF IInv, NothingLeaked
<1>4. TypeOK'
  BY <1>1, <1>3, StoreFacts DEF IInv, TypeOK
<1>5. StoreInv'
  BY <1>1 DEF IInv, StoreInv, LengthIsCommitted, TailIsZero
<1>6. RequestInv'
  BY <1>1 DEF RequestInv
<1>7. GrowInv'
  BY <1>1 DEF IInv, GrowInv, New
<1>8. NothingLeaked'
  BY <1>1, <1>3, StoreFacts DEF IInv, NothingLeaked, NoRequest
<1> QED BY <1>4, <1>5, <1>6, <1>7, <1>8 DEF IInv

\* The attempt that is committed becomes the store, and takes over what is
\* reserved for it.
LEMMA CommitPagesInv == ASSUME IInv, CommitPages PROVE IInv'
<1> DEFINE head == Head(request.sizes)
           old == ReservationSize(store.guards, store.capacity \div PageSize)
           new == ReservationSize(request.guards, head)
<1>0. PageSize \in Nat \ {0} /\ GuardPages \in Nat /\ MaxPages \in Nat
  BY BackingStoreAssumption
<1>1. /\ request.at = "commit" /\ request # NoRequest
      /\ request' = NoRequest /\ request'.at = "none"
      /\ UNCHANGED <<dirty, pc, answer>>
  BY DEF CommitPages, NoRequest
<1>2. /\ request \in Request /\ pc = [t \in Thread |-> Idle]
      /\ head \in Pages \ {0} /\ head \in Nat
      /\ RoundUpToPageSize(request.length) <= head /\ new \in Nat
  BY <1>0, <1>1, RequestFacts DEF Pages
<1>3. request.length \in Nat /\ request.guards \in BOOLEAN
  BY <1>2 DEF Request
<1>4. store' = [kind |-> request.kind, shared |-> request.shared, guards |-> request.guards,
                capacity |-> head * PageSize]
  BY DEF CommitPages
<1>5. store'.capacity = head * PageSize /\ store'.guards = request.guards
  BY <1>4
<1>6. /\ byte_length' = request.length
      /\ committed' = RoundUpToPageSize(request.length) * PageSize
      /\ covered' = (IF request.guards THEN GuardPages ELSE 0)
  BY DEF CommitPages
<1>7. reserved = old + new /\ old \in Nat
  BY <1>1, StoreFacts DEF IInv, NothingLeaked
<1>8. reserved' = new
  <2>1. CASE request.copy
    <3>1. reserved' = reserved - old
      BY <2>1 DEF CommitPages
    <3> QED BY <1>2, <1>7, <3>1
  <2>2. CASE ~ request.copy
    <3>1. reserved' = reserved - 0
      BY <2>2 DEF CommitPages
    <3>2. store = NoStore
      BY <1>1, <2>2 DEF IInv, RequestInv
    <3>3. store.capacity \div PageSize = 0
      <4>1. 0 * PageSize = 0
        BY <1>0
      <4> QED BY <1>0, <3>2, <4>1, PagesOf DEF NoStore
    <3>4. old = 0
      BY <3>2, <3>3 DEF ReservationSize, NoStore
    <3> QED BY <1>2, <1>7, <3>1, <3>4
  <2> QED BY <2>1, <2>2
<1> HIDE DEF head, old, new
<1>9. /\ RoundUpToPageSize(request.length) \in Nat
      /\ request.length <= committed' /\ committed' <= head * PageSize
      /\ committed' \in Nat /\ head * PageSize \in Nat
  BY <1>0, <1>2, <1>3, <1>6, RoundUp, PagesOrdered
<1>10. TypeOK'
  <2>1. store' \in Store
    BY <1>2, <1>4, <1>9 DEF Store, Request
  <2>2. covered' \in {0, GuardPages}
    BY <1>3, <1>6
  <2> QED BY <1>1, <1>2, <1>3, <1>6, <1>8, <1>9, <2>1, <2>2 DEF IInv, TypeOK
<1>11. StoreInv'
  <2>1. dirty' <= byte_length'
    <3>1. dirty \in Nat /\ byte_length \in Nat /\ dirty <= byte_length
      BY DEF IInv, TypeOK, StoreInv, TailIsZero
    <3>2. CASE request.copy
      BY <1>1, <1>3, <1>6, <3>1, <3>2 DEF IInv, RequestInv
    <3>3. CASE ~ request.copy
      <4>1. store.capacity = 0
        BY <1>1, <3>3 DEF IInv, RequestInv, NoStore
      <4>2. byte_length = 0
        BY <3>1, <4>1 DEF IInv, TypeOK, StoreInv, LengthIsCommitted
      <4> QED BY <1>1, <1>3, <1>6, <3>1, <4>2
    <3> QED BY <3>2, <3>3
  <2> QED BY <1>2, <1>5, <1>6, <1>9, <2>1 DEF StoreInv, LengthIsCommitted, TailIsZero
<1>12. RequestInv'
  BY <1>1 DEF RequestInv
<1>13. GrowInv'
  BY <1>1, <1>2 DEF GrowInv
<1>14. NothingLeaked'
  <2>1. store'.capacity \div PageSize = head
    BY <1>2, <1>5, PagesOf
  <2>2. reserved' = ReservationSize(store'.guards, store'.capacity \div PageSize) + 0
    BY <1>2, <1>5, <1>8, <2>1 DEF new
  <2> QED BY <1>1, <1>5, <1>6, <2>2 DEF NothingLeaked
<1> QED BY <1>10, <1>11, <1>12, <1>13, <1>14 DEF IInv

LEMMA FreeInv == ASSUME IInv, Free PROVE IInv'
<1>1. /\ request.at = "none" /\ request = NoRequest /\ pc = [t \in Thread |-> Idle]
      /\ request' = request /\ pc' = pc /\ store' = NoStore
      /\ byte_length' = 0 /\ committed' = 0 /\ dirty' = 0 /\ covered' = 0
      /\ reserved' = reserved - ReservationSize(store.guards, store.capacity \div PageSize)
  BY DEF Free, AllIdle, NoRequest, IInv, TypeOK
<1>2. reserved' = 0
  <2>1. reserved = ReservationSize(store.guards, store.capacity \div PageSize) + 0
    BY <1>1 DEF IInv, NothingLeaked
  <2> QED BY <1>1, <2>1, StoreFacts
<1>3. NoStore.capacity = 0 /\ NoStore.guards = FALSE /\ 0 \in Pages /\ 0 * PageSize = 0
  BY BackingStoreAssumption DEF NoStore, Pages
<1>4. TypeOK'
  BY <1>1, <1>2 DEF IInv, TypeOK
<1>5. StoreInv'
  BY <1>1, <1>3 DEF StoreInv, LengthIsCommitted, TailIsZero
<1>6. RequestInv'
  BY <1>1 DEF RequestInv
<1>7. GrowInv'
  BY <1>1 DEF GrowInv
<1>8. NothingLeaked'
  <2>1. 0 \div PageSize = 0
    BY <1>3, PagesOf, BackingStoreAssumption
  <2>2. ReservationSize(store'.guards, store'.capacity \div PageSize) = 0
    BY <1>1, <1>3, <2>1 DEF ReservationSize
  <2> QED BY <1>1, <1>2, <1>3, <2>2 DEF NothingLeaked
<1> QED BY <1>4, <1>5, <1>6, <1>7, <1>8 DEF IInv

LEMMA WriteInv == ASSUME IInv, NEW t \in Thread, Write(t) PROVE IInv'
<1>1. dirty' = byte_length
      /\ UNCHANGED <<store, byte_length, committed, reserved, covered, request, pc, answer>>
  BY DEF Write, osVars
<1>2. TypeOK'
  BY <1>1 DEF IInv, TypeOK
<1>3. StoreInv'
  BY <1>1 DEF IInv, TypeOK, StoreInv, LengthIsCommitted, TailIsZero
<1>4. RequestInv' /\ GrowInv' /\ NothingLeaked'
  BY <1>1 DEF IInv, RequestInv, GrowInv, NothingLeaked, New
<1> QED BY <1>2, <1>3, <1>4 DEF IInv

(* The parts that a grow leaves alone.                                     *)
LEMMA GrowKeeps ==
  ASSUME IInv, request = NoRequest, UNCHANGED <<store, reserved, covered, request>>
  PROVE  RequestInv' /\ NothingLeaked'
BY DEF IInv, RequestInv, NothingLeaked

(* A call that is over is out of the way.                                  *)
LEMMA ReturnInv ==
  ASSUME IInv, request = NoRequest, NEW t \in Thread, pc' = [pc EXCEPT ![t] = Idle],
         UNCHANGED <<store, dirty, reserved, covered, request>>,
         byte_length' \in Nat, committed' \in Nat, dirty <= byte_length',
         byte_length' <= committed', committed' <= store.capacity, committed <= committed'
  PROVE  IInv'
<1>1. TypeOK'
  BY DEF IInv, TypeOK
<1>2. StoreInv'
  BY DEF IInv, StoreInv, LengthIsCommitted, TailIsZero
<1>3. GrowInv'
  <2> SUFFICES ASSUME NEW u \in Thread, pc'[u] # Idle
               PROVE  /\ store' \in Store /\ store'.kind # "rab"
                      /\ pc'[u].old <= New(u)' /\ New(u)' <= pc'[u].limit /\ pc'[u].limit <= store'.capacity
                      /\ pc'[u].at = "exchange" => New(u)' <= committed'
    BY DEF GrowInv
  <2>1. pc \in [Thread -> Growing \cup {Idle}] /\ committed \in Nat
    BY DEF IInv, TypeOK
  <2>2. u # t /\ pc'[u] = pc[u]
    BY <2>1
  <2>3. New(u)' = New(u)
    BY <2>2 DEF New
  <2>4. New(u) \in Nat
    BY <2>1, <2>2 DEF New, Growing
  <2> QED BY <2>1, <2>2, <2>3, <2>4 DEF IInv, GrowInv
<1> QED BY <1>1, <1>2, <1>3, GrowKeeps DEF IInv

(* The head of the loop lets only those through that ask for a length in   *)
(* the limits.                                                             *)
LEMMA LoopInv ==
  ASSUME IInv, request = NoRequest, store \in Store, store.kind # "rab",
         NEW t \in Thread, NEW what \in {"by", "to"}, NEW arg \in Nat, NEW limit \in Nat,
         what = "by" => arg # 0, what = "to" => arg <= limit, limit <= store.capacity,
         Loop(t, what, arg, limit, byte_length), UNCHANGED <<store, memVars, osVars, request>>
  PROVE  IInv'
<1>1. UNCHANGED <<store, byte_length, committed, dirty, reserved, covered, request>>
  BY DEF memVars, osVars
<1>2. /\ byte_length \in Nat /\ committed \in Nat /\ pc \in [Thread -> Growing \cup {Idle}]
      /\ dirty <= byte_length /\ byte_length <= committed /\ committed <= store.capacity
  BY DEF IInv, TypeOK, StoreInv, LengthIsCommitted, TailIsZero
<1>3. CASE pc' = [pc EXCEPT ![t] = Idle]
  <2>1. /\ byte_length' \in Nat /\ committed' \in Nat /\ dirty <= byte_length'
        /\ byte_length' <= committed' /\ committed' <= store.capacity /\ committed <= committed'
    BY <1>1, <1>2
  <2>2. UNCHANGED <<store, dirty, reserved, covered, request>>
    BY <1>1
  <2> QED BY <1>3, <2>1, <2>2, ReturnInv
<1>4. CASE /\ IF what = "by" THEN byte_length <= limit - arg ELSE arg > byte_length
           /\ pc' = [pc EXCEPT ![t] = [at |-> "permissions", what |-> what, arg |-> arg,
                                       limit |-> limit, old |-> byte_length]]
  <2> DEFINE call == [at |-> "permissions", what |-> what, arg |-> arg,
                      limit |-> limit, old |-> byte_length]
  <2>1. call \in Growing /\ call.at # "exchange"
    BY <1>2, <1>4 DEF Growing
  <2>2. call.limit = limit
        /\ call.old <= (IF call.what = "by" THEN call.old + call.arg ELSE call.arg)
        /\ (IF call.what = "by" THEN call.old + call.arg ELSE call.arg) <= limit
    BY <1>2, <1>4
  <2>3. pc' = [pc EXCEPT ![t] = call]
    BY <1>4
  <2> HIDE DEF call
  <2>4. TypeOK'
    BY <1>1, <2>1, <2>3 DEF IInv, TypeOK
  <2>5. StoreInv'
    BY <1>1 DEF IInv, StoreInv, LengthIsCommitted, TailIsZero
  <2>6. GrowInv'
    <3> SUFFICES ASSUME NEW u \in Thread, pc'[u] # Idle
                 PROVE  /\ store' \in Store /\ store'.kind # "rab"
                        /\ pc'[u].old <= New(u)' /\ New(u)' <= pc'[u].limit /\ pc'[u].limit <= store'.capacity
                        /\ pc'[u].at = "exchange" => New(u)' <= committed'
      BY DEF GrowInv
    <3>1. CASE u = t
      <4>1. pc'[u] = call
        BY <1>2, <2>3, <3>1
      <4> QED BY <1>1, <2>1, <2>2, <4>1 DEF New
    <3>2. CASE u # t
      <4>1. pc'[u] = pc[u]
        BY <1>2, <2>3, <3>2
      <4> QED BY <1>1, <4>1 DEF IInv, GrowInv, New
    <3> QED BY <3>1, <3>2
  <2> QED BY <1>1, <2>4, <2>5, <2>6, GrowKeeps DEF IInv
<1> QED BY <1>3, <1>4 DEF Loop, Return

(* What a call finds.                                                      *)
LEMMA CallFacts ==
  ASSUME IInv, NEW t \in Thread, Calls(t)
  PROVE  request = NoRequest /\ store \in Store /\ byte_length \in Nat /\ committed \in Nat
BY DEF IInv, TypeOK, Calls

LEMMA GrowWasmMemoryInPlaceInv ==
  ASSUME IInv, NEW t \in Thread, GrowWasmMemoryInPlace(t) PROVE IInv'
<1>1. PICK delta \in Pages, maximum \in Pages :
        LET max_pages == Minimum(maximum, store.capacity \div PageSize) IN
        \/ delta = 0 /\ Return(t, "by", 0, <<"was", byte_length>>)
        \/ delta > max_pages /\ Return(t, "by", delta * PageSize, <<"failure">>)
        \/ /\ delta # 0 /\ delta <= max_pages
           /\ Loop(t, "by", delta * PageSize, max_pages * PageSize, byte_length)
  BY DEF GrowWasmMemoryInPlace
<1> DEFINE max_pages == Minimum(maximum, store.capacity \div PageSize)
<1>2. /\ Calls(t) /\ store.kind = "wasm"
      /\ UNCHANGED <<store, memVars, osVars, request>>
  BY DEF GrowWasmMemoryInPlace
<1>3. request = NoRequest /\ store \in Store /\ byte_length \in Nat /\ committed \in Nat
  BY <1>2, CallFacts
<1>4. PageSize \in Nat \ {0} /\ delta \in Nat /\ maximum \in Nat
  BY BackingStoreAssumption DEF Pages
<1>5. PICK k \in Pages : store.capacity = k * PageSize /\ store.capacity \div PageSize = k
  BY StoreFacts
<1>6. max_pages \in Nat /\ max_pages <= k /\ k \in Nat
  BY <1>4, <1>5, BackingStoreAssumption DEF Pages, Minimum
<1> HIDE DEF max_pages
<1>7. max_pages * PageSize \in Nat /\ max_pages * PageSize <= store.capacity
  BY <1>4, <1>5, <1>6, PagesOrdered
<1>8. CASE pc' = [pc EXCEPT ![t] = Idle]
  <2>1. /\ UNCHANGED <<store, dirty, reserved, covered, request>>
        /\ byte_length' = byte_length /\ committed' = committed
    BY <1>2 DEF memVars, osVars
  <2>2. /\ byte_length' \in Nat /\ committed' \in Nat /\ dirty <= byte_length'
        /\ byte_length' <= committed' /\ committed' <= store.capacity /\ committed <= committed'
    BY <1>3, <2>1 DEF IInv, StoreInv, LengthIsCommitted, TailIsZero
  <2> QED BY <1>3, <1>8, <2>1, <2>2, ReturnInv
<1>9. CASE delta # 0 /\ Loop(t, "by", delta * PageSize, max_pages * PageSize, byte_length)
  <2>1. delta * PageSize \in Nat /\ delta * PageSize # 0
    <3>1. 1 * PageSize <= delta * PageSize
      BY <1>4, <1>9, PagesOrdered
    <3> QED BY <1>4, <3>1
  <2> QED BY <1>2, <1>3, <1>7, <1>9, <2>1, LoopInv
<1> QED BY <1>1, <1>8, <1>9 DEF Return, max_pages

LEMMA GrowInPlaceInv == ASSUME IInv, NEW t \in Thread, GrowInPlace(t) PROVE IInv'
<1>1. PICK n \in Bytes : n <= store.capacity /\ Loop(t, "to", n, store.capacity, byte_length)
  BY DEF GrowInPlace
<1>2. /\ Calls(t) /\ store.kind = "gsab" /\ n \in Nat
      /\ UNCHANGED <<store, memVars, osVars, request>>
  BY BackingStoreAssumption DEF GrowInPlace, Bytes
<1>3. request = NoRequest /\ store \in Store
  BY <1>2, CallFacts
<1>4. store.capacity \in Nat
  BY <1>3 DEF Store
<1> QED BY <1>1, <1>2, <1>3, <1>4, LoopInv

(* What a grow holds between its steps.                                    *)
LEMMA GrowFacts ==
  ASSUME IInv, NEW t \in Thread, pc[t].at \in {"permissions", "exchange"}
  PROVE  /\ pc[t] \in Growing /\ request = NoRequest /\ New(t) \in Nat
         /\ store \in Store /\ store.kind # "rab" /\ store.capacity \in Nat
         /\ pc[t].old <= New(t) /\ New(t) <= pc[t].limit /\ pc[t].limit <= store.capacity
         /\ pc[t].at = "exchange" => New(t) <= committed
         /\ pc[t].what = "to" => pc[t].arg <= pc[t].limit
<1>1. pc[t] # Idle
  BY DEF Idle
<1>2. pc[t] \in Growing /\ request = NoRequest
  BY <1>1 DEF IInv, TypeOK, RequestInv
<1>3. New(t) \in Nat
  BY <1>2 DEF New, Growing
<1>4. /\ store \in Store /\ store.kind # "rab"
      /\ pc[t].old <= New(t) /\ New(t) <= pc[t].limit /\ pc[t].limit <= store.capacity
      /\ pc[t].at = "exchange" => New(t) <= committed
  BY <1>1 DEF IInv, GrowInv
<1>5. store.capacity \in Nat
  BY <1>4 DEF Store
<1>6. pc[t].what = "to" => pc[t].arg <= pc[t].limit
  BY <1>4 DEF New
<1> QED BY <1>2, <1>3, <1>4, <1>5, <1>6

LEMMA CompareExchangeInv == ASSUME IInv, NEW t \in Thread, CompareExchange(t) PROVE IInv'
<1>1. /\ pc[t].at = "exchange"
      /\ UNCHANGED <<store, committed, dirty, osVars, request>>
  BY DEF CompareExchange
<1>2. /\ pc[t] \in Growing /\ request = NoRequest /\ New(t) \in Nat
      /\ store \in Store /\ store.kind # "rab" /\ store.capacity \in Nat
      /\ pc[t].old \in Nat /\ pc[t].old <= New(t) /\ New(t) <= pc[t].limit
      /\ pc[t].limit <= store.capacity /\ New(t) <= committed
      /\ pc[t].what = "to" => pc[t].arg <= pc[t].limit
  BY <1>1, GrowFacts DEF Growing
<1>3. /\ byte_length \in Nat /\ committed \in Nat /\ dirty \in Nat /\ dirty <= byte_length
      /\ byte_length <= committed /\ committed <= store.capacity
  BY DEF IInv, TypeOK, StoreInv, LengthIsCommitted, TailIsZero
<1>4. CASE byte_length = pc[t].old /\ Exchanged(t)
  <2>1. byte_length' = New(t) /\ pc' = [pc EXCEPT ![t] = Idle]
    BY <1>4 DEF Exchanged, Return
  <2>2. /\ byte_length' \in Nat /\ committed' \in Nat /\ dirty <= byte_length'
        /\ byte_length' <= committed' /\ committed' <= store.capacity /\ committed <= committed'
    BY <1>1, <1>2, <1>3, <1>4, <2>1
  <2>3. UNCHANGED <<store, dirty, reserved, covered, request>>
    BY <1>1 DEF osVars
  <2> QED BY <1>2, <2>1, <2>2, <2>3, ReturnInv
<1>5. CASE /\ Loop(t, pc[t].what, pc[t].arg, pc[t].limit, byte_length)
           /\ UNCHANGED byte_length
  <2>1. pc[t].what \in {"by", "to"} /\ pc[t].arg \in Nat /\ pc[t].arg # 0 /\ pc[t].limit \in Nat
    BY <1>2 DEF Growing
  <2>2. UNCHANGED <<store, memVars, osVars, request>>
    BY <1>1, <1>5 DEF memVars, osVars
  <2> QED BY <1>2, <1>5, <2>1, <2>2, LoopInv
<1> QED BY <1>4, <1>5 DEF CompareExchange

LEMMA SetPermissionsInv == ASSUME IInv, NEW t \in Thread, SetPermissions(t) PROVE IInv'
<1>1. /\ pc[t].at = "permissions"
      /\ UNCHANGED <<store, byte_length, dirty, reserved, covered, request>>
  BY DEF SetPermissions, osVars
<1>2. /\ pc[t] \in Growing /\ request = NoRequest /\ New(t) \in Nat
      /\ pc[t].old <= New(t) /\ New(t) <= pc[t].limit /\ pc[t].limit <= store.capacity
      /\ store \in Store /\ store.kind # "rab" /\ store.capacity \in Nat
  BY <1>1, GrowFacts
<1>3. /\ byte_length \in Nat /\ committed \in Nat /\ dirty <= byte_length
      /\ byte_length <= committed /\ committed <= store.capacity
      /\ pc \in [Thread -> Growing \cup {Idle}]
  BY DEF IInv, TypeOK, StoreInv, LengthIsCommitted, TailIsZero
<1>4. CASE pc' = [pc EXCEPT ![t] = Idle] /\ UNCHANGED committed
  <2>1. /\ byte_length' \in Nat /\ committed' \in Nat /\ dirty <= byte_length'
        /\ byte_length' <= committed' /\ committed' <= store.capacity /\ committed <= committed'
    BY <1>1, <1>3, <1>4
  <2> QED BY <1>1, <1>2, <1>4, <2>1, ReturnInv
<1>5. CASE /\ committed' = Maximum(committed, RoundUpToPageSize(New(t)) * PageSize)
           /\ pc' = [pc EXCEPT ![t].at = "exchange"]
  <2> DEFINE up == RoundUpToPageSize(New(t)) * PageSize
  <2>1. up \in Nat /\ New(t) <= up
    BY <1>2, RoundUp, BackingStoreAssumption
  <2>2. up <= store.capacity
    <3>1. PICK k \in Pages : store.capacity = k * PageSize
      BY StoreFacts
    <3>2. k \in Nat /\ RoundUpToPageSize(New(t)) \in Nat /\ New(t) <= k * PageSize
      <4>1. k \in Nat /\ pc[t].limit \in Nat
        BY <1>2, BackingStoreAssumption DEF Pages, Growing
      <4> QED BY <1>2, <3>1, <4>1, RoundUp
    <3>3. RoundUpToPageSize(New(t)) <= k
      BY <1>2, <3>2, RoundUpFits
    <3> QED BY <3>1, <3>2, <3>3, PagesOrdered
  <2>3. committed' = Maximum(committed, up)
    BY <1>5
  <2> HIDE DEF up
  <2>4. /\ committed' \in Nat /\ committed <= committed' /\ New(t) <= committed'
        /\ committed' <= store.capacity
    BY <1>2, <1>3, <2>1, <2>2, <2>3 DEF Maximum
  <2> DEFINE call == [pc[t] EXCEPT !.at = "exchange"]
  <2>5. /\ call \in Growing /\ call.what = pc[t].what /\ call.arg = pc[t].arg
        /\ call.limit = pc[t].limit /\ call.old = pc[t].old
    BY <1>2 DEF Growing
  <2>6. pc' = [pc EXCEPT ![t] = call]
    BY <1>3, <1>5
  <2> HIDE DEF call
  <2>7. TypeOK'
    BY <1>1, <2>4, <2>5, <2>6 DEF IInv, TypeOK
  <2>8. StoreInv'
    BY <1>1, <1>3, <2>4 DEF IInv, StoreInv, LengthIsCommitted, TailIsZero
  <2>9. GrowInv'
    <3> SUFFICES ASSUME NEW u \in Thread, pc'[u] # Idle
                 PROVE  /\ store' \in Store /\ store'.kind # "rab"
                        /\ pc'[u].old <= New(u)' /\ New(u)' <= pc'[u].limit
                        /\ pc'[u].limit <= store'.capacity
                        /\ pc'[u].at = "exchange" => New(u)' <= committed'
      BY DEF GrowInv
    <3>1. CASE u = t
      <4>1. pc'[u] = call
        BY <1>3, <2>6, <3>1
      <4>2. New(u)' = New(t)
        BY <2>5, <4>1 DEF New
      <4> QED BY <1>1, <1>2, <2>4, <2>5, <4>1, <4>2
    <3>2. CASE u # t
      <4>1. pc'[u] = pc[u]
        BY <1>3, <2>6, <3>2
      <4>2. New(u)' = New(u)
        BY <4>1 DEF New
      <4>3. New(u) \in Nat
        BY <1>3, <4>1 DEF New, Growing
      <4> QED BY <1>1, <1>3, <2>4, <4>1, <4>2, <4>3 DEF IInv, GrowInv
    <3> QED BY <3>1, <3>2
  <2> QED BY <1>1, <1>2, <2>7, <2>8, <2>9, GrowKeeps DEF IInv
<1> QED BY <1>4, <1>5 DEF SetPermissions, Return

LEMMA ResizeInPlaceInv == ASSUME IInv, NEW t \in Thread, ResizeInPlace(t) PROVE IInv'
<1>1. PICK n \in Bytes : n <= store.capacity /\ (Shrink(t, n) \/ Lengthen(t, n))
  BY DEF ResizeInPlace
<1>2. /\ Calls(t) /\ store.kind = "rab" /\ n \in Nat
      /\ UNCHANGED <<store, reserved, covered, request>>
  BY BackingStoreAssumption DEF ResizeInPlace, Bytes, osVars
<1>3. request = NoRequest /\ store \in Store /\ store.capacity \in Nat
  BY <1>2, CallFacts DEF Store
<1>4. /\ byte_length \in Nat /\ committed \in Nat /\ dirty \in Nat /\ dirty <= byte_length
      /\ byte_length <= committed /\ committed <= store.capacity
      /\ pc = [u \in Thread |-> Idle]
  BY <1>2 DEF IInv, TypeOK, StoreInv, LengthIsCommitted, TailIsZero, GrowInv
<1> DEFINE up == RoundUpToPageSize(n) * PageSize
<1>5. up \in Nat /\ n <= up /\ up <= store.capacity
  <2>1. PICK k \in Pages : store.capacity = k * PageSize
    BY StoreFacts
  <2>2. k \in Nat /\ RoundUpToPageSize(n) \in Nat /\ n <= k * PageSize /\ PageSize \in Nat
    BY <1>1, <1>2, <2>1, RoundUp, BackingStoreAssumption DEF Pages
  <2>3. RoundUpToPageSize(n) <= k
    BY <1>2, <2>2, RoundUpFits
  <2> QED BY <1>2, <2>1, <2>2, <2>3, RoundUp, PagesOrdered
<1>6. pc' = pc
  BY <1>1, <1>4 DEF Shrink, Lengthen, Return
<1>7. /\ byte_length' \in Nat /\ committed' \in Nat /\ dirty' \in Nat
      /\ dirty' <= byte_length' /\ byte_length' <= committed' /\ committed' <= store.capacity
  <2>1. CASE Shrink(t, n)
    <3>1. n < byte_length /\ dirty' = Minimum(dirty, n)
          /\ ((byte_length' = n /\ committed' = up) \/ UNCHANGED <<byte_length, committed>>)
      BY <2>1 DEF Shrink
    <3> HIDE DEF up
    <3> QED BY <1>2, <1>4, <1>5, <3>1 DEF Minimum
  <2>2. CASE Lengthen(t, n)
    <3>1. n >= byte_length /\ dirty' = dirty
          /\ ((byte_length' = n /\ committed' = up) \/ UNCHANGED <<byte_length, committed>>)
      BY <2>2 DEF Lengthen
    <3> HIDE DEF up
    <3> QED BY <1>2, <1>4, <1>5, <3>1
  <2> QED BY <1>1, <2>1, <2>2
<1>8. TypeOK'
  BY <1>2, <1>6, <1>7 DEF IInv, TypeOK
<1>9. StoreInv'
  BY <1>2, <1>7 DEF IInv, StoreInv, LengthIsCommitted, TailIsZero
<1>10. GrowInv'
  BY <1>4, <1>6 DEF GrowInv
<1> QED BY <1>2, <1>3, <1>8, <1>9, <1>10, GrowKeeps DEF IInv

(* A step keeps the invariant.                                             *)
LEMMA NextInv == IInv /\ [Next]_vars => IInv'
<1> SUFFICES ASSUME IInv, [Next]_vars PROVE IInv'
  OBVIOUS
<1>1. CASE UNCHANGED vars
  BY <1>1 DEF vars, memVars, osVars, IInv, TypeOK, StoreInv, LengthIsCommitted, TailIsZero,
              RequestInv, GrowInv, New, NothingLeaked
<1>2. CASE \E kind \in Kind : Allocate(kind)
  BY <1>2, AllocateInv
<1>3. CASE CopyWasmMemory \/ ReservePages \/ CommitPages \/ CommitFails \/ CopyRefused \/ Free
  BY <1>3, CopyWasmMemoryInv, ReservePagesInv, CommitPagesInv, CommitFailsInv, CopyRefusedInv,
     FreeInv
<1>4. ASSUME NEW t \in Thread,
             \/ Write(t)
             \/ GrowWasmMemoryInPlace(t) \/ GrowInPlace(t) \/ ResizeInPlace(t)
             \/ SetPermissions(t) \/ CompareExchange(t)
      PROVE  IInv'
  BY <1>4, WriteInv, GrowWasmMemoryInPlaceInv, GrowInPlaceInv, ResizeInPlaceInv,
     SetPermissionsInv, CompareExchangeInv
<1> QED BY <1>1, <1>2, <1>3, <1>4 DEF Next

-----------------------------------------------------------------------------
(* The theorems.                                                           *)

LEMMA Invariance == Spec => []IInv
<1>1. Init => IInv
  BY InitInv
<1>2. IInv /\ [Next]_vars => IInv'
  BY NextInv
<1> QED BY <1>1, <1>2, PTL DEF Spec

(* Lengths and page counts stay natural numbers, and a request or a grow   *)
(* in progress keeps its form: backing-store.cc never subtracts more than  *)
(* it has.                                                                 *)
THEOREM TypeCorrect == Spec => []TypeOK
<1>1. IInv => TypeOK
  BY DEF IInv
<1> QED BY <1>1, Invariance, PTL

(* byte_length_ stays below the bytes that are committed while any number  *)
(* of threads grow the memory (SetPermissions before the exchange).        *)
THEOREM CommittedLength == Spec => []LengthIsCommitted
<1>1. IInv => LengthIsCommitted
  BY DEF IInv, StoreInv
<1> QED BY <1>1, Invariance, PTL

(* The bytes that are not below the length are zero (the memset of         *)
(* ResizeInPlace).                                                         *)
THEOREM ZeroTail == Spec => []TailIsZero
<1>1. IInv => TailIsZero
  BY DEF IInv, StoreInv
<1> QED BY <1>1, Invariance, PTL

(* Whatever fails on the way to a store, exactly its pages are reserved    *)
(* (the FreePages of TryAllocateAndPartiallyCommitMemory).                 *)
THEOREM NoLeak == Spec => []NothingLeaked
<1>1. IInv => NothingLeaked
  BY DEF IInv
<1> QED BY <1>1, Invariance, PTL

-----------------------------------------------------------------------------
(* The refinement: the length that is abstracted is byte_length_, and only *)
(* the steps that return from a call, or make or free a store, change      *)
(* what MemoryLength knows.                                                *)

length == IF store = NoStore THEN -1 ELSE byte_length

(* What may be the length of a memory.                                     *)
LEMMA BytesFacts ==
  ASSUME IInv
  PROVE  /\ store.capacity \in Bytes /\ byte_length \in Bytes
         /\ \A n \in Nat : n <= store.capacity => n \in Bytes
<1>0. PageSize \in Nat \ {0} /\ MaxPages \in Nat
  BY BackingStoreAssumption
<1>1. PICK k \in Pages : store.capacity = k * PageSize
  BY StoreFacts
<1>2. k \in Nat /\ k <= MaxPages
  BY <1>0 DEF Pages
<1>3. k * PageSize <= MaxPages * PageSize /\ k * PageSize \in Nat /\ MaxPages * PageSize \in Nat
  BY <1>0, <1>2, PagesOrdered
<1>4. byte_length \in Nat /\ committed \in Nat /\ byte_length <= store.capacity
  BY <1>1, <1>3 DEF IInv, TypeOK, StoreInv, LengthIsCommitted
<1> QED BY <1>1, <1>3, <1>4 DEF Bytes

LengthFits == byte_length \in Bytes

(* The same of the next state.                                             *)
LEMMA LengthFitsNext == IInv' => LengthFits'
<1>1. IInv => LengthFits
  BY BytesFacts DEF LengthFits
<1> QED BY <1>1, PTL

(* The argument of a grow.                                                 *)
LEMMA ArgFacts ==
  ASSUME IInv, NEW t \in Thread, pc[t].at \in {"permissions", "exchange"}
  PROVE  pc[t].what \in {"by", "to"} /\ New(t) \in Bytes /\ pc[t].arg \in Bytes
<1>1. /\ pc[t] \in Growing /\ New(t) \in Nat
      /\ New(t) <= pc[t].limit /\ pc[t].limit <= store.capacity /\ store.capacity \in Nat
  BY GrowFacts
<1>2. pc[t].what \in {"by", "to"} /\ pc[t].arg \in Nat /\ pc[t].old \in Nat /\ pc[t].limit \in Nat
  BY <1>1 DEF Growing
<1>3. pc[t].arg <= New(t)
  BY <1>2 DEF New
<1> QED BY <1>1, <1>2, <1>3, BytesFacts

(* A call that fails.                                                      *)
LEMMA FailStep ==
  ASSUME NEW t \in Thread, NEW what \in {"by", "to", "resize"}, NEW n \in Bytes,
         Return(t, what, n, <<"failure">>), UNCHANGED <<store, byte_length>>
  PROVE  Length!Next
<1>1. answer' = <<t, what, n, <<"failure">>>> /\ length' = length
  BY DEF Return, length
<1>2. Length!Fail(t)
  BY <1>1 DEF Length!Fail, length
<1> QED BY <1>2 DEF Length!Next

(* The head of the loop returns as MemoryLength says, or goes on.          *)
LEMMA LoopStep ==
  ASSUME IInv, store # NoStore, NEW t \in Thread, NEW what \in {"by", "to"}, NEW arg \in Bytes,
         NEW limit \in Nat, Loop(t, what, arg, limit, byte_length),
         UNCHANGED <<store, byte_length>>
  PROVE  [Length!Next]_<<length, answer>>
<1>1. length = byte_length /\ length' = length /\ byte_length \in Bytes
  BY BytesFacts DEF length
<1>2. byte_length \in Nat /\ arg \in Nat
  BY BackingStoreAssumption DEF IInv, TypeOK, Bytes
<1>3. CASE Return(t, what, arg, <<"failure">>)
  BY <1>3, FailStep
<1>4. CASE what = "to" /\ arg < byte_length /\ Return(t, "to", arg, <<"race">>)
  <2>1. arg < length /\ length' = length /\ length # -1
        /\ answer' = <<t, "to", arg, <<"race">>>>
    BY <1>1, <1>2, <1>4 DEF Return
  <2>2. Length!GrowTo(t)
    BY <2>1 DEF Length!GrowTo, Length!NoMemory, length
  <2> QED BY <2>2 DEF Length!Next
<1>5. CASE what = "to" /\ arg = byte_length /\ Return(t, "to", arg, <<"success">>)
  <2>1. arg >= length /\ length' = arg /\ length # -1
        /\ answer' = <<t, "to", arg, <<"success">>>>
    BY <1>1, <1>2, <1>5 DEF Return
  <2>2. Length!GrowTo(t)
    BY <2>1 DEF Length!GrowTo, Length!NoMemory, length
  <2> QED BY <2>2 DEF Length!Next
<1>6. CASE UNCHANGED answer
  BY <1>1, <1>6
<1> QED BY <1>3, <1>4, <1>5, <1>6 DEF Loop

\* The steps of the page allocator do not show.
LEMMA HiddenStep ==
  ASSUME UNCHANGED <<store, byte_length, answer>> PROVE [Length!Next]_<<length, answer>>
BY DEF length

LEMMA CommitPagesStep == ASSUME IInv, IInv', CommitPages PROVE Length!Next
<1>1. /\ request # NoRequest /\ answer' = answer /\ byte_length' = request.length
      /\ store'.kind = request.kind
  BY DEF CommitPages, NoRequest
<1>2. store' # NoStore /\ byte_length' \in Nat
  <2>1. request.kind # "none" /\ request.length \in Nat
    BY <1>1, RequestFacts DEF Request, Kind
  <2> QED BY <1>1, <2>1 DEF NoStore
<1>3. length' = byte_length' /\ length' \in Bytes
  <2>1. byte_length' \in Bytes
    BY LengthFitsNext DEF LengthFits
  <2> QED BY <1>2, <2>1 DEF length
<1>4. CASE request.copy
  <2>1. store # NoStore /\ byte_length <= request.length /\ byte_length \in Nat
    BY <1>1, <1>4 DEF IInv, RequestInv, TypeOK
  <2>2. length # -1 /\ length <= length'
    BY <1>1, <1>2, <1>3, <2>1 DEF length
  <2>3. Length!Copy
    BY <1>1, <1>2, <1>3, <2>1, <2>2 DEF Length!Copy, Length!NoMemory, length
  <2> QED BY <2>3 DEF Length!Next
<1>5. CASE ~ request.copy
  <2>1. length = -1
    BY <1>1, <1>5 DEF IInv, RequestInv, length
  <2>2. Length!Allocate
    BY <1>1, <1>3, <2>1 DEF Length!Allocate, Length!NoMemory, length
  <2> QED BY <2>2 DEF Length!Next
<1> QED BY <1>4, <1>5

LEMMA FreeStep == ASSUME Free, byte_length \in Nat PROVE Length!Next
<1>1. length # -1 /\ length' = -1 /\ answer' = <<>>
  BY DEF Free, length
<1>2. Length!Free
  BY <1>1 DEF Length!Free, Length!NoMemory, length
<1> QED BY <1>2 DEF Length!Next

LEMMA GrowWasmMemoryInPlaceStep ==
  ASSUME IInv, NEW t \in Thread, GrowWasmMemoryInPlace(t)
  PROVE  [Length!Next]_<<length, answer>>
<1> DEFINE max_pages(m) == Minimum(m, store.capacity \div PageSize)
<1>1. PICK delta \in Pages, maximum \in Pages :
        \/ delta = 0 /\ Return(t, "by", 0, <<"was", byte_length>>)
        \/ delta > max_pages(maximum) /\ Return(t, "by", delta * PageSize, <<"failure">>)
        \/ /\ delta # 0 /\ delta <= max_pages(maximum)
           /\ Loop(t, "by", delta * PageSize, max_pages(maximum) * PageSize, byte_length)
  BY DEF GrowWasmMemoryInPlace
<1>2. /\ store # NoStore /\ UNCHANGED <<store, byte_length>>
  BY DEF GrowWasmMemoryInPlace, Calls, memVars
<1>3. length = byte_length /\ length' = length /\ byte_length \in Bytes /\ byte_length \in Nat
  BY <1>2, BytesFacts DEF length, IInv, TypeOK
<1>4. delta * PageSize \in Bytes /\ 0 \in Bytes
  <2>1. delta \in Nat /\ delta <= MaxPages /\ MaxPages \in Nat /\ PageSize \in Nat
    BY BackingStoreAssumption DEF Pages
  <2>2. delta * PageSize <= MaxPages * PageSize
    BY <2>1, PagesOrdered
  <2> QED BY <2>1, <2>2 DEF Bytes
<1>5. CASE delta = 0 /\ Return(t, "by", 0, <<"was", byte_length>>)
  <2>1. answer' = <<t, "by", 0, <<"was", length>>>> /\ length + 0 = length /\ length # -1
    BY <1>3, <1>5 DEF Return
  <2>2. Length!GrowBy(t)
    BY <1>3, <1>4, <2>1 DEF Length!GrowBy, Length!NoMemory, length
  <2> QED BY <2>2 DEF Length!Next
<1>6. CASE Return(t, "by", delta * PageSize, <<"failure">>)
  BY <1>2, <1>4, <1>6, FailStep
<1>7. CASE Loop(t, "by", delta * PageSize, max_pages(maximum) * PageSize, byte_length)
  <2>1. max_pages(maximum) * PageSize \in Nat
    <3>1. max_pages(maximum) \in Nat
      BY StoreFacts, BackingStoreAssumption DEF Pages, Minimum
    <3> QED BY <3>1, BackingStoreAssumption
  <2> HIDE DEF max_pages
  <2> QED BY <1>2, <1>4, <1>7, <2>1, LoopStep
<1> QED BY <1>1, <1>5, <1>6, <1>7

LEMMA GrowInPlaceStep ==
  ASSUME IInv, NEW t \in Thread, GrowInPlace(t) PROVE [Length!Next]_<<length, answer>>
<1>1. PICK n \in Bytes : n <= store.capacity /\ Loop(t, "to", n, store.capacity, byte_length)
  BY DEF GrowInPlace
<1>2. /\ store # NoStore /\ UNCHANGED <<store, byte_length>>
  BY DEF GrowInPlace, Calls, memVars
<1>3. store.capacity \in Nat
  BY BytesFacts, BackingStoreAssumption DEF Bytes
<1> QED BY <1>1, <1>2, <1>3, LoopStep

LEMMA SetPermissionsStep ==
  ASSUME IInv, NEW t \in Thread, SetPermissions(t) PROVE [Length!Next]_<<length, answer>>
<1>1. pc[t].at = "permissions" /\ UNCHANGED <<store, byte_length>>
  BY DEF SetPermissions
<1>2. CASE UNCHANGED answer
  BY <1>1, <1>2, HiddenStep
<1>3. CASE Return(t, pc[t].what, pc[t].arg, <<"failure">>)
  BY <1>1, <1>3, ArgFacts, FailStep
<1> QED BY <1>2, <1>3 DEF SetPermissions

LEMMA CompareExchangeStep ==
  ASSUME IInv, NEW t \in Thread, CompareExchange(t) PROVE [Length!Next]_<<length, answer>>
<1>1. pc[t].at = "exchange" /\ UNCHANGED store
  BY DEF CompareExchange
<1>2. /\ pc[t] \in Growing /\ store # NoStore /\ New(t) \in Bytes /\ pc[t].old <= New(t)
      /\ pc[t].arg \in Bytes
  <2>1. store \in Store
    BY <1>1, GrowFacts
  <2>2. store # NoStore
    BY <2>1 DEF Store, NoStore, Kind
  <2> QED BY <1>1, <2>2, GrowFacts, ArgFacts
<1>3. byte_length \in Nat /\ length = byte_length /\ length' = byte_length'
  BY <1>1, <1>2 DEF IInv, TypeOK, length
<1>4. CASE byte_length = pc[t].old /\ Exchanged(t)
  <2>1. length' = New(t) /\ length = pc[t].old /\ length # -1
    BY <1>3, <1>4 DEF Exchanged
  <2>2. CASE pc[t].what = "by"
    <3>1. /\ answer' = <<t, "by", pc[t].arg, <<"was", length>>>>
          /\ length' = length + pc[t].arg /\ length' \in Bytes
      BY <1>2, <1>4, <2>1, <2>2 DEF Exchanged, Return, New
    <3>2. Length!GrowBy(t)
      BY <1>2, <2>1, <3>1 DEF Length!GrowBy, Length!NoMemory, length
    <3> QED BY <3>2 DEF Length!Next
  <2>3. CASE pc[t].what # "by"
    <3>1. /\ pc[t].what = "to" /\ answer' = <<t, "to", pc[t].arg, <<"success">>>>
          /\ length' = pc[t].arg /\ pc[t].arg >= length
      BY <1>2, <1>4, <2>1, <2>3 DEF Exchanged, Return, New, Growing
    <3>2. Length!GrowTo(t)
      BY <1>2, <2>1, <3>1 DEF Length!GrowTo, Length!NoMemory, length
    <3> QED BY <3>2 DEF Length!Next
  <2> QED BY <2>2, <2>3
<1>5. CASE /\ Loop(t, pc[t].what, pc[t].arg, pc[t].limit, byte_length)
           /\ UNCHANGED byte_length
  <2>1. pc[t].what \in {"by", "to"} /\ pc[t].limit \in Nat
    BY <1>2 DEF Growing
  <2> QED BY <1>1, <1>2, <1>5, <2>1, LoopStep
<1> QED BY <1>4, <1>5 DEF CompareExchange

LEMMA ResizeInPlaceStep ==
  ASSUME IInv, NEW t \in Thread, ResizeInPlace(t) PROVE Length!Next
<1>1. PICK n \in Bytes : n <= store.capacity /\ (Shrink(t, n) \/ Lengthen(t, n))
  BY DEF ResizeInPlace
<1>2. store # NoStore /\ UNCHANGED store /\ byte_length \in Nat
  BY DEF ResizeInPlace, Calls, IInv, TypeOK
<1>3. CASE byte_length' = n /\ Return(t, "resize", n, <<"success">>)
  <2>1. /\ length # -1 /\ length' = n /\ answer' = <<t, "resize", n, <<"success">>>>
    BY <1>2, <1>3 DEF length, Return
  <2>2. Length!Resize(t)
    BY <2>1 DEF Length!Resize, Length!NoMemory, length
  <2> QED BY <2>2 DEF Length!Next
<1>4. CASE byte_length' = byte_length /\ Return(t, "resize", n, <<"failure">>)
  BY <1>2, <1>4, FailStep
<1> QED BY <1>1, <1>3, <1>4 DEF Shrink, Lengthen, memVars

(* Racing grows are linear: "appears like the result of an RMW-update on   *)
(* {byte_length_}", for any number of threads and any sizes.               *)
THEOREM Linear == Spec => LengthIsLinear
<1>1. Init => Length!Init
  BY DEF Init, Length!Init, Length!NoMemory
<1>2. IInv /\ IInv' /\ [Next]_vars => [Length!Next]_<<length, answer>>
  <2> SUFFICES ASSUME IInv, IInv', [Next]_vars
               PROVE  [Length!Next]_<<length, answer>>
    OBVIOUS
  <2>0. byte_length \in Nat
    BY DEF IInv, TypeOK
  <2>1. CASE UNCHANGED vars
    BY <2>1, HiddenStep DEF vars, memVars
  <2>2. CASE \E kind \in Kind : Allocate(kind)
    BY <2>2, HiddenStep DEF Allocate, StartAllocate, memVars
  <2>3. CASE CopyWasmMemory
    BY <2>3, HiddenStep DEF CopyWasmMemory, StartAllocate, memVars
  <2>4. CASE ReservePages \/ CommitFails \/ CopyRefused
    BY <2>4, HiddenStep DEF ReservePages, CommitFails, CopyRefused, memVars
  <2>5. CASE CommitPages \/ Free
    BY <2>0, <2>5, CommitPagesStep, FreeStep
  <2>6. ASSUME NEW t \in Thread,
               \/ Write(t)
               \/ GrowWasmMemoryInPlace(t) \/ GrowInPlace(t) \/ ResizeInPlace(t)
               \/ SetPermissions(t) \/ CompareExchange(t)
        PROVE  [Length!Next]_<<length, answer>>
    <3>1. CASE Write(t)
      BY <3>1, HiddenStep DEF Write
    <3> QED BY <2>6, <3>1, GrowWasmMemoryInPlaceStep, GrowInPlaceStep, ResizeInPlaceStep,
            SetPermissionsStep, CompareExchangeStep
  <2> QED BY <2>1, <2>2, <2>3, <2>4, <2>5, <2>6 DEF Next
<1> QED BY <1>1, <1>2, Invariance, PTL DEF Spec, LengthIsLinear, Length!Spec, length

=============================================================================
