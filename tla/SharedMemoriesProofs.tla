------------------------- MODULE SharedMemoriesProofs -------------------------
(***************************************************************************)
(* Theorems about the registry of shared memories, the destructor and the  *)
(* shadows, for every number of isolates, addresses and stores.            *)
(***************************************************************************)
EXTENDS SharedMemories, TLAPS

-----------------------------------------------------------------------------
(* The inductive invariant.                                                *)

Places == {"idle", "attach", "broadcast", "update", "access", "purge", "purged", "teardown"}
Ends == {"unregister", "remove_shadow", "free"}

\* Numbers of stores are used once, and every isolate is somewhere.
TypeInv ==
  /\ TypeOK
  /\ existing \subseteq 1 .. allocated
  /\ pc \in [Isolate -> Places \X SUBSET BackingStore]
  /\ dying \in [Isolate -> ({"alive"} \cup Ends) \X (BackingStore \cup {None})]

\* What is known by an address belongs to the one store that is there.
OneStoreAtAnAddress ==
  /\ \A j, k \in existing : address[j] = address[k] => j = k
  /\ \A a \in Address : map_[a] # None => map_[a] \in existing /\ address[map_[a]] = a
  /\ \A a \in Address : shadow[a] # NoShadow =>
       shadow[a].store \in existing /\ address[shadow[a].store] = a

\* An isolate refers to the store it is at work on, so nobody destroys it.
WorksOnItsOwn ==
  \A i \in Isolate :
    /\ memories[i] \subseteq refs[i]
    /\ pc[i][1] \in {"attach", "broadcast", "update", "access"} =>
         \E k \in refs[i] : pc[i][2] = {k}
    /\ pc[i][1] = "access" =>
         \A k \in pc[i][2] : shadow[address[k]].store = k

\* A destructor runs once, for a store that nobody refers to, and has undone
\* what it has passed.
DestructorOfUnreferenced(i) ==
  dying[i] # Alive =>
    /\ dying[i][1] \in Ends /\ dying[i][2] \in existing
    /\ ~ Referenced(dying[i][2])
    /\ dying[i][1] \in {"remove_shadow", "free"} => ~ Registered(dying[i][2])
    /\ dying[i][1] = "free" => shadow[address[dying[i][2]]] = NoShadow

DestroyedOnce ==
  /\ \A i \in Isolate : DestructorOfUnreferenced(i)
  /\ \A i, j \in Isolate :
       dying[i] # Alive /\ dying[j] # Alive /\ dying[i][2] = dying[j][2] => i = j

\* The entries an isolate has still to purge stay registered under its lock, and
\* so do the stores whose destruction it prevents.
PurgesUnderLock ==
  /\ \A i \in Isolate : At(i, "purge") <=> mutex_ = i
  /\ \A i \in Isolate : At(i, "purge") =>
       \A k \in pc[i][2] : k \in existing /\ Registered(k)
  /\ \A i \in Isolate : \A k \in held[i] : Registered(k)

\* A store that is not registered is known to one isolate only.
PrivateUntilRegistered ==
  \A k \in existing : Referenced(k) /\ ~ Registered(k) =>
    /\ \A i, j \in Isolate : k \in refs[i] /\ k \in refs[j] => i = j
    /\ \A i \in isolates_[k] : k \in refs[i]

\* Once an isolate has passed the registry, no store that others may have lists it.
PurgedIsUnlisted ==
  /\ \A k \in BackingStore \ existing : isolates_[k] = {}
  /\ \A i \in Isolate, k \in existing :
       i \in isolates_[k] /\ Referenced(k) /\ Registered(k) =>
         /\ i \notin gone /\ pc[i][1] \notin {"purged", "teardown"}
         /\ pc[i][1] = "purge" => k \in pc[i][2]

\* Nothing is left of an isolate that is gone.
NothingOfTheGone ==
  \A i \in gone : pc[i] = IdlePc /\ dying[i] = Alive /\ refs[i] = {}

IInv ==
  /\ TypeInv /\ OneStoreAtAnAddress /\ WorksOnItsOwn /\ DestroyedOnce
  /\ PurgesUnderLock /\ PrivateUntilRegistered /\ PurgedIsUnlisted /\ NothingOfTheGone

-----------------------------------------------------------------------------
(* The pieces of the actions.                                              *)

(* What the invariant says of the sets the variables are in.               *)
LEMMA Types ==
  ASSUME IInv
  PROVE  /\ existing \subseteq BackingStore /\ existing \subseteq 1 .. allocated
         /\ allocated \in Nat /\ BackingStore \subseteq Nat /\ None \notin BackingStore
         /\ \A k \in existing : address[k] \in Address /\ k \in BackingStore
         /\ refs \in [Isolate -> SUBSET existing] /\ held \in [Isolate -> SUBSET existing]
         /\ memories \in [Isolate -> SUBSET existing]
         /\ isolates_ \in [BackingStore -> SUBSET Isolate]
         /\ map_ \in [Address -> BackingStore \cup {None}]
         /\ pc \in [Isolate -> Places \X SUBSET BackingStore]
         /\ dying \in [Isolate -> ({"alive"} \cup Ends) \X (BackingStore \cup {None})]
         /\ interrupt \subseteq Isolate /\ gone \subseteq Isolate
         /\ length \in [BackingStore -> 0 .. MaxLength]
         /\ shadow \in [Address -> [store : BackingStore \cup {None}, length : 0 .. MaxLength]]
         /\ mutex_ \in Isolate \cup {None}
BY SharedMemoriesAssumption DEF IInv, TypeInv, TypeOK, BackingStore, None

(* The two parts of a place.                                               *)
LEMMA IdlePlace ==
  /\ IdlePc[1] = "idle" /\ IdlePc[2] = {}
  /\ \A place, S : <<place, S>>[1] = place /\ <<place, S>>[2] = S
  /\ Alive[1] = "alive" /\ Alive[2] = None
BY DEF IdlePc, Alive

\* What the invariant depends on, without the place of an isolate.
coreVars == <<address, allocated, refs, held, map_, mutex_, isolates_, shadow, dying, gone>>

(* An isolate that goes from one place of its work to another, outside     *)
(* Purge, disturbs nothing.                                                *)
LEMMA PcMoves ==
  ASSUME IInv, NEW i \in Isolate, NEW place \in {"idle", "attach", "broadcast", "update"},
         NEW S, S = {} \/ \E k \in refs[i] : S = {k},
         i \notin gone, pc[i][1] \notin {"purge", "purged", "teardown"},
         place # "idle" => S # {},
         pc' = [pc EXCEPT ![i] = <<place, S>>],
         UNCHANGED coreVars,
         length' \in [BackingStore -> 0 .. MaxLength],
         memories' \in [Isolate -> SUBSET existing],
         \A j \in Isolate : memories'[j] \subseteq refs[j],
         interrupt' \subseteq Isolate
  PROVE  IInv'
<1>0. UNCHANGED <<address, allocated, refs, held, map_, mutex_, isolates_, shadow, dying, gone>>
  BY DEF coreVars
<1>1. S \subseteq existing /\ S \subseteq BackingStore
  BY Types
<1>2. /\ pc'[i] = <<place, S>>
      /\ \A j \in Isolate : j # i => pc'[j] = pc[j]
      /\ pc' \in [Isolate -> Places \X SUBSET BackingStore]
      /\ pc'[i][1] = place /\ pc'[i][2] = S
  BY <1>1, Types DEF Places
<1>3. TypeInv'
  BY <1>0, <1>2 DEF IInv, TypeInv, TypeOK, existing
<1>4. OneStoreAtAnAddress'
  BY <1>0 DEF IInv, OneStoreAtAnAddress, existing
<1>5. WorksOnItsOwn'
  BY <1>0, <1>2 DEF IInv, WorksOnItsOwn
<1>6. DestroyedOnce'
  BY <1>0 DEF IInv, DestroyedOnce, DestructorOfUnreferenced, existing, Referenced, Registered
<1>7. PurgesUnderLock'
  BY <1>0, <1>2 DEF IInv, PurgesUnderLock, existing, Registered, At
<1>8. PrivateUntilRegistered'
  BY <1>0 DEF IInv, PrivateUntilRegistered, existing, Referenced, Registered
<1>9. PurgedIsUnlisted'
  BY <1>0, <1>2 DEF IInv, PurgedIsUnlisted, existing, Referenced, Registered
<1>10. NothingOfTheGone'
  BY <1>0, <1>2, Types DEF IInv, NothingOfTheGone
<1> QED BY <1>3, <1>4, <1>5, <1>6, <1>7, <1>8, <1>9, <1>10 DEF IInv

(* An isolate at work on a store refers to it.                             *)
LEMMA ItsStore ==
  ASSUME IInv, NEW i \in Isolate,
         pc[i][1] \in {"attach", "broadcast", "update", "access"}
  PROVE  Its(i) \in refs[i] /\ pc[i][2] = {Its(i)} /\ Its(i) \in existing /\ i \notin gone
<1>1. PICK k \in refs[i] : pc[i][2] = {k}
  BY DEF IInv, WorksOnItsOwn
<1>2. Its(i) = k
  BY <1>1 DEF Its
<1>3. i \notin gone
  BY IdlePlace DEF IInv, NothingOfTheGone
<1> QED BY <1>1, <1>2, <1>3, Types

(* The isolates' own bookkeeping: memory objects, instances, array buffers,*)
(* grows and broadcasts.                                                   *)
LEMMA WorkStep ==
  ASSUME IInv, NEW i \in Isolate,
         \/ \E k \in existing : AddSharedWasmMemoryObject(i, k) \/ UseMemory(i, k) \/ Grow(i, k)
         \/ Broadcast(i) \/ UpdateOwn(i) \/ HandleInterrupt(i) \/ RecordAccess(i)
  PROVE  IInv'
<1>0. ASSUME Runs(i)
      PROVE  /\ i \notin gone /\ pc[i] = IdlePc /\ pc[i][1] = "idle"
             /\ pc = [pc EXCEPT ![i] = <<"idle", {}>>]
  BY <1>0, Types, IdlePlace DEF Runs, IdlePc
<1>m. \A j \in Isolate : memories[j] \subseteq refs[j]
  BY DEF IInv, WorksOnItsOwn
<1>1. ASSUME NEW k \in existing, AddSharedWasmMemoryObject(i, k) PROVE IInv'
  <2>1. /\ Runs(i) /\ k \in refs[i]
        /\ memories' = [memories EXCEPT ![i] = @ \cup {k}]
        /\ pc' = [pc EXCEPT ![i] = <<"attach", {k}>>]
        /\ UNCHANGED coreVars /\ UNCHANGED length /\ UNCHANGED interrupt
    BY <1>1 DEF AddSharedWasmMemoryObject, Goto, coreVars, storeVars, lockVars
  <2>2. memories' \in [Isolate -> SUBSET existing]
        /\ \A j \in Isolate : memories'[j] \subseteq refs[j]
    BY <1>m, <2>1, Types
  <2> QED BY <1>0, <1>m, <2>1, <2>2, Types, PcMoves
<1>2. ASSUME NEW k \in existing, UseMemory(i, k) PROVE IInv'
  <2>1. /\ Runs(i) /\ pc' = pc
        /\ UNCHANGED coreVars /\ UNCHANGED <<length, memories, interrupt>>
    BY <1>2 DEF UseMemory, coreVars, storeVars, lockVars
  <2> QED BY <1>0, <1>m, <2>1, Types, PcMoves
<1>3. ASSUME NEW k \in existing, Grow(i, k) PROVE IInv'
  <2>1. /\ Runs(i) /\ k \in memories[i] /\ length[k] < MaxLength
        /\ length' = [length EXCEPT ![k] = @ + 1]
        /\ pc' = [pc EXCEPT ![i] = <<"broadcast", {k}>>]
        /\ UNCHANGED coreVars /\ UNCHANGED <<memories, interrupt>>
    BY <1>3 DEF Grow, Goto, coreVars, lockVars, viewVars
  <2>2. length' \in [BackingStore -> 0 .. MaxLength]
    BY <2>1, Types, SharedMemoriesAssumption
  <2> QED BY <1>0, <1>m, <2>1, <2>2, Types, PcMoves
<1>4. CASE Broadcast(i)
  <2>1. /\ pc[i][1] = "broadcast" /\ pc' = [pc EXCEPT ![i] = <<"update", pc[i][2]>>]
        /\ interrupt' = interrupt \cup (isolates_[Its(i)] \ {i})
        /\ UNCHANGED coreVars /\ UNCHANGED <<length, memories>>
    BY <1>4 DEF Broadcast, At, Goto, coreVars, storeVars, lockVars, viewVars
  <2>2. Its(i) \in refs[i] /\ pc[i][2] = {Its(i)} /\ Its(i) \in existing /\ i \notin gone
    BY <2>1, ItsStore
  <2>3. interrupt' \subseteq Isolate
    BY <2>1, <2>2, Types
  <2> QED BY <1>m, <2>1, <2>2, <2>3, Types, PcMoves
<1>5. CASE UpdateOwn(i) \/ RecordAccess(i)
  <2>1. /\ pc[i][1] \in {"update", "access"} /\ pc' = [pc EXCEPT ![i] = <<"idle", {}>>]
        /\ UNCHANGED coreVars /\ UNCHANGED <<length, memories, interrupt>>
    BY <1>5 DEF UpdateOwn, RecordAccess, At, IdlePc, coreVars, storeVars, lockVars, viewVars
  <2>2. i \notin gone
    BY <2>1, ItsStore
  <2> QED BY <1>m, <2>1, <2>2, Types, PcMoves
<1>6. CASE HandleInterrupt(i)
  <2>1. /\ Runs(i) /\ pc' = pc /\ interrupt' = interrupt \ {i}
        /\ UNCHANGED coreVars /\ UNCHANGED <<length, memories>>
    BY <1>6 DEF HandleInterrupt, coreVars, storeVars, lockVars
  <2> QED BY <1>0, <1>m, <2>1, Types, PcMoves
<1> QED BY <1>1, <1>2, <1>3, <1>4, <1>5, <1>6

-----------------------------------------------------------------------------
(* The life of a store.                                                    *)

(* A store that is allocated is new, at an address that nothing is known by.*)
LEMMA AllocateStep ==
  ASSUME IInv, NEW i \in Isolate, NEW a \in Address, AllocateWasmMemory(i, a)
  PROVE  IInv'
<1>k. PICK k : k = allocated + 1
  OBVIOUS
<1>0. /\ Runs(i) /\ allocated < MaxStores
      /\ \A j \in existing : address[j] # a
      /\ allocated' = k
      /\ address' = [j \in existing \cup {k} |-> IF j = k THEN a ELSE address[j]]
      /\ length' = [length EXCEPT ![k] = 1]
      /\ refs' = [refs EXCEPT ![i] = @ \cup {k}]
      /\ UNCHANGED <<held, map_, mutex_, isolates_, memories, interrupt, shadow, pc, dying, gone>>
  BY <1>k DEF AllocateWasmMemory, lockVars, viewVars
<1>1. k \in BackingStore /\ k \notin existing /\ k \in 1 .. allocated' /\ k # None
  BY <1>0, <1>k, Types, SharedMemoriesAssumption DEF BackingStore, None
<1>2. existing \subseteq 1 .. allocated' /\ allocated' \in 0 .. MaxStores
  BY <1>0, <1>k, Types, SharedMemoriesAssumption
<1>3. /\ existing' = existing \cup {k}
      /\ address'[k] = a
      /\ \A j \in existing : address'[j] = address[j]
  BY <1>0, <1>1 DEF existing
<1>4. /\ refs'[i] = refs[i] \cup {k}
      /\ \A j \in Isolate : j # i => refs'[j] = refs[j]
      /\ \A j \in Isolate : k \notin refs[j] /\ k \notin held[j]
      /\ refs' \in [Isolate -> SUBSET existing']
  BY <1>0, <1>1, <1>3, Types
<1>5. \A j \in existing : Referenced(j)' = Referenced(j) /\ Registered(j)' = Registered(j)
  BY <1>0, <1>1, <1>3, <1>4 DEF Referenced, Registered
<1>6. map_[a] = None /\ shadow[a] = NoShadow
  BY <1>0 DEF IInv, OneStoreAtAnAddress
<1>7. length' \in [BackingStore -> 0 .. MaxLength]
  BY <1>0, <1>1, Types, SharedMemoriesAssumption
<1>8. TypeInv'
  <2>1. /\ \A j \in existing' : address'[j] \in Address
        /\ existing' \subseteq BackingStore /\ existing' \subseteq 1 .. allocated'
    BY <1>1, <1>2, <1>3, Types
  <2>2. held' \in [Isolate -> SUBSET existing'] /\ memories' \in [Isolate -> SUBSET existing']
    BY <1>0, <1>3, Types
  <2> QED BY <1>0, <1>2, <1>4, <1>7, <2>1, <2>2 DEF IInv, TypeInv, TypeOK
<1>9. OneStoreAtAnAddress'
  <2>1. \A j, m \in existing' : address'[j] = address'[m] => j = m
    BY <1>0, <1>3 DEF IInv, OneStoreAtAnAddress
  <2>2. \A b \in Address : map_'[b] # None => map_'[b] \in existing' /\ address'[map_'[b]] = b
    BY <1>0, <1>3 DEF IInv, OneStoreAtAnAddress
  <2>3. \A b \in Address : shadow'[b] # NoShadow =>
          shadow'[b].store \in existing' /\ address'[shadow'[b].store] = b
    BY <1>0, <1>3 DEF IInv, OneStoreAtAnAddress
  <2> QED BY <2>1, <2>2, <2>3 DEF OneStoreAtAnAddress
<1>10. WorksOnItsOwn'
  <2>1. \A j \in Isolate : refs[j] \subseteq refs'[j]
    BY <1>4
  <2>2. \A j \in Isolate, m \in BackingStore :
          pc[j][1] = "access" /\ m \in pc[j][2] => m \in existing
    BY Types DEF IInv, WorksOnItsOwn
  <2>3. \A j \in Isolate : pc[j][2] \subseteq BackingStore
    BY Types
  <2> QED BY <1>0, <1>3, <2>1, <2>2, <2>3 DEF IInv, WorksOnItsOwn
<1>11. DestroyedOnce'
  BY <1>0, <1>3, <1>5 DEF IInv, DestroyedOnce, DestructorOfUnreferenced
<1>12. PurgesUnderLock'
  <2>1. \A j \in Isolate : held[j] \subseteq existing
    BY Types
  <2> QED BY <1>0, <1>3, <1>5, <2>1 DEF IInv, PurgesUnderLock, At
<1>13. isolates_[k] = {} /\ ~ Registered(k)'
  <2>1. map_'[address'[k]] = None
    BY <1>0, <1>3, <1>6
  <2>2. ~ Registered(k)'
    BY <1>1, <2>1 DEF Registered
  <2>3. isolates_[k] = {}
    BY <1>1 DEF IInv, PurgedIsUnlisted
  <2> QED BY <2>2, <2>3
<1>14. PrivateUntilRegistered'
  <2> SUFFICES ASSUME NEW m \in existing', Referenced(m)', ~ Registered(m)'
               PROVE  /\ \A j, n \in Isolate : m \in refs'[j] /\ m \in refs'[n] => j = n
                      /\ \A j \in isolates_'[m] : m \in refs'[j]
    BY DEF PrivateUntilRegistered
  <2>1. CASE m = k
    BY <1>0, <1>4, <1>13, <2>1
  <2>2. CASE m # k
    <3>1. m \in existing /\ Referenced(m) /\ ~ Registered(m)
      BY <1>3, <1>5, <2>2
    <3>2. isolates_[m] \subseteq Isolate
      BY <3>1, Types
    <3> QED BY <1>0, <1>4, <2>2, <3>1, <3>2 DEF IInv, PrivateUntilRegistered
  <2> QED BY <2>1, <2>2
<1>15. PurgedIsUnlisted'
  BY <1>0, <1>3, <1>5, <1>13 DEF IInv, PurgedIsUnlisted
<1>16. NothingOfTheGone'
  BY <1>0, <1>4, Types DEF IInv, NothingOfTheGone, Runs
<1> QED BY <1>8, <1>9, <1>10, <1>11, <1>12, <1>14, <1>15, <1>16 DEF IInv

(* The CHECK in Register: the address of a store has no entry of another.  *)
LEMMA NoOtherEntry ==
  ASSUME IInv, NEW k \in existing
  PROVE  map_[address[k]] \in {None, k}
BY Types DEF IInv, OneStoreAtAnAddress

(* GlobalBackingStoreRegistry::Register: only i knew the store.            *)
LEMMA RegisterStep ==
  ASSUME IInv, NEW i \in Isolate, NEW k \in existing, Register(i, k)
  PROVE  IInv'
<1>0. /\ Runs(i) /\ k \in refs[i] /\ mutex_ = None
      /\ map_' = [map_ EXCEPT ![address[k]] = k]
      /\ UNCHANGED <<address, allocated, length, refs, held, mutex_, isolates_, memories,
                     interrupt, shadow, pc, dying, gone>>
  BY DEF Register, storeVars, viewVars
<1>1. /\ map_'[address[k]] = k /\ \A a \in Address : a # address[k] => map_'[a] = map_[a]
      /\ map_' \in [Address -> BackingStore \cup {None}]
      /\ existing' = existing /\ k # None
  BY <1>0, Types DEF existing
<1>2. /\ Registered(k)'
      /\ \A j \in existing : j # k => Registered(j)' = Registered(j)
      /\ \A j : Referenced(j)' = Referenced(j)
  <2>1. \A j \in existing : j # k => address[j] # address[k]
    BY DEF IInv, OneStoreAtAnAddress
  <2> QED BY <1>0, <1>1, <2>1, Types DEF Registered, Referenced
<1>3. TypeInv'
  BY <1>0, <1>1 DEF IInv, TypeInv, TypeOK
<1>4. OneStoreAtAnAddress'
  BY <1>0, <1>1 DEF IInv, OneStoreAtAnAddress
<1>5. WorksOnItsOwn'
  BY <1>0 DEF IInv, WorksOnItsOwn
<1>6. DestroyedOnce'
  <2>1. Referenced(k)
    BY <1>0 DEF Referenced
  <2> QED BY <1>0, <1>1, <1>2, <2>1 DEF IInv, DestroyedOnce, DestructorOfUnreferenced
<1>7. PurgesUnderLock'
  <2>1. \A j \in Isolate : held[j] \subseteq existing
    BY Types
  <2> QED BY <1>0, <1>1, <1>2, <2>1 DEF IInv, PurgesUnderLock, At
<1>8. PrivateUntilRegistered'
  BY <1>0, <1>1, <1>2 DEF IInv, PrivateUntilRegistered
<1>9. PurgedIsUnlisted'
  <2> SUFFICES ASSUME NEW j \in Isolate, NEW m \in existing,
                      j \in isolates_[m], Referenced(m), Registered(m)'
               PROVE  /\ j \notin gone /\ pc[j][1] \notin {"purged", "teardown"}
                      /\ pc[j][1] = "purge" => m \in pc[j][2]
    BY <1>0, <1>1, <1>2 DEF IInv, PurgedIsUnlisted
  <2>1. CASE Registered(m)
    BY <2>1 DEF IInv, PurgedIsUnlisted
  \* A store that i registers now is listed for i alone, and i runs.
  <2>2. CASE ~ Registered(m)
    <3>1. m = k
      BY <1>2, <2>2
    <3>2. j = i
      BY <1>0, <2>2, <3>1 DEF IInv, PrivateUntilRegistered
    <3> QED BY <1>0, <3>2, IdlePlace DEF Runs
  <2> QED BY <2>1, <2>2
<1>10. NothingOfTheGone'
  BY <1>0 DEF IInv, NothingOfTheGone
<1> QED BY <1>3, <1>4, <1>5, <1>6, <1>7, <1>8, <1>9, <1>10 DEF IInv

(* A memory that another isolate gets in a message is registered.          *)
LEMMA PostStep ==
  ASSUME IInv, NEW i \in Isolate, NEW j \in Isolate, NEW k \in existing, Post(i, j, k)
  PROVE  IInv'
<1>0. /\ k \in refs[i] /\ Registered(k) /\ j \notin gone
      /\ refs' = [refs EXCEPT ![j] = @ \cup {k}]
      /\ UNCHANGED <<address, allocated, length, held, map_, mutex_, isolates_, memories,
                     interrupt, shadow, pc, dying, gone>>
  BY DEF Post, storeVars, lockVars, viewVars
<1>1. /\ refs'[j] = refs[j] \cup {k} /\ \A m \in Isolate : m # j => refs'[m] = refs[m]
      /\ refs' \in [Isolate -> SUBSET existing]
      /\ \A m \in Isolate : refs[m] \subseteq refs'[m]
      /\ existing' = existing
  BY <1>0, Types DEF existing
<1>2. \A m : Referenced(m)' = Referenced(m) /\ Registered(m)' = Registered(m)
  BY <1>0, <1>1 DEF Referenced, Registered
<1>3. TypeInv'
  BY <1>0, <1>1 DEF IInv, TypeInv, TypeOK
<1>4. OneStoreAtAnAddress'
  BY <1>0, <1>1 DEF IInv, OneStoreAtAnAddress
<1>5. WorksOnItsOwn'
  BY <1>0, <1>1 DEF IInv, WorksOnItsOwn
<1>6. DestroyedOnce'
  BY <1>0, <1>1, <1>2 DEF IInv, DestroyedOnce, DestructorOfUnreferenced
<1>7. PurgesUnderLock'
  BY <1>0, <1>1, <1>2 DEF IInv, PurgesUnderLock, At
<1>8. PrivateUntilRegistered'
  <2> SUFFICES ASSUME NEW m \in existing, Referenced(m), ~ Registered(m)
               PROVE  /\ \A n, p \in Isolate : m \in refs'[n] /\ m \in refs'[p] => n = p
                      /\ \A n \in isolates_[m] : m \in refs'[n]
    BY <1>0, <1>1, <1>2 DEF PrivateUntilRegistered
  <2>1. m # k /\ isolates_[m] \subseteq Isolate
    BY <1>0, Types
  <2> QED BY <1>1, <2>1 DEF IInv, PrivateUntilRegistered
<1>9. PurgedIsUnlisted'
  BY <1>0, <1>1, <1>2 DEF IInv, PurgedIsUnlisted
<1>10. NothingOfTheGone'
  BY <1>0, <1>1, Types DEF IInv, NothingOfTheGone
<1> QED BY <1>3, <1>4, <1>5, <1>6, <1>7, <1>8, <1>9, <1>10 DEF IInv

(* AddSharedWasmMemoryObject lists the isolate for a store it refers to.   *)
LEMMA AddIsolateStep ==
  ASSUME IInv, NEW i \in Isolate, AddIsolate(i)
  PROVE  IInv'
<1>0. /\ pc[i][1] = "attach" /\ pc' = [pc EXCEPT ![i] = <<"idle", {}>>]
      /\ isolates_' = [isolates_ EXCEPT ![Its(i)] = @ \cup {i}]
      /\ UNCHANGED <<address, allocated, length, refs, held, map_, mutex_, memories,
                     interrupt, shadow, dying, gone>>
  BY DEF AddIsolate, At, IdlePc, storeVars, viewVars
<1>k. PICK k \in existing : k = Its(i) /\ k \in refs[i] /\ i \notin gone
  BY <1>0, ItsStore
<1>1. /\ existing' = existing
      /\ isolates_'[k] = isolates_[k] \cup {i}
      /\ \A m \in BackingStore : m # k => isolates_'[m] = isolates_[m]
      /\ isolates_' \in [BackingStore -> SUBSET Isolate]
  BY <1>0, <1>k, Types DEF existing
<1>2. /\ pc'[i] = <<"idle", {}>> /\ pc'[i][1] = "idle"
      /\ \A j \in Isolate : j # i => pc'[j] = pc[j]
      /\ pc' \in [Isolate -> Places \X SUBSET BackingStore]
  BY <1>0, Types DEF Places
<1>3. \A m : Referenced(m)' = Referenced(m) /\ Registered(m)' = Registered(m)
  BY <1>0 DEF Referenced, Registered
<1>4. TypeInv'
  BY <1>0, <1>1, <1>2 DEF IInv, TypeInv, TypeOK
<1>5. OneStoreAtAnAddress'
  BY <1>0, <1>1 DEF IInv, OneStoreAtAnAddress
<1>6. WorksOnItsOwn'
  BY <1>0, <1>2 DEF IInv, WorksOnItsOwn
<1>7. DestroyedOnce'
  BY <1>0, <1>1, <1>3 DEF IInv, DestroyedOnce, DestructorOfUnreferenced
<1>8. PurgesUnderLock'
  BY <1>0, <1>1, <1>2, <1>3 DEF IInv, PurgesUnderLock, At
<1>9. PrivateUntilRegistered'
  BY <1>0, <1>k, <1>1, <1>3, Types DEF IInv, PrivateUntilRegistered
<1>10. PurgedIsUnlisted'
  <2>1. \A m \in BackingStore \ existing' : isolates_'[m] = {}
    BY <1>k, <1>1 DEF IInv, PurgedIsUnlisted
  <2>2. \A j \in Isolate, m \in existing :
          j \in isolates_'[m] => j \in isolates_[m] \/ j = i
    BY <1>k, <1>1, Types
  <2>3. \A j \in Isolate, m \in existing :
          j \in isolates_'[m] /\ Referenced(m)' /\ Registered(m)' =>
            /\ j \notin gone' /\ pc'[j][1] \notin {"purged", "teardown"}
            /\ pc'[j][1] = "purge" => m \in pc'[j][2]
    BY <1>0, <1>k, <1>2, <1>3, <2>2 DEF IInv, PurgedIsUnlisted
  <2> QED BY <1>1, <2>1, <2>3 DEF PurgedIsUnlisted
<1>11. NothingOfTheGone'
  BY <1>0, <1>k, <1>2, Types DEF IInv, NothingOfTheGone
<1> QED BY <1>4, <1>5, <1>6, <1>7, <1>8, <1>9, <1>10, <1>11 DEF IInv

(* GetOrCreateShadow finds the shadow of the store, or none.               *)
LEMMA LookupShadowStep ==
  ASSUME IInv, NEW i \in Isolate, NEW k \in existing, LookupShadow(i, k)
  PROVE  IInv'
<1>0. /\ Runs(i) /\ k \in refs[i]
      /\ shadow' = [shadow EXCEPT ![address[k]] =
                      IF @ = NoShadow THEN [store |-> k, length |-> length[k]] ELSE @]
      /\ pc' = [pc EXCEPT ![i] = <<"access", {k}>>]
      /\ UNCHANGED <<address, allocated, length, refs, held, map_, mutex_, isolates_, memories,
                     interrupt, dying, gone>>
  BY DEF LookupShadow, Goto, storeVars, lockVars, viewVars
<1>1. /\ existing' = existing /\ pc[i][1] = "idle" /\ i \notin gone
      /\ pc'[i] = <<"access", {k}>> /\ pc'[i][1] = "access" /\ pc'[i][2] = {k}
      /\ \A j \in Isolate : j # i => pc'[j] = pc[j]
      /\ pc' \in [Isolate -> Places \X SUBSET BackingStore]
  BY <1>0, Types, IdlePlace DEF existing, Places, Runs
<1>2. /\ shadow'[address[k]].store = k
      /\ \A a \in Address : a # address[k] => shadow'[a] = shadow[a]
      /\ shadow' \in [Address -> [store : BackingStore \cup {None}, length : 0 .. MaxLength]]
  <2>1. [store |-> k, length |-> length[k]]
          \in [store : BackingStore \cup {None}, length : 0 .. MaxLength]
    BY Types
  <2>2. shadow[address[k]] # NoShadow => shadow[address[k]].store = k
    BY Types DEF IInv, OneStoreAtAnAddress
  <2>3. shadow'[address[k]] = IF shadow[address[k]] = NoShadow
                              THEN [store |-> k, length |-> length[k]] ELSE shadow[address[k]]
    BY <1>0, Types
  <2>4. shadow'[address[k]].store = k
    BY <2>2, <2>3
  <2>5. /\ \A a \in Address : a # address[k] => shadow'[a] = shadow[a]
        /\ shadow' \in [Address -> [store : BackingStore \cup {None}, length : 0 .. MaxLength]]
    BY <1>0, <2>1, Types
  <2> QED BY <2>4, <2>5
<1>3. \A m : Referenced(m)' = Referenced(m) /\ Registered(m)' = Registered(m)
  BY <1>0 DEF Referenced, Registered
<1>4. \A m \in existing : m # k => address[m] # address[k]
  BY DEF IInv, OneStoreAtAnAddress
<1>5. TypeInv'
  BY <1>0, <1>1, <1>2 DEF IInv, TypeInv, TypeOK
<1>6. OneStoreAtAnAddress'
  <2>1. \A a \in Address : shadow'[a] # NoShadow =>
          shadow'[a].store \in existing /\ address[shadow'[a].store] = a
    BY <1>2 DEF IInv, OneStoreAtAnAddress
  <2> QED BY <1>0, <1>1, <2>1 DEF IInv, OneStoreAtAnAddress
<1>7. WorksOnItsOwn'
  <2>1. ASSUME NEW j \in Isolate, pc'[j][1] = "access", NEW m \in pc'[j][2]
        PROVE  shadow'[address[m]].store = m
    <3>1. CASE m = k
      BY <1>2, <3>1
    <3>2. CASE m # k
      <4>1. j # i /\ pc[j][1] = "access" /\ m \in pc[j][2]
        BY <1>1, <2>1, <3>2
      <4>2. m \in existing /\ shadow[address[m]].store = m
        BY <4>1, Types DEF IInv, WorksOnItsOwn
      <4> QED BY <1>2, <1>4, <3>2, <4>2, Types
    <3> QED BY <3>1, <3>2
  <2> QED BY <1>0, <1>1, <2>1 DEF IInv, WorksOnItsOwn
<1>8. DestroyedOnce'
  <2>1. Referenced(k)
    BY <1>0 DEF Referenced
  <2>2. \A j \in Isolate : dying[j] # Alive =>
          dying[j][2] # k /\ address[dying[j][2]] # address[k]
    BY <1>4, <2>1 DEF IInv, DestroyedOnce, DestructorOfUnreferenced
  <2> QED BY <1>0, <1>1, <1>2, <1>3, <2>2, Types DEF IInv, DestroyedOnce, DestructorOfUnreferenced
<1>9. PurgesUnderLock'
  BY <1>0, <1>1, <1>3 DEF IInv, PurgesUnderLock, At
<1>10. PrivateUntilRegistered'
  BY <1>0, <1>1, <1>3 DEF IInv, PrivateUntilRegistered
<1>11. PurgedIsUnlisted'
  BY <1>0, <1>1, <1>3 DEF IInv, PurgedIsUnlisted
<1>12. NothingOfTheGone'
  BY <1>0, <1>1, Types DEF IInv, NothingOfTheGone
<1> QED BY <1>5, <1>6, <1>7, <1>8, <1>9, <1>10, <1>11, <1>12 DEF IInv

-----------------------------------------------------------------------------
(* The destructor.                                                         *)

(* Whoever drops a reference destroys the store if it was the last one.    *)
LEMMA LastReference ==
  ASSUME IInv, NEW i \in Isolate, NEW k \in existing, Referenced(k), dying[i] = Alive,
         Destroys(i, k), UNCHANGED <<address, map_, shadow>>,
         \A m : (\E j \in Isolate : m \in refs'[j] \cup held'[j]) =>
                (\E j \in Isolate : m \in refs[j] \cup held[j])
  PROVE  /\ dying' \in [Isolate -> ({"alive"} \cup Ends) \X (BackingStore \cup {None})]
         /\ \A j \in Isolate : j # i => dying'[j] = dying[j]
         /\ DestroyedOnce'
<1>1. \A j \in Isolate : dying[j] # Alive => dying[j][2] # k
  BY DEF IInv, DestroyedOnce, DestructorOfUnreferenced
<1>2. CASE \A j \in Isolate : k \notin refs'[j] \cup held'[j]
  <2>1. dying' = [dying EXCEPT ![i] = <<"unregister", k>>]
    BY <1>2 DEF Destroys
  <2>2. /\ dying' \in [Isolate -> ({"alive"} \cup Ends) \X (BackingStore \cup {None})]
        /\ \A j \in Isolate : j # i => dying'[j] = dying[j]
        /\ dying'[i] = <<"unregister", k>> /\ dying'[i][1] = "unregister" /\ dying'[i][2] = k
    BY <2>1, Types DEF Ends
  <2>3. ASSUME NEW j \in Isolate PROVE DestructorOfUnreferenced(j)'
    <3>1. CASE j = i
      BY <1>2, <2>2, <3>1 DEF DestructorOfUnreferenced, Ends, Referenced, existing
    <3>2. CASE j # i
      <4>1. DestructorOfUnreferenced(j) /\ dying'[j] = dying[j]
        BY <2>2, <3>2 DEF IInv, DestroyedOnce
      <4> QED BY <4>1 DEF DestructorOfUnreferenced, Referenced, Registered, existing
    <3> QED BY <3>1, <3>2
  <2>4. ASSUME NEW j \in Isolate, NEW m \in Isolate, dying'[j] # Alive, dying'[m] # Alive,
               dying'[j][2] = dying'[m][2]
        PROVE  j = m
    <3>1. CASE j = i
      BY <1>1, <2>2, <2>4, <3>1
    <3>2. CASE m = i
      BY <1>1, <2>2, <2>4, <3>2
    <3>3. CASE j # i /\ m # i
      BY <2>2, <2>4, <3>3 DEF IInv, DestroyedOnce
    <3> QED BY <3>1, <3>2, <3>3
  <2> QED BY <2>2, <2>3, <2>4 DEF DestroyedOnce
<1>3. CASE ~ \A j \in Isolate : k \notin refs'[j] \cup held'[j]
  <2>1. dying' = dying
    BY <1>3 DEF Destroys
  <2>2. ASSUME NEW j \in Isolate PROVE DestructorOfUnreferenced(j)'
    <3>1. DestructorOfUnreferenced(j)
      BY DEF IInv, DestroyedOnce
    <3> QED BY <2>1, <3>1 DEF DestructorOfUnreferenced, Referenced, Registered, existing
  <2> QED BY <2>1, <2>2, Types DEF IInv, DestroyedOnce
<1> QED BY <1>2, <1>3

(* The collector, or the end of the heap, drops a reference.               *)
LEMMA DropStep ==
  ASSUME IInv, NEW i \in Isolate, NEW k \in existing, Drop(i, k)
  PROVE  IInv'
<1>0. /\ Runs(i) \/ Idle(i, "teardown")
      /\ k \in refs[i]
      /\ refs' = [refs EXCEPT ![i] = @ \ {k}]
      /\ memories' = [memories EXCEPT ![i] = @ \ {k}]
      /\ Destroys(i, k)
      /\ UNCHANGED <<address, allocated, length, held, map_, mutex_, isolates_, interrupt,
                     shadow, pc, gone>>
  BY DEF Drop, storeVars, lockVars
<1>1. /\ existing' = existing
      /\ refs'[i] = refs[i] \ {k} /\ \A j \in Isolate : j # i => refs'[j] = refs[j]
      /\ memories'[i] = memories[i] \ {k} /\ \A j \in Isolate : j # i => memories'[j] = memories[j]
      /\ refs' \in [Isolate -> SUBSET existing] /\ memories' \in [Isolate -> SUBSET existing]
  BY <1>0, Types DEF existing
<1>2. /\ dying[i] = Alive /\ pc[i][1] \in {"idle", "teardown"} /\ i \notin gone
  BY <1>0, IdlePlace DEF Runs, Idle, IInv, NothingOfTheGone
<1>3. /\ Referenced(k)
      /\ \A m : m # k => Referenced(m)' = Referenced(m)
      /\ \A m : Referenced(m)' => Referenced(m)
      /\ \A m : Registered(m)' = Registered(m)
  BY <1>0, <1>1 DEF Referenced, Registered
<1>4. /\ dying' \in [Isolate -> ({"alive"} \cup Ends) \X (BackingStore \cup {None})]
      /\ \A j \in Isolate : j # i => dying'[j] = dying[j]
      /\ DestroyedOnce'
  BY <1>0, <1>1, <1>2, <1>3, LastReference
<1>5. TypeInv'
  BY <1>0, <1>1, <1>4 DEF IInv, TypeInv, TypeOK
<1>6. OneStoreAtAnAddress'
  BY <1>0, <1>1 DEF IInv, OneStoreAtAnAddress
<1>7. WorksOnItsOwn'
  BY <1>0, <1>1, <1>2 DEF IInv, WorksOnItsOwn
<1>8. PurgesUnderLock'
  BY <1>0, <1>1, <1>3 DEF IInv, PurgesUnderLock, At
<1>9. PrivateUntilRegistered'
  <2> SUFFICES ASSUME NEW m \in existing, Referenced(m)', ~ Registered(m)
               PROVE  /\ \A j, n \in Isolate : m \in refs'[j] /\ m \in refs'[n] => j = n
                      /\ \A j \in isolates_[m] : m \in refs'[j]
    BY <1>0, <1>1, <1>3 DEF PrivateUntilRegistered
  <2>1. /\ \A j, n \in Isolate : m \in refs[j] /\ m \in refs[n] => j = n
        /\ \A j \in isolates_[m] : m \in refs[j]
    BY <1>3 DEF IInv, PrivateUntilRegistered
  \* The one isolate that has a private store is the last one to have it.
  <2>2. m # k
    <3>1. ASSUME m = k PROVE FALSE
      <4>1. \A j \in Isolate : k \notin refs'[j]
        BY <1>0, <1>1, <2>1, <3>1
      <4>2. \A j \in Isolate : k \notin held[j]
        BY <3>1 DEF IInv, PurgesUnderLock
      <4> QED BY <1>0, <3>1, <4>1, <4>2 DEF Referenced
    <3> QED BY <3>1
  <2> QED BY <1>1, <2>1, <2>2, Types
<1>10. PurgedIsUnlisted'
  BY <1>0, <1>1, <1>3 DEF IInv, PurgedIsUnlisted
<1>11. NothingOfTheGone'
  BY <1>0, <1>1, <1>2, <1>4, Types DEF IInv, NothingOfTheGone
<1> QED BY <1>4, <1>5, <1>6, <1>7, <1>8, <1>9, <1>10, <1>11 DEF IInv


(* The destructor's own steps are about a store that nobody refers to.     *)
LEMMA DestructorsStore ==
  ASSUME IInv, NEW i \in Isolate, dying[i] # Alive, NEW k, k = dying[i][2]
  PROVE  /\ k \in existing /\ dying[i][1] \in Ends
         /\ \A j \in Isolate : k \notin refs[j] /\ k \notin held[j] /\ k \notin memories[j]
         /\ \A j \in Isolate : j # i /\ dying[j] # Alive =>
              dying[j][2] # k /\ dying[j][2] \in existing /\ address[dying[j][2]] # address[k]
         /\ dying[i][1] \in {"remove_shadow", "free"} => ~ Registered(k)
         /\ dying[i][1] = "free" => shadow[address[k]] = NoShadow
         /\ i \notin gone
         /\ \A m \in existing : m # k => address[m] # address[k]
<1>1. /\ k \in existing /\ dying[i][1] \in Ends /\ ~ Referenced(k)
      /\ dying[i][1] \in {"remove_shadow", "free"} => ~ Registered(k)
      /\ dying[i][1] = "free" => shadow[address[k]] = NoShadow
  BY DEF IInv, DestroyedOnce, DestructorOfUnreferenced
<1>2. \A j \in Isolate : k \notin refs[j] /\ k \notin held[j]
  BY <1>1 DEF Referenced
<1>3. \A m \in existing : m # k => address[m] # address[k]
  BY <1>1 DEF IInv, OneStoreAtAnAddress
<1>4. \A j \in Isolate : j # i /\ dying[j] # Alive =>
        dying[j][2] # k /\ dying[j][2] \in existing /\ address[dying[j][2]] # address[k]
  BY <1>3 DEF IInv, DestroyedOnce, DestructorOfUnreferenced
<1>5. \A j \in Isolate : k \notin memories[j]
  BY <1>2 DEF IInv, WorksOnItsOwn
<1>6. i \notin gone
  BY DEF IInv, NothingOfTheGone
<1> QED BY <1>1, <1>2, <1>3, <1>4, <1>5, <1>6

(* Unregister takes the entry of the store, and no other, out of the map.  *)
LEMMA UnregisterStep ==
  ASSUME IInv, NEW i \in Isolate, Unregister(i)
  PROVE  IInv'
<1>k. PICK k : k = dying[i][2]
  OBVIOUS
<1>0. /\ dying[i][1] = "unregister" /\ dying[i] # Alive
      /\ Registered(k) => mutex_ = None
      /\ map_' = IF Registered(k) THEN [map_ EXCEPT ![address[k]] = None] ELSE map_
      /\ dying' = [dying EXCEPT ![i] = <<"remove_shadow", k>>]
      /\ UNCHANGED <<address, allocated, length, refs, held, mutex_, isolates_, memories,
                     interrupt, shadow, pc, gone>>
  BY <1>k, IdlePlace DEF Unregister, storeVars, viewVars
<1>1. /\ k \in existing /\ existing' = existing /\ address[k] \in Address /\ k # None
      /\ \A j \in Isolate : k \notin refs[j] /\ k \notin held[j]
      /\ \A j \in Isolate : j # i /\ dying[j] # Alive =>
           dying[j][2] # k /\ dying[j][2] \in existing
      /\ \A m \in existing : m # k => address[m] # address[k]
      /\ i \notin gone
  BY <1>k, <1>0, DestructorsStore, Types DEF existing
<1>2. /\ \A a \in Address : map_'[a] = map_[a] \/ (a = address[k] /\ map_'[a] = None)
      /\ map_' \in [Address -> BackingStore \cup {None}]
      /\ map_'[address[k]] # k
  <2>1. CASE Registered(k)
    BY <1>0, <1>1, <2>1, Types
  <2>2. CASE ~ Registered(k)
    BY <1>0, <2>2, Types DEF Registered
  <2> QED BY <2>1, <2>2
<1>3. /\ ~ Registered(k)'
      /\ \A m \in existing : m # k => Registered(m)' = Registered(m)
      /\ \A m \in existing : Registered(m)' => Registered(m)
      /\ \A m : Referenced(m)' = Referenced(m)
  BY <1>0, <1>1, <1>2, Types DEF Registered, Referenced
<1>4. /\ dying'[i] = <<"remove_shadow", k>>
      /\ dying'[i][1] = "remove_shadow" /\ dying'[i][2] = k
      /\ \A j \in Isolate : j # i => dying'[j] = dying[j]
      /\ dying' \in [Isolate -> ({"alive"} \cup Ends) \X (BackingStore \cup {None})]
  BY <1>0, <1>1, Types DEF Ends
<1>5. TypeInv'
  BY <1>0, <1>1, <1>2, <1>4 DEF IInv, TypeInv, TypeOK
<1>6. OneStoreAtAnAddress'
  BY <1>0, <1>1, <1>2 DEF IInv, OneStoreAtAnAddress
<1>7. WorksOnItsOwn'
  BY <1>0 DEF IInv, WorksOnItsOwn
<1>8. DestroyedOnce'
  <2>1. ASSUME NEW j \in Isolate PROVE DestructorOfUnreferenced(j)'
    <3>1. CASE j = i
      BY <1>0, <1>1, <1>2, <1>4, <3>1 DEF DestructorOfUnreferenced, Ends, Referenced, Registered
    <3>2. CASE j # i
      <4>1. DestructorOfUnreferenced(j) /\ dying'[j] = dying[j]
        BY <1>4, <3>2 DEF IInv, DestroyedOnce
      <4>2. dying[j] # Alive => /\ dying[j][2] \in existing /\ address[dying[j][2]] # address[k]
                                /\ address[dying[j][2]] \in Address
        BY <1>1, <3>2, Types
      <4>3. dying[j] # Alive => map_'[address[dying[j][2]]] = map_[address[dying[j][2]]]
        BY <1>2, <4>2
      <4> QED BY <1>0, <1>1, <4>1, <4>2, <4>3
              DEF DestructorOfUnreferenced, Referenced, Registered
    <3> QED BY <3>1, <3>2
  <2>2. ASSUME NEW j \in Isolate, NEW m \in Isolate, dying'[j] # Alive, dying'[m] # Alive,
               dying'[j][2] = dying'[m][2]
        PROVE  j = m
    <3>1. CASE j = i
      BY <1>1, <1>4, <2>2, <3>1
    <3>2. CASE m = i
      BY <1>1, <1>4, <2>2, <3>2
    <3>3. CASE j # i /\ m # i
      BY <1>4, <2>2, <3>3 DEF IInv, DestroyedOnce
    <3> QED BY <3>1, <3>2, <3>3
  <2> QED BY <2>1, <2>2 DEF DestroyedOnce
<1>9. PurgesUnderLock'
  <2>1. \A j \in Isolate : At(j, "purge") <=> mutex_ = j
    BY DEF IInv, PurgesUnderLock
  \* Nobody purges while a store is taken out.
  <2>2. ASSUME NEW j \in Isolate, At(j, "purge"), NEW m \in pc[j][2]
        PROVE  m \in existing /\ Registered(m)'
    <3>1. m \in existing /\ Registered(m)
      BY <2>2 DEF IInv, PurgesUnderLock
    <3>2. m # k
      BY <1>0, <2>1, <2>2, <3>1, SharedMemoriesAssumption
    <3> QED BY <1>3, <3>1, <3>2
  <2>3. ASSUME NEW j \in Isolate, NEW m \in held[j] PROVE Registered(m)'
    BY <1>1, <1>3, <2>3, Types DEF IInv, PurgesUnderLock
  <2> QED BY <1>0, <1>1, <2>1, <2>2, <2>3 DEF PurgesUnderLock, At
<1>10. PrivateUntilRegistered'
  <2>1. ~ Referenced(k)
    BY <1>1 DEF Referenced
  <2> QED BY <1>0, <1>1, <1>3, <2>1 DEF IInv, PrivateUntilRegistered
<1>11. PurgedIsUnlisted'
  BY <1>0, <1>1, <1>3 DEF IInv, PurgedIsUnlisted
<1>12. NothingOfTheGone'
  BY <1>0, <1>1, <1>4, Types DEF IInv, NothingOfTheGone
<1> QED BY <1>5, <1>6, <1>7, <1>8, <1>9, <1>10, <1>11, <1>12 DEF IInv

(* The detector's shadow goes while nobody can be at an access to it.      *)
LEMMA RemoveShadowStep ==
  ASSUME IInv, NEW i \in Isolate, RemoveShadow(i)
  PROVE  IInv'
<1>k. PICK k : k = dying[i][2]
  OBVIOUS
<1>0. /\ dying[i][1] = "remove_shadow" /\ dying[i] # Alive
      /\ shadow' = [shadow EXCEPT ![address[k]] = NoShadow]
      /\ dying' = [dying EXCEPT ![i] = <<"free", k>>]
      /\ UNCHANGED <<address, allocated, length, refs, held, map_, mutex_, isolates_, memories,
                     interrupt, pc, gone>>
  BY <1>k, IdlePlace DEF RemoveShadow, storeVars, lockVars, viewVars
<1>1. /\ k \in existing /\ existing' = existing /\ address[k] \in Address
      /\ \A j \in Isolate : k \notin refs[j] /\ k \notin held[j]
      /\ \A j \in Isolate : j # i /\ dying[j] # Alive =>
           dying[j][2] # k /\ dying[j][2] \in existing /\ address[dying[j][2]] # address[k]
      /\ \A m \in existing : m # k => address[m] # address[k]
      /\ i \notin gone /\ ~ Registered(k)
  BY <1>k, <1>0, DestructorsStore, Types DEF existing
<1>2. /\ shadow'[address[k]] = NoShadow
      /\ \A a \in Address : a # address[k] => shadow'[a] = shadow[a]
      /\ shadow' \in [Address -> [store : BackingStore \cup {None}, length : 0 .. MaxLength]]
  <2>1. NoShadow \in [store : BackingStore \cup {None}, length : 0 .. MaxLength]
    BY SharedMemoriesAssumption DEF NoShadow
  <2> QED BY <1>0, <1>1, <2>1, Types
<1>3. \A m : Referenced(m)' = Referenced(m) /\ Registered(m)' = Registered(m)
  BY <1>0 DEF Referenced, Registered
<1>4. /\ dying'[i] = <<"free", k>> /\ dying'[i][1] = "free" /\ dying'[i][2] = k
      /\ \A j \in Isolate : j # i => dying'[j] = dying[j]
      /\ dying' \in [Isolate -> ({"alive"} \cup Ends) \X (BackingStore \cup {None})]
  BY <1>0, <1>1, Types DEF Ends
<1>5. TypeInv'
  BY <1>0, <1>1, <1>2, <1>4 DEF IInv, TypeInv, TypeOK
<1>6. OneStoreAtAnAddress'
  <2>1. \A a \in Address : shadow'[a] # NoShadow =>
          shadow'[a].store \in existing /\ address[shadow'[a].store] = a
    BY <1>2 DEF IInv, OneStoreAtAnAddress
  <2> QED BY <1>0, <1>1, <2>1 DEF IInv, OneStoreAtAnAddress
<1>7. WorksOnItsOwn'
  \* Who is at an access refers to its store, so it is another one.
  <2>1. ASSUME NEW j \in Isolate, pc[j][1] = "access", NEW m \in pc[j][2]
        PROVE  shadow'[address[m]].store = m
    <3>1. m \in refs[j] /\ shadow[address[m]].store = m
      BY <2>1 DEF IInv, WorksOnItsOwn
    <3>2. m \in existing /\ address[m] # address[k] /\ address[m] \in Address
      BY <1>1, <3>1, Types
    <3> QED BY <1>2, <3>1, <3>2
  <2> QED BY <1>0, <2>1 DEF IInv, WorksOnItsOwn
<1>8. DestroyedOnce'
  <2>1. ASSUME NEW j \in Isolate PROVE DestructorOfUnreferenced(j)'
    <3>1. CASE j = i
      BY <1>0, <1>1, <1>2, <1>4, <3>1 DEF DestructorOfUnreferenced, Ends, Referenced, Registered
    <3>2. CASE j # i
      <4>1. DestructorOfUnreferenced(j) /\ dying'[j] = dying[j]
        BY <1>4, <3>2 DEF IInv, DestroyedOnce
      <4>2. dying[j] # Alive => shadow'[address[dying[j][2]]] = shadow[address[dying[j][2]]]
        BY <1>1, <1>2, <3>2, Types
      <4> QED BY <1>0, <1>1, <4>1, <4>2 DEF DestructorOfUnreferenced, Referenced, Registered
    <3> QED BY <3>1, <3>2
  <2>2. ASSUME NEW j \in Isolate, NEW m \in Isolate, dying'[j] # Alive, dying'[m] # Alive,
               dying'[j][2] = dying'[m][2]
        PROVE  j = m
    <3>1. CASE j = i
      BY <1>1, <1>4, <2>2, <3>1
    <3>2. CASE m = i
      BY <1>1, <1>4, <2>2, <3>2
    <3>3. CASE j # i /\ m # i
      BY <1>4, <2>2, <3>3 DEF IInv, DestroyedOnce
    <3> QED BY <3>1, <3>2, <3>3
  <2> QED BY <2>1, <2>2 DEF DestroyedOnce
<1>9. PurgesUnderLock'
  BY <1>0, <1>1, <1>3 DEF IInv, PurgesUnderLock, At
<1>10. PrivateUntilRegistered'
  BY <1>0, <1>1, <1>3 DEF IInv, PrivateUntilRegistered
<1>11. PurgedIsUnlisted'
  BY <1>0, <1>1, <1>3 DEF IInv, PurgedIsUnlisted
<1>12. NothingOfTheGone'
  BY <1>0, <1>1, <1>4, Types DEF IInv, NothingOfTheGone
<1> QED BY <1>5, <1>6, <1>7, <1>8, <1>9, <1>10, <1>11, <1>12 DEF IInv

(* When the pages of a store are free, nothing is known by their address.  *)
LEMMA FreePagesStep ==
  ASSUME IInv, NEW i \in Isolate, FreePages(i)
  PROVE  IInv'
<1>k. PICK k : k = dying[i][2]
  OBVIOUS
<1>0. /\ dying[i][1] = "free" /\ dying[i] # Alive
      /\ address' = [j \in existing \ {k} |-> address[j]]
      /\ length' = [length EXCEPT ![k] = 0]
      /\ isolates_' = [isolates_ EXCEPT ![k] = {}]
      /\ dying' = [dying EXCEPT ![i] = Alive]
      /\ UNCHANGED <<allocated, refs, held, map_, mutex_, memories, interrupt, shadow, pc, gone>>
  BY <1>k, IdlePlace DEF FreePages, viewVars
<1>1. /\ k \in existing /\ k \in BackingStore
      /\ \A j \in Isolate : k \notin refs[j] /\ k \notin held[j] /\ k \notin memories[j]
      /\ \A j \in Isolate : j # i /\ dying[j] # Alive =>
           dying[j][2] # k /\ dying[j][2] \in existing
      /\ shadow[address[k]] = NoShadow
      /\ i \notin gone /\ ~ Registered(k)
  BY <1>k, <1>0, DestructorsStore, Types
<1>2. /\ existing' = existing \ {k}
      /\ \A m \in existing' : address'[m] = address[m]
  BY <1>0 DEF existing
<1>3. /\ \A m \in existing' : Registered(m)' = Registered(m)
      /\ \A m : Referenced(m)' = Referenced(m)
  BY <1>0, <1>2 DEF Registered, Referenced
<1>4. /\ dying'[i] = Alive
      /\ \A j \in Isolate : j # i => dying'[j] = dying[j]
      /\ dying' \in [Isolate -> ({"alive"} \cup Ends) \X (BackingStore \cup {None})]
  <2>1. Alive \in ({"alive"} \cup Ends) \X (BackingStore \cup {None})
    BY DEF Alive
  <2> QED BY <1>0, <2>1, Types
<1>5. /\ isolates_'[k] = {}
      /\ \A m \in BackingStore : m # k => isolates_'[m] = isolates_[m]
      /\ isolates_' \in [BackingStore -> SUBSET Isolate]
      /\ length' \in [BackingStore -> 0 .. MaxLength]
  BY <1>0, <1>1, Types, SharedMemoriesAssumption
<1>6. TypeInv'
  <2>1. /\ refs' \in [Isolate -> SUBSET existing'] /\ held' \in [Isolate -> SUBSET existing']
        /\ memories' \in [Isolate -> SUBSET existing']
    BY <1>0, <1>1, <1>2, Types
  <2>2. /\ existing' \subseteq BackingStore /\ existing' \subseteq 1 .. allocated
        /\ \A m \in existing' : address'[m] \in Address
    BY <1>2, Types
  <2> QED BY <1>0, <1>4, <1>5, <2>1, <2>2 DEF IInv, TypeInv, TypeOK
<1>7. OneStoreAtAnAddress'
  <2>1. \A j, m \in existing' : address'[j] = address'[m] => j = m
    BY <1>2 DEF IInv, OneStoreAtAnAddress
  <2>2. ASSUME NEW a \in Address, map_[a] # None
        PROVE  map_[a] \in existing' /\ address'[map_[a]] = a
    <3>1. map_[a] \in existing /\ address[map_[a]] = a
      BY <2>2 DEF IInv, OneStoreAtAnAddress
    <3>2. map_[a] # k
      BY <1>1, <3>1 DEF Registered
    <3> QED BY <1>2, <3>1, <3>2
  <2>3. ASSUME NEW a \in Address, shadow[a] # NoShadow
        PROVE  shadow[a].store \in existing' /\ address'[shadow[a].store] = a
    <3>1. shadow[a].store \in existing /\ address[shadow[a].store] = a
      BY <2>3 DEF IInv, OneStoreAtAnAddress
    <3>2. shadow[a].store # k
      BY <1>1, <2>3, <3>1
    <3> QED BY <1>2, <3>1, <3>2
  <2> QED BY <1>0, <2>1, <2>2, <2>3 DEF OneStoreAtAnAddress
<1>8. WorksOnItsOwn'
  <2>1. ASSUME NEW j \in Isolate, pc[j][1] = "access", NEW m \in pc[j][2]
        PROVE  shadow[address'[m]].store = m
    <3>1. m \in refs[j] /\ shadow[address[m]].store = m
      BY <2>1 DEF IInv, WorksOnItsOwn
    <3>2. m \in existing'
      BY <1>1, <1>2, <3>1, Types
    <3> QED BY <1>2, <3>1, <3>2
  <2> QED BY <1>0, <2>1 DEF IInv, WorksOnItsOwn
<1>9. DestroyedOnce'
  <2>1. ASSUME NEW j \in Isolate, dying'[j] # Alive
        PROVE  dying'[j] = dying[j] /\ dying[j] # Alive /\ j # i
    BY <1>4, <2>1
  <2>2. ASSUME NEW j \in Isolate PROVE DestructorOfUnreferenced(j)'
    <3> SUFFICES ASSUME dying'[j] # Alive PROVE DestructorOfUnreferenced(j)'
      BY DEF DestructorOfUnreferenced
    <3>1. /\ dying'[j] = dying[j] /\ dying[j] # Alive /\ DestructorOfUnreferenced(j)
          /\ dying[j][2] # k
      BY <1>1, <2>1 DEF IInv, DestroyedOnce
    <3>2. dying[j][2] \in existing' /\ address'[dying[j][2]] = address[dying[j][2]]
      BY <1>1, <1>2, <2>1, <3>1
    <3> QED BY <1>0, <3>1, <3>2 DEF DestructorOfUnreferenced, Registered, Referenced
  <2> QED BY <2>1, <2>2 DEF IInv, DestroyedOnce
<1>10. PurgesUnderLock'
  <2>1. ASSUME NEW j \in Isolate, At(j, "purge"), NEW m \in pc[j][2]
        PROVE  m \in existing' /\ Registered(m)'
    BY <1>1, <1>2, <1>3, <2>1 DEF IInv, PurgesUnderLock
  <2>2. ASSUME NEW j \in Isolate, NEW m \in held[j] PROVE Registered(m)'
    BY <1>1, <1>2, <1>3, <2>2, Types DEF IInv, PurgesUnderLock
  <2> QED BY <1>0, <2>1, <2>2 DEF IInv, PurgesUnderLock, At
<1>11. PrivateUntilRegistered'
  BY <1>0, <1>2, <1>3, <1>5, Types DEF IInv, PrivateUntilRegistered
<1>12. PurgedIsUnlisted'
  BY <1>0, <1>2, <1>3, <1>5, Types DEF IInv, PurgedIsUnlisted
<1>13. NothingOfTheGone'
  BY <1>0, <1>1, <1>4, Types DEF IInv, NothingOfTheGone
<1> QED BY <1>6, <1>7, <1>8, <1>9, <1>10, <1>11, <1>12, <1>13 DEF IInv

-----------------------------------------------------------------------------
(* The end of an isolate.                                                  *)

(* What does not depend on the place of an isolate that leaves.            *)
LEMMA PlacesOfTheEnd ==
  ASSUME IInv, NEW i \in Isolate, NEW place \in {"idle", "purge", "purged", "teardown"},
         NEW S \in SUBSET BackingStore,
         pc' = [pc EXCEPT ![i] = <<place, S>>],
         UNCHANGED <<address, map_, shadow, refs, memories>>
  PROVE  /\ pc'[i] = <<place, S>> /\ pc'[i][1] = place /\ pc'[i][2] = S
         /\ \A j \in Isolate : j # i => pc'[j] = pc[j]
         /\ pc' \in [Isolate -> Places \X SUBSET BackingStore]
         /\ existing' = existing
         /\ OneStoreAtAnAddress' /\ WorksOnItsOwn'
         /\ \A m : Registered(m)' = Registered(m)
<1>1. /\ pc'[i] = <<place, S>> /\ pc'[i][1] = place /\ pc'[i][2] = S
      /\ \A j \in Isolate : j # i => pc'[j] = pc[j]
      /\ pc' \in [Isolate -> Places \X SUBSET BackingStore]
      /\ existing' = existing
  BY Types DEF Places, existing
<1>2. OneStoreAtAnAddress'
  BY <1>1 DEF IInv, OneStoreAtAnAddress
<1>3. WorksOnItsOwn'
  BY <1>1 DEF IInv, WorksOnItsOwn
<1>4. \A m : Registered(m)' = Registered(m)
  BY DEF Registered
<1> QED BY <1>1, <1>2, <1>3, <1>4

(* Purge locks the registry and has every entry of it to look at.          *)
LEMMA PurgeStep ==
  ASSUME IInv, NEW i \in Isolate, Purge(i)
  PROVE  IInv'
<1>s. PICK S : S = {map_[a] : a \in Address} \ {None}
  OBVIOUS
<1>0. /\ Runs(i) /\ mutex_ = None /\ mutex_' = i
      /\ pc' = [pc EXCEPT ![i] = <<"purge", S>>]
      /\ UNCHANGED <<address, allocated, length, refs, held, map_, isolates_, memories,
                     interrupt, shadow, dying, gone>>
  BY <1>s DEF Purge, Goto, storeVars, viewVars
<1>1. /\ S \in SUBSET BackingStore
      /\ \A k \in S : k \in existing /\ Registered(k)
      /\ \A k \in existing : Registered(k) => k \in S
  BY <1>s, Types DEF IInv, OneStoreAtAnAddress, Registered
<1>2. /\ pc'[i][1] = "purge" /\ pc'[i][2] = S
      /\ \A j \in Isolate : j # i => pc'[j] = pc[j]
      /\ pc' \in [Isolate -> Places \X SUBSET BackingStore]
      /\ existing' = existing
      /\ OneStoreAtAnAddress' /\ WorksOnItsOwn'
      /\ \A m : Registered(m)' = Registered(m)
  BY <1>0, <1>1, PlacesOfTheEnd
<1>3. \A m : Referenced(m)' = Referenced(m)
  BY <1>0 DEF Referenced
<1>4. i \notin gone /\ pc[i][1] = "idle"
  BY <1>0, IdlePlace DEF Runs
<1>5. TypeInv'
  BY <1>0, <1>2 DEF IInv, TypeInv, TypeOK
<1>6. DestroyedOnce'
  BY <1>0, <1>2, <1>3 DEF IInv, DestroyedOnce, DestructorOfUnreferenced
<1>7. PurgesUnderLock'
  <2>1. \A j \in Isolate : pc[j][1] # "purge"
    BY <1>0, SharedMemoriesAssumption DEF IInv, PurgesUnderLock, At
  <2> QED BY <1>0, <1>1, <1>2, <2>1 DEF IInv, PurgesUnderLock, At
<1>8. PrivateUntilRegistered'
  BY <1>0, <1>2, <1>3 DEF IInv, PrivateUntilRegistered
<1>9. PurgedIsUnlisted'
  <2>1. \A m \in BackingStore \ existing : isolates_[m] = {}
    BY DEF IInv, PurgedIsUnlisted
  <2>2. ASSUME NEW j \in Isolate, NEW m \in existing, j \in isolates_[m],
               Referenced(m), Registered(m)
        PROVE  /\ j \notin gone /\ pc'[j][1] \notin {"purged", "teardown"}
               /\ pc'[j][1] = "purge" => m \in pc'[j][2]
    BY <1>1, <1>2, <1>4, <2>2 DEF IInv, PurgedIsUnlisted
  <2> QED BY <1>0, <1>2, <1>3, <2>1, <2>2 DEF PurgedIsUnlisted
<1>10. NothingOfTheGone'
  BY <1>0, <1>2, <1>4, Types DEF IInv, NothingOfTheGone
<1> QED BY <1>2, <1>5, <1>6, <1>7, <1>8, <1>9, <1>10 DEF IInv

(* An entry that Purge has passed lists the isolate no longer, or is one   *)
(* of a store that nobody has.                                             *)
LEMMA PurgeEntryStep ==
  ASSUME IInv, NEW i \in Isolate, PurgeEntry(i)
  PROVE  IInv'
<1>k. PICK k \in pc[i][2] :
        /\ pc' = [pc EXCEPT ![i] = <<"purge", pc[i][2] \ {k}>>]
        /\ IF Referenced(k)
           THEN /\ held' = [held EXCEPT ![i] = @ \cup {k}]
                /\ isolates_' = [isolates_ EXCEPT ![k] = @ \ {i}]
           ELSE UNCHANGED <<held, isolates_>>
  BY DEF PurgeEntry, Goto
<1>0. /\ pc[i][1] = "purge"
      /\ UNCHANGED <<address, allocated, length, refs, map_, mutex_, memories,
                     interrupt, shadow, dying, gone>>
  BY DEF PurgeEntry, Idle, storeVars, viewVars
<1>1. k \in existing /\ k \in BackingStore /\ Registered(k)
  BY <1>0, Types DEF IInv, PurgesUnderLock, At
<1>2. /\ pc'[i][1] = "purge" /\ pc'[i][2] = pc[i][2] \ {k}
      /\ \A j \in Isolate : j # i => pc'[j] = pc[j]
      /\ pc' \in [Isolate -> Places \X SUBSET BackingStore]
      /\ existing' = existing
      /\ OneStoreAtAnAddress' /\ WorksOnItsOwn'
      /\ \A m : Registered(m)' = Registered(m)
  <2>1. pc[i][2] \ {k} \in SUBSET BackingStore
    BY Types
  <2> QED BY <1>k, <1>0, <2>1, PlacesOfTheEnd
<1>3. /\ held' \in [Isolate -> SUBSET existing]
      /\ \A j \in Isolate : \A m \in held'[j] : m \in held[j] \/ m = k
      /\ isolates_' \in [BackingStore -> SUBSET Isolate]
      /\ \A m \in BackingStore : m # k => isolates_'[m] = isolates_[m]
      /\ \A m \in BackingStore : isolates_'[m] \subseteq isolates_[m]
      /\ Referenced(k) => i \notin isolates_'[k]
  <2>1. CASE Referenced(k)
    <3>1. /\ held' = [held EXCEPT ![i] = @ \cup {k}]
          /\ isolates_' = [isolates_ EXCEPT ![k] = @ \ {i}]
      BY <1>k, <2>1
    <3>2. held' \in [Isolate -> SUBSET existing]
      BY <1>1, <3>1, Types
    <3>3. \A j \in Isolate : \A m \in held'[j] : m \in held[j] \/ m = k
      BY <3>1, Types
    <3>4. /\ isolates_' \in [BackingStore -> SUBSET Isolate]
          /\ \A m \in BackingStore : m # k => isolates_'[m] = isolates_[m]
          /\ isolates_'[k] = isolates_[k] \ {i}
      BY <1>1, <3>1, Types
    <3> QED BY <1>1, <3>2, <3>3, <3>4
  <2>2. CASE ~ Referenced(k)
    BY <1>k, <2>2, Types
  <2> QED BY <2>1, <2>2
<1>4. \A m : Referenced(m)' = Referenced(m)
  <2>1. CASE Referenced(k)
    <3>1. \A j \in Isolate : held'[j] = held[j] \/ (j = i /\ held'[j] = held[j] \cup {k})
      BY <1>k, <2>1, Types
    <3>2. \A m : (\E j \in Isolate : m \in refs'[j] \cup held'[j]) =>
                 (\E j \in Isolate : m \in refs[j] \cup held[j])
      BY <1>0, <2>1, <3>1 DEF Referenced
    <3>3. \A m : (\E j \in Isolate : m \in refs[j] \cup held[j]) =>
                 (\E j \in Isolate : m \in refs'[j] \cup held'[j])
      BY <1>0, <3>1
    <3> QED BY <3>2, <3>3 DEF Referenced
  <2>2. CASE ~ Referenced(k)
    BY <1>k, <1>0, <2>2 DEF Referenced
  <2> QED BY <2>1, <2>2
<1>5. i \notin gone
  BY <1>0, IdlePlace DEF IInv, NothingOfTheGone
<1>6. TypeInv'
  BY <1>0, <1>2, <1>3 DEF IInv, TypeInv, TypeOK
<1>7. DestroyedOnce'
  BY <1>0, <1>2, <1>4 DEF IInv, DestroyedOnce, DestructorOfUnreferenced
<1>8. PurgesUnderLock'
  BY <1>0, <1>1, <1>2, <1>3 DEF IInv, PurgesUnderLock, At
<1>9. PrivateUntilRegistered'
  BY <1>0, <1>2, <1>3, <1>4, Types DEF IInv, PrivateUntilRegistered
<1>10. PurgedIsUnlisted'
  <2>1. \A m \in BackingStore \ existing : isolates_'[m] = {}
    BY <1>3 DEF IInv, PurgedIsUnlisted
  <2>2. ASSUME NEW j \in Isolate, NEW m \in existing, j \in isolates_'[m],
               Referenced(m), Registered(m)
        PROVE  /\ j \notin gone /\ pc'[j][1] \notin {"purged", "teardown"}
               /\ pc'[j][1] = "purge" => m \in pc'[j][2]
    <3>1. j \in isolates_[m]
      BY <1>3, <2>2, Types
    <3>2. /\ j \notin gone /\ pc[j][1] \notin {"purged", "teardown"}
          /\ pc[j][1] = "purge" => m \in pc[j][2]
      BY <2>2, <3>1 DEF IInv, PurgedIsUnlisted
    <3> QED BY <1>0, <1>2, <1>3, <2>2, <3>2
  <2> QED BY <1>0, <1>2, <1>4, <2>1, <2>2 DEF PurgedIsUnlisted
<1>11. NothingOfTheGone'
  BY <1>0, <1>2, <1>5, Types DEF IInv, NothingOfTheGone
<1> QED BY <1>2, <1>6, <1>7, <1>8, <1>9, <1>10, <1>11 DEF IInv

(* No entry is left when Purge unlocks the registry.                       *)
LEMMA UnlockStep ==
  ASSUME IInv, NEW i \in Isolate, Unlock(i)
  PROVE  IInv'
<1>0. /\ pc[i][1] = "purge" /\ pc[i][2] = {} /\ mutex_' = None
      /\ pc' = [pc EXCEPT ![i] = <<"purged", {}>>]
      /\ UNCHANGED <<address, allocated, length, refs, held, map_, isolates_, memories,
                     interrupt, shadow, dying, gone>>
  BY DEF Unlock, Idle, Goto, storeVars, viewVars
<1>1. /\ pc'[i][1] = "purged" /\ pc'[i][2] = {}
      /\ \A j \in Isolate : j # i => pc'[j] = pc[j]
      /\ pc' \in [Isolate -> Places \X SUBSET BackingStore]
      /\ existing' = existing
      /\ OneStoreAtAnAddress' /\ WorksOnItsOwn'
      /\ \A m : Registered(m)' = Registered(m)
  BY <1>0, PlacesOfTheEnd
<1>2. \A m : Referenced(m)' = Referenced(m)
  BY <1>0 DEF Referenced
<1>3. i \notin gone
  BY <1>0, IdlePlace DEF IInv, NothingOfTheGone
<1>4. TypeInv'
  BY <1>0, <1>1 DEF IInv, TypeInv, TypeOK
<1>5. DestroyedOnce'
  BY <1>0, <1>1, <1>2 DEF IInv, DestroyedOnce, DestructorOfUnreferenced
<1>6. PurgesUnderLock'
  <2>1. \A j \in Isolate : j # i => pc[j][1] # "purge"
    BY <1>0 DEF IInv, PurgesUnderLock, At
  <2> QED BY <1>0, <1>1, <2>1, SharedMemoriesAssumption DEF IInv, PurgesUnderLock, At
<1>7. PrivateUntilRegistered'
  BY <1>0, <1>1, <1>2 DEF IInv, PrivateUntilRegistered
<1>8. PurgedIsUnlisted'
  <2>1. \A m \in existing : Referenced(m) /\ Registered(m) => i \notin isolates_[m]
    BY <1>0 DEF IInv, PurgedIsUnlisted
  <2> QED BY <1>0, <1>1, <1>2, <2>1 DEF IInv, PurgedIsUnlisted
<1>9. NothingOfTheGone'
  BY <1>0, <1>1, <1>3, Types DEF IInv, NothingOfTheGone
<1> QED BY <1>1, <1>4, <1>5, <1>6, <1>7, <1>8, <1>9 DEF IInv

(* The references that Purge has kept are dropped one by one.              *)
LEMMA ReleaseOneStep ==
  ASSUME IInv, NEW i \in Isolate, NEW k \in held[i], Idle(i, "purged"),
         held' = [held EXCEPT ![i] = @ \ {k}],
         Destroys(i, k),
         UNCHANGED <<address, allocated, length, refs, map_, mutex_, isolates_, memories,
                     interrupt, shadow, pc, gone>>
  PROVE  IInv'
<1>0. /\ pc[i][1] = "purged" /\ dying[i] = Alive
      /\ k \in existing /\ Registered(k) /\ Referenced(k)
  BY Types DEF Idle, IInv, PurgesUnderLock, Referenced
<1>1. /\ existing' = existing
      /\ held' \in [Isolate -> SUBSET existing]
      /\ \A j \in Isolate : held'[j] \subseteq held[j]
      /\ \A j \in Isolate : j # i => held'[j] = held[j]
      /\ held'[i] = held[i] \ {k}
  BY Types DEF existing
<1>2. \A m : (\E j \in Isolate : m \in refs'[j] \cup held'[j]) =>
             (\E j \in Isolate : m \in refs[j] \cup held[j])
  BY <1>1
<1>3. /\ dying' \in [Isolate -> ({"alive"} \cup Ends) \X (BackingStore \cup {None})]
      /\ \A j \in Isolate : j # i => dying'[j] = dying[j]
      /\ DestroyedOnce'
  BY <1>0, <1>2, LastReference
<1>4. /\ \A m : Referenced(m)' => Referenced(m)
      /\ \A m : Registered(m)' = Registered(m)
  BY <1>2 DEF Referenced, Registered
<1>5. i \notin gone
  BY <1>0, IdlePlace DEF IInv, NothingOfTheGone
<1>6. TypeInv'
  BY <1>1, <1>3 DEF IInv, TypeInv, TypeOK
<1>7. OneStoreAtAnAddress' /\ WorksOnItsOwn'
  BY <1>1 DEF IInv, OneStoreAtAnAddress, WorksOnItsOwn
<1>8. PurgesUnderLock'
  BY <1>1, <1>4 DEF IInv, PurgesUnderLock, At
<1>9. PrivateUntilRegistered'
  BY <1>1, <1>4 DEF IInv, PrivateUntilRegistered
<1>10. PurgedIsUnlisted'
  BY <1>1, <1>4 DEF IInv, PurgedIsUnlisted
<1>11. NothingOfTheGone'
  BY <1>3, <1>5, Types DEF IInv, NothingOfTheGone
<1> QED BY <1>3, <1>6, <1>7, <1>8, <1>9, <1>10, <1>11 DEF IInv

(* An isolate that only goes on, after Purge, or is gone.                  *)
LEMMA LeaveStep ==
  ASSUME IInv, NEW i \in Isolate, NEW place \in {"idle", "teardown"},
         pc[i][1] \in {"purged", "teardown"},
         pc' = [pc EXCEPT ![i] = <<place, {}>>],
         UNCHANGED <<address, allocated, length, refs, held, map_, mutex_, isolates_, memories,
                     shadow, dying>>,
         interrupt' \subseteq Isolate,
         gone' = gone \/ (gone' = gone \cup {i} /\ place = "idle" /\ dying[i] = Alive /\ refs[i] = {})
  PROVE  IInv'
<1>1. /\ pc'[i] = <<place, {}>> /\ pc'[i][1] = place
      /\ \A j \in Isolate : j # i => pc'[j] = pc[j]
      /\ pc' \in [Isolate -> Places \X SUBSET BackingStore]
      /\ existing' = existing
      /\ OneStoreAtAnAddress' /\ WorksOnItsOwn'
      /\ \A m : Registered(m)' = Registered(m)
  <2>1. {} \in SUBSET BackingStore /\ place \in {"idle", "purge", "purged", "teardown"}
    OBVIOUS
  <2>2. UNCHANGED <<address, map_, shadow, refs, memories>>
    OBVIOUS
  <2> QED BY <2>1, <2>2, PlacesOfTheEnd
<1>2. \A m : Referenced(m)' = Referenced(m)
  BY DEF Referenced
<1>3. i \notin gone
  BY IdlePlace DEF IInv, NothingOfTheGone
<1>4. TypeInv'
  <2>1. gone' \subseteq Isolate
    BY Types
  <2> QED BY <1>1, <2>1 DEF IInv, TypeInv, TypeOK
<1>5. DestroyedOnce'
  BY <1>1, <1>2 DEF IInv, DestroyedOnce, DestructorOfUnreferenced
<1>6. PurgesUnderLock'
  BY <1>1 DEF IInv, PurgesUnderLock, At
<1>7. PrivateUntilRegistered'
  BY <1>1, <1>2 DEF IInv, PrivateUntilRegistered
<1>8. PurgedIsUnlisted'
  <2>1. \A m \in existing : Referenced(m) /\ Registered(m) => i \notin isolates_[m]
    BY DEF IInv, PurgedIsUnlisted
  <2>2. \A j \in Isolate : j # i => (j \in gone' <=> j \in gone)
    OBVIOUS
  <2> QED BY <1>1, <1>2, <2>1, <2>2 DEF IInv, PurgedIsUnlisted
<1>9. NothingOfTheGone'
  <2>1. ASSUME NEW j \in gone' PROVE pc'[j] = IdlePc /\ dying[j] = Alive /\ refs[j] = {}
    <3>1. CASE j = i
      BY <1>1, <1>3, <2>1, <3>1 DEF IdlePc
    <3>2. CASE j # i
      BY <1>1, <2>1, <3>2, Types DEF IInv, NothingOfTheGone
    <3> QED BY <3>1, <3>2
  <2> QED BY <2>1 DEF NothingOfTheGone
<1> QED BY <1>1, <1>4, <1>5, <1>6, <1>7, <1>8, <1>9 DEF IInv

(* Release and Gone.                                                       *)
LEMMA EndStep ==
  ASSUME IInv, NEW i \in Isolate, Release(i) \/ Gone(i)
  PROVE  IInv'
<1>1. CASE Release(i)
  <2>0. /\ Idle(i, "purged")
        /\ UNCHANGED <<address, allocated, length, map_, mutex_, isolates_, memories,
                       interrupt, shadow, gone>>
    BY <1>1 DEF Release, storeVars, lockVars, viewVars
  <2>1. ASSUME NEW k \in held[i], held' = [held EXCEPT ![i] = @ \ {k}], Destroys(i, k),
               UNCHANGED <<refs, pc>>
        PROVE  IInv'
    BY <2>0, <2>1, ReleaseOneStep
  <2>2. ASSUME pc' = [pc EXCEPT ![i] = <<"teardown", {}>>], UNCHANGED <<refs, held, dying>>
        PROVE  IInv'
    BY <2>0, <2>2, LeaveStep, Types DEF Idle
  <2> QED BY <1>1, <2>1, <2>2 DEF Release, Goto
<1>2. CASE Gone(i)
  <2>1. /\ pc[i][1] = "teardown" /\ dying[i] = Alive /\ refs[i] = {}
        /\ gone' = gone \cup {i} /\ interrupt' = interrupt \ {i}
        /\ pc' = [pc EXCEPT ![i] = <<"idle", {}>>]
        /\ UNCHANGED <<address, allocated, length, refs, held, map_, mutex_, isolates_, memories,
                       shadow, dying>>
    BY <1>2 DEF Gone, Idle, IdlePc, storeVars, lockVars, viewVars
  <2>2. interrupt' \subseteq Isolate
    BY <2>1, Types
  <2> QED BY <2>1, <2>2, LeaveStep
<1> QED BY <1>1, <1>2

-----------------------------------------------------------------------------
(* The invariant holds, and what follows from it.                          *)

(* No store has been allocated at the start.                               *)
LEMMA InitInv == Init => IInv
<1> SUFFICES ASSUME Init PROVE IInv
  OBVIOUS
<1>1. /\ existing = {} /\ IdlePc[1] = "idle" /\ IdlePc[2] = {}
      /\ \A i \in Isolate : refs[i] = {} /\ held[i] = {} /\ memories[i] = {}
      /\ \A i \in Isolate : pc[i] = IdlePc /\ dying[i] = Alive
      /\ \A a \in Address : map_[a] = None /\ shadow[a] = NoShadow
      /\ \A k \in BackingStore : isolates_[k] = {}
      /\ gone = {} /\ mutex_ = None
  BY DEF Init, existing, IdlePc
<1>2. TypeOK
  <2>1. NoShadow \in [store : BackingStore \cup {None}, length : 0 .. MaxLength]
    BY SharedMemoriesAssumption DEF NoShadow
  <2> QED BY <1>1, <2>1, SharedMemoriesAssumption DEF Init, TypeOK
<1>3. TypeInv
  <2>1. IdlePc \in Places \X SUBSET BackingStore
        /\ Alive \in ({"alive"} \cup Ends) \X (BackingStore \cup {None})
    BY DEF IdlePc, Places, Alive
  <2> QED BY <1>1, <1>2, <2>1 DEF Init, TypeInv
<1>4. OneStoreAtAnAddress /\ WorksOnItsOwn /\ NothingOfTheGone
  BY <1>1 DEF OneStoreAtAnAddress, WorksOnItsOwn, NothingOfTheGone
<1>5. DestroyedOnce /\ PrivateUntilRegistered /\ PurgedIsUnlisted
  BY <1>1 DEF DestroyedOnce, DestructorOfUnreferenced, PrivateUntilRegistered, PurgedIsUnlisted
<1>6. PurgesUnderLock
  BY <1>1, SharedMemoriesAssumption DEF PurgesUnderLock, At
<1> QED BY <1>3, <1>4, <1>5, <1>6 DEF IInv

(* One lemma per action.                                                   *)
LEMMA StepInv == IInv /\ [Next]_vars => IInv'
<1> SUFFICES ASSUME IInv, [Next]_vars PROVE IInv'
  OBVIOUS
<1>1. CASE UNCHANGED vars
  <2>1. UNCHANGED <<address, allocated, length, refs, held, map_, mutex_, isolates_, memories,
                    instances, array_buffer, interrupt, shadow, pc, dying, gone>>
    BY <1>1 DEF vars, storeVars, lockVars, viewVars
  <2> QED BY <2>1 DEF IInv, TypeInv, TypeOK, OneStoreAtAnAddress, WorksOnItsOwn, DestroyedOnce,
                      DestructorOfUnreferenced, PurgesUnderLock, PrivateUntilRegistered,
                      PurgedIsUnlisted, NothingOfTheGone, existing, Referenced, Registered, At
<1>2. ASSUME NEW i \in Isolate, NEW a \in Address, AllocateWasmMemory(i, a) PROVE IInv'
  BY <1>2, AllocateStep
<1>3. ASSUME NEW i \in Isolate, NEW k \in existing, Register(i, k) PROVE IInv'
  BY <1>3, RegisterStep
<1>4. ASSUME NEW i \in Isolate, NEW k \in existing, NEW j \in Isolate, Post(i, j, k) PROVE IInv'
  BY <1>4, PostStep
<1>5. ASSUME NEW i \in Isolate, NEW k \in existing,
             AddSharedWasmMemoryObject(i, k) \/ UseMemory(i, k) \/ Grow(i, k)
      PROVE  IInv'
  BY <1>5, WorkStep
<1>6. ASSUME NEW i \in Isolate,
             Broadcast(i) \/ UpdateOwn(i) \/ HandleInterrupt(i) \/ RecordAccess(i)
      PROVE  IInv'
  BY <1>6, WorkStep
<1>7. ASSUME NEW i \in Isolate, NEW k \in existing, LookupShadow(i, k) PROVE IInv'
  BY <1>7, LookupShadowStep
<1>8. ASSUME NEW i \in Isolate, NEW k \in existing, Drop(i, k) PROVE IInv'
  BY <1>8, DropStep
<1>9. ASSUME NEW i \in Isolate, AddIsolate(i) PROVE IInv'
  BY <1>9, AddIsolateStep
<1>10. ASSUME NEW i \in Isolate, Unregister(i) \/ RemoveShadow(i) \/ FreePages(i) PROVE IInv'
  BY <1>10, UnregisterStep, RemoveShadowStep, FreePagesStep
<1>11. ASSUME NEW i \in Isolate, Purge(i) \/ PurgeEntry(i) \/ Unlock(i) PROVE IInv'
  BY <1>11, PurgeStep, PurgeEntryStep, UnlockStep
<1>12. ASSUME NEW i \in Isolate, Release(i) \/ Gone(i) PROVE IInv'
  BY <1>12, EndStep
<1> QED
  BY <1>1, <1>2, <1>3, <1>4, <1>5, <1>6, <1>7, <1>8, <1>9, <1>10, <1>11, <1>12 DEF Next

(* Every list of the registry, of the isolates and of the destructors has  *)
(* stores that exist.                                                      *)
THEOREM TypeCorrect == Spec => []TypeOK
<1>1. IInv => TypeOK
  BY DEF IInv, TypeInv
<1> QED BY <1>1, InitInv, StepInv, PTL DEF Spec

(* The CHECK in GlobalBackingStoreRegistry::Register holds.                *)
THEOREM RegisterFindsNoOther == Spec => []RegisterSucceeds
<1>1. IInv => RegisterSucceeds
  BY NoOtherEntry DEF RegisterSucceeds
<1> QED BY <1>1, InitInv, StepInv, PTL DEF Spec

(* No access of any isolate records into the shadow of an earlier store at *)
(* the address, and none uses a shadow that the destructor has taken away. *)
THEOREM ShadowIsOfItsStore == Spec => []ShadowOfItsStore
<1>1. ASSUME IInv PROVE ShadowOfItsStore
  <2>1. ASSUME NEW i \in Isolate, At(i, "access") PROVE shadow[address[Its(i)]].store = Its(i)
    <3>1. pc[i][1] = "access" /\ pc[i][2] = {Its(i)}
      BY <1>1, <2>1, ItsStore DEF At
    <3> QED BY <1>1, <3>1 DEF IInv, WorksOnItsOwn
  <2> QED BY <1>1, <2>1 DEF ShadowOfItsStore, IInv, OneStoreAtAnAddress
<1> QED BY <1>1, InitInv, StepInv, PTL DEF Spec

(* A grow of a shared memory interrupts no isolate that is gone.           *)
THEOREM GoneIsNeverListed == Spec => []NobodyGoneIsListed
<1>1. ASSUME IInv PROVE NobodyGoneIsListed
  <2> SUFFICES ASSUME NEW k \in existing, Referenced(k), NEW i \in isolates_[k], i \in gone
               PROVE  FALSE
    BY DEF NobodyGoneIsListed
  <2>1. i \in Isolate
    BY <1>1, Types
  <2>2. CASE Registered(k)
    BY <1>1, <2>1, <2>2 DEF IInv, PurgedIsUnlisted
  \* A private store is listed for an isolate that refers to it.
  <2>3. CASE ~ Registered(k)
    BY <1>1, <2>1, <2>3 DEF IInv, PrivateUntilRegistered, NothingOfTheGone
  <2> QED BY <2>2, <2>3
<1> QED BY <1>1, InitInv, StepInv, PTL DEF Spec

=============================================================================
