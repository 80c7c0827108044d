---------------------------- MODULE SharedMemories ----------------------------
(***************************************************************************)
(* Shared Wasm memories and the isolates that have them: the registry of   *)
(* backing-store.cc with its mutex, the broadcast of a grow, the end of an *)
(* isolate, and the destructor, which also removes the detector's shadow.  *)
(*                                                                         *)
(* An isolate is one thread.  A backing store is destroyed by whoever      *)
(* drops the last reference to it; its address is free for another store   *)
(* when its pages are.  Growing itself is module BackingStore: here it is  *)
(* one step that makes a memory longer.  The registry does not own stores, *)
(* so a store no isolate refers to is gone, but for its destructor.        *)
(*                                                                         *)
(* The callers of the registry are V8's; they are modelled from what the   *)
(* functions of backing-store.cc ask of them.  A store is registered       *)
(* before another isolate gets it.                                         *)
(***************************************************************************)
EXTENDS Integers, FiniteSets

CONSTANTS
  Isolate,
  Address,      \* where a memory can be reserved
  MaxStores,    \* bound: backing stores that are allocated
  MaxLength     \* bound: the length of a memory

None == 0

ASSUME SharedMemoriesAssumption ==
  /\ IsFiniteSet(Isolate) /\ None \notin Isolate
  /\ MaxStores \in Nat \ {0} /\ MaxLength \in Nat \ {0}

BackingStore == 1 .. MaxStores

VARIABLES
  address,        \* buffer_start_ of the stores whose pages are reserved
  allocated,      \* how many stores there have been
  length,         \* byte_length_ of each store
  refs,           \* the stores each isolate's buffers and memories refer to
  held,           \* the stores in prevent_destruction_under_lock of each Purge
  map_,           \* the registry: the store at an address, or None
  mutex_,         \* the isolate that has locked it, or None
  isolates_,      \* the isolates that each store is shared with
  memories,       \* kSharedWasmMemories: those with a memory object, per isolate
  instances,      \* the length each isolate's instances have for a store
  array_buffer,   \* the length of its array buffer; None when there is none
  interrupt,      \* isolates with a pending RequestGrowSharedMemory
  shadow,         \* the detector's shadow at an address: its store and its length
  pc,             \* what each isolate is doing, and with which stores
  dying,          \* the destructor that each isolate runs: its next step and store
  gone            \* isolates that are no more

storeVars == <<address, allocated, length>>
lockVars == <<map_, mutex_, isolates_>>
viewVars == <<memories, instances, array_buffer>>
vars == <<storeVars, refs, held, lockVars, viewVars, interrupt, shadow, pc, dying, gone>>

NoShadow == [store |-> None, length |-> 0]
IdlePc == <<"idle", {}>>
Alive == <<"alive", None>>
existing == DOMAIN address

Init ==
  /\ address = <<>> /\ allocated = 0
  /\ length = [k \in BackingStore |-> 0]
  /\ refs = [i \in Isolate |-> {}] /\ held = [i \in Isolate |-> {}]
  /\ map_ = [a \in Address |-> None]
  /\ mutex_ = None
  /\ isolates_ = [k \in BackingStore |-> {}]
  /\ memories = [i \in Isolate |-> {}]
  /\ instances = [i \in Isolate |-> [k \in BackingStore |-> 0]]
  /\ array_buffer = [i \in Isolate |-> [k \in BackingStore |-> None]]
  /\ interrupt = {}
  /\ shadow = [a \in Address |-> NoShadow]
  /\ pc = [i \in Isolate |-> IdlePc]
  /\ dying = [i \in Isolate |-> Alive]
  /\ gone = {}

\* weak_ptr::lock succeeds for a store that somebody refers to.
Referenced(k) == \E i \in Isolate : k \in refs[i] \cup held[i]

Runs(i) == i \notin gone /\ pc[i] = IdlePc /\ dying[i] = Alive
Idle(i, place) == pc[i][1] = place /\ dying[i] = Alive
Goto(i, place, stores) == pc' = [pc EXCEPT ![i] = <<place, stores>>]
At(i, place) == pc[i][1] = place
Its(i) == CHOOSE k \in pc[i][2] : TRUE       \* the one store it works on

-----------------------------------------------------------------------------
(* The life of a store, up to its last reference.                          *)

AllocateWasmMemory(i, a) ==
  /\ Runs(i)
  /\ allocated < MaxStores
  /\ \A k \in existing : address[k] # a
  /\ LET k == allocated + 1 IN
     /\ allocated' = k
     /\ address' = [j \in existing \cup {k} |-> IF j = k THEN a ELSE address[j]]
     /\ length' = [length EXCEPT ![k] = 1]
     /\ refs' = [refs EXCEPT ![i] = @ \cup {k}]
  /\ UNCHANGED <<held, lockVars, viewVars, interrupt, shadow, pc, dying, gone>>

Registered(k) == map_[address[k]] = k

\* Register inserts the store, with a CHECK that its address had no entry.
Register(i, k) ==
  /\ Runs(i) /\ k \in refs[i] /\ mutex_ = None
  /\ map_' = [map_ EXCEPT ![address[k]] = k]
  /\ UNCHANGED <<storeVars, refs, held, mutex_, isolates_, viewVars, interrupt, shadow, pc,
                 dying, gone>>

\* Another isolate gets the memory in a message.
Post(i, j, k) ==
  /\ Runs(i) /\ k \in refs[i] /\ Registered(k)
  /\ j \notin gone /\ ~ At(j, "purge") /\ ~ At(j, "purged") /\ ~ At(j, "teardown")
  /\ refs' = [refs EXCEPT ![j] = @ \cup {k}]
  /\ UNCHANGED <<storeVars, held, lockVars, viewVars, interrupt, shadow, pc, dying, gone>>

\* AddSharedWasmMemoryObject: first the isolate's own list ...
AddSharedWasmMemoryObject(i, k) ==
  /\ Runs(i) /\ k \in refs[i] \ memories[i]
  /\ memories' = [memories EXCEPT ![i] = @ \cup {k}]
  /\ Goto(i, "attach", {k})
  /\ UNCHANGED <<storeVars, refs, held, lockVars, instances, array_buffer, interrupt,
                 shadow, dying, gone>>

\* ... and then, under the mutex, the store's list of isolates.
AddIsolate(i) ==
  /\ At(i, "attach") /\ mutex_ = None
  /\ isolates_' = [isolates_ EXCEPT ![Its(i)] = @ \cup {i}]
  /\ pc' = [pc EXCEPT ![i] = IdlePc]
  /\ UNCHANGED <<storeVars, refs, held, map_, mutex_, viewVars, interrupt, shadow, dying, gone>>

\* An instance, or an array buffer, of a memory object is made.
UseMemory(i, k) ==
  /\ Runs(i) /\ k \in memories[i]
  /\ \/ /\ instances' = [instances EXCEPT ![i][k] = length[k]]
        /\ UNCHANGED array_buffer
     \/ /\ array_buffer[i][k] = None
        /\ array_buffer' = [array_buffer EXCEPT ![i][k] = length[k]]
        /\ UNCHANGED instances
  /\ UNCHANGED <<storeVars, refs, held, lockVars, memories, interrupt, shadow, pc, dying, gone>>

-----------------------------------------------------------------------------
(* Growing.                                                                *)

Grow(i, k) ==
  /\ Runs(i) /\ k \in memories[i]
  /\ length[k] < MaxLength
  /\ length' = [length EXCEPT ![k] = @ + 1]
  /\ Goto(i, "broadcast", {k})
  /\ UNCHANGED <<address, allocated, refs, held, lockVars, viewVars, interrupt, shadow,
                 dying, gone>>

\* BroadcastSharedWasmMemoryGrow: the interrupts, under the mutex ...
BroadcastsToInstances(i) ==         \* mutant: only isolates that run instances
  /\ At(i, "broadcast") /\ mutex_ = None
  /\ interrupt' = interrupt \cup
       {j \in isolates_[Its(i)] \ {i} : instances[j][Its(i)] # 0}
  /\ Goto(i, "update", pc[i][2])
  /\ UNCHANGED <<storeVars, refs, held, lockVars, viewVars, shadow, dying, gone>>
Broadcast(i) ==
  /\ At(i, "broadcast") /\ mutex_ = None
  /\ interrupt' = interrupt \cup (isolates_[Its(i)] \ {i})
  /\ Goto(i, "update", pc[i][2])
  /\ UNCHANGED <<storeVars, refs, held, lockVars, viewVars, shadow, dying, gone>>

\* UpdateSharedWasmMemoryObjects: every instance gets the length of its memory,
\* and an array buffer that is too short is dropped.
UpdateSharedWasmMemoryObjects(i) ==
  /\ instances' = [instances EXCEPT ![i] =
       [k \in BackingStore |->
          IF k \in memories[i] /\ @[k] # 0 THEN length[k] ELSE @[k]]]
  /\ array_buffer' = [array_buffer EXCEPT ![i] =
       [k \in BackingStore |->
          IF k \in memories[i] /\ @[k] < length[k] THEN None ELSE @[k]]]

\* ... and then the update of the isolate itself.
UpdateOwn(i) ==
  /\ At(i, "update")
  /\ UpdateSharedWasmMemoryObjects(i)
  /\ pc' = [pc EXCEPT ![i] = IdlePc]
  /\ UNCHANGED <<storeVars, refs, held, lockVars, memories, interrupt, shadow, dying, gone>>

\* The stack guard of another isolate.
HandleInterrupt(i) ==
  /\ Runs(i) /\ i \in interrupt
  /\ interrupt' = interrupt \ {i}
  /\ UpdateSharedWasmMemoryObjects(i)
  /\ UNCHANGED <<storeVars, refs, held, lockVars, memories, shadow, pc, dying, gone>>

-----------------------------------------------------------------------------
(* The detector.                                                           *)

\* MemoryAccess looks the shadow up, or creates it, and has a raw pointer to it
\* until the access is recorded.
LookupShadow(i, k) ==
  /\ Runs(i) /\ k \in refs[i]
  /\ shadow' = [shadow EXCEPT ![address[k]] =
                  IF @ = NoShadow THEN [store |-> k, length |-> length[k]] ELSE @]
  /\ Goto(i, "access", {k})
  /\ UNCHANGED <<storeVars, refs, held, lockVars, viewVars, interrupt, dying, gone>>

RecordAccess(i) ==
  /\ At(i, "access")
  /\ pc' = [pc EXCEPT ![i] = IdlePc]
  /\ UNCHANGED <<storeVars, refs, held, lockVars, viewVars, interrupt, shadow, dying, gone>>

-----------------------------------------------------------------------------
(* The destructor.                                                         *)

\* The garbage collector, or the end of the heap, drops what refers to a store.
\* Whoever drops the last reference runs the destructor.
DestroysAtOnce(i, k) ==        \* mutant: no look at the other references
  dying' = [dying EXCEPT ![i] = <<"unregister", k>>]
Destroys(i, k) ==
  IF \A j \in Isolate : k \notin refs'[j] \cup held'[j]
  THEN dying' = [dying EXCEPT ![i] = <<"unregister", k>>]
  ELSE UNCHANGED dying

Drop(i, k) ==
  /\ Runs(i) \/ Idle(i, "teardown")
  /\ k \in refs[i]
  /\ refs' = [refs EXCEPT ![i] = @ \ {k}]
  /\ memories' = [memories EXCEPT ![i] = @ \ {k}]
  /\ instances' = [instances EXCEPT ![i][k] = 0]
  /\ array_buffer' = [array_buffer EXCEPT ![i][k] = None]
  /\ UNCHANGED held
  /\ Destroys(i, k)
  /\ UNCHANGED <<storeVars, lockVars, interrupt, shadow, pc, gone>>

\* Unregister takes the mutex only for a store that is registered.
KeepsEntry(i) ==               \* mutant: the entry is not erased
  /\ dying[i][1] = "unregister"
  /\ Registered(dying[i][2]) => mutex_ = None
  /\ dying' = [dying EXCEPT ![i] = <<"remove_shadow", dying[i][2]>>]
  /\ UNCHANGED <<storeVars, refs, held, lockVars, viewVars, interrupt, shadow, pc, gone>>
Unregister(i) ==
  /\ dying[i][1] = "unregister"
  /\ LET k == dying[i][2] IN
     /\ Registered(k) => mutex_ = None
     /\ map_' = IF Registered(k) THEN [map_ EXCEPT ![address[k]] = None] ELSE map_
     /\ dying' = [dying EXCEPT ![i] = <<"remove_shadow", k>>]
  /\ UNCHANGED <<storeVars, refs, held, mutex_, isolates_, viewVars, interrupt, shadow, pc,
                 gone>>

KeepsShadow(i) ==              \* mutant: the detector is not told
  /\ dying[i][1] = "remove_shadow"
  /\ dying' = [dying EXCEPT ![i] = <<"free", dying[i][2]>>]
  /\ UNCHANGED <<storeVars, refs, held, lockVars, viewVars, interrupt, shadow, pc, gone>>
RemoveShadow(i) ==
  /\ dying[i][1] = "remove_shadow"
  /\ shadow' = [shadow EXCEPT ![address[dying[i][2]]] = NoShadow]
  /\ dying' = [dying EXCEPT ![i] = <<"free", dying[i][2]>>]
  /\ UNCHANGED <<storeVars, refs, held, lockVars, viewVars, interrupt, pc, gone>>

FreePages(i) ==
  /\ dying[i][1] = "free"
  /\ LET k == dying[i][2] IN
     /\ address' = [j \in existing \ {k} |-> address[j]]
     /\ length' = [length EXCEPT ![k] = 0]
     /\ isolates_' = [isolates_ EXCEPT ![k] = {}]
  /\ dying' = [dying EXCEPT ![i] = Alive]
  /\ UNCHANGED <<allocated, refs, held, map_, mutex_, viewVars, interrupt, shadow, pc, gone>>

-----------------------------------------------------------------------------
(* The end of an isolate: Purge, and then its heap.                        *)

PurgesItsStores(i) ==          \* mutant: only the stores it still refers to
  /\ Runs(i) /\ mutex_ = None
  /\ mutex_' = i
  /\ Goto(i, "purge", {map_[a] : a \in Address} \cap refs[i])
  /\ UNCHANGED <<storeVars, refs, held, map_, isolates_, viewVars, interrupt, shadow, dying,
                 gone>>
Purge(i) ==
  /\ Runs(i) /\ mutex_ = None
  /\ mutex_' = i
  /\ Goto(i, "purge", {map_[a] : a \in Address} \ {None})
  /\ UNCHANGED <<storeVars, refs, held, map_, isolates_, viewVars, interrupt, shadow, dying,
                 gone>>

\* One entry.  The reference that lock() gives is kept until the mutex is free.
DropsUnderLock(i) ==           \* mutant: it is dropped at once
  /\ Idle(i, "purge")
  /\ \E k \in pc[i][2] :
       /\ Goto(i, "purge", pc[i][2] \ {k})
       /\ isolates_' = IF Referenced(k) THEN [isolates_ EXCEPT ![k] = @ \ {i}]
                                        ELSE isolates_
       /\ \/ UNCHANGED <<refs, held, dying>>
          \/ /\ \E j \in Isolate : k \in refs[j] /\ \A u \in Isolate \ {j} : k \notin refs[u]
             /\ refs' = [j \in Isolate |-> refs[j] \ {k}]
             /\ dying' = [dying EXCEPT ![i] = <<"unregister", k>>]
             /\ UNCHANGED held
  /\ UNCHANGED <<storeVars, map_, mutex_, viewVars, interrupt, shadow, gone>>
PurgeEntry(i) ==
  /\ Idle(i, "purge")
  /\ \E k \in pc[i][2] :
       /\ Goto(i, "purge", pc[i][2] \ {k})
       /\ IF Referenced(k)
          THEN /\ held' = [held EXCEPT ![i] = @ \cup {k}]
               /\ isolates_' = [isolates_ EXCEPT ![k] = @ \ {i}]
          ELSE UNCHANGED <<held, isolates_>>
  /\ UNCHANGED <<storeVars, refs, map_, mutex_, viewVars, interrupt, shadow, dying, gone>>

Unlock(i) ==
  /\ Idle(i, "purge") /\ pc[i][2] = {}
  /\ mutex_' = None
  /\ Goto(i, "purged", {})
  /\ UNCHANGED <<storeVars, refs, held, map_, isolates_, viewVars, interrupt, shadow, dying,
                 gone>>

\* The vector of references goes out of scope, after the lock.
Release(i) ==
  /\ Idle(i, "purged")
  /\ \/ \E k \in held[i] :
          /\ held' = [held EXCEPT ![i] = @ \ {k}]
          /\ UNCHANGED refs
          /\ Destroys(i, k)
          /\ UNCHANGED pc
     \/ /\ held[i] = {}
        /\ Goto(i, "teardown", {})
        /\ UNCHANGED <<refs, held, dying>>
  /\ UNCHANGED <<storeVars, lockVars, viewVars, interrupt, shadow, gone>>

Gone(i) ==
  /\ Idle(i, "teardown") /\ refs[i] = {}
  /\ gone' = gone \cup {i}
  /\ interrupt' = interrupt \ {i}
  /\ pc' = [pc EXCEPT ![i] = IdlePc]
  /\ UNCHANGED <<storeVars, refs, held, lockVars, viewVars, shadow, dying>>

Next ==
  \E i \in Isolate :
    \/ \E a \in Address : AllocateWasmMemory(i, a)
    \/ \E k \in existing :
         \/ Register(i, k) \/ AddSharedWasmMemoryObject(i, k) \/ UseMemory(i, k)
         \/ Grow(i, k) \/ LookupShadow(i, k) \/ Drop(i, k)
         \/ \E j \in Isolate \ {i} : Post(i, j, k)
    \/ AddIsolate(i)
    \/ Broadcast(i) \/ UpdateOwn(i) \/ HandleInterrupt(i)
    \/ RecordAccess(i)
    \/ Unregister(i) \/ RemoveShadow(i) \/ FreePages(i)
    \/ Purge(i) \/ PurgeEntry(i) \/ Unlock(i) \/ Release(i) \/ Gone(i)

\* What an isolate goes on with once it has started it.
Proceed(i) ==
  \/ AddIsolate(i) \/ Broadcast(i) \/ UpdateOwn(i) \/ RecordAccess(i)
  \/ Unregister(i) \/ RemoveShadow(i) \/ FreePages(i)
  \/ PurgeEntry(i) \/ Unlock(i) \/ Release(i)

(* A thread goes on, and gets the mutex in the end; the stack guard looks  *)
(* at its interrupts at every function entry and loop back edge.           *)
Fairness == \A i \in Isolate : SF_vars(Proceed(i)) /\ SF_vars(HandleInterrupt(i))

Spec == Init /\ [][Next]_vars /\ Fairness

-----------------------------------------------------------------------------
(* Correctness.                                                            *)

(* Every list is one of stores or of isolates that there may be.           *)
TypeOK ==
  /\ existing \subseteq BackingStore /\ \A k \in existing : address[k] \in Address
  /\ allocated \in 0 .. MaxStores
  /\ length \in [BackingStore -> 0 .. MaxLength]
  /\ refs \in [Isolate -> SUBSET existing] /\ held \in [Isolate -> SUBSET existing]
  /\ memories \in [Isolate -> SUBSET existing]
  /\ map_ \in [Address -> BackingStore \cup {None}]
  /\ shadow \in [Address -> [store : BackingStore \cup {None}, length : 0 .. MaxLength]]
  /\ mutex_ \in Isolate \cup {None}
  /\ isolates_ \in [BackingStore -> SUBSET Isolate]
  /\ interrupt \subseteq Isolate /\ gone \subseteq Isolate

(* A store that is registered finds no entry of an earlier store at its    *)
(* address: the CHECK in Register holds, because the destructor takes the  *)
(* entry out before the pages can be given to another store.               *)
RegisterSucceeds == \A k \in existing : map_[address[k]] \in {None, k}

(* The shadow at an address is that of the store there, never one that an  *)
(* earlier store left, and the shadow an access has looked up is still     *)
(* there when it is recorded.                                              *)
ShadowOfItsStore ==
  /\ \A a \in Address : shadow[a] # NoShadow =>
       shadow[a].store \in existing /\ address[shadow[a].store] = a
  /\ \A i \in Isolate : At(i, "access") => shadow[address[Its(i)]].store = Its(i)

(* Every byte of a memory that is accessed has its cells: the shadow is as *)
(* long as the memory, also after it has grown.                            *)
ShadowCoversMemory ==
  \A i \in Isolate : At(i, "access") => shadow[address[Its(i)]].length >= length[Its(i)]

(* A broadcast asks no isolate that is gone: Purge takes the isolate out   *)
(* of the list of every store, also of those it refers to no longer.       *)
NobodyGoneIsListed == \A k \in existing : Referenced(k) => isolates_[k] \cap gone = {}

(* Whoever locks the registry unlocks it: "The destructor of the backing   *)
(* store may try to take the &impl->mutex_", and must not do so in Purge.  *)
MutexIsReleased == \A i \in Isolate : mutex_ = i ~> mutex_ # i

\* Isolate i runs with a length of k that is not the present one.
Stale(i, k) ==
  /\ pc[i][1] \notin {"purge", "purged", "teardown"}
  /\ instances[i][k] \notin {0, length[k]} \/ array_buffer[i][k] \notin {None, length[k]}

(* After a grow every isolate with instances or array buffers of the       *)
(* memory has the new length in the end, whatever it and other isolates do *)
(* between the exchange of the length and the broadcast.                   *)
GrownIsSeen == \A i \in Isolate, k \in BackingStore : Stale(i, k) ~> ~ Stale(i, k)

===============================================================================
