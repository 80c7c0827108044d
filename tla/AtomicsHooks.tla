----------------------------- MODULE AtomicsHooks -----------------------------
(***************************************************************************)
(* Where V8 calls the detector from an atomic operation.  An atomic is not *)
(* one step: the hook (a runtime call that ends in WebTSan::Acquire or     *)
(* Release) and the machine's atomic instruction are two, and other        *)
(* threads run between them.  JavaScript builtins call the hook before     *)
(* the instruction, Liftoff code after it.                                 *)
(*                                                                         *)
(* Each operation is the sequence of its steps.  The threads are live for  *)
(* the whole run.  The plain data that the atomics protect is one cell per *)
(* thread, of which only the epoch of the owner's last write is kept.      *)
(*                                                                         *)
(* History variables keep what the memory model orders: thread_hb the      *)
(* owners whose last write happens before a thread, value_hb those whose   *)
(* last write happens before the store of the value a location holds, and  *)
(* value_own those of them who made that store, or the stores that the     *)
(* read-modify-writes since then have extended.                            *)
(***************************************************************************)
EXTENDS VClocks, Sequences

CONSTANTS
  Location,          \* addresses of atomics
  Ops,               \* names of the operations the program uses
  ConversionWrites,  \* whether converting an argument may run code that writes
  MaxEpoch           \* bound: a thread ticks its clock up to this epoch

VARIABLES
  thread_clocks,  \* thread_clocks_ of the detector
  sync_clocks,    \* sync_clocks_ of the detector
  steps,          \* the steps each thread has left in its atomic operation
  at,             \* the location it works on
  data,           \* epoch of each owner's last plain write, 0 for none
  thread_hb, value_hb, value_own,                              \* history
  only_hand_off   \* history: the program has used no other operations than these

history == <<thread_hb, value_hb, value_own>>
vars == <<thread_clocks, sync_clocks, steps, at, data, history, only_hand_off>>

HandOff == {"store", "wasmLoad"}

-----------------------------------------------------------------------------
(* The operations.                                                         *)

\* JavaScript: the hook comes first.
AtomicsLoad == <<"acquire", "read">>
AtomicsStoreHookLast == <<"write", "release">>     \* mutant: hook after the store
AtomicsStore == <<"release", "write">>
\* Elements of 64 bits leave for the label u64 before the hook.
AtomicsStore64 == <<"write">>
\* The hook comes before the new value is converted, which may throw.
AtomicsExchange == <<"acquire", "release", "convert", "rmw">>
AtomicsCompareExchange == <<"acquire", "release", "convert", "cas">>
\* Atomics.add, sub, and, or, xor: no hook.
AtomicBinop == <<"rmw">>

\* Liftoff: TraceMemoryOperation comes last; its hook takes every store for a
\* read-modify-write.
WasmLoad == <<"read", "acquire">>
WasmStoreAsLoad == <<"write", "acquire">>     \* mutant: is_store is lost
WasmStore == <<"write", "acquire", "release">>
WasmBinop == <<"rmw", "acquire", "release">>
WasmCompareExchange == <<"cas", "acquire", "release">>

Operation ==
  [load |-> AtomicsLoad, store |-> AtomicsStore, store64 |-> AtomicsStore64,
   exchange |-> AtomicsExchange, compareExchange |-> AtomicsCompareExchange,
   add |-> AtomicBinop,
   wasmLoad |-> WasmLoad, wasmStore |-> WasmStore, wasmAdd |-> WasmBinop,
   wasmCompareExchange |-> WasmCompareExchange]

ASSUME OpsAssumption ==
  /\ Location # {}
  /\ Ops \subseteq DOMAIN Operation
  /\ ConversionWrites \in BOOLEAN
  /\ MaxEpoch \in Nat \ {0}

Step == {"acquire", "release", "read", "write", "rmw", "cas", "convert"}

Releases(s) == \E i \in 1 .. Len(s) : s[i] = "release"

Init ==
  /\ thread_clocks = [t \in Tid |-> Increment(ZeroClock, t)]
  /\ sync_clocks = [l \in Location |-> ZeroClock]
  /\ steps = [t \in Tid |-> <<>>]
  /\ at = [t \in Tid |-> CHOOSE l \in Location : TRUE]
  /\ data = [t \in Tid |-> 0]
  /\ thread_hb = [t \in Tid |-> {}]
  /\ value_hb = [l \in Location |-> {}]
  /\ value_own = [l \in Location |-> {}]
  /\ only_hand_off = TRUE

\* t's next step is s, and it takes it.
Does(t, s) ==
  /\ steps[t] # <<>> /\ Head(steps[t]) = s
  /\ steps' = [steps EXCEPT ![t] = Tail(@)]

Begin(t, op, l) ==
  /\ steps[t] = <<>>
  /\ Releases(Operation[op]) => thread_clocks[t][t] < MaxEpoch
  /\ steps' = [steps EXCEPT ![t] = Operation[op]]
  /\ at' = [at EXCEPT ![t] = l]
  /\ only_hand_off' = (only_hand_off /\ op \in HandOff)
  /\ UNCHANGED <<thread_clocks, sync_clocks, data, history>>

\* WebTSan::Acquire and WebTSan::Release, each under thread_lock_.
Acquire(t) ==
  /\ Does(t, "acquire")
  /\ thread_clocks' = [thread_clocks EXCEPT ![t] = Join(@, sync_clocks[at[t]])]
  /\ UNCHANGED <<sync_clocks, at, data, history, only_hand_off>>

Release(t) ==
  /\ Does(t, "release")
  /\ sync_clocks' = [sync_clocks EXCEPT ![at[t]] = Join(@, thread_clocks[t])]
  /\ thread_clocks' = [thread_clocks EXCEPT ![t] = Increment(@, t)]
  /\ UNCHANGED <<at, data, history, only_hand_off>>

\* The machine's instruction reads the location, writes it, or does both.
Sees(t) == thread_hb' = [thread_hb EXCEPT ![t] = @ \cup value_hb[at[t]]]
Stores(t, before, own) ==
  /\ value_hb' = [value_hb EXCEPT ![at[t]] = before \cup thread_hb[t]]
  /\ value_own' = [value_own EXCEPT ![at[t]] = own \cup (thread_hb[t] \cap {t})]

Read(t) ==
  /\ Does(t, "read") \/ Does(t, "cas")
  /\ Sees(t)
  /\ UNCHANGED <<thread_clocks, sync_clocks, at, data, value_hb, value_own, only_hand_off>>

Write(t) ==
  /\ Does(t, "write")
  /\ Stores(t, {}, {})
  /\ UNCHANGED <<thread_clocks, sync_clocks, at, data, thread_hb, only_hand_off>>

ReadModifyWrite(t) ==
  /\ Does(t, "rmw") \/ Does(t, "cas")
  /\ Sees(t)
  /\ Stores(t, value_hb[at[t]], value_own[at[t]])
  /\ UNCHANGED <<thread_clocks, sync_clocks, at, data, only_hand_off>>

\* The conversion of an argument returns, or throws.
Convert(t) ==
  /\ steps[t] # <<>> /\ Head(steps[t]) = "convert"
  /\ \E rest \in {Tail(steps[t]), <<>>} : steps' = [steps EXCEPT ![t] = rest]
  /\ UNCHANGED <<thread_clocks, sync_clocks, at, data, history, only_hand_off>>

\* A plain write of t's own cell, outside an atomic or in a conversion.
WriteData(t) ==
  /\ steps[t] # <<>> => ConversionWrites /\ Head(steps[t]) = "convert"
  /\ data' = [data EXCEPT ![t] = thread_clocks[t][t]]
  /\ thread_hb' = [u \in Tid |-> IF u = t THEN thread_hb[u] \cup {t}
                                          ELSE thread_hb[u] \ {t}]
  /\ value_hb' = [l \in Location |-> value_hb[l] \ {t}]
  /\ value_own' = [l \in Location |-> value_own[l] \ {t}]
  /\ UNCHANGED <<thread_clocks, sync_clocks, steps, at, only_hand_off>>

Next ==
  \E t \in Tid :
    \/ \E op \in Ops, l \in Location : Begin(t, op, l)
    \/ Acquire(t) \/ Release(t)
    \/ Read(t) \/ Write(t) \/ ReadModifyWrite(t)
    \/ Convert(t) \/ WriteData(t)

Spec == Init /\ [][Next]_vars

-----------------------------------------------------------------------------
(* Correctness.                                                            *)

(* Clocks, histories and the steps left of an operation are what they      *)
(* should be, and no clock of a thread ticks past the bound.               *)
TypeOK ==
  /\ thread_clocks \in [Tid -> [Tid -> 0 .. MaxEpoch]]
  /\ sync_clocks \in [Location -> [Tid -> 0 .. MaxEpoch]]
  /\ steps \in [Tid -> Seq(Step)]
  /\ at \in [Tid -> Location]
  /\ data \in [Tid -> 0 .. MaxEpoch]
  /\ thread_hb \in [Tid -> SUBSET Tid]
  /\ value_hb \in [Location -> SUBSET Tid]
  /\ value_own \in [Location -> SUBSET Tid]

\* What the value a thread has read orders before the thread is in the thread's
\* clock when its operation is over, so its next plain access reports none of it.
SynchronizedIsOrdered ==
  \A t \in Tid : steps[t] = <<>> =>
    \A u \in thread_hb[t] : data[u] <= thread_clocks[t][u]

(* Hand-off from Atomics.store in JavaScript to atomic loads in Wasm: the  *)
(* hooks are on the right sides of the two instructions, so a reader has   *)
(* synchronised with whatever it has seen, over any chain of locations.    *)
HandOffIsOrdered == only_hand_off => SynchronizedIsOrdered

(* The clock a location has in the detector covers what the makers of its  *)
(* value wrote before they stored it, whenever no thread is between a      *)
(* store and the hook that follows it: a load that starts now acquires it. *)
SettledIsPublished ==
  \A l \in Location :
    (\A t \in Tid : at[t] = l => steps[t] \notin {<<"acquire", "release">>,
                                                 <<"release">>})
    => \A u \in value_own[l] : data[u] <= sync_clocks[l][u]

=============================================================================
