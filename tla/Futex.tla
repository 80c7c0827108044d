-------------------------------- MODULE Futex --------------------------------
(***************************************************************************)
(* The futexes behind Atomics.wait, waitAsync and notify and their Wasm    *)
(* forms: futex-emulation.cc, with the detector's hooks.                   *)
(*                                                                         *)
(* A thread is one isolate and has one node of its own, which it waits     *)
(* with in Wait; WaitAsync allocates a node per call.  All lists are       *)
(* protected by one mutex, and an action is one critical section of it, or *)
(* one step of the code between two.                                       *)
(*                                                                         *)
(* A thread sleeps on its node's condition variable until it is signalled  *)
(* or its time is up; a spurious wake-up finds nothing changed and sleeps  *)
(* again, which is a stuttering step.  The value of a word is abstracted   *)
(* to whether it is the expected one, which is a choice, and time to       *)
(* whether the time of a wait is up, which may happen at any moment.       *)
(*                                                                         *)
(* History: woken_by keeps which notify has counted a node, and ended what *)
(* the wait came to that ended in the last step.                           *)
(***************************************************************************)
EXTENDS VClocks, Sequences, FiniteSets

CONSTANTS
  AsyncNode,      \* nodes that WaitAsync can allocate
  Location,       \* wait locations in shared memory
  MaxEpoch,       \* bound: a thread ticks its clock up to this epoch
  MaxGen,         \* bound: backing stores that follow each other at an address
  MaxInterrupts   \* bound: interrupts that are requested of threads

Node == Tid \cup AsyncNode

ASSUME FutexAssumption ==
  /\ AsyncNode \subseteq Int \ Tid /\ IsFiniteSet(AsyncNode)
  /\ MaxEpoch \in Nat \ {0} /\ MaxGen \in Nat /\ MaxInterrupts \in Nat

VARIABLES
  gen,             \* which backing store is at each location
  location_lists,  \* location_lists_
  to_resolve,      \* isolate_promises_to_resolve_
  waiting,         \* the nodes with waiting_
  timeout_time,    \* the nodes with a timeout_time that is not null
  interrupted,     \* the threads whose node has interrupted_
  async,           \* the allocated asynchronous nodes: isolate, location, store
  cleanup,         \* those with waiting_for_main_thread_cleanup
  timeout_tasks,   \* the AsyncWaiterTimeoutTasks posted, by the node they point to
  resolve_tasks,   \* the isolates with a posted ResolveAsyncWaiterPromisesTask
  signalled,       \* the threads whose condition variable has been notified
  interrupts,      \* how many interrupts have been requested
  pc,              \* what each thread is doing, and where
  todo,            \* the nodes ResolveAsyncWaiterPromises still has to resolve
  deinit,          \* the isolates that are gone
  thread_clocks, sync_clocks,        \* of the detector
  woken_by, ended                    \* history

listVars == <<location_lists, to_resolve, waiting, timeout_time, woken_by>>
asyncVars == <<async, cleanup>>
taskVars == <<timeout_tasks, resolve_tasks, todo>>
signalVars == <<interrupted, signalled, interrupts>>
clockVars == <<thread_clocks, sync_clocks>>
vars == <<gen, listVars, asyncVars, taskVars, signalVars, pc, deinit, clockVars, ended>>

live == DOMAIN async
IdlePc == <<"idle">>
Idle(t) == pc[t] = IdlePc /\ t \notin deinit
NotCounted == <<>>
NothingEnded == [result |-> "none"]

Init ==
  /\ gen = [l \in Location |-> 0]
  /\ location_lists = [l \in Location |-> <<>>]
  /\ to_resolve = [t \in Tid |-> <<>>]
  /\ waiting = {} /\ timeout_time = {}
  /\ async = <<>> /\ cleanup = {}
  /\ timeout_tasks = {} /\ resolve_tasks = {}
  /\ todo = [t \in Tid |-> <<>>]
  /\ interrupted = {} /\ signalled = {} /\ interrupts = 0
  /\ pc = [t \in Tid |-> IdlePc]
  /\ deinit = {}
  /\ thread_clocks = [t \in Tid |-> Increment(ZeroClock, t)]
  /\ sync_clocks = [l \in Location |-> ZeroClock]
  /\ woken_by = [n \in Node |-> NotCounted]
  /\ ended = NothingEnded

\* wait_location_ of a node on a list.
At(n) == IF n \in Tid THEN pc[n][2] ELSE async[n].location

\* The nodes of a list; those of them that are in S, or not in S, in their order.
Nodes(s) == {s[i] : i \in 1 .. Len(s)}
KeptUpTo(s, S) ==
  LET f[i \in 0 .. Len(s)] ==
        IF i = 0 THEN <<>> ELSE IF s[i] \in S THEN Append(f[i - 1], s[i]) ELSE f[i - 1]
  IN f
Kept(s, S) == KeptUpTo(s, S)[Len(s)]
Without(s, S) == Kept(s, Nodes(s) \ S)
RemoveNode(n) == [location_lists EXCEPT ![At(n)] = Without(@, {n})]

\* The hook OnAtomicsWaitComplete: Acquire of the location.
NoAcquire(t, l) == UNCHANGED clockVars      \* mutant: the hook is missing
WaitComplete(t, l) ==
  /\ thread_clocks' = [thread_clocks EXCEPT ![t] = Join(@, sync_clocks[l])]
  /\ UNCHANGED sync_clocks

\* The wait of node n, by thread t, comes to its end.
Ends(n, t, result) ==
  /\ ended' = [result |-> result, thread |-> t, by |-> woken_by[n]]
  /\ woken_by' = [woken_by EXCEPT ![n] = NotCounted]

NothingEnds == ended' = NothingEnded

-----------------------------------------------------------------------------
(* Synchronous waits: WaitSync and WaitSyncImpl.                           *)

WaitNotEqual(t, l) ==
  /\ Idle(t)
  /\ WaitComplete(t, l)
  /\ Ends(t, t, "not-equal")
  /\ UNCHANGED <<gen, location_lists, to_resolve, waiting, timeout_time, asyncVars,
                 taskVars, signalVars, pc, deinit>>

\* Up to the first time that the mutex is unlocked.
WaitSync(t, l, use_timeout) ==
  /\ Idle(t)
  /\ waiting' = waiting \cup {t}
  /\ location_lists' = [location_lists EXCEPT ![l] = Append(@, t)]
  /\ timeout_time' = IF use_timeout THEN timeout_time \cup {t} ELSE timeout_time
  /\ pc' = [pc EXCEPT ![t] = <<IF t \in interrupted THEN "interrupts" ELSE "asleep", l>>]
  /\ interrupted' = interrupted \ {t}
  /\ signalled' = signalled \ {t}
  /\ NothingEnds
  /\ UNCHANGED <<gen, to_resolve, woken_by, asyncVars, taskVars, interrupts, deinit,
                 clockVars>>

Leave(t, result) ==
  /\ waiting' = waiting \ {t}
  /\ location_lists' = RemoveNode(t)
  /\ timeout_time' = timeout_time \ {t}
  /\ pc' = [pc EXCEPT ![t] = IdlePc]
  /\ WaitComplete(t, At(t))
  /\ Ends(t, t, result)

Goto(t, place) ==
  /\ pc' = [pc EXCEPT ![t] = <<place, At(t)>>]
  /\ NothingEnds
  /\ UNCHANGED <<waiting, location_lists, timeout_time, woken_by, clockVars>>

\* The loop of WaitSyncImpl from where the mutex is locked again up to the next
\* unlock.
Interrupted(t) ==
  t \in interrupted /\ interrupted' = interrupted \ {t} /\ Goto(t, "interrupts")

LoopForgetsWake(t) ==       \* mutant: after an interrupt no look at waiting_
  \/ Interrupted(t)
  \/ /\ t \notin interrupted /\ UNCHANGED interrupted
     /\ IF pc[t][1] = "interrupts" THEN Goto(t, "asleep")
        ELSE IF t \notin waiting THEN Leave(t, "ok")
        ELSE Goto(t, "asleep") \/ (t \in timeout_time /\ Leave(t, "timed-out"))
LoopTimesOutFirst(t) ==     \* mutant: the time is looked at before waiting_
  \/ Interrupted(t)
  \/ /\ t \notin interrupted /\ UNCHANGED interrupted
     /\ \/ t \in timeout_time /\ Leave(t, "timed-out")
        \/ IF t \notin waiting THEN Leave(t, "ok") ELSE Goto(t, "asleep")
Loop(t) ==
  \/ Interrupted(t)
  \/ /\ t \notin interrupted /\ UNCHANGED interrupted
     /\ IF t \notin waiting THEN Leave(t, "ok")
        ELSE Goto(t, "asleep") \/ (t \in timeout_time /\ Leave(t, "timed-out"))

WakeUp(t) ==
  /\ pc[t][1] = "asleep"
  /\ t \in signalled \cup timeout_time
  /\ signalled' = signalled \ {t}
  /\ Loop(t)
  /\ UNCHANGED <<gen, to_resolve, asyncVars, taskVars, interrupts, deinit>>

\* HandleInterrupts returns, and the mutex is locked again.
InterruptsHandled(t) ==
  /\ pc[t][1] = "interrupts"
  /\ Loop(t)
  /\ UNCHANGED <<gen, to_resolve, asyncVars, taskVars, signalled, interrupts, deinit>>

InterruptThrows(t) ==
  /\ pc[t][1] = "interrupts"
  /\ Leave(t, "exception")
  /\ UNCHANGED <<gen, to_resolve, asyncVars, taskVars, signalVars, deinit>>

\* NotifyWake, by any thread that wants t to handle an interrupt.
NotifyWake(t) ==
  /\ t \notin deinit /\ interrupts < MaxInterrupts
  /\ interrupts' = interrupts + 1
  /\ interrupted' = interrupted \cup {t}
  /\ signalled' = signalled \cup (IF pc[t][1] = "asleep" THEN {t} ELSE {})
  /\ NothingEnds
  /\ UNCHANGED <<gen, listVars, asyncVars, taskVars, pc, deinit, clockVars>>

-----------------------------------------------------------------------------
(* Asynchronous waits.                                                     *)

\* The critical section of WaitAsync.  With a value that differs or a timeout of
\* zero it returns with no node, no hook and no effect.
WaitAsync(t, l, use_timeout) ==
  \E n \in AsyncNode \ live :
    /\ \A m \in AsyncNode \ live : n <= m
    /\ Idle(t)
    /\ async' = [m \in live \cup {n} |->
                   IF m = n THEN [isolate |-> t, location |-> l, store |-> gen[l]]
                            ELSE async[m]]
    /\ waiting' = waiting \cup {n}
    /\ location_lists' = [location_lists EXCEPT ![l] = Append(@, n)]
    /\ timeout_time' = IF use_timeout THEN timeout_time \cup {n} ELSE timeout_time
    /\ timeout_tasks' = IF use_timeout THEN timeout_tasks \cup {n} ELSE timeout_tasks
    /\ NothingEnds
    /\ UNCHANGED <<gen, to_resolve, woken_by, cleanup, resolve_tasks, todo, signalVars,
                   pc, deinit, clockVars>>

\* The nodes of S are deleted.
Delete(S) ==
  /\ async' = [n \in live \ S |-> async[n]]
  /\ cleanup' = cleanup \ S
  /\ timeout_time' = timeout_time \ S

\* ResolveAsyncWaiterPromise, CleanupAsyncWaiterPromise, delete: the promise is
\* resolved, unless it is not wanted any more or has died with its context.
Resolve(n) ==
  /\ \E result \in {"dropped", IF n \in timeout_time THEN "timed-out" ELSE "ok"} :
       /\ n \in cleanup => result = "dropped"
       /\ Ends(n, async[n].isolate, result)
  /\ Delete({n})

\* ResolveAsyncWaiterPromises takes the isolate's list ...
ResolvePromises(t) ==
  /\ Idle(t) /\ t \in resolve_tasks
  /\ resolve_tasks' = resolve_tasks \ {t}
  /\ to_resolve' = [to_resolve EXCEPT ![t] = <<>>]
  /\ todo' = [todo EXCEPT ![t] = to_resolve[t]]
  /\ pc' = [pc EXCEPT ![t] = <<"resolving">>]
  /\ NothingEnds
  /\ UNCHANGED <<gen, location_lists, waiting, timeout_time, woken_by, asyncVars,
                 timeout_tasks, signalVars, deinit, clockVars>>

\* ... and resolves its promises one by one, without the mutex.
ResolveNext(t) ==
  /\ pc[t][1] = "resolving"
  /\ LET n == Head(todo[t]) IN
     /\ WaitComplete(t, At(n))
     /\ timeout_tasks' = timeout_tasks \ {n}
     /\ Resolve(n)
  /\ todo' = [todo EXCEPT ![t] = Tail(@)]
  /\ pc' = [pc EXCEPT ![t] = IF Tail(todo[t]) = <<>> THEN IdlePc ELSE @]
  /\ UNCHANGED <<gen, location_lists, to_resolve, waiting, resolve_tasks, signalVars,
                 deinit>>

\* HandleAsyncWaiterTimeout.
TimeoutIgnoresWake(n) ==       \* mutant: no look at waiting_
  /\ n \in timeout_tasks /\ Idle(async[n].isolate)
  /\ timeout_tasks' = timeout_tasks \ {n}
  /\ location_lists' = RemoveNode(n)
  /\ waiting' = waiting \ {n}
  /\ Resolve(n)
  /\ UNCHANGED <<gen, to_resolve, resolve_tasks, todo, signalVars, pc, deinit, clockVars>>
AsyncWaiterTimeout(n) ==
  /\ n \in timeout_tasks /\ Idle(async[n].isolate)
  /\ timeout_tasks' = timeout_tasks \ {n}
  /\ IF n \in waiting
     THEN /\ location_lists' = RemoveNode(n)
          /\ waiting' = waiting \ {n}
          /\ Resolve(n)
     ELSE /\ NothingEnds
          /\ UNCHANGED <<location_lists, waiting, timeout_time, woken_by, asyncVars>>
  /\ UNCHANGED <<gen, to_resolve, resolve_tasks, todo, signalVars, pc, deinit, clockVars>>

-----------------------------------------------------------------------------
(* Notify.                                                                 *)

\* The hook OnAtomicsNotify, before the mutex: Release of the location.
Notify(t, l, count) ==
  /\ Idle(t)
  /\ thread_clocks[t][t] < MaxEpoch
  /\ pc' = [pc EXCEPT ![t] = <<"notify", l, count, thread_clocks[t][t]>>]
  /\ sync_clocks' = [sync_clocks EXCEPT ![l] = Join(@, thread_clocks[t])]
  /\ thread_clocks' = [thread_clocks EXCEPT ![t] = Increment(@, t)]
  /\ NothingEnds
  /\ UNCHANGED <<gen, listVars, asyncVars, taskVars, signalVars, deinit>>

\* Positions of l's list: the waiters; those whose backing store is gone; and of
\* these those that have no timeout either.
Waiters(l) == {i \in 1 .. Len(location_lists[l]) : location_lists[l][i] \in waiting}
Expired(l) == {i \in Waiters(l) :
  LET n == location_lists[l][i] IN n \in AsyncNode /\ async[n].store # gen[l]}
Stale(l) == {i \in Expired(l) : location_lists[l][i] \notin timeout_time}

ReachedNewestFirst(l, count) ==     \* mutant: from the tail of the list
  {i \in Waiters(l) :
     /\ \A j \in Stale(l) : i <= j
     /\ Cardinality({j \in Waiters(l) \ Expired(l) : j > i}) < count}
\* The positions the loop of Wake acts on.  It ends when count waiters have been
\* woken, and behind a stale node, whose next_ NotifyAsyncWaiter has reset.
Reached(l, count) ==
  {i \in Waiters(l) :
     /\ \A j \in Stale(l) : i <= j
     /\ Cardinality({j \in Waiters(l) \ Expired(l) : j < i}) < count}

\* NotifyAsyncWaiter for the asynchronous nodes among S, in the order of l's list.
Queued(l, S, t) ==
  Kept(location_lists[l], {n \in S \cap AsyncNode : async[n].isolate = t})

NotifyKeepsNode(l, S) ==            \* mutant: the node stays on its list
  /\ timeout_time' = timeout_time \ (S \cap AsyncNode)
  /\ to_resolve' = [t \in Tid |-> to_resolve[t] \o Queued(l, S, t)]
  /\ resolve_tasks' = resolve_tasks \cup {t \in Tid : Queued(l, S, t) # <<>>}
  /\ UNCHANGED location_lists
NotifyAsyncWaiters(l, S) ==
  /\ timeout_time' = timeout_time \ (S \cap AsyncNode)
  /\ location_lists' = [location_lists EXCEPT ![l] = Without(@, S \cap AsyncNode)]
  /\ to_resolve' = [t \in Tid |-> to_resolve[t] \o Queued(l, S, t)]
  /\ resolve_tasks' = resolve_tasks \cup {t \in Tid : Queued(l, S, t) # <<>>}

\* The critical section of Wake.
WakeKeepsStaleWaiting(t, l, count, epoch) ==     \* mutant: waiting_ stays set
  LET acted == {location_lists[l][i] : i \in Reached(l, count) \ (Expired(l) \ Stale(l))}
      stale == {location_lists[l][i] : i \in Reached(l, count) \cap Stale(l)}
      woken == acted \ stale
  IN
  /\ waiting' = waiting \ woken
  /\ cleanup' = cleanup \cup stale
  /\ NotifyAsyncWaiters(l, acted)
  /\ signalled' = signalled \cup {u \in woken \cap Tid : pc[u][1] = "asleep"}
  /\ woken_by' = [n \in Node |-> IF n \in woken THEN <<t, epoch>> ELSE woken_by[n]]
WakeLocation(t, l, count, epoch) ==
  LET acted == {location_lists[l][i] : i \in Reached(l, count) \ (Expired(l) \ Stale(l))}
      stale == {location_lists[l][i] : i \in Reached(l, count) \cap Stale(l)}
      woken == acted \ stale
  IN
  /\ waiting' = waiting \ acted
  /\ cleanup' = cleanup \cup stale
  /\ NotifyAsyncWaiters(l, acted)
  /\ signalled' = signalled \cup {u \in woken \cap Tid : pc[u][1] = "asleep"}
  /\ woken_by' = [n \in Node |-> IF n \in woken THEN <<t, epoch>> ELSE woken_by[n]]

Wake(t) ==
  /\ pc[t][1] = "notify"
  /\ WakeLocation(t, pc[t][2], pc[t][3], pc[t][4])
  /\ pc' = [pc EXCEPT ![t] = IdlePc]
  /\ NothingEnds
  /\ UNCHANGED <<gen, async, timeout_tasks, todo, interrupted, interrupts,
                 deinit, clockVars>>

-----------------------------------------------------------------------------
(* The rest of the program.                                                *)

\* The backing store at l is freed and another one allocated there.  A thread
\* in a wait or notify keeps the store alive, an asynchronous waiter does not.
Reallocate(l) ==
  /\ gen[l] < MaxGen
  /\ \A t \in Tid : Len(pc[t]) > 1 => pc[t][2] # l
  /\ gen' = [gen EXCEPT ![l] = @ + 1]
  /\ NothingEnds
  /\ UNCHANGED <<listVars, asyncVars, taskVars, signalVars, pc, deinit, clockVars>>

\* IsolateDeinit deletes the isolate's asynchronous nodes from the lists of
\* both kinds; Isolate::Deinit cancels its tasks.
IsolateDeinit(t) ==
  LET mine == {n \in live : async[n].isolate = t} IN
  /\ Idle(t)
  /\ deinit' = deinit \cup {t}
  /\ location_lists' = [l \in Location |-> Without(location_lists[l], mine)]
  /\ to_resolve' = [to_resolve EXCEPT ![t] = <<>>]
  /\ waiting' = waiting \ mine
  /\ Delete(mine)
  /\ timeout_tasks' = timeout_tasks \ mine
  /\ resolve_tasks' = resolve_tasks \ {t}
  /\ woken_by' = [n \in Node |-> IF n \in mine THEN NotCounted ELSE woken_by[n]]
  /\ NothingEnds
  /\ UNCHANGED <<gen, todo, signalVars, pc, clockVars>>

Next ==
  \/ \E t \in Tid, l \in Location :
       \/ WaitNotEqual(t, l)
       \/ \E use_timeout \in BOOLEAN :
            WaitSync(t, l, use_timeout) \/ WaitAsync(t, l, use_timeout)
       \/ \E count \in {1, Cardinality(Node)} : Notify(t, l, count)
  \/ \E t \in Tid :
       \/ WakeUp(t) \/ InterruptsHandled(t) \/ InterruptThrows(t) \/ NotifyWake(t)
       \/ ResolvePromises(t) \/ ResolveNext(t)
       \/ Wake(t) \/ IsolateDeinit(t)
  \/ \E n \in AsyncNode : AsyncWaiterTimeout(n)
  \/ \E l \in Location : Reallocate(l)

\* A thread goes on from where it is: it has been signalled or its time is up,
\* it has handled its interrupts, it notifies, or it resolves promises.
Proceed(t) ==
  \/ WakeUp(t) /\ (t \in signalled \/ pc'[t][1] # "asleep")
  \/ InterruptsHandled(t) \/ Wake(t) \/ ResolveNext(t)

(* A thread that can take the mutex takes it in the end.  An event loop    *)
(* gets to every task posted to it, although it may run others before.     *)
Fairness ==
  /\ \A t \in Tid : WF_vars(Proceed(t)) /\ SF_vars(ResolvePromises(t))
  /\ \A n \in AsyncNode : SF_vars(AsyncWaiterTimeout(n))

Spec == Init /\ [][Next]_vars /\ Fairness

-----------------------------------------------------------------------------
(* Correctness.                                                            *)

(* Clocks and lists keep their types, and all flags are those of nodes.    *)
TypeOK ==
  /\ gen \in [Location -> 0 .. MaxGen]
  /\ location_lists \in [Location -> Seq(Node)]
  /\ to_resolve \in [Tid -> Seq(AsyncNode)] /\ todo \in [Tid -> Seq(AsyncNode)]
  /\ waiting \subseteq Node /\ timeout_time \subseteq Tid \cup live
  /\ interrupted \subseteq Tid /\ signalled \subseteq Tid /\ deinit \subseteq Tid
  /\ live \subseteq AsyncNode
  /\ \A n \in live : async[n] \in [isolate : Tid, location : Location, store : Nat]
  /\ cleanup \subseteq live \ waiting
  /\ resolve_tasks \subseteq Tid /\ interrupts \in 0 .. MaxInterrupts
  /\ \A t \in Tid : pc[t][1] \in {"idle", "asleep", "interrupts", "resolving", "notify"}
  /\ thread_clocks \in [Tid -> VClock] /\ sync_clocks \in [Location -> VClock]

\* The threads that have n among the promises to resolve.
QueuedBy(n) == {t \in Tid : n \in Nodes(to_resolve[t]) \cup Nodes(todo[t])}

(* An asynchronous node is owned by exactly one list: it waits on that of  *)
(* its location, or its isolate has it among the promises to resolve, for  *)
(* which a task is posted (AddNode, NotifyAsyncWaiter, RemoveNode).        *)
OwnedByOneList ==
  /\ \A n \in live :
       /\ (n \in Nodes(location_lists[At(n)])) = (n \in waiting)
       /\ QueuedBy(n) = IF n \in waiting THEN {} ELSE {async[n].isolate}
  /\ \A t \in Tid : (to_resolve[t] # <<>>) = (t \in resolve_tasks)

(* No list and no task refers to a node that has been deleted, though the  *)
(* timeout task holds a raw pointer and races with a notify, with the task *)
(* that resolves the promise and with the end of the isolate.              *)
NoDanglingNode ==
  /\ \A l \in Location : Nodes(location_lists[l]) \subseteq Tid \cup live
  /\ \A t \in Tid : Nodes(to_resolve[t]) \cup Nodes(todo[t]) \subseteq live
  /\ timeout_tasks \subseteq live

(* A waiter that a notify has counted never comes to "timed-out", however  *)
(* its timeout, an interrupt and the notify interleave, and only a waiter  *)
(* that a notify has counted comes to "ok".                                *)
CountedIsWoken ==
  /\ ended.result = "ok" => ended.by # NotCounted
  /\ ended.result \in {"timed-out", "not-equal"} => ended.by = NotCounted

(* What a thread does after its wait on shared memory came to "ok" is      *)
(* ordered after what the notifying thread did before its notify: the hook *)
(* of Wake publishes before the waiter can return and acquire.             *)
WokenIsOrdered ==
  ended.result = "ok" =>
    ended.by[2] <= thread_clocks[ended.thread][ended.by[1]]

\* The state of WaiterLists.
WaitsAt == [n \in waiting |-> At(n)]
InOrder(s) ==
  {p \in Nodes(s) \X Nodes(s) :
     \E i, j \in 1 .. Len(s) : i < j /\ s[i] = p[1] /\ s[j] = p[2]}
Earlier == {p \in waiting \X waiting : \E l \in Location : p \in InOrder(location_lists[l])}
Orphans == {n \in waiting \cap live : async[n].store # gen[async[n].location]}
Notified == {n \in Node : woken_by[n] # NotCounted}
Asked == [t \in Tid |-> IF pc[t][1] = "notify" THEN <<pc[t][2], pc[t][3]>> ELSE <<>>]
Answer == IF ended.result \in {"ok", "timed-out"} THEN ended.result ELSE "none"

(* Whoever waits longest is woken first: however waits, timeouts, ends of  *)
(* isolates and notifies of many threads interleave, and although a woken  *)
(* thread stays on its list until it runs, every notify takes effect at    *)
(* one moment, wakes the longest waiting and not more than it was asked to,*)
(* and fewer only when nobody else waits, or when it has met a waiter      *)
(* whose memory is gone (Wake, AddNode, RemoveNode).                       *)
Lists == INSTANCE WaiterLists
  WITH Thread <- Tid, Waiter <- Node, Counts <- {1, Cardinality(Node)},
       place <- WaitsAt, earlier <- Earlier, orphans <- Orphans,
       notified <- Notified, asked <- Asked, answer <- Answer
WokenInOrder == Lists!Spec

\* The tasks of an asynchronous wait cannot run while its thread sleeps.
OwnerSleeps(n) == n \in live /\ pc[async[n].isolate][1] = "asleep"

\* Node n has been counted by a notify, or its wait has a timeout.
Due(n) == woken_by[n] # NotCounted \/ n \in timeout_time

(* A wait that has to end ends: whoever is counted by a notify returns, no *)
(* signal is lost between the look at the flags and the sleep, a timeout   *)
(* takes effect, and every promise that was handed over is resolved,       *)
(* unless its own thread sleeps.                                           *)
DueWaitEnds == \A n \in Node : Due(n) ~> ~ Due(n) \/ OwnerSleeps(n)

=============================================================================
