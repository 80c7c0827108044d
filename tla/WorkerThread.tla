---------------------------- MODULE WorkerThread ----------------------------
(***************************************************************************)
(* The start and the termination of workers, worker_thread.cc, with the    *)
(* points where a worker gets and gives up its thread slot in the detector.*)
(*                                                                         *)
(* The main thread owns workers, and a worker owns nested ones; whoever    *)
(* owns a worker starts and terminates it from its own thread.  A thread   *)
(* runs one task at a time.  A step is a critical section of lock_, or the *)
(* posting of a task.  The script of a worker may run for ever, unless it  *)
(* is terminated.  A worker that is frozen runs a nested event loop, out of*)
(* an interrupt of its script or out of a task, and the tasks that start   *)
(* its termination run in there.  A worker is frozen at most once; the     *)
(* debugger and the inspector are left out.                                *)
(*                                                                         *)
(* The messaging proxy's part is that the owner terminates a worker that   *)
(* has closed itself, deletes one that has ended, and passes on that it is *)
(* frozen itself.                                                          *)
(***************************************************************************)
EXTENDS Integers, Sequences, FiniteSets

CONSTANTS
  Main,
  Worker,
  Parent(_),    \* who owns a worker
  MaxScripts,   \* bound: the scripts a worker runs
  MayFreeze,    \* bound: the workers that are frozen, each at most once
  MayClose      \* bound: the workers whose scripts call close()

Thread == Worker \cup {Main}

ASSUME ParentAssumption ==
  /\ Main \notin Worker
  /\ \A w \in Worker : Parent(w) \in Thread \ {w}
  /\ MaxScripts \in Nat /\ MayFreeze \subseteq Worker /\ MayClose \subseteq Worker

VARIABLES
  tasks,                  \* the queue of each backing thread
  reports,                \* what workers have posted to the proxies of their owners
  initialized,            \* worker_task_runners_initialized_
  thread_state,           \* thread_state_
  termination_progress,   \* termination_progress_
  exit_code,              \* exit_code_
  child_threads,          \* child_threads_, as large as num_child_threads_
  timer,                  \* forcible_termination_task_handle_ is active
  interrupted,            \* script execution has been terminated
  registered,             \* the workers with a slot in the detector
  started,                \* the workers that have been started
  deleted,                \* those whose WorkerThread is deleted
  closing,                \* closing_, set by the close() of a script
  scripts,                \* the number of scripts each has run
  frozen,                 \* those that have been frozen
  resumed,                \* those that have been resumed
  pending_interrupts,     \* those whose freezing has not been carried out yet
  nested,                 \* what the nested event loop of each returns to
  quit,                   \* nested_runner_->QuitNow() has been called
  pc                      \* what each thread runs

queueVars == <<tasks, reports>>
lockVars == <<thread_state, termination_progress, exit_code, child_threads>>
endVars == <<timer, interrupted>>
lifeVars == <<registered, started, deleted, closing, scripts>>
freezeVars == <<frozen, resumed, pending_interrupts, nested, quit>>
vars == <<queueVars, initialized, lockVars, endVars, lifeVars, freezeVars, pc>>

\* What a thread runs: its place, the worker it is terminating, the children it
\* has still to terminate, and where it goes on afterwards.
At(place) == [at |-> place, child |-> Main, rest |-> {}, then |-> "idle"]
IdlePc == At("idle")
Goto(t, place) == pc' = [pc EXCEPT ![t] = At(place)]

\* A worker looks at its state at the end of a task.
TaskEnd(t) == IF t = Main THEN "idle" ELSE "did process task"
Post(queues, t, task) == [queues EXCEPT ![t] = Append(@, task)]
PostAll(threads, task) ==
  tasks' = [t \in Thread |-> IF t \in threads THEN Append(tasks[t], task) ELSE tasks[t]]
Report(kind, child) == [kind |-> kind, child |-> child]

Init ==
  /\ tasks = [t \in Thread |-> <<>>] /\ reports = [t \in Thread |-> <<>>]
  /\ initialized = {}
  /\ thread_state = [w \in Worker |-> "NotStarted"]
  /\ termination_progress = [w \in Worker |-> "NotRequested"]
  /\ exit_code = [w \in Worker |-> "NotTerminated"]
  /\ child_threads = [t \in Thread |-> {}]
  /\ timer = {} /\ interrupted = {}
  /\ registered = {} /\ started = {} /\ deleted = {} /\ closing = {}
  /\ scripts = [w \in Worker |-> 0]
  /\ frozen = {} /\ resumed = {} /\ pending_interrupts = {} /\ quit = {}
  /\ nested = [w \in Worker |-> "none"]
  /\ pc = [t \in Thread |-> IdlePc]

-----------------------------------------------------------------------------
(* Starting.                                                               *)

\* The main thread is always free to; a worker does it from its script.
CallsFrom(t) == pc[t].at = (IF t = Main THEN "idle" ELSE "script")

\* ChildThreadStartedOnWorkerThread refuses a child once the worker has been
\* requested to terminate, and a script whose context is gone has no new workers;
\* Start posts the initialization.
Start(w) ==
  LET u == Parent(w) IN
  /\ CallsFrom(u) /\ w \notin started
  /\ u # Main => termination_progress[u] = "NotRequested" /\ thread_state[u] = "Running"
  /\ started' = started \cup {w}
  /\ child_threads' = [child_threads EXCEPT ![u] = @ \cup {w}]
  /\ PostAll({w}, "initialize")
  /\ UNCHANGED <<reports, initialized, thread_state, termination_progress, exit_code, endVars,
                 registered, deleted, closing, scripts, freezeVars, pc>>

\* A thread is between two tasks, of its own or of its nested event loop.
BetweenTasks(t) == pc[t] = IdlePc /\ t \notin quit

\* It takes the task at the head of its queue.
Takes(t, kind) ==
  /\ BetweenTasks(t)
  /\ tasks[t] # <<>> /\ Head(tasks[t]) = kind
Rest(t) == [tasks EXCEPT ![t] = Tail(@)]

\* InitializeOnWorkerThread up to its lock ...
InitializeTaskRunners(w) ==
  /\ Takes(w, "initialize")
  /\ tasks' = Rest(w)
  /\ initialized' = initialized \cup {w}
  /\ Goto(w, "initialize")
  /\ UNCHANGED <<reports, lockVars, endVars, lifeVars, freezeVars>>

\* ... under the lock, with OnWorkerCreate ...
InitializeContext(w) ==
  /\ pc[w].at = "initialize"
  /\ thread_state' = [thread_state EXCEPT ![w] = "Running"]
  /\ registered' = registered \cup {w}
  /\ Goto(w, "initialized")
  /\ UNCHANGED <<queueVars, initialized, termination_progress, exit_code, child_threads,
                 endVars, started, deleted, closing, scripts, freezeVars>>

\* ... and the look for a request that came before, which starts the shutdown.
Initialized(w) ==
  /\ pc[w].at = "initialized"
  /\ Goto(w, IF termination_progress[w] = "NotRequested" THEN "did process task" ELSE "prepare")
  /\ UNCHANGED <<queueVars, initialized, lockVars, endVars, lifeVars, freezeVars>>

\* A task of the worker's scheduler, which is paused while the worker is frozen
\* and disposed of on shutdown.
RunScript(w) ==
  /\ pc[w] = IdlePc /\ nested[w] = "none" /\ thread_state[w] = "Running"
  /\ scripts[w] < MaxScripts
  /\ scripts' = [scripts EXCEPT ![w] = @ + 1]
  /\ Goto(w, "script")
  /\ UNCHANGED <<queueVars, initialized, lockVars, endVars, registered, started, deleted,
                 closing, freezeVars>>

Close(w) ==
  /\ pc[w].at = "script" /\ w \in MayClose
  /\ closing' = closing \cup {w}
  /\ UNCHANGED <<queueVars, initialized, lockVars, endVars, registered, started, deleted,
                 scripts, freezeVars, pc>>

EndScript(w) ==
  /\ pc[w].at = "script"
  /\ Goto(w, TaskEnd(w))
  /\ UNCHANGED <<queueVars, initialized, lockVars, endVars, lifeVars, freezeVars>>

\* DidProcessTask, while the worker observes its tasks: a worker that has closed
\* itself, or whose script was terminated, gets ready for the shutdown.
DidProcessTask(w) ==
  /\ pc[w].at = "did process task"
  /\ IF thread_state[w] = "Running" /\ w \in closing
     THEN reports' = Post(reports, Parent(w), Report("closed", w)) /\ Goto(w, "prepare")
     ELSE /\ UNCHANGED reports
          /\ Goto(w, IF thread_state[w] = "Running" /\ exit_code[w] = "AsyncForciblyTerminated"
                     THEN "prepare" ELSE "idle")
  /\ UNCHANGED <<tasks, initialized, lockVars, endVars, lifeVars, freezeVars>>

-----------------------------------------------------------------------------
(* Freezing.                                                               *)

\* The owner of these workers freezes or resumes them, unless it has asked them to
\* terminate.
NotAsked(workers) == {w \in workers : termination_progress[w] = "NotRequested"}
FreezeAll(workers) ==
  LET some == (MayFreeze \ frozen) \cap NotAsked(workers) IN
  /\ frozen' = frozen \cup some
  /\ pending_interrupts' = pending_interrupts \cup some
  /\ PostAll(some, "freeze")

Freeze(w) ==
  /\ Parent(w) = Main /\ pc[Main] = IdlePc /\ w \in (MayFreeze \ frozen) \cap child_threads[Main]
  /\ FreezeAll({w})
  /\ UNCHANGED <<reports, initialized, lockVars, endVars, lifeVars, resumed, nested, quit,
                 pc>>

Resume(w) ==
  /\ Parent(w) = Main /\ pc[Main] = IdlePc /\ w \in NotAsked(child_threads[Main])
  /\ w \in frozen \ resumed
  /\ resumed' = resumed \cup {w}
  /\ PostAll({w}, "resume")
  /\ UNCHANGED <<reports, initialized, lockVars, endVars, lifeVars, frozen,
                 pending_interrupts, nested, quit, pc>>

\* PauseOrFreezeOnWorkerThread: a nested event loop, unless the worker is about to
\* terminate.  The interrupt and the task both call it, and the first one counts.
PauseInsideInterrupt(w) ==
  /\ pc[w].at = "script" /\ w \in pending_interrupts
  /\ IF thread_state[w] = "Running"
     THEN LET some == (MayFreeze \ frozen) \cap NotAsked(child_threads[w]) IN
          /\ nested' = [nested EXCEPT ![w] = "script"]
          /\ Goto(w, "idle")
          /\ frozen' = frozen \cup some
          /\ pending_interrupts' = (pending_interrupts \cup some) \ {w}
          /\ PostAll(some, "freeze")
     ELSE /\ pending_interrupts' = pending_interrupts \ {w}
          /\ UNCHANGED <<nested, pc, frozen, tasks>>
  /\ UNCHANGED <<reports, initialized, lockVars, endVars, lifeVars, resumed, quit>>

PauseInsidePostTask(w) ==
  /\ Takes(w, "freeze")
  /\ IF w \in pending_interrupts /\ thread_state[w] = "Running"
     THEN LET some == (MayFreeze \ frozen) \cap NotAsked(child_threads[w]) IN
          /\ nested' = [nested EXCEPT ![w] = "did process task"]
          /\ Goto(w, "idle")
          /\ frozen' = frozen \cup some
          /\ pending_interrupts' = (pending_interrupts \cup some) \ {w}
          /\ tasks' = [t \in Thread |-> IF t \in some THEN Append(tasks[t], "freeze")
                                        ELSE Rest(w)[t]]
     ELSE /\ pending_interrupts' = pending_interrupts \ {w}
          /\ tasks' = Rest(w)
          /\ Goto(w, "did process task")
          /\ UNCHANGED <<nested, frozen>>
  /\ UNCHANGED <<reports, initialized, lockVars, endVars, lifeVars, resumed, quit>>

ResumeOnWorkerThread(w) ==
  /\ Takes(w, "resume")
  /\ tasks' = Rest(w)
  /\ quit' = IF nested[w] = "none" THEN quit ELSE quit \cup {w}
  /\ Goto(w, "did process task")
  /\ UNCHANGED <<reports, initialized, lockVars, endVars, lifeVars, frozen,
                 resumed, pending_interrupts, nested>>

\* The nested event loop ends, and a worker that goes on resumes its children.
LeaveNestedLoop(w) ==
  /\ pc[w] = IdlePc /\ w \in quit
  /\ Goto(w, nested[w])
  /\ nested' = [nested EXCEPT ![w] = "none"]
  /\ quit' = quit \ {w}
  /\ IF thread_state[w] = "Running"
     THEN LET some == (frozen \ resumed) \cap NotAsked(child_threads[w]) IN
          resumed' = resumed \cup some /\ PostAll(some, "resume")
     ELSE UNCHANGED <<resumed, tasks>>
  /\ UNCHANGED <<reports, initialized, lockVars, endVars, lifeVars, frozen,
                 pending_interrupts>>

-----------------------------------------------------------------------------
(* Terminate, on the thread of the owner.                                  *)

\* The thread of u terminates w, and then the workers of rest.
Terminates(u, w, rest, then) ==
  pc' = [pc EXCEPT ![u] = [at |-> "request", child |-> w, rest |-> rest, then |-> then]]

\* The messaging proxy passes on the first call of terminate().
Terminate(w) ==
  /\ w \in NotAsked(child_threads[Parent(w)])
  /\ CallsFrom(Parent(w))
  /\ Terminates(Parent(w), w, {}, pc[Parent(w)].at)
  /\ UNCHANGED <<queueVars, initialized, lockVars, endVars, lifeVars, freezeVars>>

\* The next child, or the end of the call.
NextChild(u) ==
  IF pc[u].rest = {} THEN Goto(u, pc[u].then)
  ELSE \E w \in pc[u].rest : Terminates(u, w, pc[u].rest \ {w}, pc[u].then)

RequestsAgain(u) ==         \* mutant: the progress is not looked at
  /\ pc[u].at = "request"
  /\ LET w == pc[u].child IN
     /\ termination_progress' = [termination_progress EXCEPT ![w] = "Requested"]
     /\ timer' = timer \cup {w}
     /\ pc' = [pc EXCEPT ![u].at = "post prepare"]
  /\ UNCHANGED <<queueVars, initialized, thread_state, exit_code, child_threads, interrupted,
                 lifeVars, freezeVars>>
RequestTermination(u) ==
  /\ pc[u].at = "request"
  /\ LET w == pc[u].child IN
     IF termination_progress[w] # "NotRequested"
     THEN NextChild(u) /\ UNCHANGED <<termination_progress, timer>>
     ELSE /\ termination_progress' = [termination_progress EXCEPT ![w] = "Requested"]
          /\ timer' = timer \cup {w}
          /\ pc' = [pc EXCEPT ![u].at = "post prepare"]
  /\ UNCHANGED <<queueVars, initialized, thread_state, exit_code, child_threads, interrupted,
                 lifeVars, freezeVars>>

\* MakeSureTaskRunnersAreInitialized waits for the worker's thread.
PostPrepare(u) ==
  /\ pc[u].at = "post prepare"
  /\ pc[u].child \in initialized
  /\ PostAll({pc[u].child}, "prepare")
  /\ pc' = [pc EXCEPT ![u].at = "prepared"]
  /\ UNCHANGED <<reports, initialized, lockVars, endVars, lifeVars, freezeVars>>

\* Without children the shutdown is performed next, otherwise when the last
\* child has terminated.
Prepared(u) ==
  /\ pc[u].at = "prepared"
  /\ LET w == pc[u].child
         last == child_threads[w] = {}
     IN
     /\ termination_progress' =
          [termination_progress EXCEPT ![w] = IF last THEN "Performing" ELSE "Prepared"]
     /\ PostAll(IF last THEN {w} ELSE {}, "perform")
  /\ NextChild(u)
  /\ UNCHANGED <<reports, initialized, thread_state, exit_code, child_threads, endVars,
                 lifeVars, freezeVars>>

\* EnsureScriptExecutionTerminates, a delayed task of the owner's thread.
ForciblyTerminate(w) ==
  /\ w \in timer /\ BetweenTasks(Parent(w))
  /\ timer' = timer \ {w}
  /\ IF \/ thread_state[w] = "Running"
        \/ thread_state[w] = "ReadyToShutdown" /\ exit_code[w] = "NotTerminated"
     THEN /\ exit_code' = [exit_code EXCEPT ![w] = "AsyncForciblyTerminated"]
          /\ interrupted' = interrupted \cup {w}
     ELSE UNCHANGED <<exit_code, interrupted>>
  /\ UNCHANGED <<queueVars, initialized, thread_state, termination_progress, child_threads,
                 lifeVars, freezeVars, pc>>

-----------------------------------------------------------------------------
(* The shutdown, on the worker's thread.                                   *)

TakePrepare(w) ==
  /\ Takes(w, "prepare")
  /\ tasks' = Rest(w)
  /\ Goto(w, "prepare")
  /\ UNCHANGED <<reports, initialized, lockVars, endVars, lifeVars, freezeVars>>

\* PrepareForShutdownOnWorkerThread: once; it ends the nested event loop, and the
\* end of the context terminates the children.
LoopGoesOn(w) ==            \* mutant: the nested event loop is not ended
  /\ pc[w].at = "prepare"
  /\ IF thread_state[w] = "ReadyToShutdown"
     THEN Goto(w, "did process task") /\ UNCHANGED <<thread_state, quit>>
     ELSE /\ thread_state' = [thread_state EXCEPT ![w] = "ReadyToShutdown"]
          /\ UNCHANGED quit
          /\ IF child_threads[w] = {} THEN Goto(w, "did process task")
             ELSE \E c \in child_threads[w] :
                    Terminates(w, c, child_threads[w] \ {c}, "did process task")
  /\ UNCHANGED <<queueVars, initialized, termination_progress, exit_code, child_threads,
                 endVars, lifeVars, frozen, resumed, pending_interrupts, nested>>
PrepareForShutdown(w) ==
  /\ pc[w].at = "prepare"
  /\ IF thread_state[w] = "ReadyToShutdown"
     THEN Goto(w, "did process task") /\ UNCHANGED <<thread_state, quit>>
     ELSE /\ thread_state' = [thread_state EXCEPT ![w] = "ReadyToShutdown"]
          /\ quit' = IF nested[w] = "none" THEN quit ELSE quit \cup {w}
          /\ IF child_threads[w] = {} THEN Goto(w, "did process task")
             ELSE \E c \in child_threads[w] :
                    Terminates(w, c, child_threads[w] \ {c}, "did process task")
  /\ UNCHANGED <<queueVars, initialized, termination_progress, exit_code, child_threads,
                 endVars, lifeVars, frozen, resumed, pending_interrupts, nested>>

\* PerformShutdownOnWorkerThread: OnWorkerDestroy, the exit code, and the owner
\* is told.
PerformShutdown(w) ==
  /\ Takes(w, "perform")
  /\ tasks' = Rest(w)
  /\ registered' = registered \ {w}
  /\ reports' = Post(reports, Parent(w), Report("terminated", w))
  /\ exit_code' = [exit_code EXCEPT ![w] = IF @ = "NotTerminated"
                                           THEN "GracefullyTerminated" ELSE @]
  /\ Goto(w, "ended")
  /\ UNCHANGED <<initialized, thread_state, termination_progress, child_threads, endVars,
                 started, deleted, closing, scripts, freezeVars>>

-----------------------------------------------------------------------------
(* What the owner is told.  The reports of nested workers wait while their *)
(* owner is frozen.                                                        *)

TakesReport(u, kind) ==
  /\ pc[u] = IdlePc /\ (u # Main => nested[u] = "none")
  /\ reports[u] # <<>> /\ Head(reports[u]).kind = kind

WorkerClosed(u) ==
  /\ TakesReport(u, "closed")
  /\ reports' = [reports EXCEPT ![u] = Tail(@)]
  /\ Terminates(u, Head(reports[u]).child, {}, TaskEnd(u))
  /\ UNCHANGED <<tasks, initialized, lockVars, endVars, lifeVars, freezeVars>>

\* ChildThreadTerminatedOnWorkerThread, and the WorkerThread is deleted, which
\* cancels its delayed task.
ChildForgotten(u) ==        \* mutant: the last child does not go on
  /\ TakesReport(u, "terminated")
  /\ LET w == Head(reports[u]).child IN
     /\ child_threads' = [child_threads EXCEPT ![u] = @ \ {w}]
     /\ deleted' = deleted \cup {w} /\ timer' = timer \ {w}
  /\ reports' = [reports EXCEPT ![u] = Tail(@)]
  /\ Goto(u, TaskEnd(u))
  /\ UNCHANGED <<tasks, initialized, thread_state, termination_progress, exit_code,
                 interrupted, registered, started, closing, scripts,
                 freezeVars>>
ChildPerforms(u) ==         \* mutant: the parent's progress is not looked at
  /\ TakesReport(u, "terminated")
  /\ LET w == Head(reports[u]).child
         perform == u # Main /\ child_threads[u] = {w}
     IN
     /\ child_threads' = [child_threads EXCEPT ![u] = @ \ {w}]
     /\ deleted' = deleted \cup {w} /\ timer' = timer \ {w}
     /\ termination_progress' = IF perform
          THEN [termination_progress EXCEPT ![u] = "Performing"] ELSE termination_progress
     /\ PostAll(IF perform THEN {u} ELSE {}, "perform")
  /\ reports' = [reports EXCEPT ![u] = Tail(@)]
  /\ Goto(u, TaskEnd(u))
  /\ UNCHANGED <<initialized, thread_state, exit_code, interrupted, registered, started,
                 closing, scripts, freezeVars>>
TimerOutlives(u) ==         \* mutant: the delayed task is not cancelled
  /\ TakesReport(u, "terminated")
  /\ LET w == Head(reports[u]).child
         perform == u # Main /\ child_threads[u] = {w} /\ termination_progress[u] = "Prepared"
     IN
     /\ child_threads' = [child_threads EXCEPT ![u] = @ \ {w}]
     /\ deleted' = deleted \cup {w}
     /\ termination_progress' = IF perform
          THEN [termination_progress EXCEPT ![u] = "Performing"] ELSE termination_progress
     /\ PostAll(IF perform THEN {u} ELSE {}, "perform")
  /\ reports' = [reports EXCEPT ![u] = Tail(@)]
  /\ Goto(u, TaskEnd(u))
  /\ UNCHANGED <<initialized, thread_state, exit_code, endVars, registered, started,
                 closing, scripts, freezeVars>>
ChildThreadTerminated(u) ==
  /\ TakesReport(u, "terminated")
  /\ LET w == Head(reports[u]).child
         perform == u # Main /\ child_threads[u] = {w} /\ termination_progress[u] = "Prepared"
     IN
     /\ child_threads' = [child_threads EXCEPT ![u] = @ \ {w}]
     /\ deleted' = deleted \cup {w} /\ timer' = timer \ {w}
     /\ termination_progress' = IF perform
          THEN [termination_progress EXCEPT ![u] = "Performing"] ELSE termination_progress
     /\ PostAll(IF perform THEN {u} ELSE {}, "perform")
  /\ reports' = [reports EXCEPT ![u] = Tail(@)]
  /\ Goto(u, TaskEnd(u))
  /\ UNCHANGED <<initialized, thread_state, exit_code, interrupted, registered, started,
                 closing, scripts, freezeVars>>

Next ==
  \/ \E w \in Worker :
       \/ Start(w) \/ Terminate(w) \/ ForciblyTerminate(w)
       \/ InitializeTaskRunners(w) \/ InitializeContext(w) \/ Initialized(w)
       \/ RunScript(w) \/ Close(w) \/ EndScript(w) \/ DidProcessTask(w)
       \/ Freeze(w) \/ Resume(w) \/ PauseInsideInterrupt(w) \/ PauseInsidePostTask(w)
       \/ ResumeOnWorkerThread(w) \/ LeaveNestedLoop(w)
       \/ TakePrepare(w) \/ PrepareForShutdown(w) \/ PerformShutdown(w)
  \/ \E u \in Thread :
       \/ RequestTermination(u) \/ PostPrepare(u) \/ Prepared(u)
       \/ WorkerClosed(u) \/ ChildThreadTerminated(u)

\* What a thread goes on with by itself in the middle of a task ...
Proceed(t) ==
  \/ RequestTermination(t) \/ PostPrepare(t) \/ Prepared(t)
  \/ /\ t # Main
     /\ \/ InitializeContext(t) \/ Initialized(t) \/ DidProcessTask(t)
        \/ PrepareForShutdown(t) \/ LeaveNestedLoop(t)

\* ... and the tasks it takes from its queues.
TakeReport(t) == WorkerClosed(t) \/ ChildThreadTerminated(t)
TakeTask(t) ==
  \/ InitializeTaskRunners(t) \/ TakePrepare(t) \/ PerformShutdown(t)
  \/ PauseInsidePostTask(t) \/ ResumeOnWorkerThread(t)

(* A thread goes on with what it has begun and gets to each of its tasks   *)
(* between its scripts.  A script ends if it is terminated, when it next   *)
(* looks for an interrupt, and the delayed task runs when its time has come*)
(* and the owner is idle.                                                  *)
Fairness ==
  /\ \A t \in Thread : WF_vars(Proceed(t)) /\ WF_vars(TakeReport(t))
  /\ \A w \in Worker :
       /\ WF_vars(TakeTask(w))
       /\ WF_vars(w \in interrupted /\ EndScript(w))
       /\ WF_vars(ForciblyTerminate(w))

Spec == Init /\ [][Next]_vars /\ Fairness

-----------------------------------------------------------------------------
(* Correctness.                                                            *)

Tasks == {"initialize", "freeze", "resume", "prepare", "perform"}
Reports == [kind : {"closed", "terminated"}, child : Worker]

(* Queues hold tasks, states are those of the enumerations, and only a     *)
(* worker whose owner knows it to have ended is deleted.                   *)
TypeOK ==
  /\ \A t \in Thread : tasks[t] \in Seq(Tasks) /\ reports[t] \in Seq(Reports)
  /\ initialized \subseteq started /\ deleted \subseteq started
  /\ thread_state \in [Worker -> {"NotStarted", "Running", "ReadyToShutdown"}]
  /\ termination_progress \in
       [Worker -> {"NotRequested", "Requested", "Prepared", "Performing"}]
  /\ exit_code \in
       [Worker -> {"NotTerminated", "GracefullyTerminated", "AsyncForciblyTerminated"}]
  /\ \A t \in Thread : child_threads[t] \subseteq {w \in started \ deleted : Parent(w) = t}
  /\ timer \subseteq started \ deleted /\ interrupted \subseteq started
  /\ nested \in [Worker -> {"none", "script", "did process task"}]
  /\ quit \subseteq {w \in Worker : nested[w] # "none"}
  /\ \A w \in deleted : pc[w].at = "ended"

\* The shutdowns of w that are queued or done.
Shutdowns(w) ==
  Cardinality({i \in 1 .. Len(tasks[w]) : tasks[w][i] = "perform"})
    + (IF pc[w].at = "ended" THEN 1 ELSE 0)

(* Terminate and the end of the last child, on two threads, agree on who   *)
(* performs the shutdown: it happens once, exactly when the progress says  *)
(* so, after its preparation and without children, as its CHECKs demand.   *)
PerformedOnce ==
  \A w \in Worker :
    /\ Shutdowns(w) = IF termination_progress[w] = "Performing" THEN 1 ELSE 0
    /\ pc[w].at = "ended" => thread_state[w] = "ReadyToShutdown"
    /\ Shutdowns(w) = 1 => child_threads[w] = {}

(* Once its shutdown is performed, when its WorkerThread may be deleted,   *)
(* nothing runs on a worker's thread but what was posted before it was     *)
(* asked to terminate, and nobody is about to post anything to it.         *)
NothingAfterShutdown ==
  \A w \in Worker : pc[w].at = "ended" =>
    /\ tasks[w] = <<>>
    /\ \A u \in Thread : pc[u].at \in {"post prepare", "prepared"} => pc[u].child # w

(* A script runs on a thread that has its slot in the detector, also when  *)
(* it is interrupted by a nested event loop that carries out half of the   *)
(* termination; and the slot of a worker that has ended is free.           *)
SlotWhileScript ==
  \A w \in Worker :
    /\ pc[w].at = "script" \/ nested[w] = "script" => w \in registered
    /\ pc[w].at = "ended" => w \notin registered

(* A worker that is asked to terminate ends and is deleted, at whatever    *)
(* point of its start it is, frozen, with its children and with scripts    *)
(* that never return, unless its owner is itself in a script or frozen.    *)
TerminationEnds ==
  \A w \in Worker :
    termination_progress[w] # "NotRequested" ~>
      \/ w \in deleted
      \/ pc[Parent(w)].at \in {"script", "ended"}
      \/ Parent(w) # Main /\ nested[Parent(w)] # "none"

=============================================================================
