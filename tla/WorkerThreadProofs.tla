------------------------- MODULE WorkerThreadProofs -------------------------
(***************************************************************************)
(* Theorems about the start and the termination of workers, for every      *)
(* number of workers and whoever owns them: the shutdown is performed once *)
(* and last, and scripts run on threads that have their slot.              *)
(***************************************************************************)
EXTENDS WorkerThread, FiniteSetTheorems, TLAPS

-----------------------------------------------------------------------------
(* The inductive invariant.                                                *)

\* What a queue has to say: the initialization is its first task and the shutdown
\* its last, with the preparation before it.
Has(queue, task) == \E i \in 1 .. Len(queue) : queue[i] = task
InitializeFirst(queue) == \A i \in 1 .. Len(queue) : queue[i] = "initialize" => i = 1
PerformLast(queue) == \A i \in 1 .. Len(queue) : queue[i] = "perform" => i = Len(queue)
PrepareBefore(queue) ==
  \A i \in 1 .. Len(queue) :
    queue[i] = "perform" => \E j \in 1 .. Len(queue) : j < i /\ queue[j] = "prepare"

\* The places of a thread that terminates a worker, and all of them.
Terminating == {"request", "post prepare", "prepared"}
Places == Terminating \cup
  {"idle", "initialize", "initialized", "script", "did process task", "prepare", "ended"}
Ends == {"idle", "script", "did process task"}

TypeInv ==
  /\ TypeOK
  /\ tasks \in [Thread -> Seq(Tasks)] /\ reports \in [Thread -> Seq(Reports)]
  /\ child_threads \in [Thread -> SUBSET Worker]
  /\ started \subseteq Worker /\ registered \subseteq Worker
  /\ pc \in [Thread -> [at : Places, child : Thread, rest : SUBSET Worker, then : Ends]]

\* A worker that has not been started is nowhere, and one that has been has its
\* initialization to come.
Starts(w) ==
  /\ w \notin started =>
       /\ tasks[w] = <<>> /\ thread_state[w] = "NotStarted"
       /\ termination_progress[w] = "NotRequested"
  /\ thread_state[w] = "NotStarted" =>
       /\ pc[w].at \in {"idle", "initialize"} /\ nested[w] = "none"
       /\ pc[w].at = "initialize" => w \in started
       /\ w \in started /\ pc[w].at = "idle" =>
            tasks[w] # <<>> /\ Head(tasks[w]) = "initialize"
  /\ InitializeFirst(tasks[w])
  /\ Has(tasks[w], "initialize") => thread_state[w] = "NotStarted" /\ pc[w].at = "idle"
  /\ pc[w].at = "initialize" => thread_state[w] = "NotStarted"

\* A worker runs, and its scripts run or wait, while it has its slot; the
\* preparation of its shutdown ends the nested event loop.
OwnsSlot(w) ==
  /\ thread_state[w] = "Running" => w \in registered
  /\ pc[w].at = "script" \/ pc[w].then = "script" \/ nested[w] = "script" => w \in registered
  /\ thread_state[w] = "ReadyToShutdown" /\ nested[w] # "none" => w \in quit

\* The preparation of the shutdown of w has been posted, is under way or is over.
Prepares(w) ==
  \/ thread_state[w] = "ReadyToShutdown" \/ pc[w].at = "prepare" \/ Has(tasks[w], "prepare")

\* The shutdown is posted once, behind the preparation, and is the last task.
Shuts(w) ==
  /\ PerformLast(tasks[w])
  /\ thread_state[w] = "ReadyToShutdown" \/ pc[w].at = "prepare" \/ PrepareBefore(tasks[w])
  /\ termination_progress[w] \in {"Prepared", "Performing"} => Prepares(w)
  /\ termination_progress[w] = "Performing" =>
       /\ child_threads[w] = {}
       /\ Has(tasks[w], "perform") \/ pc[w].at = "ended"
  /\ Has(tasks[w], "perform") => termination_progress[w] = "Performing"
  /\ pc[w].at = "ended" =>
       /\ termination_progress[w] = "Performing" /\ thread_state[w] = "ReadyToShutdown"
       /\ tasks[w] = <<>> /\ w \notin registered

WorkerInv(w) == Starts(w) /\ OwnsSlot(w) /\ Shuts(w)

\* Whom the owner u terminates, and how far it has got with one.
Asks(u) ==
  pc[u].at \in Terminating =>
    /\ pc[u].child \in started /\ Parent(pc[u].child) = u
    /\ \A w \in pc[u].rest : w \in started /\ Parent(w) = u
    /\ pc[u].at \in {"post prepare", "prepared"} =>
         termination_progress[pc[u].child] = "Requested"
    /\ pc[u].at = "prepared" => Prepares(pc[u].child)

\* What the owner u is told of its own workers is true.
Told(u) ==
  \A i \in 1 .. Len(reports[u]) :
    /\ reports[u][i].child \in started /\ Parent(reports[u][i].child) = u
    /\ reports[u][i].kind = "terminated" => pc[reports[u][i].child].at = "ended"

\* Whoever owns a worker that has been started has itself been initialized.
OwnerRuns == \A w \in started : Parent(w) # Main => thread_state[Parent(w)] # "NotStarted"

IInv ==
  /\ TypeInv
  /\ \A w \in Worker : WorkerInv(w)
  /\ \A u \in Thread : Asks(u) /\ Told(u)
  /\ OwnerRuns

-----------------------------------------------------------------------------
(* Queues.                                                                 *)

(* A task that is posted comes last.                                       *)
LEMMA Posted ==
  ASSUME NEW queue \in Seq(Tasks), NEW task \in Tasks
  PROVE  /\ Append(queue, task) \in Seq(Tasks) /\ Append(queue, task) # <<>>
         /\ queue # <<>> => Head(Append(queue, task)) = Head(queue)
         /\ queue = <<>> => Head(Append(queue, task)) = task
         /\ \A x : Has(Append(queue, task), x) <=> Has(queue, x) \/ x = task
         /\ InitializeFirst(queue) /\ (task = "initialize" => queue = <<>>)
              => InitializeFirst(Append(queue, task))
         /\ ~ Has(queue, "perform") => PerformLast(Append(queue, task))
         /\ PrepareBefore(queue) /\ (task = "perform" => Has(queue, "prepare"))
              => PrepareBefore(Append(queue, task))
<1> DEFINE q == Append(queue, task)
<1>1. /\ q \in Seq(Tasks) /\ Len(q) = Len(queue) + 1 /\ Len(queue) \in Nat /\ q # <<>>
      /\ \A i \in 1 .. Len(queue) : q[i] = queue[i]
      /\ q[Len(queue) + 1] = task
  OBVIOUS
<1>2. /\ queue # <<>> => Head(q) = Head(queue)
      /\ queue = <<>> => Head(q) = task
  OBVIOUS
<1> HIDE DEF q
<1>3. \A i \in 1 .. Len(q) : i \in 1 .. Len(queue) \/ i = Len(queue) + 1
  BY <1>1
<1>4. ASSUME NEW x PROVE Has(q, x) <=> Has(queue, x) \/ x = task
  <2>1. ASSUME Has(q, x) PROVE Has(queue, x) \/ x = task
    BY <1>1, <1>3, <2>1 DEF Has
  <2>2. ASSUME Has(queue, x) PROVE Has(q, x)
    <3>1. PICK i \in 1 .. Len(queue) : queue[i] = x
      BY <2>2 DEF Has
    <3>2. i \in 1 .. Len(q) /\ q[i] = x
      BY <1>1, <3>1
    <3> QED BY <3>2 DEF Has
  <2>3. ASSUME x = task PROVE Has(q, x)
    <3>1. Len(queue) + 1 \in 1 .. Len(q)
      BY <1>1
    <3> QED BY <1>1, <2>3, <3>1 DEF Has
  <2> QED BY <2>1, <2>2, <2>3
<1>5. ASSUME InitializeFirst(queue), task = "initialize" => queue = <<>>
      PROVE  InitializeFirst(q)
  <2>1. queue = <<>> => Len(queue) + 1 = 1
    OBVIOUS
  <2> QED BY <1>1, <1>3, <1>5, <2>1 DEF InitializeFirst
<1>6. ASSUME ~ Has(queue, "perform") PROVE PerformLast(q)
  BY <1>1, <1>3, <1>6 DEF Has, PerformLast
<1>7. ASSUME PrepareBefore(queue), task = "perform" => Has(queue, "prepare")
      PROVE  PrepareBefore(q)
  <2> SUFFICES ASSUME NEW i \in 1 .. Len(q), q[i] = "perform"
               PROVE  \E j \in 1 .. Len(q) : j < i /\ q[j] = "prepare"
    BY DEF PrepareBefore
  <2>1. \E j \in 1 .. Len(queue) : j < i /\ queue[j] = "prepare"
    <3>1. CASE i \in 1 .. Len(queue)
      BY <1>1, <1>7, <3>1 DEF PrepareBefore
    <3>2. CASE i = Len(queue) + 1
      <4>1. PICK j \in 1 .. Len(queue) : queue[j] = "prepare"
        BY <1>1, <1>7, <3>2 DEF Has
      <4>2. j < i
        BY <1>1, <3>2
      <4> QED BY <4>1, <4>2
    <3> QED BY <1>3, <3>1, <3>2
  <2>2. PICK j \in 1 .. Len(queue) : j < i /\ queue[j] = "prepare"
    BY <2>1
  <2>3. j \in 1 .. Len(q) /\ q[j] = "prepare"
    BY <1>1, <2>2
  <2> QED BY <2>2, <2>3
<1> QED BY <1>1, <1>2, <1>4, <1>5, <1>6, <1>7 DEF q

(* What is left of a queue when its first task is taken.                   *)
LEMMA Taken ==
  ASSUME NEW queue \in Seq(Tasks), queue # <<>>
  PROVE  /\ Tail(queue) \in Seq(Tasks) /\ Head(queue) \in Tasks
         /\ Has(queue, Head(queue))
         /\ \A x : Has(Tail(queue), x) => Has(queue, x)
         /\ \A x : Has(queue, x) => x = Head(queue) \/ Has(Tail(queue), x)
         /\ InitializeFirst(queue) =>
              ~ Has(Tail(queue), "initialize") /\ InitializeFirst(Tail(queue))
         /\ PerformLast(queue) =>
              /\ PerformLast(Tail(queue))
              /\ Head(queue) = "perform" => Tail(queue) = <<>>
         /\ PrepareBefore(queue) =>
              /\ Head(queue) # "prepare" => PrepareBefore(Tail(queue))
              /\ Head(queue) # "perform"
<1> DEFINE q == Tail(queue)
<1>1. /\ q \in Seq(Tasks) /\ Len(q) + 1 = Len(queue) /\ Len(q) \in Nat
      /\ \A i \in 1 .. Len(q) : q[i] = queue[i + 1]
      /\ queue[1] = Head(queue) /\ Head(queue) \in Tasks
      /\ Len(q) = 0 => q = <<>>
  <2>1. q \in Seq(Tasks) /\ Len(q) + 1 = Len(queue) /\ Len(q) \in Nat
    OBVIOUS
  <2>2. \A i \in 1 .. Len(q) : q[i] = queue[i + 1]
    OBVIOUS
  <2>3. queue[1] = Head(queue) /\ Head(queue) \in Tasks
    OBVIOUS
  <2>4. Len(q) = 0 => q = <<>>
    <3> HIDE DEF q
    <3> QED BY <2>1
  <2> QED BY <2>1, <2>2, <2>3, <2>4
<1> HIDE DEF q
<1>2. \A i \in 1 .. Len(q) : i + 1 \in 1 .. Len(queue) /\ i + 1 # 1
  BY <1>1
<1>3. 1 \in 1 .. Len(queue)
      /\ \A i \in 1 .. Len(queue) : i = 1 \/ (i - 1 \in 1 .. Len(q) /\ queue[i] = q[i - 1])
  <2>1. \A i \in 1 .. Len(queue) : i # 1 => i - 1 \in 1 .. Len(q) /\ (i - 1) + 1 = i
    BY <1>1
  <2> QED BY <1>1, <2>1
<1>4. Has(queue, Head(queue))
  BY <1>1, <1>3 DEF Has
<1>5. ASSUME NEW x, Has(q, x) PROVE Has(queue, x)
  BY <1>1, <1>2, <1>5 DEF Has
<1>6. ASSUME NEW x, Has(queue, x) PROVE x = Head(queue) \/ Has(q, x)
  <2>1. PICK i \in 1 .. Len(queue) : queue[i] = x
    BY <1>6 DEF Has
  <2> QED BY <1>1, <1>3, <2>1 DEF Has
<1>7. InitializeFirst(queue) => ~ Has(q, "initialize") /\ InitializeFirst(q)
  BY <1>1, <1>2 DEF InitializeFirst, Has
<1>8. ASSUME PerformLast(queue)
      PROVE  PerformLast(q) /\ (Head(queue) = "perform" => q = <<>>)
  <2>1. PerformLast(q)
    <3>1. \A i \in 1 .. Len(q) : i + 1 = Len(queue) => i = Len(q)
      BY <1>1
    <3> QED BY <1>1, <1>2, <1>8, <3>1 DEF PerformLast
  <2>2. Head(queue) = "perform" => 1 = Len(queue)
    BY <1>1, <1>3, <1>8 DEF PerformLast
  <2> QED BY <1>1, <2>1, <2>2
<1>9. ASSUME PrepareBefore(queue)
      PROVE  /\ Head(queue) # "prepare" => PrepareBefore(q)
             /\ Head(queue) # "perform"
  <2>1. Head(queue) # "perform"
    <3>1. \A j \in 1 .. Len(queue) : ~ (j < 1)
      OBVIOUS
    <3> QED BY <1>1, <1>3, <1>9, <3>1 DEF PrepareBefore
  <2>2. ASSUME Head(queue) # "prepare", NEW i \in 1 .. Len(q), q[i] = "perform"
        PROVE  \E j \in 1 .. Len(q) : j < i /\ q[j] = "prepare"
    <3>1. i + 1 \in 1 .. Len(queue) /\ queue[i + 1] = "perform"
      BY <1>1, <1>2, <2>2
    <3>2. PICK j \in 1 .. Len(queue) : j < i + 1 /\ queue[j] = "prepare"
      BY <1>9, <3>1 DEF PrepareBefore
    <3>3. j # 1
      BY <1>1, <2>2, <3>2
    <3>4. j - 1 \in 1 .. Len(q) /\ q[j - 1] = "prepare" /\ j - 1 < i
      BY <1>1, <1>3, <3>2, <3>3
    <3> QED BY <3>4
  <2> QED BY <2>1, <2>2 DEF PrepareBefore
<1> QED BY <1>1, <1>4, <1>5, <1>6, <1>7, <1>8, <1>9 DEF q

(* The empty queue.                                                        *)
LEMMA NothingPosted ==
  /\ <<>> \in Seq(Tasks) /\ \A x : ~ Has(<<>>, x)
  /\ InitializeFirst(<<>>) /\ PerformLast(<<>>) /\ PrepareBefore(<<>>)
BY DEF Has, InitializeFirst, PerformLast, PrepareBefore

-----------------------------------------------------------------------------
(* What a step leaves alone.                                               *)

(* The parts of a place, and who a worker's owner can be.                  *)
LEMMA Parts ==
  /\ \A place : /\ At(place).at = place /\ At(place).child = Main
                /\ At(place).rest = {} /\ At(place).then = "idle"
  /\ IdlePc.at = "idle" /\ IdlePc.then = "idle"
  /\ \A place \in Places : At(place) \in
       [at : Places, child : Thread, rest : SUBSET Worker, then : Ends]
  /\ \A w \in Worker : Parent(w) \in Thread /\ Parent(w) # w /\ w # Main /\ w \in Thread
  /\ Main \in Thread /\ Worker \subseteq Thread
  /\ \A t \in Thread : t # Main => t \in Worker
BY ParentAssumption DEF At, IdlePc, Thread, Places, Ends

(* The variables that the invariant speaks of are functions and sets.      *)
LEMMA Kinds ==
  ASSUME TypeInv
  PROVE  /\ tasks \in [Thread -> Seq(Tasks)] /\ reports \in [Thread -> Seq(Reports)]
         /\ child_threads \in [Thread -> SUBSET Worker]
         /\ started \subseteq Worker /\ registered \subseteq Worker /\ quit \subseteq Worker
         /\ deleted \subseteq started /\ timer \subseteq started
         /\ pc \in [Thread -> [at : Places, child : Thread, rest : SUBSET Worker, then : Ends]]
         /\ thread_state \in [Worker -> {"NotStarted", "Running", "ReadyToShutdown"}]
         /\ termination_progress \in
              [Worker -> {"NotRequested", "Requested", "Prepared", "Performing"}]
         /\ nested \in [Worker -> {"none", "script", "did process task"}]
         /\ \A t \in Thread : child_threads[t] \subseteq {w \in started \ deleted : Parent(w) = t}
BY DEF TypeInv, TypeOK

\* Worker w keeps its state, its slot and its request, and gets no child.
Keeps(w) ==
  /\ thread_state'[w] = thread_state[w]
  /\ termination_progress'[w] = termination_progress[w]
  /\ nested'[w] = nested[w]
  /\ w \in started' <=> w \in started
  /\ w \in registered' <=> w \in registered
  /\ w \in quit' <=> w \in quit
  /\ child_threads[w] = {} => child_threads'[w] = {}

(* What is said of a worker stays true while others move.                  *)
LEMMA Unmoved ==
  ASSUME NEW w \in Worker, WorkerInv(w), Keeps(w), tasks'[w] = tasks[w], pc'[w] = pc[w]
  PROVE  WorkerInv(w)' /\ (Prepares(w)' <=> Prepares(w))
<1>1. Prepares(w)' <=> Prepares(w)
  BY DEF Prepares, Keeps
<1>2. Starts(w)' /\ OwnsSlot(w)'
  BY DEF WorkerInv, Starts, OwnsSlot, Keeps
<1>3. Shuts(w)'
  BY <1>1 DEF WorkerInv, Shuts, Keeps
<1> QED BY <1>1, <1>2, <1>3 DEF WorkerInv

(* It stays true when the worker goes from one place to another in between *)
(* its initialization and its end, outside the preparation.                *)
LEMMA Moved ==
  ASSUME NEW w \in Worker, WorkerInv(w), Keeps(w), tasks'[w] = tasks[w],
         thread_state[w] # "NotStarted",
         pc[w].at \notin {"initialize", "prepare", "ended"},
         pc'[w].at \notin {"initialize", "prepare", "ended"},
         pc'[w].at = "script" \/ pc'[w].then = "script" => w \in registered
  PROVE  WorkerInv(w)' /\ (Prepares(w)' <=> Prepares(w))
<1>1. Prepares(w)' <=> Prepares(w)
  BY DEF Prepares, Keeps
<1>2. Starts(w)'
  BY DEF WorkerInv, Starts, Keeps
<1>3. OwnsSlot(w)'
  BY DEF WorkerInv, OwnsSlot, Keeps
<1>4. Shuts(w)'
  BY <1>1 DEF WorkerInv, Shuts, Keeps
<1> QED BY <1>1, <1>2, <1>3, <1>4 DEF WorkerInv

(* It stays true when a worker that is not shut down yet gets a task.      *)
LEMMA GetsTask ==
  ASSUME NEW w \in Worker, WorkerInv(w), Keeps(w), pc'[w] = pc[w], tasks[w] \in Seq(Tasks),
         NEW task \in {"freeze", "resume", "prepare"}, tasks'[w] = Append(tasks[w], task),
         w \in started, termination_progress[w] # "Performing"
  PROVE  /\ WorkerInv(w)' /\ (Prepares(w) => Prepares(w)')
         /\ task = "prepare" => Prepares(w)'
<1>0. task \in Tasks /\ task \notin {"initialize", "perform"}
  BY DEF Tasks
<1> DEFINE q == Append(tasks[w], task)
<1>1. /\ q # <<>> /\ (tasks[w] # <<>> => Head(q) = Head(tasks[w]))
      /\ \A x : Has(q, x) <=> Has(tasks[w], x) \/ x = task
      /\ InitializeFirst(tasks[w]) => InitializeFirst(q)
      /\ ~ Has(tasks[w], "perform") => PerformLast(q)
      /\ PrepareBefore(tasks[w]) => PrepareBefore(q)
  BY <1>0, Posted
<1>2. tasks'[w] = q
  OBVIOUS
<1> HIDE DEF q
<1>3. /\ Prepares(w) => Prepares(w)'
      /\ task = "prepare" => Prepares(w)'
  BY <1>1, <1>2 DEF Prepares, Keeps
<1>4. Starts(w)'
  BY <1>0, <1>1, <1>2 DEF WorkerInv, Starts, Keeps
<1>5. OwnsSlot(w)'
  BY DEF WorkerInv, OwnsSlot, Keeps
<1>6. ~ Has(tasks[w], "perform") /\ pc[w].at # "ended"
  BY DEF WorkerInv, Shuts
<1>7. Shuts(w)'
  BY <1>0, <1>1, <1>2, <1>3, <1>6 DEF WorkerInv, Shuts, Keeps
<1> QED BY <1>3, <1>4, <1>5, <1>7 DEF WorkerInv

(* What an owner does stays right while other threads move.                *)
LEMMA AsksStay ==
  ASSUME TypeInv, NEW u \in Thread, Asks(u), pc'[u] = pc[u], started \subseteq started',
         \A w \in Worker : Prepares(w) => Prepares(w)',
         \A w \in Worker : Parent(w) = u /\ termination_progress[w] = "Requested"
                             => termination_progress'[w] = "Requested"
  PROVE  Asks(u)'
BY Kinds DEF Asks

(* What an owner has been told stays true.                                 *)
LEMMA ToldStays ==
  ASSUME TypeInv, NEW u \in Thread, Told(u), reports'[u] = reports[u], started \subseteq started',
         \A w \in Worker : pc[w].at = "ended" => pc'[w].at = "ended"
  PROVE  Told(u)'
BY Kinds DEF Told

(* A worker's step of its own, which may freeze or resume its children.    *)
LEMMA OwnStep ==
  ASSUME IInv, NEW w \in Worker, TypeInv',
         UNCHANGED <<started, termination_progress, child_threads>>,
         \A t \in Thread : t # w => pc'[t] = pc[t],
         \A v \in Worker : v # w =>
           /\ Keeps(v)
           /\ \/ tasks'[v] = tasks[v]
              \/ /\ v \in started /\ termination_progress[v] = "NotRequested"
                 /\ \E task \in {"freeze", "resume"} : tasks'[v] = Append(tasks[v], task),
         WorkerInv(w)', Asks(w)', Prepares(w) => Prepares(w)',
         pc[w].at # "ended",
         thread_state[w] # "NotStarted" => thread_state'[w] # "NotStarted",
         \A u \in Thread : reports'[u] = reports[u] \/ Told(u)'
  PROVE  IInv'
<1>1. ASSUME NEW v \in Worker
      PROVE  WorkerInv(v)' /\ (Prepares(v) => Prepares(v)')
  <2>1. WorkerInv(v) /\ tasks[v] \in Seq(Tasks) /\ v \in Thread
    BY Kinds, Parts DEF IInv
  <2>2. CASE v = w
    BY <2>2
  <2>3. CASE v # w /\ tasks'[v] = tasks[v]
    BY <2>1, <2>3, Unmoved
  <2>4. CASE /\ v # w
             /\ v \in started /\ termination_progress[v] = "NotRequested"
             /\ \E task \in {"freeze", "resume"} : tasks'[v] = Append(tasks[v], task)
    <3>1. PICK task \in {"freeze", "resume"} : tasks'[v] = Append(tasks[v], task)
      BY <2>4
    <3>2. Keeps(v) /\ pc'[v] = pc[v] /\ termination_progress[v] # "Performing"
      BY <2>1, <2>4
    <3> QED BY <2>1, <2>4, <3>1, <3>2, GetsTask
  <2> QED BY <2>2, <2>3, <2>4
<1>2. ASSUME NEW u \in Thread PROVE Asks(u)'
  <2>1. CASE u = w
    BY <2>1
  <2>2. CASE u # w
    BY <1>1, <2>2, AsksStay DEF IInv
  <2> QED BY <2>1, <2>2
<1>3. ASSUME NEW u \in Thread PROVE Told(u)'
  <2>1. \A v \in Worker : pc[v].at = "ended" => pc'[v].at = "ended"
    BY Parts
  <2> QED BY <2>1, ToldStays DEF IInv
<1>4. OwnerRuns'
  <2>1. \A v \in Worker : thread_state[v] # "NotStarted" => thread_state'[v] # "NotStarted"
    BY DEF Keeps
  <2>2. \A v \in started : v \in Worker /\ (Parent(v) # Main => Parent(v) \in Worker)
    BY Kinds, Parts DEF IInv
  <2> QED BY <2>1, <2>2 DEF IInv, OwnerRuns
<1> QED BY <1>1, <1>2, <1>3, <1>4 DEF IInv

-----------------------------------------------------------------------------
(* The steps of a worker's own thread.                                     *)

(* A thread goes to a place where it terminates nobody.                    *)
LEMMA ThreadGoes ==
  ASSUME TypeInv, NEW t \in Thread, NEW place \in Places \ Terminating, Goto(t, place)
  PROVE  /\ pc' \in [Thread -> [at : Places, child : Thread, rest : SUBSET Worker, then : Ends]]
         /\ pc'[t].at = place /\ pc'[t].then = "idle"
         /\ \A u \in Thread : u # t => pc'[u] = pc[u]
         /\ Asks(t)'
<1>1. pc' = [pc EXCEPT ![t] = At(place)] /\ At(place).at = place /\ At(place).then = "idle"
      /\ At(place) \in [at : Places, child : Thread, rest : SUBSET Worker, then : Ends]
  BY Parts DEF Goto
<1>2. pc'[t] = At(place)
  BY <1>1, Kinds
<1>3. Asks(t)'
  BY <1>1, <1>2 DEF Asks, Terminating
<1> QED BY <1>1, <1>2, <1>3, Kinds

(* A worker's thread does.                                                 *)
LEMMA Goes ==
  ASSUME TypeInv, NEW w \in Worker, NEW place \in Places \ Terminating, Goto(w, place)
  PROVE  /\ pc' \in [Thread -> [at : Places, child : Thread, rest : SUBSET Worker, then : Ends]]
         /\ pc'[w].at = place /\ pc'[w].then = "idle"
         /\ \A t \in Thread : t # w => pc'[t] = pc[t]
         /\ Asks(w)'
<1>1. w \in Thread
  BY Parts
<1> QED BY <1>1, ThreadGoes

(* A worker that takes a task has been started, and is initialized unless  *)
(* the task initializes it.                                                *)
LEMMA TakesTask ==
  ASSUME IInv, NEW w \in Worker, NEW kind, Takes(w, kind)
  PROVE  /\ pc[w].at = "idle" /\ w \notin quit /\ tasks[w] # <<>> /\ Head(tasks[w]) = kind
         /\ tasks[w] \in Seq(Tasks) /\ w \in started /\ Has(tasks[w], kind)
         /\ (kind = "initialize") = (thread_state[w] = "NotStarted")
         /\ Rest(w) \in [Thread -> Seq(Tasks)] /\ Rest(w)[w] = Tail(tasks[w])
         /\ \A t \in Thread : t # w => Rest(w)[t] = tasks[t]
<1>1. pc[w].at = "idle" /\ w \notin quit /\ tasks[w] # <<>> /\ Head(tasks[w]) = kind
  BY Parts DEF Takes, BetweenTasks
<1>2. tasks \in [Thread -> Seq(Tasks)] /\ w \in Thread
  BY Kinds, Parts DEF IInv
<1>3. Tail(tasks[w]) \in Seq(Tasks) /\ Has(tasks[w], kind)
  BY <1>1, <1>2, Taken
<1>4. w \in started /\ ((kind = "initialize") = (thread_state[w] = "NotStarted"))
  BY <1>1, <1>3 DEF IInv, WorkerInv, Starts
<1> QED BY <1>1, <1>2, <1>3, <1>4 DEF Rest

(* The types after a step of a worker's own.                               *)
LEMMA TypeStays ==
  ASSUME TypeInv, NEW w \in Worker, pc[w].at # "ended",
         UNCHANGED <<termination_progress, child_threads, endVars, started, deleted>>,
         tasks' \in [Thread -> Seq(Tasks)], reports' \in [Thread -> Seq(Reports)],
         initialized' \subseteq started, registered' \subseteq Worker,
         pc' \in [Thread -> [at : Places, child : Thread, rest : SUBSET Worker, then : Ends]],
         \A t \in Thread : t # w => pc'[t] = pc[t],
         thread_state' \in [Worker -> {"NotStarted", "Running", "ReadyToShutdown"}],
         exit_code' \in
           [Worker -> {"NotTerminated", "GracefullyTerminated", "AsyncForciblyTerminated"}],
         nested' \in [Worker -> {"none", "script", "did process task"}],
         \A v \in quit' : v \in Worker /\ nested'[v] # "none"
  PROVE  TypeInv'
<1>1. /\ \A t \in Thread : tasks'[t] \in Seq(Tasks) /\ reports'[t] \in Seq(Reports)
      /\ \A v \in deleted : pc'[v].at = "ended"
  <2>1. \A v \in deleted : pc[v].at = "ended" /\ v \in Thread
    BY Parts DEF TypeInv, TypeOK
  <2> QED BY <2>1
<1>2. TypeOK'
  BY <1>1 DEF TypeInv, TypeOK, endVars
<1> QED BY <1>2 DEF TypeInv

(* WorkerThread::InitializeOnWorkerThread, the task runners.               *)
LEMMA InitializeTaskRunnersStep ==
  ASSUME IInv, NEW w \in Worker, InitializeTaskRunners(w)
  PROVE  IInv'
<1>0. /\ Takes(w, "initialize") /\ tasks' = Rest(w) /\ Goto(w, "initialize")
      /\ initialized' = initialized \cup {w}
      /\ UNCHANGED <<reports, lockVars, endVars, lifeVars, freezeVars>>
  BY DEF InitializeTaskRunners
<1>1. /\ pc' \in [Thread -> [at : Places, child : Thread, rest : SUBSET Worker, then : Ends]]
      /\ pc'[w].at = "initialize" /\ pc'[w].then = "idle" /\ Asks(w)'
      /\ \A t \in Thread : t # w => pc'[t] = pc[t]
  BY <1>0, Goes DEF IInv, Places, Terminating
<1>2. /\ pc[w].at = "idle" /\ w \in started /\ thread_state[w] = "NotStarted"
      /\ tasks[w] \in Seq(Tasks) /\ tasks[w] # <<>> /\ Head(tasks[w]) = "initialize"
      /\ tasks' \in [Thread -> Seq(Tasks)] /\ tasks'[w] = Tail(tasks[w])
      /\ \A t \in Thread : t # w => tasks'[t] = tasks[t]
  BY <1>0, TakesTask
<1>3. TypeInv'
  <2>1. /\ initialized' \subseteq started /\ pc[w].at # "ended"
        /\ UNCHANGED <<reports, termination_progress, child_threads, endVars, started, deleted,
                       registered, thread_state, exit_code, nested, quit>>
    BY <1>0, <1>2 DEF IInv, TypeInv, TypeOK, lockVars, endVars, lifeVars, freezeVars
  <2> QED BY <1>1, <1>2, <2>1, TypeStays DEF IInv, TypeInv, TypeOK
<1>4. /\ \A x : Has(tasks[w], x) => x = "initialize" \/ Has(tasks'[w], x)
      /\ \A x : Has(tasks'[w], x) => Has(tasks[w], x)
      /\ InitializeFirst(tasks[w]) => ~ Has(tasks'[w], "initialize") /\ InitializeFirst(tasks'[w])
      /\ PerformLast(tasks[w]) => PerformLast(tasks'[w])
      /\ PrepareBefore(tasks[w]) => PrepareBefore(tasks'[w])
  BY <1>2, Taken
<1>5. Starts(w)'
  BY <1>0, <1>1, <1>2, <1>4 DEF IInv, WorkerInv, Starts, lockVars, lifeVars, freezeVars
<1>6. OwnsSlot(w)'
  BY <1>0, <1>1, <1>2 DEF IInv, WorkerInv, OwnsSlot, lockVars, lifeVars, freezeVars
<1>7. Prepares(w) => Prepares(w)'
  BY <1>0, <1>1, <1>2, <1>4 DEF Prepares, lockVars
<1>8. Shuts(w)'
  BY <1>0, <1>1, <1>2, <1>4, <1>7 DEF IInv, WorkerInv, Shuts, lockVars, lifeVars
<1> QED
  BY <1>0, <1>1, <1>2, <1>3, <1>5, <1>6, <1>7, <1>8, OwnStep, Parts
  DEF WorkerInv, Keeps, lockVars, endVars, lifeVars, freezeVars

(* WorkerThread::InitializeOnWorkerThread, the context and the slot.       *)
LEMMA InitializeContextStep ==
  ASSUME IInv, NEW w \in Worker, InitializeContext(w)
  PROVE  IInv'
<1>0. /\ pc[w].at = "initialize" /\ Goto(w, "initialized")
      /\ thread_state' = [thread_state EXCEPT ![w] = "Running"]
      /\ registered' = registered \cup {w}
      /\ UNCHANGED <<queueVars, initialized, termination_progress, exit_code, child_threads,
                     endVars, started, deleted, closing, scripts, freezeVars>>
  BY DEF InitializeContext
<1>1. /\ pc' \in [Thread -> [at : Places, child : Thread, rest : SUBSET Worker, then : Ends]]
      /\ pc'[w].at = "initialized" /\ pc'[w].then = "idle" /\ Asks(w)'
      /\ \A t \in Thread : t # w => pc'[t] = pc[t]
  BY <1>0, Goes DEF IInv, Places, Terminating
<1>2. /\ thread_state'[w] = "Running" /\ thread_state[w] = "NotStarted" /\ w \in started
      /\ nested[w] = "none"
      /\ \A v \in Worker : v # w => thread_state'[v] = thread_state[v]
  BY <1>0, Kinds DEF IInv, WorkerInv, Starts
<1>3. TypeInv'
  <2>1. /\ registered' \subseteq Worker /\ pc[w].at # "ended"
        /\ thread_state' \in [Worker -> {"NotStarted", "Running", "ReadyToShutdown"}]
        /\ UNCHANGED <<tasks, reports, initialized, termination_progress, child_threads, endVars,
                       started, deleted, exit_code, nested, quit>>
    BY <1>0 DEF IInv, TypeInv, TypeOK, queueVars, freezeVars
  <2> QED BY <1>1, <2>1, TypeStays DEF IInv, TypeInv, TypeOK
<1>4. tasks' = tasks /\ nested' = nested /\ quit' = quit
  BY <1>0 DEF queueVars, freezeVars
<1>5. Starts(w)'
  BY <1>0, <1>1, <1>2, <1>4 DEF IInv, WorkerInv, Starts
<1>6. OwnsSlot(w)'
  BY <1>0, <1>2 DEF OwnsSlot
<1>7. Prepares(w) => Prepares(w)'
  BY <1>0, <1>2, <1>4 DEF Prepares
<1>8. Shuts(w)'
  BY <1>0, <1>1, <1>2, <1>4, <1>7 DEF IInv, WorkerInv, Shuts
<1> QED
  BY <1>0, <1>1, <1>2, <1>3, <1>4, <1>5, <1>6, <1>7, <1>8, OwnStep, Parts
  DEF WorkerInv, Keeps, queueVars

(* The steps that only move a worker that runs: the look for an early      *)
(* request, the start and the end of a script, close(), a stale interrupt. *)
LEMMA PlaceStep ==
  ASSUME IInv, NEW w \in Worker, TypeInv',
         UNCHANGED <<tasks, lockVars, registered, started, nested, quit>>,
         thread_state[w] # "NotStarted", pc[w].at \notin {"initialize", "prepare", "ended"},
         \A t \in Thread : t # w => pc'[t] = pc[t],
         pc'[w].at \notin {"initialize", "prepare", "ended"},
         pc'[w].at = "script" \/ pc'[w].then = "script" => w \in registered,
         Asks(w)', \A u \in Thread : reports'[u] = reports[u] \/ Told(u)'
  PROVE  IInv'
<1>1. \A v \in Worker : Keeps(v)
  BY DEF Keeps, lockVars
<1>2. WorkerInv(w)' /\ (Prepares(w)' <=> Prepares(w))
  BY <1>1, Moved DEF IInv
<1> QED BY <1>1, <1>2, OwnStep DEF lockVars

(* A worker that gets ready for its shutdown without having been asked.    *)
LEMMA PrepareStep ==
  ASSUME IInv, NEW w \in Worker, TypeInv',
         UNCHANGED <<tasks, lockVars, registered, started, nested, quit>>,
         thread_state[w] # "NotStarted", pc[w].at \notin {"initialize", "prepare", "ended"},
         Goto(w, "prepare"), \A u \in Thread : reports'[u] = reports[u] \/ Told(u)'
  PROVE  IInv'
<1>1. /\ pc'[w].at = "prepare" /\ pc'[w].then = "idle" /\ Asks(w)'
      /\ \A t \in Thread : t # w => pc'[t] = pc[t]
  BY Goes DEF IInv, Places, Terminating
<1>2. \A v \in Worker : Keeps(v)
  BY DEF Keeps, lockVars
<1>3. Prepares(w)'
  BY <1>1 DEF Prepares
<1>4. Starts(w)' /\ OwnsSlot(w)'
  BY <1>1 DEF IInv, WorkerInv, Starts, OwnsSlot, lockVars
<1>5. Shuts(w)'
  BY <1>1, <1>3 DEF IInv, WorkerInv, Shuts, lockVars
<1> QED BY <1>1, <1>2, <1>3, <1>4, <1>5, OwnStep DEF WorkerInv, lockVars

(* A report of one of its workers is true, and so is what the owner knew.  *)
LEMMA ReportStep ==
  ASSUME TypeInv, NEW w \in Worker, w \in started, started' = started,
         NEW kind \in {"closed", "terminated"},
         reports' = Post(reports, Parent(w), Report(kind, w)),
         \A u \in Thread : Told(u),
         \A v \in Worker : pc[v].at = "ended" => pc'[v].at = "ended",
         kind = "terminated" => pc'[w].at = "ended"
  PROVE  /\ reports' \in [Thread -> Seq(Reports)]
         /\ \A u \in Thread : Told(u)'
<1>1. /\ reports \in [Thread -> Seq(Reports)] /\ Parent(w) \in Thread
      /\ Report(kind, w) \in Reports /\ Report(kind, w).kind = kind /\ Report(kind, w).child = w
  BY Kinds, Parts DEF Reports, Report
<1> DEFINE old == reports[Parent(w)]
           new == Append(old, Report(kind, w))
<1>2. /\ old \in Seq(Reports) /\ new \in Seq(Reports) /\ Len(new) = Len(old) + 1
      /\ Len(old) \in Nat
      /\ \A i \in 1 .. Len(old) : new[i] = old[i]
      /\ new[Len(old) + 1] = Report(kind, w)
  BY <1>1
<1>3. /\ reports' \in [Thread -> Seq(Reports)] /\ reports'[Parent(w)] = new
      /\ \A u \in Thread : u # Parent(w) => reports'[u] = reports[u]
  BY <1>1, <1>2 DEF Post
<1>4. ASSUME NEW u \in Thread, u # Parent(w) PROVE Told(u)'
  BY <1>3, <1>4, ToldStays
<1>5. Told(Parent(w))'
  <2> SUFFICES ASSUME NEW i \in 1 .. Len(new)
               PROVE  /\ new[i].child \in started /\ Parent(new[i].child) = Parent(w)
                      /\ new[i].kind = "terminated" => pc'[new[i].child].at = "ended"
    BY <1>3 DEF Told
  <2>1. CASE i \in 1 .. Len(old)
    <3>1. /\ old[i].child \in started /\ Parent(old[i].child) = Parent(w)
          /\ old[i].kind = "terminated" => pc[old[i].child].at = "ended"
      BY <1>1, <2>1 DEF Told
    <3>2. old[i].child \in Worker /\ new[i] = old[i]
      BY <1>2, <2>1, <3>1, Kinds
    <3> QED BY <3>1, <3>2
  <2>2. CASE i = Len(old) + 1
    BY <1>1, <1>2, <2>2
  <2> HIDE DEF old, new
  <2> QED BY <1>2, <2>1, <2>2
<1> QED BY <1>3, <1>4, <1>5

(* CheckRequestedToTerminate at the end of the initialization.             *)
LEMMA InitializedStep ==
  ASSUME IInv, NEW w \in Worker, Initialized(w)
  PROVE  IInv'
<1>0. /\ pc[w].at = "initialized" /\ thread_state[w] # "NotStarted"
      /\ UNCHANGED <<queueVars, initialized, lockVars, endVars, lifeVars, freezeVars>>
  BY DEF Initialized, IInv, WorkerInv, Starts
<1>1. PICK place \in {"did process task", "prepare"} : Goto(w, place)
  BY DEF Initialized
<1>2. /\ pc' \in [Thread -> [at : Places, child : Thread, rest : SUBSET Worker, then : Ends]]
      /\ pc'[w].at = place /\ pc'[w].then = "idle" /\ Asks(w)'
      /\ \A t \in Thread : t # w => pc'[t] = pc[t]
  BY <1>1, Goes DEF IInv, Places, Terminating
<1>3. UNCHANGED <<tasks, reports, initialized, lockVars, termination_progress, child_threads,
                  thread_state, exit_code, endVars, registered, started, deleted, nested, quit>>
  BY <1>0 DEF queueVars, lockVars, lifeVars, freezeVars
<1>4. TypeInv'
  BY <1>0, <1>2, <1>3, TypeStays DEF IInv, TypeInv, TypeOK
<1> QED BY <1>0, <1>1, <1>2, <1>3, <1>4, PlaceStep, PrepareStep

(* A script starts, which its thread does while it has its slot; it calls  *)
(* close(); it ends.                                                       *)
LEMMA ScriptStep ==
  ASSUME IInv, NEW w \in Worker, RunScript(w) \/ Close(w) \/ EndScript(w)
  PROVE  IInv'
<1>1. /\ pc[w].at \in {"idle", "script"}
      /\ pc[w].at = "idle" => thread_state[w] = "Running"
      /\ UNCHANGED <<queueVars, initialized, lockVars, endVars, registered, started, deleted,
                     freezeVars>>
      /\ pc' = pc \/ Goto(w, "script") \/ Goto(w, "did process task")
      /\ pc' = pc \/ pc[w].at = "script" \/ thread_state[w] = "Running"
  BY Parts DEF RunScript, Close, EndScript, TaskEnd, lifeVars
<1>2. thread_state[w] # "NotStarted" /\ (thread_state[w] = "Running" => w \in registered)
      /\ (pc[w].at = "script" \/ pc[w].then = "script" => w \in registered)
  BY <1>1 DEF IInv, WorkerInv, Starts, OwnsSlot
<1>3. /\ pc' \in [Thread -> [at : Places, child : Thread, rest : SUBSET Worker, then : Ends]]
      /\ pc'[w].at \in {"idle", "script", "did process task"}
      /\ pc'[w].at = "script" \/ pc'[w].then = "script" => w \in registered
      /\ Asks(w)'
      /\ \A t \in Thread : t # w => pc'[t] = pc[t]
  <2>1. CASE pc' = pc
    <3>1. Asks(w)'
      BY <1>1, <2>1 DEF Asks, Terminating
    <3> QED BY <1>1, <1>2, <2>1, <3>1, Kinds DEF IInv
  <2>2. CASE Goto(w, "script")
    <3>1. "script" \in Places \ Terminating
      BY DEF Places, Terminating
    <3>2. w \in registered
      BY <1>1, <1>2
    <3> QED BY <2>2, <3>1, <3>2, Goes DEF IInv
  <2>3. CASE Goto(w, "did process task")
    <3>1. "did process task" \in Places \ Terminating
      BY DEF Places, Terminating
    <3> QED BY <2>3, <3>1, Goes DEF IInv
  <2> QED BY <1>1, <2>1, <2>2, <2>3
<1>4. UNCHANGED <<tasks, reports, initialized, lockVars, termination_progress, child_threads,
                  thread_state, exit_code, endVars, registered, started, deleted, nested, quit>>
  BY <1>1 DEF queueVars, lockVars, freezeVars
<1>5. TypeInv'
  BY <1>1, <1>3, <1>4, TypeStays DEF IInv, TypeInv, TypeOK
<1> QED BY <1>1, <1>2, <1>3, <1>4, <1>5, PlaceStep

(* WorkerThread::DidProcessTask.                                           *)
LEMMA DidProcessTaskStep ==
  ASSUME IInv, NEW w \in Worker, DidProcessTask(w)
  PROVE  IInv'
<1>0. /\ pc[w].at = "did process task" /\ thread_state[w] # "NotStarted" /\ w \in started
      /\ UNCHANGED <<tasks, initialized, lockVars, endVars, lifeVars, freezeVars>>
  BY DEF DidProcessTask, IInv, WorkerInv, Starts
<1>1. PICK place \in {"idle", "prepare"} : Goto(w, place)
  BY DEF DidProcessTask
<1>2. /\ pc' \in [Thread -> [at : Places, child : Thread, rest : SUBSET Worker, then : Ends]]
      /\ pc'[w].at = place /\ pc'[w].then = "idle" /\ Asks(w)'
      /\ \A t \in Thread : t # w => pc'[t] = pc[t]
  BY <1>1, Goes DEF IInv, Places, Terminating
<1>3. UNCHANGED <<tasks, initialized, lockVars, termination_progress, child_threads,
                  thread_state, exit_code, endVars, registered, started, deleted, nested, quit>>
  BY <1>0 DEF lockVars, lifeVars, freezeVars
<1>4. /\ reports' \in [Thread -> Seq(Reports)]
      /\ \A u \in Thread : reports'[u] = reports[u] \/ Told(u)'
  <2>1. CASE reports' = reports
    BY <2>1, Kinds DEF IInv
  <2>2. CASE reports' = Post(reports, Parent(w), Report("closed", w))
    <3>1. \A v \in Worker : pc[v].at = "ended" => pc'[v].at = "ended"
      BY <1>0, <1>2, Parts
    <3> QED BY <1>0, <1>3, <2>2, <3>1, ReportStep DEF IInv
  <2> QED BY <2>1, <2>2 DEF DidProcessTask
<1>5. TypeInv'
  BY <1>0, <1>2, <1>3, <1>4, TypeStays DEF IInv, TypeInv, TypeOK
<1> QED BY <1>0, <1>1, <1>2, <1>3, <1>4, <1>5, PlaceStep, PrepareStep

(* A task that neither initializes nor shuts down is taken.                *)
LEMMA RestStays ==
  ASSUME IInv, NEW w \in Worker, NEW kind \in {"freeze", "resume", "prepare"}, Takes(w, kind),
         tasks'[w] = Tail(tasks[w]), pc'[w].at \notin {"initialize", "ended"},
         kind = "prepare" => pc'[w].at = "prepare",
         UNCHANGED <<thread_state, termination_progress, child_threads, started>>
  PROVE  Starts(w)' /\ Shuts(w)' /\ (Prepares(w) => Prepares(w)')
<1>1. /\ pc[w].at = "idle" /\ w \in started /\ thread_state[w] # "NotStarted"
      /\ tasks[w] \in Seq(Tasks) /\ tasks[w] # <<>> /\ Head(tasks[w]) = kind
  BY TakesTask
<1>2. /\ \A x : Has(tasks'[w], x) => Has(tasks[w], x)
      /\ \A x : Has(tasks[w], x) => x = kind \/ Has(tasks'[w], x)
      /\ InitializeFirst(tasks[w]) => InitializeFirst(tasks'[w])
      /\ PerformLast(tasks[w]) => PerformLast(tasks'[w])
      /\ PrepareBefore(tasks[w]) /\ kind # "prepare" => PrepareBefore(tasks'[w])
  BY <1>1, Taken
<1>3. Prepares(w) => Prepares(w)'
  BY <1>1, <1>2 DEF Prepares
<1>4. Starts(w)'
  BY <1>1, <1>2 DEF IInv, WorkerInv, Starts
<1>5. Shuts(w)'
  BY <1>1, <1>2, <1>3 DEF IInv, WorkerInv, Shuts
<1> QED BY <1>3, <1>4, <1>5

(* The task of PrepareForShutdownOnWorkerThread begins.                    *)
LEMMA TakePrepareStep ==
  ASSUME IInv, NEW w \in Worker, TakePrepare(w)
  PROVE  IInv'
<1>0. /\ Takes(w, "prepare") /\ tasks' = Rest(w) /\ Goto(w, "prepare")
      /\ UNCHANGED <<reports, initialized, lockVars, endVars, lifeVars, freezeVars>>
  BY DEF TakePrepare
<1>1. /\ pc' \in [Thread -> [at : Places, child : Thread, rest : SUBSET Worker, then : Ends]]
      /\ pc'[w].at = "prepare" /\ pc'[w].then = "idle" /\ Asks(w)'
      /\ \A t \in Thread : t # w => pc'[t] = pc[t]
  BY <1>0, Goes DEF IInv, Places, Terminating
<1>2. /\ pc[w].at = "idle"
      /\ tasks' \in [Thread -> Seq(Tasks)] /\ tasks'[w] = Tail(tasks[w])
      /\ \A t \in Thread : t # w => tasks'[t] = tasks[t]
  BY <1>0, TakesTask
<1>3. UNCHANGED <<reports, initialized, termination_progress, child_threads, thread_state,
                  exit_code, endVars, registered, started, deleted, nested, quit>>
  BY <1>0 DEF lockVars, lifeVars, freezeVars
<1>4. TypeInv'
  BY <1>1, <1>2, <1>3, TypeStays DEF IInv, TypeInv, TypeOK
<1>5. Starts(w)' /\ Shuts(w)' /\ (Prepares(w) => Prepares(w)')
  BY <1>0, <1>1, <1>2, <1>3, RestStays
<1>6. OwnsSlot(w)'
  BY <1>1, <1>2, <1>3 DEF IInv, WorkerInv, OwnsSlot
<1>7. \A v \in Worker : v # w => Keeps(v) /\ tasks'[v] = tasks[v]
  BY <1>2, <1>3, Parts DEF Keeps
<1> QED BY <1>1, <1>2, <1>3, <1>4, <1>5, <1>6, <1>7, OwnStep DEF WorkerInv

(* WorkerThread::ResumeOnWorkerThread.                                     *)
LEMMA ResumeOnWorkerThreadStep ==
  ASSUME IInv, NEW w \in Worker, ResumeOnWorkerThread(w)
  PROVE  IInv'
<1>0. /\ Takes(w, "resume") /\ tasks' = Rest(w) /\ Goto(w, "did process task")
      /\ quit' = IF nested[w] = "none" THEN quit ELSE quit \cup {w}
      /\ UNCHANGED <<reports, initialized, lockVars, endVars, lifeVars, frozen, resumed,
                     pending_interrupts, nested>>
  BY DEF ResumeOnWorkerThread
<1>1. /\ pc' \in [Thread -> [at : Places, child : Thread, rest : SUBSET Worker, then : Ends]]
      /\ pc'[w].at = "did process task" /\ pc'[w].then = "idle" /\ Asks(w)'
      /\ \A t \in Thread : t # w => pc'[t] = pc[t]
  BY <1>0, Goes DEF IInv, Places, Terminating
<1>2. /\ pc[w].at = "idle"
      /\ tasks' \in [Thread -> Seq(Tasks)] /\ tasks'[w] = Tail(tasks[w])
      /\ \A t \in Thread : t # w => tasks'[t] = tasks[t]
  BY <1>0, TakesTask
<1>3. UNCHANGED <<reports, initialized, termination_progress, child_threads, thread_state,
                  exit_code, endVars, registered, started, deleted, nested>>
  BY <1>0 DEF lockVars, lifeVars
<1>4. TypeInv'
  <2>1. \A v \in quit' : v \in Worker /\ nested'[v] # "none"
    BY <1>0, <1>3 DEF IInv, TypeInv, TypeOK
  <2> QED BY <1>1, <1>2, <1>3, <2>1, TypeStays DEF IInv, TypeInv, TypeOK
<1>5. Starts(w)' /\ Shuts(w)' /\ (Prepares(w) => Prepares(w)')
  BY <1>0, <1>1, <1>2, <1>3, RestStays
<1>6. OwnsSlot(w)'
  BY <1>0, <1>1, <1>2, <1>3 DEF IInv, WorkerInv, OwnsSlot
<1>7. \A v \in Worker : v # w => Keeps(v) /\ tasks'[v] = tasks[v]
  BY <1>0, <1>2, <1>3, Parts DEF Keeps
<1> QED BY <1>1, <1>2, <1>3, <1>4, <1>5, <1>6, <1>7, OwnStep DEF WorkerInv

(* Children that have not been asked to terminate get a task.              *)
LEMMA ChildrenGet ==
  ASSUME IInv, NEW u \in Thread, NEW task \in {"freeze", "resume"},
         NEW some \in SUBSET NotAsked(child_threads[u]), NEW others \in [Thread -> Seq(Tasks)],
         tasks' = [t \in Thread |-> IF t \in some THEN Append(tasks[t], task) ELSE others[t]],
         \A t \in Thread : t # u => others[t] = tasks[t]
  PROVE  /\ tasks' \in [Thread -> Seq(Tasks)]
         /\ u \in Worker => tasks'[u] = others[u]
         /\ \A v \in Worker : v # u =>
              \/ tasks'[v] = tasks[v]
              \/ /\ v \in started /\ termination_progress[v] = "NotRequested"
                 /\ tasks'[v] = Append(tasks[v], task)
<1>1. \A v \in some : /\ v \in started /\ v \in Worker /\ Parent(v) = u
                      /\ termination_progress[v] = "NotRequested"
  BY Kinds DEF IInv, NotAsked
<1>2. u \notin some
  BY <1>1, Parts
<1>3. tasks \in [Thread -> Seq(Tasks)] /\ task \in Tasks
  BY Kinds DEF IInv, Tasks
<1>4. \A t \in Thread : Append(tasks[t], task) \in Seq(Tasks)
  BY <1>3
<1> QED BY <1>1, <1>2, <1>3, <1>4, Parts

(* WorkerThread::PauseOrFreezeInsideV8InterruptOnWorkerThread.             *)
LEMMA PauseInsideInterruptStep ==
  ASSUME IInv, NEW w \in Worker, PauseInsideInterrupt(w)
  PROVE  IInv'
<1>0. /\ pc[w].at = "script" /\ w \in Thread /\ w \in registered
      /\ thread_state[w] # "NotStarted"
      /\ UNCHANGED <<reports, initialized, lockVars, endVars, lifeVars, resumed, quit>>
  BY Parts DEF PauseInsideInterrupt, IInv, WorkerInv, Starts, OwnsSlot
<1>1. UNCHANGED <<reports, initialized, lockVars, termination_progress, child_threads,
                  thread_state, exit_code, endVars, registered, started, deleted, quit>>
  BY <1>0 DEF lockVars, lifeVars
<1>2. CASE UNCHANGED <<nested, pc, tasks>>
  <2>1. Asks(w)' /\ TypeInv'
    BY <1>0, <1>1, <1>2, TypeStays DEF IInv, TypeInv, TypeOK, Asks, Terminating
  <2> QED BY <1>0, <1>1, <1>2, <2>1, PlaceStep
<1>3. CASE thread_state[w] = "Running"
  <2>1. PICK some \in SUBSET NotAsked(child_threads[w]) :
          /\ nested' = [nested EXCEPT ![w] = "script"] /\ Goto(w, "idle")
          /\ tasks' = [t \in Thread |-> IF t \in some THEN Append(tasks[t], "freeze")
                                        ELSE tasks[t]]
    BY <1>3 DEF PauseInsideInterrupt, PostAll
  <2>2. /\ pc' \in [Thread -> [at : Places, child : Thread, rest : SUBSET Worker, then : Ends]]
        /\ pc'[w].at = "idle" /\ pc'[w].then = "idle" /\ Asks(w)'
        /\ \A t \in Thread : t # w => pc'[t] = pc[t]
    BY <2>1, Goes DEF IInv, Places, Terminating
  <2>3. /\ tasks' \in [Thread -> Seq(Tasks)] /\ tasks'[w] = tasks[w]
        /\ \A v \in Worker : v # w =>
             \/ tasks'[v] = tasks[v]
             \/ /\ v \in started /\ termination_progress[v] = "NotRequested"
                /\ tasks'[v] = Append(tasks[v], "freeze")
    <3>1. tasks \in [Thread -> Seq(Tasks)]
      BY Kinds DEF IInv
    <3>2. \A t \in Thread : t # w => tasks[t] = tasks[t]
      OBVIOUS
    <3> QED BY <1>0, <2>1, <3>1, <3>2, ChildrenGet
  <2>4. /\ nested'[w] = "script" /\ \A v \in Worker : v # w => nested'[v] = nested[v]
        /\ nested' \in [Worker -> {"none", "script", "did process task"}]
        /\ \A v \in quit : v \in Worker /\ nested'[v] # "none"
    BY <2>1 DEF IInv, TypeInv, TypeOK
  <2>5. TypeInv'
    <3>1. /\ TypeInv /\ reports \in [Thread -> Seq(Reports)] /\ pc[w].at # "ended"
          /\ initialized \subseteq started /\ registered \subseteq Worker
          /\ thread_state \in [Worker -> {"NotStarted", "Running", "ReadyToShutdown"}]
          /\ exit_code \in
               [Worker -> {"NotTerminated", "GracefullyTerminated", "AsyncForciblyTerminated"}]
      BY <1>0 DEF IInv, TypeInv, TypeOK
    <3> QED BY <1>1, <2>2, <2>3, <2>4, <3>1, TypeStays
  <2>6. Starts(w)' /\ OwnsSlot(w)'
    BY <1>0, <1>1, <1>3, <2>2, <2>3, <2>4 DEF IInv, WorkerInv, Starts, OwnsSlot
  <2>7. Prepares(w) => Prepares(w)'
    BY <1>0, <1>1, <2>2, <2>3 DEF Prepares
  <2>8. Shuts(w)'
    BY <1>0, <1>1, <2>2, <2>3, <2>7 DEF IInv, WorkerInv, Shuts
  <2>9. \A v \in Worker : v # w => Keeps(v)
    BY <1>1, <2>4 DEF Keeps
  <2> QED BY <1>0, <1>1, <2>2, <2>3, <2>5, <2>6, <2>7, <2>8, <2>9, OwnStep DEF WorkerInv
<1> QED BY <1>2, <1>3 DEF PauseInsideInterrupt

(* WorkerThread::PauseOrFreezeInsidePostTaskOnWorkerThread.                *)
LEMMA PauseInsidePostTaskStep ==
  ASSUME IInv, NEW w \in Worker, PauseInsidePostTask(w)
  PROVE  IInv'
<1>0. /\ Takes(w, "freeze") /\ w \in Thread
      /\ UNCHANGED <<reports, initialized, lockVars, endVars, lifeVars, resumed, quit>>
  BY Parts DEF PauseInsidePostTask
<1>1. UNCHANGED <<reports, initialized, lockVars, termination_progress, child_threads,
                  thread_state, exit_code, endVars, registered, started, deleted, quit>>
  BY <1>0 DEF lockVars, lifeVars
<1>2. /\ pc[w].at = "idle" /\ thread_state[w] # "NotStarted" /\ w \notin quit
      /\ Rest(w) \in [Thread -> Seq(Tasks)] /\ Rest(w)[w] = Tail(tasks[w])
      /\ \A t \in Thread : t # w => Rest(w)[t] = tasks[t]
  BY <1>0, TakesTask
<1>3. \/ /\ thread_state[w] = "Running"
         /\ nested' = [nested EXCEPT ![w] = "did process task"] /\ Goto(w, "idle")
      \/ nested' = nested /\ Goto(w, "did process task")
  BY DEF PauseInsidePostTask
<1>4. /\ pc' \in [Thread -> [at : Places, child : Thread, rest : SUBSET Worker, then : Ends]]
      /\ pc'[w].at \in {"idle", "did process task"} /\ pc'[w].then = "idle" /\ Asks(w)'
      /\ \A t \in Thread : t # w => pc'[t] = pc[t]
  <2>1. PICK place \in {"idle", "did process task"} : Goto(w, place)
    BY <1>3
  <2>2. place \in Places \ Terminating
    BY DEF Places, Terminating
  <2> QED BY <2>1, <2>2, Goes DEF IInv
<1>5. /\ tasks' \in [Thread -> Seq(Tasks)] /\ tasks'[w] = Tail(tasks[w])
      /\ \A v \in Worker : v # w =>
           \/ tasks'[v] = tasks[v]
           \/ /\ v \in started /\ termination_progress[v] = "NotRequested"
              /\ tasks'[v] = Append(tasks[v], "freeze")
  <2>1. PICK some \in SUBSET NotAsked(child_threads[w]) :
          tasks' = [t \in Thread |-> IF t \in some THEN Append(tasks[t], "freeze")
                                     ELSE Rest(w)[t]]
    <3>1. CASE tasks' = Rest(w)
      <4>1. Rest(w) = [t \in Thread |-> IF t \in {} THEN Append(tasks[t], "freeze")
                                        ELSE Rest(w)[t]]
        BY <1>2
      <4> QED BY <3>1, <4>1
    <3> QED BY <3>1 DEF PauseInsidePostTask
  <2>2. PICK others \in [Thread -> Seq(Tasks)] : others = Rest(w)
    BY <1>2
  <2>3. /\ tasks' = [t \in Thread |-> IF t \in some THEN Append(tasks[t], "freeze") ELSE others[t]]
        /\ \A t \in Thread : t # w => others[t] = tasks[t]
        /\ others[w] = Tail(tasks[w])
    BY <1>2, <2>1, <2>2
  <2>4. /\ w \in Thread /\ some \in SUBSET NotAsked(child_threads[w])
        /\ others \in [Thread -> Seq(Tasks)]
    BY <1>0, <2>1, <2>2
  <2>5. /\ tasks' \in [Thread -> Seq(Tasks)]
        /\ w \in Worker => tasks'[w] = others[w]
        /\ \A v \in Worker : v # w =>
             \/ tasks'[v] = tasks[v]
             \/ /\ v \in started /\ termination_progress[v] = "NotRequested"
                /\ tasks'[v] = Append(tasks[v], "freeze")
    BY <2>3, <2>4, ChildrenGet
  <2> QED BY <2>3, <2>5
<1>6. /\ \A v \in Worker : v # w => nested'[v] = nested[v]
      /\ nested' \in [Worker -> {"none", "script", "did process task"}]
      /\ \A v \in quit : v \in Worker /\ nested'[v] # "none"
      /\ nested'[w] = nested[w] \/ (nested'[w] = "did process task" /\ thread_state[w] = "Running")
  BY <1>3 DEF IInv, TypeInv, TypeOK
<1>7. TypeInv'
  <2>1. /\ TypeInv /\ reports \in [Thread -> Seq(Reports)] /\ pc[w].at # "ended"
        /\ initialized \subseteq started /\ registered \subseteq Worker
        /\ thread_state \in [Worker -> {"NotStarted", "Running", "ReadyToShutdown"}]
        /\ exit_code \in
             [Worker -> {"NotTerminated", "GracefullyTerminated", "AsyncForciblyTerminated"}]
    BY <1>2 DEF IInv, TypeInv, TypeOK
  <2> QED BY <1>1, <1>4, <1>5, <1>6, <2>1, TypeStays
<1>8. Starts(w)' /\ Shuts(w)' /\ (Prepares(w) => Prepares(w)')
  BY <1>0, <1>1, <1>4, <1>5, RestStays
<1>9. OwnsSlot(w)'
  BY <1>1, <1>4, <1>6 DEF IInv, WorkerInv, OwnsSlot
<1>10. \A v \in Worker : v # w => Keeps(v)
  BY <1>1, <1>6 DEF Keeps
<1> QED BY <1>1, <1>2, <1>4, <1>5, <1>7, <1>8, <1>9, <1>10, OwnStep DEF WorkerInv

(* The nested event loop of WorkerThread::PauseOrFreezeOnWorkerThread ends.*)
LEMMA LeaveNestedLoopStep ==
  ASSUME IInv, NEW w \in Worker, LeaveNestedLoop(w)
  PROVE  IInv'
<1>0. /\ pc[w].at = "idle" /\ w \in quit /\ w \in Thread /\ nested[w] # "none"
      /\ Goto(w, nested[w]) /\ nested' = [nested EXCEPT ![w] = "none"] /\ quit' = quit \ {w}
      /\ UNCHANGED <<reports, initialized, lockVars, endVars, lifeVars, frozen,
                     pending_interrupts>>
  BY Parts DEF LeaveNestedLoop, IInv, TypeInv, TypeOK
<1>1. UNCHANGED <<reports, initialized, lockVars, termination_progress, child_threads,
                  thread_state, exit_code, endVars, registered, started, deleted>>
  BY <1>0 DEF lockVars, lifeVars
<1>2. /\ nested[w] \in {"script", "did process task"} /\ thread_state[w] # "NotStarted"
      /\ nested[w] = "script" => w \in registered
  BY <1>0, Kinds DEF IInv, WorkerInv, Starts, OwnsSlot
<1>3. /\ pc' \in [Thread -> [at : Places, child : Thread, rest : SUBSET Worker, then : Ends]]
      /\ pc'[w].at = nested[w] /\ pc'[w].then = "idle" /\ Asks(w)'
      /\ \A t \in Thread : t # w => pc'[t] = pc[t]
  <2>1. nested[w] \in Places \ Terminating
    BY <1>2 DEF Places, Terminating
  <2> QED BY <1>0, <2>1, Goes DEF IInv
<1>4. /\ tasks' \in [Thread -> Seq(Tasks)] /\ tasks'[w] = tasks[w]
      /\ \A v \in Worker : v # w =>
           \/ tasks'[v] = tasks[v]
           \/ /\ v \in started /\ termination_progress[v] = "NotRequested"
              /\ tasks'[v] = Append(tasks[v], "resume")
  <2>1. tasks \in [Thread -> Seq(Tasks)] /\ \A t \in Thread : t # w => tasks[t] = tasks[t]
    BY Kinds DEF IInv
  <2>2. CASE tasks' = tasks
    BY <1>0, <2>1, <2>2
  <2>3. CASE tasks' # tasks
    <3>1. PICK some \in SUBSET NotAsked(child_threads[w]) :
            tasks' = [t \in Thread |-> IF t \in some THEN Append(tasks[t], "resume")
                                       ELSE tasks[t]]
      BY <2>3 DEF LeaveNestedLoop, PostAll, NotAsked
    <3>2. tasks'[w] = tasks[w]
      BY <1>0, <2>1, <3>1, ChildrenGet
    <3> QED BY <1>0, <2>1, <3>1, <3>2, ChildrenGet
  <2> QED BY <2>2, <2>3
<1>5. /\ nested'[w] = "none" /\ \A v \in Worker : v # w => nested'[v] = nested[v]
      /\ nested' \in [Worker -> {"none", "script", "did process task"}]
      /\ \A v \in quit' : v \in Worker /\ nested'[v] # "none"
  BY <1>0 DEF IInv, TypeInv, TypeOK
<1>6. TypeInv'
  <2>1. /\ TypeInv /\ reports \in [Thread -> Seq(Reports)] /\ pc[w].at # "ended"
        /\ initialized \subseteq started /\ registered \subseteq Worker
        /\ thread_state \in [Worker -> {"NotStarted", "Running", "ReadyToShutdown"}]
        /\ exit_code \in
             [Worker -> {"NotTerminated", "GracefullyTerminated", "AsyncForciblyTerminated"}]
    BY <1>0 DEF IInv, TypeInv, TypeOK
  <2> QED BY <1>1, <1>3, <1>4, <1>5, <2>1, TypeStays
<1>7. Starts(w)' /\ OwnsSlot(w)'
  BY <1>0, <1>1, <1>2, <1>3, <1>4, <1>5 DEF IInv, WorkerInv, Starts, OwnsSlot
<1>8. Prepares(w) => Prepares(w)'
  BY <1>0, <1>1, <1>4 DEF Prepares
<1>9. Shuts(w)'
  BY <1>0, <1>1, <1>2, <1>3, <1>4, <1>8 DEF IInv, WorkerInv, Shuts
<1>10. \A v \in Worker : v # w => Keeps(v)
  BY <1>0, <1>1, <1>5 DEF Keeps
<1> QED
  BY <1>0, <1>1, <1>3, <1>4, <1>6, <1>7, <1>8, <1>9, <1>10, OwnStep DEF WorkerInv

(* WorkerThread::PrepareForShutdownOnWorkerThread.                         *)
LEMMA PrepareForShutdownStep ==
  ASSUME IInv, NEW w \in Worker, PrepareForShutdown(w)
  PROVE  IInv'
<1>0. /\ pc[w].at = "prepare" /\ w \in Thread /\ w \in started
      /\ thread_state[w] # "NotStarted"
      /\ UNCHANGED <<queueVars, initialized, termination_progress, exit_code, child_threads,
                     endVars, lifeVars, frozen, resumed, pending_interrupts, nested>>
  BY Parts DEF PrepareForShutdown, IInv, WorkerInv, Starts
<1>1. UNCHANGED <<tasks, reports, initialized, termination_progress, child_threads, exit_code,
                  endVars, registered, started, deleted, nested>>
  BY <1>0 DEF queueVars, lifeVars
<1>2. /\ thread_state'[w] = "ReadyToShutdown"
      /\ \A v \in Worker : v # w => thread_state'[v] = thread_state[v]
      /\ thread_state' \in [Worker -> {"NotStarted", "Running", "ReadyToShutdown"}]
  BY Kinds DEF PrepareForShutdown, IInv
<1>3. /\ quit' \subseteq quit \cup {w} /\ quit \subseteq quit'
      /\ nested[w] # "none" => w \in quit'
      /\ nested[w] = "none" => quit' = quit
  BY DEF PrepareForShutdown, IInv, WorkerInv, OwnsSlot
<1>4. \/ Goto(w, "did process task")
      \/ \E c \in child_threads[w] :
           Terminates(w, c, child_threads[w] \ {c}, "did process task")
  BY DEF PrepareForShutdown
<1>5. /\ pc' \in [Thread -> [at : Places, child : Thread, rest : SUBSET Worker, then : Ends]]
      /\ pc'[w].at \in {"did process task", "request"}
      /\ pc'[w].then \in {"idle", "did process task"}
      /\ Asks(w)'
      /\ \A t \in Thread : t # w => pc'[t] = pc[t]
  <2>1. CASE Goto(w, "did process task")
    BY <2>1, Goes DEF IInv, Places, Terminating
  <2>2. CASE \E c \in child_threads[w] :
               Terminates(w, c, child_threads[w] \ {c}, "did process task")
    <3>1. PICK c \in child_threads[w] :
            Terminates(w, c, child_threads[w] \ {c}, "did process task")
      BY <2>2
    <3> DEFINE place == [at |-> "request", child |-> c, rest |-> child_threads[w] \ {c},
                         then |-> "did process task"]
    <3>2. \A v \in child_threads[w] : v \in started /\ v \in Worker /\ Parent(v) = w
      BY <1>0, Kinds DEF IInv
    <3>3. place \in [at : Places, child : Thread, rest : SUBSET Worker, then : Ends]
      BY <3>1, <3>2, Parts DEF Places, Terminating, Ends
    <3>4. pc' = [pc EXCEPT ![w] = place] /\ pc'[w] = place
      BY <1>0, <3>1, Kinds DEF Terminates, IInv
    <3>5. /\ place.at = "request" /\ place.child = c /\ place.then = "did process task"
          /\ place.rest = child_threads[w] \ {c}
      OBVIOUS
    <3> HIDE DEF place
    <3>6. Asks(w)'
      BY <1>1, <3>1, <3>2, <3>4, <3>5 DEF Asks
    <3> QED BY <3>3, <3>4, <3>5, <3>6, Kinds DEF IInv
  <2> QED BY <1>4, <2>1, <2>2
<1>6. TypeInv'
  <2>1. /\ TypeInv /\ reports \in [Thread -> Seq(Reports)] /\ pc[w].at # "ended"
        /\ tasks \in [Thread -> Seq(Tasks)]
        /\ initialized \subseteq started /\ registered \subseteq Worker
        /\ nested \in [Worker -> {"none", "script", "did process task"}]
        /\ exit_code \in
             [Worker -> {"NotTerminated", "GracefullyTerminated", "AsyncForciblyTerminated"}]
        /\ \A v \in quit' : v \in Worker /\ nested[v] # "none"
    BY <1>0, <1>3 DEF IInv, TypeInv, TypeOK
  <2> QED BY <1>1, <1>2, <1>5, <2>1, TypeStays
<1>7. Starts(w)' /\ OwnsSlot(w)'
  BY <1>0, <1>1, <1>2, <1>3, <1>5 DEF IInv, WorkerInv, Starts, OwnsSlot
<1>8. Prepares(w)'
  BY <1>2 DEF Prepares
<1>9. Shuts(w)'
  BY <1>0, <1>1, <1>2, <1>5, <1>8 DEF IInv, WorkerInv, Shuts
<1>10. \A v \in Worker : v # w => Keeps(v)
  BY <1>1, <1>2, <1>3 DEF Keeps
<1> QED BY <1>0, <1>1, <1>2, <1>5, <1>6, <1>7, <1>8, <1>9, <1>10, OwnStep DEF WorkerInv

(* WorkerThread::PerformShutdownOnWorkerThread: nothing is left to do.     *)
LEMMA PerformShutdownStep ==
  ASSUME IInv, NEW w \in Worker, PerformShutdown(w)
  PROVE  IInv'
<1>0. /\ Takes(w, "perform") /\ w \in Thread /\ tasks' = Rest(w)
      /\ registered' = registered \ {w}
      /\ reports' = Post(reports, Parent(w), Report("terminated", w))
      /\ exit_code' = [exit_code EXCEPT ![w] = IF @ = "NotTerminated"
                                               THEN "GracefullyTerminated" ELSE @]
      /\ Goto(w, "ended")
      /\ UNCHANGED <<initialized, thread_state, termination_progress, child_threads, endVars,
                     started, deleted, nested, quit>>
  BY Parts DEF PerformShutdown, freezeVars
<1>1. /\ pc' \in [Thread -> [at : Places, child : Thread, rest : SUBSET Worker, then : Ends]]
      /\ pc'[w].at = "ended" /\ pc'[w].then = "idle" /\ Asks(w)'
      /\ \A t \in Thread : t # w => pc'[t] = pc[t]
  BY <1>0, Goes DEF IInv, Places, Terminating
<1>2. /\ pc[w].at = "idle" /\ thread_state[w] # "NotStarted" /\ w \notin quit /\ w \in started
      /\ tasks[w] \in Seq(Tasks) /\ tasks[w] # <<>> /\ Head(tasks[w]) = "perform"
      /\ Has(tasks[w], "perform")
      /\ tasks' \in [Thread -> Seq(Tasks)] /\ tasks'[w] = Tail(tasks[w])
      /\ \A t \in Thread : t # w => tasks'[t] = tasks[t]
  BY <1>0, TakesTask
<1>3. /\ PerformLast(tasks[w]) => tasks'[w] = <<>>
      /\ ~ PrepareBefore(tasks[w])
  BY <1>2, Taken
<1>4. /\ termination_progress[w] = "Performing" /\ thread_state[w] = "ReadyToShutdown"
      /\ tasks'[w] = <<>> /\ child_threads[w] = {} /\ nested[w] = "none"
  BY <1>2, <1>3 DEF IInv, WorkerInv, Shuts, OwnsSlot
<1>5. /\ reports' \in [Thread -> Seq(Reports)]
      /\ \A u \in Thread : Told(u)'
  <2>1. \A v \in Worker : pc[v].at = "ended" => pc'[v].at = "ended"
    BY <1>1, Parts
  <2> QED BY <1>0, <1>1, <1>2, <2>1, ReportStep DEF IInv
<1>6. TypeInv'
  <2>1. /\ TypeInv /\ initialized \subseteq started /\ registered' \subseteq Worker
        /\ exit_code' \in
             [Worker -> {"NotTerminated", "GracefullyTerminated", "AsyncForciblyTerminated"}]
        /\ \A v \in quit : v \in Worker /\ nested[v] # "none"
    BY <1>0 DEF IInv, TypeInv, TypeOK
  <2>2. /\ thread_state \in [Worker -> {"NotStarted", "Running", "ReadyToShutdown"}]
        /\ nested \in [Worker -> {"none", "script", "did process task"}]
    BY Kinds DEF IInv
  <2> QED BY <1>0, <1>1, <1>2, <1>5, <2>1, <2>2, TypeStays
<1>7. Prepares(w)'
  BY <1>0, <1>4 DEF Prepares
<1>8. Starts(w)' /\ OwnsSlot(w)'
  BY <1>0, <1>1, <1>2, <1>4, NothingPosted DEF Starts, OwnsSlot
<1>9. Shuts(w)'
  BY <1>0, <1>1, <1>4, <1>7, NothingPosted DEF Shuts
<1>10. \A v \in Worker : v # w => Keeps(v) /\ tasks'[v] = tasks[v]
  BY <1>0, <1>2, Parts DEF Keeps
<1> QED
  BY <1>0, <1>1, <1>2, <1>5, <1>6, <1>7, <1>8, <1>9, <1>10, OwnStep DEF WorkerInv

-----------------------------------------------------------------------------
(* The steps of the owners.                                                *)

(* The types after a step of an owner.                                     *)
LEMMA OwnerTypes ==
  ASSUME TypeInv,
         UNCHANGED <<initialized, thread_state, child_threads, registered, started, deleted,
                     nested, quit>>,
         tasks' \in [Thread -> Seq(Tasks)], reports' \in [Thread -> Seq(Reports)],
         pc' \in [Thread -> [at : Places, child : Thread, rest : SUBSET Worker, then : Ends]],
         \A v \in Worker : pc[v].at = "ended" => pc'[v].at = "ended",
         termination_progress' \in
           [Worker -> {"NotRequested", "Requested", "Prepared", "Performing"}],
         exit_code' \in
           [Worker -> {"NotTerminated", "GracefullyTerminated", "AsyncForciblyTerminated"}],
         timer' \subseteq started \ deleted, interrupted' \subseteq started
  PROVE  TypeInv'
<1>1. /\ \A t \in Thread : tasks'[t] \in Seq(Tasks) /\ reports'[t] \in Seq(Reports)
      /\ \A v \in deleted : pc'[v].at = "ended"
  BY DEF TypeInv, TypeOK
<1>2. TypeOK'
  BY <1>1 DEF TypeInv, TypeOK
<1> QED BY <1>2 DEF TypeInv

(* A step of u, which terminates its worker w.                             *)
LEMMA OwnerStep ==
  ASSUME IInv, NEW u \in Thread, NEW w \in Worker, Parent(w) = u, TypeInv',
         UNCHANGED <<thread_state, child_threads, registered, started, nested, quit>>,
         \A t \in Thread : t # u => pc'[t] = pc[t],
         u \in Worker =>
           /\ thread_state[u] # "NotStarted"
           /\ pc[u].at \notin {"initialize", "prepare", "ended"}
           /\ pc'[u].at \notin {"initialize", "prepare", "ended"}
           /\ pc'[u].at = "script" \/ pc'[u].then = "script" => u \in registered,
         \A v \in Worker : v # w => /\ tasks'[v] = tasks[v]
                                    /\ termination_progress'[v] = termination_progress[v],
         WorkerInv(w)', Prepares(w) => Prepares(w)', Asks(u)',
         \A t \in Thread : reports'[t] = reports[t] \/ Told(t)'
  PROVE  IInv'
<1>0. u # w /\ pc'[w] = pc[w]
  BY Parts
<1>1. ASSUME NEW v \in Worker
      PROVE  WorkerInv(v)' /\ (Prepares(v) => Prepares(v)')
  <2>1. v # w => Keeps(v) /\ tasks'[v] = tasks[v]
    BY DEF Keeps
  <2>2. CASE v = w
    BY <2>2
  <2>3. CASE v # w /\ v # u
    <3>1. pc'[v] = pc[v] /\ WorkerInv(v)
      BY <2>3, Parts DEF IInv
    <3> QED BY <2>1, <2>3, <3>1, Unmoved
  <2>4. CASE v = u /\ v # w
    <3>1. WorkerInv(v)
      BY DEF IInv
    <3> QED BY <2>1, <2>4, <3>1, Moved
  <2> QED BY <2>2, <2>3, <2>4
<1>2. ASSUME NEW t \in Thread PROVE Asks(t)'
  <2>1. CASE t = u
    BY <2>1
  <2>2. CASE t # u
    BY <1>1, <2>2, AsksStay DEF IInv
  <2> QED BY <2>1, <2>2
<1>3. ASSUME NEW t \in Thread PROVE Told(t)'
  <2>1. \A v \in Worker : pc[v].at = "ended" => pc'[v].at = "ended"
    BY Parts
  <2> QED BY <2>1, ToldStays DEF IInv
<1>4. OwnerRuns'
  BY DEF IInv, OwnerRuns
<1> QED BY <1>1, <1>2, <1>3, <1>4 DEF IInv

(* An owner begins to terminate one of its workers.                        *)
LEMMA BeginsToAsk ==
  ASSUME IInv, NEW u \in Thread, NEW w \in started, Parent(w) = u, NEW rest \in SUBSET started,
         \A v \in rest : Parent(v) = u, NEW then \in Ends, Terminates(u, w, rest, then),
         started' = started
  PROVE  /\ pc' \in [Thread -> [at : Places, child : Thread, rest : SUBSET Worker, then : Ends]]
         /\ pc'[u].at = "request" /\ pc'[u].then = then /\ Asks(u)'
         /\ \A t \in Thread : t # u => pc'[t] = pc[t]
<1> DEFINE place == [at |-> "request", child |-> w, rest |-> rest, then |-> then]
<1>1. place \in [at : Places, child : Thread, rest : SUBSET Worker, then : Ends]
  BY Kinds, Parts DEF IInv, Places, Terminating
<1>2. /\ place.at = "request" /\ place.child = w /\ place.rest = rest /\ place.then = then
  OBVIOUS
<1>3. pc' = [pc EXCEPT ![u] = place] /\ pc'[u] = place
  BY Kinds DEF Terminates, IInv
<1> HIDE DEF place
<1>4. /\ w \in started' /\ \A v \in rest : v \in started' /\ Parent(v) = u
      /\ "request" \notin {"post prepare", "prepared"}
  OBVIOUS
<1>5. Asks(u)'
  BY <1>2, <1>3, <1>4 DEF Asks
<1> QED BY <1>1, <1>2, <1>3, <1>5, Kinds DEF IInv

(* An owner goes on with its next worker, or where it was.                 *)
LEMMA GoesOn ==
  ASSUME IInv, NEW u \in Thread, pc[u].at \in Terminating, NextChild(u), started' = started
  PROVE  /\ pc' \in [Thread -> [at : Places, child : Thread, rest : SUBSET Worker, then : Ends]]
         /\ pc'[u].at \in {"request"} \cup Ends
         /\ pc'[u].at = "script" \/ pc'[u].then = "script" => pc[u].then = "script"
         /\ Asks(u)'
         /\ \A t \in Thread : t # u => pc'[t] = pc[t]
<1>1. pc[u].then \in Ends /\ \A w \in pc[u].rest : w \in started /\ Parent(w) = u
  BY Kinds DEF IInv, Asks
<1>2. CASE Goto(u, pc[u].then)
  <2>1. pc[u].then \in Places \ Terminating
    BY <1>1 DEF Ends, Places, Terminating
  <2> QED BY <1>1, <1>2, <2>1, ThreadGoes DEF IInv
<1>3. CASE \E w \in pc[u].rest : Terminates(u, w, pc[u].rest \ {w}, pc[u].then)
  <2>1. PICK w \in pc[u].rest : Terminates(u, w, pc[u].rest \ {w}, pc[u].then)
    BY <1>3
  <2>2. w \in started /\ Parent(w) = u /\ pc[u].rest \ {w} \in SUBSET started
        /\ \A v \in pc[u].rest \ {w} : Parent(v) = u
    BY <1>1, <2>1
  <2> QED BY <1>1, <2>1, <2>2, BeginsToAsk
<1> QED BY <1>2, <1>3 DEF NextChild

(* An owner in the middle of terminating one of its workers has itself been*)
(* initialized, and it returns to a script only while it has its slot.     *)
LEMMA Asking ==
  ASSUME IInv, NEW u \in Thread, pc[u].at \in Terminating
  PROVE  /\ pc[u].child \in started /\ pc[u].child \in Worker /\ Parent(pc[u].child) = u
         /\ pc[u].at \notin {"initialize", "prepare", "ended"}
         /\ u \in Worker => /\ thread_state[u] # "NotStarted"
                            /\ pc[u].then = "script" => u \in registered
<1>1. pc[u].at \notin {"idle", "initialize", "prepare", "ended"}
  BY DEF Terminating
<1>2. pc[u].child \in started /\ pc[u].child \in Worker /\ Parent(pc[u].child) = u
  BY Kinds DEF IInv, Asks
<1> QED BY <1>1, <1>2 DEF IInv, WorkerInv, Starts, OwnsSlot

(* An owner goes on with the worker that it is terminating.                *)
LEMMA PlaceChanges ==
  ASSUME TypeInv, NEW u \in Thread, NEW place \in Places, pc' = [pc EXCEPT ![u].at = place]
  PROVE  /\ pc' \in [Thread -> [at : Places, child : Thread, rest : SUBSET Worker, then : Ends]]
         /\ pc'[u].at = place /\ pc'[u].then = pc[u].then
         /\ pc'[u].child = pc[u].child /\ pc'[u].rest = pc[u].rest
         /\ \A t \in Thread : t # u => pc'[t] = pc[t]
<1> DEFINE old == pc[u]
           new == [old EXCEPT !.at = place]
<1>1. pc' = [pc EXCEPT ![u] = new]
  OBVIOUS
<1>2. old \in [at : Places, child : Thread, rest : SUBSET Worker, then : Ends]
  BY Kinds
<1> HIDE DEF old
<1>3. /\ new \in [at : Places, child : Thread, rest : SUBSET Worker, then : Ends]
      /\ new.at = place /\ new.then = old.then /\ new.child = old.child /\ new.rest = old.rest
  BY <1>2
<1> HIDE DEF new
<1>4. pc'[u] = new
  BY <1>1, Kinds
<1> QED BY <1>1, <1>3, <1>4, Kinds DEF old

(* WorkerThread::Terminate is called.                                      *)
LEMMA TerminateStep ==
  ASSUME IInv, NEW w \in Worker, Terminate(w)
  PROVE  IInv'
<1> DEFINE u == Parent(w)
<1>0. /\ u \in Thread /\ CallsFrom(u) /\ w \in started /\ Terminates(u, w, {}, pc[u].at)
      /\ UNCHANGED <<queueVars, initialized, lockVars, endVars, lifeVars, freezeVars>>
  BY Kinds, Parts DEF Terminate, NotAsked, IInv
<1>1. UNCHANGED <<tasks, reports, initialized, thread_state, termination_progress, exit_code,
                  child_threads, timer, interrupted, registered, started, deleted, nested, quit>>
  BY <1>0 DEF queueVars, lockVars, endVars, lifeVars, freezeVars
<1>2. /\ pc[u].at \in Ends /\ pc[u].at \notin {"initialize", "prepare", "ended"}
      /\ u \in Worker => thread_state[u] # "NotStarted" /\ u \in registered
  <2>1. u \in Worker => u # Main
    BY ParentAssumption
  <2> QED BY <1>0, <2>1 DEF CallsFrom, Ends, IInv, WorkerInv, Starts, OwnsSlot
<1> HIDE DEF u
<1>3. /\ pc' \in [Thread -> [at : Places, child : Thread, rest : SUBSET Worker, then : Ends]]
      /\ pc'[u].at = "request" /\ pc'[u].then = pc[u].at /\ Asks(u)'
      /\ \A t \in Thread : t # u => pc'[t] = pc[t]
  <2>1. Parent(w) = u
    BY DEF u
  <2> QED BY <1>0, <1>1, <1>2, <2>1, BeginsToAsk
<1>4. TypeInv'
  <2>1. \A v \in Worker : pc[v].at = "ended" => pc'[v].at = "ended"
    BY <1>2, <1>3, Parts
  <2> QED BY <1>1, <1>3, <2>1, OwnerTypes DEF IInv, TypeInv, TypeOK
<1>5. /\ Keeps(w) /\ WorkerInv(w) /\ pc'[w] = pc[w] /\ tasks'[w] = tasks[w]
  BY <1>1, <1>3, Parts DEF Keeps, IInv, u
<1>6. WorkerInv(w)' /\ (Prepares(w) => Prepares(w)')
  BY <1>5, Unmoved
<1> QED BY <1>0, <1>1, <1>2, <1>3, <1>4, <1>6, OwnerStep DEF u

(* WorkerThread::Terminate, up to the posting of the preparation.          *)
LEMMA RequestTerminationStep ==
  ASSUME IInv, NEW u \in Thread, RequestTermination(u)
  PROVE  IInv'
<1> PICK w : w = pc[u].child
  OBVIOUS
<1>0. /\ pc[u].at = "request" /\ pc[u].at \in Terminating
      /\ UNCHANGED <<queueVars, initialized, thread_state, exit_code, child_threads,
                     interrupted, lifeVars, freezeVars>>
  BY DEF RequestTermination, Terminating
<1>1. UNCHANGED <<tasks, reports, initialized, thread_state, exit_code, child_threads,
                  interrupted, registered, started, deleted, nested, quit>>
  BY <1>0 DEF queueVars, lifeVars, freezeVars
<1>2. /\ w \in started /\ w \in Worker /\ Parent(w) = u
      /\ pc[u].at \notin {"initialize", "prepare", "ended"}
      /\ u \in Worker => /\ thread_state[u] # "NotStarted"
                         /\ pc[u].then = "script" => u \in registered
  BY <1>0, Asking
<1>3. CASE /\ termination_progress[w] # "NotRequested"
           /\ NextChild(u) /\ UNCHANGED <<termination_progress, timer>>
  <2>1. /\ pc' \in [Thread -> [at : Places, child : Thread, rest : SUBSET Worker, then : Ends]]
        /\ pc'[u].at \in {"request"} \cup Ends
        /\ pc'[u].at = "script" \/ pc'[u].then = "script" => pc[u].then = "script"
        /\ Asks(u)'
        /\ \A t \in Thread : t # u => pc'[t] = pc[t]
    BY <1>0, <1>1, <1>3, GoesOn
  <2>2. pc'[u].at \notin {"initialize", "prepare", "ended"}
    BY <2>1 DEF Ends
  <2>3. TypeInv'
    <3>1. \A v \in Worker : pc[v].at = "ended" => pc'[v].at = "ended"
      BY <1>2, <2>1, Parts
    <3> QED BY <1>1, <1>3, <2>1, <3>1, OwnerTypes DEF IInv, TypeInv, TypeOK
  <2>4. Keeps(w) /\ WorkerInv(w) /\ pc'[w] = pc[w] /\ tasks'[w] = tasks[w]
    BY <1>1, <1>2, <1>3, <2>1, Parts DEF Keeps, IInv
  <2>5. WorkerInv(w)' /\ (Prepares(w) => Prepares(w)')
    BY <1>2, <2>4, Unmoved
  <2> QED BY <1>1, <1>2, <1>3, <2>1, <2>2, <2>3, <2>5, OwnerStep
<1>4. CASE /\ termination_progress[w] = "NotRequested"
           /\ termination_progress' = [termination_progress EXCEPT ![w] = "Requested"]
           /\ timer' = timer \cup {w}
           /\ pc' = [pc EXCEPT ![u].at = "post prepare"]
  <2>1. /\ pc' \in [Thread -> [at : Places, child : Thread, rest : SUBSET Worker, then : Ends]]
        /\ pc'[u].at = "post prepare" /\ pc'[u].then = pc[u].then
        /\ pc'[u].child = pc[u].child /\ pc'[u].rest = pc[u].rest
        /\ \A t \in Thread : t # u => pc'[t] = pc[t]
    <3>1. "post prepare" \in Places
      BY DEF Places, Terminating
    <3> QED BY <1>4, <3>1, PlaceChanges DEF IInv
  <2>2. /\ termination_progress'[w] = "Requested"
        /\ \A v \in Worker : v # w => termination_progress'[v] = termination_progress[v]
        /\ termination_progress' \in
             [Worker -> {"NotRequested", "Requested", "Prepared", "Performing"}]
    BY <1>2, <1>4, Kinds DEF IInv
  <2>3. WorkerInv(w) /\ pc'[w] = pc[w] /\ pc[w].at # "ended" /\ ~ Has(tasks[w], "perform")
    <3>1. w # u /\ w \in Thread /\ WorkerInv(w)
      BY <1>2, Parts DEF IInv
    <3> QED BY <1>4, <2>1, <3>1 DEF WorkerInv, Shuts
  <2>4. TypeInv'
    <3>1. \A v \in Worker : pc[v].at = "ended" => pc'[v].at = "ended"
      BY <1>2, <2>1, Parts
    <3>2. timer' \subseteq started \ deleted /\ interrupted \subseteq started
          /\ exit_code \in
               [Worker -> {"NotTerminated", "GracefullyTerminated", "AsyncForciblyTerminated"}]
      BY <1>2, <1>4, <2>3 DEF IInv, TypeInv, TypeOK
    <3>3. tasks \in [Thread -> Seq(Tasks)] /\ reports \in [Thread -> Seq(Reports)]
      BY Kinds DEF IInv
    <3> QED BY <1>1, <2>1, <2>2, <3>1, <3>2, <3>3, OwnerTypes DEF IInv
  <2>5. Prepares(w) => Prepares(w)'
    BY <1>1, <2>3 DEF Prepares
  <2>6. Starts(w)' /\ OwnsSlot(w)'
    BY <1>1, <1>2, <2>3 DEF WorkerInv, Starts, OwnsSlot
  <2>7. Shuts(w)'
    BY <1>1, <2>2, <2>3, <2>5 DEF WorkerInv, Shuts
  <2>8. Asks(u)'
    BY <1>0, <1>1, <2>1, <2>2 DEF IInv, Asks
  <2> QED
    BY <1>1, <1>2, <2>1, <2>2, <2>4, <2>5, <2>6, <2>7, <2>8, OwnerStep DEF WorkerInv
<1> QED BY <1>3, <1>4 DEF RequestTermination

(* WorkerThread::Terminate posts the preparation of the shutdown.          *)
LEMMA PostPrepareStep ==
  ASSUME IInv, NEW u \in Thread, PostPrepare(u)
  PROVE  IInv'
<1> PICK w : w = pc[u].child
  OBVIOUS
<1>0. /\ pc[u].at = "post prepare" /\ pc[u].at \in Terminating
      /\ UNCHANGED <<reports, initialized, lockVars, endVars, lifeVars, freezeVars>>
      /\ pc' = [pc EXCEPT ![u].at = "prepared"]
  BY DEF PostPrepare, Terminating
<1>1. UNCHANGED <<reports, initialized, thread_state, termination_progress, exit_code,
                  child_threads, timer, interrupted, registered, started, deleted, nested, quit>>
  BY <1>0 DEF lockVars, endVars, lifeVars, freezeVars
<1>2. /\ w \in started /\ w \in Worker /\ Parent(w) = u /\ w \in Thread /\ w = pc[u].child
      /\ pc[u].at \notin {"initialize", "prepare", "ended"}
      /\ u \in Worker => /\ thread_state[u] # "NotStarted"
                         /\ pc[u].then = "script" => u \in registered
      /\ termination_progress[w] = "Requested"
  BY <1>0, Asking, Parts DEF IInv, Asks
<1>3. tasks' = [t \in Thread |-> IF t \in {w} THEN Append(tasks[t], "prepare") ELSE tasks[t]]
  BY DEF PostPrepare, PostAll
<1>4. /\ tasks \in [Thread -> Seq(Tasks)] /\ "prepare" \in Tasks
      /\ tasks[w] \in Seq(Tasks) /\ Append(tasks[w], "prepare") \in Seq(Tasks)
  <2>1. tasks \in [Thread -> Seq(Tasks)] /\ "prepare" \in Tasks
    BY Kinds DEF IInv, Tasks
  <2> QED BY <1>2, <2>1, Posted
<1>5. /\ tasks'[w] = Append(tasks[w], "prepare") /\ tasks' \in [Thread -> Seq(Tasks)]
      /\ \A t \in Thread : t # w => tasks'[t] = tasks[t]
  BY <1>2, <1>3, <1>4
<1>6. /\ pc' \in [Thread -> [at : Places, child : Thread, rest : SUBSET Worker, then : Ends]]
      /\ pc'[u].at = "prepared" /\ pc'[u].then = pc[u].then
      /\ pc'[u].child = pc[u].child /\ pc'[u].rest = pc[u].rest
      /\ \A t \in Thread : t # u => pc'[t] = pc[t]
  <2>1. "prepared" \in Places
    BY DEF Places, Terminating
  <2> QED BY <1>0, <2>1, PlaceChanges DEF IInv
<1>7. TypeInv'
  <2>1. \A v \in Worker : pc[v].at = "ended" => pc'[v].at = "ended"
    BY <1>2, <1>6, Parts
  <2>2. reports \in [Thread -> Seq(Reports)]
    BY Kinds DEF IInv
  <2> QED BY <1>1, <1>5, <1>6, <2>1, <2>2, OwnerTypes DEF IInv, TypeInv, TypeOK
<1>8. Keeps(w) /\ WorkerInv(w) /\ pc'[w] = pc[w] /\ tasks[w] \in Seq(Tasks)
  BY <1>1, <1>2, <1>4, <1>6, Parts DEF Keeps, IInv
<1>9. WorkerInv(w)' /\ Prepares(w)'
  <2>1. /\ "prepare" \in {"freeze", "resume", "prepare"}
        /\ termination_progress[w] # "Performing"
    BY <1>2
  <2> QED BY <1>2, <1>5, <1>8, <2>1, GetsTask
<1>10. Asks(u)'
  <2>1. \A v \in pc[u].rest : v \in started /\ Parent(v) = u
    BY <1>0 DEF IInv, Asks
  <2>2. pc'[u].child = w
    BY <1>2, <1>6
  <2> QED BY <1>1, <1>2, <1>6, <1>9, <2>1, <2>2 DEF Asks, Prepares
<1>11. \A v \in Worker : v # w => tasks'[v] = tasks[v]
  BY <1>5, Parts
<1> QED BY <1>1, <1>2, <1>6, <1>7, <1>9, <1>10, <1>11, OwnerStep

(* The shutdown is posted, as the last task of a worker that has been      *)
(* prepared or has its preparation to come, and that has no children.      *)
LEMMA GetsShutdown ==
  ASSUME NEW w \in Worker, WorkerInv(w), Prepares(w), tasks[w] \in Seq(Tasks), w \in started,
         termination_progress[w] \in {"Requested", "Prepared"},
         UNCHANGED <<thread_state, nested, registered, started, quit>>,
         tasks'[w] = Append(tasks[w], "perform"), termination_progress'[w] = "Performing",
         child_threads'[w] = {},
         \/ pc'[w] = pc[w]
         \/ /\ thread_state[w] # "NotStarted" /\ pc[w].at = "idle"
            /\ pc'[w].at = "did process task" /\ pc'[w].then = "idle"
  PROVE  WorkerInv(w)' /\ Prepares(w)'
<1>0. "perform" \in Tasks
  BY DEF Tasks
<1> DEFINE q == Append(tasks[w], "perform")
<1>1. /\ q # <<>> /\ (tasks[w] # <<>> => Head(q) = Head(tasks[w]))
      /\ \A x : Has(q, x) <=> Has(tasks[w], x) \/ x = "perform"
      /\ InitializeFirst(tasks[w]) => InitializeFirst(q)
      /\ ~ Has(tasks[w], "perform") => PerformLast(q)
      /\ PrepareBefore(tasks[w]) /\ Has(tasks[w], "prepare") => PrepareBefore(q)
  BY <1>0, Posted
<1>2. tasks'[w] = q
  OBVIOUS
<1> HIDE DEF q
<1>3. /\ pc[w].at # "ended" /\ pc'[w].at # "ended" /\ ~ Has(tasks[w], "perform")
      /\ pc[w].at = "prepare" => pc'[w].at = "prepare"
  BY DEF WorkerInv, Shuts
<1>4. Prepares(w)'
  BY <1>1, <1>2, <1>3 DEF Prepares
<1>5. Starts(w)'
  BY <1>1, <1>2 DEF WorkerInv, Starts
<1>6. OwnsSlot(w)'
  BY DEF WorkerInv, OwnsSlot
<1>7. thread_state[w] = "ReadyToShutdown" \/ pc'[w].at = "prepare" \/ PrepareBefore(q)
  BY <1>1, <1>3 DEF WorkerInv, Shuts, Prepares
<1>8. Shuts(w)'
  BY <1>1, <1>2, <1>3, <1>4, <1>7 DEF Shuts
<1> QED BY <1>4, <1>5, <1>6, <1>8 DEF WorkerInv

(* WorkerThread::Terminate decides who performs the shutdown.              *)
LEMMA PreparedStep ==
  ASSUME IInv, NEW u \in Thread, Prepared(u)
  PROVE  IInv'
<1> PICK w : w = pc[u].child
  OBVIOUS
<1>0. /\ pc[u].at = "prepared" /\ pc[u].at \in Terminating /\ NextChild(u)
      /\ UNCHANGED <<reports, initialized, thread_state, exit_code, child_threads, endVars,
                     lifeVars, freezeVars>>
  BY DEF Prepared, Terminating
<1>1. UNCHANGED <<reports, initialized, thread_state, exit_code, child_threads, timer,
                  interrupted, registered, started, deleted, nested, quit>>
  BY <1>0 DEF endVars, lifeVars, freezeVars
<1>2. /\ w \in started /\ w \in Worker /\ Parent(w) = u /\ w \in Thread
      /\ pc[u].at \notin {"initialize", "prepare", "ended"}
      /\ u \in Worker => /\ thread_state[u] # "NotStarted"
                         /\ pc[u].then = "script" => u \in registered
      /\ termination_progress[w] = "Requested" /\ Prepares(w)
  BY <1>0, Asking, Parts DEF IInv, Asks
<1>3. /\ pc' \in [Thread -> [at : Places, child : Thread, rest : SUBSET Worker, then : Ends]]
      /\ pc'[u].at \in {"request"} \cup Ends
      /\ pc'[u].at = "script" \/ pc'[u].then = "script" => pc[u].then = "script"
      /\ Asks(u)'
      /\ \A t \in Thread : t # u => pc'[t] = pc[t]
  BY <1>0, <1>1, GoesOn
<1>4. pc'[u].at \notin {"initialize", "prepare", "ended"}
  BY <1>3 DEF Ends
<1>5. /\ WorkerInv(w) /\ pc'[w] = pc[w] /\ tasks \in [Thread -> Seq(Tasks)]
      /\ tasks[w] \in Seq(Tasks) /\ Append(tasks[w], "perform") \in Seq(Tasks)
  <2>1. w # u /\ tasks \in [Thread -> Seq(Tasks)] /\ "perform" \in Tasks
    BY <1>2, Kinds, Parts DEF IInv, Tasks
  <2> QED BY <1>2, <1>3, <2>1, Posted DEF IInv
<1>6. /\ \A t \in Thread : t # w => tasks'[t] = tasks[t]
      /\ \A v \in Worker : v # w => termination_progress'[v] = termination_progress[v]
      /\ termination_progress' \in
           [Worker -> {"NotRequested", "Requested", "Prepared", "Performing"}]
      /\ tasks' \in [Thread -> Seq(Tasks)]
      /\ \/ /\ child_threads[w] = {} /\ termination_progress'[w] = "Performing"
            /\ tasks'[w] = Append(tasks[w], "perform")
         \/ termination_progress'[w] = "Prepared" /\ tasks'[w] = tasks[w]
  <2>1. /\ \A t \in Thread : t # w => tasks'[t] = tasks[t]
        /\ tasks' \in [Thread -> Seq(Tasks)]
        /\ tasks'[w] = IF child_threads[w] = {} THEN Append(tasks[w], "perform") ELSE tasks[w]
    BY <1>2, <1>5 DEF Prepared, PostAll
  <2>2. termination_progress' = [termination_progress EXCEPT
                                   ![w] = IF child_threads[w] = {} THEN "Performing"
                                          ELSE "Prepared"]
    BY DEF Prepared
  <2> QED BY <1>2, <2>1, <2>2, Kinds DEF IInv
<1>7. TypeInv'
  <2>1. \A v \in Worker : pc[v].at = "ended" => pc'[v].at = "ended"
    BY <1>2, <1>3, Parts
  <2>2. reports \in [Thread -> Seq(Reports)]
    BY Kinds DEF IInv
  <2> QED BY <1>1, <1>3, <1>6, <2>1, <2>2, OwnerTypes DEF IInv, TypeInv, TypeOK
<1>8. WorkerInv(w)' /\ Prepares(w)'
  <2>1. CASE /\ child_threads[w] = {} /\ termination_progress'[w] = "Performing"
             /\ tasks'[w] = Append(tasks[w], "perform")
    BY <1>1, <1>2, <1>5, <2>1, GetsShutdown
  <2>2. CASE termination_progress'[w] = "Prepared" /\ tasks'[w] = tasks[w]
    <3>1. Prepares(w)'
      BY <1>1, <1>2, <1>5, <2>2 DEF Prepares
    <3>2. Starts(w)' /\ OwnsSlot(w)'
      BY <1>1, <1>2, <1>5, <2>2 DEF WorkerInv, Starts, OwnsSlot
    <3>3. Shuts(w)'
      BY <1>1, <1>2, <1>5, <2>2, <3>1 DEF WorkerInv, Shuts
    <3> QED BY <3>1, <3>2, <3>3 DEF WorkerInv
  <2> QED BY <1>6, <2>1, <2>2
<1>9. \A v \in Worker : v # w => tasks'[v] = tasks[v]
  BY <1>6, Parts
<1> QED BY <1>1, <1>2, <1>3, <1>4, <1>6, <1>7, <1>8, <1>9, OwnerStep

(* What an owner learns from the report that it takes.                     *)
LEMMA ReportTaken ==
  ASSUME IInv, NEW u \in Thread, NEW kind, TakesReport(u, kind),
         reports' = [reports EXCEPT ![u] = Tail(@)], started' = started,
         \A v \in Worker : pc[v].at = "ended" => pc'[v].at = "ended"
  PROVE  /\ pc[u].at = "idle"
         /\ Head(reports[u]).child \in started /\ Head(reports[u]).child \in Worker
         /\ Parent(Head(reports[u]).child) = u
         /\ kind = "terminated" => pc[Head(reports[u]).child].at = "ended"
         /\ u \in Worker => thread_state[u] # "NotStarted" /\ nested[u] = "none"
         /\ reports' \in [Thread -> Seq(Reports)]
         /\ \A t \in Thread : t # u => reports'[t] = reports[t]
         /\ Told(u)'
<1>1. /\ reports \in [Thread -> Seq(Reports)] /\ reports[u] # <<>>
      /\ Head(reports[u]).kind = kind /\ pc[u].at = "idle"
      /\ u # Main => nested[u] = "none"
  BY Kinds, Parts DEF TakesReport, IInv
<1> DEFINE old == reports[u]
           new == Tail(old)
<1>2. /\ old \in Seq(Reports) /\ new \in Seq(Reports) /\ Len(old) = Len(new) + 1
      /\ Len(new) \in Nat /\ Head(old) = old[1]
      /\ \A i \in 1 .. Len(new) : new[i] = old[i + 1]
  BY <1>1
<1>3. /\ reports' \in [Thread -> Seq(Reports)] /\ reports'[u] = new
      /\ \A t \in Thread : t # u => reports'[t] = reports[t]
  BY <1>1, <1>2
<1>4. \A i \in 1 .. Len(old) :
        /\ old[i].child \in started /\ old[i].child \in Worker /\ Parent(old[i].child) = u
        /\ old[i].kind = "terminated" => pc[old[i].child].at = "ended"
  BY Kinds DEF IInv, Told
<1> HIDE DEF old, new
<1>5. 1 \in 1 .. Len(old) /\ \A i \in 1 .. Len(new) : i + 1 \in 1 .. Len(old)
  BY <1>2
<1>6. /\ Head(old).child \in started /\ Head(old).child \in Worker
      /\ Parent(Head(old).child) = u
      /\ Head(old).kind = "terminated" => pc[Head(old).child].at = "ended"
  BY <1>2, <1>4, <1>5
<1>7. Told(u)'
  BY <1>2, <1>3, <1>4, <1>5 DEF Told
<1>8. u \in Worker => thread_state[u] # "NotStarted" /\ u # Main
  BY <1>6, Parts DEF IInv, OwnerRuns
<1> QED BY <1>1, <1>3, <1>6, <1>7, <1>8 DEF old

(* The proxy's owner terminates a worker that has closed itself.           *)
LEMMA WorkerClosedStep ==
  ASSUME IInv, NEW u \in Thread, WorkerClosed(u)
  PROVE  IInv'
<1> PICK w : w = Head(reports[u]).child
  OBVIOUS
<1>0. /\ TakesReport(u, "closed") /\ reports' = [reports EXCEPT ![u] = Tail(@)]
      /\ Terminates(u, w, {}, TaskEnd(u))
      /\ UNCHANGED <<tasks, initialized, lockVars, endVars, lifeVars, freezeVars>>
  BY DEF WorkerClosed
<1>1. UNCHANGED <<tasks, initialized, thread_state, termination_progress, exit_code,
                  child_threads, timer, interrupted, registered, started, deleted, nested, quit>>
  BY <1>0 DEF lockVars, endVars, lifeVars, freezeVars
<1>2. \A v \in Worker : pc[v].at = "ended" => pc'[v].at = "ended"
  <2>1. pc[u].at = "idle" /\ \A t \in Thread : t # u => pc'[t] = pc[t]
    BY <1>0, Kinds, Parts DEF Terminates, TakesReport, IInv
  <2> QED BY <2>1, Parts
<1>3. /\ pc[u].at = "idle" /\ w \in started /\ w \in Worker /\ Parent(w) = u
      /\ u \in Worker => thread_state[u] # "NotStarted"
      /\ reports' \in [Thread -> Seq(Reports)]
      /\ \A t \in Thread : t # u => reports'[t] = reports[t]
      /\ Told(u)'
  BY <1>0, <1>1, <1>2, ReportTaken
<1>4. /\ pc' \in [Thread -> [at : Places, child : Thread, rest : SUBSET Worker, then : Ends]]
      /\ pc'[u].at = "request" /\ pc'[u].then # "script" /\ Asks(u)'
      /\ \A t \in Thread : t # u => pc'[t] = pc[t]
  <2>1. TaskEnd(u) \in Ends /\ TaskEnd(u) # "script"
    BY DEF TaskEnd, Ends
  <2> QED BY <1>0, <1>1, <1>3, <2>1, BeginsToAsk
<1>5. TypeInv'
  BY <1>1, <1>2, <1>3, <1>4, OwnerTypes DEF IInv, TypeInv, TypeOK
<1>6. Keeps(w) /\ WorkerInv(w) /\ pc'[w] = pc[w] /\ tasks'[w] = tasks[w]
  BY <1>1, <1>3, <1>4, Parts DEF Keeps, IInv
<1>7. WorkerInv(w)' /\ (Prepares(w) => Prepares(w)')
  BY <1>3, <1>6, Unmoved
<1> QED BY <1>1, <1>3, <1>4, <1>5, <1>7, OwnerStep

(* WorkerThread::ChildThreadTerminatedOnWorkerThread: the last child of a  *)
(* worker that has been prepared lets it perform its own shutdown.         *)
LEMMA ChildThreadTerminatedStep ==
  ASSUME IInv, NEW u \in Thread, ChildThreadTerminated(u)
  PROVE  IInv'
<1> PICK w : w = Head(reports[u]).child
  OBVIOUS
<1> DEFINE perform == /\ u # Main /\ child_threads[u] = {w}
                      /\ termination_progress[u] = "Prepared"
<1>0. /\ TakesReport(u, "terminated") /\ reports' = [reports EXCEPT ![u] = Tail(@)]
      /\ Goto(u, TaskEnd(u))
      /\ child_threads' = [child_threads EXCEPT ![u] = @ \ {w}]
      /\ deleted' = deleted \cup {w} /\ timer' = timer \ {w}
      /\ termination_progress' = IF perform
           THEN [termination_progress EXCEPT ![u] = "Performing"] ELSE termination_progress
      /\ tasks' = [t \in Thread |-> IF t \in (IF perform THEN {u} ELSE {})
                                    THEN Append(tasks[t], "perform") ELSE tasks[t]]
      /\ UNCHANGED <<initialized, thread_state, exit_code, interrupted, registered, started,
                     nested, quit>>
  BY DEF ChildThreadTerminated, PostAll, freezeVars
<1>1. TaskEnd(u) \in Places \ Terminating /\ TaskEnd(u) \in {"idle", "did process task"}
  BY DEF TaskEnd, Places, Terminating
<1>2. /\ pc' \in [Thread -> [at : Places, child : Thread, rest : SUBSET Worker, then : Ends]]
      /\ pc'[u].at = TaskEnd(u) /\ pc'[u].then = "idle" /\ Asks(u)'
      /\ \A t \in Thread : t # u => pc'[t] = pc[t]
  BY <1>0, <1>1, ThreadGoes DEF IInv
<1>3. \A v \in Worker : pc[v].at = "ended" => pc'[v].at = "ended"
  <2>1. pc[u].at = "idle"
    BY <1>0, Parts DEF TakesReport
  <2> QED BY <1>2, <2>1, Parts
<1>4. /\ pc[u].at = "idle" /\ w \in started /\ w \in Worker /\ Parent(w) = u
      /\ pc[w].at = "ended" /\ pc'[w].at = "ended"
      /\ u \in Worker => thread_state[u] # "NotStarted"
      /\ reports' \in [Thread -> Seq(Reports)]
      /\ \A t \in Thread : t # u => reports'[t] = reports[t]
      /\ Told(u)'
  BY <1>0, <1>3, ReportTaken
<1>5. /\ child_threads'[u] = child_threads[u] \ {w}
      /\ \A t \in Thread : t # u => child_threads'[t] = child_threads[t]
      /\ child_threads' \in [Thread -> SUBSET Worker]
  BY <1>0, Kinds DEF IInv
<1>6. /\ tasks \in [Thread -> Seq(Tasks)] /\ Append(tasks[u], "perform") \in Seq(Tasks)
      /\ tasks[u] \in Seq(Tasks)
  <2>1. tasks \in [Thread -> Seq(Tasks)] /\ "perform" \in Tasks
    BY Kinds DEF IInv, Tasks
  <2> QED BY <2>1, Posted
<1>7. /\ tasks' \in [Thread -> Seq(Tasks)]
      /\ \A t \in Thread : t # u => tasks'[t] = tasks[t]
      /\ perform => tasks'[u] = Append(tasks[u], "perform")
      /\ ~ perform => tasks'[u] = tasks[u]
  <2> HIDE DEF perform
  <2> QED BY <1>0, <1>6
<1>8. /\ termination_progress' \in
           [Worker -> {"NotRequested", "Requested", "Prepared", "Performing"}]
      /\ \A v \in Worker : v # u => termination_progress'[v] = termination_progress[v]
      /\ perform => u \in Worker /\ termination_progress'[u] = "Performing"
      /\ ~ perform => termination_progress' = termination_progress
  <2>1. perform => u \in Worker
    BY Parts
  <2> HIDE DEF perform
  <2> QED BY <1>0, <2>1, Kinds DEF IInv
<1>9. TypeInv'
  <2>1. /\ \A t \in Thread : tasks'[t] \in Seq(Tasks) /\ reports'[t] \in Seq(Reports)
        /\ \A v \in deleted' : pc'[v].at = "ended"
        /\ deleted' \subseteq started
    <3>1. \A v \in deleted : pc[v].at = "ended" /\ v \in Worker /\ v \in started
      BY Kinds DEF IInv, TypeInv, TypeOK
    <3>2. /\ \A v \in deleted' : pc'[v].at = "ended"
          /\ deleted' \subseteq started
      BY <1>0, <1>3, <1>4, <3>1
    <3>3. \A t \in Thread : tasks'[t] \in Seq(Tasks)
      BY <1>7
    <3>4. \A t \in Thread : reports'[t] \in Seq(Reports)
      BY <1>4
    <3> QED BY <3>2, <3>3, <3>4
  <2>2. \A t \in Thread : child_threads'[t] \subseteq {v \in started \ deleted' : Parent(v) = t}
    <3> SUFFICES ASSUME NEW t \in Thread, NEW v \in child_threads'[t]
                 PROVE  v \in started /\ v \notin deleted' /\ Parent(v) = t
      OBVIOUS
    <3>1. v \in child_threads[t] /\ v \in started /\ v \notin deleted /\ Parent(v) = t
      BY <1>5, Kinds DEF IInv
    <3>2. v # w
      BY <1>4, <1>5, <3>1
    <3> QED BY <1>0, <3>1, <3>2
  <2>3. timer' \subseteq started \ deleted'
    BY <1>0 DEF IInv, TypeInv, TypeOK
  <2>4. TypeOK'
    BY <1>0, <1>8, <2>1, <2>2, <2>3 DEF IInv, TypeInv, TypeOK
  <2> QED BY <1>0, <1>2, <1>4, <1>5, <1>7, <2>4 DEF IInv, TypeInv
<1>10. ASSUME NEW v \in Worker
       PROVE  WorkerInv(v)' /\ (Prepares(v) => Prepares(v)')
  <2>1. WorkerInv(v) /\ v \in Thread
    BY Parts DEF IInv
  <2>2. CASE v # u
    <3>1. Keeps(v) /\ tasks'[v] = tasks[v] /\ pc'[v] = pc[v]
      BY <1>0, <1>2, <1>5, <1>7, <1>8, <2>1, <2>2 DEF Keeps
    <3> QED BY <2>1, <3>1, Unmoved
  <2>3. CASE v = u /\ ~ perform
    <3>1. Keeps(v) /\ tasks'[v] = tasks[v]
      BY <1>0, <1>5, <1>7, <1>8, <2>3 DEF Keeps
    <3>2. /\ thread_state[v] # "NotStarted"
          /\ pc[v].at \notin {"initialize", "prepare", "ended"}
          /\ pc'[v].at \notin {"initialize", "prepare", "ended"}
          /\ pc'[v].at # "script" /\ pc'[v].then # "script"
      BY <1>1, <1>2, <1>4, <2>3
    <3> QED BY <2>1, <3>1, <3>2, Moved
  <2>4. CASE v = u /\ perform
    <3>1. /\ termination_progress[v] = "Prepared" /\ termination_progress'[v] = "Performing"
          /\ tasks'[v] = Append(tasks[v], "perform") /\ child_threads'[v] = {}
          /\ tasks[v] \in Seq(Tasks)
      BY <1>5, <1>6, <1>7, <1>8, <2>4
    <3>2. Prepares(v) /\ v \in started
      BY <2>1, <3>1 DEF WorkerInv, Shuts, Starts
    <3>3. /\ thread_state[v] # "NotStarted" /\ pc[v].at = "idle"
          /\ pc'[v].at = "did process task" /\ pc'[v].then = "idle"
      BY <1>2, <1>4, <2>4 DEF TaskEnd
    <3>4. UNCHANGED <<thread_state, nested, registered, started, quit>>
      BY <1>0
    <3> HIDE DEF perform
    <3> QED BY <2>1, <3>1, <3>2, <3>3, <3>4, GetsShutdown
  <2> QED BY <2>2, <2>3, <2>4
<1>11. ASSUME NEW t \in Thread PROVE Asks(t)'
  <2>1. CASE t = u
    BY <1>2, <2>1
  <2>2. CASE t # u
    <3>1. \A v \in Worker : termination_progress[v] = "Requested"
                              => termination_progress'[v] = "Requested"
      BY <1>8
    <3> QED BY <1>0, <1>2, <1>10, <2>2, <3>1, AsksStay DEF IInv
  <2> QED BY <2>1, <2>2
<1>12. ASSUME NEW t \in Thread PROVE Told(t)'
  BY <1>0, <1>3, <1>4, ToldStays DEF IInv
<1>13. OwnerRuns'
  BY <1>0 DEF IInv, OwnerRuns
<1> QED BY <1>9, <1>10, <1>11, <1>12, <1>13 DEF IInv

(* A step in which no thread moves and at most tasks of the freezing are   *)
(* posted.                                                                 *)
LEMMA NobodyMoves ==
  ASSUME IInv, TypeInv',
         UNCHANGED <<reports, thread_state, termination_progress, child_threads, registered,
                     started, nested, quit, pc>>,
         \A v \in Worker :
           \/ tasks'[v] = tasks[v]
           \/ /\ v \in started /\ termination_progress[v] = "NotRequested"
              /\ \E task \in {"freeze", "resume"} : tasks'[v] = Append(tasks[v], task)
  PROVE  IInv'
<1>1. ASSUME NEW v \in Worker
      PROVE  WorkerInv(v)' /\ (Prepares(v) => Prepares(v)')
  <2>1. WorkerInv(v) /\ Keeps(v) /\ pc'[v] = pc[v] /\ tasks[v] \in Seq(Tasks)
    BY Kinds, Parts DEF IInv, Keeps
  <2>2. CASE tasks'[v] = tasks[v]
    BY <2>1, <2>2, Unmoved
  <2>3. CASE /\ v \in started /\ termination_progress[v] = "NotRequested"
             /\ \E task \in {"freeze", "resume"} : tasks'[v] = Append(tasks[v], task)
    <3>1. PICK task \in {"freeze", "resume"} : tasks'[v] = Append(tasks[v], task)
      BY <2>3
    <3> QED BY <2>1, <2>3, <3>1, GetsTask
  <2> QED BY <2>2, <2>3
<1>2. ASSUME NEW t \in Thread PROVE Asks(t)' /\ Told(t)'
  BY <1>1, AsksStay, ToldStays DEF IInv
<1>3. OwnerRuns'
  BY DEF IInv, OwnerRuns
<1> QED BY <1>1, <1>2, <1>3 DEF IInv

(* WorkerThread::EnsureScriptExecutionTerminates.                          *)
LEMMA ForciblyTerminateStep ==
  ASSUME IInv, NEW w \in Worker, ForciblyTerminate(w)
  PROVE  IInv'
<1>1. /\ UNCHANGED <<tasks, reports, initialized, thread_state, termination_progress,
                     child_threads, registered, started, deleted, nested, quit, pc>>
      /\ w \in timer /\ timer' = timer \ {w}
      /\ interrupted' \subseteq interrupted \cup {w}
      /\ exit_code' = exit_code
           \/ exit_code' = [exit_code EXCEPT ![w] = "AsyncForciblyTerminated"]
  BY DEF ForciblyTerminate, queueVars, lifeVars, freezeVars
<1>2. /\ timer' \subseteq started \ deleted /\ interrupted' \subseteq started
      /\ exit_code' \in
           [Worker -> {"NotTerminated", "GracefullyTerminated", "AsyncForciblyTerminated"}]
  BY <1>1 DEF IInv, TypeInv, TypeOK
<1>3. TypeInv'
  BY <1>1, <1>2, Kinds, OwnerTypes DEF IInv
<1> QED BY <1>1, <1>3, NobodyMoves

(* WorkerThread::Freeze and Resume, which the main thread calls.           *)
LEMMA FreezeStep ==
  ASSUME IInv, NEW w \in Worker, Freeze(w) \/ Resume(w)
  PROVE  IInv'
<1>1. /\ UNCHANGED <<reports, initialized, thread_state, termination_progress, exit_code,
                     child_threads, timer, interrupted, registered, started, deleted, nested,
                     quit, pc>>
      /\ w \in child_threads[Main] /\ Main \in Thread
  BY Parts DEF Freeze, Resume, NotAsked, lockVars, endVars, lifeVars
<1>2. tasks \in [Thread -> Seq(Tasks)] /\ \A t \in Thread : t # Main => tasks[t] = tasks[t]
  BY Kinds DEF IInv
<1>3. ASSUME Freeze(w)
      PROVE  /\ tasks' \in [Thread -> Seq(Tasks)]
             /\ \A v \in Worker : v # Main =>
                  \/ tasks'[v] = tasks[v]
                  \/ /\ v \in started /\ termination_progress[v] = "NotRequested"
                     /\ tasks'[v] = Append(tasks[v], "freeze")
  <2>1. PICK some \in SUBSET NotAsked(child_threads[Main]) :
          tasks' = [t \in Thread |-> IF t \in some THEN Append(tasks[t], "freeze") ELSE tasks[t]]
    BY <1>1, <1>3 DEF Freeze, FreezeAll, PostAll, NotAsked
  <2> QED BY <1>1, <1>2, <2>1, ChildrenGet
<1>4. ASSUME Resume(w)
      PROVE  /\ tasks' \in [Thread -> Seq(Tasks)]
             /\ \A v \in Worker : v # Main =>
                  \/ tasks'[v] = tasks[v]
                  \/ /\ v \in started /\ termination_progress[v] = "NotRequested"
                     /\ tasks'[v] = Append(tasks[v], "resume")
  <2>1. PICK some \in SUBSET NotAsked(child_threads[Main]) :
          tasks' = [t \in Thread |-> IF t \in some THEN Append(tasks[t], "resume") ELSE tasks[t]]
    BY <1>4 DEF Resume, PostAll
  <2> QED BY <1>1, <1>2, <2>1, ChildrenGet
<1>5. tasks' \in [Thread -> Seq(Tasks)]
  BY <1>3, <1>4
<1>6. TypeInv'
  BY <1>1, <1>5, OwnerTypes DEF IInv, TypeInv, TypeOK
<1> QED BY <1>1, <1>3, <1>4, <1>6, Parts, NobodyMoves

(* WorkerThread::Start.                                                    *)
LEMMA StartStep ==
  ASSUME IInv, NEW w \in Worker, Start(w)
  PROVE  IInv'
<1> DEFINE u == Parent(w)
<1>0. /\ w \notin started /\ u \in Thread /\ u # w /\ w \in Thread
      /\ u # Main => termination_progress[u] = "NotRequested" /\ thread_state[u] = "Running"
      /\ started' = started \cup {w}
      /\ child_threads' = [child_threads EXCEPT ![u] = @ \cup {w}]
      /\ tasks' = [t \in Thread |-> IF t \in {w} THEN Append(tasks[t], "initialize")
                                    ELSE tasks[t]]
      /\ UNCHANGED <<reports, initialized, thread_state, termination_progress, exit_code, timer,
                     interrupted, registered, deleted, nested, quit, pc>>
  BY Parts DEF Start, PostAll, endVars, freezeVars
<1>1. /\ tasks[w] = <<>> /\ thread_state[w] = "NotStarted" /\ pc[w].at = "idle"
      /\ termination_progress[w] = "NotRequested" /\ nested[w] = "none"
  BY <1>0 DEF IInv, WorkerInv, Starts
<1>2. /\ tasks \in [Thread -> Seq(Tasks)] /\ tasks[w] \in Seq(Tasks) /\ "initialize" \in Tasks
  <2>1. tasks \in [Thread -> Seq(Tasks)] /\ "initialize" \in Tasks
    BY Kinds DEF IInv, Tasks
  <2> QED BY <1>0, <2>1
<1> DEFINE q == Append(tasks[w], "initialize")
<1>3. /\ q \in Seq(Tasks) /\ q # <<>> /\ Head(q) = "initialize"
      /\ \A x : Has(q, x) => x = "initialize"
      /\ InitializeFirst(q) /\ PerformLast(q) /\ PrepareBefore(q)
  BY <1>1, <1>2, Posted, NothingPosted
<1>4. /\ tasks'[w] = q /\ tasks' \in [Thread -> Seq(Tasks)]
      /\ \A t \in Thread : t # w => tasks'[t] = tasks[t]
  <2> HIDE DEF u
  <2> QED BY <1>0, <1>2, <1>3
<1> HIDE DEF q, u
<1>5. /\ child_threads'[u] = child_threads[u] \cup {w}
      /\ \A t \in Thread : t # u => child_threads'[t] = child_threads[t]
      /\ child_threads' \in [Thread -> SUBSET Worker]
  <2>1. child_threads \in [Thread -> SUBSET Worker] /\ child_threads[u] \cup {w} \in SUBSET Worker
    BY <1>0, Kinds DEF IInv
  <2> QED BY <1>0, <2>1
<1>6. TypeInv'
  <2>1. \A t \in Thread : child_threads'[t] \subseteq {v \in started' \ deleted' : Parent(v) = t}
    <3> SUFFICES ASSUME NEW t \in Thread, NEW v \in child_threads'[t]
                 PROVE  v \in started' /\ v \notin deleted /\ Parent(v) = t
      BY <1>0
    <3>1. CASE v \in child_threads[t]
      BY <1>0, <3>1, Kinds DEF IInv
    <3>2. CASE v \notin child_threads[t]
      <4>1. v = w /\ t = u
        BY <1>5, <3>2
      <4> QED BY <1>0, <4>1, Kinds DEF IInv, u
    <3> QED BY <3>1, <3>2
  <2>2. /\ \A t \in Thread : tasks'[t] \in Seq(Tasks)
        /\ initialized \subseteq started' /\ deleted \subseteq started'
        /\ timer \subseteq started' \ deleted /\ interrupted \subseteq started'
    BY <1>0, <1>4 DEF IInv, TypeInv, TypeOK
  <2>3. TypeOK'
    BY <1>0, <2>1, <2>2 DEF IInv, TypeInv, TypeOK
  <2> QED BY <1>0, <1>4, <1>5, <2>3 DEF IInv, TypeInv
<1>7. ASSUME NEW v \in Worker
      PROVE  WorkerInv(v)' /\ (Prepares(v) => Prepares(v)')
  <2>1. WorkerInv(v) /\ v \in Thread /\ pc'[v] = pc[v]
    BY <1>0, Parts DEF IInv
  <2>2. CASE v = w
    <3>1. Prepares(v) => Prepares(v)'
      BY <1>0, <1>1, <2>2, NothingPosted DEF Prepares
    <3>2. Starts(v)' /\ OwnsSlot(v)'
      BY <1>0, <1>1, <1>3, <1>4, <2>1, <2>2 DEF WorkerInv, Starts, OwnsSlot
    <3>3. Shuts(v)'
      BY <1>0, <1>1, <1>3, <1>4, <2>1, <2>2 DEF Shuts
    <3> QED BY <3>1, <3>2, <3>3 DEF WorkerInv
  <2>3. CASE v # w /\ v # u
    <3>1. Keeps(v) /\ tasks'[v] = tasks[v]
      BY <1>0, <1>4, <1>5, <2>1, <2>3 DEF Keeps
    <3> QED BY <2>1, <3>1, Unmoved
  <2>4. CASE v = u
    <3>1. v # w /\ tasks'[v] = tasks[v] /\ termination_progress[v] = "NotRequested"
      BY <1>0, <1>4, <2>4, Parts
    <3>2. Prepares(v) => Prepares(v)'
      BY <1>0, <2>1, <3>1 DEF Prepares
    <3>3. Starts(v)' /\ OwnsSlot(v)'
      BY <1>0, <2>1, <3>1 DEF WorkerInv, Starts, OwnsSlot
    <3>4. Shuts(v)'
      BY <1>0, <2>1, <3>1, <3>2 DEF WorkerInv, Shuts
    <3> QED BY <3>2, <3>3, <3>4 DEF WorkerInv
  <2> QED BY <2>2, <2>3, <2>4
<1>8. ASSUME NEW t \in Thread PROVE Asks(t)' /\ Told(t)'
  BY <1>0, <1>7, AsksStay, ToldStays DEF IInv
<1>9. OwnerRuns'
  BY <1>0 DEF IInv, OwnerRuns, u
<1> QED BY <1>6, <1>7, <1>8, <1>9 DEF IInv

-----------------------------------------------------------------------------
(* Every state.                                                            *)

(* At first no worker has been started.                                    *)
LEMMA InitInv == Init => IInv
<1> SUFFICES ASSUME Init PROVE IInv
  OBVIOUS
<1>1. /\ IdlePc.at = "idle" /\ IdlePc.then = "idle"
      /\ IdlePc \in [at : Places, child : Thread, rest : SUBSET Worker, then : Ends]
  BY Parts DEF IdlePc, Places
<1>2. /\ <<>> \in Seq(Tasks) /\ <<>> \in Seq(Reports)
  OBVIOUS
<1>3. TypeOK
  BY <1>2 DEF Init, TypeOK
<1>4. TypeInv
  BY <1>1, <1>2, <1>3 DEF Init, TypeInv
<1>5. ASSUME NEW w \in Worker PROVE WorkerInv(w)
  <2>1. /\ tasks[w] = <<>> /\ pc[w] = IdlePc /\ thread_state[w] = "NotStarted"
        /\ termination_progress[w] = "NotRequested" /\ nested[w] = "none" /\ started = {}
    BY Parts DEF Init
  <2>2. Starts(w) /\ OwnsSlot(w)
    BY <1>1, <2>1, NothingPosted DEF Starts, OwnsSlot
  <2>3. Shuts(w)
    BY <1>1, <2>1, NothingPosted DEF Shuts
  <2> QED BY <2>2, <2>3 DEF WorkerInv
<1>6. ASSUME NEW u \in Thread PROVE Asks(u) /\ Told(u)
  <2>1. pc[u] = IdlePc /\ reports[u] = <<>>
    BY DEF Init
  <2>2. Asks(u)
    BY <1>1, <2>1 DEF Asks, Terminating
  <2>3. Told(u)
    BY <2>1 DEF Told
  <2> QED BY <2>2, <2>3
<1>7. OwnerRuns
  BY DEF Init, OwnerRuns
<1> QED BY <1>4, <1>5, <1>6, <1>7 DEF IInv

(* Every step preserves the invariant.                                     *)
LEMMA StepInv == IInv /\ [Next]_vars => IInv'
<1> SUFFICES ASSUME IInv, [Next]_vars PROVE IInv'
  OBVIOUS
<1>1. ASSUME NEW w \in Worker, Start(w) PROVE IInv'
  BY <1>1, StartStep
<1>2. ASSUME NEW w \in Worker, Terminate(w) PROVE IInv'
  BY <1>2, TerminateStep
<1>3. ASSUME NEW w \in Worker, ForciblyTerminate(w) PROVE IInv'
  BY <1>3, ForciblyTerminateStep
<1>4. ASSUME NEW w \in Worker, InitializeTaskRunners(w) PROVE IInv'
  BY <1>4, InitializeTaskRunnersStep
<1>5. ASSUME NEW w \in Worker, InitializeContext(w) PROVE IInv'
  BY <1>5, InitializeContextStep
<1>6. ASSUME NEW w \in Worker, Initialized(w) PROVE IInv'
  BY <1>6, InitializedStep
<1>7. ASSUME NEW w \in Worker, RunScript(w) \/ Close(w) \/ EndScript(w) PROVE IInv'
  BY <1>7, ScriptStep
<1>8. ASSUME NEW w \in Worker, DidProcessTask(w) PROVE IInv'
  BY <1>8, DidProcessTaskStep
<1>9. ASSUME NEW w \in Worker, Freeze(w) \/ Resume(w) PROVE IInv'
  BY <1>9, FreezeStep
<1>10. ASSUME NEW w \in Worker, PauseInsideInterrupt(w) PROVE IInv'
  BY <1>10, PauseInsideInterruptStep
<1>11. ASSUME NEW w \in Worker, PauseInsidePostTask(w) PROVE IInv'
  BY <1>11, PauseInsidePostTaskStep
<1>12. ASSUME NEW w \in Worker, ResumeOnWorkerThread(w) PROVE IInv'
  BY <1>12, ResumeOnWorkerThreadStep
<1>13. ASSUME NEW w \in Worker, LeaveNestedLoop(w) PROVE IInv'
  BY <1>13, LeaveNestedLoopStep
<1>14. ASSUME NEW w \in Worker, TakePrepare(w) PROVE IInv'
  BY <1>14, TakePrepareStep
<1>15. ASSUME NEW w \in Worker, PrepareForShutdown(w) PROVE IInv'
  BY <1>15, PrepareForShutdownStep
<1>16. ASSUME NEW w \in Worker, PerformShutdown(w) PROVE IInv'
  BY <1>16, PerformShutdownStep
<1>17. ASSUME NEW u \in Thread, RequestTermination(u) PROVE IInv'
  BY <1>17, RequestTerminationStep
<1>18. ASSUME NEW u \in Thread, PostPrepare(u) PROVE IInv'
  BY <1>18, PostPrepareStep
<1>19. ASSUME NEW u \in Thread, Prepared(u) PROVE IInv'
  BY <1>19, PreparedStep
<1>20. ASSUME NEW u \in Thread, WorkerClosed(u) PROVE IInv'
  BY <1>20, WorkerClosedStep
<1>21. ASSUME NEW u \in Thread, ChildThreadTerminated(u) PROVE IInv'
  BY <1>21, ChildThreadTerminatedStep
<1>22. CASE UNCHANGED vars
  <2>1. UNCHANGED <<tasks, reports, initialized, thread_state, termination_progress, exit_code,
                    child_threads, timer, interrupted, registered, started, deleted, nested,
                    quit, pc>>
    BY <1>22 DEF vars, queueVars, lockVars, endVars, lifeVars, freezeVars
  <2>2. TypeInv'
    BY <2>1, OwnerTypes DEF IInv, TypeInv, TypeOK
  <2> QED BY <2>1, <2>2, NobodyMoves
<1> QED
  BY <1>1, <1>2, <1>3, <1>4, <1>5, <1>6, <1>7, <1>8, <1>9, <1>10, <1>11, <1>12, <1>13, <1>14,
     <1>15, <1>16, <1>17, <1>18, <1>19, <1>20, <1>21, <1>22 DEF Next

(* The inductive invariant holds in every state.                           *)
THEOREM InvHolds == Spec => []IInv
BY InitInv, StepInv, PTL DEF Spec

(* The variables have their types: a WorkerThread that is deleted has      *)
(* ended, and its delayed task is cancelled with it.                       *)
THEOREM TypeCorrect == Spec => []TypeOK
<1>1. IInv => TypeOK
  BY DEF IInv, TypeInv
<1> QED BY <1>1, InvHolds, PTL

(* Terminate on the thread of the owner and the end of the last child on   *)
(* the worker's own agree on who performs the shutdown: it happens once,   *)
(* after its preparation and without children.                             *)
THEOREM ShutdownOnce == Spec => []PerformedOnce
<1>1. IInv => PerformedOnce
  <2> SUFFICES ASSUME IInv, NEW w \in Worker
               PROVE  /\ Shutdowns(w) = IF termination_progress[w] = "Performing" THEN 1 ELSE 0
                      /\ pc[w].at = "ended" => thread_state[w] = "ReadyToShutdown"
                      /\ Shutdowns(w) = 1 => child_threads[w] = {}
    BY DEF PerformedOnce
  <2> DEFINE S == {i \in 1 .. Len(tasks[w]) : tasks[w][i] = "perform"}
  <2>1. Shuts(w) /\ tasks[w] \in Seq(Tasks)
    BY Kinds, Parts DEF IInv, WorkerInv
  <2>2. CASE pc[w].at = "ended"
    <3>1. S = {}
      BY <2>1, <2>2 DEF Shuts
    <3>2. Cardinality(S) = 0
      BY <3>1, FS_EmptySet
    <3>3. Shutdowns(w) = 1
      BY <2>2, <3>2 DEF Shutdowns
    <3> QED BY <2>1, <2>2, <3>3 DEF Shuts
  <2>3. CASE pc[w].at # "ended" /\ Has(tasks[w], "perform")
    <3>1. PICK i \in 1 .. Len(tasks[w]) : tasks[w][i] = "perform"
      BY <2>3 DEF Has
    <3>2. S = {i}
      BY <2>1, <3>1 DEF Shuts, PerformLast
    <3>3. Cardinality(S) = 1
      BY <3>2, FS_Singleton
    <3>4. Shutdowns(w) = 1
      BY <2>3, <3>3 DEF Shutdowns
    <3> QED BY <2>1, <2>3, <3>4 DEF Shuts
  <2>4. CASE pc[w].at # "ended" /\ ~ Has(tasks[w], "perform")
    <3>1. S = {}
      BY <2>4 DEF Has
    <3>2. Cardinality(S) = 0
      BY <3>1, FS_EmptySet
    <3>3. Shutdowns(w) = 0
      BY <2>4, <3>2 DEF Shutdowns
    <3> QED BY <2>1, <2>4, <3>3 DEF Shuts
  <2> QED BY <2>2, <2>3, <2>4
<1> QED BY <1>1, InvHolds, PTL

(* When its shutdown has been performed nothing is left to run on the      *)
(* thread of a worker, and its owner is not about to post to it.           *)
THEOREM NothingComesAfter == Spec => []NothingAfterShutdown
<1>1. IInv => NothingAfterShutdown
  <2> SUFFICES ASSUME IInv, NEW w \in Worker, pc[w].at = "ended"
               PROVE  /\ tasks[w] = <<>>
                      /\ \A u \in Thread :
                           pc[u].at \in {"post prepare", "prepared"} => pc[u].child # w
    BY DEF NothingAfterShutdown
  <2>1. tasks[w] = <<>> /\ termination_progress[w] = "Performing"
    BY DEF IInv, WorkerInv, Shuts
  <2>2. ASSUME NEW u \in Thread, pc[u].at \in {"post prepare", "prepared"}
        PROVE  termination_progress[pc[u].child] = "Requested"
    BY <2>2 DEF IInv, Asks, Terminating
  <2> QED BY <2>1, <2>2
<1> QED BY <1>1, InvHolds, PTL

(* The thread of a script owns its slot in the detector from before the    *)
(* first instruction to after the last, a nested event loop included, and  *)
(* a worker that has ended does not keep one.                              *)
THEOREM SlotForScripts == Spec => []SlotWhileScript
<1>1. IInv => SlotWhileScript
  BY DEF IInv, WorkerInv, OwnsSlot, Shuts, SlotWhileScript
<1> QED BY <1>1, InvHolds, PTL

============================================================================
