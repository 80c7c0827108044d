------------------------------ MODULE Messages ------------------------------
(***************************************************************************)
(* postMessage between the main thread and a dedicated worker, composed    *)
(* with the detector of WebTSan: the queues of the messaging proxy and of  *)
(* the two event loops, the detector's edge that every message carries,    *)
(* and the ports of one MessageChannel.                                    *)
(*                                                                         *)
(* The main thread has slot 0; the thread of the worker gets its slot when *)
(* it is initialized.  A step is one call on one of the two threads.  The  *)
(* reports of the worker to its proxy come over other task queues than its *)
(* messages, so they may overtake them.                                    *)
(*                                                                         *)
(* The history variable thread_hb of WebTSan gets what happens before a    *)
(* message whenever its handler runs, whatever the hooks do: the edge under*)
(* which the message was sent keeps it.                                    *)
(***************************************************************************)
EXTENDS WebTSan, Sequences, FiniteSets

VARIABLES
  worker,                \* where the worker is in its life
  worker_tid,            \* the slot of its thread
  asked_to_terminate,    \* AskedToTerminate() of the proxy
  was_script_evaluated,  \* was_script_evaluated_
  queued_early_tasks,    \* queued_early_tasks_
  to_worker, to_owner,   \* the kPostedMessage tasks of the two threads
  reports,               \* what the worker has posted to the proxy besides
  to_port,               \* the pipe to each end of the MessageChannel
  port_handled,          \* history: a message of a port has been handled
  handled                \* history: the last message each end has handled

proxyVars == <<asked_to_terminate, was_script_evaluated, queued_early_tasks>>
queueVars == <<to_worker, to_owner, reports, to_port>>
historyVars == <<port_handled, handled>>
transportVars == <<worker, worker_tid, proxyVars, queueVars, historyVars>>
allVars == <<vars, transportVars>>

Owner == 0
End == {"owner", "worker"}
TidOf(end) == IF end = "owner" THEN Owner ELSE worker_tid

\* What is sent: the edge that goes along, and the edge it was sent under.
Message == [edge : {0} \cup EdgeId, sent : EdgeId]

MessagesInit ==
  /\ Init
  /\ worker = "starting" /\ worker_tid = NoTid
  /\ asked_to_terminate = FALSE /\ was_script_evaluated = FALSE
  /\ queued_early_tasks = <<>> /\ to_worker = <<>> /\ to_owner = <<>>
  /\ reports = {} /\ to_port = [end \in End |-> <<>>]
  /\ port_handled = FALSE
  /\ handled = [end \in End |-> 0]

-----------------------------------------------------------------------------
(* The worker's life.                                                      *)

\* OnWorkerCreate, which names no parent.
WorkerCreated ==
  /\ worker = "starting" /\ worker_tid = NoTid
  /\ \E tid \in Tid : StartThread(NoTid, tid) /\ worker_tid' = tid
  /\ UNCHANGED <<worker, proxyVars, queueVars, historyVars>>

RunWorkerScript ==
  /\ worker = "starting" /\ worker_tid # NoTid /\ Idle(worker_tid)
  /\ worker' = "running"
  /\ reports' = reports \cup {"evaluated"}
  /\ UNCHANGED <<vars, worker_tid, proxyVars, to_worker, to_owner, to_port, historyVars>>

\* self.close(): the tasks of the worker are disposed of.
Close ==
  /\ worker = "running" /\ Idle(worker_tid)
  /\ worker' = "closing"
  /\ reports' = reports \cup {"closed"}
  /\ to_worker' = <<>>
  /\ UNCHANGED <<vars, worker_tid, proxyVars, to_owner, to_port, historyVars>>

\* terminate() of the worker object, or the report that the worker has closed.
Terminate ==
  /\ Idle(Owner) /\ ~asked_to_terminate
  /\ asked_to_terminate' = TRUE
  /\ reports' \in {reports, reports \ {"closed"}}
  /\ UNCHANGED <<vars, worker, worker_tid, was_script_evaluated, queued_early_tasks,
                 to_worker, to_owner, to_port, historyVars>>

\* PerformShutdownOnWorkerThread, with OnWorkerDestroy.
PerformShutdown ==
  /\ asked_to_terminate /\ worker_tid # NoTid /\ worker # "ended"
  /\ ThreadDestroy(worker_tid)
  /\ worker' = "ended" /\ worker_tid' = NoTid
  /\ to_worker' = <<>>
  /\ UNCHANGED <<proxyVars, to_owner, reports, to_port, historyVars>>

\* The owner learns that the script was evaluated, and posts what has waited for
\* it, in order, unless the thread is gone.
KeepsEarlyTasks ==           \* mutant: the queue is not swapped away
  /\ Idle(Owner) /\ "evaluated" \in reports
  /\ reports' = reports \ {"evaluated"}
  /\ was_script_evaluated' = TRUE
  /\ to_worker' = IF worker = "running" THEN to_worker \o queued_early_tasks ELSE to_worker
  /\ UNCHANGED <<vars, worker, worker_tid, asked_to_terminate, queued_early_tasks, to_owner,
                 to_port, historyVars>>
EarlyTasksForgotten ==       \* mutant: the tasks that waited are not posted
  /\ Idle(Owner) /\ "evaluated" \in reports
  /\ reports' = reports \ {"evaluated"}
  /\ was_script_evaluated' = TRUE
  /\ queued_early_tasks' = <<>>
  /\ UNCHANGED <<vars, worker, worker_tid, asked_to_terminate, to_worker, to_owner, to_port,
                 historyVars>>
DidEvaluateScript ==
  /\ Idle(Owner) /\ "evaluated" \in reports
  /\ reports' = reports \ {"evaluated"}
  /\ was_script_evaluated' = TRUE
  /\ queued_early_tasks' = <<>>
  /\ to_worker' = IF worker = "running" THEN to_worker \o queued_early_tasks ELSE to_worker
  /\ UNCHANGED <<vars, worker, worker_tid, asked_to_terminate, to_owner, to_port,
                 historyVars>>

-----------------------------------------------------------------------------
(* Messages.                                                               *)

\* A message under the edge that OnPostMessageSend hands out next.
NextMessage == [edge |-> next_edge_id, sent |-> next_edge_id]

\* DedicatedWorker::postMessage: the hook comes first, then the proxy drops the
\* message, keeps it until the script is evaluated, or posts it.
PostsAtOnce ==               \* mutant: posted as soon as the worker runs
  /\ HappensBefore(Owner)
  /\ queued_early_tasks' = IF asked_to_terminate \/ worker = "running" THEN queued_early_tasks
                           ELSE Append(queued_early_tasks, NextMessage)
  /\ to_worker' = IF worker = "running" /\ ~asked_to_terminate
                  THEN Append(to_worker, NextMessage) ELSE to_worker
  /\ UNCHANGED <<worker, worker_tid, asked_to_terminate, was_script_evaluated, to_owner,
                 reports, to_port, historyVars>>
PostMessageToWorker ==
  /\ HappensBefore(Owner)
  /\ queued_early_tasks' = IF asked_to_terminate \/ was_script_evaluated THEN queued_early_tasks
                           ELSE Append(queued_early_tasks, NextMessage)
  /\ to_worker' = IF was_script_evaluated /\ ~asked_to_terminate /\ worker = "running"
                  THEN Append(to_worker, NextMessage) ELSE to_worker
  /\ UNCHANGED <<worker, worker_tid, asked_to_terminate, was_script_evaluated, to_owner,
                 reports, to_port, historyVars>>

\* DedicatedWorkerGlobalScope::postMessage.
PostMessageToOwner ==
  /\ worker \in {"starting", "running"} /\ worker_tid # NoTid
  /\ HappensBefore(worker_tid)
  /\ to_owner' = Append(to_owner, NextMessage)
  /\ UNCHANGED <<worker, worker_tid, proxyVars, to_worker, reports, to_port, historyVars>>

Handles(end, message) == handled' = [handled EXCEPT ![end] = message.sent]

\* WorkerGlobalScope::ReceiveMessage.
ReceiveMessage ==
  /\ worker = "running" /\ to_worker # <<>>
  /\ HappensAfter(worker_tid, Head(to_worker).edge)
  /\ to_worker' = Tail(to_worker)
  /\ Handles("worker", Head(to_worker))
  /\ UNCHANGED <<worker, worker_tid, proxyVars, to_owner, reports, to_port, port_handled>>

\* DedicatedWorkerMessagingProxy::PostMessageToWorkerObject: a message that comes
\* after terminate() is dropped before its hook.
ReceivesLate ==              \* mutant: the hook comes after the handlers have run
  /\ to_owner # <<>> /\ Idle(Owner)
  /\ to_owner' = Tail(to_owner)
  /\ IF asked_to_terminate
     THEN UNCHANGED <<vars, handled>>
     ELSE /\ thread_hb' = [thread_hb EXCEPT ![Owner] = @ \cup edge_hb[Head(to_owner).sent]]
          /\ Handles("owner", Head(to_owner))
          /\ UNCHANGED <<thread_clocks, slotVars, syncVars, edgeVars, orphanVars, shadow,
                         callVars>>
  /\ UNCHANGED <<worker, worker_tid, proxyVars, to_worker, reports, to_port, port_handled>>
PostMessageToWorkerObject ==
  /\ to_owner # <<>> /\ Idle(Owner)
  /\ to_owner' = Tail(to_owner)
  /\ IF asked_to_terminate
     THEN UNCHANGED <<vars, handled>>
     ELSE HappensAfter(Owner, Head(to_owner).edge) /\ Handles("owner", Head(to_owner))
  /\ UNCHANGED <<worker, worker_tid, proxyVars, to_worker, reports, to_port, port_handled>>

\* MessagePort::postMessage: the message is serialised, without its edge.
PortPostMessage(end) ==
  /\ end = "worker" => worker \in {"starting", "running"} /\ worker_tid # NoTid
  /\ HappensBefore(TidOf(end))
  /\ \E other \in End \ {end} :
       to_port' = [to_port EXCEPT ![other] = Append(@, [edge |-> 0, sent |-> next_edge_id])]
  /\ UNCHANGED <<worker, worker_tid, proxyVars, to_worker, to_owner, reports, historyVars>>

\* DispatchMessageEvent: HappensAfter returns at once for edge 0.
DispatchMessageEvent(end) ==
  /\ to_port[end] # <<>>
  /\ end = "worker" => worker = "running"
  /\ Idle(TidOf(end))
  /\ to_port' = [to_port EXCEPT ![end] = Tail(@)]
  /\ thread_hb' = [thread_hb EXCEPT ![TidOf(end)] = @ \cup edge_hb[Head(to_port[end]).sent]]
  /\ port_handled' = TRUE
  /\ UNCHANGED <<thread_clocks, slotVars, syncVars, edgeVars, orphanVars, shadow, callVars,
                 worker, worker_tid, proxyVars, to_worker, to_owner, reports, handled>>

-----------------------------------------------------------------------------
\* The memory accesses of the two threads.
AccessNext ==
  /\ \E t \in Tid :
       \/ \E range \in Ranges, kind \in {"read", "write"} : MemoryAccess(t, range, kind)
       \/ TakeSnapshot(t)
       \/ RecordByte(t)
  /\ UNCHANGED transportVars

Deliver ==
  \/ DidEvaluateScript \/ ReceiveMessage \/ PostMessageToWorkerObject
  \/ \E end \in End : DispatchMessageEvent(end)

MessagesNext ==
  \/ WorkerCreated \/ RunWorkerScript \/ Close \/ Terminate \/ PerformShutdown
  \/ PostMessageToWorker \/ PostMessageToOwner
  \/ \E end \in End : PortPostMessage(end)
  \/ Deliver
  \/ AccessNext

(* The event loops: an access ends, and a task that is posted is run.      *)
EventLoops ==
  /\ \A t \in Tid : WF_allVars((TakeSnapshot(t) \/ RecordByte(t)) /\ UNCHANGED transportVars)
  /\ SF_allVars(DidEvaluateScript)
  /\ SF_allVars(ReceiveMessage)
  /\ SF_allVars(PostMessageToWorkerObject)

MessagesSpec == MessagesInit /\ [][MessagesNext]_allVars /\ EventLoops

-----------------------------------------------------------------------------
(* Correctness.                                                            *)

InFlight ==
  {queued_early_tasks[i] : i \in 1 .. Len(queued_early_tasks)}
    \cup {to_worker[i] : i \in 1 .. Len(to_worker)}
    \cup {to_owner[i] : i \in 1 .. Len(to_owner)}

(* The messages in flight between the worker and its object, and the slot  *)
(* of a worker that runs: each message is in one queue once and its edge   *)
(* waits in hb_edges_ for it, whatever is terminated in between.           *)
EdgeWaits ==
  /\ Cardinality(InFlight) =
       Len(queued_early_tasks) + Len(to_worker) + Len(to_owner)
  /\ \A m \in InFlight : m.edge \in edges
  /\ worker_tid # NoTid => worker_tid \in thread_alive

(* What was written before a message was sent is never reported as a race  *)
(* with its handler, neither way, whether the message has waited for the   *)
(* script or not, as long as no message of a port has been handled.        *)
OrderedByMessages == ~port_handled => NoFalseRace

(* Each side handles the messages of the other in the order they were sent *)
(* in, also those that had to wait for the script (DidEvaluateScript).     *)
HandledInOrder == [][\A end \in End : handled'[end] >= handled[end]]_allVars

(* A message that has been sent is handled by the event loop of the other  *)
(* side, unless the worker is asked to terminate, closes itself or never   *)
(* gets to the end of its script.                                          *)
MessagesArrive ==
  \A i \in EdgeId :
    (\E m \in InFlight : m.sent = i) ~>
      \/ \E end \in End : handled[end] >= i
      \/ asked_to_terminate \/ worker # "running"

=============================================================================
