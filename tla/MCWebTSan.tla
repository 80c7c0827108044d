------------------------------ MODULE MCWebTSan ------------------------------
(* Small instances of the detector for TLC.                                *)
EXTENDS WebTSan

OneByte == {<<0, 1>>}
\* An access that runs past the end of a two-byte buffer.
PastTheEnd == {<<0, 4>>}

\* Nothing is claimed of the detector once a live thread has lost its slot.
NobodyRobbed == robbed = {}

\* A message is explored without the other clocks that a thread can pick up, of a
\* sync address or of a thread that is gone: all are joined in the same way.
OneChannel ==
  next_edge_id > 1 => orphan_clock = ZeroClock /\ \A a \in SyncAddr : sync_clocks[a] = ZeroClock

\* Spec reads neither finished nor retired.
SpecView == <<thread_clocks, thread_hb, thread_alive, next_tid, robbed, syncVars,
              edgeVars, orphanVars, shadow, callVars>>

\* Workers that live on and talk through postMessage, atomics and mutexes.
MessageNext ==
  \/ SyncNext(Tid)
  \/ thread_alive # Tid /\ ThreadCreate(NoTid)
  \/ \E t \in Tid : HappensBefore(t)
  \/ \E t \in Tid, id \in EdgeId : HappensAfter(t, id)

MessageSpec == Init /\ [][MessageNext]_vars

\* The disciplined program, with threads created by a parent, whose clock does
\* not tick either.
ChildrenNext ==
  \/ DisciplinedNext
  \/ \E parent \in Running :
       Idle(parent) /\ thread_alive # Tid /\ ThreadCreate(parent)

ChildrenSpec == Init /\ [][ChildrenNext]_vars

==============================================================================
