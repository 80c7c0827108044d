----------------------------- MODULE WaiterLists -----------------------------
(***************************************************************************)
(* What Atomics.wait, waitAsync and notify promise, whatever lists, queues *)
(* and tasks futex-emulation.cc keeps for it.  Whoever waits at a location *)
(* waits in the order of arrival.  A notify takes effect at one moment: it *)
(* wakes those who have waited longest, as many as it was asked to and not *)
(* one more.  Who has been woken comes to "ok", who has not and has waited *)
(* long enough comes to "timed-out", and nobody comes to both.             *)
(*                                                                         *)
(* An asynchronous waiter does not keep its memory.  When this is freed it *)
(* is an orphan, which no notify wakes.  A notify that clears orphans away *)
(* ends at the first of them and may wake fewer than it should.            *)
(***************************************************************************)
EXTENDS Integers, FiniteSets

CONSTANTS
  Thread,    \* those who notify
  Waiter,    \* those who wait
  Location,  \* where they do
  Counts     \* how many a notify may be asked to wake

VARIABLES
  place,     \* of each waiter, where it waits; its domain are those who wait
  earlier,   \* the <<m, n>> at one location where m has waited longer than n
  orphans,   \* the waiters whose memory is gone
  notified,  \* those who have been woken and have not returned
  asked,     \* of each thread, the notify that it is in
  answer     \* what the wait came to that ended in the last step

vars == <<place, earlier, orphans, notified, asked, answer>>

waiters == DOMAIN place
NotAsked == <<>>

Init ==
  /\ place = <<>> /\ earlier = {} /\ orphans = {} /\ notified = {}
  /\ asked = [t \in Thread |-> NotAsked]
  /\ answer = "none"

\* The waiters of S wait no longer.
Remove(S) ==
  /\ place' = [n \in waiters \ S |-> place[n]]
  /\ earlier' = {p \in earlier : p[1] \notin S /\ p[2] \notin S}
  /\ orphans' = orphans \ S

\* n waits behind everybody at l.
Wait(n, l) ==
  /\ n \notin waiters \cup notified
  /\ place' = [m \in waiters \cup {n} |-> IF m = n THEN l ELSE place[m]]
  /\ earlier' = earlier \cup {<<m, n>> : m \in {w \in waiters : place[w] = l}}
  /\ answer' = "none"
  /\ UNCHANGED <<orphans, notified, asked>>

Notify(t, l, count) ==
  /\ asked[t] = NotAsked
  /\ asked' = [asked EXCEPT ![t] = <<l, count>>]
  /\ answer' = "none"
  /\ UNCHANGED <<place, earlier, orphans, notified>>

\* The notify of t wakes woken and clears cleared away.
Wake(t, woken, cleared) ==
  LET here == {n \in waiters : place[n] = asked[t][1]} \ orphans
      count == asked[t][2]
  IN
  /\ asked[t] # NotAsked
  /\ woken \subseteq here
  /\ cleared \subseteq {n \in orphans : place[n] = asked[t][1]}
  \* nobody is passed over,
  /\ \A n \in woken, m \in here : <<m, n>> \in earlier => m \in woken
  \* nobody is woken whom it was not asked to wake, and nobody is forgotten
  /\ Cardinality(woken) <= count
  /\ Cardinality(woken) = count \/ woken = here \/ cleared # {}
  /\ Remove(woken \cup cleared)
  /\ notified' = notified \cup woken
  /\ asked' = [asked EXCEPT ![t] = NotAsked]
  /\ answer' = "none"

Return(n) ==
  /\ n \in notified
  /\ notified' = notified \ {n}
  /\ answer' = "ok"
  /\ UNCHANGED <<place, earlier, orphans, asked>>

TimeOut(n) ==
  /\ n \in waiters
  /\ Remove({n})
  /\ answer' = "timed-out"
  /\ UNCHANGED <<notified, asked>>

\* The waits of S end with nobody to hear of it, or with an exception.
End(S) ==
  /\ Remove(S)
  /\ notified' = notified \ S
  /\ answer' = "none"
  /\ UNCHANGED asked

\* The memory at l is freed.
Free(l) ==
  /\ orphans' = orphans \cup {n \in waiters : place[n] = l}
  /\ answer' = "none"
  /\ UNCHANGED <<place, earlier, notified, asked>>

Next ==
  \/ \E n \in Waiter, l \in Location : Wait(n, l)
  \/ \E t \in Thread, l \in Location, count \in Counts : Notify(t, l, count)
  \/ \E t \in Thread, woken, cleared \in SUBSET Waiter : Wake(t, woken, cleared)
  \/ \E n \in Waiter : Return(n) \/ TimeOut(n)
  \/ \E S \in SUBSET Waiter : End(S)
  \/ \E l \in Location : Free(l)

Spec == Init /\ [][Next]_vars

=============================================================================
