------------------------------- MODULE VClocks -------------------------------
(***************************************************************************)
(* The vector clock of the detector: class VClock of web_tsan.h.  A clock  *)
(* has one counter per logical thread slot, all zero when constructed.     *)
(* The counters are uint64_t; a run of the browser cannot tick one 2^64    *)
(* times, so they are naturals here.                                       *)
(***************************************************************************)
EXTENDS Integers

CONSTANT kMaxThreads      \* number of logical thread slots (64 in web_tsan.h)

ASSUME MaxThreadsAssumption == kMaxThreads \in Nat \ {0}

Tid == 0 .. kMaxThreads - 1

VClock == [Tid -> Nat]

ZeroClock == [u \in Tid |-> 0]

Increment(c, t) == [c EXCEPT ![t] = @ + 1]

\* Component-wise maximum.
Join(c, d) == [u \in Tid |-> IF d[u] > c[u] THEN d[u] ELSE c[u]]

\* VClock::HappensBefore: every component of c is at most that of d.
Leq(c, d) == \A u \in Tid : ~ (c[u] > d[u])

==============================================================================
