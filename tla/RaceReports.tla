----------------------------- MODULE RaceReports -----------------------------
(***************************************************************************)
(* The way of a race report from the shadow cells to console.error: the    *)
(* tail of WebTSan::MemoryAccess (dedup by site key, one pending report in *)
(* thread-local storage) and the places that take the pending report and   *)
(* call console.error.                                                     *)
(*                                                                         *)
(* A race is met at a site, a bucket of eight bytes of a SharedArrayBuffer;*)
(* addresses count in buckets.  Nothing here changes when a buffer is freed*)
(* and another one allocated at its address: its sites stay silenced.      *)
(*                                                                         *)
(* An access takes the detector's locks one after the other, and other     *)
(* threads run in between: RecordAccess finds a race, the dedup silences   *)
(* its site and makes it the pending report, and then the reporter of the  *)
(* access, if it has one, takes what is pending.                           *)
(*                                                                         *)
(* A thread that reports is inside console.error, which is JavaScript and  *)
(* may come back into the hooks (Reentrant); frames is its stack of such   *)
(* calls, the innermost one last.                                          *)
(***************************************************************************)
EXTENDS Integers, Sequences

CONSTANTS
  Thread,
  Buffer,     \* the <<address, buckets>> of the SharedArrayBuffers
  Source,     \* where accesses come from: "wasm", "atomics", "range", "bulk"
  Reentrant,  \* whether console.error comes back into the hooks
  ExclusiveOr(_, _)   \* operator ^ of two unsigned integers

ASSUME ReportAssumption ==
  /\ Buffer \subseteq (Nat \X Nat)
  /\ \A b \in Buffer : \A o \in 0 .. b[2] - 1 : ExclusiveOr(b[1], o) \in Nat
  /\ Source \subseteq {"wasm", "atomics", "range", "bulk"}
  /\ Reentrant \in BOOLEAN

VARIABLES
  reported_race_sites,  \* reported_race_sites_: the site keys
  access,               \* the access each thread is in
  pending,              \* g_race_detected and g_race_message: a race or NoRace
  frames,               \* the console.error calls each thread is in
  s_in_race_report,     \* guard of Runtime_WasmTraceMemory
  s_in_flush,           \* guard of FlushPendingRaceToConsole
  unattended,           \* history: the threads whose pending report no reporter follows
  settled               \* history: what became of the reports, in order

vars == <<reported_race_sites, access, pending, frames, s_in_race_report,
          s_in_flush, unattended, settled>>
guards == <<frames, s_in_race_report, s_in_flush>>

Race == UNION {{<<b[1], o>> : o \in 0 .. b[2] - 1} : b \in Buffer}
NoRace == <<>>

\* backing_store ^ (sab_offset & ~7)
SiteKey(r) == ExclusiveOr(r[1], r[2])

\* An access, from RecordAccess to the end of its hook: the race it has met, and
\* whether the dedup or the reporter is next.
Access == [from : {"wasm", "range", "bulk", "none"}, race : Race \cup {NoRace},
           at : {"dedup", "reporter", "done"}]
NoAccess == [from |-> "none", race |-> NoRace, at |-> "done"]

Frame == {"wasm", "runtime", "flush"}

\* What becomes of a report: console.error gets it, or the thread's next report
\* overwrites it, before any reporter has come (overwritten) or in its way (lost).
Settled == [key : Nat, how : {"taken", "overwritten", "lost"}]

(* Every variable keeps its type: a pending report is one race or none,    *)
(* and the site keys are unsigned (site_key in MemoryAccess).              *)
TypeOK ==
  /\ reported_race_sites \subseteq Nat
  /\ access \in [Thread -> Access]
  /\ pending \in [Thread -> Race \cup {NoRace}]
  /\ frames \in [Thread -> Seq(Frame)]
  /\ s_in_race_report \subseteq Thread
  /\ s_in_flush \subseteq Thread
  /\ unattended \subseteq Thread
  /\ settled \in Seq(Settled)

Init ==
  /\ reported_race_sites = {}
  /\ access = [t \in Thread |-> NoAccess]
  /\ pending = [t \in Thread |-> NoRace]
  /\ frames = [t \in Thread |-> <<>>]
  /\ s_in_race_report = {}
  /\ s_in_flush = {}
  /\ unattended = {}
  /\ settled = <<>>

-----------------------------------------------------------------------------
\* Thread t, which is in no hook, runs code that can reach one.
Runs(t) == access[t] = NoAccess /\ (frames[t] # <<>> => Reentrant)

\* Whether the report of an access from this source finds its own reporter: the
\* one of __webTSanRecordRange is deaf during its own console.error.
Attended(t, from) == from = "wasm" \/ (from = "range" /\ t \notin s_in_flush)

\* RecordAccess of the shadow has met the race r, or none.
Begin(t, r, from) ==
  /\ from \in Source /\ Runs(t)
  /\ access' = [access EXCEPT ![t] = [from |-> from, race |-> r, at |-> "dedup"]]
  /\ UNCHANGED <<reported_race_sites, pending, guards, unattended, settled>>

(* Runtime_WasmTraceMemory for an access that is not atomic, up to the race*)
(* that wasm_access meets.                                                 *)
WasmTraceMemory(t, r) == t \notin s_in_race_report /\ Begin(t, r, "wasm")

(* __webTSanRecordRange, up to the race that it meets.                     *)
RecordRangeCallback(t, r) == Begin(t, r, "range")

(* One sample of MaybeReportTSanBulkRange.                                 *)
BulkSample(t, r) == Begin(t, r, "bulk")

Fresh(r) == r # NoRace /\ SiteKey(r) \notin reported_race_sites

\* The dedup silences the site of r, and r becomes the pending report, whatever
\* was pending before.
Publish(t, r) ==
  /\ reported_race_sites' = reported_race_sites \cup {SiteKey(r)}
  /\ pending' = [pending EXCEPT ![t] = r]
  /\ settled' = IF pending[t] = NoRace THEN settled
                ELSE Append(settled, [key |-> SiteKey(pending[t]),
                                 how |-> IF t \in unattended THEN "overwritten" ELSE "lost"])
  /\ unattended' = IF Attended(t, access[t].from) THEN unattended \ {t}
                   ELSE unattended \cup {t}

(* The end of MemoryAccess.  A bulk sample has no reporter behind it.      *)
MemoryAccess(t) ==
  /\ access[t].at = "dedup"
  /\ access' = [access EXCEPT ![t] =
                  IF @.from = "bulk" THEN NoAccess ELSE [@ EXCEPT !.at = "reporter"]]
  /\ IF Fresh(access[t].race)
     THEN Publish(t, access[t].race)
     ELSE UNCHANGED <<reported_race_sites, pending, settled, unattended>>
  /\ UNCHANGED guards

\* A reporter takes the pending report and calls console.error under its guard,
\* or finds no console.error to call and resets its guard at once.
Take(t) ==
  /\ pending[t] # NoRace
  /\ pending' = [pending EXCEPT ![t] = NoRace]
  /\ settled' = Append(settled, [key |-> SiteKey(pending[t]), how |-> "taken"])
  /\ unattended' = unattended \ {t}

Report(t, in) ==
  /\ frames' = [frames EXCEPT ![t] = Append(@, in)]
  /\ s_in_race_report' =
       IF in = "wasm" THEN s_in_race_report \cup {t} ELSE s_in_race_report
  /\ s_in_flush' = IF in = "flush" THEN s_in_flush \cup {t} ELSE s_in_flush

DiscardKeepsGuard(t, in) ==      \* mutant: an early return leaves s_in_flush set
  /\ s_in_flush' = IF in = "flush" THEN s_in_flush \cup {t} ELSE s_in_flush
  /\ UNCHANGED <<frames, s_in_race_report>>
Discard(t, in) == UNCHANGED guards

Reporter(t, in) == Take(t) /\ (Report(t, in) \/ Discard(t, in))

(* The rest of Runtime_WasmTraceMemory, and of __webTSanRecordRange, which *)
(* calls FlushPendingRaceToConsole.                                        *)
ConsumeRace(t) ==
  /\ access[t].at = "reporter"
  /\ access' = [access EXCEPT ![t] = NoAccess]
  /\ IF pending[t] # NoRace /\ Attended(t, access[t].from)
     THEN Reporter(t, IF access[t].from = "wasm" THEN "wasm" ELSE "flush")
     ELSE UNCHANGED <<pending, settled, unattended, guards>>
  /\ UNCHANGED reported_race_sites

(* Runtime_WebTSanAtomicsLoad, Store, RMW: MaybeThrowRace, with no guard.  *)
MaybeThrowRace(t) ==
  /\ "atomics" \in Source /\ Runs(t)
  /\ Reporter(t, "runtime")
  /\ UNCHANGED <<reported_race_sites, access>>

(* The innermost console.error returns, and its caller resets its guard.   *)
ResetGuard(t, in) ==
  /\ s_in_race_report' = IF in = "wasm" THEN s_in_race_report \ {t} ELSE s_in_race_report
  /\ s_in_flush' = IF in = "flush" THEN s_in_flush \ {t} ELSE s_in_flush

ReturnedClears(t) ==        \* mutant: the pending report is cleared after the call
  /\ frames[t] # <<>> /\ access[t] = NoAccess
  /\ ResetGuard(t, frames[t][Len(frames[t])])
  /\ frames' = [frames EXCEPT ![t] = SubSeq(@, 1, Len(@) - 1)]
  /\ pending' = [pending EXCEPT ![t] = NoRace]
  /\ UNCHANGED <<reported_race_sites, access, unattended, settled>>
Returned(t) ==
  /\ frames[t] # <<>> /\ access[t] = NoAccess
  /\ ResetGuard(t, frames[t][Len(frames[t])])
  /\ frames' = [frames EXCEPT ![t] = SubSeq(@, 1, Len(@) - 1)]
  /\ UNCHANGED <<reported_race_sites, access, pending, unattended, settled>>

Next ==
  \/ \E t \in Thread :
       \/ \E r \in Race \cup {NoRace} :
            WasmTraceMemory(t, r) \/ RecordRangeCallback(t, r) \/ BulkSample(t, r)
       \/ MemoryAccess(t) \/ ConsumeRace(t) \/ MaybeThrowRace(t) \/ Returned(t)

Spec == Init /\ [][Next]_vars

-----------------------------------------------------------------------------
(* Correctness.                                                            *)

\* Where a report of site key k is, or what became of it.
Places(k) ==
  {<<"settled", i>> : i \in {j \in 1 .. Len(settled) : settled[j].key = k}}
    \cup {<<"pending", t>> : t \in {u \in Thread : /\ pending[u] # NoRace
                                                 /\ SiteKey(pending[u]) = k}}

\* Each silenced site key has one report, and no other key has one.
OneReportPerKey ==
  /\ \A k \in reported_race_sites : \E p \in Places(k) : Places(k) = {p}
  /\ \A i \in 1 .. Len(settled) : settled[i].key \in reported_race_sites
  /\ \A t \in Thread : pending[t] # NoRace => SiteKey(pending[t]) \in reported_race_sites

(* A site is silenced before anything is reported, in one lock and one     *)
(* thread-local slot per thread that others use too (MemoryAccess), and    *)
(* never again.  So its one report may neither be lost nor made twice,     *)
(* whoever else meets the site meanwhile, and whatever console.error calls:*)
(* each silenced site has exactly one report, which is pending in one      *)
(* thread, or a reporter has taken it, or another report has overwritten   *)
(* it; and that happens only to reports that no reporter follows, those of *)
(* bulk samples and of __webTSanRecordRange in its own console.error.      *)
SiteHasOneReport ==
  /\ OneReportPerKey
  /\ \A i \in 1 .. Len(settled) : settled[i].how # "lost"

(* A guard is set exactly while its reporter is in console.error, and that *)
(* is never twice: no early return of a reporter leaves the thread deaf,   *)
(* and console.error does not call itself through the same reporter.       *)
GuardsMatchFrames ==
  \A t \in Thread :
    LET depth(in) == {i \in 1 .. Len(frames[t]) : frames[t][i] = in} IN
    /\ (t \in s_in_race_report) = (depth("wasm") # {})
    /\ (t \in s_in_flush) = (depth("flush") # {})
    /\ \A i, j \in depth("wasm") : i = j
    /\ \A i, j \in depth("flush") : i = j

=============================================================================
