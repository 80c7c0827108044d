--------------------------- MODULE RaceReportsProofs ---------------------------
(***************************************************************************)
(* Theorems about the way of a race report, for every number of threads,   *)
(* buffers and generations of them, whatever operator makes the site keys. *)
(***************************************************************************)
EXTENDS RaceReports, SequenceTheorems, TLAPS

(* The site key of a race is unsigned.                                     *)
LEMMA SiteKeyType == \A r \in Race : SiteKey(r) \in Nat
<1> SUFFICES ASSUME NEW r \in Race PROVE SiteKey(r) \in Nat
  OBVIOUS
<1>1. PICK b \in Buffer : r \in {<<b[1], o>> : o \in 0 .. b[2] - 1}
  BY DEF Race
<1>2. PICK o \in 0 .. b[2] - 1 : r = <<b[1], o>>
  BY <1>1
<1> QED BY <1>2, ReportAssumption DEF SiteKey

-----------------------------------------------------------------------------
(* The strengthening.                                                      *)

\* Where a report of site key k is in the history, and in which threads.
Keyed(k) == {i \in 1 .. Len(settled) : settled[i].key = k}
PendingAt(k) == {t \in Thread : pending[t] # NoRace /\ SiteKey(pending[t]) = k}

\* A silenced site has its report at one place, and any other at none.
OnePlace(k) ==
  \/ Keyed(k) = {} /\ \E t \in Thread : PendingAt(k) = {t}
  \/ PendingAt(k) = {} /\ \E i \in Nat : Keyed(k) = {i}
NoPlace(k) == Keyed(k) = {} /\ PendingAt(k) = {}
Reports ==
  /\ \A k \in reported_race_sites : OnePlace(k)
  /\ \A k : k \notin reported_race_sites => NoPlace(k)

\* A report waits outside its own access only if no reporter follows that one, and
\* a Wasm access is never inside the console.error of another.
WaitsRight(t) ==
  /\ \/ pending[t] = NoRace
     \/ t \in unattended
     \/ access[t].at = "reporter" /\ Attended(t, access[t].from)
  /\ access[t].from = "wasm" => t \notin s_in_race_report
Waiting == \A t \in Thread : WaitsRight(t)

NoneLost == \A i \in 1 .. Len(settled) : settled[i].how # "lost"

(* The strengthening says what SiteHasOneReport does.                      *)
LEMMA ReportsAreOne == Reports /\ NoneLost => SiteHasOneReport
<1> SUFFICES ASSUME Reports, NoneLost PROVE SiteHasOneReport
  OBVIOUS
<1>1. \A k : Places(k) = {<<"settled", i>> : i \in Keyed(k)} \cup {<<"pending", t>> : t \in PendingAt(k)}
  BY DEF Places, Keyed, PendingAt
<1>2. ASSUME NEW k \in reported_race_sites PROVE \E p \in Places(k) : Places(k) = {p}
  <2>1. OnePlace(k)
    BY DEF Reports
  <2>2. CASE Keyed(k) = {} /\ \E t \in Thread : PendingAt(k) = {t}
    <3>1. PICK t \in Thread : PendingAt(k) = {t}
      BY <2>2
    <3>2. Places(k) = {<<"pending", t>>}
      BY <1>1, <2>2, <3>1
    <3> QED BY <3>2
  <2>3. CASE PendingAt(k) = {} /\ \E i \in Nat : Keyed(k) = {i}
    <3>1. PICK i \in Nat : Keyed(k) = {i}
      BY <2>3
    <3>2. Places(k) = {<<"settled", i>>}
      BY <1>1, <2>3, <3>1
    <3> QED BY <3>2
  <2> QED BY <2>1, <2>2, <2>3 DEF OnePlace
<1>3. \A i \in 1 .. Len(settled) : settled[i].key \in reported_race_sites
  BY DEF Reports, NoPlace, Keyed
<1>4. \A t \in Thread : pending[t] # NoRace => SiteKey(pending[t]) \in reported_race_sites
  BY DEF Reports, NoPlace, PendingAt
<1> QED BY <1>2, <1>3, <1>4 DEF SiteHasOneReport, OneReportPerKey, NoneLost

Inv == TypeOK /\ GuardsMatchFrames /\ Reports /\ NoneLost /\ Waiting

\* What stays of the types of the frames and the guards.
FrameTypes ==
  /\ frames \in [Thread -> Seq(Frame)]
  /\ s_in_race_report \subseteq Thread
  /\ s_in_flush \subseteq Thread

\* What stays of the types of the reports.
ReportTypes ==
  /\ reported_race_sites \subseteq Nat
  /\ pending \in [Thread -> Race \cup {NoRace}]
  /\ settled \in Seq(Settled)

(* TypeOK in the parts that the steps keep separately.                     *)
LEMMA TypeParts ==
  TypeOK <=> /\ FrameTypes /\ ReportTypes
             /\ access \in [Thread -> Access] /\ unattended \subseteq Thread
BY DEF TypeOK, ReportTypes, FrameTypes

-----------------------------------------------------------------------------
(* A thread's pending report moves on to the history, and another, at a new *)
(* site, takes its place or none does.                                     *)
LEMMA Moves ==
  ASSUME Inv, NEW t \in Thread, NEW r \in Race \cup {NoRace},
         NEW how \in {"taken", "overwritten"},
         r # NoRace => SiteKey(r) \notin reported_race_sites,
         reported_race_sites' =
           reported_race_sites \cup (IF r = NoRace THEN {} ELSE {SiteKey(r)}),
         pending' = [pending EXCEPT ![t] = r],
         settled' = IF pending[t] = NoRace THEN settled
                    ELSE Append(settled, [key |-> SiteKey(pending[t]), how |-> how])
  PROVE  ReportTypes' /\ Reports' /\ NoneLost'
<1> DEFINE q == pending[t]
           e == [key |-> SiteKey(q), how |-> how]
<1>1. /\ q \in Race \cup {NoRace} /\ settled \in Seq(Settled) /\ Len(settled) \in Nat
      /\ pending \in [Thread -> Race \cup {NoRace}]
      /\ \A u \in Race : SiteKey(u) \in Nat
  BY SiteKeyType DEF Inv, TypeOK
<1>2. /\ q # NoRace => e \in Settled /\ e.how # "lost" /\ e.key = SiteKey(q)
      /\ q # NoRace => settled' = Append(settled, e)
      /\ q = NoRace => settled' = settled
  BY <1>1 DEF Settled
<1>3. /\ pending' \in [Thread -> Race \cup {NoRace}] /\ pending'[t] = r
      /\ \A u \in Thread : u # t => pending'[u] = pending[u]
  BY <1>1
<1> HIDE DEF e
<1>4. q # NoRace => /\ settled' \in Seq(Settled) /\ Len(settled') = Len(settled) + 1
                    /\ settled'[Len(settled) + 1] = e
                    /\ \A i \in 1 .. Len(settled) : settled'[i] = settled[i]
  BY <1>1, <1>2
<1>5. ReportTypes'
  BY <1>1, <1>2, <1>3, <1>4 DEF ReportTypes, Inv, TypeOK
<1>6. NoneLost'
  <2>1. CASE q = NoRace
    BY <1>2, <2>1 DEF Inv, NoneLost
  <2>2. CASE q # NoRace
    BY <1>1, <1>2, <1>4, <2>2 DEF Inv, NoneLost
  <2> QED BY <2>1, <2>2
<1>7. ASSUME NEW k
      PROVE  Keyed(k)' = Keyed(k) \cup (IF q # NoRace /\ k = SiteKey(q)
                                       THEN {Len(settled) + 1} ELSE {})
  <2>1. CASE q = NoRace
    BY <1>2, <2>1 DEF Keyed
  <2>2. CASE q # NoRace
    <3>1. \A i : i \in 1 .. Len(settled) + 1 <=> i \in 1 .. Len(settled) \/ i = Len(settled) + 1
      BY <1>1
    <3> QED BY <1>2, <1>4, <2>2, <3>1 DEF Keyed
  <2> QED BY <2>1, <2>2
<1>8. ASSUME NEW k
      PROVE  PendingAt(k)' = (PendingAt(k) \ {t}) \cup (IF r # NoRace /\ k = SiteKey(r)
                                                      THEN {t} ELSE {})
  <2>1. \A u \in Thread : (u # t \/ r # NoRace) /\ pending'[u] # NoRace
                            => SiteKey(pending'[u]) = IF u = t THEN SiteKey(r) ELSE SiteKey(pending[u])
    BY <1>3
  <2>2. PendingAt(k)' = {u \in Thread : pending'[u] # NoRace /\ SiteKey(pending'[u]) = k}
    BY DEF PendingAt, SiteKey
  <2> QED BY <1>3, <2>1, <2>2 DEF PendingAt
<1>9. \A k : t \in PendingAt(k) <=> q # NoRace /\ k = SiteKey(q)
  BY DEF PendingAt
<1>10. q # NoRace => SiteKey(q) \in reported_race_sites
  BY <1>9 DEF Inv, Reports, NoPlace
<1>11. ASSUME NEW k PROVE (k \in reported_race_sites' => OnePlace(k)') /\ (k \notin reported_race_sites' => NoPlace(k)')
  <2>1. CASE q # NoRace /\ k = SiteKey(q)
    <3>1. OnePlace(k) /\ k \in reported_race_sites /\ t \in PendingAt(k)
      BY <1>9, <1>10, <2>1 DEF Inv, Reports
    <3>2. Keyed(k) = {} /\ PendingAt(k) = {t}
      BY <3>1 DEF OnePlace
    <3>3. r # NoRace => k # SiteKey(r)
      BY <3>1
    <3>4. Keyed(k)' = {Len(settled) + 1} /\ PendingAt(k)' = {}
      BY <1>7, <1>8, <2>1, <3>2, <3>3
    <3> QED BY <1>1, <3>1, <3>4 DEF OnePlace
  <2>2. CASE ~(q # NoRace /\ k = SiteKey(q)) /\ r # NoRace /\ k = SiteKey(r)
    <3>1. NoPlace(k)
      BY <2>2 DEF Inv, Reports
    <3>2. Keyed(k)' = {} /\ PendingAt(k)' = {t}
      BY <1>7, <1>8, <2>2, <3>1 DEF NoPlace
    <3> QED BY <2>2, <3>2 DEF OnePlace
  <2>3. CASE ~(q # NoRace /\ k = SiteKey(q)) /\ ~(r # NoRace /\ k = SiteKey(r))
    <3>1. Keyed(k)' = Keyed(k) /\ PendingAt(k)' = PendingAt(k)
      BY <1>7, <1>8, <1>9, <2>3
    <3>2. k \in reported_race_sites' <=> k \in reported_race_sites
      BY <2>3
    <3> QED BY <3>1, <3>2 DEF Inv, Reports, OnePlace, NoPlace
  <2> QED BY <2>1, <2>2, <2>3
<1>12. Reports'
  BY <1>11 DEF Reports
<1> QED BY <1>5, <1>6, <1>12

(* Nothing happens to the reports.                                         *)
LEMMA ReportsStay ==
  ASSUME Inv, UNCHANGED <<reported_race_sites, pending, settled>>
  PROVE  ReportTypes' /\ Reports' /\ NoneLost'
<1>1. \A k : Keyed(k)' = Keyed(k) /\ PendingAt(k)' = PendingAt(k)
  BY DEF Keyed, PendingAt, SiteKey
<1> QED BY <1>1 DEF Inv, TypeOK, ReportTypes, Reports, OnePlace, NoPlace, NoneLost

-----------------------------------------------------------------------------
(* Guards and frames.                                                      *)

\* The frames of thread t that a reporter of this kind has made.
Depth(t, in) == {i \in 1 .. Len(frames[t]) : frames[t][i] = in}

\* GuardsMatchFrames, thread by thread and guard by guard.
GuardMatches(t, in, guard) ==
  /\ (t \in guard) = (Depth(t, in) # {})
  /\ \A i, j \in Depth(t, in) : i = j

(* The two guards are matched by the same argument.                        *)
LEMMA GuardsAreTwo ==
  GuardsMatchFrames <=> \A t \in Thread : /\ GuardMatches(t, "wasm", s_in_race_report)
                                          /\ GuardMatches(t, "flush", s_in_flush)
BY DEF GuardsMatchFrames, GuardMatches, Depth

\* They depend on the frames and the two guards alone.
LEMMA GuardsStay ==
  ASSUME GuardsMatchFrames, UNCHANGED <<frames, s_in_race_report, s_in_flush>>
  PROVE  GuardsMatchFrames'
<1>1. \A t, in : Depth(t, in)' = Depth(t, in)
  BY DEF Depth
<1>2. \A t \in Thread : /\ GuardMatches(t, "wasm", s_in_race_report)'
                       /\ GuardMatches(t, "flush", s_in_flush)'
  BY <1>1, GuardsAreTwo DEF GuardMatches
<1> QED BY <1>2 DEF GuardsMatchFrames, GuardMatches, Depth

(* A frame more, and a frame less.                                         *)
LEMMA DepthOfCall ==
  ASSUME NEW s \in Seq(Frame), NEW f \in Frame, NEW in
  PROVE  /\ Append(s, f) \in Seq(Frame)
         /\ {i \in 1 .. Len(Append(s, f)) : Append(s, f)[i] = in}
              = {i \in 1 .. Len(s) : s[i] = in} \cup (IF f = in THEN {Len(s) + 1} ELSE {})
<1>1. /\ Append(s, f) \in Seq(Frame) /\ Len(Append(s, f)) = Len(s) + 1
      /\ Append(s, f)[Len(s) + 1] = f
      /\ \A i \in 1 .. Len(s) : Append(s, f)[i] = s[i]
  OBVIOUS
<1>2. Len(s) \in Nat
  OBVIOUS
<1>3. \A i : i \in 1 .. Len(s) + 1 <=> i \in 1 .. Len(s) \/ i = Len(s) + 1
  BY <1>2
<1> QED BY <1>1, <1>2, <1>3

(* The return from console.error takes the innermost frame away.           *)
LEMMA DepthOfReturn ==
  ASSUME NEW s \in Seq(Frame), s # <<>>, NEW in
  PROVE  /\ SubSeq(s, 1, Len(s) - 1) \in Seq(Frame)
         /\ {i \in 1 .. Len(SubSeq(s, 1, Len(s) - 1)) : SubSeq(s, 1, Len(s) - 1)[i] = in}
              = {i \in 1 .. Len(s) : s[i] = in} \ {Len(s)}
<1>1. Len(s) \in Nat \ {0}
  <2>1. Len(s) \in Nat /\ (Len(s) = 0 => s = <<>>)
    OBVIOUS
  <2> QED BY <2>1
<1>2. /\ SubSeq(s, 1, Len(s) - 1) \in Seq(Frame) /\ Len(SubSeq(s, 1, Len(s) - 1)) = Len(s) - 1
      /\ \A i \in 1 .. Len(s) - 1 : SubSeq(s, 1, Len(s) - 1)[i] = s[i]
  <2>1. \A i \in 1 .. Len(s) - 1 : s[i] \in Frame
    BY <1>1
  <2>2. /\ SubSeq(s, 1, Len(s) - 1) \in Seq(Frame)
        /\ Len(SubSeq(s, 1, Len(s) - 1)) = IF 1 <= Len(s) - 1 THEN Len(s) - 1 - 1 + 1 ELSE 0
        /\ \A i \in 1 .. Len(s) - 1 - 1 + 1 : SubSeq(s, 1, Len(s) - 1)[i] = s[1 + i - 1]
    BY <1>1, <2>1, SubSeqProperties
  <2>3. \A n \in Nat \ {0} : /\ \A i \in 1 .. n - 1 : 1 + i - 1 = i
                             /\ n - 1 - 1 + 1 = n - 1
                             /\ (IF 1 <= n - 1 THEN n - 1 - 1 + 1 ELSE 0) = n - 1
    OBVIOUS
  <2> QED BY <1>1, <2>2, <2>3
<1>3. \A i : i \in 1 .. Len(s) - 1 <=> i \in (1 .. Len(s)) \ {Len(s)}
  BY <1>1
<1> QED BY <1>2, <1>3

-----------------------------------------------------------------------------
(* Every action.                                                           *)

(* A reporter calls console.error under its own guard, and from the outside *)
(* of it.                                                                  *)
LEMMA ReportKeeps ==
  ASSUME Inv, NEW t \in Thread, NEW in \in Frame, Report(t, in),
         in = "wasm" => t \notin s_in_race_report, in = "flush" => t \notin s_in_flush
  PROVE  FrameTypes' /\ GuardsMatchFrames'
<1>1. frames \in [Thread -> Seq(Frame)]
  BY DEF Inv, TypeOK
<1>2. /\ frames' = [frames EXCEPT ![t] = Append(frames[t], in)]
      /\ s_in_race_report' = IF in = "wasm" THEN s_in_race_report \cup {t} ELSE s_in_race_report
      /\ s_in_flush' = IF in = "flush" THEN s_in_flush \cup {t} ELSE s_in_flush
  BY DEF Report
<1>3. /\ frames' \in [Thread -> Seq(Frame)]
      /\ frames'[t] = Append(frames[t], in)
      /\ \A u \in Thread : u # t => frames'[u] = frames[u]
  BY <1>1, <1>2, DepthOfCall
<1>4. FrameTypes'
  BY <1>2, <1>3 DEF FrameTypes, Inv, TypeOK
<1>5. \A k : Depth(t, k)' = Depth(t, k) \cup (IF in = k THEN {Len(frames[t]) + 1} ELSE {})
  <2> TAKE k
  <2>1. frames[t] \in Seq(Frame)
    BY <1>1
  <2> QED BY <1>3, <2>1, DepthOfCall DEF Depth
<1>6. \A u \in Thread : u # t => \A k : Depth(u, k)' = Depth(u, k)
  BY <1>3 DEF Depth
<1>7. ASSUME NEW u \in Thread
      PROVE  GuardMatches(u, "wasm", s_in_race_report)' /\ GuardMatches(u, "flush", s_in_flush)'
  <2>1. GuardMatches(u, "wasm", s_in_race_report) /\ GuardMatches(u, "flush", s_in_flush)
    BY GuardsAreTwo DEF Inv
  <2>2. CASE u # t
    BY <1>2, <1>6, <2>1, <2>2 DEF GuardMatches
  <2>3. CASE u = t
    <3>1. in = "wasm" => Depth(t, "wasm") = {}
      BY <2>1, <2>3 DEF GuardMatches
    <3>2. in = "flush" => Depth(t, "flush") = {}
      BY <2>1, <2>3 DEF GuardMatches
    <3>3. GuardMatches(t, "wasm", s_in_race_report)'
      BY <1>2, <1>5, <2>1, <2>3, <3>1 DEF GuardMatches
    <3>4. GuardMatches(t, "flush", s_in_flush)'
      BY <1>2, <1>5, <2>1, <2>3, <3>2 DEF GuardMatches
    <3> QED BY <2>3, <3>3, <3>4
  <2> QED BY <2>2, <2>3
<1>8. GuardsMatchFrames'
  BY <1>7 DEF GuardsMatchFrames, GuardMatches, Depth
<1> QED BY <1>4, <1>8

(* No action but a report and its return touches frames and guards.        *)
LEMMA FramesKept ==
  ASSUME Inv, UNCHANGED guards
  PROVE  FrameTypes' /\ GuardsMatchFrames'
BY GuardsStay DEF Inv, TypeOK, FrameTypes, guards

(* A reporter that takes the pending report, and then calls console.error  *)
(* or finds none.                                                          *)
LEMMA ReporterKeeps ==
  ASSUME Inv, NEW t \in Thread, NEW in \in Frame, Reporter(t, in),
         UNCHANGED reported_race_sites,
         in = "wasm" => t \notin s_in_race_report, in = "flush" => t \notin s_in_flush
  PROVE  /\ FrameTypes' /\ GuardsMatchFrames' /\ ReportTypes' /\ Reports' /\ NoneLost'
         /\ unattended' = unattended \ {t}
         /\ pending'[t] = NoRace
         /\ \A u \in Thread \ {t} : /\ pending'[u] = pending[u]
                                    /\ (u \in s_in_race_report' <=> u \in s_in_race_report)
                                    /\ (u \in s_in_flush' <=> u \in s_in_flush)
<1>1. Take(t) /\ (Report(t, in) \/ Discard(t, in))
  BY DEF Reporter
<1>2. FrameTypes' /\ GuardsMatchFrames'
  BY <1>1, ReportKeeps, FramesKept DEF Discard
<1>3. ReportTypes' /\ Reports' /\ NoneLost'
  <2>1. /\ pending' = [pending EXCEPT ![t] = NoRace]
        /\ settled' = IF pending[t] = NoRace THEN settled
                      ELSE Append(settled, [key |-> SiteKey(pending[t]), how |-> "taken"])
        /\ reported_race_sites' = reported_race_sites \cup {}
    BY <1>1 DEF Take
  <2> QED BY <2>1, Moves
<1>4. pending \in [Thread -> Race \cup {NoRace}]
  BY DEF Inv, TypeOK
<1>5. /\ unattended' = unattended \ {t} /\ pending'[t] = NoRace
      /\ \A u \in Thread : u # t => pending'[u] = pending[u]
  BY <1>1, <1>4 DEF Take
<1>6. \A u \in Thread \ {t} : /\ (u \in s_in_race_report' <=> u \in s_in_race_report)
                              /\ (u \in s_in_flush' <=> u \in s_in_flush)
  BY <1>1 DEF Report, Discard, guards
<1> QED BY <1>2, <1>3, <1>5, <1>6

(* No reporter is in console.error at the start.                           *)
LEMMA InitInv == Init => Inv
<1> SUFFICES ASSUME Init PROVE Inv
  OBVIOUS
<1>1. Len(<<>>) = 0 /\ 1 .. 0 = {}
  OBVIOUS
<1>2. <<>> \in Seq(Frame) /\ <<>> \in Seq(Settled)
  OBVIOUS
<1>3. TypeOK
  BY <1>2 DEF Init, TypeOK, NoRace, Access, NoAccess
<1>4. GuardsMatchFrames
  <2>1. ASSUME NEW t \in Thread, NEW in PROVE Depth(t, in) = {}
    <3>1. frames[t] = <<>>
      BY DEF Init
    <3> QED BY <1>1, <3>1 DEF Depth
  <2> QED BY <2>1, GuardsAreTwo DEF Init, GuardMatches
<1>5. Reports /\ NoneLost
  BY <1>1 DEF Init, Reports, NoPlace, Keyed, PendingAt, NoneLost
<1>6. Waiting
  BY DEF Init, Waiting, WaitsRight, NoAccess
<1> QED BY <1>3, <1>4, <1>5, <1>6 DEF Inv

(* An access begins, outside any other.                                    *)
LEMMA BeginKeeps ==
  ASSUME Inv, NEW t \in Thread, NEW r \in Race \cup {NoRace}, NEW from \in {"wasm", "range", "bulk"},
         Begin(t, r, from), from = "wasm" => t \notin s_in_race_report
  PROVE  Inv'
<1> DEFINE a == [from |-> from, race |-> r, at |-> "dedup"]
<1>1. /\ access[t] = NoAccess /\ access' = [access EXCEPT ![t] = a] /\ UNCHANGED guards
      /\ UNCHANGED <<reported_race_sites, pending, settled, unattended>>
  BY DEF Begin, Runs
<1>2. a \in Access /\ a.from = from /\ a.at = "dedup"
  BY DEF Access
<1> HIDE DEF a
<1>3. /\ access' \in [Thread -> Access] /\ access'[t] = a
      /\ \A u \in Thread : u # t => access'[u] = access[u]
  BY <1>1, <1>2 DEF Inv, TypeOK
<1>4. FrameTypes' /\ GuardsMatchFrames' /\ ReportTypes' /\ Reports' /\ NoneLost'
  BY <1>1, FramesKept, ReportsStay
<1>5. ASSUME NEW u \in Thread PROVE WaitsRight(u)'
  <2>1. CASE u = t
    <3>1. access[t].at # "reporter"
      BY <1>1 DEF NoAccess
    <3> QED BY <1>1, <1>2, <1>3, <2>1, <3>1 DEF Inv, Waiting, WaitsRight, guards
  <2>2. CASE u # t
    BY <1>1, <1>3, <2>2 DEF Inv, Waiting, WaitsRight, Attended, guards
  <2> QED BY <2>1, <2>2
<1>6. Waiting'
  BY <1>5 DEF Waiting
<1>7. TypeOK'
  BY <1>1, <1>3, <1>4 DEF TypeOK, FrameTypes, ReportTypes, Inv
<1> QED BY <1>4, <1>6, <1>7 DEF Inv

(* The dedup lets one access per site through, and its report waits until   *)
(* the reporter of the access, which is next, or for any other one.        *)
LEMMA MemoryAccessKeeps == ASSUME Inv, NEW t \in Thread, MemoryAccess(t) PROVE Inv'
<1> DEFINE a == IF access[t].from = "bulk" THEN NoAccess ELSE [access[t] EXCEPT !.at = "reporter"]
           r == access[t].race
<1>1. /\ access[t].at = "dedup" /\ access' = [access EXCEPT ![t] = a] /\ UNCHANGED guards
      /\ Fresh(r) => Publish(t, r)
      /\ ~ Fresh(r) => UNCHANGED <<reported_race_sites, pending, settled, unattended>>
  BY DEF MemoryAccess
<1>2. access \in [Thread -> Access] /\ access[t] \in Access
  BY DEF Inv, TypeOK
<1>3. /\ a \in Access /\ (a.from = "wasm" => access[t].from = "wasm")
      /\ access[t].from # "bulk" => a.at = "reporter" /\ a.from = access[t].from
  BY <1>2 DEF Access, NoAccess
<1>4. r \in Race \cup {NoRace}
  BY <1>2 DEF Access
<1> HIDE DEF a, r
<1>5. /\ access' \in [Thread -> Access] /\ access'[t] = a
      /\ \A u \in Thread : u # t => access'[u] = access[u]
  BY <1>1, <1>2, <1>3
<1>6. pending[t] # NoRace => t \in unattended
  BY <1>1 DEF Inv, Waiting, WaitsRight
<1>7. FrameTypes' /\ GuardsMatchFrames'
  BY <1>1, FramesKept
<1>8. /\ ReportTypes' /\ Reports' /\ NoneLost'
      /\ unattended' \subseteq Thread
      /\ pending'[t] # NoRace => t \in unattended' \/ Attended(t, access[t].from)
      /\ \A u \in Thread \ {t} : /\ pending'[u] = pending[u]
                                 /\ (u \in unattended' <=> u \in unattended)
  <2>1. CASE Fresh(r)
    <3>1. Publish(t, r) /\ r # NoRace /\ SiteKey(r) \notin reported_race_sites
      BY <1>1, <2>1 DEF Fresh
    <3>2. /\ reported_race_sites' = reported_race_sites \cup (IF r = NoRace THEN {} ELSE {SiteKey(r)})
          /\ pending' = [pending EXCEPT ![t] = r]
          /\ settled' = IF pending[t] = NoRace THEN settled
                        ELSE Append(settled, [key |-> SiteKey(pending[t]), how |-> "overwritten"])
      BY <1>6, <3>1 DEF Publish
    <3>3. ReportTypes' /\ Reports' /\ NoneLost'
      BY <1>4, <3>1, <3>2, Moves
    <3> QED BY <3>1, <3>2, <3>3 DEF Publish, Inv, TypeOK
  <2>2. CASE ~ Fresh(r)
    BY <1>1, <1>6, <2>2, ReportsStay DEF Inv, TypeOK
  <2> QED BY <2>1, <2>2
<1>9. ASSUME NEW u \in Thread PROVE WaitsRight(u)'
  <2>1. CASE u = t
    <3>1. Attended(t, access[t].from) => access[t].from # "bulk"
      BY DEF Attended
    <3> QED BY <1>1, <1>3, <1>5, <1>8, <2>1, <3>1 DEF Inv, Waiting, WaitsRight, Attended, guards
  <2>2. CASE u # t
    BY <1>1, <1>5, <1>8, <2>2 DEF Inv, Waiting, WaitsRight, Attended, guards
  <2> QED BY <2>1, <2>2
<1>10. Waiting'
  BY <1>9 DEF Waiting
<1>11. TypeOK'
  BY <1>5, <1>7, <1>8 DEF TypeOK, FrameTypes, ReportTypes
<1> QED BY <1>7, <1>8, <1>10, <1>11 DEF Inv

(* The reporter of an access takes what is pending, unless it is deaf.     *)
LEMMA ConsumeRaceKeeps == ASSUME Inv, NEW t \in Thread, ConsumeRace(t) PROVE Inv'
<1> DEFINE in == IF access[t].from = "wasm" THEN "wasm" ELSE "flush"
           takes == pending[t] # NoRace /\ Attended(t, access[t].from)
<1>1. /\ access' = [access EXCEPT ![t] = NoAccess]
      /\ UNCHANGED reported_race_sites
      /\ takes => Reporter(t, in)
      /\ ~ takes => UNCHANGED <<pending, settled, unattended, guards>>
  BY DEF ConsumeRace
<1>2. /\ access' \in [Thread -> Access] /\ access'[t] = NoAccess
      /\ \A u \in Thread : u # t => access'[u] = access[u]
  BY <1>1 DEF Inv, TypeOK, Access, NoAccess
<1>3. NoAccess.from = "none"
  BY DEF NoAccess
<1>4. /\ FrameTypes' /\ GuardsMatchFrames' /\ ReportTypes' /\ Reports' /\ NoneLost'
      /\ unattended' \subseteq Thread
      /\ pending'[t] = NoRace \/ t \in unattended'
      /\ \A u \in Thread \ {t} : /\ pending'[u] = pending[u]
                                 /\ (u \in unattended' <=> u \in unattended)
                                 /\ (u \in s_in_race_report' => u \in s_in_race_report)
                                 /\ (u \in s_in_flush' <=> u \in s_in_flush)
  <2>1. CASE takes
    <3>1. /\ in \in Frame
          /\ in = "wasm" => t \notin s_in_race_report
          /\ in = "flush" => t \notin s_in_flush
      BY <2>1 DEF Frame, Inv, Waiting, WaitsRight, Attended
    <3>2. Reporter(t, in)
      BY <1>1, <2>1
    <3> HIDE DEF in
    <3> QED BY <1>1, <3>1, <3>2, ReporterKeeps DEF Inv, TypeOK
  <2>2. CASE ~ takes
    BY <1>1, <2>2, FramesKept, ReportsStay DEF Inv, TypeOK, Waiting, WaitsRight, guards
  <2> QED BY <2>1, <2>2
<1>5. ASSUME NEW u \in Thread PROVE WaitsRight(u)'
  <2>1. CASE u = t
    BY <1>2, <1>3, <1>4, <2>1 DEF WaitsRight
  <2>2. CASE u # t
    BY <1>2, <1>4, <2>2 DEF Inv, Waiting, WaitsRight, Attended
  <2> QED BY <2>1, <2>2
<1>6. Waiting'
  BY <1>5 DEF Waiting
<1>7. TypeOK'
  BY <1>2, <1>4 DEF TypeOK, FrameTypes, ReportTypes
<1> QED BY <1>4, <1>6, <1>7 DEF Inv

(* MaybeThrowRace has no guard, and runs outside every access.             *)
LEMMA MaybeThrowRaceKeeps == ASSUME Inv, NEW t \in Thread, MaybeThrowRace(t) PROVE Inv'
<1>1. access[t] = NoAccess /\ Reporter(t, "runtime") /\ UNCHANGED <<reported_race_sites, access>>
  BY DEF MaybeThrowRace, Runs
<1>2. /\ FrameTypes' /\ GuardsMatchFrames' /\ ReportTypes' /\ Reports' /\ NoneLost'
      /\ unattended' = unattended \ {t}
      /\ pending'[t] = NoRace
      /\ \A u \in Thread \ {t} : /\ pending'[u] = pending[u]
                                 /\ (u \in s_in_race_report' => u \in s_in_race_report)
                                 /\ (u \in s_in_flush' <=> u \in s_in_flush)
  BY <1>1, ReporterKeeps DEF Frame
<1>3. access'[t].from = "none"
  BY <1>1 DEF NoAccess
<1>4. ASSUME NEW u \in Thread PROVE WaitsRight(u)'
  <2>1. CASE u = t
    BY <1>2, <1>3, <2>1 DEF WaitsRight
  <2>2. CASE u # t
    BY <1>1, <1>2, <2>2 DEF Inv, Waiting, WaitsRight, Attended
  <2> QED BY <2>1, <2>2
<1>5. Waiting'
  BY <1>4 DEF Waiting
<1>6. TypeOK'
  BY <1>1, <1>2 DEF TypeOK, FrameTypes, ReportTypes, Inv
<1> QED BY <1>2, <1>5, <1>6 DEF Inv

(* console.error returns and its guard is reset.                           *)
LEMMA ReturnedKeeps == ASSUME Inv, NEW t \in Thread, Returned(t) PROVE Inv'
<1> DEFINE in == frames[t][Len(frames[t])]
<1>1. /\ frames[t] # <<>> /\ frames[t] \in Seq(Frame) /\ access[t] = NoAccess
      /\ frames' = [frames EXCEPT ![t] = SubSeq(frames[t], 1, Len(frames[t]) - 1)]
      /\ s_in_race_report' = IF in = "wasm" THEN s_in_race_report \ {t} ELSE s_in_race_report
      /\ s_in_flush' = IF in = "flush" THEN s_in_flush \ {t} ELSE s_in_flush
      /\ UNCHANGED <<reported_race_sites, access, pending, unattended, settled>>
  BY DEF Returned, ResetGuard, Inv, TypeOK
<1>2. Len(frames[t]) \in 1 .. Len(frames[t])
  <2>1. Len(frames[t]) \in Nat /\ (Len(frames[t]) = 0 => frames[t] = <<>>)
    BY <1>1
  <2> QED BY <1>1, <2>1
<1>3. \A k : Len(frames[t]) \in Depth(t, k) <=> in = k
  BY <1>2 DEF Depth
<1> HIDE DEF in
<1>4. /\ frames' \in [Thread -> Seq(Frame)]
      /\ frames'[t] = SubSeq(frames[t], 1, Len(frames[t]) - 1)
      /\ \A u \in Thread : u # t => frames'[u] = frames[u]
  BY <1>1, DepthOfReturn DEF Inv, TypeOK
<1>5. \A k : Depth(t, k)' = Depth(t, k) \ {Len(frames[t])}
  BY <1>1, <1>4, DepthOfReturn DEF Depth
<1>6. \A u \in Thread : u # t => \A k : Depth(u, k)' = Depth(u, k)
  BY <1>4 DEF Depth
<1>7. ASSUME NEW u \in Thread
      PROVE  GuardMatches(u, "wasm", s_in_race_report)' /\ GuardMatches(u, "flush", s_in_flush)'
  <2>1. GuardMatches(u, "wasm", s_in_race_report) /\ GuardMatches(u, "flush", s_in_flush)
    BY GuardsAreTwo DEF Inv
  <2>2. CASE u # t
    BY <1>1, <1>6, <2>1, <2>2 DEF GuardMatches
  <2>3. CASE u = t
    <3>1. GuardMatches(t, "wasm", s_in_race_report)'
      BY <1>1, <1>3, <1>5, <2>1, <2>3 DEF GuardMatches
    <3>2. GuardMatches(t, "flush", s_in_flush)'
      BY <1>1, <1>3, <1>5, <2>1, <2>3 DEF GuardMatches
    <3> QED BY <2>3, <3>1, <3>2
  <2> QED BY <2>2, <2>3
<1>8. GuardsMatchFrames'
  BY <1>7 DEF GuardsMatchFrames, GuardMatches, Depth
<1>9. ReportTypes' /\ Reports' /\ NoneLost'
  BY <1>1, ReportsStay
<1>10. ASSUME NEW u \in Thread PROVE WaitsRight(u)'
  <2>1. CASE u = t
    <3>1. access[t].at # "reporter" /\ access[t].from # "wasm"
      BY <1>1 DEF NoAccess
    <3> QED BY <1>1, <2>1, <3>1 DEF Inv, Waiting, WaitsRight
  <2>2. CASE u # t
    BY <1>1, <2>2 DEF Inv, Waiting, WaitsRight, Attended
  <2> QED BY <2>1, <2>2
<1>11. Waiting'
  BY <1>10 DEF Waiting
<1>12. TypeOK'
  BY <1>1, <1>4, <1>9 DEF TypeOK, ReportTypes, Inv
<1> QED BY <1>8, <1>9, <1>11, <1>12 DEF Inv

(* Every step keeps the strengthening.                                     *)
LEMMA StepInv == Inv /\ [Next]_vars => Inv'
<1> SUFFICES ASSUME Inv, [Next]_vars PROVE Inv'
  OBVIOUS
<1>1. CASE UNCHANGED vars
  <2>1. UNCHANGED guards /\ UNCHANGED <<access, unattended, pending, settled, reported_race_sites>>
    BY <1>1 DEF vars, guards
  <2>2. FrameTypes' /\ GuardsMatchFrames' /\ ReportTypes' /\ Reports' /\ NoneLost'
    BY <2>1, FramesKept, ReportsStay
  <2>3. Waiting'
    BY <2>1 DEF Waiting, WaitsRight, Attended, Inv, guards
  <2> QED BY <2>1, <2>2, <2>3 DEF Inv, TypeOK, FrameTypes, ReportTypes
<1>2. ASSUME NEW t \in Thread, NEW r \in Race \cup {NoRace},
             WasmTraceMemory(t, r) \/ RecordRangeCallback(t, r) \/ BulkSample(t, r)
      PROVE  Inv'
  BY <1>2, BeginKeeps DEF WasmTraceMemory, RecordRangeCallback, BulkSample
<1> QED BY <1>1, <1>2, MemoryAccessKeeps, ConsumeRaceKeeps, MaybeThrowRaceKeeps, ReturnedKeeps DEF Next

(* Pending reports, site keys and the frames of console.error keep their   *)
(* types, whatever hooks come back out of console.error (web_tsan.cc).     *)
THEOREM TypeCorrect == Spec => []TypeOK
BY InitInv, StepInv, PTL DEF Spec, Inv

(* Of each silenced site there is one report, whoever meets the site, and   *)
(* an attended one is never overwritten (WebTSan::MemoryAccess).           *)
THEOREM OneReport == Spec => []SiteHasOneReport
BY InitInv, StepInv, ReportsAreOne, PTL DEF Spec, Inv

(* The guards of Runtime_WasmTraceMemory and FlushPendingRaceToConsole are *)
(* set exactly while their console.error runs, at any depth of calls.      *)
THEOREM GuardsMatch == Spec => []GuardsMatchFrames
BY InitInv, StepInv, PTL DEF Spec, Inv

=============================================================================
