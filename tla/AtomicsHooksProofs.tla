-------------------------- MODULE AtomicsHooksProofs --------------------------
(***************************************************************************)
(* Theorems about the hooks of atomic operations, for every number of      *)
(* threads and locations: what the order of a hook and its instruction     *)
(* guarantees, and from which operations on.                               *)
(***************************************************************************)
EXTENDS AtomicsHooks, TLAPS

-----------------------------------------------------------------------------
(* The steps an operation has left.                                        *)

Left ==
  {<<>>, <<"read">>, <<"write">>, <<"rmw">>, <<"cas">>, <<"acquire">>, <<"release">>,
   <<"acquire", "read">>, <<"release", "write">>, <<"read", "acquire">>,
   <<"acquire", "release">>, <<"convert", "rmw">>, <<"convert", "cas">>,
   <<"release", "convert", "rmw">>, <<"release", "convert", "cas">>,
   <<"acquire", "release", "convert", "rmw">>, <<"acquire", "release", "convert", "cas">>,
   <<"write", "acquire", "release">>, <<"rmw", "acquire", "release">>,
   <<"cas", "acquire", "release">>}

\* The releases among them, and those that take one more step to get there.
LeftToRelease ==
  {<<"release">>, <<"release", "write">>, <<"acquire", "release">>,
   <<"release", "convert", "rmw">>, <<"release", "convert", "cas">>,
   <<"acquire", "release", "convert", "rmw">>, <<"acquire", "release", "convert", "cas">>,
   <<"write", "acquire", "release">>, <<"rmw", "acquire", "release">>,
   <<"cas", "acquire", "release">>}

(* Each operation starts with all of its steps left.                       *)
LEMMA OperationsAreLeft == \A op \in DOMAIN Operation : Operation[op] \in Left
BY DEF Operation, Left, AtomicsLoad, AtomicsStore, AtomicsStore64, AtomicsExchange,
       AtomicsCompareExchange, AtomicBinop, WasmLoad, WasmStore, WasmBinop, WasmCompareExchange

(* The first step of what is left, and what is left after it.              *)
LEMMA FirstAndRest ==
  /\ Head(<<"read">>) = "read" /\ Tail(<<"read">>) = <<>>
  /\ Head(<<"write">>) = "write" /\ Tail(<<"write">>) = <<>>
  /\ Head(<<"rmw">>) = "rmw" /\ Tail(<<"rmw">>) = <<>>
  /\ Head(<<"cas">>) = "cas" /\ Tail(<<"cas">>) = <<>>
  /\ Head(<<"acquire">>) = "acquire" /\ Tail(<<"acquire">>) = <<>>
  /\ Head(<<"release">>) = "release" /\ Tail(<<"release">>) = <<>>
  /\ Head(<<"acquire", "read">>) = "acquire" /\ Tail(<<"acquire", "read">>) = <<"read">>
  /\ Head(<<"release", "write">>) = "release" /\ Tail(<<"release", "write">>) = <<"write">>
  /\ Head(<<"read", "acquire">>) = "read" /\ Tail(<<"read", "acquire">>) = <<"acquire">>
  /\ Head(<<"acquire", "release">>) = "acquire" /\ Tail(<<"acquire", "release">>) = <<"release">>
  /\ Head(<<"convert", "rmw">>) = "convert" /\ Tail(<<"convert", "rmw">>) = <<"rmw">>
  /\ Head(<<"convert", "cas">>) = "convert" /\ Tail(<<"convert", "cas">>) = <<"cas">>
OBVIOUS

(* The same of the operations of three and four steps.                     *)
LEMMA FirstAndRestOfThree ==
  /\ Head(<<"release", "convert", "rmw">>) = "release"
  /\ Tail(<<"release", "convert", "rmw">>) = <<"convert", "rmw">>
  /\ Head(<<"release", "convert", "cas">>) = "release"
  /\ Tail(<<"release", "convert", "cas">>) = <<"convert", "cas">>
  /\ Head(<<"acquire", "release", "convert", "rmw">>) = "acquire"
  /\ Tail(<<"acquire", "release", "convert", "rmw">>) = <<"release", "convert", "rmw">>
  /\ Head(<<"acquire", "release", "convert", "cas">>) = "acquire"
  /\ Tail(<<"acquire", "release", "convert", "cas">>) = <<"release", "convert", "cas">>
  /\ Head(<<"write", "acquire", "release">>) = "write"
  /\ Tail(<<"write", "acquire", "release">>) = <<"acquire", "release">>
  /\ Head(<<"rmw", "acquire", "release">>) = "rmw"
  /\ Tail(<<"rmw", "acquire", "release">>) = <<"acquire", "release">>
  /\ Head(<<"cas", "acquire", "release">>) = "cas"
  /\ Tail(<<"cas", "acquire", "release">>) = <<"acquire", "release">>
OBVIOUS

(* Steps are taken from the front.                                         *)
LEMMA TailIsLeft == \A s \in Left : s # <<>> => Tail(s) \in Left
BY FirstAndRest, FirstAndRestOfThree, Zenon DEF Left

(* The operations that release once more are these.                        *)
LEMMA WhoReleases == \A s \in Left : Releases(s) <=> s \in LeftToRelease
BY DEF Left, LeftToRelease, Releases

(* The four steps an operation may have left that start with a release.    *)
LEMMA FirstRelease ==
  ASSUME NEW s \in Left, s # <<>>, Head(s) = "release"
  PROVE  /\ s \in LeftToRelease
         /\ Tail(s) \in {<<>>, <<"write">>, <<"convert", "rmw">>, <<"convert", "cas">>}
BY FirstAndRest, FirstAndRestOfThree DEF Left, LeftToRelease

(* An operation has at most one release.                                   *)
LEMMA OneRelease ==
  ASSUME NEW s \in Left, s # <<>>
  PROVE  /\ Releases(Tail(s)) => Releases(s)
         /\ Head(s) = "release" => Releases(s) /\ ~ Releases(Tail(s))
<1>1. Tail(s) \in LeftToRelease => s \in LeftToRelease
  <2>1. ASSUME s \notin LeftToRelease
        PROVE  Tail(s) \in {<<>>, <<"read">>, <<"acquire">>, <<"rmw">>, <<"cas">>}
    <3>1. s \in {<<"read">>, <<"write">>, <<"rmw">>, <<"cas">>, <<"acquire">>,
                 <<"acquire", "read">>, <<"read", "acquire">>,
                 <<"convert", "rmw">>, <<"convert", "cas">>}
      BY <2>1, Zenon DEF Left, LeftToRelease
    <3> QED BY <3>1, FirstAndRest, Zenon
  <2>2. \A r \in {<<>>, <<"read">>, <<"acquire">>, <<"rmw">>, <<"cas">>} : r \notin LeftToRelease
    BY DEF LeftToRelease
  <2> QED BY <2>1, <2>2
<1>2. \A r \in {<<>>, <<"write">>, <<"convert", "rmw">>, <<"convert", "cas">>} :
        r \notin LeftToRelease
  BY DEF LeftToRelease
<1> QED BY <1>1, <1>2, FirstRelease, WhoReleases, TailIsLeft

(* What is left of an operation is a sequence of steps.                    *)
LEMMA LeftIsTyped == Left \subseteq Seq(Step)
BY DEF Left, Step

-----------------------------------------------------------------------------
(* Vector clocks of which no component ticks past the bound.               *)

Epoch == 0 .. MaxEpoch
Clock == [Tid -> Epoch]

(* VClock::Join is an upper bound of both clocks, component by component,  *)
(* and in each component one of the two.                                   *)
LEMMA JoinBounds ==
  ASSUME NEW c \in Clock, NEW d \in Clock
  PROVE  /\ Join(c, d) \in Clock
         /\ \A u \in Tid : /\ c[u] <= Join(c, d)[u] /\ d[u] <= Join(c, d)[u]
                           /\ Join(c, d)[u] = c[u] \/ Join(c, d)[u] = d[u]
BY OpsAssumption DEF Clock, Epoch, Join

(* VClock::Increment moves one component, by one.                          *)
LEMMA IncrementBounds ==
  ASSUME NEW c \in Clock, NEW t \in Tid, c[t] < MaxEpoch
  PROVE  /\ Increment(c, t) \in Clock
         /\ \A u \in Tid : Increment(c, t)[u] = IF u = t THEN c[u] + 1 ELSE c[u]
BY OpsAssumption DEF Clock, Epoch, Increment

-----------------------------------------------------------------------------
(* Type correctness.                                                       *)

\* Only the owner of a component ticks it, so its own clock is ahead of every
\* copy, and of every cell it has written.
OwnerIsAhead ==
  \A u \in Tid :
    /\ \A t \in Tid : thread_clocks[t][u] <= thread_clocks[u][u]
    /\ \A l \in Location : sync_clocks[l][u] <= thread_clocks[u][u]
    /\ data[u] <= thread_clocks[u][u]

\* An operation that still has to release has an epoch to release.
RoomToRelease ==
  \A t \in Tid : Releases(steps[t]) => thread_clocks[t][t] < MaxEpoch

TypeInv ==
  /\ TypeOK
  /\ \A t \in Tid : steps[t] \in Left
  /\ OwnerIsAhead
  /\ RoomToRelease

(* Every thread starts with its own epoch, which nobody else has.          *)
LEMMA InitType == Init => TypeInv
<1> SUFFICES ASSUME Init PROVE TypeInv
  OBVIOUS
<1>1. ZeroClock \in Clock /\ \A u \in Tid : ZeroClock[u] = 0
  BY OpsAssumption DEF ZeroClock, Clock, Epoch
<1>2. \A t \in Tid : /\ Increment(ZeroClock, t) \in Clock
                     /\ \A u \in Tid : Increment(ZeroClock, t)[u] = IF u = t THEN 1 ELSE 0
  BY <1>1, IncrementBounds, OpsAssumption DEF Epoch
<1>3. (CHOOSE l \in Location : TRUE) \in Location
  BY OpsAssumption
<1>4. <<>> \in Left /\ <<>> \in Seq(Step) /\ ~ Releases(<<>>)
  BY DEF Left, Releases
<1>5. TypeOK
  BY <1>1, <1>2, <1>3, <1>4, OpsAssumption DEF Init, TypeOK, Clock, Epoch
<1>6. OwnerIsAhead
  BY <1>1, <1>2 DEF Init, OwnerIsAhead
<1> QED BY <1>4, <1>5, <1>6 DEF Init, TypeInv, RoomToRelease

(* A thread that takes its next step has fewer of the same operation left. *)
LEMMA DoesType ==
  ASSUME TypeInv, NEW t \in Tid, NEW s, Does(t, s)
  PROVE  /\ steps[t] \in Left /\ steps[t] # <<>> /\ Head(steps[t]) = s
         /\ steps'[t] = Tail(steps[t])
         /\ \A u \in Tid : u # t => steps'[u] = steps[u]
         /\ steps' \in [Tid -> Seq(Step)]
         /\ \A u \in Tid : steps'[u] \in Left
         /\ \A u \in Tid : Releases(steps'[u]) => Releases(steps[u])
<1>1. /\ steps[t] \in Left /\ steps[t] # <<>> /\ Head(steps[t]) = s
      /\ steps' = [steps EXCEPT ![t] = Tail(steps[t])]
      /\ steps \in [Tid -> Seq(Step)]
  BY DEF TypeInv, TypeOK, Does
<1>2. Tail(steps[t]) \in Left /\ Tail(steps[t]) \in Seq(Step)
  BY <1>1, TailIsLeft, LeftIsTyped
<1>3. /\ steps'[t] = Tail(steps[t])
      /\ \A u \in Tid : u # t => steps'[u] = steps[u]
      /\ steps' \in [Tid -> Seq(Step)]
  BY <1>1, <1>2
<1>4. \A u \in Tid : steps'[u] \in Left /\ (Releases(steps'[u]) => Releases(steps[u]))
  <2> TAKE u \in Tid
  <2>1. CASE u = t
    BY <1>1, <1>2, <1>3, <2>1, OneRelease
  <2>2. CASE u # t
    BY <1>3, <2>2 DEF TypeInv
  <2> QED BY <2>1, <2>2
<1> QED BY <1>1, <1>3, <1>4

(* What an instruction that reads or stores does to the histories.         *)
LEMMA SeesWhat ==
  ASSUME TypeInv, NEW t \in Tid, Sees(t)
  PROVE  /\ thread_hb' \in [Tid -> SUBSET Tid]
         /\ thread_hb'[t] = thread_hb[t] \cup value_hb[at[t]]
         /\ \A u \in Tid : u # t => thread_hb'[u] = thread_hb[u]
<1>1. /\ thread_hb \in [Tid -> SUBSET Tid]
      /\ value_hb \in [Location -> SUBSET Tid] /\ at[t] \in Location
  BY DEF TypeInv, TypeOK
<1>2. value_hb[at[t]] \subseteq Tid /\ thread_hb[t] \subseteq Tid
  BY <1>1
<1> QED BY <1>1, <1>2 DEF Sees

(* What a store leaves at its location, and that it leaves the others.     *)
LEMMA StoresWhat ==
  ASSUME TypeInv, NEW t \in Tid, NEW before \in SUBSET Tid, NEW own \in SUBSET Tid,
         Stores(t, before, own)
  PROVE  /\ value_hb' \in [Location -> SUBSET Tid]
         /\ value_own' \in [Location -> SUBSET Tid]
         /\ value_hb'[at[t]] = before \cup thread_hb[t]
         /\ value_own'[at[t]] = own \cup (thread_hb[t] \cap {t})
         /\ \A l \in Location : l # at[t] => /\ value_hb'[l] = value_hb[l]
                                           /\ value_own'[l] = value_own[l]
<1>1. /\ thread_hb \in [Tid -> SUBSET Tid] /\ at[t] \in Location
      /\ value_hb \in [Location -> SUBSET Tid] /\ value_own \in [Location -> SUBSET Tid]
  BY DEF TypeInv, TypeOK
<1>2. before \cup thread_hb[t] \subseteq Tid /\ own \cup (thread_hb[t] \cap {t}) \subseteq Tid
  BY <1>1
<1>3. /\ value_hb' = [value_hb EXCEPT ![at[t]] = before \cup thread_hb[t]]
      /\ value_own' = [value_own EXCEPT ![at[t]] = own \cup (thread_hb[t] \cap {t})]
  BY DEF Stores
<1> QED BY <1>1, <1>2, <1>3

(* Each step keeps the types and the owner of an epoch ahead.              *)
LEMMA StepType == TypeInv /\ [Next]_vars => TypeInv'
<1> SUFFICES ASSUME TypeInv, [Next]_vars PROVE TypeInv'
  OBVIOUS
<1>0. /\ thread_clocks \in [Tid -> Clock] /\ sync_clocks \in [Location -> Clock]
      /\ at \in [Tid -> Location] /\ data \in [Tid -> Epoch]
      /\ steps \in [Tid -> Seq(Step)] /\ thread_hb \in [Tid -> SUBSET Tid]
      /\ value_hb \in [Location -> SUBSET Tid] /\ value_own \in [Location -> SUBSET Tid]
  BY DEF TypeInv, TypeOK, Clock, Epoch
<1>1. CASE UNCHANGED vars
  BY <1>1 DEF vars, history, TypeInv, TypeOK, OwnerIsAhead, RoomToRelease
<1>2. ASSUME NEW t \in Tid, NEW op \in Ops, NEW l \in Location, Begin(t, op, l)
      PROVE  TypeInv'
  <2>1. Operation[op] \in Left /\ Operation[op] \in Seq(Step)
    BY OpsAssumption, OperationsAreLeft, LeftIsTyped
  <2>2. /\ steps' = [steps EXCEPT ![t] = Operation[op]]
        /\ at' = [at EXCEPT ![t] = l]
        /\ UNCHANGED <<thread_clocks, sync_clocks, data, thread_hb, value_hb, value_own>>
        /\ Releases(Operation[op]) => thread_clocks[t][t] < MaxEpoch
    BY <1>2 DEF Begin, history
  <2>3. TypeOK'
    BY <1>0, <2>1, <2>2 DEF TypeOK, Clock, Epoch
  <2>4. OwnerIsAhead'
    BY <2>2 DEF TypeInv, OwnerIsAhead
  <2>5. \A u \in Tid : steps'[u] = IF u = t THEN Operation[op] ELSE steps[u]
    BY <1>0, <2>2
  <2>6. RoomToRelease' /\ \A u \in Tid : steps'[u] \in Left
    BY <2>1, <2>2, <2>5 DEF TypeInv, RoomToRelease
  <2> QED BY <2>3, <2>4, <2>6 DEF TypeInv
<1>3. ASSUME NEW t \in Tid, Acquire(t) PROVE TypeInv'
  <2>1. /\ Does(t, "acquire")
        /\ UNCHANGED <<sync_clocks, at, data, thread_hb, value_hb, value_own>>
        /\ thread_clocks' = [thread_clocks EXCEPT
                               ![t] = Join(thread_clocks[t], sync_clocks[at[t]])]
    BY <1>3 DEF Acquire, history
  <2>2. thread_clocks[t] \in Clock /\ sync_clocks[at[t]] \in Clock /\ at[t] \in Location
    BY <1>0
  <2> DEFINE joined == Join(thread_clocks[t], sync_clocks[at[t]])
  <2>3. /\ joined \in Clock
        /\ \A u \in Tid : /\ joined[u] <= thread_clocks[u][u]
                          /\ joined[t] = thread_clocks[t][t]
    <3>1. joined \in Clock
          /\ \A u \in Tid : /\ thread_clocks[t][u] <= joined[u]
                            /\ joined[u] = thread_clocks[t][u] \/ joined[u] = sync_clocks[at[t]][u]
      BY <2>2, JoinBounds
    <3>2. \A u \in Tid : thread_clocks[t][u] <= thread_clocks[u][u]
                        /\ sync_clocks[at[t]][u] <= thread_clocks[u][u]
      BY <2>2 DEF TypeInv, OwnerIsAhead
    <3>3. \A u \in Tid : joined[u] \in Int /\ thread_clocks[t][u] \in Int
      BY <2>2, <3>1, OpsAssumption DEF Clock, Epoch
    <3> HIDE DEF joined
    <3> QED BY <3>1, <3>2, <3>3
  <2>4. \A u \in Tid : thread_clocks'[u] = IF u = t THEN joined ELSE thread_clocks[u]
    BY <1>0, <2>1
  <2> HIDE DEF joined
  <2>5. thread_clocks' \in [Tid -> Clock]
        /\ \A u \in Tid : thread_clocks'[u][u] = thread_clocks[u][u]
    BY <1>0, <2>1, <2>3, <2>4 DEF joined
  <2>6. TypeOK'
    BY <1>0, <2>1, <2>5, DoesType DEF TypeOK, Clock, Epoch
  <2>7. OwnerIsAhead'
    BY <2>1, <2>3, <2>4, <2>5 DEF TypeInv, OwnerIsAhead
  <2>8. RoomToRelease' /\ \A u \in Tid : steps'[u] \in Left
    BY <2>1, <2>5, DoesType DEF TypeInv, RoomToRelease
  <2> QED BY <2>6, <2>7, <2>8 DEF TypeInv
<1>4. ASSUME NEW t \in Tid, Release(t) PROVE TypeInv'
  <2>1. /\ Does(t, "release")
        /\ UNCHANGED <<at, data, thread_hb, value_hb, value_own>>
        /\ thread_clocks' = [thread_clocks EXCEPT ![t] = Increment(thread_clocks[t], t)]
        /\ sync_clocks' = [sync_clocks EXCEPT
                             ![at[t]] = Join(sync_clocks[at[t]], thread_clocks[t])]
    BY <1>4 DEF Release, history
  <2>2. /\ steps[t] \in Left /\ steps[t] # <<>> /\ Head(steps[t]) = "release"
        /\ steps'[t] = Tail(steps[t])
    BY <2>1, DoesType
  <2>3. Releases(steps[t]) /\ ~ Releases(steps'[t])
    BY <2>2, OneRelease
  <2>4. /\ thread_clocks[t] \in Clock /\ sync_clocks[at[t]] \in Clock /\ at[t] \in Location
        /\ thread_clocks[t][t] < MaxEpoch
    BY <1>0, <2>3 DEF TypeInv, RoomToRelease
  <2>5. \A v, u \in Tid : thread_clocks'[v][u]
                         = IF v = t /\ u = t THEN thread_clocks[t][t] + 1
                                             ELSE thread_clocks[v][u]
    BY <1>0, <2>1, <2>4, IncrementBounds
  <2>6. thread_clocks' \in [Tid -> Clock]
    BY <1>0, <2>1, <2>4, IncrementBounds
  <2>7. \A l \in Location, u \in Tid :
          sync_clocks'[l][u] = sync_clocks[l][u] \/ sync_clocks'[l][u] = thread_clocks[t][u]
    BY <1>0, <2>1, <2>4, JoinBounds
  <2>8. sync_clocks' \in [Location -> Clock]
    BY <1>0, <2>1, <2>4, JoinBounds
  <2>9. TypeOK'
    BY <1>0, <2>1, <2>6, <2>8, DoesType DEF TypeOK, Clock, Epoch
  <2>10. OwnerIsAhead'
    <3>1. \A v, u \in Tid : thread_clocks[v][u] \in Int
      BY <1>0, OpsAssumption DEF Clock, Epoch
    <3>2. \A l \in Location, u \in Tid : sync_clocks[l][u] \in Int
      BY <1>0, OpsAssumption DEF Clock, Epoch
    <3>3. \A u \in Tid : data[u] \in Int /\ data'[u] = data[u]
      BY <1>0, <2>1, OpsAssumption DEF Epoch
    <3>4. \A u \in Tid : thread_clocks[u][u] <= thread_clocks'[u][u]
                        /\ thread_clocks'[u][u] \in Int
      BY <2>5, <3>1
    <3> QED BY <2>5, <2>7, <3>1, <3>2, <3>3, <3>4 DEF TypeInv, OwnerIsAhead
  <2>11. RoomToRelease' /\ \A u \in Tid : steps'[u] \in Left
    BY <2>1, <2>3, <2>5, DoesType DEF TypeInv, RoomToRelease
  <2> QED BY <2>9, <2>10, <2>11 DEF TypeInv
<1>5. ASSUME NEW t \in Tid, Read(t) \/ Write(t) \/ ReadModifyWrite(t) PROVE TypeInv'
  <2>1. /\ \E s \in Step : Does(t, s)
        /\ UNCHANGED <<thread_clocks, sync_clocks, at, data>>
    BY <1>5 DEF Read, Write, ReadModifyWrite, Step
  <2>2. /\ thread_hb' \in [Tid -> SUBSET Tid]
        /\ value_hb' \in [Location -> SUBSET Tid] /\ value_own' \in [Location -> SUBSET Tid]
    <3>1. CASE Read(t)
      BY <1>0, <3>1, SeesWhat DEF Read
    <3>2. CASE Write(t)
      BY <1>0, <3>2, StoresWhat DEF Write
    <3>3. CASE ReadModifyWrite(t)
      <4>1. at[t] \in Location /\ value_hb[at[t]] \subseteq Tid /\ value_own[at[t]] \subseteq Tid
        BY <1>0
      <4>2. Sees(t) /\ Stores(t, value_hb[at[t]], value_own[at[t]])
        BY <3>3 DEF ReadModifyWrite
      <4> QED BY <4>1, <4>2, SeesWhat, StoresWhat
    <3> QED BY <1>5, <3>1, <3>2, <3>3
  <2>3. TypeOK'
    BY <1>0, <2>1, <2>2, DoesType DEF TypeOK, Clock, Epoch
  <2>4. OwnerIsAhead'
    BY <2>1 DEF TypeInv, OwnerIsAhead
  <2>5. RoomToRelease' /\ \A u \in Tid : steps'[u] \in Left
    BY <2>1, DoesType DEF TypeInv, RoomToRelease
  <2> QED BY <2>3, <2>4, <2>5 DEF TypeInv
<1>6. ASSUME NEW t \in Tid, Convert(t) PROVE TypeInv'
  <2>1. PICK rest \in {Tail(steps[t]), <<>>} : steps' = [steps EXCEPT ![t] = rest]
    BY <1>6 DEF Convert
  <2>2. UNCHANGED <<thread_clocks, sync_clocks, at, data, thread_hb, value_hb, value_own>>
    BY <1>6 DEF Convert, history
  <2>3. steps[t] \in Left /\ steps[t] # <<>>
    BY <1>6 DEF Convert, TypeInv
  <2>4. rest \in Left /\ rest \in Seq(Step) /\ (Releases(rest) => Releases(steps[t]))
    <3>1. CASE rest = <<>>
      BY <3>1 DEF Left, Releases
    <3>2. CASE rest = Tail(steps[t])
      BY <2>3, <3>2, TailIsLeft, LeftIsTyped, OneRelease
    <3> QED BY <2>1, <3>1, <3>2
  <2>5. \A u \in Tid : steps'[u] = IF u = t THEN rest ELSE steps[u]
    BY <1>0, <2>1
  <2>6. TypeOK'
    BY <1>0, <2>1, <2>2, <2>4 DEF TypeOK, Clock, Epoch
  <2>7. OwnerIsAhead'
    BY <2>2 DEF TypeInv, OwnerIsAhead
  <2>8. RoomToRelease' /\ \A u \in Tid : steps'[u] \in Left
    BY <2>2, <2>4, <2>5 DEF TypeInv, RoomToRelease
  <2> QED BY <2>6, <2>7, <2>8 DEF TypeInv
<1>7. ASSUME NEW t \in Tid, WriteData(t) PROVE TypeInv'
  <2>1. /\ data' = [data EXCEPT ![t] = thread_clocks[t][t]]
        /\ thread_hb' = [u \in Tid |-> IF u = t THEN thread_hb[u] \cup {t} ELSE thread_hb[u] \ {t}]
        /\ value_hb' = [l \in Location |-> value_hb[l] \ {t}]
        /\ value_own' = [l \in Location |-> value_own[l] \ {t}]
        /\ UNCHANGED <<thread_clocks, sync_clocks, steps, at>>
    BY <1>7 DEF WriteData
  <2>2. thread_clocks[t][t] \in Epoch
    BY <1>0 DEF Clock
  <2>3. TypeOK'
    BY <1>0, <2>1, <2>2 DEF TypeOK, Clock, Epoch
  <2>4. OwnerIsAhead'
    <3>1. \A u \in Tid : data'[u] = IF u = t THEN thread_clocks[t][t] ELSE data[u]
      BY <1>0, <2>1
    <3>2. thread_clocks[t][t] <= thread_clocks[t][t]
      BY <2>2, OpsAssumption DEF Epoch
    <3> QED BY <2>1, <3>1, <3>2 DEF TypeInv, OwnerIsAhead
  <2> QED BY <2>1, <2>3, <2>4 DEF TypeInv, RoomToRelease
<1> QED BY <1>1, <1>2, <1>3, <1>4, <1>5, <1>6, <1>7 DEF Next

(* The epochs of the detector's clocks stay those that Begin makes room    *)
(* for, whatever the hooks interleave with (WebTSan::Acquire, Release).    *)
THEOREM TypeCorrect == Spec => []TypeOK
<1>1. TypeInv => TypeOK
  BY DEF TypeInv
<1> QED BY <1>1, InitType, StepType, PTL DEF Spec

-----------------------------------------------------------------------------
(* Hand-off from a store in JavaScript to a load in Wasm.                  *)

\* What these two operations may have left.
HandOffLeft ==
  {<<>>, <<"release", "write">>, <<"write">>, <<"read", "acquire">>, <<"acquire">>}

\* A thread's clock covers what it has seen, or its acquire is still to come and
\* the clock of the location covers it.
SeenIsCovered ==
  \A t \in Tid : \A u \in thread_hb[t] :
    \/ data[u] <= thread_clocks[t][u]
    \/ steps[t] = <<"acquire">> /\ data[u] <= sync_clocks[at[t]][u]

\* The clock of a location covers what is ordered before its value ...
ValueIsCovered ==
  \A l \in Location : \A u \in value_hb[l] : data[u] <= sync_clocks[l][u]

\* ... as it already does when the release is over and the store is to come.
StoreIsCovered ==
  \A t \in Tid : steps[t] = <<"write">> =>
    \A u \in thread_hb[t] : data[u] <= sync_clocks[at[t]][u]

HandOffInv ==
  only_hand_off =>
    /\ \A t \in Tid : steps[t] \in HandOffLeft
    /\ SeenIsCovered
    /\ ValueIsCovered
    /\ StoreIsCovered

(* The steps of Atomics.store and of an atomic Wasm load, one by one.      *)
LEMMA HandOffSteps ==
  ASSUME NEW s \in HandOffLeft, s # <<>>
  PROVE  /\ Head(s) = "acquire" => s = <<"acquire">> /\ Tail(s) = <<>>
         /\ Head(s) = "release" => s = <<"release", "write">> /\ Tail(s) = <<"write">>
         /\ Head(s) = "read" => s = <<"read", "acquire">> /\ Tail(s) = <<"acquire">>
         /\ Head(s) = "write" => s = <<"write">> /\ Tail(s) = <<>>
         /\ Head(s) \notin {"rmw", "cas", "convert"}
BY FirstAndRest DEF HandOffLeft

(* Those are the two operations a hand-off consists of.                    *)
LEMMA HandOffBegins == \A op \in HandOff : Operation[op] \in {<<"release", "write">>, <<"read", "acquire">>}
BY DEF HandOff, Operation, AtomicsStore, WasmLoad

(* The steps left in a hand-off are told apart by their first.             *)
LEMMA HandOffLeftDiffer ==
  /\ <<>> # <<"acquire">> /\ <<>> # <<"write">>
  /\ <<"write">> # <<"acquire">>
  /\ \A s \in {<<"release", "write">>, <<"read", "acquire">>} :
       s # <<"acquire">> /\ s # <<"write">>
OBVIOUS

(* Nothing has been handed over at the start.                              *)
LEMMA InitHandOff == Init => HandOffInv
<1>1. Init => /\ \A t \in Tid : steps[t] = <<>> /\ thread_hb[t] = {}
              /\ \A l \in Location : value_hb[l] = {}
  BY DEF Init
<1> QED BY <1>1, HandOffLeftDiffer
        DEF HandOffInv, HandOffLeft, SeenIsCovered, ValueIsCovered, StoreIsCovered

(* Each step of the two operations keeps what it hands over covered.       *)
LEMMA StepHandOff == TypeInv /\ HandOffInv /\ [Next]_vars => HandOffInv'
<1> SUFFICES ASSUME TypeInv, HandOffInv, [Next]_vars, only_hand_off'
             PROVE  /\ \A t \in Tid : steps'[t] \in HandOffLeft
                    /\ SeenIsCovered' /\ ValueIsCovered' /\ StoreIsCovered'
  BY DEF HandOffInv
<1>0. /\ thread_clocks \in [Tid -> Clock] /\ sync_clocks \in [Location -> Clock]
      /\ at \in [Tid -> Location] /\ data \in [Tid -> Epoch]
      /\ steps \in [Tid -> Seq(Step)] /\ thread_hb \in [Tid -> SUBSET Tid]
      /\ value_hb \in [Location -> SUBSET Tid]
  BY DEF TypeInv, TypeOK, Clock, Epoch
<1>a. /\ \A t, u \in Tid : thread_clocks[t][u] \in Int
      /\ \A l \in Location, u \in Tid : sync_clocks[l][u] \in Int
      /\ \A u \in Tid : data[u] \in Int
      /\ \A t \in Tid : at[t] \in Location /\ thread_hb[t] \subseteq Tid
      /\ \A l \in Location : value_hb[l] \subseteq Tid
  BY <1>0, OpsAssumption DEF Clock, Epoch
<1>b. only_hand_off
  BY DEF Next, Begin, Acquire, Release, Read, Write, ReadModifyWrite, Convert, WriteData, vars
<1>c. /\ \A t \in Tid : steps[t] \in HandOffLeft
      /\ SeenIsCovered /\ ValueIsCovered /\ StoreIsCovered
  BY <1>b DEF HandOffInv
<1>1. CASE UNCHANGED vars
  BY <1>1, <1>c DEF vars, history, SeenIsCovered, ValueIsCovered, StoreIsCovered
<1>2. ASSUME NEW t \in Tid, NEW op \in Ops, NEW l \in Location, Begin(t, op, l)
      PROVE  /\ \A v \in Tid : steps'[v] \in HandOffLeft
             /\ SeenIsCovered' /\ ValueIsCovered' /\ StoreIsCovered'
  <2>1. Operation[op] \in {<<"release", "write">>, <<"read", "acquire">>}
    BY <1>2, HandOffBegins DEF Begin
  <2>2. /\ steps' = [steps EXCEPT ![t] = Operation[op]]
        /\ at' = [at EXCEPT ![t] = l]
        /\ UNCHANGED <<thread_clocks, sync_clocks, data, thread_hb, value_hb>>
        /\ steps[t] = <<>>
    BY <1>2 DEF Begin, history
  <2>3. /\ steps'[t] = Operation[op]
        /\ \A v \in Tid : v # t => steps'[v] = steps[v] /\ at'[v] = at[v]
    BY <1>0, <2>2
  <2>4. \A v \in Tid : steps'[v] \in HandOffLeft
    BY <1>c, <2>1, <2>3 DEF HandOffLeft
  <2>5. SeenIsCovered'
    BY <1>c, <2>2, <2>3, HandOffLeftDiffer DEF SeenIsCovered
  <2>6. ValueIsCovered'
    BY <1>c, <2>2 DEF ValueIsCovered
  <2>7. StoreIsCovered'
    BY <1>c, <2>1, <2>2, <2>3, HandOffLeftDiffer DEF StoreIsCovered
  <2> QED BY <2>4, <2>5, <2>6, <2>7
<1>3. ASSUME NEW t \in Tid, NEW s, Does(t, s)
      PROVE  /\ steps[t] \in HandOffLeft /\ steps[t] # <<>> /\ Head(steps[t]) = s
             /\ steps'[t] = Tail(steps[t])
             /\ \A v \in Tid : v # t => steps'[v] = steps[v]
             /\ s \in {"acquire", "release", "read", "write"}
             /\ s = "acquire" => steps[t] = <<"acquire">> /\ steps'[t] = <<>>
             /\ s = "release" => steps[t] = <<"release", "write">> /\ steps'[t] = <<"write">>
             /\ s = "read" => steps[t] = <<"read", "acquire">> /\ steps'[t] = <<"acquire">>
             /\ s = "write" => steps[t] = <<"write">> /\ steps'[t] = <<>>
             /\ \A v \in Tid : steps'[v] \in HandOffLeft
  <2>1. /\ steps[t] \in HandOffLeft /\ steps[t] # <<>> /\ Head(steps[t]) = s
        /\ steps'[t] = Tail(steps[t])
        /\ \A v \in Tid : v # t => steps'[v] = steps[v]
    BY <1>3, <1>c, DoesType
  <2>2. s \in {"acquire", "release", "read", "write"}
    BY <2>1, HandOffSteps, FirstAndRest DEF HandOffLeft
  <2>3. steps'[t] \in HandOffLeft
    BY <2>1, <2>2, HandOffSteps DEF HandOffLeft
  <2>4. /\ s = "acquire" => steps[t] = <<"acquire">> /\ steps'[t] = <<>>
        /\ s = "release" => steps[t] = <<"release", "write">> /\ steps'[t] = <<"write">>
        /\ s = "read" => steps[t] = <<"read", "acquire">> /\ steps'[t] = <<"acquire">>
        /\ s = "write" => steps[t] = <<"write">> /\ steps'[t] = <<>>
    BY <2>1, HandOffSteps
  <2>5. \A v \in Tid : steps'[v] \in HandOffLeft
    BY <1>c, <2>1, <2>3
  <2> QED BY <2>1, <2>2, <2>4, <2>5
<1>4. ASSUME NEW t \in Tid, Acquire(t)
      PROVE  /\ \A v \in Tid : steps'[v] \in HandOffLeft
             /\ SeenIsCovered' /\ ValueIsCovered' /\ StoreIsCovered'
  <2>1. /\ Does(t, "acquire")
        /\ UNCHANGED <<sync_clocks, at, data, thread_hb, value_hb>>
        /\ thread_clocks' = [thread_clocks EXCEPT
                               ![t] = Join(thread_clocks[t], sync_clocks[at[t]])]
    BY <1>4 DEF Acquire, history
  <2>2. /\ \A v \in Tid : v # t => thread_clocks'[v] = thread_clocks[v]
        /\ \A u \in Tid : /\ thread_clocks[t][u] <= thread_clocks'[t][u]
                          /\ sync_clocks[at[t]][u] <= thread_clocks'[t][u]
                          /\ thread_clocks'[t][u] \in Int
    <3>1. thread_clocks[t] \in Clock /\ sync_clocks[at[t]] \in Clock
      BY <1>0
    <3>2. /\ thread_clocks'[t] = Join(thread_clocks[t], sync_clocks[at[t]])
          /\ \A v \in Tid : v # t => thread_clocks'[v] = thread_clocks[v]
      BY <1>0, <2>1
    <3> QED BY <1>a, <3>1, <3>2, JoinBounds
  <2>3. /\ steps'[t] = <<>>
        /\ \A v \in Tid : v # t => steps'[v] = steps[v]
        /\ \A v \in Tid : steps'[v] \in HandOffLeft
    BY <1>3, <2>1
  <2>4. SeenIsCovered'
    <3> SUFFICES ASSUME NEW v \in Tid, NEW u \in thread_hb[v]
                 PROVE  \/ data[u] <= thread_clocks'[v][u]
                        \/ steps'[v] = <<"acquire">> /\ data[u] <= sync_clocks[at[v]][u]
      BY <2>1 DEF SeenIsCovered
    <3>1. \/ data[u] <= thread_clocks[v][u]
          \/ steps[v] = <<"acquire">> /\ data[u] <= sync_clocks[at[v]][u]
      BY <1>c DEF SeenIsCovered
    <3>2. u \in Tid
      BY <1>a
    <3> QED BY <1>a, <2>2, <2>3, <3>1, <3>2
  <2>5. ValueIsCovered'
    BY <1>c, <2>1 DEF ValueIsCovered
  <2>6. StoreIsCovered'
    BY <1>c, <2>1, <2>3, HandOffLeftDiffer DEF StoreIsCovered
  <2> QED BY <2>3, <2>4, <2>5, <2>6
<1>5. ASSUME NEW t \in Tid, Release(t)
      PROVE  /\ \A v \in Tid : steps'[v] \in HandOffLeft
             /\ SeenIsCovered' /\ ValueIsCovered' /\ StoreIsCovered'
  <2>1. /\ Does(t, "release")
        /\ UNCHANGED <<at, data, thread_hb, value_hb>>
        /\ thread_clocks' = [thread_clocks EXCEPT ![t] = Increment(thread_clocks[t], t)]
        /\ sync_clocks' = [sync_clocks EXCEPT
                             ![at[t]] = Join(sync_clocks[at[t]], thread_clocks[t])]
    BY <1>5 DEF Release, history
  <2>2. /\ steps[t] = <<"release", "write">> /\ steps'[t] = <<"write">>
        /\ \A v \in Tid : v # t => steps'[v] = steps[v]
        /\ \A v \in Tid : steps'[v] \in HandOffLeft
    BY <1>3, <2>1
  <2>3. \A v, u \in Tid : /\ thread_clocks[v][u] <= thread_clocks'[v][u]
                          /\ thread_clocks'[v][u] \in Int
    <3>1. \A u \in Tid : Increment(thread_clocks[t], t)[u]
                           = IF u = t THEN thread_clocks[t][u] + 1 ELSE thread_clocks[t][u]
      <4>1. thread_clocks[t] \in Clock /\ Releases(steps[t])
        BY <1>0, <2>2 DEF Releases
      <4> QED BY <4>1, IncrementBounds DEF TypeInv, RoomToRelease
    <3>2. \A v \in Tid : thread_clocks'[v]
                          = IF v = t THEN Increment(thread_clocks[t], t) ELSE thread_clocks[v]
      BY <1>0, <2>1
    <3> QED BY <1>a, <3>1, <3>2
  <2>4. /\ \A l \in Location, u \in Tid : /\ sync_clocks[l][u] <= sync_clocks'[l][u]
                                          /\ sync_clocks'[l][u] \in Int
        /\ \A u \in Tid : thread_clocks[t][u] <= sync_clocks'[at[t]][u]
    <3>1. sync_clocks[at[t]] \in Clock /\ thread_clocks[t] \in Clock
      BY <1>0
    <3>2. \A l \in Location : sync_clocks'[l] = IF l = at[t]
                                THEN Join(sync_clocks[at[t]], thread_clocks[t])
                                ELSE sync_clocks[l]
      BY <1>0, <2>1
    <3> DEFINE joined == Join(sync_clocks[at[t]], thread_clocks[t])
    <3>3. \A u \in Tid : /\ sync_clocks[at[t]][u] <= joined[u]
                         /\ thread_clocks[t][u] <= joined[u] /\ joined[u] \in Int
      BY <1>a, <3>1, JoinBounds
    <3> HIDE DEF joined
    <3>4. \A l \in Location : sync_clocks'[l] = IF l = at[t] THEN joined ELSE sync_clocks[l]
      BY <3>2 DEF joined
    <3> QED BY <1>a, <3>3, <3>4
  <2>5. SeenIsCovered'
    <3> SUFFICES ASSUME NEW v \in Tid, NEW u \in thread_hb[v]
                 PROVE  \/ data[u] <= thread_clocks'[v][u]
                        \/ steps'[v] = <<"acquire">> /\ data[u] <= sync_clocks'[at[v]][u]
      BY <2>1 DEF SeenIsCovered
    <3>1. \/ data[u] <= thread_clocks[v][u]
          \/ steps[v] = <<"acquire">> /\ data[u] <= sync_clocks[at[v]][u]
      BY <1>c DEF SeenIsCovered
    <3>2. u \in Tid /\ at[v] \in Location
      BY <1>a
    <3>3. steps[v] = <<"acquire">> => steps'[v] = <<"acquire">>
      BY <2>2, HandOffLeftDiffer
    <3> QED BY <1>a, <2>3, <2>4, <3>1, <3>2, <3>3
  <2>6. ValueIsCovered'
    BY <1>a, <1>c, <2>1, <2>4 DEF ValueIsCovered
  <2>7. StoreIsCovered'
    <3> SUFFICES ASSUME NEW v \in Tid, steps'[v] = <<"write">>, NEW u \in thread_hb[v]
                 PROVE  data[u] <= sync_clocks'[at[v]][u]
      BY <2>1 DEF StoreIsCovered
    <3>1. u \in Tid /\ at[v] \in Location
      BY <1>a
    <3>2. CASE v = t
      <4>1. data[u] <= thread_clocks[t][u]
        BY <1>c, <2>2, <3>2, HandOffLeftDiffer DEF SeenIsCovered
      <4> QED BY <1>a, <2>4, <3>1, <3>2, <4>1
    <3>3. CASE v # t
      <4>1. data[u] <= sync_clocks[at[v]][u]
        BY <1>c, <2>2, <3>3 DEF StoreIsCovered
      <4> QED BY <1>a, <2>4, <3>1, <4>1
    <3> QED BY <3>2, <3>3
  <2> QED BY <2>2, <2>5, <2>6, <2>7
<1>6. ASSUME NEW t \in Tid, Read(t)
      PROVE  /\ \A v \in Tid : steps'[v] \in HandOffLeft
             /\ SeenIsCovered' /\ ValueIsCovered' /\ StoreIsCovered'
  <2>1. /\ Does(t, "read") /\ Sees(t)
        /\ UNCHANGED <<thread_clocks, sync_clocks, at, data, value_hb>>
    BY <1>3, <1>6 DEF Read
  <2>2. /\ steps'[t] = <<"acquire">> /\ steps[t] = <<"read", "acquire">>
        /\ \A v \in Tid : v # t => steps'[v] = steps[v]
        /\ \A v \in Tid : steps'[v] \in HandOffLeft
    BY <1>3, <2>1
  <2>3. /\ thread_hb'[t] = thread_hb[t] \cup value_hb[at[t]]
        /\ \A v \in Tid : v # t => thread_hb'[v] = thread_hb[v]
    BY <2>1, SeesWhat
  <2>4. SeenIsCovered'
    <3> SUFFICES ASSUME NEW v \in Tid, NEW u \in thread_hb'[v]
                 PROVE  \/ data[u] <= thread_clocks[v][u]
                        \/ steps'[v] = <<"acquire">> /\ data[u] <= sync_clocks[at[v]][u]
      BY <2>1 DEF SeenIsCovered
    <3>1. CASE v = t /\ u \in value_hb[at[t]]
      BY <1>a, <1>c, <2>2, <3>1 DEF ValueIsCovered
    <3>2. CASE u \in thread_hb[v]
      BY <1>c, <2>2, <3>2, HandOffLeftDiffer DEF SeenIsCovered
    <3> QED BY <2>3, <3>1, <3>2
  <2>5. ValueIsCovered'
    BY <1>c, <2>1 DEF ValueIsCovered
  <2>6. StoreIsCovered'
    BY <1>c, <2>1, <2>2, <2>3, HandOffLeftDiffer DEF StoreIsCovered
  <2> QED BY <2>2, <2>4, <2>5, <2>6
<1>7. ASSUME NEW t \in Tid, Write(t)
      PROVE  /\ \A v \in Tid : steps'[v] \in HandOffLeft
             /\ SeenIsCovered' /\ ValueIsCovered' /\ StoreIsCovered'
  <2>1. /\ Does(t, "write") /\ Stores(t, {}, {})
        /\ UNCHANGED <<thread_clocks, sync_clocks, at, data, thread_hb>>
    BY <1>7 DEF Write
  <2>2. /\ steps'[t] = <<>> /\ steps[t] = <<"write">>
        /\ \A v \in Tid : v # t => steps'[v] = steps[v]
        /\ \A v \in Tid : steps'[v] \in HandOffLeft
    BY <1>3, <2>1
  <2>3. /\ value_hb'[at[t]] = thread_hb[t]
        /\ \A l \in Location : l # at[t] => value_hb'[l] = value_hb[l]
    <3>1. {} \in SUBSET Tid
      OBVIOUS
    <3>2. /\ value_hb'[at[t]] = {} \cup thread_hb[t]
          /\ \A l \in Location : l # at[t] => value_hb'[l] = value_hb[l]
      BY <2>1, <3>1, StoresWhat
    <3> QED BY <3>2
  <2>4. SeenIsCovered'
    BY <1>c, <2>1, <2>2, HandOffLeftDiffer DEF SeenIsCovered
  <2>5. ValueIsCovered'
    <3> SUFFICES ASSUME NEW l \in Location, NEW u \in value_hb'[l]
                 PROVE  data[u] <= sync_clocks[l][u]
      BY <2>1 DEF ValueIsCovered
    <3>1. CASE l = at[t]
      BY <1>c, <2>2, <2>3, <3>1 DEF StoreIsCovered
    <3>2. CASE l # at[t]
      BY <1>c, <2>3, <3>2 DEF ValueIsCovered
    <3> QED BY <3>1, <3>2
  <2>6. StoreIsCovered'
    BY <1>c, <2>1, <2>2, HandOffLeftDiffer DEF StoreIsCovered
  <2> QED BY <2>2, <2>4, <2>5, <2>6
<1>8. ASSUME NEW t \in Tid, ReadModifyWrite(t) \/ Convert(t) PROVE FALSE
  <2>1. steps[t] # <<>> /\ Head(steps[t]) \in {"rmw", "cas", "convert"}
    BY <1>8 DEF ReadModifyWrite, Convert, Does
  <2> QED BY <1>c, <2>1, HandOffSteps
<1>9. ASSUME NEW t \in Tid, WriteData(t)
      PROVE  /\ \A v \in Tid : steps'[v] \in HandOffLeft
             /\ SeenIsCovered' /\ ValueIsCovered' /\ StoreIsCovered'
  <2>1. /\ data' = [data EXCEPT ![t] = thread_clocks[t][t]]
        /\ thread_hb' = [v \in Tid |-> IF v = t THEN thread_hb[v] \cup {t} ELSE thread_hb[v] \ {t}]
        /\ value_hb' = [l \in Location |-> value_hb[l] \ {t}]
        /\ UNCHANGED <<thread_clocks, sync_clocks, steps, at>>
    BY <1>9 DEF WriteData
  <2>2. steps[t] = <<>>
    <3>1. steps[t] # <<>> => Head(steps[t]) = "convert"
      BY <1>9 DEF WriteData
    <3> QED BY <1>c, <3>1, HandOffSteps
  <2>3. /\ data'[t] = thread_clocks[t][t]
        /\ \A u \in Tid : u # t => data'[u] = data[u]
    BY <1>0, <2>1
  <2>4. SeenIsCovered'
    <3> SUFFICES ASSUME NEW v \in Tid, NEW u \in thread_hb'[v]
                 PROVE  \/ data'[u] <= thread_clocks[v][u]
                        \/ steps[v] = <<"acquire">> /\ data'[u] <= sync_clocks[at[v]][u]
      BY <2>1 DEF SeenIsCovered
    <3>1. CASE u = t
      BY <1>a, <2>1, <2>3, <3>1
    <3>2. CASE u # t
      BY <1>a, <1>c, <2>1, <2>3, <3>2 DEF SeenIsCovered
    <3> QED BY <3>1, <3>2
  <2>5. ValueIsCovered'
    BY <1>a, <1>c, <2>1, <2>3 DEF ValueIsCovered
  <2>6. StoreIsCovered'
    BY <1>a, <1>c, <2>1, <2>2, <2>3, HandOffLeftDiffer DEF StoreIsCovered
  <2> QED BY <1>c, <2>1, <2>4, <2>5, <2>6
<1> QED BY <1>1, <1>2, <1>4, <1>5, <1>6, <1>7, <1>8, <1>9 DEF Next

(* The hooks of Atomics.store in JavaScript come before the store and those *)
(* of an atomic load in Wasm after the load (TraceMemoryOperation), so what *)
(* a reader has seen handed over is in its clock when the load is over.     *)
THEOREM HandOffOrdered == Spec => []HandOffIsOrdered
<1>1. TypeInv /\ HandOffInv => HandOffIsOrdered
  BY HandOffLeftDiffer DEF HandOffInv, SeenIsCovered, HandOffIsOrdered, SynchronizedIsOrdered
<1> QED BY <1>1, InitType, StepType, InitHandOff, StepHandOff, PTL DEF Spec

-----------------------------------------------------------------------------
(* What the makers of a value have written is published with it.           *)

\* Every operation of the program that stores has a hook, and nobody writes
\* between the hook and the store.
Hooked ==
  /\ Ops \cap {"store64", "add"} = {}
  /\ ConversionWrites => Ops \cap {"exchange", "compareExchange"} = {}

BeforeConversion ==
  {<<"convert", "rmw">>, <<"convert", "cas">>,
   <<"release", "convert", "rmw">>, <<"release", "convert", "cas">>,
   <<"acquire", "release", "convert", "rmw">>, <<"acquire", "release", "convert", "cas">>}

\* Where the hook came first, the store is to come.
AfterHook ==
  {<<"write">>, <<"rmw">>, <<"cas">>, <<"convert", "rmw">>, <<"convert", "cas">>}

\* Where the store came first, the hook is to come.
BeforeHook == {<<"acquire", "release">>, <<"release">>}

PublishedFirst ==
  \A t \in Tid : steps[t] \in AfterHook => data[t] <= sync_clocks[at[t]][t]

PublishedOrPending ==
  \A l \in Location : \A u \in value_own[l] :
    data[u] <= sync_clocks[l][u] \/ (at[u] = l /\ steps[u] \in BeforeHook)

PublishInv ==
  /\ \A t \in Tid : steps[t] \in BeforeConversion => ~ ConversionWrites
  /\ PublishedFirst
  /\ PublishedOrPending

(* Where in its operation a thread is, before and after a step.            *)
LEMMA HookSteps ==
  ASSUME NEW s \in Left, s # <<>>
  PROVE  /\ Tail(s) \in AfterHook => s \in AfterHook \/ Head(s) = "release"
         /\ s \in BeforeHook => Head(s) \in {"acquire", "release"}
         /\ s \in BeforeHook /\ Head(s) = "acquire" => Tail(s) \in BeforeHook
         /\ Head(s) \in {"write", "rmw", "cas"} => s \in AfterHook \/ Tail(s) \in BeforeHook
         /\ Tail(s) \in BeforeConversion => s \in BeforeConversion
         /\ Head(s) = "convert" => s \in BeforeConversion /\ s \in AfterHook
<1>1. CASE s = <<"read">>
  BY <1>1, FirstAndRest DEF AfterHook, BeforeHook, BeforeConversion
<1>2. CASE s = <<"write">>
  BY <1>2, FirstAndRest DEF AfterHook, BeforeHook, BeforeConversion
<1>3. CASE s = <<"rmw">>
  BY <1>3, FirstAndRest DEF AfterHook, BeforeHook, BeforeConversion
<1>4. CASE s = <<"cas">>
  BY <1>4, FirstAndRest DEF AfterHook, BeforeHook, BeforeConversion
<1>5. CASE s = <<"acquire">>
  BY <1>5, FirstAndRest DEF AfterHook, BeforeHook, BeforeConversion
<1>6. CASE s = <<"release">>
  BY <1>6, FirstAndRest DEF AfterHook, BeforeHook, BeforeConversion
<1>7. CASE s = <<"acquire", "read">>
  BY <1>7, FirstAndRest DEF AfterHook, BeforeHook, BeforeConversion
<1>8. CASE s = <<"release", "write">>
  BY <1>8, FirstAndRest DEF AfterHook, BeforeHook, BeforeConversion
<1>9. CASE s = <<"read", "acquire">>
  BY <1>9, FirstAndRest DEF AfterHook, BeforeHook, BeforeConversion
<1>10. CASE s = <<"acquire", "release">>
  BY <1>10, FirstAndRest DEF AfterHook, BeforeHook, BeforeConversion
<1>11. CASE s = <<"convert", "rmw">>
  BY <1>11, FirstAndRest DEF AfterHook, BeforeHook, BeforeConversion
<1>12. CASE s = <<"convert", "cas">>
  BY <1>12, FirstAndRest DEF AfterHook, BeforeHook, BeforeConversion
<1>13. CASE s = <<"release", "convert", "rmw">>
  BY <1>13, FirstAndRestOfThree DEF AfterHook, BeforeHook, BeforeConversion
<1>14. CASE s = <<"release", "convert", "cas">>
  BY <1>14, FirstAndRestOfThree DEF AfterHook, BeforeHook, BeforeConversion
<1>15. CASE s = <<"acquire", "release", "convert", "rmw">>
  BY <1>15, FirstAndRestOfThree DEF AfterHook, BeforeHook, BeforeConversion
<1>16. CASE s = <<"acquire", "release", "convert", "cas">>
  BY <1>16, FirstAndRestOfThree DEF AfterHook, BeforeHook, BeforeConversion
<1>17. CASE s = <<"write", "acquire", "release">>
  BY <1>17, FirstAndRestOfThree DEF AfterHook, BeforeHook, BeforeConversion
<1>18. CASE s = <<"rmw", "acquire", "release">>
  BY <1>18, FirstAndRestOfThree DEF AfterHook, BeforeHook, BeforeConversion
<1>19. CASE s = <<"cas", "acquire", "release">>
  BY <1>19, FirstAndRestOfThree DEF AfterHook, BeforeHook, BeforeConversion
<1> QED
  BY <1>1, <1>2, <1>3, <1>4, <1>5, <1>6, <1>7, <1>8, <1>9, <1>10, <1>11, <1>12, <1>13, <1>14, <1>15, <1>16, <1>17, <1>18, <1>19, Zenon DEF Left

(* A hooked operation starts before its hook, or with it.                  *)
LEMMA HookedBegins ==
  ASSUME Hooked, NEW op \in Ops
  PROVE  /\ Operation[op] \notin AfterHook
         /\ Operation[op] \in BeforeConversion => ~ ConversionWrites
<1>1. op \in DOMAIN Operation
  BY OpsAssumption
<1>2. op \notin {"store64", "add"}
      /\ (ConversionWrites => op \notin {"exchange", "compareExchange"})
  BY DEF Hooked
<1>3. CASE op \in {"load", "store", "wasmLoad"}
  BY <1>3 DEF Operation, AtomicsLoad, AtomicsStore, WasmLoad, AfterHook, BeforeConversion
<1>4. CASE op \in {"wasmStore", "wasmAdd", "wasmCompareExchange"}
  BY <1>4 DEF Operation, WasmStore, WasmBinop, WasmCompareExchange, AfterHook, BeforeConversion
<1>5. CASE op \in {"exchange", "compareExchange"}
  BY <1>2, <1>5 DEF Operation, AtomicsExchange, AtomicsCompareExchange, AfterHook
<1> QED BY <1>1, <1>2, <1>3, <1>4, <1>5 DEF Operation

(* No value has been stored at the start.                                  *)
LEMMA InitPublish == Init => PublishInv
<1>1. Init => /\ \A t \in Tid : steps[t] = <<>>
              /\ \A l \in Location : value_own[l] = {}
  BY DEF Init
<1>2. <<>> \notin BeforeConversion /\ <<>> \notin AfterHook
  BY DEF BeforeConversion, AfterHook
<1> QED BY <1>1, <1>2 DEF PublishInv, PublishedFirst, PublishedOrPending

(* A hooked operation publishes before its store or owes it the hook.      *)
LEMMA StepPublish == Hooked /\ TypeInv /\ PublishInv /\ [Next]_vars => PublishInv'
<1> SUFFICES ASSUME Hooked, TypeInv, PublishInv, [Next]_vars PROVE PublishInv'
  OBVIOUS
<1>0. /\ thread_clocks \in [Tid -> Clock] /\ sync_clocks \in [Location -> Clock]
      /\ at \in [Tid -> Location] /\ data \in [Tid -> Epoch]
      /\ steps \in [Tid -> Seq(Step)] /\ value_own \in [Location -> SUBSET Tid]
  BY DEF TypeInv, TypeOK, Clock, Epoch
<1>a. /\ \A t, u \in Tid : thread_clocks[t][u] \in Int
      /\ \A l \in Location, u \in Tid : sync_clocks[l][u] \in Int
      /\ \A u \in Tid : data[u] \in Int
      /\ \A t \in Tid : at[t] \in Location
      /\ \A l \in Location : value_own[l] \subseteq Tid
  BY <1>0, OpsAssumption DEF Clock, Epoch
<1>c. /\ \A t \in Tid : steps[t] \in BeforeConversion => ~ ConversionWrites
      /\ PublishedFirst /\ PublishedOrPending
  BY DEF PublishInv
<1>d. <<>> \notin BeforeConversion /\ <<>> \notin AfterHook /\ <<>> \notin BeforeHook
  BY DEF BeforeConversion, AfterHook, BeforeHook
<1>1. CASE UNCHANGED vars
  BY <1>1 DEF vars, history, PublishInv, PublishedFirst, PublishedOrPending
<1>2. ASSUME NEW t \in Tid, NEW op \in Ops, NEW l \in Location, Begin(t, op, l)
      PROVE  PublishInv'
  <2>1. /\ Operation[op] \notin AfterHook
        /\ Operation[op] \in BeforeConversion => ~ ConversionWrites
    BY HookedBegins
  <2>2. /\ steps' = [steps EXCEPT ![t] = Operation[op]]
        /\ at' = [at EXCEPT ![t] = l]
        /\ UNCHANGED <<thread_clocks, sync_clocks, data, value_own>>
        /\ steps[t] = <<>>
    BY <1>2 DEF Begin, history
  <2>3. /\ steps'[t] = Operation[op]
        /\ \A v \in Tid : v # t => steps'[v] = steps[v] /\ at'[v] = at[v]
    BY <1>0, <2>2
  <2>4. \A v \in Tid : steps'[v] \in BeforeConversion => ~ ConversionWrites
    BY <1>c, <2>1, <2>3
  <2>5. PublishedFirst'
    BY <1>c, <2>1, <2>2, <2>3 DEF PublishedFirst
  <2>6. PublishedOrPending'
    <3> SUFFICES ASSUME NEW k \in Location, NEW u \in value_own[k]
                 PROVE  \/ data[u] <= sync_clocks[k][u]
                        \/ at'[u] = k /\ steps'[u] \in BeforeHook
      BY <2>2 DEF PublishedOrPending
    <3>1. \/ data[u] <= sync_clocks[k][u]
          \/ at[u] = k /\ steps[u] \in BeforeHook
      BY <1>c DEF PublishedOrPending
    <3>2. u \in Tid
      BY <1>a
    <3> QED BY <1>d, <2>2, <2>3, <3>1, <3>2
  <2> QED BY <2>4, <2>5, <2>6 DEF PublishInv
<1>3. ASSUME NEW t \in Tid, NEW s, Does(t, s)
      PROVE  /\ steps[t] \in Left /\ steps[t] # <<>> /\ Head(steps[t]) = s
             /\ steps'[t] = Tail(steps[t])
             /\ \A v \in Tid : v # t => steps'[v] = steps[v]
             /\ \A v \in Tid : steps'[v] \in BeforeConversion => ~ ConversionWrites
  <2>1. /\ steps[t] \in Left /\ steps[t] # <<>> /\ Head(steps[t]) = s
        /\ steps'[t] = Tail(steps[t])
        /\ \A v \in Tid : v # t => steps'[v] = steps[v]
    BY <1>3, DoesType
  <2>2. \A v \in Tid : steps'[v] \in BeforeConversion => ~ ConversionWrites
    BY <1>c, <2>1, HookSteps
  <2> QED BY <2>1, <2>2
<1>4. ASSUME NEW t \in Tid, Acquire(t) PROVE PublishInv'
  <2>1. /\ Does(t, "acquire")
        /\ UNCHANGED <<sync_clocks, at, data, value_own>>
    BY <1>4 DEF Acquire, history
  <2>2. /\ steps[t] \in Left /\ steps[t] # <<>> /\ Head(steps[t]) = "acquire"
        /\ steps'[t] = Tail(steps[t])
        /\ \A v \in Tid : v # t => steps'[v] = steps[v]
        /\ \A v \in Tid : steps'[v] \in BeforeConversion => ~ ConversionWrites
    BY <1>3, <2>1
  <2>3. PublishedFirst'
    BY <1>c, <2>1, <2>2, HookSteps DEF PublishedFirst
  <2>4. \A v \in Tid : steps[v] \in BeforeHook => steps'[v] \in BeforeHook
    BY <2>2, HookSteps
  <2>5. PublishedOrPending'
    BY <1>a, <1>c, <2>1, <2>4 DEF PublishedOrPending
  <2> QED BY <2>2, <2>3, <2>5 DEF PublishInv
<1>5. ASSUME NEW t \in Tid, Release(t) PROVE PublishInv'
  <2>1. /\ Does(t, "release")
        /\ UNCHANGED <<at, data, value_own>>
        /\ sync_clocks' = [sync_clocks EXCEPT
                             ![at[t]] = Join(sync_clocks[at[t]], thread_clocks[t])]
    BY <1>5 DEF Release, history
  <2>2. /\ steps[t] \in Left /\ steps[t] # <<>> /\ Head(steps[t]) = "release"
        /\ steps'[t] = Tail(steps[t])
        /\ \A v \in Tid : v # t => steps'[v] = steps[v]
        /\ \A v \in Tid : steps'[v] \in BeforeConversion => ~ ConversionWrites
    BY <1>3, <2>1
  <2>3. /\ \A l \in Location, u \in Tid : /\ sync_clocks[l][u] <= sync_clocks'[l][u]
                                          /\ sync_clocks'[l][u] \in Int
        /\ \A u \in Tid : thread_clocks[t][u] <= sync_clocks'[at[t]][u]
    <3>1. sync_clocks[at[t]] \in Clock /\ thread_clocks[t] \in Clock
      BY <1>0
    <3>2. \A l \in Location : sync_clocks'[l] = IF l = at[t]
                                THEN Join(sync_clocks[at[t]], thread_clocks[t])
                                ELSE sync_clocks[l]
      BY <1>0, <2>1
    <3> DEFINE joined == Join(sync_clocks[at[t]], thread_clocks[t])
    <3>3. \A u \in Tid : /\ sync_clocks[at[t]][u] <= joined[u]
                         /\ thread_clocks[t][u] <= joined[u] /\ joined[u] \in Int
      BY <1>a, <3>1, JoinBounds
    <3> HIDE DEF joined
    <3>4. \A l \in Location : sync_clocks'[l] = IF l = at[t] THEN joined ELSE sync_clocks[l]
      BY <3>2 DEF joined
    <3> QED BY <1>a, <3>3, <3>4
  \* What the thread has written itself is in the clock it releases.
  <2>4. data[t] <= sync_clocks'[at[t]][t]
    <3>1. data[t] <= thread_clocks[t][t]
      BY DEF TypeInv, OwnerIsAhead
    <3> QED BY <1>a, <2>3, <3>1
  <2>5. PublishedFirst'
    <3> SUFFICES ASSUME NEW v \in Tid, steps'[v] \in AfterHook
                 PROVE  data[v] <= sync_clocks'[at[v]][v]
      BY <2>1 DEF PublishedFirst
    <3>1. CASE v = t
      BY <2>4, <3>1
    <3>2. CASE v # t
      <4>1. data[v] <= sync_clocks[at[v]][v]
        BY <1>c, <2>2, <3>2 DEF PublishedFirst
      <4> QED BY <1>a, <2>3, <4>1
    <3> QED BY <3>1, <3>2
  <2>6. PublishedOrPending'
    <3> SUFFICES ASSUME NEW k \in Location, NEW u \in value_own[k]
                 PROVE  \/ data[u] <= sync_clocks'[k][u]
                        \/ at[u] = k /\ steps'[u] \in BeforeHook
      BY <2>1 DEF PublishedOrPending
    <3>1. \/ data[u] <= sync_clocks[k][u]
          \/ at[u] = k /\ steps[u] \in BeforeHook
      BY <1>c DEF PublishedOrPending
    <3>2. u \in Tid
      BY <1>a
    <3>3. CASE data[u] <= sync_clocks[k][u]
      BY <1>a, <2>3, <3>2, <3>3
    <3>4. CASE at[u] = k /\ steps[u] \in BeforeHook
      <4>1. CASE u = t
        BY <2>4, <3>4, <4>1
      <4>2. CASE u # t
        BY <2>2, <3>2, <3>4, <4>2
      <4> QED BY <4>1, <4>2
    <3> QED BY <3>1, <3>3, <3>4
  <2> QED BY <2>2, <2>5, <2>6 DEF PublishInv
<1>6. ASSUME NEW t \in Tid, Read(t) PROVE PublishInv'
  <2>1. /\ \E s \in {"read", "cas"} : Does(t, s)
        /\ UNCHANGED <<sync_clocks, at, data, value_own>>
    BY <1>6 DEF Read
  <2>2. /\ steps[t] \in Left /\ steps[t] # <<>> /\ Head(steps[t]) \in {"read", "cas"}
        /\ steps'[t] = Tail(steps[t])
        /\ \A v \in Tid : v # t => steps'[v] = steps[v]
        /\ \A v \in Tid : steps'[v] \in BeforeConversion => ~ ConversionWrites
    BY <1>3, <2>1
  <2>3. PublishedFirst'
    BY <1>c, <2>1, <2>2, HookSteps DEF PublishedFirst
  <2>4. \A v \in Tid : steps[v] \in BeforeHook => steps'[v] \in BeforeHook
    BY <2>2, HookSteps
  <2>5. PublishedOrPending'
    BY <1>a, <1>c, <2>1, <2>4 DEF PublishedOrPending
  <2> QED BY <2>2, <2>3, <2>5 DEF PublishInv
<1>7. ASSUME NEW t \in Tid, Write(t) \/ ReadModifyWrite(t) PROVE PublishInv'
  <2>1. /\ \E s \in {"write", "rmw", "cas"} : Does(t, s)
        /\ UNCHANGED <<sync_clocks, at, data>>
    BY <1>7 DEF Write, ReadModifyWrite
  <2>2. /\ steps[t] \in Left /\ steps[t] # <<>> /\ Head(steps[t]) \in {"write", "rmw", "cas"}
        /\ steps'[t] = Tail(steps[t])
        /\ \A v \in Tid : v # t => steps'[v] = steps[v]
        /\ \A v \in Tid : steps'[v] \in BeforeConversion => ~ ConversionWrites
    BY <1>3, <2>1
  <2>3. /\ value_own'[at[t]] \subseteq value_own[at[t]] \cup {t}
        /\ \A l \in Location : l # at[t] => value_own'[l] = value_own[l]
    <3>1. CASE Write(t)
      <4>1. Stores(t, {}, {}) /\ {} \in SUBSET Tid
        BY <3>1 DEF Write
      <4>2. /\ value_own'[at[t]] = {} \cup (thread_hb[t] \cap {t})
            /\ \A l \in Location : l # at[t] => value_own'[l] = value_own[l]
        BY <4>1, StoresWhat
      <4> QED BY <4>2
    <3>2. CASE ReadModifyWrite(t)
      <4>1. /\ Stores(t, value_hb[at[t]], value_own[at[t]])
            /\ value_hb[at[t]] \in SUBSET Tid /\ value_own[at[t]] \in SUBSET Tid
        BY <1>a, <3>2 DEF ReadModifyWrite, TypeInv, TypeOK
      <4>2. /\ value_own'[at[t]] = value_own[at[t]] \cup (thread_hb[t] \cap {t})
            /\ \A l \in Location : l # at[t] => value_own'[l] = value_own[l]
        BY <4>1, StoresWhat
      <4> QED BY <4>2
    <3> QED BY <1>7, <3>1, <3>2
  <2>4. PublishedFirst'
    BY <1>c, <2>1, <2>2, HookSteps DEF PublishedFirst
  <2>5. PublishedOrPending'
    <3> SUFFICES ASSUME NEW k \in Location, NEW u \in value_own'[k]
                 PROVE  \/ data[u] <= sync_clocks[k][u]
                        \/ at[u] = k /\ steps'[u] \in BeforeHook
      BY <2>1 DEF PublishedOrPending
    <3>1. CASE u = t /\ k = at[t]
      <4>1. steps[t] \in AfterHook \/ steps'[t] \in BeforeHook
        BY <2>2, HookSteps
      <4> QED BY <1>c, <3>1, <4>1 DEF PublishedFirst
    <3>2. CASE u \in value_own[k]
      <4>1. \/ data[u] <= sync_clocks[k][u]
            \/ at[u] = k /\ steps[u] \in BeforeHook
        BY <1>c, <3>2 DEF PublishedOrPending
      <4>2. steps[t] \notin BeforeHook
        BY <2>2, HookSteps
      <4>3. u \in Tid
        BY <1>a, <3>2
      <4> QED BY <2>2, <4>1, <4>2, <4>3
    <3> QED BY <2>3, <3>1, <3>2
  <2> QED BY <2>2, <2>4, <2>5 DEF PublishInv
<1>8. ASSUME NEW t \in Tid, Convert(t) PROVE PublishInv'
  <2>1. PICK rest \in {Tail(steps[t]), <<>>} : steps' = [steps EXCEPT ![t] = rest]
    BY <1>8 DEF Convert
  <2>2. /\ UNCHANGED <<sync_clocks, at, data, value_own>>
        /\ steps[t] \in Left /\ steps[t] # <<>> /\ Head(steps[t]) = "convert"
    BY <1>8 DEF Convert, history, TypeInv
  <2>3. /\ steps[t] \in AfterHook /\ steps[t] \notin BeforeHook
        /\ rest \in BeforeConversion => steps[t] \in BeforeConversion
    BY <1>d, <2>2, HookSteps
  <2>4. \A v \in Tid : steps'[v] = IF v = t THEN rest ELSE steps[v]
    BY <1>0, <2>1
  <2>5. PublishedFirst'
    BY <1>c, <2>2, <2>3, <2>4 DEF PublishedFirst
  <2>6. PublishedOrPending'
    BY <1>a, <1>c, <2>2, <2>3, <2>4 DEF PublishedOrPending
  <2>7. \A v \in Tid : steps'[v] \in BeforeConversion => ~ ConversionWrites
    BY <1>c, <2>3, <2>4
  <2> QED BY <2>5, <2>6, <2>7 DEF PublishInv
<1>9. ASSUME NEW t \in Tid, WriteData(t) PROVE PublishInv'
  <2>1. /\ data' = [data EXCEPT ![t] = thread_clocks[t][t]]
        /\ value_own' = [l \in Location |-> value_own[l] \ {t}]
        /\ UNCHANGED <<sync_clocks, steps, at>>
    BY <1>9 DEF WriteData
  \* A conversion that writes comes only from an operation that is not used.
  <2>2. steps[t] = <<>>
    <3>1. steps[t] # <<>> => ConversionWrites /\ Head(steps[t]) = "convert"
      BY <1>9 DEF WriteData
    <3>2. steps[t] \in Left
      BY DEF TypeInv
    <3> QED BY <1>c, <3>1, <3>2, HookSteps
  <2>3. \A u \in Tid : u # t => data'[u] = data[u]
    BY <1>0, <2>1
  <2>4. PublishedFirst'
    BY <1>c, <1>d, <2>1, <2>2, <2>3 DEF PublishedFirst
  <2>5. PublishedOrPending'
    BY <1>a, <1>c, <2>1, <2>3 DEF PublishedOrPending
  <2> QED BY <1>c, <2>1, <2>4, <2>5 DEF PublishInv
<1> QED BY <1>1, <1>2, <1>4, <1>5, <1>6, <1>7, <1>8, <1>9 DEF Next

(* In a program without the operations that have no hook (Atomics.add and  *)
(* its kin, and the elements of 64 bits of Atomics.store) and without       *)
(* writes between Release and the store of Atomics.exchange, the clock of   *)
(* a location covers its value except between a Wasm store and its hook.    *)
THEOREM HookedIsPublished == ASSUME Hooked PROVE Spec => []SettledIsPublished
<1>1. TypeInv /\ PublishInv => SettledIsPublished
  BY DEF TypeInv, TypeOK, PublishInv, PublishedOrPending, SettledIsPublished, BeforeHook
<1>2. PublishInv /\ TypeInv /\ [Next]_vars => PublishInv' /\ TypeInv'
  BY StepPublish, StepType
<1> QED BY <1>1, <1>2, InitType, InitPublish, PTL DEF Spec

=============================================================================
