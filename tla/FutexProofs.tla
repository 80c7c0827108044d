---------------------------- MODULE FutexProofs ----------------------------
(***************************************************************************)
(* Theorems about the futexes, for every number of threads, asynchronous   *)
(* nodes and locations and every interleaving of waits, timeouts,          *)
(* interrupts, notifies, promises and ends of isolates: an inductive       *)
(* invariant, and that they implement WaiterLists.                         *)
(***************************************************************************)
EXTENDS Futex, FiniteSetTheorems, WellFoundedInduction, TLAPS

-----------------------------------------------------------------------------
(* The inductive invariant.                                                *)

\* No node is twice on a list.
Once(s) == \A i, j \in 1 .. Len(s) : s[i] = s[j] => i = j

\* Thread t is between the two critical sections that enclose its wait.
Waits(t) == pc[t][1] \in {"asleep", "interrupts"}

\* A thread is at one of its places; one that notifies has published its clock.
PlaceInv ==
  /\ pc = [t \in Tid |-> pc[t]]
  /\ \A t \in Tid :
       \/ pc[t] = IdlePc
       \/ pc[t] = <<"resolving">>
       \/ \E l \in Location : pc[t] = <<"asleep", l>> \/ pc[t] = <<"interrupts", l>>
       \/ \E l \in Location, count \in {1, Cardinality(Node)} :
            \E epoch \in 0 .. sync_clocks[l][t] : pc[t] = <<"notify", l, count, epoch>>
  /\ \A t \in Tid : (pc[t][1] = "resolving") = (todo[t] # <<>>)

\* The nodes on the lists of the locations: those that wait there, and the threads
\* that have been woken and have not returned yet.
ListInv ==
  /\ \A l \in Location : Once(location_lists[l])
  /\ \A l \in Location : \A n \in Nodes(location_lists[l]) :
       /\ At(n) = l
       /\ (n \in Tid /\ Waits(n)) \/ n \in live \cap waiting
  /\ \A n \in waiting :
       /\ (n \in Tid /\ Waits(n)) \/ n \in live
       /\ n \in Nodes(location_lists[At(n)])

\* The nodes whose promises are to be resolved: those that wait no longer.
QueueInv ==
  /\ \A t \in Tid :
       /\ Once(to_resolve[t]) /\ Once(todo[t])
       /\ Nodes(to_resolve[t]) \cap Nodes(todo[t]) = {}
       /\ (to_resolve[t] # <<>>) = (t \in resolve_tasks)
       /\ \A n \in Nodes(to_resolve[t]) \cup Nodes(todo[t]) :
            n \in live /\ n \notin waiting /\ async[n].isolate = t
  /\ \A n \in live \ waiting :
       n \in Nodes(to_resolve[async[n].isolate]) \cup Nodes(todo[async[n].isolate])

\* A node that is to be resolved has no timeout, and one whose timeout task is
\* posted has it as long as it waits.
TimeInv ==
  /\ timeout_tasks \subseteq live
  /\ timeout_tasks \cap waiting \subseteq timeout_time
  /\ timeout_time \cap live \subseteq waiting

\* What a notify has counted waits no longer and has not ended yet, and its
\* location has the clock of the notify.
CountInv ==
  /\ woken_by = [n \in Node |-> woken_by[n]]
  /\ \A n \in Node : woken_by[n] # NotCounted =>
       /\ n \notin waiting /\ n \notin cleanup
       /\ (n \in Tid /\ Waits(n)) \/ n \in live
       /\ \E t \in Tid : \E epoch \in 0 .. sync_clocks[At(n)][t] : woken_by[n] = <<t, epoch>>
  /\ \A t \in Tid : Waits(t) /\ t \notin waiting => woken_by[t] # NotCounted
  /\ \A n \in live \ waiting : n \notin cleanup => woken_by[n] # NotCounted

IInv ==
  /\ TypeOK /\ PlaceInv /\ ListInv /\ QueueInv /\ TimeInv /\ CountInv
  /\ CountedIsWoken /\ WokenIsOrdered

-----------------------------------------------------------------------------
(* Lists of nodes.                                                         *)

(* Every set of naturals that is not empty has a least element.            *)
LEMMA Least ==
  ASSUME NEW S \in SUBSET Nat, S # {}
  PROVE  \E m \in S : \A k \in S : m <= k
<1> DEFINE R == OpToRel(<, Nat)
<1>1. IsWellFoundedOn(R, Nat)
  BY NatLessThanWellFounded
<1> HIDE DEF R
<1>2. PICK x \in S : \A y \in S : ~ (<<y, x>> \in R)
  BY <1>1, WFMin, Zenon
<1>3. \A y \in S : y < x => <<y, x>> \in R
  BY DEF R, OpToRel
<1>4. ASSUME NEW k \in S PROVE x <= k
  <2>1. ~ (k < x)
    BY <1>2, <1>3
  <2>2. k \in Nat /\ x \in Nat
    OBVIOUS
  <2> QED BY <2>1, <2>2
<1> QED BY <1>4

\* The recursive equation of KeptUpTo.
KeepsStep(s, S, f, i) ==
  f[i] = IF i = 0 THEN <<>> ELSE IF s[i] \in S THEN Append(f[i - 1], s[i]) ELSE f[i - 1]

(* The recursion of Kept has a solution: there is no least length without. *)
LEMMA KeptDefined ==
  ASSUME NEW X, NEW s \in Seq(X), NEW S
  PROVE  \A i \in 0 .. Len(s) : KeepsStep(s, S, KeptUpTo(s, S), i)
<1> DEFINE F(n, f) == f = [i \in 0 .. n |->
                 IF i = 0 THEN <<>> ELSE IF s[i] \in S THEN Append(f[i - 1], s[i]) ELSE f[i - 1]]
           Missing == {n \in 0 .. Len(s) : ~ \E f : F(n, f)}
<1>1. Missing = {}
  <2> SUFFICES ASSUME Missing # {} PROVE FALSE
    OBVIOUS
  <2>1. PICK n \in Missing : \A k \in Missing : n <= k
    <3>1. Missing \in SUBSET Nat
      OBVIOUS
    <3> HIDE DEF Missing
    <3> QED BY <3>1, Least
  <2>2. n # 0
    <3>1. F(0, [i \in 0 .. 0 |-> <<>>])
      OBVIOUS
    <3> QED BY <2>1, <3>1
  <2>3. PICK f : F(n - 1, f)
    <3>1. n - 1 \in 0 .. Len(s) /\ ~ (n <= n - 1)
      BY <2>1, <2>2
    <3>2. n - 1 \notin Missing
      <4> HIDE DEF Missing
      <4> QED BY <2>1, <3>1
    <3> HIDE DEF F
    <3> QED BY <3>1, <3>2
  <2> DEFINE v == IF s[n] \in S THEN Append(f[n - 1], s[n]) ELSE f[n - 1]
             g == [i \in 0 .. n |-> IF i = n THEN v ELSE f[i]]
  <2>4. ASSUME NEW i \in 0 .. n PROVE g[i] = IF i = 0 THEN <<>> ELSE IF s[i] \in S THEN Append(g[i - 1], s[i]) ELSE g[i - 1]
    <3>0. n \in 1 .. Len(s)
      BY <2>1, <2>2
    <3>1. CASE i = n
      <4>1. g[n - 1] = f[n - 1]
        BY <3>0
      <4>2. g[n] = v
        BY <3>0
      <4> HIDE DEF g
      <4> QED BY <3>0, <3>1, <4>1, <4>2
    <3>2. CASE i # n
      <4>1. i \in 0 .. n - 1
        BY <3>0, <3>2, <2>4
      <4>2. f[i] = IF i = 0 THEN <<>> ELSE IF s[i] \in S THEN Append(f[i - 1], s[i]) ELSE f[i - 1]
        BY <2>3, <4>1
      <4>3. g[i] = f[i] /\ (i # 0 => g[i - 1] = f[i - 1])
        <5> HIDE DEF v
        <5> QED BY <3>0, <4>1
      <4> HIDE DEF g
      <4> QED BY <4>1, <4>2, <4>3
    <3> QED BY <3>1, <3>2
  <2>5. F(n, g)
    <3> HIDE DEF v
    <3>1. g = [i \in 0 .. n |-> g[i]]
      OBVIOUS
    <3> HIDE DEF g
    <3> QED BY <2>4, <3>1
  <2> QED BY <2>1, <2>5
<1>2. PICK f : F(Len(s), f)
  <2>1. Len(s) \in 0 .. Len(s)
    OBVIOUS
  <2> QED BY <1>1, <2>1
<1>3. F(Len(s), KeptUpTo(s, S))
  BY <1>2 DEF KeptUpTo
<1> QED BY <1>3 DEF KeepsStep

(* FutexWaitList::AddNode, and the loop of NotifyAsyncWaiter, append.      *)
LEMMA AppendNodes ==
  ASSUME NEW X, NEW s \in Seq(X), NEW x \in X
  PROVE  /\ Append(s, x) \in Seq(X)
         /\ Nodes(Append(s, x)) = Nodes(s) \cup {x}
         /\ Once(s) /\ x \notin Nodes(s) => Once(Append(s, x))
<1> DEFINE a == Append(s, x)
<1>1. a \in Seq(X) /\ Len(a) = Len(s) + 1 /\ Len(s) \in Nat
      /\ a[Len(a)] = x /\ \A i \in 1 .. Len(s) : a[i] = s[i]
  OBVIOUS
<1> HIDE DEF a
<1>2. \A i \in 1 .. Len(a) : i \in 1 .. Len(s) \/ i = Len(a)
  BY <1>1
<1>3. 1 .. Len(s) \subseteq 1 .. Len(a) /\ Len(a) \in 1 .. Len(a)
  BY <1>1
<1>4. Nodes(a) = Nodes(s) \cup {x}
  <2>1. ASSUME NEW y \in Nodes(a) PROVE y \in Nodes(s) \cup {x}
    BY <1>1, <1>2 DEF Nodes
  <2>2. ASSUME NEW y \in Nodes(s) \cup {x} PROVE y \in Nodes(a)
    <3>1. CASE y = x
      BY <1>1, <1>3, <3>1 DEF Nodes
    <3>2. CASE y \in Nodes(s)
      <4>1. PICK i \in 1 .. Len(s) : y = s[i]
        BY <3>2 DEF Nodes
      <4> QED BY <1>1, <1>3, <4>1 DEF Nodes
    <3> QED BY <3>1, <3>2
  <2> QED BY <2>1, <2>2
<1>5. ASSUME Once(s), x \notin Nodes(s) PROVE Once(a)
  <2>1. \A i \in 1 .. Len(s) : s[i] # x
    BY <1>5 DEF Nodes
  <2> QED BY <1>1, <1>2, <1>5, <2>1 DEF Once
<1> QED BY <1>1, <1>4, <1>5 DEF a

(* What KeptUpTo has kept are the nodes up to there that are in the set,   *)
(* and no node comes to be there twice.                                    *)
LEMMA KeptUpToNodes ==
  ASSUME NEW X, NEW s \in Seq(X), NEW S
  PROVE  \A i \in 0 .. Len(s) :
           /\ KeptUpTo(s, S)[i] \in Seq(X)
           /\ Nodes(KeptUpTo(s, S)[i]) = {s[j] : j \in 1 .. i} \cap S
           /\ Once(s) => Once(KeptUpTo(s, S)[i])
<1> DEFINE f == KeptUpTo(s, S)
           G(i) == /\ f[i] \in Seq(X)
                   /\ Nodes(f[i]) = {s[j] : j \in 1 .. i} \cap S
                   /\ Once(s) => Once(f[i])
           Bad == {i \in 0 .. Len(s) : ~ G(i)}
<1>1. Bad = {}
  <2> SUFFICES ASSUME Bad # {} PROVE FALSE
    OBVIOUS
  <2>1. PICK n \in Bad : \A k \in Bad : n <= k
    <3>1. Bad \in SUBSET Nat
      OBVIOUS
    <3> HIDE DEF Bad
    <3> QED BY <3>1, Least
  <2>2. KeepsStep(s, S, f, n)
    BY <2>1, KeptDefined
  <2> HIDE DEF f
  <2>3. n # 0
    <3>1. ASSUME n = 0 PROVE G(0)
      <4>1. f[0] = <<>>
        BY <2>2, <3>1 DEF KeepsStep
      <4> QED BY <4>1 DEF Nodes, Once
    <3> QED BY <2>1, <3>1
  <2>4. n - 1 \in 0 .. Len(s) /\ n \in 1 .. Len(s)
    BY <2>1, <2>3
  <2>5. G(n - 1)
    <3>1. ~ (n <= n - 1)
      BY <2>4
    <3>2. n - 1 \notin Bad
      <4> HIDE DEF Bad
      <4> QED BY <2>1, <3>1
    <3> HIDE DEF G
    <3> QED BY <2>4, <3>2
  <2>6. {s[j] : j \in 1 .. n} = {s[j] : j \in 1 .. n - 1} \cup {s[n]} /\ s[n] \in X
    BY <2>4
  <2>7. Once(s) => s[n] \notin {s[j] : j \in 1 .. n - 1}
    BY <2>4 DEF Once
  <2>8. G(n)
    <3>1. CASE s[n] \in S
      <4>1. f[n] = Append(f[n - 1], s[n])
        BY <2>2, <2>3, <3>1 DEF KeepsStep
      <4>2. /\ f[n] \in Seq(X)
            /\ Nodes(f[n]) = Nodes(f[n - 1]) \cup {s[n]}
            /\ Once(f[n - 1]) /\ s[n] \notin Nodes(f[n - 1]) => Once(f[n])
        BY <2>5, <2>6, <4>1, AppendNodes
      <4> QED BY <2>5, <2>6, <2>7, <3>1, <4>2
    <3>2. CASE s[n] \notin S
      <4>1. f[n] = f[n - 1]
        BY <2>2, <2>3, <3>2 DEF KeepsStep
      <4> QED BY <2>5, <2>6, <3>2, <4>1
    <3> QED BY <3>1, <3>2
  <2> QED BY <2>1, <2>8
<1>2. \A i \in 0 .. Len(s) : G(i)
  <2> HIDE DEF G
  <2> QED BY <1>1
<1> QED BY <1>2

(* What Kept keeps are the nodes of the list that are in the set, and no   *)
(* node comes to be there twice.                                           *)
LEMMA KeptNodes ==
  ASSUME NEW X, NEW s \in Seq(X), NEW S
  PROVE  /\ Kept(s, S) \in Seq(X)
         /\ Nodes(Kept(s, S)) = Nodes(s) \cap S
         /\ Once(s) => Once(Kept(s, S))
<1>1. Len(s) \in 0 .. Len(s)
  OBVIOUS
<1> QED BY <1>1, KeptUpToNodes DEF Kept, Nodes

(* A list put behind another one has the nodes of both.                    *)
LEMMA ConcatNodes ==
  ASSUME NEW X, NEW s \in Seq(X), NEW r \in Seq(X)
  PROVE  /\ s \o r \in Seq(X)
         /\ Nodes(s \o r) = Nodes(s) \cup Nodes(r)
         /\ Once(s) /\ Once(r) /\ Nodes(s) \cap Nodes(r) = {} => Once(s \o r)
<1> DEFINE a == s \o r
<1>1. /\ a \in Seq(X) /\ Len(a) = Len(s) + Len(r) /\ Len(s) \in Nat /\ Len(r) \in Nat
      /\ \A i \in 1 .. Len(s) : a[i] = s[i]
      /\ \A i \in 1 .. Len(r) : a[i + Len(s)] = r[i]
  OBVIOUS
<1> HIDE DEF a
<1>2. ASSUME NEW i \in 1 .. Len(a), i \notin 1 .. Len(s)
      PROVE  i - Len(s) \in 1 .. Len(r) /\ a[i] = r[i - Len(s)]
  <2>1. i - Len(s) \in 1 .. Len(r) /\ i = (i - Len(s)) + Len(s)
    BY <1>1, <1>2
  <2> QED BY <1>1, <2>1
<1>3. Nodes(a) = Nodes(s) \cup Nodes(r)
  <2>1. ASSUME NEW y \in Nodes(a) PROVE y \in Nodes(s) \cup Nodes(r)
    <3>1. PICK i \in 1 .. Len(a) : y = a[i]
      BY DEF Nodes
    <3> QED BY <1>1, <1>2, <3>1 DEF Nodes
  <2>2. Nodes(s) \subseteq Nodes(a)
    BY <1>1 DEF Nodes
  <2>3. ASSUME NEW y \in Nodes(r) PROVE y \in Nodes(a)
    <3>1. PICK i \in 1 .. Len(r) : y = r[i]
      BY DEF Nodes
    <3>2. i + Len(s) \in 1 .. Len(a)
      BY <1>1
    <3> QED BY <1>1, <3>1, <3>2 DEF Nodes
  <2> QED BY <2>1, <2>2, <2>3
<1>4. ASSUME Once(s), Once(r), Nodes(s) \cap Nodes(r) = {} PROVE Once(a)
  <2>1. ASSUME NEW i \in 1 .. Len(a), NEW j \in 1 .. Len(a), a[i] = a[j] PROVE i = j
    <3>1. CASE i \in 1 .. Len(s) /\ j \in 1 .. Len(s)
      BY <1>1, <1>4, <2>1, <3>1 DEF Once
    <3>2. CASE i \notin 1 .. Len(s) /\ j \notin 1 .. Len(s)
      <4>1. i - Len(s) = j - Len(s)
        BY <1>2, <1>4, <2>1, <3>2 DEF Once
      <4> QED BY <1>1, <4>1
    <3>3. CASE (i \in 1 .. Len(s)) # (j \in 1 .. Len(s))
      <4>1. \A k \in 1 .. Len(a) : k \in 1 .. Len(s) => a[k] \in Nodes(s)
        BY <1>1 DEF Nodes
      <4>2. \A k \in 1 .. Len(a) : k \notin 1 .. Len(s) => a[k] \in Nodes(r)
        BY <1>2 DEF Nodes
      <4> QED BY <1>4, <2>1, <3>3, <4>1, <4>2
    <3> QED BY <3>1, <3>2, <3>3
  <2> QED BY <2>1 DEF Once
<1> QED BY <1>1, <1>3, <1>4 DEF a

(* The first node is not in the rest.                                      *)
LEMMA HeadTailNodes ==
  ASSUME NEW X, NEW s \in Seq(X), s # <<>>, Once(s)
  PROVE  /\ Head(s) \in X /\ Tail(s) \in Seq(X)
         /\ Head(s) \in Nodes(s) /\ Nodes(Tail(s)) = Nodes(s) \ {Head(s)}
         /\ Once(Tail(s))
<1> DEFINE r == Tail(s)
<1>1. /\ Head(s) = s[1] /\ Head(s) \in X /\ r \in Seq(X) /\ Len(s) \in Nat \ {0}
      /\ Len(r) = Len(s) - 1
      /\ \A i \in 1 .. Len(r) : i + 1 \in 1 .. Len(s) /\ r[i] = s[i + 1]
  OBVIOUS
<1> HIDE DEF r
<1>2. Head(s) \in Nodes(s)
  BY <1>1 DEF Nodes
<1>3. ASSUME NEW y \in Nodes(r) PROVE y \in Nodes(s) /\ y # Head(s)
  <2>1. PICK i \in 1 .. Len(r) : y = r[i]
    BY DEF Nodes
  <2>2. i + 1 \in 1 .. Len(s) /\ i + 1 # 1 /\ 1 \in 1 .. Len(s) /\ y = s[i + 1]
    BY <1>1, <2>1
  <2> QED BY <1>1, <2>2 DEF Nodes, Once
<1>4. ASSUME NEW y \in Nodes(s), y # Head(s) PROVE y \in Nodes(r)
  <2>1. PICK i \in 1 .. Len(s) : y = s[i]
    BY DEF Nodes
  <2>2. i - 1 \in 1 .. Len(r) /\ (i - 1) + 1 = i
    BY <1>1, <1>4, <2>1
  <2>3. r[i - 1] = y
    BY <1>1, <2>1, <2>2
  <2> QED BY <2>2, <2>3 DEF Nodes
<1>5. Once(r)
  <2>1. ASSUME NEW i \in 1 .. Len(r), NEW j \in 1 .. Len(r), r[i] = r[j] PROVE i = j
    <3>1. i + 1 = j + 1
      BY <1>1, <2>1 DEF Once
    <3> QED BY <3>1
  <2> QED BY <2>1 DEF Once
<1> QED BY <1>1, <1>2, <1>3, <1>4, <1>5 DEF r

(* A list is empty when it has no nodes.                                   *)
LEMMA NoNodes ==
  ASSUME NEW X, NEW s \in Seq(X)
  PROVE  /\ s = <<>> <=> Nodes(s) = {}
         /\ Nodes(s) \subseteq X
<1>1. ASSUME s # <<>> PROVE s[1] \in Nodes(s)
  <2>1. 1 \in 1 .. Len(s)
    BY <1>1
  <2> QED BY <2>1 DEF Nodes
<1>2. s = <<>> => Nodes(s) = {}
  BY DEF Nodes
<1>3. Nodes(s) \subseteq X
  BY DEF Nodes
<1> QED BY <1>1, <1>2, <1>3

(* The empty list.                                                         *)
LEMMA EmptyNodes == Nodes(<<>>) = {} /\ Once(<<>>) /\ \A X : <<>> \in Seq(X)
BY DEF Nodes, Once

(* Without takes the nodes of the set out.                                 *)
LEMMA WithoutNodes ==
  ASSUME NEW X, NEW s \in Seq(X), NEW S
  PROVE  /\ Without(s, S) \in Seq(X)
         /\ Nodes(Without(s, S)) = Nodes(s) \ S
         /\ Once(s) => Once(Without(s, S))
BY KeptNodes DEF Without

-----------------------------------------------------------------------------
(* The parts of the state.                                                 *)

(* VClock::Join is an upper bound of both clocks.                          *)
LEMMA JoinBounds ==
  ASSUME NEW c \in VClock, NEW d \in VClock
  PROVE  /\ Join(c, d) \in VClock
         /\ \A u \in Tid : c[u] <= Join(c, d)[u] /\ d[u] <= Join(c, d)[u]
         /\ \A u \in Tid : c[u] \in Nat /\ d[u] \in Nat /\ Join(c, d)[u] \in Nat
BY DEF VClock, Join

(* Threads and asynchronous nodes are told apart by their names.           *)
LEMMA Nobody ==
  /\ Tid \cap AsyncNode = {} /\ Tid \subseteq Node /\ AsyncNode \subseteq Node
  /\ Node = Tid \cup AsyncNode
BY FutexAssumption DEF Node

(* The parts of the places of a thread.                                    *)
LEMMA Places ==
  /\ IdlePc[1] = "idle" /\ <<"resolving">>[1] = "resolving"
  /\ \A l : /\ <<"asleep", l>>[1] = "asleep" /\ <<"asleep", l>>[2] = l
            /\ <<"interrupts", l>>[1] = "interrupts" /\ <<"interrupts", l>>[2] = l
  /\ \A l, c, e : /\ <<"notify", l, c, e>>[1] = "notify" /\ <<"notify", l, c, e>>[2] = l
                  /\ <<"notify", l, c, e>>[3] = c /\ <<"notify", l, c, e>>[4] = e
BY DEF IdlePc

(* Who is at which place.                                                  *)
LEMMA WhoWaits ==
  ASSUME IInv, NEW t \in Tid
  PROVE  /\ Waits(t) => /\ At(t) \in Location
                        /\ pc[t] = <<"asleep", At(t)>> \/ pc[t] = <<"interrupts", At(t)>>
                        /\ todo[t] = <<>>
         /\ ~ Waits(t) => /\ t \notin waiting /\ woken_by[t] = NotCounted
                          /\ \A l \in Location : t \notin Nodes(location_lists[l])
         /\ Idle(t) => pc[t] = IdlePc /\ ~ Waits(t) /\ todo[t] = <<>>
<1>0. t \notin live /\ t \in Node
  BY Nobody DEF IInv, TypeOK
<1>1. ASSUME Waits(t)
      PROVE  /\ At(t) \in Location
             /\ pc[t] = <<"asleep", At(t)>> \/ pc[t] = <<"interrupts", At(t)>>
             /\ todo[t] = <<>>
  <2>1. PICK l \in Location : pc[t] = <<"asleep", l>> \/ pc[t] = <<"interrupts", l>>
    BY <1>1, Places DEF Waits, IInv, PlaceInv
  <2>2. At(t) = l
    BY <2>1, Places DEF At
  <2>3. pc[t][1] # "resolving"
    BY <1>1 DEF Waits
  <2> QED BY <2>1, <2>2, <2>3 DEF IInv, PlaceInv
<1>2. ASSUME ~ Waits(t)
      PROVE  /\ t \notin waiting /\ woken_by[t] = NotCounted
             /\ \A l \in Location : t \notin Nodes(location_lists[l])
  BY <1>0, <1>2 DEF IInv, ListInv, CountInv
<1>3. ASSUME Idle(t) PROVE pc[t] = IdlePc /\ ~ Waits(t) /\ todo[t] = <<>>
  <2>1. pc[t] = IdlePc /\ pc[t][1] = "idle"
    BY <1>3, Places DEF Idle
  <2> QED BY <2>1 DEF Waits, IInv, PlaceInv
<1> QED BY <1>1, <1>2, <1>3

(* An asynchronous node that is not allocated is nowhere.                  *)
LEMMA NotAllocated ==
  ASSUME IInv, NEW n \in AsyncNode \ live
  PROVE  /\ n \notin waiting /\ woken_by[n] = NotCounted /\ n \notin cleanup
         /\ n \notin timeout_tasks /\ n \notin timeout_time /\ n \notin Tid /\ n \in Node
         /\ \A l \in Location : n \notin Nodes(location_lists[l])
         /\ \A t \in Tid : n \notin Nodes(to_resolve[t]) /\ n \notin Nodes(todo[t])
BY Nobody DEF IInv, TypeOK, ListInv, QueueInv, TimeInv, CountInv

(* One that is has an isolate and a location.                              *)
LEMMA Allocated ==
  ASSUME IInv, NEW n \in live
  PROVE  /\ n \in AsyncNode /\ n \in Node /\ n \notin Tid
         /\ At(n) = async[n].location /\ At(n) \in Location
         /\ async[n].isolate \in Tid /\ async[n].store \in Nat
<1>1. n \in AsyncNode /\ n \in Node /\ n \notin Tid
  BY Nobody DEF IInv, TypeOK
<1>2. async[n] \in [isolate : Tid, location : Location, store : Nat]
  BY DEF IInv, TypeOK
<1> QED BY <1>1, <1>2 DEF At

(* What is to be resolved is on no list of a location.                     *)
LEMMA Queues ==
  ASSUME IInv, NEW t \in Tid, NEW n \in Nodes(to_resolve[t]) \cup Nodes(todo[t])
  PROVE  /\ n \in live /\ n \notin waiting /\ async[n].isolate = t /\ n \notin timeout_time
         /\ \A l \in Location : n \notin Nodes(location_lists[l])
         /\ \A u \in Tid \ {t} : n \notin Nodes(to_resolve[u]) /\ n \notin Nodes(todo[u])
<1>1. n \in live /\ n \notin waiting /\ async[n].isolate = t
  BY DEF IInv, QueueInv
<1>2. n \notin Tid
  BY <1>1, Allocated
<1> QED BY <1>1, <1>2 DEF IInv, QueueInv, ListInv, TimeInv

(* A step in which no wait ends says nothing of one.                       *)
LEMMA NothingEndsWell ==
  ASSUME NothingEnds
  PROVE  CountedIsWoken' /\ WokenIsOrdered'
<1>1. ended'.result = "none"
  BY DEF NothingEnds, NothingEnded
<1> QED BY <1>1 DEF CountedIsWoken, WokenIsOrdered

(* The clocks after the hook OnAtomicsWaitComplete.                        *)
LEMMA WaitCompleteJoins ==
  ASSUME IInv, NEW t \in Tid, NEW l \in Location, WaitComplete(t, l)
  PROVE  /\ thread_clocks' \in [Tid -> VClock] /\ sync_clocks' = sync_clocks
         /\ \A u \in Tid : sync_clocks[l][u] <= thread_clocks'[t][u]
<1>1. /\ thread_clocks \in [Tid -> VClock] /\ sync_clocks \in [Location -> VClock]
      /\ thread_clocks' = [thread_clocks EXCEPT ![t] = Join(@, sync_clocks[l])]
      /\ sync_clocks' = sync_clocks
  BY DEF IInv, TypeOK, WaitComplete
<1>2. thread_clocks[t] \in VClock /\ sync_clocks[l] \in VClock
  BY <1>1
<1>3. thread_clocks'[t] = Join(thread_clocks[t], sync_clocks[l])
  BY <1>1
<1>4. Join(thread_clocks[t], sync_clocks[l]) \in VClock
  BY <1>2, JoinBounds
<1> QED BY <1>1, <1>2, <1>3, <1>4, JoinBounds

(* The end of the wait of a node by a thread that has acquired the clock of*)
(* its location: "ok" only for a node that a notify has counted, and       *)
(* "timed-out" only for one that none has.                                 *)
LEMMA EndsWell ==
  ASSUME IInv, NEW n \in Node, NEW t \in Tid, NEW result, Ends(n, t, result),
         result \in {"timed-out", "not-equal"} => woken_by[n] = NotCounted,
         result = "ok" => /\ woken_by[n] # NotCounted
                          /\ \A u \in Tid : sync_clocks[At(n)][u] <= thread_clocks'[t][u],
         sync_clocks \in [Location -> VClock], thread_clocks' \in [Tid -> VClock],
         At(n) \in Location \/ result # "ok"
  PROVE  CountedIsWoken' /\ WokenIsOrdered'
<1>1. ended'.result = result /\ ended'.thread = t /\ ended'.by = woken_by[n]
  BY DEF Ends
<1>2. CountedIsWoken'
  BY <1>1 DEF CountedIsWoken
<1>3. ASSUME result = "ok" PROVE woken_by[n][2] <= thread_clocks'[t][woken_by[n][1]]
  <2>1. PICK u \in Tid : \E epoch \in 0 .. sync_clocks[At(n)][u] : woken_by[n] = <<u, epoch>>
    BY <1>3 DEF IInv, CountInv
  <2>2. PICK epoch \in 0 .. sync_clocks[At(n)][u] : woken_by[n] = <<u, epoch>>
    BY <2>1
  <2>3. sync_clocks[At(n)][u] \in Nat /\ thread_clocks'[t][u] \in Nat
    BY <1>3 DEF VClock
  <2>4. epoch <= sync_clocks[At(n)][u] /\ sync_clocks[At(n)][u] <= thread_clocks'[t][u]
    BY <1>3, <2>2, <2>3
  <2>5. epoch <= thread_clocks'[t][u]
    BY <2>2, <2>3, <2>4
  <2> QED BY <2>2, <2>5
<1> QED BY <1>1, <1>2, <1>3 DEF WokenIsOrdered

-----------------------------------------------------------------------------
(* Steps.                                                                  *)

(* What each part depends on.                                              *)
LEMMA Frame ==
  ASSUME IInv
  PROVE  /\ UNCHANGED <<pc, sync_clocks, todo>> => PlaceInv'
         /\ UNCHANGED <<location_lists, waiting, pc, async>> => ListInv'
         /\ UNCHANGED <<to_resolve, todo, resolve_tasks, waiting, async>> => QueueInv'
         /\ UNCHANGED <<timeout_tasks, timeout_time, waiting, async>> => TimeInv'
         /\ UNCHANGED <<woken_by, waiting, cleanup, pc, async, sync_clocks>> => CountInv'
<1>1. UNCHANGED <<pc, sync_clocks, todo>> => PlaceInv'
  BY DEF IInv, PlaceInv
<1>2. UNCHANGED <<location_lists, waiting, pc, async>> => ListInv'
  BY DEF IInv, ListInv, At, Waits, live
<1>3. UNCHANGED <<to_resolve, todo, resolve_tasks, waiting, async>> => QueueInv'
  BY DEF IInv, QueueInv, live
<1>4. UNCHANGED <<timeout_tasks, timeout_time, waiting, async>> => TimeInv'
  BY DEF IInv, TimeInv, live
<1>5. UNCHANGED <<woken_by, waiting, cleanup, pc, async, sync_clocks>> => CountInv'
  BY DEF IInv, CountInv, At, Waits, live
<1> QED BY <1>1, <1>2, <1>3, <1>4, <1>5

(* A thread goes to another place.                                         *)
LEMMA Moves ==
  ASSUME IInv, NEW t \in Tid, NEW p,
         \/ p = IdlePc
         \/ p = <<"resolving">>
         \/ \E l \in Location : p = <<"asleep", l>> \/ p = <<"interrupts", l>>
         \/ \E l \in Location, count \in {1, Cardinality(Node)} :
              \E epoch \in 0 .. sync_clocks'[l][t] : p = <<"notify", l, count, epoch>>,
         pc' = [pc EXCEPT ![t] = p],
         \A l \in Location, u \in Tid :
           sync_clocks[l][u] \in Nat /\ sync_clocks'[l][u] \in Nat
           /\ sync_clocks[l][u] <= sync_clocks'[l][u],
         \A u \in Tid : u # t => todo'[u] = todo[u],
         (p[1] = "resolving") = (todo'[t] # <<>>)
  PROVE  /\ PlaceInv'
         /\ pc'[t] = p /\ \A u \in Tid \ {t} : pc'[u] = pc[u]
         /\ pc'[t][1] \in {"idle", "asleep", "interrupts", "resolving", "notify"}
<1>1. pc = [u \in Tid |-> pc[u]]
  BY DEF IInv, PlaceInv
<1>2. /\ pc'[t] = p /\ \A u \in Tid \ {t} : pc'[u] = pc[u]
      /\ pc' = [u \in Tid |-> pc'[u]]
  BY <1>1
<1>3. ASSUME NEW u \in Tid
      PROVE  /\ \/ pc'[u] = IdlePc
                \/ pc'[u] = <<"resolving">>
                \/ \E l \in Location : pc'[u] = <<"asleep", l>> \/ pc'[u] = <<"interrupts", l>>
                \/ \E l \in Location, count \in {1, Cardinality(Node)} :
                     \E epoch \in 0 .. sync_clocks'[l][u] :
                       pc'[u] = <<"notify", l, count, epoch>>
             /\ (pc'[u][1] = "resolving") = (todo'[u] # <<>>)
  <2>1. CASE u = t
    BY <1>2, <2>1
  <2>2. CASE u # t
    <3>1. /\ pc'[u] = pc[u] /\ todo'[u] = todo[u]
          /\ (pc[u][1] = "resolving") = (todo[u] # <<>>)
      BY <1>2, <2>2 DEF IInv, PlaceInv
    <3>2. ASSUME NEW l \in Location, NEW count \in {1, Cardinality(Node)},
                 NEW epoch \in 0 .. sync_clocks[l][u], pc[u] = <<"notify", l, count, epoch>>
          PROVE  epoch \in 0 .. sync_clocks'[l][u]
      OBVIOUS
    <3>3. \/ pc[u] = IdlePc
          \/ pc[u] = <<"resolving">>
          \/ \E l \in Location : pc[u] = <<"asleep", l>> \/ pc[u] = <<"interrupts", l>>
          \/ \E l \in Location, count \in {1, Cardinality(Node)} :
               \E epoch \in 0 .. sync_clocks'[l][u] : pc[u] = <<"notify", l, count, epoch>>
      BY <3>2 DEF IInv, PlaceInv
    <3> QED BY <3>1, <3>3
  <2> QED BY <2>1, <2>2
<1>4. PlaceInv'
  BY <1>2, <1>3 DEF PlaceInv
<1>5. p[1] \in {"idle", "asleep", "interrupts", "resolving", "notify"}
  BY Places
<1> QED BY <1>2, <1>4, <1>5

(* A wait whose value differs is no wait at all.                           *)
LEMMA WaitNotEqualStep ==
  ASSUME IInv, NEW t \in Tid, NEW l \in Location, WaitNotEqual(t, l)
  PROVE  IInv'
<1>1. /\ Idle(t) /\ WaitComplete(t, l) /\ Ends(t, t, "not-equal")
      /\ UNCHANGED <<gen, location_lists, to_resolve, waiting, timeout_time, async, cleanup,
                     timeout_tasks, resolve_tasks, todo, interrupted, signalled, interrupts,
                     pc, deinit>>
  BY DEF WaitNotEqual, asyncVars, taskVars, signalVars
<1>2. woken_by[t] = NotCounted /\ t \in Node
  BY <1>1, WhoWaits, Nobody
<1>3. woken_by' = woken_by
  <2>1. woken_by = [n \in Node |-> woken_by[n]]
    BY DEF IInv, CountInv
  <2> QED BY <1>1, <1>2, <2>1 DEF Ends
<1>4. /\ thread_clocks' \in [Tid -> VClock] /\ sync_clocks' = sync_clocks
      /\ sync_clocks \in [Location -> VClock]
  BY <1>1, WaitCompleteJoins DEF IInv, TypeOK
<1>5. TypeOK'
  BY <1>1, <1>4 DEF IInv, TypeOK, live
<1>6. PlaceInv' /\ ListInv' /\ QueueInv' /\ TimeInv' /\ CountInv'
  BY <1>1, <1>3, <1>4, Frame
<1>7. CountedIsWoken' /\ WokenIsOrdered'
  <2>1. "not-equal" # "ok"
    OBVIOUS
  <2> QED BY <1>1, <1>2, <1>4, <2>1, EndsWell
<1> QED BY <1>5, <1>6, <1>7 DEF IInv

(* Interrupts that are requested, and stores that follow each other.       *)
LEMMA OtherStep ==
  ASSUME IInv,
         (\E t \in Tid : NotifyWake(t)) \/ (\E l \in Location : Reallocate(l))
  PROVE  IInv'
<1>1. /\ NothingEnds
      /\ UNCHANGED <<location_lists, to_resolve, waiting, timeout_time, woken_by, async, cleanup,
                     timeout_tasks, resolve_tasks, todo, pc, deinit, thread_clocks, sync_clocks>>
  BY DEF NotifyWake, Reallocate, listVars, asyncVars, taskVars, signalVars, clockVars
<1>2. /\ gen' \in [Location -> 0 .. MaxGen] /\ interrupts' \in 0 .. MaxInterrupts
      /\ interrupted' \subseteq Tid /\ signalled' \subseteq Tid
  <2>1. ASSUME NEW t \in Tid, NotifyWake(t)
        PROVE  /\ gen' \in [Location -> 0 .. MaxGen] /\ interrupts' \in 0 .. MaxInterrupts
               /\ interrupted' \subseteq Tid /\ signalled' \subseteq Tid
    BY <2>1, FutexAssumption DEF NotifyWake, IInv, TypeOK
  <2>2. ASSUME NEW l \in Location, Reallocate(l)
        PROVE  /\ gen' \in [Location -> 0 .. MaxGen] /\ interrupts' \in 0 .. MaxInterrupts
               /\ interrupted' \subseteq Tid /\ signalled' \subseteq Tid
    BY <2>2, FutexAssumption DEF Reallocate, signalVars, IInv, TypeOK
  <2> QED BY <2>1, <2>2
<1>3. TypeOK'
  BY <1>1, <1>2 DEF IInv, TypeOK, live
<1> QED BY <1>1, <1>3, Frame, NothingEndsWell DEF IInv

(* A thread that waits goes to sleep, or handles its interrupts.           *)
LEMMA GotoStep ==
  ASSUME IInv, NEW t \in Tid, Waits(t), NEW place \in {"asleep", "interrupts"}, Goto(t, place),
         interrupted' \subseteq Tid, signalled' \subseteq Tid,
         UNCHANGED <<gen, to_resolve, async, cleanup, timeout_tasks, resolve_tasks, todo,
                     interrupts, deinit>>
  PROVE  IInv'
<1>1. /\ pc' = [pc EXCEPT ![t] = <<place, At(t)>>] /\ NothingEnds
      /\ UNCHANGED <<waiting, location_lists, timeout_time, woken_by, thread_clocks, sync_clocks>>
  BY DEF Goto, clockVars
<1>2. At(t) \in Location /\ todo[t] = <<>>
  BY WhoWaits
<1>3. \A m \in Location, u \in Tid :
        sync_clocks[m][u] \in Nat /\ sync_clocks'[m][u] \in Nat
        /\ sync_clocks[m][u] <= sync_clocks'[m][u]
  BY <1>1 DEF IInv, TypeOK, VClock
<1>4. /\ PlaceInv' /\ pc'[t] = <<place, At(t)>> /\ \A u \in Tid \ {t} : pc'[u] = pc[u]
      /\ pc'[t][1] \in {"idle", "asleep", "interrupts", "resolving", "notify"}
  BY <1>1, <1>2, <1>3, Moves
<1>5. /\ \A n : At(n)' = At(n)
      /\ \A u \in Tid : Waits(u)' = Waits(u)
  <2>1. pc'[t][1] = place /\ pc'[t][2] = pc[t][2] /\ pc[t][1] \in {"asleep", "interrupts"}
    BY <1>4 DEF At, Waits
  <2> QED BY <1>4, <2>1 DEF At, Waits
<1>6. TypeOK'
  <2>1. \A u \in Tid : pc'[u][1] \in {"idle", "asleep", "interrupts", "resolving", "notify"}
    BY <1>4 DEF IInv, TypeOK
  <2> QED BY <1>1, <2>1 DEF IInv, TypeOK, live
<1>7. ListInv'
  BY <1>1, <1>5 DEF IInv, ListInv, live
<1>8. CountInv'
  BY <1>1, <1>5 DEF IInv, CountInv, live
<1> QED BY <1>1, <1>4, <1>6, <1>7, <1>8, Frame, NothingEndsWell DEF IInv

(* A wait ends: the node leaves its list, and the thread acquires.         *)
LEMMA LeaveStep ==
  ASSUME IInv, NEW t \in Tid, Waits(t), NEW result \in {"ok", "timed-out", "exception"},
         Leave(t, result),
         result = "ok" => t \notin waiting,
         result = "timed-out" => t \in waiting,
         interrupted' \subseteq Tid, signalled' \subseteq Tid,
         UNCHANGED <<gen, to_resolve, async, cleanup, timeout_tasks, resolve_tasks, todo,
                     interrupts, deinit>>
  PROVE  IInv'
<1>l. PICK l \in Location : l = At(t)
  BY WhoWaits
<1>1. /\ waiting' = waiting \ {t}
      /\ location_lists' = [location_lists EXCEPT ![l] = Without(@, {t})]
      /\ timeout_time' = timeout_time \ {t}
      /\ pc' = [pc EXCEPT ![t] = IdlePc]
      /\ WaitComplete(t, l) /\ Ends(t, t, result)
  BY <1>l DEF Leave, RemoveNode
<1>2. /\ thread_clocks' \in [Tid -> VClock] /\ sync_clocks' = sync_clocks
      /\ sync_clocks \in [Location -> VClock]
      /\ \A u \in Tid : sync_clocks[l][u] <= thread_clocks'[t][u]
      /\ \A m \in Location, u \in Tid :
           sync_clocks[m][u] \in Nat /\ sync_clocks'[m][u] \in Nat
           /\ sync_clocks[m][u] <= sync_clocks'[m][u]
  <2>1. /\ thread_clocks' \in [Tid -> VClock] /\ sync_clocks' = sync_clocks
        /\ \A u \in Tid : sync_clocks[l][u] <= thread_clocks'[t][u]
    BY <1>1, WaitCompleteJoins
  <2> QED BY <2>1 DEF IInv, TypeOK, VClock
<1>3. /\ PlaceInv' /\ pc'[t] = IdlePc /\ \A u \in Tid \ {t} : pc'[u] = pc[u]
      /\ pc'[t][1] \in {"idle", "asleep", "interrupts", "resolving", "notify"}
  <2>1. todo[t] = <<>> /\ IdlePc[1] = "idle"
    BY WhoWaits, Places
  <2> QED BY <1>1, <1>2, <2>1, Moves
<1>4. /\ ~ Waits(t)' /\ \A u \in Tid \ {t} : Waits(u)' = Waits(u)
      /\ \A n : n # t => At(n)' = At(n)
      /\ live' = live /\ t \notin live /\ t \in Node /\ live \subseteq Node
  BY <1>3, Places, Nobody DEF Waits, At, live, IInv, TypeOK
<1>5. \A m \in Location :
        /\ location_lists'[m] \in Seq(Node) /\ Once(location_lists'[m])
        /\ Nodes(location_lists'[m]) = Nodes(location_lists[m]) \ {t}
  <2> SUFFICES ASSUME NEW m \in Location
               PROVE  /\ location_lists'[m] \in Seq(Node) /\ Once(location_lists'[m])
                      /\ Nodes(location_lists'[m]) = Nodes(location_lists[m]) \ {t}
    OBVIOUS
  <2>0. location_lists[m] \in Seq(Node) /\ Once(location_lists[m])
        /\ location_lists \in [Location -> Seq(Node)]
    BY DEF IInv, TypeOK, ListInv
  <2>1. CASE m = l
    BY <1>1, <2>0, <2>1, WithoutNodes
  <2>2. CASE m # l
    BY <1>1, <1>l, <2>0, <2>2 DEF IInv, ListInv
  <2> QED BY <2>1, <2>2
<1>6. TypeOK'
  <2>1. location_lists' \in [Location -> Seq(Node)]
    BY <1>1, <1>5 DEF IInv, TypeOK
  <2>2. \A u \in Tid : pc'[u][1] \in {"idle", "asleep", "interrupts", "resolving", "notify"}
    BY <1>3 DEF IInv, TypeOK
  <2> QED BY <1>1, <1>2, <1>4, <2>1, <2>2 DEF IInv, TypeOK
<1>7. ListInv'
  <2>1. \A n \in waiting' : n # t /\ n \in waiting
    BY <1>1
  <2>2. ASSUME NEW m \in Location, NEW n \in Nodes(location_lists'[m])
        PROVE  At(n)' = m /\ ((n \in Tid /\ Waits(n)') \/ n \in live' \cap waiting')
    <3>1. n \in Nodes(location_lists[m]) /\ n # t
      BY <1>5, <2>2
    <3>2. At(n) = m /\ ((n \in Tid /\ Waits(n)) \/ n \in live \cap waiting)
      BY <3>1 DEF IInv, ListInv
    <3>3. At(n)' = At(n) /\ (n \in Tid => Waits(n)' = Waits(n))
      BY <1>4, <3>1
    <3> QED BY <1>1, <1>4, <3>1, <3>2, <3>3
  <2>3. ASSUME NEW n \in waiting'
        PROVE  /\ (n \in Tid /\ Waits(n)') \/ n \in live'
               /\ n \in Nodes(location_lists'[At(n)'])
    <3>1. /\ (n \in Tid /\ Waits(n)) \/ n \in live
          /\ n \in Nodes(location_lists[At(n)]) /\ n # t
      BY <2>1 DEF IInv, ListInv
    <3>2. At(n) \in Location
      BY <3>1, WhoWaits, Allocated
    <3> QED BY <1>4, <1>5, <3>1, <3>2
  <2> QED BY <1>5, <2>2, <2>3 DEF ListInv
<1>8. QueueInv' /\ TimeInv'
  BY <1>1, <1>4, Allocated DEF IInv, QueueInv, TimeInv, TypeOK
<1>9. CountInv'
  <2>1. /\ woken_by' = [n \in Node |-> woken_by'[n]] /\ woken_by'[t] = NotCounted
        /\ \A n \in Node : n # t => woken_by'[n] = woken_by[n]
    <3>1. woken_by = [n \in Node |-> woken_by[n]]
      BY DEF IInv, CountInv
    <3> QED BY <1>1, <1>4, <3>1 DEF Ends
  <2>2. ASSUME NEW n \in Node, woken_by'[n] # NotCounted
        PROVE  /\ n \notin waiting' /\ n \notin cleanup'
               /\ (n \in Tid /\ Waits(n)') \/ n \in live'
               /\ \E u \in Tid : \E epoch \in 0 .. sync_clocks'[At(n)'][u] :
                    woken_by'[n] = <<u, epoch>>
    <3>1. n # t /\ woken_by[n] # NotCounted /\ woken_by'[n] = woken_by[n]
      BY <2>1, <2>2
    <3>2. /\ n \notin waiting /\ n \notin cleanup
          /\ (n \in Tid /\ Waits(n)) \/ n \in live
          /\ \E u \in Tid : \E epoch \in 0 .. sync_clocks[At(n)][u] :
               woken_by[n] = <<u, epoch>>
      BY <3>1 DEF IInv, CountInv
    <3>3. At(n)' = At(n) /\ (n \in Tid => Waits(n)' = Waits(n))
      BY <1>4, <3>1
    <3> QED BY <1>1, <1>2, <1>4, <3>1, <3>2, <3>3
  <2>3. ASSUME NEW u \in Tid, Waits(u)', u \notin waiting' PROVE woken_by'[u] # NotCounted
    <3>1. u # t /\ Waits(u) /\ u \notin waiting /\ u \in Node
      BY <1>1, <1>4, <2>3, Nobody
    <3> QED BY <2>1, <3>1 DEF IInv, CountInv
  <2>4. ASSUME NEW n \in live \ waiting', n \notin cleanup PROVE woken_by'[n] # NotCounted
    BY <1>1, <1>4, <2>1, <2>4 DEF IInv, CountInv
  <2> QED BY <1>4, <2>1, <2>2, <2>3, <2>4 DEF CountInv
<1>10. CountedIsWoken' /\ WokenIsOrdered'
  <2>1. result = "timed-out" => woken_by[t] = NotCounted
    BY <1>4 DEF IInv, CountInv
  <2>2. result = "ok" => woken_by[t] # NotCounted
    BY DEF IInv, CountInv
  <2>3. result # "not-equal"
    OBVIOUS
  <2> QED BY <1>l, <1>1, <1>2, <1>4, <2>1, <2>2, <2>3, EndsWell
<1> QED BY <1>3, <1>6, <1>7, <1>8, <1>9, <1>10 DEF IInv

(* The loop of WaitSyncImpl.                                               *)
LEMMA WaitLoopStep ==
  ASSUME IInv, NEW t \in Tid, WakeUp(t) \/ InterruptsHandled(t) \/ InterruptThrows(t)
  PROVE  IInv'
<1>1. Waits(t)
  BY DEF WakeUp, InterruptsHandled, InterruptThrows, Waits
<1>2. ASSUME Loop(t), signalled' \subseteq Tid,
             UNCHANGED <<gen, to_resolve, async, cleanup, timeout_tasks, resolve_tasks, todo,
                         interrupts, deinit>>
      PROVE  IInv'
  <2>1. interrupted' \subseteq Tid
    BY <1>2 DEF Loop, Interrupted, IInv, TypeOK
  <2>2. ASSUME NEW place \in {"asleep", "interrupts"}, Goto(t, place) PROVE IInv'
    BY <1>1, <1>2, <2>1, <2>2, GotoStep
  <2>3. ASSUME Leave(t, "ok"), t \notin waiting PROVE IInv'
    BY <1>1, <1>2, <2>1, <2>3, LeaveStep
  <2>4. ASSUME Leave(t, "timed-out"), t \in waiting PROVE IInv'
    BY <1>1, <1>2, <2>1, <2>4, LeaveStep
  <2> QED BY <1>2, <2>2, <2>3, <2>4 DEF Loop, Interrupted
<1>3. CASE WakeUp(t)
  BY <1>2, <1>3 DEF WakeUp, asyncVars, taskVars, IInv, TypeOK
<1>4. CASE InterruptsHandled(t)
  BY <1>2, <1>4 DEF InterruptsHandled, asyncVars, taskVars, IInv, TypeOK
<1>5. CASE InterruptThrows(t)
  <2>1. /\ Leave(t, "exception") /\ interrupted' \subseteq Tid /\ signalled' \subseteq Tid
        /\ UNCHANGED <<gen, to_resolve, async, cleanup, timeout_tasks, resolve_tasks, todo,
                       interrupts, deinit>>
    BY <1>5 DEF InterruptThrows, asyncVars, taskVars, signalVars, IInv, TypeOK
  <2> QED BY <1>1, <2>1, LeaveStep
<1> QED BY <1>3, <1>4, <1>5

(* A thread waits: its node goes to the end of the list of its location.   *)
LEMMA WaitSyncStep ==
  ASSUME IInv, NEW t \in Tid, NEW l \in Location, NEW use_timeout \in BOOLEAN,
         WaitSync(t, l, use_timeout)
  PROVE  IInv'
<1>p. PICK place \in {"asleep", "interrupts"} : pc' = [pc EXCEPT ![t] = <<place, l>>]
  BY DEF WaitSync
<1>1. /\ Idle(t) /\ NothingEnds
      /\ waiting' = waiting \cup {t}
      /\ location_lists' = [location_lists EXCEPT ![l] = Append(@, t)]
      /\ timeout_time' = timeout_time \cup {t} \/ timeout_time' = timeout_time
      /\ interrupted' = interrupted \ {t} /\ signalled' = signalled \ {t}
      /\ UNCHANGED <<gen, to_resolve, woken_by, async, cleanup, timeout_tasks, resolve_tasks,
                     todo, interrupts, deinit, thread_clocks, sync_clocks>>
  BY DEF WaitSync, asyncVars, taskVars, clockVars
<1>2. /\ ~ Waits(t) /\ t \notin waiting /\ woken_by[t] = NotCounted /\ todo[t] = <<>>
      /\ \A m \in Location : t \notin Nodes(location_lists[m])
  BY <1>1, WhoWaits
<1>3. \A m \in Location, u \in Tid :
        sync_clocks[m][u] \in Nat /\ sync_clocks'[m][u] \in Nat
        /\ sync_clocks[m][u] <= sync_clocks'[m][u]
  BY <1>1 DEF IInv, TypeOK, VClock
<1>4. /\ PlaceInv' /\ pc'[t] = <<place, l>> /\ \A u \in Tid \ {t} : pc'[u] = pc[u]
      /\ pc'[t][1] \in {"idle", "asleep", "interrupts", "resolving", "notify"}
  BY <1>p, <1>1, <1>2, <1>3, Moves
<1>5. /\ Waits(t)' /\ At(t)' = l
      /\ \A u \in Tid \ {t} : Waits(u)' = Waits(u)
      /\ \A n : n # t => At(n)' = At(n)
      /\ live' = live /\ t \notin live /\ t \in Node
  BY <1>1, <1>4, Nobody DEF Waits, At, live, IInv, TypeOK
<1>6. /\ \A m \in Location : location_lists'[m] \in Seq(Node) /\ Once(location_lists'[m])
      /\ Nodes(location_lists'[l]) = Nodes(location_lists[l]) \cup {t}
      /\ \A m \in Location : m # l => location_lists'[m] = location_lists[m]
      /\ location_lists' \in [Location -> Seq(Node)]
  <2>1. /\ location_lists \in [Location -> Seq(Node)]
        /\ \A m \in Location : location_lists[m] \in Seq(Node) /\ Once(location_lists[m])
    BY DEF IInv, TypeOK, ListInv
  <2>2. /\ location_lists'[l] = Append(location_lists[l], t)
        /\ \A m \in Location : m # l => location_lists'[m] = location_lists[m]
    BY <1>1, <2>1
  <2>3. /\ location_lists'[l] \in Seq(Node) /\ Once(location_lists'[l])
        /\ Nodes(location_lists'[l]) = Nodes(location_lists[l]) \cup {t}
    BY <1>2, <1>5, <2>1, <2>2, AppendNodes
  <2> QED BY <1>1, <2>1, <2>2, <2>3
<1>7. TypeOK'
  <2>1. \A u \in Tid : pc'[u][1] \in {"idle", "asleep", "interrupts", "resolving", "notify"}
    BY <1>4 DEF IInv, TypeOK
  <2> QED BY <1>1, <1>5, <1>6, <2>1 DEF IInv, TypeOK
<1>8. ListInv'
  <2>1. ASSUME NEW m \in Location, NEW n \in Nodes(location_lists'[m])
        PROVE  At(n)' = m /\ ((n \in Tid /\ Waits(n)') \/ n \in live' \cap waiting')
    <3>1. CASE n = t
      <4>1. m = l
        BY <1>2, <1>6, <2>1, <3>1
      <4> QED BY <1>5, <3>1, <4>1
    <3>2. CASE n # t
      <4>1. n \in Nodes(location_lists[m])
        BY <1>6, <2>1, <3>2
      <4>2. At(n) = m /\ ((n \in Tid /\ Waits(n)) \/ n \in live \cap waiting)
        BY <4>1 DEF IInv, ListInv
      <4> QED BY <1>1, <1>5, <3>2, <4>2
    <3> QED BY <3>1, <3>2
  <2>2. ASSUME NEW n \in waiting'
        PROVE  /\ (n \in Tid /\ Waits(n)') \/ n \in live'
               /\ n \in Nodes(location_lists'[At(n)'])
    <3>1. CASE n = t
      BY <1>5, <1>6, <3>1
    <3>2. CASE n # t
      <4>1. /\ (n \in Tid /\ Waits(n)) \/ n \in live
            /\ n \in Nodes(location_lists[At(n)])
        BY <1>1, <2>2, <3>2 DEF IInv, ListInv
      <4>2. At(n) \in Location
        BY <4>1, WhoWaits, Allocated
      <4> QED BY <1>5, <1>6, <3>2, <4>1, <4>2
    <3> QED BY <3>1, <3>2
  <2> QED BY <1>6, <2>1, <2>2 DEF ListInv
<1>9. QueueInv' /\ TimeInv'
  BY <1>1, <1>5 DEF IInv, QueueInv, TimeInv
<1>10. CountInv'
  <2>1. ASSUME NEW n \in Node, woken_by[n] # NotCounted
        PROVE  /\ n \notin waiting' /\ n \notin cleanup
               /\ (n \in Tid /\ Waits(n)') \/ n \in live
               /\ \E u \in Tid : \E epoch \in 0 .. sync_clocks[At(n)'][u] :
                    woken_by[n] = <<u, epoch>>
    <3>1. n # t
      BY <1>2, <2>1
    <3>2. /\ n \notin waiting /\ n \notin cleanup
          /\ (n \in Tid /\ Waits(n)) \/ n \in live
          /\ \E u \in Tid : \E epoch \in 0 .. sync_clocks[At(n)][u] :
               woken_by[n] = <<u, epoch>>
      BY <2>1 DEF IInv, CountInv
    <3> QED BY <1>1, <1>5, <3>1, <3>2
  <2>2. ASSUME NEW u \in Tid, Waits(u)', u \notin waiting' PROVE woken_by[u] # NotCounted
    BY <1>1, <1>5, <2>2 DEF IInv, CountInv
  <2>3. ASSUME NEW n \in live \ waiting', n \notin cleanup PROVE woken_by[n] # NotCounted
    BY <1>1, <2>3 DEF IInv, CountInv
  <2>4. woken_by = [n \in Node |-> woken_by[n]]
    BY DEF IInv, CountInv
  <2> QED BY <1>1, <1>5, <2>1, <2>2, <2>3, <2>4 DEF CountInv
<1> QED BY <1>1, <1>4, <1>7, <1>8, <1>9, <1>10, NothingEndsWell DEF IInv

(* A node is allocated, which nothing refers to, and waits.                *)
LEMMA WaitAsyncStep ==
  ASSUME IInv, NEW t \in Tid, NEW l \in Location, NEW use_timeout \in BOOLEAN,
         WaitAsync(t, l, use_timeout)
  PROVE  IInv'
<1>n. PICK n \in AsyncNode \ live :
        /\ async' = [m \in live \cup {n} |->
                       IF m = n THEN [isolate |-> t, location |-> l, store |-> gen[l]]
                                ELSE async[m]]
        /\ waiting' = waiting \cup {n}
        /\ location_lists' = [location_lists EXCEPT ![l] = Append(@, n)]
        /\ \/ timeout_time' = timeout_time \cup {n} /\ timeout_tasks' = timeout_tasks \cup {n}
           \/ timeout_time' = timeout_time /\ timeout_tasks' = timeout_tasks
  BY DEF WaitAsync
<1>1. /\ NothingEnds
      /\ UNCHANGED <<gen, to_resolve, woken_by, cleanup, resolve_tasks, todo, interrupted,
                     signalled, interrupts, pc, deinit, thread_clocks, sync_clocks>>
  BY DEF WaitAsync, signalVars, clockVars
<1>2. /\ n \notin waiting /\ woken_by[n] = NotCounted /\ n \notin cleanup
      /\ n \notin timeout_tasks /\ n \notin timeout_time /\ n \notin Tid /\ n \in Node
      /\ \A m \in Location : n \notin Nodes(location_lists[m])
      /\ \A u \in Tid : n \notin Nodes(to_resolve[u]) /\ n \notin Nodes(todo[u])
  BY NotAllocated
<1>3. /\ live' = live \cup {n}
      /\ async'[n] = [isolate |-> t, location |-> l, store |-> gen[l]]
      /\ \A m \in live : m # n /\ async'[m] = async[m] /\ m \notin Tid
  BY <1>n, Nobody DEF live, IInv, TypeOK
<1>4. /\ At(n)' = l /\ async'[n].isolate = t
      /\ \A m \in Tid \cup live : At(m)' = At(m)
      /\ \A u : Waits(u)' = Waits(u)
  BY <1>1, <1>2, <1>3 DEF At, Waits
<1>5. /\ \A m \in Location : location_lists'[m] \in Seq(Node) /\ Once(location_lists'[m])
      /\ Nodes(location_lists'[l]) = Nodes(location_lists[l]) \cup {n}
      /\ \A m \in Location : m # l => location_lists'[m] = location_lists[m]
      /\ location_lists' \in [Location -> Seq(Node)]
  <2>1. /\ location_lists \in [Location -> Seq(Node)]
        /\ \A m \in Location : location_lists[m] \in Seq(Node) /\ Once(location_lists[m])
    BY DEF IInv, TypeOK, ListInv
  <2>2. /\ location_lists'[l] = Append(location_lists[l], n)
        /\ \A m \in Location : m # l => location_lists'[m] = location_lists[m]
    BY <1>n, <2>1
  <2>3. /\ location_lists'[l] \in Seq(Node) /\ Once(location_lists'[l])
        /\ Nodes(location_lists'[l]) = Nodes(location_lists[l]) \cup {n}
    BY <1>2, <2>1, <2>2, AppendNodes
  <2> QED BY <1>n, <2>1, <2>2, <2>3
<1>6. TypeOK'
  <2>1. \A m \in live' : async'[m] \in [isolate : Tid, location : Location, store : Nat]
    <3>1. gen[l] \in Nat
      BY FutexAssumption DEF IInv, TypeOK
    <3>2. async'[n] \in [isolate : Tid, location : Location, store : Nat]
      BY <1>3, <3>1
    <3> QED BY <1>3, <3>2 DEF IInv, TypeOK
  <2>2. live' \subseteq AsyncNode /\ cleanup' \subseteq live' \ waiting'
        /\ timeout_time' \subseteq Tid \cup live' /\ waiting' \subseteq Node
    BY <1>n, <1>1, <1>2, <1>3 DEF IInv, TypeOK
  <2> QED BY <1>1, <1>5, <2>1, <2>2 DEF IInv, TypeOK
<1>7. ListInv'
  <2>1. ASSUME NEW m \in Location, NEW k \in Nodes(location_lists'[m])
        PROVE  At(k)' = m /\ ((k \in Tid /\ Waits(k)') \/ k \in live' \cap waiting')
    <3>1. CASE k = n
      <4>1. m = l
        BY <1>2, <1>5, <2>1, <3>1
      <4> QED BY <1>n, <1>3, <1>4, <3>1, <4>1
    <3>2. CASE k # n
      <4>1. k \in Nodes(location_lists[m])
        BY <1>5, <2>1, <3>2
      <4>2. At(k) = m /\ ((k \in Tid /\ Waits(k)) \/ k \in live \cap waiting)
        BY <4>1 DEF IInv, ListInv
      <4> QED BY <1>n, <1>3, <1>4, <3>2, <4>2
    <3> QED BY <3>1, <3>2
  <2>2. ASSUME NEW k \in waiting'
        PROVE  /\ (k \in Tid /\ Waits(k)') \/ k \in live'
               /\ k \in Nodes(location_lists'[At(k)'])
    <3>1. CASE k = n
      BY <1>3, <1>4, <1>5, <3>1
    <3>2. CASE k # n
      <4>1. /\ (k \in Tid /\ Waits(k)) \/ k \in live
            /\ k \in Nodes(location_lists[At(k)])
        BY <1>n, <2>2, <3>2 DEF IInv, ListInv
      <4>2. At(k) \in Location
        BY <4>1, WhoWaits, Allocated
      <4> QED BY <1>3, <1>4, <1>5, <3>2, <4>1, <4>2
    <3> QED BY <3>1, <3>2
  <2> QED BY <1>5, <2>1, <2>2 DEF ListInv
<1>8. QueueInv'
  <2>1. ASSUME NEW u \in Tid, NEW k \in Nodes(to_resolve[u]) \cup Nodes(todo[u])
        PROVE  k \in live' /\ k \notin waiting' /\ async'[k].isolate = u
    <3>1. k \in live /\ k \notin waiting /\ async[k].isolate = u
      BY Queues
    <3> QED BY <1>n, <1>3, <3>1
  <2>2. ASSUME NEW k \in live' \ waiting'
        PROVE  k \in Nodes(to_resolve[async'[k].isolate]) \cup Nodes(todo[async'[k].isolate])
    <3>1. k \in live \ waiting
      BY <1>n, <1>3, <2>2
    <3> QED BY <1>3, <3>1 DEF IInv, QueueInv
  <2> QED BY <1>1, <2>1, <2>2 DEF IInv, QueueInv
<1>9. TimeInv'
  BY <1>n, <1>2, <1>3 DEF IInv, TimeInv
<1>10. CountInv'
  <2>1. ASSUME NEW k \in Node, woken_by[k] # NotCounted
        PROVE  /\ k \notin waiting' /\ k \notin cleanup
               /\ (k \in Tid /\ Waits(k)') \/ k \in live'
               /\ \E u \in Tid : \E epoch \in 0 .. sync_clocks[At(k)'][u] :
                    woken_by[k] = <<u, epoch>>
    <3>1. k # n
      BY <1>2, <2>1
    <3>2. /\ k \notin waiting /\ k \notin cleanup
          /\ (k \in Tid /\ Waits(k)) \/ k \in live
          /\ \E u \in Tid : \E epoch \in 0 .. sync_clocks[At(k)][u] :
               woken_by[k] = <<u, epoch>>
      BY <2>1 DEF IInv, CountInv
    <3>3. At(k)' = At(k)
      BY <1>4, <3>2
    <3> QED BY <1>n, <1>3, <1>4, <3>1, <3>2, <3>3
  <2>2. ASSUME NEW u \in Tid, Waits(u)', u \notin waiting' PROVE woken_by[u] # NotCounted
    BY <1>n, <1>4, <2>2 DEF IInv, CountInv
  <2>3. ASSUME NEW k \in live' \ waiting', k \notin cleanup PROVE woken_by[k] # NotCounted
    BY <1>n, <1>3, <2>3 DEF IInv, CountInv
  <2>4. woken_by = [k \in Node |-> woken_by[k]]
    BY DEF IInv, CountInv
  <2> QED BY <1>1, <2>1, <2>2, <2>3, <2>4 DEF CountInv
<1> QED BY <1>1, <1>6, <1>7, <1>8, <1>9, <1>10, Frame, NothingEndsWell DEF IInv

(* A task takes over the whole queue of its isolate.                       *)
LEMMA ResolvePromisesStep ==
  ASSUME IInv, NEW t \in Tid, ResolvePromises(t)
  PROVE  IInv'
<1>1. /\ Idle(t) /\ t \in resolve_tasks /\ NothingEnds
      /\ resolve_tasks' = resolve_tasks \ {t}
      /\ to_resolve' = [to_resolve EXCEPT ![t] = <<>>]
      /\ todo' = [todo EXCEPT ![t] = to_resolve[t]]
      /\ pc' = [pc EXCEPT ![t] = <<"resolving">>]
      /\ UNCHANGED <<gen, location_lists, waiting, timeout_time, woken_by, async, cleanup,
                     timeout_tasks, interrupted, signalled, interrupts, deinit, thread_clocks,
                     sync_clocks>>
  BY DEF ResolvePromises, asyncVars, signalVars, clockVars
<1>2. ~ Waits(t) /\ todo[t] = <<>> /\ to_resolve[t] # <<>> /\ Nodes(todo[t]) = {}
  BY <1>1, WhoWaits, EmptyNodes DEF IInv, QueueInv
<1>3. /\ to_resolve' \in [Tid -> Seq(AsyncNode)] /\ todo' \in [Tid -> Seq(AsyncNode)]
      /\ to_resolve'[t] = <<>> /\ todo'[t] = to_resolve[t]
      /\ \A u \in Tid \ {t} : to_resolve'[u] = to_resolve[u] /\ todo'[u] = todo[u]
  BY <1>1, EmptyNodes DEF IInv, TypeOK
<1>4. \A m \in Location, u \in Tid :
        sync_clocks[m][u] \in Nat /\ sync_clocks'[m][u] \in Nat
        /\ sync_clocks[m][u] <= sync_clocks'[m][u]
  BY <1>1 DEF IInv, TypeOK, VClock
<1>5. /\ PlaceInv' /\ pc'[t] = <<"resolving">> /\ \A u \in Tid \ {t} : pc'[u] = pc[u]
      /\ pc'[t][1] \in {"idle", "asleep", "interrupts", "resolving", "notify"}
  <2>1. (<<"resolving">>[1] = "resolving") = (todo'[t] # <<>>)
    BY <1>2, <1>3
  <2> QED BY <1>1, <1>3, <1>4, <2>1, Moves
<1>6. /\ \A u \in Tid : Waits(u)' = Waits(u)
      /\ \A n \in Node : (n \in Tid => Waits(n)) => At(n)' = At(n)
      /\ live' = live
  BY <1>1, <1>2, <1>5, Places DEF Waits, At, live
<1>7. TypeOK'
  <2>1. \A u \in Tid : pc'[u][1] \in {"idle", "asleep", "interrupts", "resolving", "notify"}
    BY <1>5 DEF IInv, TypeOK
  <2> QED BY <1>1, <1>3, <1>6, <2>1 DEF IInv, TypeOK
<1>8. ListInv' /\ CountInv'
  <2>1. \A n \in Node : (n \in Tid /\ Waits(n)) \/ n \in live => At(n)' = At(n)
    BY <1>6, Allocated
  <2>2. \A l \in Location : Nodes(location_lists[l]) \subseteq Node
    BY NoNodes DEF IInv, TypeOK
  <2>3. waiting \subseteq Node /\ live \subseteq Node
    BY Nobody DEF IInv, TypeOK
  <2>4. ListInv'
    BY <1>1, <1>6, <2>1, <2>2, <2>3 DEF IInv, ListInv
  <2>5. CountInv'
    BY <1>1, <1>6, <2>1, <2>3 DEF IInv, CountInv
  <2> QED BY <2>4, <2>5
<1>9. QueueInv'
  <2>1. ASSUME NEW u \in Tid
        PROVE  /\ Once(to_resolve'[u]) /\ Once(todo'[u])
               /\ Nodes(to_resolve'[u]) \cap Nodes(todo'[u]) = {}
               /\ (to_resolve'[u] # <<>>) = (u \in resolve_tasks')
               /\ Nodes(to_resolve'[u]) \cup Nodes(todo'[u])
                    = Nodes(to_resolve[u]) \cup Nodes(todo[u])
    <3>1. CASE u = t
      BY <1>1, <1>2, <1>3, <3>1, EmptyNodes DEF IInv, QueueInv
    <3>2. CASE u # t
      BY <1>1, <1>3, <3>2 DEF IInv, QueueInv
    <3> QED BY <3>1, <3>2
  <2>2. ASSUME NEW u \in Tid, NEW n \in Nodes(to_resolve'[u]) \cup Nodes(todo'[u])
        PROVE  n \in live /\ n \notin waiting /\ async[n].isolate = u
    BY <2>1, Queues
  <2>3. ASSUME NEW n \in live \ waiting
        PROVE  n \in Nodes(to_resolve'[async[n].isolate]) \cup Nodes(todo'[async[n].isolate])
    <3>1. async[n].isolate \in Tid
      BY Allocated
    <3>2. n \in Nodes(to_resolve[async[n].isolate]) \cup Nodes(todo[async[n].isolate])
      BY DEF IInv, QueueInv
    <3> QED BY <2>1, <3>1, <3>2
  <2> QED BY <1>1, <1>6, <2>1, <2>2, <2>3 DEF QueueInv
<1> QED BY <1>1, <1>5, <1>7, <1>8, <1>9, Frame, NothingEndsWell DEF IInv

(* A notify publishes before it takes the mutex; clocks only grow.         *)
LEMMA NotifyStep ==
  ASSUME IInv, NEW t \in Tid, NEW l \in Location, NEW count \in {1, Cardinality(Node)},
         Notify(t, l, count)
  PROVE  IInv'
<1>1. /\ Idle(t) /\ NothingEnds
      /\ pc' = [pc EXCEPT ![t] = <<"notify", l, count, thread_clocks[t][t]>>]
      /\ sync_clocks' = [sync_clocks EXCEPT ![l] = Join(@, thread_clocks[t])]
      /\ thread_clocks' = [thread_clocks EXCEPT ![t] = Increment(@, t)]
      /\ UNCHANGED <<gen, location_lists, to_resolve, waiting, timeout_time, woken_by, async,
                     cleanup, timeout_tasks, resolve_tasks, todo, interrupted, signalled,
                     interrupts, deinit>>
  BY DEF Notify, listVars, asyncVars, taskVars, signalVars
<1>2. ~ Waits(t) /\ todo[t] = <<>>
  BY <1>1, WhoWaits
<1>3. /\ thread_clocks' \in [Tid -> VClock] /\ sync_clocks' \in [Location -> VClock]
      /\ thread_clocks[t][t] \in 0 .. sync_clocks'[l][t]
      /\ \A m \in Location, u \in Tid :
           sync_clocks[m][u] \in Nat /\ sync_clocks'[m][u] \in Nat
           /\ sync_clocks[m][u] <= sync_clocks'[m][u]
  <2>1. thread_clocks \in [Tid -> VClock] /\ sync_clocks \in [Location -> VClock]
    BY DEF IInv, TypeOK
  <2>2. Increment(thread_clocks[t], t) \in VClock
    BY <2>1 DEF VClock, Increment
  <2>3. thread_clocks' \in [Tid -> VClock]
    BY <1>1, <2>1, <2>2
  <2>4. /\ sync_clocks'[l] = Join(sync_clocks[l], thread_clocks[t])
        /\ \A m \in Location : m # l => sync_clocks'[m] = sync_clocks[m]
        /\ sync_clocks[l] \in VClock /\ thread_clocks[t] \in VClock
    BY <1>1, <2>1
  <2>5. /\ sync_clocks'[l] \in VClock
        /\ \A u \in Tid : /\ sync_clocks[l][u] <= sync_clocks'[l][u]
                          /\ thread_clocks[t][u] <= sync_clocks'[l][u]
                          /\ thread_clocks[t][u] \in Nat
    BY <2>4, JoinBounds
  <2>6. \A m \in Location : sync_clocks[m] \in VClock /\ sync_clocks'[m] \in VClock
    BY <2>1, <2>4, <2>5
  <2>7. sync_clocks' \in [Location -> VClock]
    BY <1>1, <2>1, <2>6
  <2>8. ASSUME NEW m \in Location, NEW u \in Tid
        PROVE  /\ sync_clocks[m][u] \in Nat /\ sync_clocks'[m][u] \in Nat
               /\ sync_clocks[m][u] <= sync_clocks'[m][u]
    <3>1. sync_clocks[m][u] \in Nat /\ sync_clocks'[m][u] \in Nat
      BY <2>6 DEF VClock
    <3> QED BY <2>4, <2>5, <3>1
  <2>9. thread_clocks[t][t] \in 0 .. sync_clocks'[l][t]
    BY <2>5, <2>8
  <2> QED BY <2>3, <2>7, <2>8, <2>9
<1>4. /\ PlaceInv' /\ pc'[t] = <<"notify", l, count, thread_clocks[t][t]>>
      /\ \A u \in Tid \ {t} : pc'[u] = pc[u]
      /\ pc'[t][1] \in {"idle", "asleep", "interrupts", "resolving", "notify"}
  <2>1. <<"notify", l, count, thread_clocks[t][t]>>[1] = "notify"
    BY Places
  <2> QED BY <1>1, <1>2, <1>3, <2>1, Moves
<1>5. /\ \A u \in Tid : Waits(u)' = Waits(u)
      /\ \A n \in Node : (n \in Tid => Waits(n)) => At(n)' = At(n)
      /\ live' = live
  BY <1>1, <1>2, <1>4, Places DEF Waits, At, live
<1>6. TypeOK'
  <2>1. \A u \in Tid : pc'[u][1] \in {"idle", "asleep", "interrupts", "resolving", "notify"}
    BY <1>4 DEF IInv, TypeOK
  <2> QED BY <1>1, <1>3, <1>5, <2>1 DEF IInv, TypeOK
<1>7. /\ \A n \in Node : (n \in Tid /\ Waits(n)) \/ n \in live => At(n)' = At(n)
      /\ waiting \subseteq Node /\ live \subseteq Node
      /\ \A m \in Location : Nodes(location_lists[m]) \subseteq Node
  <2>1. \A n \in Node : (n \in Tid /\ Waits(n)) \/ n \in live => At(n)' = At(n)
    BY <1>5, Allocated
  <2>2. \A m \in Location : Nodes(location_lists[m]) \subseteq Node
    BY NoNodes DEF IInv, TypeOK
  <2> QED BY <2>1, <2>2, Nobody DEF IInv, TypeOK
<1>8. ListInv'
  BY <1>1, <1>5, <1>7 DEF IInv, ListInv
<1>9. CountInv'
  <2>1. ASSUME NEW n \in Node, woken_by[n] # NotCounted
        PROVE  /\ n \notin waiting /\ n \notin cleanup
               /\ (n \in Tid /\ Waits(n)') \/ n \in live
               /\ \E u \in Tid : \E epoch \in 0 .. sync_clocks'[At(n)'][u] :
                    woken_by[n] = <<u, epoch>>
    <3>1. /\ n \notin waiting /\ n \notin cleanup
          /\ (n \in Tid /\ Waits(n)) \/ n \in live
      BY <2>1 DEF IInv, CountInv
    <3>2. At(n)' = At(n) /\ At(n) \in Location
      BY <1>7, <3>1, WhoWaits, Allocated
    <3>3. PICK u \in Tid : \E epoch \in 0 .. sync_clocks[At(n)][u] : woken_by[n] = <<u, epoch>>
      BY <2>1 DEF IInv, CountInv
    <3>4. \A epoch \in 0 .. sync_clocks[At(n)][u] : epoch \in 0 .. sync_clocks'[At(n)][u]
      BY <1>3, <3>2
    <3> QED BY <1>5, <3>1, <3>2, <3>3, <3>4
  <2> QED BY <1>1, <1>5, <2>1 DEF IInv, CountInv
<1> QED BY <1>1, <1>4, <1>6, <1>8, <1>9, Frame, NothingEndsWell DEF IInv

-----------------------------------------------------------------------------
(* Asynchronous nodes that are deleted.                                    *)

(* Nodes that are deleted together with all that refers to them.           *)
LEMMA Deletion ==
  ASSUME IInv, NEW S \in SUBSET live, Delete(S),
         waiting' = waiting \ S, timeout_tasks' = timeout_tasks \ S,
         woken_by' = [m \in Node |-> IF m \in S THEN NotCounted ELSE woken_by[m]],
         \A l \in Location : /\ Once(location_lists'[l])
                             /\ Nodes(location_lists'[l]) = Nodes(location_lists[l]) \ S,
         \A u \in Tid : /\ Once(to_resolve'[u]) /\ Once(todo'[u])
                        /\ Nodes(to_resolve'[u]) = Nodes(to_resolve[u]) \ S
                        /\ Nodes(todo'[u]) = Nodes(todo[u]) \ S
                        /\ (to_resolve'[u] # <<>>) = (u \in resolve_tasks'),
         \A u \in Tid : /\ Waits(u)' = Waits(u)
                        /\ Waits(u) => pc'[u] = pc[u],
         sync_clocks' = sync_clocks
  PROVE  /\ ListInv' /\ QueueInv' /\ TimeInv' /\ CountInv'
         /\ live' = live \ S
         /\ \A n \in live' : async'[n] = async[n]
         /\ cleanup' \subseteq live' \ waiting' /\ timeout_time' \subseteq Tid \cup live'
         /\ waiting' \subseteq Node
<1>1. /\ live' = live \ S /\ \A n \in live' : async'[n] = async[n]
      /\ cleanup' = cleanup \ S /\ timeout_time' = timeout_time \ S
  BY DEF Delete, live
<1>2. /\ S \subseteq AsyncNode /\ S \cap Tid = {} /\ live \subseteq Node /\ live \cap Tid = {}
  BY Nobody DEF IInv, TypeOK
<1>3. ASSUME NEW n \in Node, (n \in Tid /\ Waits(n)) \/ n \in live, n \notin S
      PROVE  /\ (n \in Tid /\ Waits(n)') \/ n \in live'
             /\ At(n)' = At(n) /\ At(n) \in Location
  <2>1. CASE n \in Tid
    <3>1. Waits(n) /\ pc'[n] = pc[n]
      BY <1>2, <1>3, <2>1
    <3> QED BY <2>1, <3>1, WhoWaits DEF At
  <2>2. CASE n \in live
    BY <1>1, <1>2, <1>3, <2>2, Allocated DEF At
  <2> QED BY <1>3, <2>1, <2>2
<1>4. ListInv'
  <2>1. ASSUME NEW l \in Location, NEW n \in Nodes(location_lists'[l])
        PROVE  At(n)' = l /\ ((n \in Tid /\ Waits(n)') \/ n \in live' \cap waiting')
    <3>1. n \in Nodes(location_lists[l]) /\ n \notin S
      OBVIOUS
    <3>2. At(n) = l /\ ((n \in Tid /\ Waits(n)) \/ n \in live \cap waiting) /\ n \in Node
      BY <1>2, <3>1, Nobody DEF IInv, ListInv
    <3> QED BY <1>1, <1>2, <1>3, <3>1, <3>2
  <2>2. ASSUME NEW n \in waiting'
        PROVE  /\ (n \in Tid /\ Waits(n)') \/ n \in live'
               /\ n \in Nodes(location_lists'[At(n)'])
    <3>1. /\ (n \in Tid /\ Waits(n)) \/ n \in live
          /\ n \in Nodes(location_lists[At(n)]) /\ n \notin S /\ n \in Node
      BY <1>2, Nobody DEF IInv, ListInv
    <3> QED BY <1>3, <3>1
  <2> QED BY <2>1, <2>2 DEF ListInv
<1>5. QueueInv'
  <2>1. ASSUME NEW u \in Tid, NEW n \in Nodes(to_resolve'[u]) \cup Nodes(todo'[u])
        PROVE  n \in live' /\ n \notin waiting' /\ async'[n].isolate = u
    <3>1. n \in Nodes(to_resolve[u]) \cup Nodes(todo[u]) /\ n \notin S
      OBVIOUS
    <3>2. n \in live /\ n \notin waiting /\ async[n].isolate = u
      BY <3>1, Queues
    <3> QED BY <1>1, <3>1, <3>2
  <2>2. ASSUME NEW n \in live' \ waiting'
        PROVE  n \in Nodes(to_resolve'[async'[n].isolate]) \cup Nodes(todo'[async'[n].isolate])
    <3>1. n \in live \ waiting /\ n \notin S /\ async'[n] = async[n]
      BY <1>1
    <3>2. async[n].isolate \in Tid
      BY <3>1, Allocated
    <3>3. n \in Nodes(to_resolve[async[n].isolate]) \cup Nodes(todo[async[n].isolate])
      BY <3>1 DEF IInv, QueueInv
    <3> QED BY <3>1, <3>2, <3>3
  <2>3. \A u \in Tid : Nodes(to_resolve'[u]) \cap Nodes(todo'[u]) = {}
    BY DEF IInv, QueueInv
  <2> QED BY <2>1, <2>2, <2>3 DEF QueueInv
<1>6. TimeInv'
  BY <1>1 DEF IInv, TimeInv
<1>7. CountInv'
  <2>1. ASSUME NEW n \in Node, woken_by'[n] # NotCounted
        PROVE  /\ n \notin waiting' /\ n \notin cleanup'
               /\ (n \in Tid /\ Waits(n)') \/ n \in live'
               /\ \E u \in Tid : \E epoch \in 0 .. sync_clocks[At(n)'][u] :
                    woken_by'[n] = <<u, epoch>>
    <3>1. n \notin S /\ woken_by'[n] = woken_by[n] /\ woken_by[n] # NotCounted
      BY <2>1
    <3>2. /\ n \notin waiting /\ n \notin cleanup
          /\ (n \in Tid /\ Waits(n)) \/ n \in live
          /\ \E u \in Tid : \E epoch \in 0 .. sync_clocks[At(n)][u] :
               woken_by[n] = <<u, epoch>>
      BY <3>1 DEF IInv, CountInv
    <3> QED BY <1>1, <1>3, <3>1, <3>2
  <2>2. ASSUME NEW u \in Tid, Waits(u)', u \notin waiting' PROVE woken_by'[u] # NotCounted
    <3>1. u \notin S /\ u \in Node /\ Waits(u) /\ u \notin waiting
      BY <1>2, <2>2, Nobody
    <3> QED BY <3>1 DEF IInv, CountInv
  <2>3. ASSUME NEW n \in live' \ waiting', n \notin cleanup' PROVE woken_by'[n] # NotCounted
    <3>1. n \notin S /\ n \in Node /\ n \in live \ waiting /\ n \notin cleanup
      BY <1>1, <1>2, <2>3
    <3> QED BY <3>1 DEF IInv, CountInv
  <2>4. woken_by' = [n \in Node |-> woken_by'[n]]
    OBVIOUS
  <2> QED BY <2>1, <2>2, <2>3, <2>4 DEF CountInv
<1>8. /\ cleanup' \subseteq live' \ waiting' /\ timeout_time' \subseteq Tid \cup live'
      /\ waiting' \subseteq Node
  BY <1>1 DEF IInv, TypeOK
<1> QED BY <1>1, <1>4, <1>5, <1>6, <1>7, <1>8

(* One node is taken from the promises that are to be resolved.            *)
LEMMA ResolveNextStep ==
  ASSUME IInv, NEW t \in Tid, ResolveNext(t)
  PROVE  IInv'
<1>n. PICK n : n = Head(todo[t])
  OBVIOUS
<1>1. /\ pc[t][1] = "resolving"
      /\ WaitComplete(t, At(n)) /\ timeout_tasks' = timeout_tasks \ {n}
      /\ Resolve(n)
      /\ todo' = [todo EXCEPT ![t] = Tail(@)]
      /\ pc' = [pc EXCEPT ![t] = IF Tail(todo[t]) = <<>> THEN IdlePc ELSE @]
      /\ UNCHANGED <<gen, location_lists, to_resolve, waiting, resolve_tasks, interrupted,
                     signalled, interrupts, deinit>>
  BY <1>n DEF ResolveNext, signalVars
<1>2. /\ todo[t] # <<>> /\ ~ Waits(t) /\ pc[t] = <<"resolving">>
  BY <1>1, Places DEF IInv, PlaceInv, Waits
<1>3. /\ n \in Nodes(todo[t]) /\ Tail(todo[t]) \in Seq(AsyncNode) /\ Once(Tail(todo[t]))
      /\ Nodes(Tail(todo[t])) = Nodes(todo[t]) \ {n}
  <2>1. todo[t] \in Seq(AsyncNode) /\ Once(todo[t])
    BY DEF IInv, TypeOK, QueueInv
  <2> QED BY <1>n, <1>2, <2>1, HeadTailNodes
<1>4. /\ n \in live /\ n \notin waiting /\ async[n].isolate = t /\ n \notin timeout_time
      /\ \A l \in Location : n \notin Nodes(location_lists[l])
      /\ \A u \in Tid \ {t} : n \notin Nodes(to_resolve[u]) /\ n \notin Nodes(todo[u])
      /\ n \notin Nodes(to_resolve[t])
  BY <1>3, Queues DEF IInv, QueueInv
<1>5. /\ At(n) \in Location /\ n \in Node /\ n \notin Tid
  BY <1>4, Allocated
<1>6. /\ thread_clocks' \in [Tid -> VClock] /\ sync_clocks' = sync_clocks
      /\ \A u \in Tid : sync_clocks[At(n)][u] <= thread_clocks'[t][u]
      /\ sync_clocks \in [Location -> VClock]
      /\ \A m \in Location, u \in Tid :
           sync_clocks[m][u] \in Nat /\ sync_clocks'[m][u] \in Nat
           /\ sync_clocks[m][u] <= sync_clocks'[m][u]
  <2>1. /\ thread_clocks' \in [Tid -> VClock] /\ sync_clocks' = sync_clocks
        /\ \A u \in Tid : sync_clocks[At(n)][u] <= thread_clocks'[t][u]
    BY <1>1, <1>5, WaitCompleteJoins
  <2> QED BY <2>1 DEF IInv, TypeOK, VClock
<1>7. /\ todo' \in [Tid -> Seq(AsyncNode)] /\ todo'[t] = Tail(todo[t])
      /\ \A u \in Tid \ {t} : todo'[u] = todo[u]
  BY <1>1, <1>3 DEF IInv, TypeOK
<1>8. /\ PlaceInv' /\ \A u \in Tid \ {t} : pc'[u] = pc[u]
      /\ pc'[t] = IdlePc \/ pc'[t] = <<"resolving">>
      /\ pc'[t][1] \in {"idle", "asleep", "interrupts", "resolving", "notify"}
  <2>1. CASE Tail(todo[t]) = <<>>
    <3>1. pc' = [pc EXCEPT ![t] = IdlePc] /\ (IdlePc[1] = "resolving") = (todo'[t] # <<>>)
      BY <1>1, <1>7, <2>1, Places
    <3> QED BY <1>6, <1>7, <3>1, Moves
  <2>2. CASE Tail(todo[t]) # <<>>
    <3>1. /\ pc' = [pc EXCEPT ![t] = <<"resolving">>]
          /\ (<<"resolving">>[1] = "resolving") = (todo'[t] # <<>>)
      BY <1>1, <1>2, <1>7, <2>2, Places
    <3> QED BY <1>6, <1>7, <3>1, Moves
  <2> QED BY <2>1, <2>2
<1>9. PICK result \in {"dropped", IF n \in timeout_time THEN "timed-out" ELSE "ok"} :
        (n \in cleanup => result = "dropped") /\ Ends(n, async[n].isolate, result)
  BY <1>1 DEF Resolve
<1>10. CountedIsWoken' /\ WokenIsOrdered'
  <2>1. result = "ok" => woken_by[n] # NotCounted
    <3>1. result = "ok" => n \notin cleanup
      BY <1>9
    <3> QED BY <1>4, <3>1 DEF IInv, CountInv
  <2>2. result \in {"dropped", "ok"}
    BY <1>4, <1>9
  <2>3. result # "timed-out" /\ result # "not-equal"
    BY <2>2
  <2>4. Ends(n, t, result)
    BY <1>4, <1>9
  <2> QED BY <1>5, <1>6, <2>1, <2>3, <2>4, EndsWell
<1>11. woken_by' = [m \in Node |-> IF m \in {n} THEN NotCounted ELSE woken_by[m]]
  <2>1. woken_by = [m \in Node |-> woken_by[m]]
    BY DEF IInv, CountInv
  <2>2. woken_by' = [woken_by EXCEPT ![n] = NotCounted]
    BY <1>9 DEF Ends
  <2> QED BY <1>5, <2>1, <2>2
<1>12. /\ ListInv' /\ QueueInv' /\ TimeInv' /\ CountInv'
       /\ live' = live \ {n}
       /\ \A m \in live' : async'[m] = async[m]
       /\ cleanup' \subseteq live' \ waiting' /\ timeout_time' \subseteq Tid \cup live'
       /\ waiting' \subseteq Node
  <2>1. \A l \in Location : /\ Once(location_lists'[l])
                            /\ Nodes(location_lists'[l]) = Nodes(location_lists[l]) \ {n}
    BY <1>1, <1>4 DEF IInv, ListInv
  <2>2. ASSUME NEW u \in Tid
        PROVE  /\ Once(to_resolve'[u]) /\ Once(todo'[u])
               /\ Nodes(to_resolve'[u]) = Nodes(to_resolve[u]) \ {n}
               /\ Nodes(todo'[u]) = Nodes(todo[u]) \ {n}
               /\ (to_resolve'[u] # <<>>) = (u \in resolve_tasks')
    <3>1. CASE u = t
      BY <1>1, <1>3, <1>4, <1>7, <3>1 DEF IInv, QueueInv
    <3>2. CASE u # t
      BY <1>1, <1>4, <1>7, <3>2 DEF IInv, QueueInv
    <3> QED BY <3>1, <3>2
  <2>3. \A u \in Tid : Waits(u)' = Waits(u) /\ (Waits(u) => pc'[u] = pc[u])
    BY <1>2, <1>8, Places DEF Waits
  <2>4. waiting' = waiting \ {n} /\ {n} \in SUBSET live
    BY <1>1, <1>4
  <2>5. Delete({n})
    BY <1>1 DEF Resolve
  <2> QED BY <1>1, <1>6, <1>11, <2>1, <2>2, <2>3, <2>4, <2>5, Deletion
<1>13. TypeOK'
  <2>1. \A u \in Tid : pc'[u][1] \in {"idle", "asleep", "interrupts", "resolving", "notify"}
    BY <1>8 DEF IInv, TypeOK
  <2> QED BY <1>1, <1>6, <1>7, <1>12, <2>1 DEF IInv, TypeOK
<1> QED BY <1>8, <1>10, <1>12, <1>13 DEF IInv

(* The timeout of a node that still waits: it leaves its list.             *)
LEMMA AsyncWaiterTimeoutStep ==
  ASSUME IInv, NEW n \in AsyncNode, AsyncWaiterTimeout(n)
  PROVE  IInv'
<1>1. /\ n \in timeout_tasks /\ timeout_tasks' = timeout_tasks \ {n}
      /\ UNCHANGED <<gen, to_resolve, resolve_tasks, todo, interrupted, signalled, interrupts,
                     pc, deinit, thread_clocks, sync_clocks>>
  BY DEF AsyncWaiterTimeout, signalVars, clockVars
<1>2. n \in live /\ n \in Node /\ n \notin Tid
  BY <1>1, Allocated DEF IInv, TimeInv
<1>l. PICK l \in Location : l = At(n)
  BY <1>2, Allocated
<1>3. CASE n \notin waiting
  <2>1. /\ NothingEnds
        /\ UNCHANGED <<location_lists, waiting, timeout_time, woken_by, async, cleanup>>
    BY <1>3 DEF AsyncWaiterTimeout, asyncVars
  <2>2. TimeInv'
    BY <1>1, <2>1 DEF IInv, TimeInv, live
  <2>3. TypeOK'
    BY <1>1, <2>1 DEF IInv, TypeOK, live
  <2> QED BY <1>1, <2>1, <2>2, <2>3, Frame, NothingEndsWell DEF IInv
<1>4. CASE n \in waiting
  <2>1. /\ location_lists' = [location_lists EXCEPT ![l] = Without(@, {n})]
        /\ waiting' = waiting \ {n}
        /\ Delete({n})
    BY <1>4, <1>l DEF AsyncWaiterTimeout, RemoveNode, Resolve
  <2>2. PICK result \in {"dropped", IF n \in timeout_time THEN "timed-out" ELSE "ok"} :
          Ends(n, async[n].isolate, result)
    BY <1>4 DEF AsyncWaiterTimeout, Resolve
  <2>3. n \in timeout_time /\ woken_by[n] = NotCounted
    BY <1>1, <1>2, <1>4 DEF IInv, TimeInv, CountInv
  <2>4. CountedIsWoken' /\ WokenIsOrdered'
    <3>1. result # "ok"
      BY <2>2, <2>3
    <3>2. async[n].isolate \in Tid /\ At(n) \in Location
      BY <1>2, Allocated
    <3>3. thread_clocks' \in [Tid -> VClock] /\ sync_clocks \in [Location -> VClock]
      BY <1>1 DEF IInv, TypeOK
    <3> QED BY <1>2, <2>2, <2>3, <3>1, <3>2, <3>3, EndsWell
  <2>5. woken_by' = [m \in Node |-> IF m \in {n} THEN NotCounted ELSE woken_by[m]]
    <3>1. woken_by = [m \in Node |-> woken_by[m]]
      BY DEF IInv, CountInv
    <3>2. woken_by' = [woken_by EXCEPT ![n] = NotCounted]
      BY <2>2 DEF Ends
    <3> QED BY <1>2, <3>1, <3>2
  <2>6. ASSUME NEW m \in Location
        PROVE  /\ location_lists'[m] \in Seq(Node) /\ Once(location_lists'[m])
               /\ Nodes(location_lists'[m]) = Nodes(location_lists[m]) \ {n}
    <3>1. location_lists[m] \in Seq(Node) /\ Once(location_lists[m])
          /\ location_lists \in [Location -> Seq(Node)]
      BY DEF IInv, TypeOK, ListInv
    <3>2. CASE m = l
      BY <2>1, <3>1, <3>2, WithoutNodes
    <3>3. CASE m # l
      BY <1>l, <2>1, <3>1, <3>3 DEF IInv, ListInv
    <3> QED BY <3>2, <3>3
  <2>7. /\ ListInv' /\ QueueInv' /\ TimeInv' /\ CountInv'
        /\ live' = live \ {n}
        /\ \A m \in live' : async'[m] = async[m]
        /\ cleanup' \subseteq live' \ waiting' /\ timeout_time' \subseteq Tid \cup live'
        /\ waiting' \subseteq Node
    <3>1. \A u \in Tid : /\ Once(to_resolve[u]) /\ Once(todo[u])
                         /\ Nodes(to_resolve[u]) = Nodes(to_resolve[u]) \ {n}
                         /\ Nodes(todo[u]) = Nodes(todo[u]) \ {n}
                         /\ (to_resolve[u] # <<>>) = (u \in resolve_tasks)
      BY <1>4, Queues DEF IInv, QueueInv
    <3>2. \A u \in Tid : Waits(u)' = Waits(u)
      BY <1>1 DEF Waits
    <3>3. {n} \in SUBSET live
      BY <1>2
    <3> QED BY <1>1, <2>1, <2>5, <2>6, <3>1, <3>2, <3>3, Deletion
  <2>8. TypeOK'
    <3>1. location_lists' \in [Location -> Seq(Node)]
      BY <2>1, <2>6 DEF IInv, TypeOK
    <3> QED BY <1>1, <2>7, <3>1 DEF IInv, TypeOK
  <2> QED BY <1>1, <2>4, <2>7, <2>8, Frame DEF IInv
<1> QED BY <1>3, <1>4

(* The end of an isolate deletes its nodes from the lists of both kinds.   *)
LEMMA IsolateDeinitStep ==
  ASSUME IInv, NEW t \in Tid, IsolateDeinit(t)
  PROVE  IInv'
<1>S. PICK S : S = {n \in live : async[n].isolate = t}
  OBVIOUS
<1>1. /\ Idle(t) /\ deinit' = deinit \cup {t} /\ NothingEnds
      /\ location_lists' = [l \in Location |-> Without(location_lists[l], S)]
      /\ to_resolve' = [to_resolve EXCEPT ![t] = <<>>]
      /\ waiting' = waiting \ S
      /\ Delete(S)
      /\ timeout_tasks' = timeout_tasks \ S
      /\ resolve_tasks' = resolve_tasks \ {t}
      /\ woken_by' = [n \in Node |-> IF n \in S THEN NotCounted ELSE woken_by[n]]
      /\ UNCHANGED <<gen, todo, interrupted, signalled, interrupts, pc, thread_clocks, sync_clocks>>
  BY <1>S DEF IsolateDeinit, signalVars, clockVars
<1>2. todo[t] = <<>>
  BY <1>1, WhoWaits
<1>3. ASSUME NEW m \in Location
      PROVE  /\ location_lists'[m] \in Seq(Node) /\ Once(location_lists'[m])
             /\ Nodes(location_lists'[m]) = Nodes(location_lists[m]) \ S
  <2>1. location_lists[m] \in Seq(Node) /\ Once(location_lists[m])
    BY DEF IInv, TypeOK, ListInv
  <2> QED BY <1>1, <2>1, WithoutNodes
<1>4. ASSUME NEW u \in Tid
      PROVE  /\ Once(to_resolve'[u]) /\ Once(todo[u])
             /\ Nodes(to_resolve'[u]) = Nodes(to_resolve[u]) \ S
             /\ Nodes(todo[u]) = Nodes(todo[u]) \ S
             /\ (to_resolve'[u] # <<>>) = (u \in resolve_tasks')
  <2>1. \A n \in Nodes(to_resolve[u]) \cup Nodes(todo[u]) : n \in live /\ async[n].isolate = u
    BY Queues
  <2>2. CASE u = t
    <3>1. to_resolve'[u] = <<>> /\ todo[u] = <<>>
      BY <1>1, <1>2, <2>2 DEF IInv, TypeOK
    <3>2. Nodes(to_resolve[u]) \subseteq S
      BY <1>S, <2>1, <2>2
    <3> QED BY <1>1, <2>2, <3>1, <3>2, EmptyNodes
  <2>3. CASE u # t
    <3>1. (Nodes(to_resolve[u]) \cup Nodes(todo[u])) \cap S = {}
      BY <1>S, <2>1, <2>3
    <3>2. to_resolve'[u] = to_resolve[u]
      BY <1>1, <2>3 DEF IInv, TypeOK
    <3> QED BY <1>1, <2>3, <3>1, <3>2 DEF IInv, QueueInv
  <2> QED BY <2>2, <2>3
<1>5. /\ ListInv' /\ QueueInv' /\ TimeInv' /\ CountInv'
      /\ live' = live \ S
      /\ \A m \in live' : async'[m] = async[m]
      /\ cleanup' \subseteq live' \ waiting' /\ timeout_time' \subseteq Tid \cup live'
      /\ waiting' \subseteq Node
  <2>1. \A u \in Tid : Waits(u)' = Waits(u)
    BY <1>1 DEF Waits
  <2>2. S \in SUBSET live
    BY <1>S
  <2> QED BY <1>1, <1>3, <1>4, <2>1, <2>2, Deletion
<1>6. TypeOK'
  <2>1. location_lists' \in [Location -> Seq(Node)] /\ to_resolve' \in [Tid -> Seq(AsyncNode)]
    BY <1>1, <1>3, EmptyNodes DEF IInv, TypeOK
  <2> QED BY <1>1, <1>5, <2>1 DEF IInv, TypeOK
<1> QED BY <1>1, <1>5, <1>6, Frame, NothingEndsWell DEF IInv

-----------------------------------------------------------------------------
(* Wake.                                                                   *)

(* NotifyAsyncWaiter moves the asynchronous nodes of S from the list of l  *)
(* to the queues of their isolates.                                        *)
LEMMA NotifyAsyncWaitersMoves ==
  ASSUME IInv, NEW l \in Location, NEW S \in SUBSET (Nodes(location_lists[l]) \cap waiting),
         NotifyAsyncWaiters(l, S)
  PROVE  /\ timeout_time' = timeout_time \ (S \cap AsyncNode)
         /\ location_lists' \in [Location -> Seq(Node)] /\ to_resolve' \in [Tid -> Seq(AsyncNode)]
         /\ \A m \in Location :
              /\ Once(location_lists'[m])
              /\ Nodes(location_lists'[m]) = Nodes(location_lists[m]) \ (S \cap AsyncNode)
         /\ \A u \in Tid :
              /\ Once(to_resolve'[u])
              /\ Nodes(to_resolve'[u]) =
                   Nodes(to_resolve[u]) \cup {n \in S \cap AsyncNode : async[n].isolate = u}
              /\ (to_resolve'[u] # <<>>) = (u \in resolve_tasks')
         /\ resolve_tasks' \subseteq Tid
<1>1. /\ timeout_time' = timeout_time \ (S \cap AsyncNode)
      /\ location_lists' = [location_lists EXCEPT ![l] = Without(@, S \cap AsyncNode)]
      /\ to_resolve' = [u \in Tid |-> to_resolve[u] \o Queued(l, S, u)]
      /\ resolve_tasks' = resolve_tasks \cup {u \in Tid : Queued(l, S, u) # <<>>}
  BY DEF NotifyAsyncWaiters
<1>2. /\ location_lists \in [Location -> Seq(Node)] /\ to_resolve \in [Tid -> Seq(AsyncNode)]
      /\ \A m \in Location : location_lists[m] \in Seq(Node) /\ Once(location_lists[m])
  BY DEF IInv, TypeOK, ListInv
<1>3. ASSUME NEW m \in Location
      PROVE  /\ location_lists'[m] \in Seq(Node) /\ Once(location_lists'[m])
             /\ Nodes(location_lists'[m]) = Nodes(location_lists[m]) \ (S \cap AsyncNode)
  <2>1. CASE m = l
    BY <1>1, <1>2, <2>1, WithoutNodes
  <2>2. CASE m # l
    <3>1. location_lists'[m] = location_lists[m]
      BY <1>1, <1>2, <2>2
    \* A node is on the list of its own location only.
    <3>2. Nodes(location_lists[m]) \cap S = {}
      BY <2>2 DEF IInv, ListInv
    <3> QED BY <1>2, <3>1, <3>2
  <2> QED BY <2>1, <2>2
<1>4. ASSUME NEW u \in Tid
      PROVE  /\ to_resolve'[u] \in Seq(AsyncNode) /\ Once(to_resolve'[u])
             /\ Nodes(to_resolve'[u]) =
                  Nodes(to_resolve[u]) \cup {n \in S \cap AsyncNode : async[n].isolate = u}
             /\ (to_resolve'[u] # <<>>) = (u \in resolve_tasks')
  <2> DEFINE Mine == {n \in S \cap AsyncNode : async[n].isolate = u}
             q == Queued(l, S, u)
  <2>1. q \in Seq(Node) /\ Once(q) /\ Nodes(q) = Mine
    <3>1. Nodes(location_lists[l]) \cap Mine = Mine
      OBVIOUS
    <3>2. q = Kept(location_lists[l], Mine)
      BY DEF Queued
    <3> HIDE DEF Mine, q
    <3> QED BY <1>2, <3>1, <3>2, KeptNodes
  <2>2. q \in Seq(AsyncNode)
    <3>1. \A i \in 1 .. Len(q) : q[i] \in AsyncNode
      <4>1. \A i \in 1 .. Len(q) : q[i] \in Nodes(q)
        BY DEF Nodes
      <4>2. Mine \subseteq AsyncNode
        OBVIOUS
      <4> HIDE DEF Mine, q
      <4> QED BY <2>1, <4>1, <4>2
    <3> HIDE DEF q
    <3> QED BY <2>1, <3>1
  <2>3. Nodes(to_resolve[u]) \cap Mine = {}
    BY Queues
  <2>4. to_resolve'[u] = to_resolve[u] \o q
    BY <1>1
  <2>5. to_resolve[u] \in Seq(AsyncNode) /\ Once(to_resolve[u])
    BY <1>2 DEF IInv, QueueInv
  <2>6. u \in resolve_tasks' <=> to_resolve[u] # <<>> \/ q # <<>>
    BY <1>1 DEF IInv, QueueInv
  <2> HIDE DEF Mine, q
  <2>7. /\ to_resolve'[u] \in Seq(AsyncNode) /\ Once(to_resolve'[u])
        /\ Nodes(to_resolve'[u]) = Nodes(to_resolve[u]) \cup Mine
    BY <2>1, <2>2, <2>3, <2>4, <2>5, ConcatNodes
  <2>8. (to_resolve'[u] # <<>>) = (u \in resolve_tasks')
    <3>1. /\ to_resolve'[u] = <<>> <=> Nodes(to_resolve'[u]) = {}
          /\ to_resolve[u] = <<>> <=> Nodes(to_resolve[u]) = {}
          /\ q = <<>> <=> Nodes(q) = {}
      BY <2>2, <2>5, <2>7, NoNodes
    <3>2. to_resolve'[u] # <<>> <=> to_resolve[u] # <<>> \/ q # <<>>
      BY <2>1, <2>7, <3>1
    <3> QED BY <2>6, <3>2
  <2> QED BY <2>7, <2>8 DEF Mine
<1>5. location_lists' \in [Location -> Seq(Node)] /\ to_resolve' \in [Tid -> Seq(AsyncNode)]
  BY <1>1, <1>2, <1>3, <1>4
<1>6. resolve_tasks' \subseteq Tid
  BY <1>1 DEF IInv, TypeOK
<1> QED BY <1>1, <1>3, <1>4, <1>5, <1>6

(* A notify counts waiters, which do not wait any more, and deletes        *)
(* nothing: their own threads do.                                          *)
LEMMA WakeStep ==
  ASSUME IInv, NEW t \in Tid, Wake(t)
  PROVE  IInv'
<1>0. /\ pc[t][1] = "notify" /\ pc' = [pc EXCEPT ![t] = IdlePc] /\ NothingEnds
      /\ WakeLocation(t, pc[t][2], pc[t][3], pc[t][4])
      /\ UNCHANGED <<gen, async, timeout_tasks, todo, interrupted, interrupts, deinit,
                     thread_clocks, sync_clocks>>
  BY DEF Wake, clockVars
<1>p. PICK l \in Location, count \in {1, Cardinality(Node)} :
        \E epoch \in 0 .. sync_clocks[l][t] : pc[t] = <<"notify", l, count, epoch>>
  BY <1>0, Places DEF IInv, PlaceInv
<1>e. PICK epoch \in 0 .. sync_clocks[l][t] : pc[t] = <<"notify", l, count, epoch>>
  BY <1>p
<1>a. PICK acted : acted =
        {location_lists[l][i] : i \in Reached(l, count) \ (Expired(l) \ Stale(l))}
  OBVIOUS
<1>s. PICK stale : stale = {location_lists[l][i] : i \in Reached(l, count) \cap Stale(l)}
  OBVIOUS
<1>1. /\ waiting' = waiting \ acted
      /\ cleanup' = cleanup \cup stale
      /\ NotifyAsyncWaiters(l, acted)
      /\ signalled' = signalled \cup {u \in (acted \ stale) \cap Tid : pc[u][1] = "asleep"}
      /\ woken_by' = [n \in Node |-> IF n \in acted \ stale THEN <<t, epoch>> ELSE woken_by[n]]
  <2>1. pc[t][2] = l /\ pc[t][3] = count /\ pc[t][4] = epoch
    BY <1>e, Places
  <2>2. WakeLocation(t, l, count, epoch)
    BY <1>0, <2>1
  <2> QED BY <1>a, <1>s, <2>2 DEF WakeLocation
\* Only nodes that wait at l are acted on.
<1>2. /\ acted \in SUBSET (Nodes(location_lists[l]) \cap waiting)
      /\ stale \subseteq acted /\ stale \subseteq AsyncNode
  <2>1. Reached(l, count) \subseteq Waiters(l) /\ Stale(l) \subseteq Expired(l)
    BY DEF Reached, Stale
  <2>2. \A i \in Waiters(l) :
          location_lists[l][i] \in Nodes(location_lists[l]) \cap waiting
    BY DEF Waiters, Nodes
  <2>3. \A i \in Expired(l) : location_lists[l][i] \in AsyncNode
    BY DEF Expired
  <2> QED BY <1>a, <1>s, <2>1, <2>2, <2>3
<1>3. /\ acted \subseteq Node /\ acted \cap AsyncNode \subseteq live
      /\ \A n \in acted : /\ At(n) = l /\ n \in waiting /\ n \notin cleanup
                          /\ (n \in Tid /\ Waits(n)) \/ n \in live
                          /\ n \notin Tid => n \in AsyncNode
  BY <1>2, Nobody DEF IInv, ListInv, TypeOK
<1>4. /\ timeout_time' = timeout_time \ (acted \cap AsyncNode)
      /\ location_lists' \in [Location -> Seq(Node)] /\ to_resolve' \in [Tid -> Seq(AsyncNode)]
      /\ \A m \in Location :
           /\ Once(location_lists'[m])
           /\ Nodes(location_lists'[m]) = Nodes(location_lists[m]) \ (acted \cap AsyncNode)
      /\ \A u \in Tid :
           /\ Once(to_resolve'[u])
           /\ Nodes(to_resolve'[u]) =
                Nodes(to_resolve[u]) \cup {n \in acted \cap AsyncNode : async[n].isolate = u}
           /\ (to_resolve'[u] # <<>>) = (u \in resolve_tasks')
      /\ resolve_tasks' \subseteq Tid
  BY <1>1, <1>2, NotifyAsyncWaitersMoves
<1>5. /\ ~ Waits(t) /\ todo[t] = <<>>
      /\ \A m \in Location, u \in Tid :
           sync_clocks[m][u] \in Nat /\ sync_clocks'[m][u] \in Nat
           /\ sync_clocks[m][u] <= sync_clocks'[m][u]
  <2>1. ~ Waits(t)
    BY <1>0 DEF Waits
  <2>2. todo[t] = <<>>
    BY <1>0 DEF IInv, PlaceInv
  <2>3. sync_clocks' = sync_clocks /\ sync_clocks \in [Location -> VClock]
    BY <1>0 DEF IInv, TypeOK
  <2>4. \A m \in Location, u \in Tid : sync_clocks[m][u] \in Nat
    BY <2>3 DEF VClock
  <2> QED BY <2>1, <2>2, <2>3, <2>4
<1>6. /\ PlaceInv' /\ pc'[t] = IdlePc /\ \A u \in Tid \ {t} : pc'[u] = pc[u]
      /\ pc'[t][1] \in {"idle", "asleep", "interrupts", "resolving", "notify"}
  <2>1. (IdlePc[1] = "resolving") = (todo'[t] # <<>>)
    BY <1>0, <1>5, Places
  <2> QED BY <1>0, <1>5, <2>1, Moves
<1>7. /\ \A u \in Tid : Waits(u)' = Waits(u)
      /\ live' = live /\ live \subseteq Node /\ live \cap Tid = {} /\ live \subseteq AsyncNode
      /\ \A n \in Node : (n \in Tid /\ Waits(n)) \/ n \in live =>
           At(n)' = At(n) /\ At(n) \in Location
  <2>1. \A u \in Tid : Waits(u)' = Waits(u)
    BY <1>5, <1>6, Places DEF Waits
  <2>2. live' = live /\ live \subseteq Node /\ live \cap Tid = {} /\ live \subseteq AsyncNode
    BY <1>0, Nobody DEF live, IInv, TypeOK
  <2>3. ASSUME NEW n \in Node, (n \in Tid /\ Waits(n)) \/ n \in live
        PROVE  At(n)' = At(n) /\ At(n) \in Location
    <3>1. CASE n \in live
      BY <1>0, <2>2, <3>1, Allocated DEF At
    <3>2. CASE n \in Tid /\ Waits(n)
      BY <1>5, <1>6, <3>2, WhoWaits DEF At
    <3> QED BY <2>3, <3>1, <3>2
  <2> QED BY <2>1, <2>2, <2>3
<1>8. TypeOK'
  <2>1. \A u \in Tid : pc'[u][1] \in {"idle", "asleep", "interrupts", "resolving", "notify"}
    BY <1>6 DEF IInv, TypeOK
  <2>2. /\ waiting' \subseteq Node /\ timeout_time' \subseteq Tid \cup live
        /\ signalled' \subseteq Tid /\ cleanup' \subseteq live \ waiting'
    BY <1>1, <1>2, <1>3, <1>4 DEF IInv, TypeOK
  <2> QED BY <1>0, <1>4, <1>7, <2>1, <2>2 DEF IInv, TypeOK
<1>9. ListInv'
  <2>1. ASSUME NEW m \in Location, NEW n \in Nodes(location_lists'[m])
        PROVE  At(n)' = m /\ ((n \in Tid /\ Waits(n)') \/ n \in live' \cap waiting')
    <3>1. n \in Nodes(location_lists[m]) /\ n \notin acted \cap AsyncNode
      BY <1>4
    <3>2. At(n) = m /\ ((n \in Tid /\ Waits(n)) \/ n \in live \cap waiting) /\ n \in Node
      BY <1>7, <3>1, Nobody DEF IInv, ListInv
    <3> QED BY <1>1, <1>7, <3>1, <3>2
  <2>2. ASSUME NEW n \in waiting'
        PROVE  /\ (n \in Tid /\ Waits(n)') \/ n \in live'
               /\ n \in Nodes(location_lists'[At(n)'])
    <3>1. /\ (n \in Tid /\ Waits(n)) \/ n \in live
          /\ n \in Nodes(location_lists[At(n)]) /\ n \notin acted /\ n \in Node
      BY <1>1, <1>7, Nobody DEF IInv, ListInv
    <3> QED BY <1>4, <1>7, <3>1
  <2> QED BY <1>4, <2>1, <2>2 DEF ListInv
<1>10. QueueInv'
  <2>1. ASSUME NEW u \in Tid, NEW n \in Nodes(to_resolve'[u]) \cup Nodes(todo[u])
        PROVE  n \in live /\ n \notin waiting' /\ async[n].isolate = u
    <3>1. CASE n \in Nodes(to_resolve[u]) \cup Nodes(todo[u])
      BY <1>1, <3>1, Queues
    <3>2. CASE n \notin Nodes(to_resolve[u]) \cup Nodes(todo[u])
      BY <1>1, <1>3, <1>4, <2>1, <3>2
    <3> QED BY <3>1, <3>2
  <2>2. ASSUME NEW n \in live \ waiting'
        PROVE  n \in Nodes(to_resolve'[async[n].isolate]) \cup Nodes(todo[async[n].isolate])
    <3>1. async[n].isolate \in Tid
      BY Allocated
    <3>2. CASE n \in acted
      BY <1>4, <1>7, <3>1, <3>2
    <3>3. CASE n \notin acted
      <4>1. n \in Nodes(to_resolve[async[n].isolate]) \cup Nodes(todo[async[n].isolate])
        BY <1>1, <2>2, <3>3 DEF IInv, QueueInv
      <4> QED BY <1>4, <3>1, <4>1
    <3> QED BY <3>2, <3>3
  <2>3. ASSUME NEW u \in Tid PROVE Nodes(to_resolve'[u]) \cap Nodes(todo[u]) = {} /\ Once(todo[u])
    <3>1. Nodes(todo[u]) \cap acted = {}
      BY <1>3, Queues
    <3> QED BY <1>4, <3>1 DEF IInv, QueueInv
  <2> QED BY <1>0, <1>4, <1>7, <2>1, <2>2, <2>3 DEF QueueInv
<1>11. TimeInv'
  BY <1>0, <1>1, <1>3, <1>4, <1>7 DEF IInv, TimeInv
<1>12. CountInv'
  <2>1. ASSUME NEW n \in Node, woken_by'[n] # NotCounted
        PROVE  /\ n \notin waiting' /\ n \notin cleanup'
               /\ (n \in Tid /\ Waits(n)') \/ n \in live
               /\ \E u \in Tid : \E e \in 0 .. sync_clocks[At(n)'][u] : woken_by'[n] = <<u, e>>
    <3>1. CASE n \in acted \ stale
      BY <1>1, <1>3, <1>7, <3>1
    <3>2. CASE n \notin acted \ stale
      <4>1. woken_by'[n] = woken_by[n]
        BY <1>1, <3>2
      <4>2. /\ n \notin waiting /\ n \notin cleanup
            /\ (n \in Tid /\ Waits(n)) \/ n \in live
            /\ \E u \in Tid : \E e \in 0 .. sync_clocks[At(n)][u] : woken_by[n] = <<u, e>>
        BY <2>1, <4>1 DEF IInv, CountInv
      <4>3. n \notin stale
        BY <1>2, <1>3, <4>2
      <4> QED BY <1>1, <1>7, <4>1, <4>2, <4>3
    <3> QED BY <3>1, <3>2
  <2>2. \A n \in acted \ stale : woken_by'[n] # NotCounted
    BY <1>1, <1>3 DEF NotCounted
  <2>3. ASSUME NEW u \in Tid, Waits(u)', u \notin waiting' PROVE woken_by'[u] # NotCounted
    <3>1. u \notin stale /\ u \in Node /\ Waits(u)
      BY <1>2, <1>7, <2>3, Nobody
    <3> QED BY <1>1, <2>2, <2>3, <3>1 DEF IInv, CountInv
  <2>4. ASSUME NEW n \in live \ waiting', n \notin cleanup' PROVE woken_by'[n] # NotCounted
    <3>1. n \notin stale /\ n \in Node /\ n \notin cleanup
      BY <1>1, <1>7, <2>4
    <3> QED BY <1>1, <2>2, <2>4, <3>1 DEF IInv, CountInv
  <2>5. woken_by' = [n \in Node |-> woken_by'[n]]
    BY <1>1
  <2> QED BY <1>0, <1>7, <2>1, <2>3, <2>4, <2>5 DEF CountInv
<1> QED BY <1>0, <1>6, <1>8, <1>9, <1>10, <1>11, <1>12, NothingEndsWell DEF IInv

-----------------------------------------------------------------------------
(* The invariant holds, and what follows from it.                          *)

(* Nobody waits at the start.                                              *)
LEMMA InitInv == Init => IInv
<1> SUFFICES ASSUME Init PROVE IInv
  OBVIOUS
<1>1. /\ live = {} /\ waiting = {} /\ cleanup = {} /\ timeout_time = {} /\ timeout_tasks = {}
      /\ \A l \in Location : location_lists[l] = <<>>
      /\ \A t \in Tid : to_resolve[t] = <<>> /\ todo[t] = <<>> /\ pc[t] = IdlePc
      /\ \A n \in Node : woken_by[n] = NotCounted
      /\ resolve_tasks = {} /\ ended.result = "none"
  BY DEF Init, live, NothingEnded
<1>2. thread_clocks \in [Tid -> VClock] /\ sync_clocks \in [Location -> VClock]
  <2>1. ZeroClock \in VClock /\ \A t \in Tid : Increment(ZeroClock, t) \in VClock
    BY DEF ZeroClock, VClock, Increment
  <2> QED BY <2>1 DEF Init
<1>3. TypeOK
  <2>1. /\ location_lists \in [Location -> Seq(Node)]
        /\ to_resolve \in [Tid -> Seq(AsyncNode)] /\ todo \in [Tid -> Seq(AsyncNode)]
    BY EmptyNodes DEF Init
  <2>2. gen \in [Location -> 0 .. MaxGen] /\ interrupts \in 0 .. MaxInterrupts
    BY FutexAssumption DEF Init
  <2> QED BY <1>1, <1>2, <2>1, <2>2, Places DEF Init, TypeOK
<1>4. PlaceInv
  BY <1>1, Places DEF Init, PlaceInv
<1>5. ListInv /\ QueueInv /\ TimeInv
  BY <1>1, EmptyNodes DEF ListInv, QueueInv, TimeInv
<1>6. CountInv
  <2>1. \A t \in Tid : ~ Waits(t)
    BY <1>1, Places DEF Waits
  <2> QED BY <1>1, <2>1 DEF Init, CountInv
<1>7. CountedIsWoken /\ WokenIsOrdered
  BY <1>1 DEF CountedIsWoken, WokenIsOrdered
<1> QED BY <1>3, <1>4, <1>5, <1>6, <1>7 DEF IInv

(* One lemma per action.                                                   *)
LEMMA StepInv == IInv /\ [Next]_vars => IInv'
<1> SUFFICES ASSUME IInv, [Next]_vars PROVE IInv'
  OBVIOUS
<1>1. CASE UNCHANGED vars
  <2>1. UNCHANGED <<gen, location_lists, to_resolve, waiting, timeout_time, woken_by, async,
                    cleanup, timeout_tasks, resolve_tasks, todo, interrupted, signalled,
                    interrupts, pc, deinit, thread_clocks, sync_clocks, ended>>
    BY <1>1 DEF vars, listVars, asyncVars, taskVars, signalVars, clockVars
  <2>2. TypeOK' /\ CountedIsWoken' /\ WokenIsOrdered'
    BY <2>1 DEF IInv, TypeOK, CountedIsWoken, WokenIsOrdered, live
  <2> QED BY <2>1, <2>2, Frame DEF IInv
<1>2. ASSUME NEW t \in Tid, NEW l \in Location, WaitNotEqual(t, l) PROVE IInv'
  BY <1>2, WaitNotEqualStep
<1>3. ASSUME NEW t \in Tid, NEW l \in Location, NEW use_timeout \in BOOLEAN,
             WaitSync(t, l, use_timeout) \/ WaitAsync(t, l, use_timeout)
      PROVE  IInv'
  BY <1>3, WaitSyncStep, WaitAsyncStep
<1>4. ASSUME NEW t \in Tid, NEW l \in Location, NEW count \in {1, Cardinality(Node)},
             Notify(t, l, count)
      PROVE  IInv'
  BY <1>4, NotifyStep
<1>5. ASSUME NEW t \in Tid, WakeUp(t) \/ InterruptsHandled(t) \/ InterruptThrows(t) PROVE IInv'
  BY <1>5, WaitLoopStep
<1>6. ASSUME NEW t \in Tid, NotifyWake(t) PROVE IInv'
  BY <1>6, OtherStep
<1>7. ASSUME NEW t \in Tid, ResolvePromises(t) \/ ResolveNext(t) PROVE IInv'
  BY <1>7, ResolvePromisesStep, ResolveNextStep
<1>8. ASSUME NEW t \in Tid, Wake(t) \/ IsolateDeinit(t) PROVE IInv'
  BY <1>8, WakeStep, IsolateDeinitStep
<1>9. ASSUME NEW n \in AsyncNode, AsyncWaiterTimeout(n) PROVE IInv'
  BY <1>9, AsyncWaiterTimeoutStep
<1>10. ASSUME NEW l \in Location, Reallocate(l) PROVE IInv'
  BY <1>10, OtherStep
<1> QED BY <1>1, <1>2, <1>3, <1>4, <1>5, <1>6, <1>7, <1>8, <1>9, <1>10 DEF Next

(* Every list, flag and task is one of nodes, and clocks stay clocks.      *)
THEOREM TypeCorrect == Spec => []TypeOK
<1>1. IInv => TypeOK
  BY DEF IInv
<1> QED BY <1>1, InitInv, StepInv, PTL DEF Spec

(* An asynchronous node is on the list of its location while it waits, and *)
(* afterwards among the promises that its own isolate has a task to        *)
(* resolve: a notify, a timeout and the end of the isolate agree about who *)
(* has it.                                                                 *)
THEOREM OneOwner == Spec => []OwnedByOneList
<1>1. ASSUME IInv PROVE OwnedByOneList
  <2>1. ASSUME NEW n \in live
        PROVE  /\ (n \in Nodes(location_lists[At(n)])) = (n \in waiting)
               /\ QueuedBy(n) = IF n \in waiting THEN {} ELSE {async[n].isolate}
    <3>1. n \notin Tid /\ At(n) \in Location /\ async[n].isolate \in Tid
      BY <1>1, Allocated
    <3>2. (n \in Nodes(location_lists[At(n)])) = (n \in waiting)
      BY <1>1, <3>1 DEF IInv, ListInv
    <3>3. CASE n \in waiting
      BY <1>1, <3>2, <3>3 DEF QueuedBy, IInv, QueueInv
    <3>4. CASE n \notin waiting
      <4>1. \A t \in QueuedBy(n) : t = async[n].isolate
        BY <1>1 DEF QueuedBy, IInv, QueueInv
      <4>2. async[n].isolate \in QueuedBy(n)
        BY <1>1, <3>1, <3>4 DEF QueuedBy, IInv, QueueInv
      <4> QED BY <3>2, <3>4, <4>1, <4>2
    <3> QED BY <3>2, <3>3, <3>4
  <2> QED BY <1>1, <2>1 DEF OwnedByOneList, IInv, QueueInv
<1> QED BY <1>1, InitInv, StepInv, PTL DEF Spec

(* No list and no timeout task is left with a node that has been deleted.  *)
THEOREM NothingDangles == Spec => []NoDanglingNode
<1>1. IInv => NoDanglingNode
  BY DEF IInv, ListInv, QueueInv, TimeInv, NoDanglingNode
<1> QED BY <1>1, InitInv, StepInv, PTL DEF Spec

(* What a notify has counted comes to "ok" and what it has not to          *)
(* "timed-out", for every interleaving of the two.                         *)
THEOREM CountedWakes == Spec => []CountedIsWoken
<1>1. IInv => CountedIsWoken
  BY DEF IInv
<1> QED BY <1>1, InitInv, StepInv, PTL DEF Spec

(* Who is woken has acquired the clock of the notify that counted it.      *)
THEOREM WokenAfterNotify == Spec => []WokenIsOrdered
<1>1. IInv => WokenIsOrdered
  BY DEF IInv
<1> QED BY <1>1, InitInv, StepInv, PTL DEF Spec

-----------------------------------------------------------------------------
(* The futexes implement WaiterLists.  A waiter is in the order as long as *)
(* waiting_ is set, although a woken thread stays on its list: what takes  *)
(* waiters out of their order leaves that of the others (Takes), and a     *)
(* notify takes the first of those it may wake (WakeCounts).               *)

(* What comes to the end of a list comes after all its nodes.              *)
LEMMA AppendOrder ==
  ASSUME NEW X, NEW s \in Seq(X), NEW x \in X
  PROVE  InOrder(Append(s, x)) = InOrder(s) \cup (Nodes(s) \X {x})
<1> DEFINE a == Append(s, x)
<1>1. /\ Len(a) = Len(s) + 1 /\ Len(s) \in Nat
      /\ a[Len(a)] = x /\ \A i \in 1 .. Len(s) : a[i] = s[i]
  OBVIOUS
<1>2. Nodes(a) = Nodes(s) \cup {x}
  BY AppendNodes
<1> HIDE DEF a
<1>3. \A i \in 1 .. Len(a) : i \in 1 .. Len(s) \/ i = Len(a)
  BY <1>1
<1>4. 1 .. Len(s) \subseteq 1 .. Len(a) /\ Len(a) \in 1 .. Len(a)
      /\ \A i \in 1 .. Len(s) : i < Len(a)
  BY <1>1
<1>5. ASSUME NEW p \in InOrder(a) PROVE p \in InOrder(s) \cup (Nodes(s) \X {x})
  <2>1. PICK i, j \in 1 .. Len(a) : i < j /\ a[i] = p[1] /\ a[j] = p[2]
    BY DEF InOrder
  <2>2. p = <<p[1], p[2]>>
    BY DEF InOrder
  <2>3. i \in 1 .. Len(s)
    BY <1>1, <2>1
  <2>4. p[1] = s[i] /\ p[1] \in Nodes(s)
    BY <1>1, <2>1, <2>3 DEF Nodes
  <2>5. CASE j \in 1 .. Len(s)
    <3>1. p[2] = s[j] /\ p[2] \in Nodes(s)
      BY <1>1, <2>1, <2>5 DEF Nodes
    <3> QED BY <2>1, <2>2, <2>3, <2>4, <2>5, <3>1 DEF InOrder
  <2>6. CASE j = Len(a)
    BY <1>1, <2>1, <2>2, <2>4, <2>6
  <2> QED BY <1>3, <2>5, <2>6
<1>6. ASSUME NEW p \in InOrder(s) PROVE p \in InOrder(a)
  <2>1. PICK i, j \in 1 .. Len(s) : i < j /\ s[i] = p[1] /\ s[j] = p[2]
    BY DEF InOrder
  <2> QED BY <1>1, <1>2, <1>4, <2>1 DEF InOrder
<1>7. ASSUME NEW y \in Nodes(s) PROVE <<y, x>> \in InOrder(a)
  <2>1. PICK i \in 1 .. Len(s) : y = s[i]
    BY DEF Nodes
  <2> QED BY <1>1, <1>2, <1>4, <2>1 DEF InOrder
<1>8. ASSUME NEW p \in Nodes(s) \X {x} PROVE p \in InOrder(a)
  BY <1>7
<1>9. InOrder(a) = InOrder(s) \cup (Nodes(s) \X {x})
  BY <1>5, <1>6, <1>8
<1> QED BY <1>9 DEF a

(* What Kept keeps stays in its order.                                     *)
LEMMA KeptOrder ==
  ASSUME NEW X, NEW s \in Seq(X), NEW S
  PROVE  InOrder(Kept(s, S)) = InOrder(s) \cap (S \X S)
<1> DEFINE f == KeptUpTo(s, S)
           Before(n) == {p \in S \X S :
             \E i, j \in 1 .. n : i < j /\ s[i] = p[1] /\ s[j] = p[2]}
           Bad == {i \in 0 .. Len(s) : InOrder(f[i]) # Before(i)}
<1>1. Bad = {}
  <2> SUFFICES ASSUME Bad # {} PROVE FALSE
    OBVIOUS
  <2>1. PICK n \in Bad : \A k \in Bad : n <= k
    <3>1. Bad \in SUBSET Nat
      OBVIOUS
    <3> HIDE DEF Bad
    <3> QED BY <3>1, Least
  <2>2. KeepsStep(s, S, f, n)
    BY <2>1, KeptDefined
  <2>g. ASSUME NEW i \in 0 .. Len(s)
        PROVE  f[i] \in Seq(X) /\ Nodes(f[i]) = {s[j] : j \in 1 .. i} \cap S
    <3> HIDE DEF Bad, Before, f
    <3>1. \A k \in 0 .. Len(s) :
            KeptUpTo(s, S)[k] \in Seq(X) /\ Nodes(KeptUpTo(s, S)[k]) = {s[j] : j \in 1 .. k} \cap S
      BY KeptUpToNodes
    <3> QED BY <3>1 DEF f
  <2> HIDE DEF f
  <2>3. n # 0
    <3>1. ASSUME n = 0 PROVE InOrder(f[0]) = Before(0)
      <4>1. f[0] = <<>>
        BY <2>2, <3>1 DEF KeepsStep
      <4> QED BY <4>1 DEF InOrder, Nodes
    <3> QED BY <2>1, <3>1
  <2>4. n - 1 \in 0 .. Len(s) /\ n \in 1 .. Len(s)
    BY <2>1, <2>3
  <2>5. InOrder(f[n - 1]) = Before(n - 1)
    <3>1. ~ (n <= n - 1)
      BY <2>4
    <3>2. n - 1 \notin Bad
      <4> HIDE DEF Bad
      <4> QED BY <2>1, <3>1
    <3> HIDE DEF Before
    <3> QED BY <2>4, <3>2
  <2>6. CASE s[n] \in S
    <3>1. f[n] = Append(f[n - 1], s[n]) /\ s[n] \in X
      BY <2>2, <2>3, <2>4, <2>6 DEF KeepsStep
    <3>2. InOrder(f[n]) = Before(n - 1) \cup (Nodes(f[n - 1]) \X {s[n]})
      BY <2>4, <2>5, <2>g, <3>1, AppendOrder
    <3>3. Before(n) = Before(n - 1) \cup (({s[j] : j \in 1 .. n - 1} \cap S) \X {s[n]})
      <4>1. ASSUME NEW p \in Before(n), p \notin Before(n - 1)
            PROVE  p \in ({s[j] : j \in 1 .. n - 1} \cap S) \X {s[n]}
        <5>1. PICK i, j \in 1 .. n : i < j /\ s[i] = p[1] /\ s[j] = p[2]
          OBVIOUS
        <5>2. i \in 1 .. n - 1 /\ (j \in 1 .. n - 1 \/ j = n)
          BY <2>4, <5>1
        <5>3. j = n
          BY <4>1, <5>1, <5>2
        <5>4. p = <<p[1], p[2]>> /\ p[1] \in S
          OBVIOUS
        <5> QED BY <5>1, <5>2, <5>3, <5>4
      <4>2. ASSUME NEW p \in Before(n - 1) PROVE p \in Before(n)
        BY <2>4
      <4>3. ASSUME NEW y \in {s[j] : j \in 1 .. n - 1} \cap S PROVE <<y, s[n]>> \in Before(n)
        <5>1. PICK j \in 1 .. n - 1 : y = s[j]
          OBVIOUS
        <5>2. j \in 1 .. n /\ n \in 1 .. n /\ j < n
          BY <2>4
        <5> QED BY <2>6, <5>1, <5>2
      <4>4. ASSUME NEW p \in ({s[j] : j \in 1 .. n - 1} \cap S) \X {s[n]} PROVE p \in Before(n)
        <5>1. p = <<p[1], s[n]>> /\ p[1] \in {s[j] : j \in 1 .. n - 1} \cap S
          OBVIOUS
        <5> HIDE DEF Before
        <5> QED BY <4>3, <5>1
      <4> HIDE DEF Before
      <4> QED BY <4>1, <4>2, <4>4
    <3>4. Nodes(f[n - 1]) = {s[j] : j \in 1 .. n - 1} \cap S
      BY <2>4, <2>g
    <3>5. InOrder(f[n]) = Before(n)
      <4> HIDE DEF Before
      <4> QED BY <3>2, <3>3, <3>4
    <3> QED BY <2>1, <3>5
  <2>7. CASE s[n] \notin S
    <3>1. f[n] = f[n - 1]
      BY <2>2, <2>3, <2>7 DEF KeepsStep
    <3>2. Before(n) = Before(n - 1)
      <4>1. ASSUME NEW p \in Before(n) PROVE p \in Before(n - 1)
        <5>1. PICK i, j \in 1 .. n : i < j /\ s[i] = p[1] /\ s[j] = p[2]
          OBVIOUS
        <5>2. p[1] \in S /\ p[2] \in S
          OBVIOUS
        <5>3. i \in 1 .. n - 1 /\ j \in 1 .. n - 1
          BY <2>4, <2>7, <5>1, <5>2
        <5> QED BY <5>1, <5>3
      <4>2. ASSUME NEW p \in Before(n - 1) PROVE p \in Before(n)
        BY <2>4
      <4> HIDE DEF Before
      <4> QED BY <4>1, <4>2
    <3>3. InOrder(f[n]) = Before(n)
      <4> HIDE DEF Before
      <4> QED BY <2>5, <3>1, <3>2
    <3> QED BY <2>1, <3>3
  <2> QED BY <2>6, <2>7
<1>2. InOrder(Kept(s, S)) = Before(Len(s))
  <2>1. Len(s) \in 0 .. Len(s)
    OBVIOUS
  <2> HIDE DEF Before
  <2> QED BY <1>1, <2>1 DEF Kept
<1>3. Before(Len(s)) = InOrder(s) \cap (S \X S)
  <2>1. ASSUME NEW p \in Before(Len(s)) PROVE p \in InOrder(s)
    <3>1. PICK i, j \in 1 .. Len(s) : i < j /\ s[i] = p[1] /\ s[j] = p[2]
      OBVIOUS
    <3>2. p[1] \in Nodes(s) /\ p[2] \in Nodes(s) /\ p = <<p[1], p[2]>>
      BY <3>1 DEF Nodes
    <3> QED BY <3>1, <3>2 DEF InOrder
  <2>2. ASSUME NEW p \in InOrder(s) \cap (S \X S) PROVE p \in Before(Len(s))
    BY DEF InOrder
  <2>3. Before(Len(s)) \subseteq S \X S
    OBVIOUS
  <2> HIDE DEF Before
  <2> QED BY <2>1, <2>2, <2>3
<1> QED BY <1>2, <1>3

(* To take nodes out leaves the order of the others.                       *)
LEMMA WithoutOrder ==
  ASSUME NEW X, NEW s \in Seq(X), NEW D, NEW W, D \cap W = {}
  PROVE  InOrder(Without(s, D)) \cap (W \X W) = InOrder(s) \cap (W \X W)
<1> DEFINE K == Nodes(s) \ D
<1>1. InOrder(Without(s, D)) = InOrder(s) \cap (K \X K)
  <2> HIDE DEF K
  <2>1. InOrder(Kept(s, K)) = InOrder(s) \cap (K \X K)
    BY KeptOrder
  <2> QED BY <2>1 DEF Without, K
<1>2. ASSUME NEW p \in InOrder(s) \cap (W \X W) PROVE p \in K \X K
  BY DEF InOrder
<1> HIDE DEF K
<1> QED BY <1>1, <1>2

(* A set of naturals with a bound has a greatest element.                  *)
LEMMA Greatest ==
  ASSUME NEW n \in Nat, NEW S \in SUBSET (1 .. n), S # {}
  PROVE  \E m \in S : \A k \in S : k <= m
<1> DEFINE T == {n - k : k \in S}
<1>1. T \in SUBSET Nat /\ T # {}
  <2>1. \A k \in S : n - k \in Nat
    OBVIOUS
  <2> QED BY <2>1
<1>2. PICK d \in T : \A e \in T : d <= e
  <2> HIDE DEF T
  <2> QED BY <1>1, Least
<1>3. PICK m \in S : d = n - m
  OBVIOUS
<1>4. ASSUME NEW k \in S PROVE k <= m
  <2>1. n - k \in T
    OBVIOUS
  <2>2. d <= n - k /\ k \in Nat /\ m \in Nat
    BY <1>2, <2>1
  <2> QED BY <1>3, <2>2
<1> QED BY <1>4

(* The loop of Wake: it takes the first of the eligible positions until it *)
(* has taken count of them.                                                *)
LEMMA CountReached ==
  ASSUME NEW n \in Nat, NEW E \in SUBSET (1 .. n), NEW count \in Nat, NEW P \in SUBSET E,
         \A i \in P : Cardinality({j \in E : j < i}) < count,
         \A i \in P, j \in E : j < i => j \in P
  PROVE  /\ IsFiniteSet(P) /\ Cardinality(P) <= count
         /\ (\A b \in E \ P : ~ (Cardinality({j \in E : j < b}) < count)) =>
              Cardinality(P) = count \/ P = E
<1> DEFINE Under(i) == {j \in E : j < i}
<1>1. /\ IsFiniteSet(1 .. n)
      /\ \A T \in SUBSET (1 .. n) : IsFiniteSet(T) /\ Cardinality(T) \in Nat
  <2>1. IsFiniteSet(1 .. n)
    BY FS_Interval
  <2>2. ASSUME NEW T \in SUBSET (1 .. n) PROVE IsFiniteSet(T)
    BY <2>1, FS_Subset
  <2> QED BY <2>1, <2>2, FS_CardinalityType
<1>2. IsFiniteSet(P) /\ Cardinality(P) \in Nat /\ P \in SUBSET (1 .. n)
  BY <1>1
<1>3. Cardinality(P) <= count
  <2>1. CASE P = {}
    BY <2>1, FS_EmptySet
  <2>2. CASE P # {}
    <3>1. PICK g \in P : \A k \in P : k <= g
      BY <1>2, <2>2, Greatest
    <3>2. P \ {g} \subseteq Under(g) /\ Under(g) \in SUBSET (1 .. n)
      <4>1. ASSUME NEW k \in P \ {g} PROVE k \in E /\ k < g
        BY <1>2, <3>1
      <4> QED BY <4>1
    <3>3. Cardinality(Under(g)) < count
      BY <3>1
    <3> HIDE DEF Under
    <3>4. IsFiniteSet(Under(g)) /\ Cardinality(Under(g)) \in Nat
      BY <1>1, <3>2
    <3>5. Cardinality(P \ {g}) <= Cardinality(Under(g))
      BY <3>2, <3>4, FS_Subset
    <3>6. Cardinality(P \ {g}) = Cardinality(P) - 1
      BY <1>2, <3>1, FS_RemoveElement
    <3> QED BY <1>2, <3>3, <3>4, <3>5, <3>6
  <2> QED BY <2>1, <2>2
<1>4. ASSUME \A b \in E \ P : ~ (Cardinality(Under(b)) < count), P # E
      PROVE  Cardinality(P) = count
  <2>1. E \ P \in SUBSET Nat /\ E \ P # {}
    <3>1. E \ P \in SUBSET Nat
      OBVIOUS
    <3>2. P \subseteq E /\ P # E
      BY <1>4
    <3>3. E \ P # {}
      BY <3>2, Zenon
    <3> QED BY <3>1, <3>3
  <2>2. PICK b \in E \ P : \A k \in E \ P : b <= k
    <3> DEFINE D == E \ P
    <3>1. D \in SUBSET Nat /\ D # {}
      BY <2>1
    <3> HIDE DEF D
    <3>2. \E b \in D : \A k \in D : b <= k
      BY <3>1, Least
    <3> QED BY <3>2 DEF D
  <2>3. Under(b) \subseteq P /\ Under(b) \in SUBSET (1 .. n)
    <3>1. ASSUME NEW j \in E, j < b PROVE j \in P
      BY <2>2, <3>1
    <3> QED BY <3>1
  <2>4. ~ (Cardinality(Under(b)) < count)
    BY <1>4
  <2> HIDE DEF Under
  <2>5. Cardinality(Under(b)) <= Cardinality(P) /\ Cardinality(Under(b)) \in Nat
    BY <1>1, <1>2, <2>3, FS_Subset
  <2> QED BY <1>2, <1>3, <2>4, <2>5
<1> QED BY <1>2, <1>3, <1>4

(* As many nodes as positions.                                             *)
LEMMA CountNodes ==
  ASSUME NEW X, NEW s \in Seq(X), Once(s), NEW P \in SUBSET (1 .. Len(s)), IsFiniteSet(P)
  PROVE  Cardinality({s[i] : i \in P}) = Cardinality(P)
<1> DEFINE T == {s[i] : i \in P}
           f == [i \in P |-> s[i]]
<1>1. f \in [P -> T] /\ \A t \in T : \E i \in P : f[i] = t
  OBVIOUS
<1>2. \A i, j \in P : f[i] = f[j] => i = j
  BY DEF Once
<1> HIDE DEF f, T
<1>3. f \in Bijection(P, T)
  BY <1>1, <1>2 DEF Bijection, Injection, IsInjective, Surjection
<1>4. ExistsBijection(P, T)
  BY <1>3 DEF ExistsBijection
<1>5. Cardinality(T) = Cardinality(P)
  BY <1>4, FS_Bijection
<1> QED BY <1>5 DEF T

(* There are as many nodes as a number can tell.                           *)
LEMMA CountIsNat == \A count \in {1, Cardinality(Node)} : count \in Nat
<1>1. IsFiniteSet(Tid)
  BY MaxThreadsAssumption, FS_Interval DEF Tid
<1>2. IsFiniteSet(Node)
  BY <1>1, FutexAssumption, FS_Union DEF Node
<1> QED BY <1>2, FS_CardinalityType

\* A backing store that an asynchronous waiter remembers is not a later one.
StoreInv == \A n \in live : async[n].store <= gen[async[n].location]

\* The step takes the waiters of S, and nobody else, off their lists.
Takes(S) ==
  /\ waiting' = waiting \ S
  /\ \A n \in waiting' :
       At(n)' = At(n) /\ (n \in live') = (n \in live) /\ (n \in live => async'[n] = async[n])
  /\ \A l \in Location :
       \/ location_lists'[l] = location_lists[l]
       \/ \E D : D \cap waiting' = {} /\ location_lists'[l] = Without(location_lists[l], D)
  /\ gen' = gen

(* A backing store that is allocated is younger than those before it.      *)
LEMMA StoreStep == IInv /\ StoreInv /\ [Next]_vars => StoreInv'
<1> SUFFICES ASSUME IInv, StoreInv, [Next]_vars PROVE StoreInv'
  OBVIOUS
<1>1. gen \in [Location -> Nat] /\ \A n \in live : async[n].location \in Location /\ async[n].store \in Nat
  <2>1. gen \in [Location -> Nat]
    BY FutexAssumption DEF IInv, TypeOK
  <2> QED BY <2>1, Allocated
<1>2. CASE gen' = gen /\ live' \subseteq live /\ \A n \in live' : async'[n] = async[n]
  BY <1>2 DEF StoreInv
<1>3. ASSUME NEW t \in Tid, NEW l \in Location, NEW use_timeout \in BOOLEAN,
             WaitAsync(t, l, use_timeout)
      PROVE  StoreInv'
  <2>1. PICK n \in AsyncNode \ live :
          async' = [m \in live \cup {n} |->
                      IF m = n THEN [isolate |-> t, location |-> l, store |-> gen[l]]
                               ELSE async[m]]
    BY <1>3 DEF WaitAsync
  <2>2. gen' = gen
    BY <1>3 DEF WaitAsync
  <2>3. live' = live \cup {n} /\ \A m \in live : async'[m] = async[m]
    BY <2>1 DEF live
  <2>4. async'[n].location = l /\ async'[n].store = gen[l] /\ gen[l] <= gen[l]
    BY <1>1, <2>1
  <2> QED BY <2>2, <2>3, <2>4 DEF StoreInv
<1>4. ASSUME NEW l \in Location, Reallocate(l) PROVE StoreInv'
  <2>1. gen' = [gen EXCEPT ![l] = @ + 1] /\ async' = async
    BY <1>4 DEF Reallocate, asyncVars
  <2>2. \A m \in Location : gen[m] \in Nat /\ gen'[m] \in Nat /\ gen[m] <= gen'[m]
    BY <1>1, <2>1
  <2>3. live' = live
    BY <2>1 DEF live
  <2> QED BY <1>1, <2>1, <2>2, <2>3 DEF StoreInv
<1>5. ASSUME NEW S, Delete(S), gen' = gen PROVE StoreInv'
  <2>1. live' \subseteq live /\ \A n \in live' : async'[n] = async[n]
    BY <1>5 DEF Delete, live
  <2> QED BY <1>2, <1>5, <2>1
<1>6. ASSUME gen' = gen, async' = async PROVE StoreInv'
  <2>1. live' = live
    BY <1>6 DEF live
  <2> QED BY <1>2, <1>6, <2>1
<1>7. ASSUME NEW t \in Tid, ResolveNext(t) PROVE StoreInv'
  BY <1>5, <1>7 DEF ResolveNext, Resolve
<1>8. ASSUME NEW t \in Tid, IsolateDeinit(t) PROVE StoreInv'
  BY <1>5, <1>8 DEF IsolateDeinit
<1>9. ASSUME NEW n \in AsyncNode, AsyncWaiterTimeout(n) PROVE StoreInv'
  <2>1. gen' = gen /\ (Delete({n}) \/ async' = async)
    BY <1>9 DEF AsyncWaiterTimeout, Resolve, asyncVars
  <2> QED BY <1>5, <1>6, <2>1
<1>10. ASSUME UNCHANGED vars PROVE StoreInv'
  BY <1>6, <1>10 DEF vars, asyncVars
<1>11. ASSUME NEW t \in Tid, NEW l \in Location, NEW use_timeout \in BOOLEAN,
              WaitNotEqual(t, l) \/ WaitSync(t, l, use_timeout)
       PROVE  StoreInv'
  BY <1>6, <1>11 DEF WaitNotEqual, WaitSync, asyncVars
<1>12. ASSUME NEW t \in Tid, NEW l \in Location, NEW count, Notify(t, l, count) PROVE StoreInv'
  BY <1>6, <1>12 DEF Notify, asyncVars
<1>13. ASSUME NEW t \in Tid,
              \/ WakeUp(t) \/ InterruptsHandled(t) \/ InterruptThrows(t) \/ NotifyWake(t)
              \/ ResolvePromises(t) \/ Wake(t)
       PROVE  StoreInv'
  BY <1>6, <1>13 DEF WakeUp, InterruptsHandled, InterruptThrows, NotifyWake, ResolvePromises, Wake,
                     asyncVars
<1> QED BY <1>3, <1>4, <1>7, <1>8, <1>9, <1>10, <1>11, <1>12, <1>13 DEF Next

(* The waiters and their places.                                           *)
LEMMA Waiting ==
  /\ Lists!waiters = waiting /\ WaitsAt = [n \in waiting |-> At(n)]
  /\ \A n \in waiting : WaitsAt[n] = At(n)
BY DEF Lists!waiters, WaitsAt

(* Whom nobody takes off a list keeps its place and its turn.              *)
LEMMA TakesRemoves ==
  ASSUME IInv, NEW S, Takes(S)
  PROVE  Lists!Remove(S)
<1>1. WaitsAt' = [n \in Lists!waiters \ S |-> WaitsAt[n]]
  <2>1. WaitsAt' = [n \in waiting' |-> At(n)']
    BY DEF WaitsAt
  <2>2. waiting' = waiting \ S /\ \A n \in waiting' : At(n)' = WaitsAt[n]
    BY Waiting DEF Takes
  <2> QED BY <2>1, <2>2, Waiting
<1>2. Earlier' = {p \in Earlier : p[1] \notin S /\ p[2] \notin S}
  <2> DEFINE W == waiting'
  <2>1. \A l \in Location :
          InOrder(location_lists'[l]) \cap (W \X W) = InOrder(location_lists[l]) \cap (W \X W)
    <3> SUFFICES ASSUME NEW l \in Location
                 PROVE  InOrder(location_lists'[l]) \cap (W \X W)
                          = InOrder(location_lists[l]) \cap (W \X W)
      OBVIOUS
    <3>1. location_lists[l] \in Seq(Node)
      BY DEF IInv, TypeOK
    <3>2. ASSUME NEW D, D \cap waiting' = {}, location_lists'[l] = Without(location_lists[l], D)
          PROVE  InOrder(location_lists'[l]) \cap (W \X W)
                   = InOrder(location_lists[l]) \cap (W \X W)
      BY <3>1, <3>2, WithoutOrder
    <3> QED BY <3>2 DEF Takes
  <2>2. W = waiting \ S
    BY DEF Takes
  <2>3. Earlier' = {p \in W \X W : \E l \in Location : p \in InOrder(location_lists'[l])}
    BY DEF Earlier, InOrder, Nodes
  <2> HIDE DEF W
  <2>4. ASSUME NEW p \in Earlier' PROVE p \in Earlier /\ p[1] \notin S /\ p[2] \notin S
    <3>1. PICK l \in Location : p \in InOrder(location_lists'[l]) \cap (W \X W)
      BY <2>3
    <3>2. p \in InOrder(location_lists[l]) \cap (W \X W)
      BY <2>1, <3>1
    <3> QED BY <2>2, <3>2 DEF Earlier
  <2>5. ASSUME NEW p \in Earlier, p[1] \notin S, p[2] \notin S PROVE p \in Earlier'
    <3>1. PICK l \in Location : p \in InOrder(location_lists[l])
      BY DEF Earlier
    <3>2. p \in W \X W
      BY <2>2, <2>5 DEF Earlier
    <3>3. p \in InOrder(location_lists'[l])
      BY <2>1, <3>1, <3>2
    <3> QED BY <2>3, <3>2, <3>3
  <2> QED BY <2>4, <2>5
<1>3. Orphans' = Orphans \ S
  <2>1. Orphans' = {n \in waiting' \cap live' : async'[n].store # gen'[async'[n].location]}
    BY DEF Orphans
  <2>2. waiting' \cap live' = (waiting \cap live) \ S
    BY DEF Takes
  <2>3. \A n \in waiting' \cap live' : async'[n] = async[n]
    BY DEF Takes
  <2> QED BY <2>1, <2>2, <2>3 DEF Orphans, Takes
<1> QED BY <1>1, <1>2, <1>3 DEF Lists!Remove

(* Who waits no longer is not missed.                                      *)
LEMMA NobodyRemoved ==
  ASSUME NEW S, S \cap waiting = {}, Lists!Remove(S)
  PROVE  UNCHANGED <<WaitsAt, Earlier, Orphans>>
<1>1. WaitsAt' = WaitsAt
  <2>1. Lists!waiters \ S = waiting
    BY Waiting
  <2>2. WaitsAt' = [n \in waiting |-> WaitsAt[n]]
    BY <2>1 DEF Lists!Remove
  <2> QED BY <2>2, Waiting
<1>2. Earlier' = Earlier
  <2>1. \A p \in Earlier : p[1] \in waiting /\ p[2] \in waiting
    BY DEF Earlier
  <2> QED BY <2>1 DEF Lists!Remove
<1>3. Orphans' = Orphans
  <2>1. Orphans \subseteq waiting
    BY DEF Orphans
  <2> QED BY <2>1 DEF Lists!Remove
<1> QED BY <1>1, <1>2, <1>3

(* Waits that end with nobody to hear of it.                               *)
LEMMA EndMaps ==
  ASSUME IInv, NEW S \in SUBSET Node, Takes(S), Notified' = Notified \ S,
         Asked' = Asked, Answer' = "none"
  PROVE  Lists!Next
<1>1. Lists!End(S)
  BY TakesRemoves DEF Lists!End
<1> QED BY <1>1 DEF Lists!Next

(* A wait that comes to "ok".                                              *)
LEMMA ReturnMaps ==
  ASSUME IInv, NEW n \in Node \ waiting, Takes({n}), n \in Notified,
         Notified' = Notified \ {n}, Asked' = Asked, Answer' = "ok"
  PROVE  Lists!Next
<1>1. Lists!Remove({n})
  BY TakesRemoves
<1>2. UNCHANGED <<WaitsAt, Earlier, Orphans>>
  BY <1>1, NobodyRemoved
<1>3. Lists!Return(n)
  BY <1>2 DEF Lists!Return
<1> QED BY <1>3 DEF Lists!Next

(* A wait that comes to "timed-out".                                       *)
LEMMA TimeOutMaps ==
  ASSUME IInv, NEW n \in Node \cap waiting, Takes({n}), Notified' = Notified,
         Asked' = Asked, Answer' = "timed-out"
  PROVE  Lists!Next
<1>1. Lists!TimeOut(n)
  BY TakesRemoves, Waiting DEF Lists!TimeOut
<1> QED BY <1>1 DEF Lists!Next

(* What the step of a thread says of a wait that ends.                     *)
LEMMA Answers ==
  ASSUME IInv
  PROVE  /\ NothingEnds => Answer' = "none"
         /\ woken_by' = woken_by => Notified' = Notified
         /\ \A n \in Node : \A t, result : Ends(n, t, result) =>
              /\ Notified' = Notified \ {n}
              /\ Answer' = IF result \in {"ok", "timed-out"} THEN result ELSE "none"
<1>1. NothingEnds => Answer' = "none"
  BY DEF NothingEnds, NothingEnded, Answer
<1>2. woken_by' = woken_by => Notified' = Notified
  BY DEF Notified
<1>3. ASSUME NEW n \in Node, NEW t, NEW result, Ends(n, t, result)
      PROVE  /\ Notified' = Notified \ {n}
             /\ Answer' = IF result \in {"ok", "timed-out"} THEN result ELSE "none"
  <2>1. woken_by = [m \in Node |-> woken_by[m]]
    BY DEF IInv, CountInv
  <2>2. woken_by'[n] = NotCounted /\ \A m \in Node \ {n} : woken_by'[m] = woken_by[m]
    BY <1>3, <2>1 DEF Ends
  <2>3. Notified' = {m \in Node : woken_by'[m] # NotCounted}
    BY DEF Notified
  <2>4. Notified' = Notified \ {n}
    BY <2>2, <2>3 DEF Notified
  <2>5. ended'.result = result
    BY <1>3 DEF Ends
  <2> QED BY <2>4, <2>5 DEF Answer
<1> QED BY <1>1, <1>2, <1>3

(* A thread goes to another place, and neither is in a notify.             *)
LEMMA NotAskedMoves ==
  ASSUME IInv, NEW t \in Tid, NEW p, pc' = [pc EXCEPT ![t] = p],
         pc[t][1] # "notify", p[1] # "notify"
  PROVE  /\ pc'[t] = p /\ \A u \in Tid \ {t} : pc'[u] = pc[u]
         /\ Asked' = Asked
<1>1. pc = [u \in Tid |-> pc[u]]
  BY DEF IInv, PlaceInv
<1>2. pc'[t] = p /\ \A u \in Tid \ {t} : pc'[u] = pc[u]
  BY <1>1
<1>3. Asked' = [u \in Tid |-> IF pc'[u][1] = "notify" THEN <<pc'[u][2], pc'[u][3]>> ELSE <<>>]
  BY DEF Asked
<1>4. \A u \in Tid : (IF pc'[u][1] = "notify" THEN <<pc'[u][2], pc'[u][3]>> ELSE <<>>) =
                     (IF pc[u][1] = "notify" THEN <<pc[u][2], pc[u][3]>> ELSE <<>>)
  BY <1>2
<1>5. Asked' = Asked
  BY <1>3, <1>4 DEF Asked
<1> QED BY <1>2, <1>5

(* Who goes on waiting waits where it did.                                 *)
LEMMA Stays ==
  ASSUME IInv, NEW S, waiting' = waiting \ S, gen' = gen,
         live \ S \subseteq live', live' \subseteq live,
         \A n \in live' : async'[n] = async[n],
         \A u \in Tid : Waits(u) /\ u \notin S => pc'[u][2] = pc[u][2],
         \A l \in Location :
           \/ location_lists'[l] = location_lists[l]
           \/ \E D : D \cap waiting' = {} /\ location_lists'[l] = Without(location_lists[l], D)
  PROVE  Takes(S)
<1>1. ASSUME NEW n \in waiting'
      PROVE  At(n)' = At(n) /\ (n \in live') = (n \in live) /\ (n \in live => async'[n] = async[n])
  <2>1. n \in waiting /\ n \notin S /\ ((n \in Tid /\ Waits(n)) \/ n \in live)
    BY DEF IInv, ListInv
  <2>2. CASE n \in live
    BY <2>1, <2>2, Allocated DEF At
  <2>3. CASE n \in Tid /\ Waits(n) /\ n \notin live
    BY <2>1, <2>3 DEF At
  <2> QED BY <2>1, <2>2, <2>3
<1> QED BY <1>1 DEF Takes

(* What does not touch the lists takes nobody off them.                    *)
LEMMA StayAll ==
  ASSUME IInv, UNCHANGED <<gen, location_lists, waiting, async>>,
         \A u \in Tid : Waits(u) => pc'[u][2] = pc[u][2]
  PROVE  Takes({})
<1>1. live' = live
  BY DEF live
<1> QED BY <1>1, Stays

(* Steps that end no wait and wake nobody.                                 *)
LEMMA QuietMaps ==
  ASSUME IInv, UNCHANGED <<gen, location_lists, waiting, async, woken_by, pc>>, NothingEnds
  PROVE  Lists!Next
<1>1. Takes({})
  BY StayAll
<1>2. Asked' = Asked
  BY DEF Asked
<1> QED BY <1>1, <1>2, Answers, EndMaps

(* A wait whose value differs.                                             *)
LEMMA WaitNotEqualMaps ==
  ASSUME IInv, NEW t \in Tid, NEW l \in Location, WaitNotEqual(t, l)
  PROVE  Lists!Next
<1>1. /\ Ends(t, t, "not-equal") /\ Idle(t)
      /\ UNCHANGED <<gen, location_lists, waiting, async, pc>>
  BY DEF WaitNotEqual, asyncVars
<1>2. t \in Node /\ t \notin waiting /\ ~ Waits(t)
  BY <1>1, Nobody, WhoWaits
<1>3. live' = live
  BY <1>1 DEF live
<1>4. Takes({t})
  BY <1>1, <1>2, <1>3, Stays
<1>5. Asked' = Asked
  BY <1>1 DEF Asked
<1>6. Notified' = Notified \ {t} /\ Answer' = "none"
  BY <1>1, <1>2, Answers
<1> QED BY <1>2, <1>4, <1>5, <1>6, EndMaps

(* A node that comes to the end of a list comes after who waits there.     *)
LEMMA Arrives ==
  ASSUME IInv, NEW n \in Node \ waiting, NEW l \in Location,
         waiting' = waiting \cup {n},
         location_lists' = [location_lists EXCEPT ![l] = Append(@, n)],
         \A m \in Location : n \notin Nodes(location_lists[m])
  PROVE  Earlier' = Earlier \cup {<<m, n>> : m \in {w \in Lists!waiters : WaitsAt[w] = l}}
<1> DEFINE Here == {w \in Lists!waiters : WaitsAt[w] = l}
<1>1. Here = Nodes(location_lists[l]) \cap waiting
  <2>1. \A w \in waiting : WaitsAt[w] = l <=> w \in Nodes(location_lists[l])
    BY Waiting DEF IInv, ListInv
  <2> QED BY <2>1, Waiting
<1>2. location_lists \in [Location -> Seq(Node)] /\ location_lists[l] \in Seq(Node)
  BY DEF IInv, TypeOK
<1>3. /\ InOrder(location_lists'[l]) = InOrder(location_lists[l]) \cup (Nodes(location_lists[l]) \X {n})
      /\ \A m \in Location : m # l => location_lists'[m] = location_lists[m]
  <2>1. location_lists'[l] = Append(location_lists[l], n)
    BY <1>2
  <2> QED BY <1>2, <2>1, AppendOrder
<1>4. Earlier' = {p \in waiting' \X waiting' : \E m \in Location : p \in InOrder(location_lists'[m])}
  BY DEF Earlier, InOrder, Nodes
<1>5. \A m \in Location : InOrder(location_lists[m]) \subseteq Nodes(location_lists[m]) \X Nodes(location_lists[m])
  BY DEF InOrder
<1> HIDE DEF Here
<1>6. ASSUME NEW p \in Earlier' PROVE p \in Earlier \cup {<<m, n>> : m \in Here}
  <2>1. PICK m \in Location : p \in InOrder(location_lists'[m])
    BY <1>4
  <2>2. p \in waiting' \X waiting'
    BY <1>4
  <2>3. CASE p \in InOrder(location_lists[m])
    <3>1. p[1] # n /\ p[2] # n
      BY <1>5, <2>3
    <3>2. p \in waiting \X waiting
      BY <2>2, <3>1
    <3> QED BY <2>3, <3>2 DEF Earlier
  <2>4. CASE m = l /\ p \in Nodes(location_lists[l]) \X {n}
    <3>1. p = <<p[1], n>> /\ p[1] \in Nodes(location_lists[l]) /\ p[1] # n
      BY <2>4
    <3>2. p[1] \in Here
      BY <1>1, <2>2, <3>1
    <3> QED BY <3>1, <3>2
  <2> QED BY <1>3, <2>1, <2>3, <2>4
<1>7. ASSUME NEW p \in Earlier PROVE p \in Earlier'
  <2>1. PICK m \in Location : p \in InOrder(location_lists[m])
    BY DEF Earlier
  <2>2. p \in InOrder(location_lists'[m])
    BY <1>3, <2>1
  <2>3. p \in waiting' \X waiting'
    BY DEF Earlier
  <2> QED BY <1>4, <2>2, <2>3
<1>8. ASSUME NEW m \in Here PROVE <<m, n>> \in Earlier'
  <2>1. <<m, n>> \in InOrder(location_lists'[l]) /\ m \in waiting
    BY <1>1, <1>3
  <2> QED BY <1>4, <2>1
<1>9. Earlier' = Earlier \cup {<<m, n>> : m \in Here}
  BY <1>6, <1>7, <1>8
<1> QED BY <1>9 DEF Here

(* A thread waits behind those that wait already.                          *)
LEMMA WaitSyncMaps ==
  ASSUME IInv, NEW t \in Tid, NEW l \in Location, NEW use_timeout \in BOOLEAN,
         WaitSync(t, l, use_timeout)
  PROVE  Lists!Next
<1> DEFINE p == <<IF t \in interrupted THEN "interrupts" ELSE "asleep", l>>
<1>1. /\ Idle(t) /\ waiting' = waiting \cup {t}
      /\ location_lists' = [location_lists EXCEPT ![l] = Append(@, t)]
      /\ pc' = [pc EXCEPT ![t] = p] /\ NothingEnds
      /\ UNCHANGED <<gen, woken_by, async>>
  BY DEF WaitSync, asyncVars
<1>2. /\ pc[t][1] # "notify" /\ p[1] # "notify" /\ p[2] = l
  BY <1>1, Places DEF Idle
<1> HIDE DEF p
<1>3. pc'[t] = p /\ (\A u \in Tid \ {t} : pc'[u] = pc[u]) /\ Asked' = Asked
  BY <1>1, <1>2, NotAskedMoves
<1>4. t \in Node /\ t \notin waiting /\ t \notin live /\ t \notin Notified
      /\ \A m \in Location : t \notin Nodes(location_lists[m])
  <2>1. woken_by[t] = NotCounted
    BY <1>1, WhoWaits
  <2> QED BY <1>1, <2>1, Nobody, WhoWaits DEF Notified, IInv, TypeOK
<1>5. live' = live
  BY <1>1 DEF live
<1>6. At(t)' = l /\ \A n \in waiting : At(n)' = At(n)
  BY <1>1, <1>2, <1>3, <1>4 DEF At
<1>7. WaitsAt' = [n \in Lists!waiters \cup {t} |-> IF n = t THEN l ELSE WaitsAt[n]]
  <2>1. WaitsAt' = [n \in waiting' |-> At(n)']
    BY DEF WaitsAt
  <2>2. \A n \in waiting' : At(n)' = IF n = t THEN l ELSE WaitsAt[n]
    BY <1>1, <1>4, <1>6, Waiting
  <2> QED BY <1>1, <2>1, <2>2, Waiting
<1>8. Earlier' = Earlier \cup {<<m, t>> : m \in {w \in Lists!waiters : WaitsAt[w] = l}}
  BY <1>1, <1>4, Arrives
<1>9. Orphans' = Orphans
  BY <1>1, <1>4, <1>5 DEF Orphans
<1>10. Notified' = Notified /\ Answer' = "none"
  BY <1>1, Answers
<1>11. Lists!Wait(t, l)
  BY <1>3, <1>4, <1>7, <1>8, <1>9, <1>10, Waiting DEF Lists!Wait
<1> QED BY <1>4, <1>11 DEF Lists!Next

(* So does a node that WaitAsync allocates.                                *)
LEMMA WaitAsyncMaps ==
  ASSUME IInv, NEW t \in Tid, NEW l \in Location, NEW use_timeout \in BOOLEAN,
         WaitAsync(t, l, use_timeout)
  PROVE  Lists!Next
<1>1. PICK n \in AsyncNode \ live :
        /\ async' = [m \in live \cup {n} |->
                       IF m = n THEN [isolate |-> t, location |-> l, store |-> gen[l]]
                                ELSE async[m]]
        /\ waiting' = waiting \cup {n}
        /\ location_lists' = [location_lists EXCEPT ![l] = Append(@, n)]
        /\ NothingEnds
        /\ UNCHANGED <<gen, woken_by, pc>>
  BY DEF WaitAsync
<1>2. /\ n \in Node /\ n \notin Tid /\ n \notin waiting /\ n \notin Notified
      /\ \A m \in Location : n \notin Nodes(location_lists[m])
  BY NotAllocated DEF Notified
<1>3. /\ live' = live \cup {n} /\ \A m \in live : async'[m] = async[m]
      /\ async'[n].location = l /\ async'[n].store = gen[l]
  BY <1>1 DEF live
<1>4. At(n)' = l /\ \A m \in waiting : At(m)' = At(m)
  <2>1. At(n)' = l
    BY <1>2, <1>3 DEF At
  <2>2. ASSUME NEW m \in waiting PROVE At(m)' = At(m)
    <3>1. m \in Tid \/ m \in live
      BY DEF IInv, ListInv
    <3> QED BY <1>1, <1>3, <3>1 DEF At
  <2> QED BY <2>1, <2>2
<1>5. WaitsAt' = [m \in Lists!waiters \cup {n} |-> IF m = n THEN l ELSE WaitsAt[m]]
  <2>1. WaitsAt' = [m \in waiting' |-> At(m)']
    BY DEF WaitsAt
  <2>2. \A m \in waiting' : At(m)' = IF m = n THEN l ELSE WaitsAt[m]
    BY <1>1, <1>2, <1>4, Waiting
  <2> QED BY <1>1, <2>1, <2>2, Waiting
<1>6. Earlier' = Earlier \cup {<<m, n>> : m \in {w \in Lists!waiters : WaitsAt[w] = l}}
  BY <1>1, <1>2, Arrives
<1>7. Orphans' = Orphans
  <2>1. Orphans' = {m \in waiting' \cap live' : async'[m].store # gen[async'[m].location]}
    BY <1>1 DEF Orphans
  <2>2. n \notin Orphans'
    BY <1>3, <2>1
  <2>3. \A m \in Node \ {n} : m \in waiting' \cap live' <=> m \in waiting \cap live
    BY <1>1, <1>3
  <2>4. waiting' \subseteq Node
    BY <1>1, <1>2 DEF IInv, TypeOK
  <2>5. n \notin Orphans
    BY <1>2 DEF Orphans
  <2>6. ASSUME NEW m \in Orphans PROVE m \in Orphans'
    <3>1. m \in waiting /\ m \in live /\ async[m].store # gen[async[m].location]
      BY DEF Orphans
    <3> QED BY <1>1, <1>3, <2>1, <3>1
  <2>7. ASSUME NEW m \in Orphans' PROVE m \in Orphans
    <3>1. m # n /\ m \in waiting /\ m \in live
      BY <1>1, <1>3, <2>1, <2>2
    <3> QED BY <1>3, <2>1, <3>1 DEF Orphans
  <2> QED BY <2>6, <2>7
<1>8. Notified' = Notified /\ Answer' = "none"
  BY <1>1, Answers
<1>9. Asked' = Asked
  BY <1>1 DEF Asked
<1>10. Lists!Wait(n, l)
  BY <1>2, <1>5, <1>6, <1>7, <1>8, <1>9, Waiting DEF Lists!Wait
<1> QED BY <1>2, <1>10 DEF Lists!Next

(* The node of a thread leaves its list when its wait ends.                *)
LEMMA LeaveMaps ==
  ASSUME IInv, NEW t \in Tid, Waits(t), NEW result \in {"ok", "timed-out", "exception"},
         Leave(t, result), UNCHANGED <<gen, async>>,
         result = "ok" => t \notin waiting,
         result = "timed-out" => t \in waiting
  PROVE  Lists!Next
<1>1. /\ waiting' = waiting \ {t}
      /\ location_lists' = [location_lists EXCEPT ![At(t)] = Without(@, {t})]
      /\ pc' = [pc EXCEPT ![t] = IdlePc] /\ Ends(t, t, result)
  BY DEF Leave, RemoveNode
<1>2. pc[t][1] # "notify" /\ IdlePc[1] # "notify"
  BY Places DEF Waits
<1>3. (\A u \in Tid \ {t} : pc'[u] = pc[u]) /\ Asked' = Asked
  BY <1>1, <1>2, NotAskedMoves
<1>4. t \in Node /\ live' = live
  BY Nobody DEF live
<1>5. Takes({t})
  <2>1. \A l \in Location :
          \/ location_lists'[l] = location_lists[l]
          \/ location_lists'[l] = Without(location_lists[l], {t})
    BY <1>1 DEF IInv, TypeOK
  <2>2. {t} \cap waiting' = {}
    BY <1>1
  <2>3. \A l \in Location :
          \/ location_lists'[l] = location_lists[l]
          \/ \E D : D \cap waiting' = {} /\ location_lists'[l] = Without(location_lists[l], D)
    BY <2>1, <2>2
  <2> QED BY <1>1, <1>3, <1>4, <2>3, Stays
<1>6. /\ Notified' = Notified \ {t}
      /\ Answer' = IF result \in {"ok", "timed-out"} THEN result ELSE "none"
  BY <1>1, <1>4, Answers
<1>7. CASE result = "ok"
  <2>1. t \notin waiting /\ t \in Notified
    BY <1>4, <1>7 DEF Notified, IInv, CountInv
  <2> QED BY <1>3, <1>4, <1>5, <1>6, <1>7, <2>1, ReturnMaps
<1>8. CASE result = "timed-out"
  <2>1. t \in waiting /\ t \notin Notified
    BY <1>4, <1>8 DEF Notified, IInv, CountInv
  <2>2. Notified' = Notified
    BY <1>6, <2>1
  <2> QED BY <1>3, <1>4, <1>5, <1>6, <1>8, <2>1, <2>2, TimeOutMaps
<1>9. CASE result = "exception"
  BY <1>3, <1>4, <1>5, <1>6, <1>9, EndMaps
<1> QED BY <1>7, <1>8, <1>9

(* A thread that waits goes to sleep, or handles its interrupts.           *)
LEMMA GotoMaps ==
  ASSUME IInv, NEW t \in Tid, Waits(t), NEW place \in {"asleep", "interrupts"}, Goto(t, place),
         UNCHANGED <<gen, async>>
  PROVE  Lists!Next
<1>1. /\ pc' = [pc EXCEPT ![t] = <<place, At(t)>>] /\ NothingEnds
      /\ UNCHANGED <<waiting, location_lists, woken_by>>
  BY DEF Goto
<1>2. pc[t][1] # "notify" /\ <<place, At(t)>>[1] # "notify"
  BY DEF Waits
<1>3. pc'[t] = <<place, At(t)>> /\ (\A u \in Tid \ {t} : pc'[u] = pc[u]) /\ Asked' = Asked
  BY <1>1, <1>2, NotAskedMoves
<1>4. \A u \in Tid : Waits(u) => pc'[u][2] = pc[u][2]
  BY <1>3 DEF At
<1>5. Takes({})
  BY <1>1, <1>4, StayAll
<1> QED BY <1>1, <1>3, <1>5, Answers, EndMaps

(* The loop of WaitSyncImpl.                                               *)
LEMMA WaitLoopMaps ==
  ASSUME IInv, NEW t \in Tid, WakeUp(t) \/ InterruptsHandled(t) \/ InterruptThrows(t)
  PROVE  Lists!Next
<1>1. Waits(t) /\ UNCHANGED <<gen, async>>
  BY DEF WakeUp, InterruptsHandled, InterruptThrows, Waits, asyncVars
<1>2. ASSUME NEW place \in {"asleep", "interrupts"}, Goto(t, place) PROVE Lists!Next
  BY <1>1, <1>2, GotoMaps
<1>3. ASSUME Leave(t, "ok"), t \notin waiting PROVE Lists!Next
  BY <1>1, <1>3, LeaveMaps
<1>4. ASSUME Leave(t, "timed-out"), t \in waiting PROVE Lists!Next
  BY <1>1, <1>4, LeaveMaps
<1>5. ASSUME Leave(t, "exception") PROVE Lists!Next
  BY <1>1, <1>5, LeaveMaps
<1>6. ASSUME Loop(t) PROVE Lists!Next
  BY <1>2, <1>3, <1>4, <1>6 DEF Loop, Interrupted
<1> QED BY <1>5, <1>6 DEF WakeUp, InterruptsHandled, InterruptThrows

(* The end of an asynchronous wait: "timed-out" while it waits, and "ok"   *)
(* after a notify has counted it.                                          *)
LEMMA ResolveMaps ==
  ASSUME IInv, NEW n \in live, Resolve(n), Takes({n}), Asked' = Asked,
         (n \in waiting) = (n \in timeout_time)
  PROVE  Lists!Next
<1>1. PICK result \in {"dropped", IF n \in timeout_time THEN "timed-out" ELSE "ok"} :
        /\ n \in cleanup => result = "dropped"
        /\ Ends(n, async[n].isolate, result)
  BY DEF Resolve
<1>2. n \in Node
  BY Allocated
<1>3. /\ Notified' = Notified \ {n}
      /\ Answer' = IF result \in {"ok", "timed-out"} THEN result ELSE "none"
  BY <1>1, <1>2, Answers
<1>4. CASE result = "dropped"
  BY <1>2, <1>3, <1>4, EndMaps
<1>5. CASE result = "timed-out"
  <2>1. n \in waiting /\ n \notin Notified
    BY <1>1, <1>2, <1>5 DEF Notified, IInv, CountInv
  <2>2. Notified' = Notified
    BY <1>3, <2>1
  <2> QED BY <1>2, <1>3, <1>5, <2>1, <2>2, TimeOutMaps
<1>6. CASE result = "ok"
  <2>1. n \notin waiting /\ n \notin cleanup
    BY <1>1, <1>6
  <2>2. n \in Notified
    BY <1>2, <2>1 DEF Notified, IInv, CountInv
  <2> QED BY <1>2, <1>3, <1>6, <2>1, <2>2, ReturnMaps
<1> QED BY <1>1, <1>4, <1>5, <1>6

(* Promises are resolved one by one.                                       *)
LEMMA ResolveNextMaps ==
  ASSUME IInv, NEW t \in Tid, ResolveNext(t)
  PROVE  Lists!Next
<1> DEFINE n == Head(todo[t])
           p == IF Tail(todo[t]) = <<>> THEN IdlePc ELSE pc[t]
<1>1. /\ pc[t][1] = "resolving" /\ Resolve(n)
      /\ pc' = [pc EXCEPT ![t] = IF Tail(todo[t]) = <<>> THEN IdlePc ELSE @]
      /\ UNCHANGED <<gen, location_lists, waiting>>
  BY DEF ResolveNext
<1>2. n \in Nodes(todo[t])
  <2>1. todo[t] # <<>> /\ Once(todo[t]) /\ todo[t] \in Seq(AsyncNode)
    BY <1>1 DEF IInv, TypeOK, PlaceInv, QueueInv
  <2> QED BY <2>1, HeadTailNodes
<1>3. n \in live /\ n \notin waiting /\ n \notin timeout_time
  BY <1>2, Queues
<1>4. pc' = [pc EXCEPT ![t] = p] /\ pc[t][1] # "notify" /\ p[1] # "notify"
  <2>1. pc' = [pc EXCEPT ![t] = p]
    BY <1>1
  <2> QED BY <1>1, <2>1, Places
<1> HIDE DEF n, p
<1>5. (\A u \in Tid \ {t} : pc'[u] = pc[u]) /\ Asked' = Asked
  BY <1>4, NotAskedMoves
<1>6. live' = live \ {n} /\ \A m \in live' : async'[m] = async[m]
  BY <1>1 DEF Resolve, Delete, live
<1>7. ~ Waits(t)
  BY <1>1 DEF Waits
<1>8. Takes({n})
  <2>1. waiting' = waiting \ {n}
    BY <1>1, <1>3
  <2>2. \A u \in Tid : Waits(u) => pc'[u][2] = pc[u][2]
    BY <1>5, <1>7
  <2> QED BY <1>1, <1>6, <2>1, <2>2, Stays
<1> QED BY <1>1, <1>3, <1>5, <1>8, ResolveMaps

(* The timeout of an asynchronous wait finds it on its list, or ignores it.*)
LEMMA AsyncWaiterTimeoutMaps ==
  ASSUME IInv, NEW n \in AsyncNode, AsyncWaiterTimeout(n)
  PROVE  Lists!Next
<1>1. n \in live /\ n \in timeout_tasks /\ UNCHANGED <<gen, pc>>
  BY DEF AsyncWaiterTimeout, IInv, TimeInv
<1>2. Asked' = Asked
  BY <1>1 DEF Asked
<1>3. CASE n \in waiting
  <2>1. location_lists' = [location_lists EXCEPT ![At(n)] = Without(@, {n})]
        /\ waiting' = waiting \ {n} /\ Resolve(n)
    BY <1>3 DEF AsyncWaiterTimeout, RemoveNode
  <2>2. n \in timeout_time
    BY <1>1, <1>3 DEF IInv, TimeInv
  <2>3. live' = live \ {n} /\ \A m \in live' : async'[m] = async[m]
    BY <2>1 DEF Resolve, Delete, live
  <2>4. \A l \in Location :
          \/ location_lists'[l] = location_lists[l]
          \/ location_lists'[l] = Without(location_lists[l], {n})
    BY <2>1 DEF IInv, TypeOK
  <2>5. {n} \cap waiting' = {}
    BY <2>1
  <2>6. \A l \in Location :
          \/ location_lists'[l] = location_lists[l]
          \/ \E D : D \cap waiting' = {} /\ location_lists'[l] = Without(location_lists[l], D)
    BY <2>4, <2>5
  <2>7. Takes({n})
    BY <1>1, <2>1, <2>3, <2>6, Stays
  <2> QED BY <1>1, <1>2, <1>3, <2>1, <2>2, <2>7, ResolveMaps
<1>4. CASE n \notin waiting
  BY <1>1, <1>4, QuietMaps DEF AsyncWaiterTimeout, asyncVars
<1> QED BY <1>3, <1>4

(* Steps of the mutex's owner that only hand promises over, and interrupts.*)
LEMMA HandOverMaps ==
  ASSUME IInv, NEW t \in Tid, ResolvePromises(t) \/ NotifyWake(t)
  PROVE  Lists!Next
<1>1. CASE NotifyWake(t)
  BY <1>1, QuietMaps DEF NotifyWake, listVars, asyncVars
<1>2. CASE ResolvePromises(t)
  <2>1. /\ Idle(t) /\ pc' = [pc EXCEPT ![t] = <<"resolving">>] /\ NothingEnds
        /\ UNCHANGED <<gen, location_lists, waiting, woken_by, async>>
    BY <1>2 DEF ResolvePromises, asyncVars
  <2>2. pc[t][1] # "notify" /\ <<"resolving">>[1] # "notify" /\ ~ Waits(t)
    BY <2>1, Places, WhoWaits DEF Idle
  <2>3. (\A u \in Tid \ {t} : pc'[u] = pc[u]) /\ Asked' = Asked
    BY <2>1, <2>2, NotAskedMoves
  <2>4. Takes({})
    BY <2>1, <2>2, <2>3, StayAll
  <2> QED BY <2>1, <2>3, <2>4, Answers, EndMaps
<1> QED BY <1>1, <1>2

(* A thread asks for waiters to be woken.                                  *)
LEMMA NotifyMaps ==
  ASSUME IInv, NEW t \in Tid, NEW l \in Location, NEW count \in {1, Cardinality(Node)},
         Notify(t, l, count)
  PROVE  Lists!Next
<1> DEFINE p == <<"notify", l, count, thread_clocks[t][t]>>
<1>1. /\ Idle(t) /\ pc' = [pc EXCEPT ![t] = p] /\ NothingEnds
      /\ UNCHANGED <<gen, location_lists, waiting, woken_by, async>>
  BY DEF Notify, listVars, asyncVars
<1>2. p[1] = "notify" /\ p[2] = l /\ p[3] = count
  BY Places
<1> HIDE DEF p
<1>3. pc[t][1] # "notify" /\ ~ Waits(t)
  BY <1>1, Places, WhoWaits DEF Idle
<1>4. pc'[t] = p /\ \A u \in Tid \ {t} : pc'[u] = pc[u]
  <2>1. pc = [u \in Tid |-> pc[u]]
    BY DEF IInv, PlaceInv
  <2> QED BY <1>1, <2>1
<1>5. Asked[t] = Lists!NotAsked /\ Asked' = [Asked EXCEPT ![t] = <<l, count>>]
  <2>1. Asked' = [u \in Tid |-> IF pc'[u][1] = "notify" THEN <<pc'[u][2], pc'[u][3]>> ELSE <<>>]
    BY DEF Asked
  <2>2. Asked[t] = Lists!NotAsked
    BY <1>3 DEF Asked, Lists!NotAsked
  <2>3. ASSUME NEW u \in Tid
        PROVE  (IF pc'[u][1] = "notify" THEN <<pc'[u][2], pc'[u][3]>> ELSE <<>>) =
                  IF u = t THEN <<l, count>> ELSE Asked[u]
    BY <1>2, <1>4 DEF Asked
  <2>4. [Asked EXCEPT ![t] = <<l, count>>] = [u \in Tid |-> IF u = t THEN <<l, count>> ELSE Asked[u]]
    BY DEF Asked
  <2> QED BY <2>1, <2>2, <2>3, <2>4
<1>6. Takes({})
  BY <1>1, <1>3, <1>4, StayAll
<1>7. UNCHANGED <<WaitsAt, Earlier, Orphans>>
  BY <1>6, TakesRemoves, NobodyRemoved
<1>8. Notified' = Notified /\ Answer' = "none"
  BY <1>1, Answers
<1>9. Lists!Notify(t, l, count)
  BY <1>5, <1>7, <1>8 DEF Lists!Notify
<1> QED BY <1>9 DEF Lists!Next

(* The asynchronous waiters at memory that is freed become orphans.        *)
LEMMA ReallocateMaps ==
  ASSUME IInv, StoreInv, NEW l \in Location, Reallocate(l)
  PROVE  Lists!Next
<1>1. /\ gen' = [gen EXCEPT ![l] = @ + 1] /\ NothingEnds
      /\ \A t \in Tid : Len(pc[t]) > 1 => pc[t][2] # l
      /\ UNCHANGED <<location_lists, waiting, woken_by, async, pc>>
  BY DEF Reallocate, listVars, asyncVars
<1>2. live' = live /\ \A n : At(n)' = At(n)
  BY <1>1 DEF live, At
<1>3. WaitsAt' = WaitsAt /\ Earlier' = Earlier /\ Asked' = Asked
  <2>1. WaitsAt' = WaitsAt
    BY <1>1, <1>2 DEF WaitsAt
  <2>2. Earlier' = Earlier
    BY <1>1 DEF Earlier, InOrder, Nodes
  <2> QED BY <1>1, <2>1, <2>2 DEF Asked
<1>4. Orphans' = Orphans \cup {n \in Lists!waiters : WaitsAt[n] = l}
  <2>1. Orphans' = {n \in waiting \cap live : async[n].store # gen'[async[n].location]}
    BY <1>1, <1>2 DEF Orphans
  \* A thread that waits keeps its memory.
  <2>2. \A n \in waiting : WaitsAt[n] = l => n \in live
    <3>1. ASSUME NEW n \in waiting, n \in Tid, Waits(n), WaitsAt[n] = l PROVE FALSE
      <4>1. At(n) = l
        BY <3>1, Waiting
      <4>2. pc[n] = <<"asleep", l>> \/ pc[n] = <<"interrupts", l>>
        BY <3>1, <4>1, WhoWaits
      <4>3. Len(pc[n]) = 2 /\ pc[n][2] = l
        BY <4>2
      <4> QED BY <1>1, <3>1, <4>3
    <3> QED BY <3>1 DEF IInv, ListInv
  <2>3. \A n \in waiting \cap live :
          /\ WaitsAt[n] = async[n].location /\ async[n].location \in Location
          /\ async[n].store \in Nat
    BY Allocated, Waiting
  <2>4. gen \in [Location -> Nat]
    BY FutexAssumption DEF IInv, TypeOK
  <2>5. ASSUME NEW n \in waiting \cap live
        PROVE  async[n].store # gen'[async[n].location] <=>
                 async[n].store # gen[async[n].location] \/ WaitsAt[n] = l
    <3>1. async[n].store <= gen[async[n].location]
      BY DEF StoreInv
    <3> QED BY <1>1, <2>3, <2>4, <3>1
  <2>6. Orphans' \subseteq Orphans \cup {n \in Lists!waiters : WaitsAt[n] = l}
    BY <2>1, <2>5, Waiting DEF Orphans
  <2>7. Orphans \cup {n \in Lists!waiters : WaitsAt[n] = l} \subseteq Orphans'
    BY <2>1, <2>2, <2>5, Waiting DEF Orphans
  <2> QED BY <2>6, <2>7
<1>5. Notified' = Notified /\ Answer' = "none"
  BY <1>1, Answers
<1>6. Lists!Free(l)
  BY <1>3, <1>4, <1>5 DEF Lists!Free
<1> QED BY <1>6 DEF Lists!Next

(* The waits of an isolate end with it.                                    *)
LEMMA IsolateDeinitMaps ==
  ASSUME IInv, NEW t \in Tid, IsolateDeinit(t)
  PROVE  Lists!Next
<1>1. PICK mine : mine = {n \in live : async[n].isolate = t}
  OBVIOUS
<1>2. /\ location_lists' = [l \in Location |-> Without(location_lists[l], mine)]
      /\ waiting' = waiting \ mine /\ Delete(mine)
      /\ woken_by' = [n \in Node |-> IF n \in mine THEN NotCounted ELSE woken_by[n]]
      /\ NothingEnds /\ UNCHANGED <<gen, pc>>
  BY <1>1 DEF IsolateDeinit
<1>3. live' = live \ mine /\ \A n \in live' : async'[n] = async[n]
  BY <1>2 DEF Delete, live
<1>4. mine \in SUBSET Node
  BY <1>1, Allocated
<1>5. Takes(mine)
  <2>1. mine \cap waiting' = {}
    BY <1>2
  <2>2. \A l \in Location : \E D : D \cap waiting' = {} /\ location_lists'[l] = Without(location_lists[l], D)
    BY <1>2, <2>1
  <2> QED BY <1>2, <1>3, <2>2, Stays
<1>6. Notified' = Notified \ mine
  <2>1. Notified' = {n \in Node : woken_by'[n] # NotCounted}
    BY DEF Notified
  <2> QED BY <1>2, <2>1 DEF Notified
<1>7. Asked' = Asked /\ Answer' = "none"
  BY <1>2, Answers DEF Asked
<1> QED BY <1>4, <1>5, <1>6, <1>7, EndMaps

(* The farther a position is, the more are before it; so who is before one *)
(* that Wake acts on is acted on.                                          *)
LEMMA ReachedBefore ==
  ASSUME IInv, NEW l \in Location, NEW count \in Nat,
         NEW i \in 1 .. Len(location_lists[l]), NEW k \in 1 .. Len(location_lists[l]), i <= k
  PROVE  LET E == Waiters(l) \ Expired(l) IN
         /\ Cardinality({j \in E : j < k}) < count => Cardinality({j \in E : j < i}) < count
         /\ i \in Waiters(l) /\ k \in Reached(l, count) => i \in Reached(l, count)
<1> DEFINE n == Len(location_lists[l])
           E == Waiters(l) \ Expired(l)
           A == {j \in E : j < i}
           B == {j \in E : j < k}
<1>1. n \in Nat /\ E \in SUBSET (1 .. n)
  BY DEF IInv, TypeOK, Waiters
<1>2. B \in SUBSET (1 .. n)
  BY <1>1
<1>3. A \in SUBSET B
  <2>1. ASSUME NEW j \in E, j < i PROVE j < k
    BY <1>1, <2>1
  <2> QED BY <2>1
<1>4. IsFiniteSet(B)
  <2> HIDE DEF B, n
  <2>1. IsFiniteSet(1 .. n)
    BY <1>1, FS_Interval
  <2> QED BY <1>2, <2>1, FS_Subset
<1>5. Cardinality(B) < count => Cardinality(A) < count
  <2> HIDE DEF A, B
  <2>1. IsFiniteSet(A) /\ Cardinality(A) <= Cardinality(B)
    BY <1>3, <1>4, FS_Subset
  <2>2. Cardinality(A) \in Nat /\ Cardinality(B) \in Nat
    BY <1>4, <2>1, FS_CardinalityType
  <2> QED BY <2>1, <2>2
<1>6. ASSUME i \in Waiters(l), k \in Reached(l, count) PROVE i \in Reached(l, count)
  <2>1. Cardinality(B) < count /\ \A j \in Stale(l) : k <= j
    BY <1>6 DEF Reached
  <2>2. \A j \in Stale(l) : i <= j
    <3>1. Stale(l) \subseteq 1 .. n
      BY DEF Stale, Expired, Waiters
    <3> QED BY <2>1, <3>1
  <2> QED BY <1>5, <1>6, <2>1, <2>2 DEF Reached
<1> QED BY <1>5, <1>6

(* The nodes that Wake acts on are those of the positions it has reached   *)
(* in the list: as many as it was asked to wake, and the first, unless it  *)
(* has met a node to clear away.                                           *)
LEMMA WakeCounts ==
  ASSUME IInv, NEW l \in Location, NEW count \in Nat,
         NEW woken, woken = {location_lists[l][i] : i \in Reached(l, count) \ Expired(l)}
  PROVE  /\ Cardinality(woken) <= count
         /\ \/ Cardinality(woken) = count
            \/ woken = {location_lists[l][i] : i \in Waiters(l) \ Expired(l)}
            \/ Reached(l, count) \cap Stale(l) # {}
<1> DEFINE s == location_lists[l]
           E == Waiters(l) \ Expired(l)
           P == Reached(l, count) \ Expired(l)
<1>1. s \in Seq(Node) /\ Once(s) /\ Len(s) \in Nat
  BY DEF IInv, TypeOK, ListInv
<1>2. E \in SUBSET (1 .. Len(s)) /\ P \in SUBSET E /\ Stale(l) \in SUBSET (1 .. Len(s))
  BY DEF Waiters, Reached, Stale, Expired
<1>3. \A i \in Waiters(l) : i \in Reached(l, count) <=>
        /\ \A j \in Stale(l) : i <= j
        /\ Cardinality({j \in E : j < i}) < count
  BY DEF Reached
<1>4. E \subseteq Waiters(l) /\ Stale(l) \subseteq Waiters(l)
  BY DEF Stale, Expired
<1>5. P = E \cap Reached(l, count)
  BY DEF Reached
<1> HIDE DEF E, P, s
<1>6. ASSUME NEW i \in 1 .. Len(s), NEW k \in 1 .. Len(s), i <= k
      PROVE  /\ Cardinality({j \in E : j < k}) < count => Cardinality({j \in E : j < i}) < count
             /\ i \in Waiters(l) /\ k \in Reached(l, count) => i \in Reached(l, count)
  BY <1>6, ReachedBefore DEF s, E
<1>8. \A i \in P : Cardinality({j \in E : j < i}) < count
  BY <1>3, <1>4, <1>5
<1>9. ASSUME NEW i \in P, NEW j \in E, j < i PROVE j \in P
  <2>1. i \in 1 .. Len(s) /\ j \in 1 .. Len(s) /\ j <= i /\ j \in Waiters(l)
    BY <1>2, <1>4, <1>9
  <2> QED BY <1>5, <1>6, <2>1
<1>10. ASSUME Reached(l, count) \cap Stale(l) = {}
       PROVE  \A b \in E \ P : ~ (Cardinality({j \in E : j < b}) < count)
  <2> SUFFICES ASSUME NEW b \in E \ P, Cardinality({j \in E : j < b}) < count PROVE FALSE
    OBVIOUS
  <2>1. PICK k \in Stale(l) : ~ (b <= k)
    BY <1>3, <1>4, <1>5
  \* The first node to clear away would have been reached.
  <2>2. PICK m \in Stale(l) : \A j \in Stale(l) : m <= j
    <3>1. Stale(l) \in SUBSET Nat /\ Stale(l) # {}
      BY <1>2, <2>1
    <3> QED BY <3>1, Least
  <2>3. m \in 1 .. Len(s) /\ b \in 1 .. Len(s) /\ k \in 1 .. Len(s) /\ m <= k
    BY <1>2, <2>2
  <2>4. m <= b
    BY <2>1, <2>3
  <2>5. Cardinality({j \in E : j < m}) < count
    BY <1>6, <2>3, <2>4
  <2>6. m \in Reached(l, count)
    BY <1>3, <1>4, <2>2, <2>5
  <2> QED BY <1>10, <2>2, <2>6
<1>11. /\ IsFiniteSet(P) /\ Cardinality(P) <= count
       /\ (\A b \in E \ P : ~ (Cardinality({j \in E : j < b}) < count)) =>
            Cardinality(P) = count \/ P = E
  BY <1>1, <1>2, <1>8, <1>9, CountReached
<1>12. Cardinality(woken) = Cardinality(P)
  <2>1. woken = {s[i] : i \in P}
    BY DEF s, P
  <2>2. P \in SUBSET (1 .. Len(s))
    BY <1>2
  <2>3. IsFiniteSet(P)
    BY <1>11
  <2>4. Cardinality({s[i] : i \in P}) = Cardinality(P)
    BY <1>1, <2>2, <2>3, CountNodes
  <2> QED BY <2>1, <2>4
<1>13. P = E => woken = {location_lists[l][i] : i \in Waiters(l) \ Expired(l)}
  BY DEF P, E
<1> QED BY <1>10, <1>11, <1>12, <1>13

(* Both count alike.                                                       *)
LEMMA SameCount == \A S : Lists!Cardinality(S) = Cardinality(S)
BY Zenon DEF Lists!Cardinality, Cardinality

(* A notify wakes who has waited longest.                                  *)
LEMMA WakeMaps ==
  ASSUME IInv, NEW t \in Tid, Wake(t)
  PROVE  Lists!Next
<1>0. /\ pc[t][1] = "notify" /\ pc' = [pc EXCEPT ![t] = IdlePc] /\ NothingEnds
      /\ WakeLocation(t, pc[t][2], pc[t][3], pc[t][4])
      /\ UNCHANGED <<gen, async>>
  BY DEF Wake
<1>p. PICK l \in Location, count \in {1, Cardinality(Node)} :
        \E epoch \in 0 .. sync_clocks[l][t] : pc[t] = <<"notify", l, count, epoch>>
  BY <1>0, Places DEF IInv, PlaceInv
<1>e. PICK epoch \in 0 .. sync_clocks[l][t] : pc[t] = <<"notify", l, count, epoch>>
  BY <1>p
<1>i. pc[t][2] = l /\ pc[t][3] = count /\ pc[t][4] = epoch
  BY <1>e, Places
<1> DEFINE s == location_lists[l]
           R == Reached(l, count)
<1>a. PICK acted : acted = {location_lists[l][i] : i \in R \ (Expired(l) \ Stale(l))}
  OBVIOUS
<1>s. PICK stale : stale = {location_lists[l][i] : i \in R \cap Stale(l)}
  OBVIOUS
<1>w. PICK woken : woken = {location_lists[l][i] : i \in R \ Expired(l)}
  OBVIOUS
<1>1. /\ waiting' = waiting \ acted
      /\ location_lists' = [location_lists EXCEPT ![l] = Without(@, acted \cap AsyncNode)]
      /\ woken_by' = [n \in Node |-> IF n \in acted \ stale THEN <<t, epoch>> ELSE woken_by[n]]
  <2>1. WakeLocation(t, l, count, epoch)
    BY <1>0, <1>i
  <2> QED BY <1>a, <1>s, <2>1 DEF WakeLocation, NotifyAsyncWaiters
<1>2. s \in Seq(Node) /\ Once(s) /\ location_lists \in [Location -> Seq(Node)] /\ Len(s) \in Nat
  BY DEF IInv, TypeOK, ListInv
<1>3. /\ R \subseteq Waiters(l) /\ Stale(l) \subseteq Expired(l) /\ Expired(l) \subseteq Waiters(l)
      /\ Waiters(l) = {i \in 1 .. Len(s) : s[i] \in waiting}
  BY DEF Reached, Stale, Expired, Waiters
<1>4. \A i, j \in Waiters(l) : s[i] = s[j] => i = j
  BY <1>2, <1>3 DEF Once
<1>5. /\ acted \ stale = woken /\ acted = woken \cup stale
      /\ acted \subseteq waiting /\ acted \subseteq Node
  <2>1. ASSUME NEW n \in acted PROVE n \in stale \/ (n \in woken /\ n \notin stale)
    BY <1>3, <1>4, <1>a, <1>s, <1>w, <2>1
  <2>2. ASSUME NEW n \in woken PROVE n \in acted /\ n \notin stale
    BY <1>3, <1>4, <1>a, <1>s, <1>w, <2>2
  <2>3. stale \subseteq acted
    BY <1>3, <1>a, <1>s
  <2>4. acted \subseteq waiting
    BY <1>3, <1>a
  <2>5. waiting \subseteq Node
    BY DEF IInv, TypeOK
  <2> QED BY <2>1, <2>2, <2>3, <2>4, <2>5
<1>6. count \in Nat
  BY CountIsNat
<1>7. Takes(acted)
  <2>1. live' = live /\ ~ Waits(t) /\ (\A u \in Tid \ {t} : pc'[u] = pc[u])
    <3>1. pc = [u \in Tid |-> pc[u]]
      BY DEF IInv, PlaceInv
    <3> QED BY <1>0, <3>1 DEF live, Waits
  <2>2. \A m \in Location :
          \/ location_lists'[m] = location_lists[m]
          \/ location_lists'[m] = Without(location_lists[m], acted \cap AsyncNode)
    BY <1>1, <1>2
  <2>3. (acted \cap AsyncNode) \cap waiting' = {}
    BY <1>1
  <2>4. \A m \in Location :
          \/ location_lists'[m] = location_lists[m]
          \/ \E D : D \cap waiting' = {} /\ location_lists'[m] = Without(location_lists[m], D)
    BY <2>2, <2>3
  <2>5. \A u \in Tid : Waits(u) /\ u \notin acted => pc'[u][2] = pc[u][2]
    BY <2>1
  <2> QED BY <1>0, <1>1, <2>1, <2>4, <2>5, Stays
<1>8. Lists!Remove(woken \cup stale)
  BY <1>5, <1>7, TakesRemoves
<1>9. Asked[t] = <<l, count>> /\ Asked[t] # Lists!NotAsked
      /\ Asked[t][1] = l /\ Asked[t][2] = count
  BY <1>0, <1>i DEF Asked, Lists!NotAsked
<1>10. Asked' = [Asked EXCEPT ![t] = Lists!NotAsked]
  <2>1. Asked' = [u \in Tid |-> IF pc'[u][1] = "notify" THEN <<pc'[u][2], pc'[u][3]>> ELSE <<>>]
    BY DEF Asked
  <2>2. pc'[t] = IdlePc /\ \A u \in Tid \ {t} : pc'[u] = pc[u]
    <3>1. pc = [u \in Tid |-> pc[u]]
      BY DEF IInv, PlaceInv
    <3> QED BY <1>0, <3>1
  <2>3. ASSUME NEW u \in Tid
        PROVE  (IF pc'[u][1] = "notify" THEN <<pc'[u][2], pc'[u][3]>> ELSE <<>>) =
                  IF u = t THEN <<>> ELSE Asked[u]
    BY <2>2, Places DEF Asked
  <2>4. [Asked EXCEPT ![t] = Lists!NotAsked] = [u \in Tid |-> IF u = t THEN <<>> ELSE Asked[u]]
    BY DEF Asked, Lists!NotAsked
  <2> QED BY <2>1, <2>3, <2>4
<1>11. Notified' = Notified \cup woken
  <2>1. Notified' = {n \in Node : woken_by'[n] # NotCounted}
    BY DEF Notified
  <2>2. <<t, epoch>> # NotCounted
    BY DEF NotCounted
  <2>3. \A n \in Node : woken_by'[n] # NotCounted <=> n \in woken \/ woken_by[n] # NotCounted
    BY <1>1, <1>5, <2>2
  <2> QED BY <1>5, <2>1, <2>3 DEF Notified
\* Who waits at l and is no orphan, by its position.
<1>12. /\ \A i \in Waiters(l) : /\ s[i] \in waiting /\ WaitsAt[s[i]] = l
                                /\ s[i] \in Orphans <=> i \in Expired(l)
       /\ \A n \in waiting : WaitsAt[n] = l => \E i \in Waiters(l) : n = s[i]
  <2>1. ASSUME NEW i \in Waiters(l)
        PROVE  s[i] \in waiting /\ WaitsAt[s[i]] = l /\ (s[i] \in Orphans <=> i \in Expired(l))
    <3>1. s[i] \in waiting /\ s[i] \in Nodes(s) /\ i \in 1 .. Len(s)
      BY <1>3 DEF Nodes
    <3>2. At(s[i]) = l /\ (s[i] \in Tid \/ s[i] \in live)
      BY <3>1 DEF IInv, ListInv
    <3>3. s[i] \in Orphans <=> s[i] \in live /\ async[s[i]].store # gen[async[s[i]].location]
      BY <3>1 DEF Orphans
    <3>4. i \in Expired(l) <=> s[i] \in AsyncNode /\ async[s[i]].store # gen[l]
      BY DEF Expired
    <3>5. CASE s[i] \in live
      BY <3>1, <3>2, <3>3, <3>4, <3>5, Allocated, Waiting
    <3>6. CASE s[i] \in Tid
      BY <3>1, <3>2, <3>3, <3>4, <3>6, Nobody, Waiting DEF IInv, TypeOK
    <3> QED BY <3>2, <3>5, <3>6
  <2>2. ASSUME NEW n \in waiting, WaitsAt[n] = l PROVE \E i \in Waiters(l) : n = s[i]
    <3>1. n \in Nodes(s)
      BY <2>2, Waiting DEF IInv, ListInv
    <3>2. PICK i \in 1 .. Len(s) : n = s[i]
      BY <3>1 DEF Nodes
    <3> QED BY <1>3, <3>2
  <2> QED BY <2>1, <2>2
<1> DEFINE here == {n \in Lists!waiters : WaitsAt[n] = Asked[t][1]} \ Orphans
<1>13. here = {s[i] : i \in Waiters(l) \ Expired(l)}
  <2>1. ASSUME NEW n \in here PROVE n \in {s[i] : i \in Waiters(l) \ Expired(l)}
    <3>1. n \in waiting /\ WaitsAt[n] = l /\ n \notin Orphans
      BY <1>9, Waiting
    <3>2. PICK i \in Waiters(l) : n = s[i]
      BY <1>12, <3>1
    <3>3. i \notin Expired(l)
      BY <1>12, <3>1, <3>2
    <3> QED BY <3>2, <3>3
  <2>2. ASSUME NEW i \in Waiters(l) \ Expired(l) PROVE s[i] \in here
    BY <1>9, <1>12, Waiting
  <2> HIDE DEF here
  <2> QED BY <2>1, <2>2
<1>14. woken \subseteq here
  <2> HIDE DEF here, R, s
  <2>1. R \ Expired(l) \subseteq Waiters(l) \ Expired(l)
    BY <1>3
  <2> QED BY <1>13, <1>w, <2>1 DEF s
<1>15. stale \subseteq {n \in Orphans : WaitsAt[n] = Asked[t][1]}
  BY <1>3, <1>9, <1>12, <1>s
<1>16. ASSUME NEW n \in woken, NEW m \in here, <<m, n>> \in Earlier PROVE m \in woken
  <2>1. PICK i \in R \ Expired(l) : n = s[i]
    BY <1>w
  <2>2. PICK k \in Location : <<m, n>> \in InOrder(location_lists[k])
    BY <1>16 DEF Earlier
  <2>3. k = l
    <3>1. n \in Nodes(location_lists[k]) /\ n \in Nodes(location_lists[l])
      BY <1>2, <1>3, <2>1, <2>2 DEF InOrder, Nodes
    <3> QED BY <3>1 DEF IInv, ListInv
  <2>4. PICK a, b \in 1 .. Len(s) : a < b /\ s[a] = m /\ s[b] = n
    BY <2>2, <2>3 DEF InOrder
  <2>5. b = i /\ i \in 1 .. Len(s)
    BY <1>2, <1>3, <2>1, <2>4 DEF Once
  <2>6. a \in Waiters(l) \ Expired(l)
    <3>1. PICK c \in Waiters(l) \ Expired(l) : m = s[c]
      BY <1>13
    <3>2. c \in 1 .. Len(s)
      BY <1>3
    <3>3. a = c
      BY <1>2, <2>4, <3>1, <3>2 DEF Once
    <3> QED BY <3>1, <3>3
  <2>8. a <= b
    BY <2>4
  <2>7. a \in R
    BY <1>6, <2>1, <2>4, <2>5, <2>6, <2>8, ReachedBefore
  <2> QED BY <1>w, <2>4, <2>6, <2>7
<1>17. /\ Cardinality(woken) <= count
       /\ Cardinality(woken) = count \/ woken = here \/ stale # {}
  <2>1. /\ Cardinality(woken) <= count
        /\ \/ Cardinality(woken) = count
           \/ woken = {location_lists[l][i] : i \in Waiters(l) \ Expired(l)}
           \/ R \cap Stale(l) # {}
    BY <1>6, <1>w, WakeCounts
  <2>2. R \cap Stale(l) # {} => stale # {}
    BY <1>s
  <2> QED BY <1>13, <2>1, <2>2
<1>18. Lists!Wake(t, woken, stale)
  <2>1. Answer' = "none"
    BY <1>0, Answers
  <2> HIDE DEF here
  <2>2. \A n \in woken, m \in here : <<m, n>> \in Earlier => m \in woken
    BY <1>16
  <2>3. PICK H : H = here
    OBVIOUS
  <2>4. H = {n \in Lists!waiters : WaitsAt[n] = Asked[t][1]} \ Orphans
    BY <2>3 DEF here
  <2>5. /\ Cardinality(woken) <= Asked[t][2]
        /\ Cardinality(woken) = Asked[t][2] \/ woken = H \/ stale # {}
    BY <1>9, <1>17, <2>3
  <2>6. woken \subseteq H /\ \A n \in woken, m \in H : <<m, n>> \in Earlier => m \in woken
    BY <1>14, <2>2, <2>3
  <2> HIDE DEF R, s
  <2> QED BY <1>8, <1>9, <1>10, <1>11, <1>15, <2>1, <2>4, <2>5, <2>6, SameCount DEF Lists!Wake
<1> QED BY <1>5, <1>18 DEF Lists!Next

(* At the start nobody waits.                                              *)
LEMMA InitMaps == Init => Lists!Init /\ StoreInv
<1> SUFFICES ASSUME Init PROVE Lists!Init /\ StoreInv
  OBVIOUS
<1>1. /\ live = {} /\ waiting = {} /\ ended.result = "none"
      /\ \A t \in Tid : pc[t] = IdlePc
      /\ \A n \in Node : woken_by[n] = NotCounted
  BY DEF Init, live, NothingEnded
<1>2. WaitsAt = <<>>
  BY <1>1 DEF WaitsAt
<1>3. Earlier = {} /\ Orphans = {} /\ Notified = {}
  BY <1>1 DEF Earlier, Orphans, Notified
<1>4. Asked = [t \in Tid |-> Lists!NotAsked] /\ Answer = "none"
  BY <1>1, Places DEF Asked, Lists!NotAsked, Answer
<1> QED BY <1>1, <1>2, <1>3, <1>4 DEF Lists!Init, StoreInv

(* Every step is one of the abstract specification, or none.               *)
LEMMA StepMaps == IInv /\ StoreInv /\ [Next]_vars => [Lists!Next]_(Lists!vars)
<1> SUFFICES ASSUME IInv, StoreInv, [Next]_vars PROVE Lists!Next \/ UNCHANGED Lists!vars
  OBVIOUS
<1>1. CASE UNCHANGED vars
  <2>1. /\ UNCHANGED <<gen, location_lists, waiting, woken_by, async, pc, ended>>
        /\ live' = live /\ \A n : At(n)' = At(n)
    BY <1>1 DEF vars, listVars, asyncVars, At, live
  <2>2. UNCHANGED <<WaitsAt, Earlier, Orphans, Notified, Asked, Answer>>
    BY <2>1 DEF WaitsAt, Earlier, InOrder, Nodes, Orphans, Notified, Asked, Answer
  <2> QED BY <2>2 DEF Lists!vars
<1>2. ASSUME NEW t \in Tid, NEW l \in Location, WaitNotEqual(t, l) PROVE Lists!Next
  BY <1>2, WaitNotEqualMaps
<1>3. ASSUME NEW t \in Tid, NEW l \in Location, NEW use_timeout \in BOOLEAN,
             WaitSync(t, l, use_timeout) \/ WaitAsync(t, l, use_timeout)
      PROVE  Lists!Next
  BY <1>3, WaitSyncMaps, WaitAsyncMaps
<1>4. ASSUME NEW t \in Tid, NEW l \in Location, NEW count \in {1, Cardinality(Node)},
             Notify(t, l, count)
      PROVE  Lists!Next
  BY <1>4, NotifyMaps
<1>5. ASSUME NEW t \in Tid, WakeUp(t) \/ InterruptsHandled(t) \/ InterruptThrows(t)
      PROVE  Lists!Next
  BY <1>5, WaitLoopMaps
<1>6. ASSUME NEW t \in Tid, NotifyWake(t) \/ ResolvePromises(t) PROVE Lists!Next
  BY <1>6, HandOverMaps
<1>7. ASSUME NEW t \in Tid, ResolveNext(t) PROVE Lists!Next
  BY <1>7, ResolveNextMaps
<1>8. ASSUME NEW t \in Tid, Wake(t) \/ IsolateDeinit(t) PROVE Lists!Next
  BY <1>8, WakeMaps, IsolateDeinitMaps
<1>9. ASSUME NEW n \in AsyncNode, AsyncWaiterTimeout(n) PROVE Lists!Next
  BY <1>9, AsyncWaiterTimeoutMaps
<1>10. ASSUME NEW l \in Location, Reallocate(l) PROVE Lists!Next
  BY <1>10, ReallocateMaps
<1> QED BY <1>1, <1>2, <1>3, <1>4, <1>5, <1>6, <1>7, <1>8, <1>9, <1>10 DEF Next

(* The futexes implement waiting in order: every notify wakes, at one      *)
(* moment, those who have waited longest, as many as it was asked to, and  *)
(* nobody is woken and timed out, for every interleaving of waits,         *)
(* timeouts, interrupts, notifies and ends of isolates.                    *)
THEOREM WokenFirst == Spec => WokenInOrder
<1>1. Init => Lists!Init /\ IInv /\ StoreInv
  BY InitMaps, InitInv
<1>2. IInv /\ StoreInv /\ [Next]_vars => IInv' /\ StoreInv' /\ [Lists!Next]_(Lists!vars)
  BY StepMaps, StepInv, StoreStep
<1> QED BY <1>1, <1>2, PTL DEF Spec, WokenInOrder, Lists!Spec

=============================================================================
