----------------------------- MODULE TierUpProofs -----------------------------
(***************************************************************************)
(* The flags that do what wasm_tsan is meant to do: with liftoff_only, or  *)
(* with disable_optimizing_compilers, every Wasm function runs Liftoff's   *)
(* code for ever, whatever the budget is and in whatever order the         *)
(* implications of the flags take effect.                                  *)
(***************************************************************************)
EXTENDS TierUp, TLAPS

Pinned == flags["liftoff_only"] \/ flags["disable_optimizing_compilers"]

\* What the flags keep Wasm code from, given that nobody resets them.
NeverOptimized == Pinned => tier # "turbofan"

\* The code in use has no checks that could ask for the optimizing compiler,
\* and nobody else has asked for it.
IInv ==
  /\ flags \in [Names -> BOOLEAN]
  /\ Pinned => tier # "turbofan" /\ ~ checks /\ ~ requested

\* No implication gives one of the two flags a value.
LEMMA PinnedStays ==
  ASSUME IInv, NEW i \in Implications, TriggerImplication(i)
  PROVE  flags' \in [Names -> BOOLEAN] /\ Pinned' = Pinned
<1>1. /\ i[3] \in {"liftoff", "wasm_tier_up", "wasm_dynamic_tiering"}
      /\ i[4] \in BOOLEAN
  <2>1. \/ \E w \in Names : i = Implies(w, "liftoff")
        \/ \E w \in Names, n \in {"wasm_tier_up", "wasm_dynamic_tiering"} :
             i = NegImplies(w, n) \/ i = NegNegImplies(w, n)
    BY DEF Implications, OfDisable, OfLiftoff, OfLiftoffOnly, OfWasmTsan, Names
  <2>2. ASSUME NEW w \in Names, i = Implies(w, "liftoff") PROVE i[3] = "liftoff" /\ i[4] = TRUE
    BY <2>2 DEF Implies
  <2>3. ASSUME NEW w \in Names, NEW n \in {"wasm_tier_up", "wasm_dynamic_tiering"},
               i = NegImplies(w, n)
        PROVE  i[3] = n /\ i[4] = FALSE
    BY <2>3 DEF NegImplies
  <2>4. ASSUME NEW w \in Names, NEW n \in {"wasm_tier_up", "wasm_dynamic_tiering"},
               i = NegNegImplies(w, n)
        PROVE  i[3] = n /\ i[4] = FALSE
    BY <2>4 DEF NegNegImplies
  <2> QED BY <2>1, <2>2, <2>3, <2>4
<1>2. flags' = [flags EXCEPT ![i[3]] = i[4]]
  BY DEF TriggerImplication
<1>3. flags \in [Names -> BOOLEAN]
  BY DEF IInv
<1>4. flags' \in [Names -> BOOLEAN]
  BY <1>1, <1>2, <1>3 DEF Names
<1>5. /\ flags'["liftoff_only"] = flags["liftoff_only"]
      /\ flags'["disable_optimizing_compilers"] = flags["disable_optimizing_compilers"]
  BY <1>1, <1>2, <1>3 DEF Names
<1> QED BY <1>4, <1>5 DEF Pinned

\* Where nothing is pending any more, a pinned function is Liftoff's alone.
LEMMA Settled ==
  ASSUME IInv, Pinned, \A i \in Implications : ~ Pending(i)
  PROVE  flags["liftoff"] /\ ~ flags["wasm_tier_up"] /\ ~ flags["wasm_dynamic_tiering"]
<1>0. \A n \in Names : flags[n] \in BOOLEAN
  BY DEF IInv
<1>1. ASSUME NEW when \in Names, flags[when],
             /\ Implies(when, "liftoff") \in Implications
             /\ NegImplies(when, "wasm_tier_up") \in Implications
             /\ NegImplies(when, "wasm_dynamic_tiering") \in Implications
      PROVE  flags["liftoff"] /\ ~ flags["wasm_tier_up"] /\ ~ flags["wasm_dynamic_tiering"]
  <2>1. flags[when] = TRUE
    BY <1>0, <1>1
  <2>2. ~ Pending(Implies(when, "liftoff")) /\ ~ Pending(NegImplies(when, "wasm_tier_up"))
        /\ ~ Pending(NegImplies(when, "wasm_dynamic_tiering"))
    BY <1>1
  <2>3. /\ flags["liftoff"] = TRUE /\ flags["wasm_tier_up"] = FALSE
        /\ flags["wasm_dynamic_tiering"] = FALSE
    BY <2>1, <2>2 DEF Pending, Implies, NegImplies
  <2> QED BY <2>3
<1>2. CASE flags["liftoff_only"]
  BY <1>1, <1>2 DEF Names, Implications, OfLiftoffOnly
<1>3. CASE flags["disable_optimizing_compilers"]
  BY <1>1, <1>3 DEF Names, Implications, OfDisable
<1> QED BY <1>2, <1>3 DEF Pinned

LEMMA Initial == Init => IInv
<1> SUFFICES ASSUME Init PROVE IInv
  OBVIOUS
<1>1. PICK given \in SUBSET {"wasm_tsan", "liftoff_only", "disable_optimizing_compilers"} :
        flags = [n \in Names |-> n \in given \cup OnByDefault]
  BY DEF Init
<1>2. flags \in [Names -> BOOLEAN]
  BY <1>1
<1>3. tier = "none" /\ checks = FALSE /\ requested = FALSE
  BY DEF Init
<1> QED BY <1>2, <1>3 DEF IInv

LEMMA Step == IInv /\ [Next]_vars => IInv'
<1> SUFFICES ASSUME IInv, [Next]_vars PROVE IInv'
  OBVIOUS
<1>1. CASE UNCHANGED vars
  BY <1>1 DEF vars, IInv, Pinned
<1>2. ASSUME NEW i \in Implications, TriggerImplication(i) PROVE IInv'
  <2>1. UNCHANGED <<tier, checks, requested>>
    BY <1>2 DEF TriggerImplication
  <2> QED BY <1>2, <2>1, PinnedStays DEF IInv
<1>3. CASE Compile
  <2>1. flags' = flags /\ Pinned' = Pinned
    BY <1>3 DEF Compile, Pinned
  <2>2. ASSUME Pinned PROVE tier' # "turbofan" /\ ~ checks' /\ ~ requested'
    <3>1. flags["liftoff"] /\ ~ flags["wasm_tier_up"] /\ ~ flags["wasm_dynamic_tiering"]
      BY <1>3, <2>2, Settled DEF Compile
    <3>2. tier' = "liftoff" /\ checks' = flags["wasm_dynamic_tiering"]
          /\ requested' = (~ flags["wasm_dynamic_tiering"] /\ flags["wasm_tier_up"])
      BY <1>3, <3>1 DEF Compile, dynamic_tiering
    <3> QED BY <3>1, <3>2
  <2> QED BY <2>1, <2>2 DEF IInv
<1>4. ASSUME NEW used \in 1 .. MaxBudgetUse, TierupCheck(used) PROVE IInv'
  <2>1. checks /\ UNCHANGED <<flags, tier, checks>>
    BY <1>4 DEF TierupCheck
  <2>2. Pinned' = Pinned
    BY <2>1 DEF Pinned
  <2> QED BY <2>1, <2>2 DEF IInv
<1>5. CASE FinishTurboFan
  <2>1. requested /\ UNCHANGED <<flags, checks>> /\ requested' = FALSE
    BY <1>5 DEF FinishTurboFan
  <2>2. Pinned' = Pinned
    BY <2>1 DEF Pinned
  <2> QED BY <2>1, <2>2 DEF IInv
<1> QED BY <1>1, <1>2, <1>3, <1>4, <1>5 DEF Next

(* Unlike wasm_tsan, these two flags imply the end of dynamic tiering too, *)
(* so no function of theirs ever loses its hooks (flag-definitions.h).     *)
THEOREM StaysWithLiftoffOnly == Spec => []NeverOptimized
<1>1. IInv => NeverOptimized
  BY DEF IInv, NeverOptimized
<1> QED BY <1>1, Initial, Step, PTL DEF Spec

=============================================================================
