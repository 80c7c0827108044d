------------------------------- MODULE TierUp -------------------------------
(***************************************************************************)
(* From the flags of V8 to the compiler whose code a Wasm function runs.   *)
(* Only Liftoff tells WebTSan about accesses to the shared memory, so the  *)
(* flag wasm_tsan is to keep functions there.  The flags and what they     *)
(* imply are those of flag-definitions.h, the checks in Liftoff's code     *)
(* those of liftoff-compiler.cc; the runtime that a check calls and the    *)
(* optimizing compiler are not in the repository.                          *)
(***************************************************************************)
EXTENDS Integers

CONSTANT wasm_tiering_budget     \* a positive number

VARIABLES
  flags,      \* the values of the flags
  tier,       \* the code in use: "none" yet, "liftoff" or "turbofan"
  checks,     \* the Liftoff code has tier-up checks
  budget,     \* what is left of the function's budget
  requested   \* the optimizing compiler was asked for the function
vars == <<flags, tier, checks, budget, requested>>

Names == {"wasm_tsan", "liftoff", "liftoff_only", "disable_optimizing_compilers",
          "wasm_tier_up", "wasm_dynamic_tiering"}
OnByDefault == {"liftoff", "wasm_tier_up", "wasm_dynamic_tiering"}

---------------------------------------------------------------------------
(* Flags.  An implication says: when a flag has a value, another gets one. *)

Implies(when, then)    == <<when, TRUE, then, TRUE>>
NegImplies(when, then) == <<when, TRUE, then, FALSE>>
NegNegImplies(when, then) == <<when, FALSE, then, FALSE>>

OfDisable == {Implies("disable_optimizing_compilers", "liftoff"),
              NegImplies("disable_optimizing_compilers", "wasm_tier_up"),
              NegImplies("disable_optimizing_compilers", "wasm_dynamic_tiering")}
OfLiftoff == {NegNegImplies("liftoff", "wasm_dynamic_tiering")}
OfLiftoffOnly == {Implies("liftoff_only", "liftoff"),
                  NegImplies("liftoff_only", "wasm_tier_up"),
                  NegImplies("liftoff_only", "wasm_dynamic_tiering")}
OfWasmTsan == {NegImplies("wasm_tsan", "wasm_tier_up")}
Implications == OfDisable \cup OfLiftoff \cup OfLiftoffOnly \cup OfWasmTsan

Pending(i) == flags[i[1]] = i[2] /\ flags[i[3]] # i[4]

TriggerImplication(i) ==
  /\ Pending(i)
  /\ flags' = [flags EXCEPT ![i[3]] = i[4]]
  /\ UNCHANGED <<tier, checks, budget, requested>>

---------------------------------------------------------------------------
(* The function.  Liftoff checks the budget at every return and loop.      *)

dynamic_tiering == flags["wasm_dynamic_tiering"]

\* Without dynamic tiering the optimizing compiler is asked at once, if at all.
Compile ==
  /\ tier = "none"
  /\ \A i \in Implications : ~Pending(i)
  /\ tier' = IF flags["liftoff"] THEN "liftoff" ELSE "turbofan"
  /\ checks' = dynamic_tiering
  /\ requested' = (~dynamic_tiering /\ flags["wasm_tier_up"])
  /\ UNCHANGED <<flags, budget>>

\* A check never uses up the whole budget; when none is left the runtime is called.
MaxBudgetUse == IF wasm_tiering_budget < 4 THEN 1 ELSE wasm_tiering_budget \div 4
TierupCheck(used) ==
  /\ tier = "liftoff" /\ checks
  /\ IF used <= budget THEN budget' = budget - used /\ UNCHANGED requested
     ELSE budget' = wasm_tiering_budget /\ requested' = TRUE
  /\ UNCHANGED <<flags, tier, checks>>

FinishTurboFan ==
  /\ requested /\ tier' = "turbofan" /\ requested' = FALSE
  /\ UNCHANGED <<flags, checks, budget>>

Init ==
  /\ \E given \in SUBSET {"wasm_tsan", "liftoff_only", "disable_optimizing_compilers"} :
       flags = [n \in Names |-> n \in given \cup OnByDefault]
  /\ tier = "none" /\ checks = FALSE /\ requested = FALSE
  /\ budget = wasm_tiering_budget

Next ==
  \/ \E i \in Implications : TriggerImplication(i)
  \/ Compile
  \/ \E used \in 1..MaxBudgetUse : TierupCheck(used)
  \/ FinishTurboFan

Spec == Init /\ [][Next]_vars

\* With the flag wasm_tsan all Wasm code stays in Liftoff, as the comment at the
\* flag and docs/HOW_IT_WORKS.md say.
StaysInLiftoff == flags["wasm_tsan"] => tier # "turbofan"

=============================================================================
