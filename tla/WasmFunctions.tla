---------------------------- MODULE WasmFunctions ----------------------------
(***************************************************************************)
(* The functions of the module that is compiled, the dispatch tables and   *)
(* the feedback vector.  What a callee does is left open:  it is known by  *)
(* its number, and its results and effects depend on that.  The runtime    *)
(* that keeps all this is not in the repository; it is modelled from how   *)
(* liftoff-compiler.cc uses it.                                            *)
(*                                                                         *)
(* Functions is a sequence, the imported ones first:  the signature of     *)
(* each, a type of shape "func" with the kinds of its parameters as fields *)
(* and those of its results, and whether it is imported.  A reference to a *)
(* function is an object of its signature whose field is its number.       *)
(*                                                                         *)
(* Environment env: dispatch, the tables of functions, each with its type, *)
(* the sizes it was declared with (max is -1 if there is none) and its     *)
(* entries, 0 for null; inlining, which calls collect feedback: "none",    *)
(* "direct" (and call_ref) or "indirect" (all).                            *)
(***************************************************************************)
EXTENDS WasmObjects

CONSTANT Functions

Signature(f) == Types[Functions[f].sig]
Imported     == {f \in DOMAIN Functions : Functions[f].imported}

\* What a function is called with besides its arguments:  the instance that it is of or
\* the data of the import.
Instance       == 99
ImplicitArg(f) == IF f \in Imported THEN Instance + f ELSE Instance

\* The canonical number of a signature, and what the entry of a null has in its place.
SigId(sig)  == Types[sig].id
NoSignature == Wrap("i32", -1)

---------------------------------------------------------------------------
(* Dispatch tables.  An entry is found by its address; table 0 is the one  *)
(* of the imports.                                                         *)

TableBytes == 64
EntriesOffset == 1
EntrySize == 2
DispatchTable(table) == TableBytes * table
EntryOffset(n) == EntriesOffset + EntrySize * n
DispatchEntries(env, table) ==
  IF table = 0 THEN [f \in 1..Cardinality(Imported) |-> f] ELSE env.dispatch[table].entries

PartOf(f, part) ==
  CASE part = "sig" -> IF f = 0 THEN NoSignature ELSE SigId(Functions[f].sig)
    [] part = "implicit" -> IF f = 0 THEN 0 ELSE ImplicitArg(f)
    [] part = "target" -> f

LoadEntry(env, m, dst, base, offset, part) ==
  LET at == m.regs[base] + offset
      table == at \div TableBytes
      n == (at % TableBytes) - EntriesOffset
      entries == DispatchEntries(env, table)
  IN  IF table > Len(env.dispatch) \/ n < 0 \/ n % EntrySize # 0 \/ n \div EntrySize >= Len(entries)
        THEN Stop(m, Wild)
        ELSE SetReg(m, dst, PartOf(entries[n \div EntrySize + 1], part))

---------------------------------------------------------------------------
(* Calls. *)

ResultsOf(f, args) ==
  LET kinds == Signature(f).results
      n == FoldLeft(LAMBDA x, y : 2 * x + y, f, args)
  IN  [k \in DOMAIN kinds |-> Wrap(kinds[k], n + k)]

\* An import makes the memory larger by so much, if it can.
GrowsBy(env, r, f, page) == IF f \in Imported /\ r.size + page <= env.max THEN page ELSE 0
Called(env, r, f, args, page) ==
  [Log(r, <<"invoke", f, args>>) EXCEPT !.global = f, !.size = @ + GrowsBy(env, r, f, page)]

IsFunction(m, v) == IsObject(m.heap, v) /\ m.heap[Target(v)].type \in {Functions[f].sig : f \in DOMAIN Functions}
FunctionOf(r, v) == r.heap[Target(v)].fields[1]
ref_func(m, f) ==
  Result(m, Pointer(CHOOSE k \in DOMAIN m.heap : m.heap[k] = [type |-> Functions[f].sig, fields |-> <<f>>]))

---------------------------------------------------------------------------
(* Feedback.  Each call that collects some has two slots of its own, in    *)
(* the order of the calls in the function.                                 *)

HeaderSlots == 1
SlotsPerInstruction == 2
FeedbackSlot(calls) == HeaderSlots + SlotsPerInstruction * calls

DirectCalls   == {"call", "return_call"}
RefCalls      == {"call_ref", "return_call_ref"}
IndirectCalls == {"call_indirect", "return_call_indirect"}
TailCalls     == {"return_call", "return_call_ref", "return_call_indirect"}
CallOps       == DirectCalls \cup RefCalls \cup IndirectCalls
Collects(env, op) ==
  \/ op \in DirectCalls \cup RefCalls /\ env.inlining # "none"
  \/ op \in IndirectCalls /\ env.inlining = "indirect"

\* A direct call is only counted, and only if the callee is no import; of other calls the
\* callee is noted.
Feedback(m, slot, f) == Log(m, <<"feedback", slot, f>>)

CallBuiltins == {"ref_func", "call_indirect_ic", "call_ref_ic"}
CallBuiltin0(m, fn, a) ==
  CASE fn = "ref_func" -> ref_func(m, a[1])
    [] fn = "call_indirect_ic" -> [m |-> Feedback(m, a[1], a[2]), got |-> <<a[2], a[3]>>]
    [] fn = "call_ref_ic" ->
         LET f == FunctionOf(m, a[2]) IN [m |-> Feedback(m, a[1], f), got |-> <<f, ImplicitArg(f)>>]

CallInstructions == {"dispatchtable", "dispatchlength", "dispatchentry", "canonicalrtt", "function",
                     "functionpart", "increment"}
CallInstruction(env, m, i) ==
  CASE i[1] = "dispatchtable" -> SetReg(m, i[2], DispatchTable(i[3]))
    [] i[1] = "dispatchlength" ->
         SetReg(m, i[2], Len(DispatchEntries(env, m.regs[i[3]] \div TableBytes)))
    [] i[1] = "dispatchentry" -> LoadEntry(env, m, i[2], i[3], i[4], i[5])
    [] i[1] = "canonicalrtt" -> SetReg(m, i[2], m.regs[i[3]])     \* a map has the number of its type
    [] i[1] = "function" ->
         IF IsFunction(m, m.regs[i[3]]) THEN SetReg(m, i[2], FunctionOf(m, m.regs[i[3]])) ELSE Stop(m, Wild)
    [] i[1] = "functionpart" -> SetReg(m, i[2], PartOf(m.regs[i[3]], i[4]))
    [] i[1] = "increment" -> Feedback(m, i[2], 0)

=============================================================================
