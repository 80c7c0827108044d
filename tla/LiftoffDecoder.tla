---------------------------- MODULE LiftoffDecoder ----------------------------
(***************************************************************************)
(* Liftoff compiles a Wasm function one instruction at a time: the decoder *)
(* validates an instruction and calls the compiler's handler for it, if    *)
(* the code can be reached.  An action is one such call.  The program is   *)
(* not given: it grows with the compilation, by any instruction that the   *)
(* lesson offers next and that is valid there.  When the function has      *)
(* ended its code is run on the inputs of the lesson.                      *)
(*                                                                         *)
(* The decoder is written for any compiler: Handler(env, s, i, lookahead)  *)
(* is the compiler's state after the instruction i.  The decoder is not in *)
(* the repository; it is modelled from how liftoff-compiler.cc uses it.    *)
(*                                                                         *)
(* A lesson is a record: env, the environment (see WasmMachine) with the   *)
(* number of results; the kinds of the parameters, locals and results; the *)
(* number of registers; the kind of the operands of its blocks; the        *)
(* objects there are, the tables and the element segment; ops, the instructions        *)
(* offered at each position; and the inputs, values of the parameters and  *)
(* sizes of the memory.                                                    *)
(***************************************************************************)
EXTENDS WasmMachine

CONSTANTS Lessons, Handler(_, _, _, _)
Wasm == INSTANCE WasmSemantics

VARIABLES
  lesson,     \* what is compiled
  prog,       \* the instructions decoded so far
  types,      \* the kinds of the operands, without the locals
  s,          \* the state of the compiler
  finished    \* the code is complete
vars == <<lesson, prog, types, s, finished>>

env == lesson.env
Locals == lesson.params \o lesson.locals

---------------------------------------------------------------------------
(* Decoding. *)

Repeat(kind, n) == [k \in 1..n |-> kind]
BlockKinds(n) == Repeat(lesson.block, n)      \* of the operands of blocks

Current == Last(s.control)
Reachable == IF s.control = <<>> THEN s.alive ELSE Current.reachable
Unreachable(t) ==
  IF t.control = <<>> THEN [t EXCEPT !.alive = FALSE]
  ELSE [t EXCEPT !.control[Len(t.control)].reachable = FALSE]

\* The operands that the innermost block must not take.
Ground == IF s.control = <<>> THEN 0 ELSE Current.depth

Offered == IF finished \/ Len(prog) = Len(lesson.ops) THEN {} ELSE lesson.ops[Len(prog) + 1]

\* A comparison is left outstanding only when a conditional branch comes next, and
\* then always, but for debug code; the instruction after it tells.
IsComparison(i) == i[1] \in {"unop", "binop"} /\ i[2] \in Conditions /\ i[3] = "i32"
Fuses(i) == i[1] \in {"if", "br_if"}
Foreseen(i) ==
  /\ s.outstanding # "" => Fuses(i)
  /\ Fuses(i) /\ prog # <<>> /\ IsComparison(Last(prog)) /\ ~env.debug => s.outstanding # ""

\* The operands on top may be of subtypes of what is asked for.
AreSubtypes(kinds, wanted) == \A k \in DOMAIN wanted : IsSubtype(kinds[k], wanted[k])
OnTop(pops) ==
  LET below == Len(types) - Len(pops)
  IN  below >= Ground /\ AreSubtypes(SubSeq(types, below + 1, Len(types)), pops)

\* The instruction i takes operands of the kinds pops and gives pushes.
Takes(i, pops, pushes) ==
  /\ i \in Offered
  /\ Foreseen(i)
  /\ Reachable
  /\ OnTop(pops)
  /\ prog' = Append(prog, i)
  /\ types' = SubSeq(types, 1, Len(types) - Len(pops)) \o pushes
  /\ UNCHANGED <<lesson, finished>>

Decode(i, pops, pushes) ==
  /\ Takes(i, pops, pushes)
  /\ \E lookahead \in {FALSE, IsComparison(i)} : s' = Handler(env, s, i, lookahead)

\* The handler is also told the static type of the operand at positions below the top,
\* which is a reference.
Below(at) == types[Len(types) - at]
IsRefBelow(at) == Len(types) > at /\ IsRef(Below(at))
DecodeRef(i, pops, pushes, at) ==
  /\ IsRefBelow(at)
  /\ Takes(i, pops, pushes)
  /\ s' = Handler(env, s, Append(i, Below(at)), FALSE)

DecodeRefs(i, pops, pushes, ats) ==
  /\ \A k \in DOMAIN ats : IsRefBelow(ats[k])
  /\ Takes(i, pops, pushes)
  /\ s' = Handler(env, s, i \o [k \in DOMAIN ats |-> Below(ats[k])], FALSE)

\* The code after i is not reached.
DecodeLast(i, pops) ==
  Takes(i, pops, <<>>) /\ s' = Unreachable(Handler(env, s, i, FALSE))

---------------------------------------------------------------------------
(* Instructions whose operands have fixed kinds. *)

Constant(i) == i[1] = "const" /\ Decode(i, <<>>, <<i[2]>>)

Local(i) ==
  \/ i[1] = "local.get" /\ Decode(i, <<>>, <<Locals[i[2]]>>)
  \/ i[1] = "local.set" /\ Decode(i, <<Locals[i[2]]>>, <<>>)
  \/ i[1] = "local.tee" /\ Decode(i, <<Locals[i[2]]>>, <<Locals[i[2]]>>)

Global(i) ==
  \/ i[1] = "global.get" /\ Decode(i, <<>>, <<"i32">>)
  \/ i[1] = "global.set" /\ Decode(i, <<"i32">>, <<>>)

Parametric(i) ==
  \/ i[1] = "drop" /\ types # <<>> /\ Decode(i, <<Last(types)>>, <<>>)
  \/ i[1] = "select" /\ \E kind \in {"i32", "i64"} :
       Decode(i, <<kind, kind, "i32">>, <<kind>>)

OperandKind(fn, kind) == CASE fn = "wrap" -> "i64" [] fn \in {"sext", "uext"} -> "i32" [] OTHER -> kind
ResultKind(fn, kind) ==
  CASE fn \in Conditions \cup {"wrap"} -> "i32"
    [] fn \in {"sext", "uext"} -> "i64"
    [] fn \in {"convert_s", "convert_u"} -> "f32"
    [] OTHER -> kind

Numeric(i) ==
  \/ i[1] = "unop" /\ Decode(i, <<OperandKind(i[2], i[3])>>, <<ResultKind(i[2], i[3])>>)
  \/ i[1] = "truncate" /\ Decode(i, <<"f32">>, <<i[2]>>)
  \/ /\ i[1] \in {"binop", "divide", "rotate"}
     /\ Decode(i, <<i[3], i[3]>>, <<ResultKind(i[2], i[3])>>)

Index == IF env.memory64 THEN "i64" ELSE "i32"

LoadOrStore(i) ==
  \/ i[1] \in {"load", "atomic.load"} /\ Decode(i, <<Index>>, <<i[2]>>)
  \/ i[1] \in {"store", "atomic.store"} /\ Decode(i, <<Index, i[2]>>, <<>>)

Vector(i) ==
  \/ i[1] = "load.transform" /\ Decode(i, <<Index>>, <<"s128">>)
  \/ i[1] = "load.lane" /\ Decode(i, <<Index, "s128">>, <<"s128">>)
  \/ i[1] = "store.lane" /\ Decode(i, <<Index, "s128">>, <<>>)

ReadModifyWriteOrWait(i) ==
  \/ i[1] = "atomic.rmw" /\ Decode(i, <<Index, i[3]>>, <<i[3]>>)
  \/ i[1] = "atomic.cmpxchg" /\ Decode(i, <<Index, i[2], i[2]>>, <<i[2]>>)
  \/ i[1] = "atomic.wait" /\ Decode(i, <<Index, i[2], "i64">>, <<"i32">>)
  \/ i[1] = "atomic.notify" /\ Decode(i, <<Index, "i32">>, <<"i32">>)

MemoryRange(i) ==
  \/ i[1] = "memory.copy" /\ Decode(i, <<Index, Index, Index>>, <<>>)
  \/ i[1] = "memory.fill" /\ Decode(i, <<Index, "i32", Index>>, <<>>)
  \/ i[1] = "memory.init" /\ Decode(i, <<Index, "i32", "i32">>, <<>>)
  \/ i[1] = "data.drop" /\ Decode(i, <<>>, <<>>)

MemorySize(i) ==
  \/ i[1] = "memory.size" /\ Decode(i, <<>>, <<Index>>)
  \/ i[1] = "memory.grow" /\ Decode(i, <<Index>>, <<Index>>)

---------------------------------------------------------------------------
(* References. *)

StructAccess(i) ==
  \/ i[1] = "struct.new" /\ Decode(i, [k \in DOMAIN Types[i[2]].fields |-> Unpacked(Types[i[2]].fields[k])],
                                   <<Ref(i[2])>>)
  \/ i[1] = "struct.new_default" /\ Decode(i, <<>>, <<Ref(i[2])>>)
  \/ /\ i[1] \in {"struct.get", "struct.atomic.get"}
     /\ DecodeRef(i, <<i[2]>>, <<Unpacked(Types[i[2]].fields[i[3]])>>, 0)
  \/ /\ i[1] \in {"struct.set", "struct.atomic.set"}
     /\ DecodeRef(i, <<i[2], Unpacked(Types[i[2]].fields[i[3]])>>, <<>>, 1)

ElementOf(i) == Unpacked(Types[i[2]].fields[1])
NewArray(i) ==
  \/ i[1] = "array.new" /\ Decode(i, <<ElementOf(i), "i32">>, <<Ref(i[2])>>)
  \/ i[1] = "array.new_default" /\ Decode(i, <<"i32">>, <<Ref(i[2])>>)
  \/ i[1] = "array.new_fixed" /\ Decode(i, Repeat(ElementOf(i), i[3]), <<Ref(i[2])>>)
  \/ i[1] = "array.new_segment" /\ Decode(i, <<"i32", "i32">>, <<Ref(i[2])>>)

ArrayAccess(i) ==
  \/ i[1] \in {"array.get", "array.atomic.get"} /\ DecodeRef(i, <<i[2], "i32">>, <<ElementOf(i)>>, 1)
  \/ i[1] \in {"array.set", "array.atomic.set"} /\ DecodeRef(i, <<i[2], "i32", ElementOf(i)>>, <<>>, 2)
  \/ i[1] = "array.len" /\ DecodeRef(i, <<"array">>, <<"i32">>, 0)
  \/ i[1] = "array.fill" /\ DecodeRef(i, <<i[2], "i32", ElementOf(i), "i32">>, <<>>, 3)
  \/ i[1] = "array.copy" /\ Decode(i, <<i[2], "i32", i[3], "i32", "i32">>, <<>>)
  \/ i[1] = "array.init_segment" /\ Decode(i, <<i[2], "i32", "i32", "i32">>, <<>>)

\* Numbers are added to and combined, references exchanged, those of eq also compared.
Modifiable(fn, kind) == kind \in {"i32", "i64"} \/ (fn = "xchg" /\ IsRef(kind))
Comparable(kind) == kind \in {"i32", "i64"} \/ IsSubtype(kind, "eq")

StructAtomic(i) ==
  LET kind == Types[i[2]].fields[i[3]]
  IN  \/ i[1] = "struct.atomic.rmw" /\ Modifiable(i[4], kind) /\ DecodeRef(i, <<i[2], kind>>, <<kind>>, 1)
      \/ i[1] = "struct.atomic.cmpxchg" /\ Comparable(kind) /\ DecodeRef(i, <<i[2], kind, kind>>, <<kind>>, 2)
      \/ i[1] = "struct.wait" /\ kind = "i32" /\ Decode(i, <<i[2], kind, "i64">>, <<"i32">>)
      \/ i[1] = "struct.notify" /\ kind = "i32" /\ DecodeRef(i, <<i[2], "i32">>, <<"i32">>, 1)

ArrayAtomic(i) ==
  LET kind == ElementOf(i)
  IN  \/ i[1] = "array.atomic.rmw" /\ Modifiable(i[3], kind) /\ DecodeRef(i, <<i[2], "i32", kind>>, <<kind>>, 2)
      \/ /\ i[1] = "array.atomic.cmpxchg" /\ Comparable(kind)
         /\ DecodeRef(i, <<i[2], "i32", kind, kind>>, <<kind>>, 3)

NullOrI31(i) ==
  \/ i[1] = "ref.null" /\ Decode(i, <<>>, <<i[2]>>)
  \/ i[1] = "ref.is_null" /\ DecodeRef(i, <<Below(0)>>, <<"i32">>, 0)
  \/ i[1] = "ref.as_non_null" /\ IsRefBelow(0) /\ IsNullable(Below(0))
       /\ DecodeRef(i, <<Below(0)>>, <<Ref(HeapOf(Below(0)))>>, 0)
  \/ i[1] = "ref.eq" /\ Decode(i, <<"eq", "eq">>, <<"i32">>)
  \/ i[1] = "ref.i31" /\ Decode(i, <<"i32">>, <<Ref("i31")>>)
  \/ i[1] = "i31.get" /\ DecodeRef(i, <<"i31">>, <<"i32">>, 0)
  \/ i[1] = "extern.convert_any" /\ Decode(i, <<"any">>, <<"extern">>)
  \/ i[1] = "any.convert_extern" /\ Decode(i, <<"extern">>, <<"any">>)

TableAccess(i) ==
  \/ i[1] = "table.get" /\ Decode(i, <<Index>>, <<"any">>)
  \/ i[1] = "table.set" /\ Decode(i, <<Index, "any">>, <<>>)
  \/ i[1] = "table.size" /\ Decode(i, <<>>, <<Index>>)
  \/ i[1] = "table.grow" /\ Decode(i, <<"any", Index>>, <<Index>>)

TableRange(i) ==
  \/ i[1] = "table.fill" /\ Decode(i, <<Index, "any", Index>>, <<>>)
  \/ i[1] = "table.init" /\ Decode(i, <<Index, "i32", "i32">>, <<>>)
  \/ i[1] = "table.copy" /\ Decode(i, <<Index, Index, Index>>, <<>>)
  \/ i[1] = "elem.drop" /\ Decode(i, <<>>, <<>>)

\* Arrays of strings have elements of 8 or 16 bits; the two are not distinguished.
NewString(i) ==
  \/ i[1] \in {"string.new_wtf8", "string.new_wtf16"} /\ Decode(i, <<Index, "i32">>, <<Ref("string")>>)
  \/ i[1] = "string.new_wtf8_array" /\ DecodeRef(i, <<i[3], "i32", "i32">>, <<Ref("string")>>, 2)
  \/ i[1] = "string.new_wtf16_array" /\ DecodeRef(i, <<i[2], "i32", "i32">>, <<Ref("string")>>, 2)
  \/ i[1] = "string.const" /\ Decode(i, <<>>, <<Ref("string")>>)
  \/ i[1] = "string.from_code_point" /\ Decode(i, <<"i32">>, <<Ref("string")>>)
  \/ i[1] = "string.concat" /\ DecodeRefs(i, <<"string", "string">>, <<Ref("string")>>, <<1, 0>>)
  \/ /\ i[1] \in {"string.as_wtf8", "string.as_wtf16", "string.as_iter"}
     /\ DecodeRef(i, <<"string">>, <<Ref("string")>>, 0)

StringTest(i) ==
  \/ /\ i[1] \in {"string.measure_utf8", "string.measure_wtf8", "string.measure_wtf16",
                   "string.is_usv_sequence", "string.hash"}
     /\ DecodeRef(i, <<"string">>, <<"i32">>, 0)
  \/ i[1] \in {"string.eq", "string.compare"} /\ DecodeRefs(i, <<"string", "string">>, <<"i32">>, <<1, 0>>)

EncodeString(i) ==
  \/ /\ i[1] \in {"string.encode_wtf8", "string.encode_wtf16"}
     /\ DecodeRef(i, <<"string", Index>>, <<"i32">>, 1)
  \/ i[1] = "string.encode_wtf8_array" /\ DecodeRefs(i, <<"string", i[3], "i32">>, <<"i32">>, <<2, 1>>)
  \/ i[1] = "string.encode_wtf16_array" /\ DecodeRefs(i, <<"string", i[2], "i32">>, <<"i32">>, <<2, 1>>)

StringView(i) ==
  \/ i[1] = "view.wtf8_advance" /\ DecodeRef(i, <<"string", "i32", "i32">>, <<"i32">>, 2)
  \/ /\ i[1] \in {"view.wtf8_slice", "view.wtf16_slice"}
     /\ DecodeRef(i, <<"string", "i32", "i32">>, <<Ref("string")>>, 2)
  \/ i[1] = "view.wtf8_encode" /\ DecodeRef(i, <<"string", Index, "i32", "i32">>, <<"i32", "i32">>, 3)
  \/ i[1] = "view.wtf16_encode" /\ DecodeRef(i, <<"string", Index, "i32", "i32">>, <<"i32">>, 3)
  \/ i[1] = "view.wtf16_get_code_unit" /\ DecodeRef(i, <<"string", "i32">>, <<"i32">>, 1)
  \/ i[1] = "view.iter_next" /\ DecodeRef(i, <<"string">>, <<"i32">>, 0)
  \/ i[1] \in {"view.iter_advance", "view.iter_rewind"} /\ DecodeRef(i, <<"string", "i32">>, <<"i32">>, 1)
  \/ i[1] = "view.iter_slice" /\ DecodeRef(i, <<"string", "i32">>, <<Ref("string")>>, 1)

\* A tail call returns what the callee returns.
CallOf(i, sig, operands, given) ==
  LET tail == i[1] \in TailCalls
      t == Handler(env, s, given, FALSE)
  IN  /\ tail => Types[sig].results = lesson.results
      /\ Takes(i, Types[sig].fields \o operands, IF tail THEN <<>> ELSE Types[sig].results)
      /\ s' = IF tail THEN Unreachable(t) ELSE t

CallOrFunction(i) ==
  \/ i[1] \in DirectCalls /\ CallOf(i, Functions[i[2]].sig, <<>>, i)
  \/ i[1] \in IndirectCalls /\ CallOf(i, i[3], <<Index>>, i)
  \/ i[1] \in RefCalls /\ IsRefBelow(0) /\ CallOf(i, i[2], <<i[2]>>, Append(i, Below(0)))
  \/ i[1] = "ref.func" /\ Decode(i, <<>>, <<Ref(Functions[i[2]].sig)>>)

\* The type heap is below that of the operand, so that the test can go both ways.
IsDowncast(heap, nulls) ==
  /\ IsRefBelow(0)
  /\ heap = "none" => nulls
  /\ heap # HeapOf(Below(0)) /\ IsHeapSubtype(heap, HeapOf(Below(0)))
CastTo(heap, nulls) == IF nulls THEN heap ELSE Ref(heap)
Rest(nulls) == IF nulls THEN Ref(HeapOf(Below(0))) ELSE Below(0)

TestOrCast(i) ==
  /\ i[1] \in {"ref.test", "ref.cast"}
  /\ IsRefBelow(0)
  /\ \/ IsDowncast(i[2], i[3])
     \/ i[1] = "ref.cast" /\ ~i[3] /\ IsNullable(Below(0)) /\ IsHeapSubtype(HeapOf(Below(0)), i[2])
  /\ DecodeRef(i, <<Below(0)>>, <<IF i[1] = "ref.test" THEN "i32" ELSE CastTo(i[2], i[3])>>, 0)

---------------------------------------------------------------------------
(* Control. *)

Open(i) ==
  \/ i[1] \in {"block", "loop"} /\ Decode(i, BlockKinds(i[2]), BlockKinds(i[2]))
  \/ i[1] = "if" /\ Decode(i, BlockKinds(i[2] + 1), BlockKinds(i[2]))

\* The operands are those the block gives, if the code at hand gets to its end.
FallsThrough(i, kinds) ==
  /\ i \in Offered
  /\ s.outstanding = ""
  /\ Reachable => Len(types) = Ground + Len(kinds) /\ OnTop(kinds)

\* After else or end the operands are those under the block and n more.
CloseWith(i, n, next) ==
  /\ prog' = Append(prog, i)
  /\ types' = SubSeq(types, 1, Ground) \o BlockKinds(n)
  /\ s' = next
  /\ UNCHANGED <<lesson, finished>>

DecodeElse(i) ==
  /\ i[1] = "else" /\ s.control # <<>> /\ Current.op = "if"
  /\ FallsThrough(i, BlockKinds(Current.results))
  /\ CloseWith(i, Current.params, Handler(env, s, i, FALSE))

\* What follows the block is reached from its last instruction, from a branch to
\* its end or past an arm that is missing.
DecodeEnd(i) ==
  LET c == Current
      reached == c.reachable \/ (c.reached /\ c.op # "loop") \/ c.op = "if"
  IN  /\ i[1] = "end" /\ s.control # <<>>
      /\ FallsThrough(i, BlockKinds(c.results))
      /\ c.op = "if" => c.params = c.results
      /\ CloseWith(i, c.results, IF reached THEN Handler(env, s, i, FALSE)
                                 ELSE Unreachable(Handler(env, s, i, FALSE)))

LabelKinds(depth) ==
  LET c == s.control[Len(s.control) - depth]
  IN  IF depth = Len(s.control) THEN lesson.results
      ELSE BlockKinds(IF c.op = "loop" THEN c.params ELSE c.results)

Labels == 0..Len(s.control)

Branch(i) ==
  \/ i[1] = "br_if" /\ i[2] \in Labels /\ Decode(i, LabelKinds(i[2]) \o <<"i32">>, LabelKinds(i[2]))
  \/ i[1] = "br" /\ i[2] \in Labels /\ DecodeLast(i, LabelKinds(i[2]))
  \/ /\ i[1] = "br_table"
     /\ \A k \in DOMAIN i[2] : i[2][k] \in Labels /\ LabelKinds(i[2][k]) = LabelKinds(i[2][1])
     /\ DecodeLast(i, LabelKinds(i[2][1]) \o <<"i32">>)
  \/ i[1] = "return" /\ DecodeLast(i, lesson.results)
  \/ i[1] = "unreachable" /\ DecodeLast(i, <<>>)

\* The operands under the reference go along with a branch; along and rest are what it
\* is if the branch is taken and if not, "" if it is dropped.
BranchOnRef(i, along, rest) ==
  /\ i[2] \in Labels /\ IsRefBelow(0)
  /\ LET Kept(type) == IF type = "" THEN <<>> ELSE <<type>>
         results == LabelKinds(i[2])
         under == IF along = "" THEN results ELSE Front(results)
     IN  /\ along # "" => results # <<>> /\ IsSubtype(along, Last(results))
         /\ DecodeRef(i, Append(under, Below(0)), under \o Kept(rest), 0)

BranchOnNull(i) ==
  /\ IsRefBelow(0) /\ IsNullable(Below(0))
  /\ \/ i[1] = "br_on_null" /\ BranchOnRef(i, "", Ref(HeapOf(Below(0))))
     \/ i[1] = "br_on_non_null" /\ BranchOnRef(i, Ref(HeapOf(Below(0))), "")

BranchOnCast(i) ==
  /\ i[1] \in {"br_on_cast", "br_on_cast_fail"} /\ IsDowncast(i[3], i[4])
  /\ \/ i[1] = "br_on_cast" /\ BranchOnRef(i, CastTo(i[3], i[4]), Rest(i[4]))
     \/ i[1] = "br_on_cast_fail" /\ BranchOnRef(i, Rest(i[4]), CastTo(i[3], i[4]))

\* The end of the function.
Finish(i) ==
  /\ i[1] = "end" /\ s.control = <<>>
  /\ FallsThrough(i, lesson.results)
  /\ prog' = Append(prog, i)
  /\ s' = Handler(env, s, <<"finish", s.alive>>, FALSE)
  /\ finished' = TRUE
  /\ UNCHANGED <<lesson, types>>

---------------------------------------------------------------------------
(* The specification. *)

Assembler(l) ==
  [stack |-> <<>>, uses |-> [r \in 1..l.registers |-> 0], mem |-> 0, code |-> <<>>, label |-> 0,
   locals |-> Len(l.params) + Len(l.locals), got |-> 0,
   ool |-> <<>>, outstanding |-> "", control |-> <<>>, alive |-> TRUE, calls |-> 0]

Init ==
  /\ lesson \in Lessons
  /\ prog = <<>> /\ types = <<>> /\ finished = FALSE
  /\ s = Handler(lesson.env, Assembler(lesson), <<"start", lesson.params, lesson.locals>>, FALSE)

Next ==
  \E i \in Offered :
    \/ Constant(i) \/ Local(i) \/ Global(i) \/ Parametric(i) \/ Numeric(i)
    \/ LoadOrStore(i) \/ Vector(i) \/ ReadModifyWriteOrWait(i) \/ MemoryRange(i) \/ MemorySize(i)
    \/ StructAccess(i) \/ NewArray(i) \/ ArrayAccess(i) \/ StructAtomic(i) \/ ArrayAtomic(i) \/ NullOrI31(i) \/ TestOrCast(i)
    \/ TableAccess(i) \/ TableRange(i)
    \/ NewString(i) \/ StringTest(i) \/ EncodeString(i) \/ StringView(i)
    \/ CallOrFunction(i)
    \/ BranchOnNull(i) \/ BranchOnCast(i)
    \/ Open(i) \/ DecodeElse(i) \/ DecodeEnd(i) \/ Branch(i) \/ Finish(i)

Spec == Init /\ [][Next]_vars

---------------------------------------------------------------------------
(* Running the code. *)

CodeFuel == 300
SpecFuel == 40
Base == Modulus("i64") \div 4
Memory0 == [a \in 0..(env.max - 1) |-> a % ByteBase]
Data0   == [k \in 1..2 |-> ByteBase - k]

\* What a machine and the specification have in common.
World(input) ==
  [pc |-> 0, mem |-> Memory0, size |-> input.size, global |-> 1, data |-> Data0, events |-> <<>>,
   heap |-> lesson.heap, elems |-> lesson.elems, tables |-> lesson.tables, out |-> Running]

Machine(input, slow) ==
  LET Arrive(r) == IF r - 1 \in DOMAIN lesson.params THEN input.params[r - 1] ELSE Junk
  IN  World(input) @@
      [regs |-> [r \in 1..lesson.registers |-> Arrive(r)], slots |-> [k \in 1..12 |-> Junk],
       pushed |-> <<>>, old |-> DOMAIN lesson.heap, base |-> Base, params |-> input.params, slow |-> slow]

Execution(input, slow) == Run(env, s.code, LabelsOf(s.code), Machine(input, slow), CodeFuel)

Meaning(input) ==
  Wasm!Interpret(env, prog,
    World(input) @@ [vals |-> <<>>, frames |-> <<>>,
                     locals |-> input.params \o [k \in DOMAIN lesson.locals |->
                                                              DefaultOf(lesson.locals[k])]], SpecFuel)

EventsOf(m, kinds) == SelectSeq(m.events, LAMBDA e : e[1] \in kinds)

Agree(m, r) ==
  /\ m.out = r.out
  /\ m.mem = r.mem /\ m.size = r.size
  /\ m.global = r.global /\ m.data = r.data
  /\ m.heap = r.heap /\ m.tables = r.tables /\ m.elems = r.elems
  /\ EventsOf(m, {"wait", "notify", "string", "invoke", "feedback"}) = r.events

---------------------------------------------------------------------------
(* Properties. *)

\* Every handler leaves the use counts right: a register is in use once for each
\* operand it holds and once when it caches the memory start.  A count that is too
\* low gives a register away while an operand is in it.
UseCountsMatch ==
  ~finished => \A r \in DOMAIN s.uses :
    s.uses[r] = Cardinality({k \in DOMAIN s.stack : s.stack[k] = Reg(r)})
                  + (IF s.mem = r THEN 1 ELSE 0)

\* The code does what the function means, for all inputs that it ends on: the same
\* results or the same trap, the same memory, global and data segment, the same
\* waits and notifies; whether or not the stack and tier-up checks call out.
CompiledIsSpecified ==
  finished => \A input \in lesson.inputs :
    LET r == Meaning(input)
    IN  r.out # Running => \A slow \in BOOLEAN : Agree(Execution(input, slow), r)

\* Each access is followed at once by its trace, and each trace is one of these.
TracedAtOnce(e) ==
  \A k \in DOMAIN e :
    /\ e[k][1] = "access" => k < Len(e) /\ e[k + 1] = <<"trace">> \o Tail(e[k])
    /\ e[k][1] = "trace" => k > 1 /\ e[k - 1] = <<"access">> \o Tail(e[k])

\* The samples of a range come right before it, MaxSamples of its bytes or all of
\* them, none twice, and there are no others.
SampledBefore(e) ==
  /\ \A k \in DOMAIN e : e[k][1] = "range" =>
       LET samples == {j \in 1..(k - 1) : \A i \in j..(k - 1) : e[i][1] = "sample"}
           Told(r) == {e[j][2] : j \in {i \in samples : e[i][3] = r[3]}}
           Due(r)  == Min({r[2], MaxSamples})
       IN  /\ \A r \in e[k][2] : /\ Told(r) \subseteq Addresses(r[1], r[2])
                               /\ Cardinality(Told(r)) = Due(r)
           /\ Cardinality(samples) = MapThenSumSet(Due, e[k][2])
  /\ \A k \in DOMAIN e : e[k][1] = "sample" => k < Len(e) /\ e[k + 1][1] \in {"sample", "range"}

\* The bytes that an event writes.
WrittenBy(x) ==
  CASE x[1] = "access" /\ x[4] -> Addresses(x[2], x[3])
    [] x[1] = "range" -> UNION {Addresses(r[1], r[2]) : r \in {r \in x[2] : r[3]}}
    [] x[1] = "init"  -> Addresses(x[2], x[3])
    [] OTHER -> {}

\* WebTSan is told of each access to a shared memory, once, before the next one and
\* with its address, size and kind; of a range that is copied or filled it is told
\* MaxSamples bytes beforehand; and of nothing else.  No byte of the memory changes
\* otherwise, with one exception:  memory.init writes its range untold.
TracedIsAccessed ==
  finished => \A input \in lesson.inputs :
    LET m == Execution(input, FALSE)
        e == EventsOf(m, {"access", "trace", "range", "sample", "init"})
    IN  /\ IF env.tsan /\ env.shared THEN TracedAtOnce(e) /\ SampledBefore(e)
           ELSE EventsOf(m, {"trace", "sample"}) = <<>>
        /\ \A a \in DOMAIN Memory0 :
             m.mem[a] # Memory0[a] => \E k \in DOMAIN e : a \in WrittenBy(e[k])

=============================================================================
