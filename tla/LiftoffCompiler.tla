--------------------------- MODULE LiftoffCompiler ---------------------------
(***************************************************************************)
(* Which handlers of LiftoffCompiler the decoder calls for an instruction  *)
(* (liftoff-compiler.cc).  lookahead says that a conditional branch is     *)
(* next.                                                                   *)
(***************************************************************************)
EXTENDS LiftoffCalls

LocalAndParametric(env, s, i) ==
  CASE i[1] = "const" -> IF i[2] = "i32" THEN I32Const(s, i[3]) ELSE I64Const(s, i[3])
    [] i[1] = "local.get" -> LocalGet(s, i[2])
    [] i[1] = "local.set" -> LocalSet(s, i[2], FALSE)
    [] i[1] = "local.tee" -> LocalSet(s, i[2], TRUE)
    [] i[1] = "global.get" -> GlobalGet(s, env.imported)
    [] i[1] = "global.set" -> GlobalSet(s, env.imported)
    [] i[1] = "drop" -> DropTop(s)
    [] i[1] = "select" -> Select(env, s)

Rotation(fn, kind) ==
  CASE kind = "i32" /\ fn = "rol" -> "word32_rol" [] kind = "i32" /\ fn = "ror" -> "word32_ror"
    [] kind = "i64" /\ fn = "rol" -> "word64_rol" [] kind = "i64" /\ fn = "ror" -> "word64_ror"

Number(env, s, i, lookahead) ==
  LET fused == lookahead /\ ~env.debug
  IN  CASE i[1] = "unop" /\ i[2] = "eqz" -> EmitEqz(s, i[3], fused /\ i[3] = "i32")
        [] i[1] = "unop" /\ i[2] = "convert_s" -> EmitConversion(env, s, i[2], i[3], "int64_to_float")
        [] i[1] = "unop" /\ i[2] = "convert_u" -> EmitConversion(env, s, i[2], i[3], "uint64_to_float")
        [] i[1] = "truncate" /\ ~i[4] -> EmitTruncation(env, s, i[2], i[3])
        [] i[1] = "truncate" /\ i[4] /\ i[3] ->
             EmitConversion(env, s, "trunc_sat_s", i[2], "float_to_int64_sat")
        [] i[1] = "truncate" /\ i[4] /\ ~i[3] ->
             EmitConversion(env, s, "trunc_sat_u", i[2], "float_to_uint64_sat")
        [] i[1] = "binop" /\ i[2] \in Conditions /\ i[3] = "i32" -> EmitI32CmpOp(s, i[2], fused)
        [] i[1] = "divide" -> EmitDivide(env, s, i[2], i[3])
        [] i[1] = "rotate" -> EmitBitRotationCCall(s, Rotation(i[2], i[3]))
        [] i[1] = "unop" /\ i[2] \in Roundings -> EmitFloatUnOpWithCFallback(env, s, i[2])
        [] i[1] = "unop"  -> UnOp(env, s, i[2], i[3])
        [] i[1] = "binop" -> BinOp(s, i[2], i[3])

AtomicOp(env, s, i) ==
  CASE i[1] = "atomic.load" -> AtomicLoadMem(env, s, i[2], i[3], i[5])
    [] i[1] = "atomic.store" -> AtomicStoreMem(env, s, i[3], i[4])
    [] i[1] = "atomic.rmw" -> AtomicBinop(env, s, i[2], i[3], i[4], i[5])
    [] i[1] = "atomic.cmpxchg" -> AtomicCompareExchange(env, s, i[3], i[4])
    [] i[1] = "atomic.wait" -> AtomicWait(env, s, i[2], i[3])
    [] i[1] = "atomic.notify" -> AtomicNotify(env, s, i[2])

Memory(env, s, i) ==
  CASE i[1] = "load" -> LoadMem(env, s, i[2], i[3], i[4], i[5])
    [] i[1] = "store" -> StoreMem(env, s, i[3], i[4])
    [] i[1] = "load.transform" -> LoadTransform(env, s, i[2], i[3], i[4])
    [] i[1] = "load.lane" -> LoadLaneMem(env, s, i[2], i[3], i[4])
    [] i[1] = "store.lane" -> StoreLane(env, s, i[2], i[3], i[4])
    [] i[1] = "memory.copy" -> MemoryCopy(env, s)
    [] i[1] = "memory.fill" -> MemoryFill(env, s)
    [] i[1] = "memory.init" -> MemoryInit(env, s)
    [] i[1] = "data.drop" -> DataDrop(s)
    [] i[1] = "memory.size" -> CurrentMemoryPages(s)
    [] i[1] = "memory.grow" -> MemoryGrow(env, s)

\* The last of i is the static type of the operand.
Struct(env, s, i) ==
  CASE i[1] = "struct.new" -> StructNew(env, s, i[2], TRUE)
    [] i[1] = "struct.new_default" -> StructNew(env, s, i[2], FALSE)
    [] i[1] = "struct.get" -> StructGet(env, s, i[2], i[3], i[4], i[5])
    [] i[1] = "struct.atomic.get" -> StructAtomicGet(env, s, i[2], i[3], i[4], i[5])
    [] i[1] = "struct.set" -> StructSet(env, s, i[2], i[3], i[4])
    [] i[1] = "struct.atomic.set" -> StructAtomicSet(env, s, i[2], i[3], i[4])

Array(env, s, i) ==
  CASE i[1] = "array.new" -> ArrayNew(env, s, i[2], TRUE)
    [] i[1] = "array.new_default" -> ArrayNew(env, s, i[2], FALSE)
    [] i[1] = "array.new_fixed" -> ArrayNewFixed(env, s, i[2], i[3])
    [] i[1] = "array.new_segment" -> ArrayNewSegment(s, i[2])
    [] i[1] = "array.init_segment" -> ArrayInitSegment(s, i[2])
    [] i[1] = "array.get" -> ArrayGet(env, s, i[2], i[3], i[4])
    [] i[1] = "array.atomic.get" -> ArrayAtomicGet(env, s, i[2], i[3], i[4])
    [] i[1] = "array.set" -> ArraySet(env, s, i[2], i[3])
    [] i[1] = "array.atomic.set" -> ArrayAtomicSet(env, s, i[2], i[3])
    [] i[1] = "array.fill" -> ArrayFill(env, s, i[2], i[3])
    [] i[1] = "array.len" -> ArrayLen(env, s, i[2])
    [] i[1] = "array.copy" -> ArrayCopy(s)

ObjectAtomic(env, s, i) ==
  CASE i[1] = "struct.atomic.rmw" -> StructAtomicRMW(env, s, i[2], i[3], i[4], i[5])
    [] i[1] = "struct.atomic.cmpxchg" -> StructAtomicCompareExchange(env, s, i[2], i[3], i[4])
    [] i[1] = "struct.wait" -> StructWait(s, i[3])
    [] i[1] = "struct.notify" -> StructNotify(env, s, i[3], i[4])
    [] i[1] = "array.atomic.rmw" -> ArrayAtomicRMW(env, s, i[2], i[3], i[4])
    [] i[1] = "array.atomic.cmpxchg" -> ArrayAtomicCompareExchange(env, s, i[2], i[3])

TableOp(env, s, i) ==
  CASE i[1] = "table.get" -> TableGet(env, s, i[2])
    [] i[1] = "table.set" -> TableSet(env, s, i[2])
    [] i[1] = "table.init" -> TableInit(env, s, i[2])
    [] i[1] = "table.copy" -> TableCopy(env, s, i[2], i[3])
    [] i[1] = "table.grow" -> TableGrow(env, s, i[2])
    [] i[1] = "table.size" -> TableSize(env, s, i[2])
    [] i[1] = "table.fill" -> TableFill(env, s, i[2])
    [] i[1] = "elem.drop" -> ElemDrop(s)

StringOp(env, s, i) ==
  CASE i[1] = "string.new_wtf8" -> StringNewWtf8(env, s, i[2])
    [] i[1] = "string.new_wtf8_array" -> StringNewWtf8Array(env, s, i[2], i[4])
    [] i[1] = "string.new_wtf16" -> StringNewWtf16(env, s)
    [] i[1] = "string.new_wtf16_array" -> StringNewWtf16Array(env, s, i[3])
    [] i[1] = "string.const" -> StringConst(s, i[2])
    [] i[1] = "string.from_code_point" -> StringFromCodePoint(s)
    [] i[1] = "string.concat" -> StringConcat(env, s, i[2], i[3])
    [] i[1] = "string.measure_utf8" -> StringMeasureWtf8(env, s, "utf8", i[2])
    [] i[1] = "string.measure_wtf8" -> StringMeasureWtf8(env, s, "wtf8", i[2])
    [] i[1] = "string.measure_wtf16" -> StringMeasureWtf16(env, s, i[2])
    [] i[1] = "string.is_usv_sequence" -> StringIsUSVSequence(env, s, i[2])
    [] i[1] = "string.hash" -> StringHash(env, s, i[2])
    [] i[1] = "string.eq" -> StringEq(env, s, i[2], i[3])
    [] i[1] = "string.compare" -> StringCompare(env, s, i[2], i[3])
    [] i[1] = "string.encode_wtf8" -> StringEncodeWtf8(env, s, i[2], i[3])
    [] i[1] = "string.encode_wtf8_array" -> StringEncodeWtf8Array(env, s, i[2], i[4], i[5])
    [] i[1] = "string.encode_wtf16" -> StringEncodeWtf16(env, s, i[2])
    [] i[1] = "string.encode_wtf16_array" -> StringEncodeWtf16Array(env, s, i[3], i[4])
    [] i[1] = "string.as_wtf8" -> StringAsWtf8(env, s, i[2])
    [] i[1] = "string.as_wtf16" -> StringAsWtf16(env, s, i[2])
    [] i[1] = "string.as_iter" -> StringAsIter(env, s, i[2])

ViewOp(env, s, i) ==
  CASE i[1] = "view.wtf8_advance" -> StringViewWtf8Advance(env, s, i[2])
    [] i[1] = "view.wtf8_slice" -> StringViewWtf8Slice(env, s, i[2])
    [] i[1] = "view.wtf8_encode" -> StringViewWtf8Encode(env, s, i[2], i[3])
    [] i[1] = "view.wtf16_get_code_unit" -> StringViewWtf16GetCodeUnit(env, s, i[2])
    [] i[1] = "view.wtf16_encode" -> StringViewWtf16Encode(env, s, i[2])
    [] i[1] = "view.wtf16_slice" -> StringViewWtf16Slice(env, s, i[2])
    [] i[1] = "view.iter_next" -> StringViewIterNext(env, s, i[2])
    [] i[1] = "view.iter_advance" -> StringViewIterAdvance(env, s, i[2])
    [] i[1] = "view.iter_rewind" -> StringViewIterRewind(env, s, i[2])
    [] i[1] = "view.iter_slice" -> StringViewIterSlice(env, s, i[2])

\* A tail call may be the last that is seen of the function.
CallOp(env, s, i) ==
  LET tail  == i[1] \in TailCalls
      ready == IF tail THEN TierupCheckOnTailCall(env, s) ELSE s
  IN  CASE i[1] \in DirectCalls -> CallDirect(env, ready, i[2], tail)
        [] i[1] \in IndirectCalls -> CallIndirectImpl(env, ready, i[2], i[3], tail)
        [] i[1] \in RefCalls -> CallRefImpl(env, ready, i[2], i[3], tail)

Reference(env, s, i) ==
  CASE i[1] = "ref.null" -> RefNull(s, i[2])
    [] i[1] = "ref.is_null" -> EmitIsNull(s, "eq", i[2])
    [] i[1] = "ref.as_non_null" -> RefAsNonNull(env, s, i[2])
    [] i[1] = "ref.eq" -> BinOp(s, "eq", "i64")
    [] i[1] = "ref.func" -> RefFunc(s, i[2])
    [] i[1] = "ref.i31" -> RefI31(s)
    [] i[1] = "i31.get" -> IF i[2] THEN I31GetS(env, s, i[3]) ELSE I31GetU(env, s, i[3])
    [] i[1] = "extern.convert_any" -> ExternConvertAny(s)
    [] i[1] = "any.convert_extern" -> AnyConvertExtern(s)

\* A cast that only null can fail, if it does.
IsUpcast(i) == IsHeapSubtype(HeapOf(i[4]), i[2])

Cast(env, s, i) ==
  CASE i[1] = "ref.test" /\ IsDefined(i[2]) -> RefTest(s, i[2], i[4], i[3])
    [] i[1] = "ref.test" /\ ~IsDefined(i[2]) -> RefTestAbstract(s, i[2], i[4], i[3])
    [] i[1] = "ref.cast" /\ IsUpcast(i) -> AssertNullTypecheckImpl(env, s, i[4], "eq")
    [] i[1] = "ref.cast" /\ ~IsUpcast(i) /\ IsDefined(i[2]) -> RefCast(env, s, i[2], i[4], i[3])
    [] i[1] = "ref.cast" /\ ~IsUpcast(i) /\ ~IsDefined(i[2]) -> RefCastAbstract(env, s, i[2], i[4], i[3])
    [] i[1] = "br_on_cast" -> BrOnCast(env, s, i[3], i[5], i[2], i[4])
    [] i[1] = "br_on_cast_fail" -> BrOnCastFail(env, s, i[3], i[5], i[2], i[4])
    [] i[1] = "br_on_null" -> BrOnNull(env, s, i[3], i[2], FALSE)
    [] i[1] = "br_on_non_null" -> BrOnNonNull(env, s, i[3], i[2], TRUE)

\* The instruction unreachable.
Trap(env, s) ==
  LET trap == AddOutOfLineTrap(env, s, "Unreachable") IN Jump(trap, trap.got)

Control(env, s, i) ==
  CASE i[1] = "block" -> EnterBlock(s, i[2], i[3])
    [] i[1] = "loop" -> Loop(env, s, i[2], i[3])
    [] i[1] = "if" -> If(s, i[2], i[3])
    [] i[1] = "else" -> Else(s)
    [] i[1] = "end" -> PopControl(s)
    [] i[1] = "br" -> BrOrRet(env, s, i[2])
    [] i[1] = "br_if" -> BrIf(env, s, i[2])
    [] i[1] = "br_table" -> BrTable(env, s, i[2])
    [] i[1] = "return" -> ReturnImpl(env, s, env.results)
    [] i[1] = "unreachable" -> Trap(env, s)
    [] i[1] = "start" -> StartFunctionBody(env, s, i[2], i[3])
    [] i[1] = "finish" -> FinishFunction(IF i[2] THEN ReturnImpl(env, s, env.results) ELSE s)

AtomicOps == {"atomic.load", "atomic.store", "atomic.rmw", "atomic.cmpxchg", "atomic.wait",
              "atomic.notify"}
NumericOps == {"unop", "binop", "divide", "rotate", "truncate"}
LocalOps == {"const", "local.get", "local.set", "local.tee", "global.get", "global.set", "drop",
             "select"}
ControlOps == {"block", "loop", "if", "else", "end", "br", "br_if", "br_table", "return",
               "unreachable", "start", "finish"}

StructOps == {"struct.new", "struct.new_default", "struct.get", "struct.set", "struct.atomic.get",
              "struct.atomic.set"}
ArrayOps == {"array.new", "array.new_default", "array.new_fixed", "array.new_segment",
             "array.init_segment", "array.get", "array.set", "array.atomic.get", "array.atomic.set",
             "array.fill", "array.len", "array.copy"}
ObjectAtomicOps == {"struct.atomic.rmw", "struct.atomic.cmpxchg", "struct.wait", "struct.notify",
                    "array.atomic.rmw", "array.atomic.cmpxchg"}
TableOps == {"table.get", "table.set", "table.init", "table.copy", "table.grow", "table.size",
             "table.fill", "elem.drop"}
ViewOps == {"view.wtf8_advance", "view.wtf8_slice", "view.wtf8_encode", "view.wtf16_get_code_unit",
            "view.wtf16_encode", "view.wtf16_slice", "view.iter_next", "view.iter_advance",
            "view.iter_rewind", "view.iter_slice"}
StringOps ==
  {"string.new_wtf8", "string.new_wtf8_array", "string.new_wtf16", "string.new_wtf16_array", "string.const",
   "string.from_code_point", "string.concat", "string.measure_utf8", "string.measure_wtf8",
   "string.measure_wtf16", "string.is_usv_sequence", "string.hash", "string.eq", "string.compare",
   "string.encode_wtf8", "string.encode_wtf8_array", "string.encode_wtf16", "string.encode_wtf16_array",
   "string.as_wtf8", "string.as_wtf16", "string.as_iter"}
ReferenceOps == {"ref.null", "ref.is_null", "ref.as_non_null", "ref.eq", "ref.i31", "i31.get", "ref.func",
                 "extern.convert_any", "any.convert_extern"}
CastOps == {"ref.test", "ref.cast", "br_on_cast", "br_on_cast_fail", "br_on_null", "br_on_non_null"}

Handle(env, s, i, lookahead) ==
  LET op == i[1]
  IN  CASE op \in LocalOps   -> LocalAndParametric(env, s, i)
        [] op \in NumericOps -> Number(env, s, i, lookahead)
        [] op \in ControlOps -> Control(env, s, i)
        [] op \in StructOps  -> Struct(env, s, i)
        [] op \in ArrayOps   -> Array(env, s, i)
        [] op \in ObjectAtomicOps -> ObjectAtomic(env, s, i)
        [] op \in TableOps -> TableOp(env, s, i)
        [] op \in StringOps -> StringOp(env, s, i)
        [] op \in ViewOps -> ViewOp(env, s, i)
        [] op \in CallOps -> CallOp(env, s, i)
        [] op \in ReferenceOps -> Reference(env, s, i)
        [] op \in CastOps    -> Cast(env, s, i)
        [] op \in AtomicOps  -> AtomicOp(env, s, i)
        [] OTHER -> Memory(env, s, i)

=============================================================================
