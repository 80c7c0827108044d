---------------------------- MODULE LiftoffObjects ----------------------------
(***************************************************************************)
(* LiftoffCompiler, part four: references, structs, arrays and casts       *)
(* (liftoff-compiler.cc).  A handler is given the static type of the       *)
(* operand it looks into.  Pointers are compressed, so an i31 has the      *)
(* width of an i32; shared types and custom descriptors, which are behind  *)
(* experimental flags, are not used.                                       *)
(***************************************************************************)
EXTENDS LiftoffControl

PopToModifiableRegister(s, pinned) ==
  LET t == PopToRegister(s, pinned)
      u == GetUnusedRegister(t, {}, pinned)
  IN  IF ~IsUsed(t, t.got) /\ t.got \notin pinned THEN t ELSE Move(u, u.got, Reg(t.got))
PopToFixedRegister(s, r) == LET t == PopVarState(s) IN Move(t, r, t.got)

\* The operand k below the top.
Operand0(s, k) == s.stack[Height(s) - k]

---------------------------------------------------------------------------
(* Nulls. *)

JumpIfSame(s, a, b, label) == JumpIf(s, "eq", "i64", Reg(a), Reg(b), label)
JumpIfOther(s, a, b, label) == JumpIf(s, "ne", "i64", Reg(a), Reg(b), label)

MaybeEmitNullCheck(env, s, object, pinned, type) ==
  LET null == GetUnusedRegister(s, {}, pinned)
      trap == AddOutOfLineTrap(env, LoadNullValue(null, null.got, type), "NullDereference")
  IN  IF IsNullable(type) THEN JumpIfSame(trap, object, null.got, trap.got) ELSE s

\* The page of the null faults on an access to it, but for fields that lie beyond it.
ExplicitNullCheck(env, type, field, aligned) ==
  IsNullable(type) /\ (env.nulls = "explicit" \/ field > MaxFieldForImplicitNullCheck \/ aligned)
ImplicitNullCheck(env, type, field, aligned) ==
  IsNullable(type) /\ ~ExplicitNullCheck(env, type, field, aligned)
NullCheckForStructOp(env, s, object, pinned, type, field, aligned) ==
  IF ExplicitNullCheck(env, type, field, aligned)
    THEN MaybeEmitNullCheck(env, s, object, pinned, type) ELSE s

RefNull(s, type) ==
  LET t == GetUnusedRegister(s, {}, {}) IN PushRegister(LoadNullValue(t, t.got, type), t.got)

\* fn is "eq" or "ne".
EmitIsNull(s, fn, type) ==
  LET ref  == PopToRegister(s, {})
      null == GetUnusedRegister(ref, {}, {ref.got})
      dst  == GetUnusedRegister(LoadNullValue(null, null.got, type), {ref.got, null.got}, {})
  IN  PushRegister(Emit(dst, Ins(fn, "i64", dst.got, Reg(ref.got), Reg(null.got))), dst.got)

RefAsNonNull(env, s, type) ==
  LET obj == PopToRegister(s, {})
      dst == GetUnusedRegister(obj, {}, {obj.got})
      explicit == env.nulls = "explicit" \/ IsSubtype(Ref("i31"), type) \/ ~UseWasmNull(type)
  IN  PushRegister(IF explicit THEN MaybeEmitNullCheck(env, obj, obj.got, {obj.got}, type)
                   ELSE Emit(dst, <<"word", dst.got, obj.got>>), obj.got)

\* A cast that leaves only null or only other values; trap is "ne" or "eq".
AssertNullTypecheckImpl(env, s, type, cond) ==
  LET obj  == PopToRegister(s, {})
      null == GetUnusedRegister(obj, {}, {obj.got})
      trap == AddOutOfLineTrap(env, LoadNullValue(null, null.got, type), "IllegalCast")
  IN  PushRegister(JumpIf(trap, cond, "i64", Reg(obj.got), Reg(null.got), trap.got), obj.got)

ExternConvertAny(s) ==
  LET ref   == PopToModifiableRegister(s, {})
      null  == GetUnusedRegister(ref, {}, {ref.got})
      label == NewLabel(LoadNullValue(null, null.got, "any"))
      other == JumpIfOther(label, ref.got, null.got, label.label)
  IN  PushRegister(Bind(LoadNullValue(other, ref.got, "extern"), label.label), ref.got)
AnyConvertExtern(s) == PushRegister(DropTop(CallBuiltin(s, "any_convert_extern", <<Top(s)>>)), ReturnRegister)

---------------------------------------------------------------------------
(* Fields. *)

LoadField(s, dst, obj, index, at, kind, signed, trapping, atomic) ==
  Emit(s, <<"getfield", dst, obj, index, at, kind, signed, trapping, atomic>>)
LoadObjectField(s, dst, obj, index, at, kind, signed, trapping) ==
  LoadField(s, dst, obj, index, at, kind, signed, trapping, FALSE)
LoadAtomicObjectField(s, dst, obj, index, at, kind, signed, trapping) ==
  LoadField(s, dst, obj, index, at, kind, signed, trapping, TRUE)

StoreField(s, obj, index, at, value, kind, trapping, barrier, atomic) ==
  Emit(s, <<"setfield", obj, index, at, value, kind, trapping, barrier, atomic>>)
StoreObjectField(s, obj, index, at, value, kind, trapping, barrier) ==
  StoreField(s, obj, index, at, value, kind, trapping, barrier, FALSE)
StoreAtomicObjectField(s, obj, index, at, value, kind, trapping) ==
  StoreField(s, obj, index, at, value, kind, trapping, TRUE, TRUE)

SetDefaultValue(s, r, kind) ==
  IF IsRef(kind) THEN LoadNullValue(s, r, kind) ELSE Move(s, r, Const("i64", 0))

RttCanon(s, type, pinned) ==
  LET t == GetUnusedRegister(s, {}, pinned) IN Emit(t, <<"rtt", t.got, MapOf(type)>>)

---------------------------------------------------------------------------
(* Structs. *)

Fields(type) == Types[type].fields
ElementKind(type) == Fields(type)[1]

\* A young object needs no write barrier while it is initialized.
StructNew(env, s, type, initial_values_on_stack) ==
  LET rtt == RttCanon(s, type, {})
      obj == CallBuiltin(rtt, "allocate_struct", <<Reg(rtt.got), Const("i32", Len(Fields(type)))>>)
      pinned == {ReturnRegister}
      Initialize(t, k) ==
        LET kind  == Fields(type)[k]
            given == PopToRegister(t, pinned)
            free  == GetUnusedRegister(t, {}, pinned)
            value == IF initial_values_on_stack THEN given ELSE SetDefaultValue(free, free.got, kind)
        IN  StoreObjectField(value, ReturnRegister, 0, k, value.got, kind, FALSE,
                             env.old /\ initial_values_on_stack /\ IsRef(kind))
  IN  PushRegister(FoldLeft(Initialize, obj, Reverse([k \in DOMAIN Fields(type) |-> k])), ReturnRegister)

IsWide(kind, atomic) == atomic /\ kind = "i64"

StructGetImpl(env, s, type, field, signed, static, atomic) ==
  LET kind == Fields(type)[field]
      obj  == PopToRegister(s, {})
      checked == NullCheckForStructOp(env, obj, obj.got, {obj.got}, static, field, IsWide(kind, atomic))
      value == GetUnusedRegister(checked, {}, {obj.got})
      trapping == ImplicitNullCheck(env, static, field, IsWide(kind, atomic))
  IN  PushRegister(LoadField(value, value.got, obj.got, 0, field, kind, signed, trapping, atomic), value.got)
StructGet(env, s, type, field, signed, static) == StructGetImpl(env, s, type, field, signed, static, FALSE)
StructAtomicGet(env, s, type, field, signed, static) == StructGetImpl(env, s, type, field, signed, static, TRUE)

StructSetImpl(env, s, type, field, static, atomic) ==
  LET kind  == Fields(type)[field]
      value == PopToRegister(s, {})
      obj   == PopToRegister(value, {value.got})
      pinned == {value.got, obj.got}
      checked == NullCheckForStructOp(env, obj, obj.got, pinned, static, field, IsWide(kind, atomic))
      trapping == ImplicitNullCheck(env, static, field, IsWide(kind, atomic))
  IN  StoreField(checked, obj.got, 0, field, value.got, kind, trapping, TRUE, atomic)
StructSet(env, s, type, field, static) == StructSetImpl(env, s, type, field, static, FALSE)
StructAtomicSet(env, s, type, field, static) == StructSetImpl(env, s, type, field, static, TRUE)

---------------------------------------------------------------------------
(* Arrays. *)

\* From byte offset index, which the loop advances, for length elements.
ArrayFillImpl(s, obj, index, value, length, kind, barrier) ==
  LET Scale(t, r) == IF SizeLog2(kind) = 0 THEN t
                     ELSE Emit(t, Ins("shl", "i32", r, Reg(r), Const("i32", SizeLog2(kind))))
      bytes == Scale(Scale(s, index), length)
      loop  == s.label + 1
      done  == s.label + 2
      end   == NewLabel(NewLabel(Emit(bytes, Ins("add", "i32", length, Reg(length), Reg(index)))))
      test  == JumpIf(Bind(end, loop), "ge_u", "i32", Reg(index), Reg(length), done)
      store == StoreObjectField(test, obj, index, 0, value, kind, FALSE, barrier)
      next  == Emit(store, Ins("add", "i32", index, Reg(index), Const("i32", Size(kind))))
  IN  Bind(Jump(next, loop), done)

AllocateArray(s, type, length) ==
  LET rtt == RttCanon(s, type, {})
  IN  CallBuiltin(rtt, "allocate_array", <<Reg(rtt.got), length, Const("i32", Size(ElementKind(type)))>>)

ArrayNew(env, s, type, initial_value_on_stack) ==
  LET kind  == ElementKind(type)
      count == LoadToRegister(s, Top(s), {})
      trap  == AddOutOfLineTrap(env, count, "ArrayTooLarge")
      short == JumpIf(trap, "gt_u", "i32", Reg(count.got), Const("i32", MaxLength(type)), trap.got)
      obj    == AllocateArray(short, type, Top(short))
      length == PopToModifiableRegister(obj, {ReturnRegister})
      value  == GetUnusedRegister(length, {}, {ReturnRegister, length.got})
      ready  == IF initial_value_on_stack THEN PopToFixedRegister(value, value.got)
                ELSE SetDefaultValue(value, value.got, kind)
      index  == GetUnusedRegister(ready, {}, {ReturnRegister, length.got, value.got})
  IN  PushRegister(ArrayFillImpl(Move(index, index.got, Const("i32", 0)), ReturnRegister, index.got,
                                 value.got, length.got, kind,
                                 env.old /\ IsRef(kind) /\ initial_value_on_stack),
                   ReturnRegister)

MaybeCheckArray(env, s, array, pinned, static) ==
  IF env.nulls = "explicit" THEN MaybeEmitNullCheck(env, s, array, pinned, static) ELSE s
LoadLength(env, s, dst, array, static) ==
  Emit(s, <<"length", dst, array, IsNullable(static) /\ env.nulls = "trap">>)

\* The end of the range must not have wrapped around.
ArrayFill(env, s, type, static) ==
  LET array   == PeekToRegister(s, 3, {})
      checked == MaybeCheckArray(env, array, array.got, {array.got}, static)
      size    == GetUnusedRegister(checked, {}, {array.got})
      loaded  == LoadLength(env, size, size.got, array.got, static)
      at      == PeekToRegister(loaded, 2, {array.got, size.got})
      count   == PeekToRegister(at, 0, {array.got, size.got, at.got})
      sum     == GetUnusedRegister(count, {}, {array.got, size.got, at.got, count.got})
      added   == Emit(sum, Ins("add", "i32", sum.got, Reg(count.got), Reg(at.got)))
      trap    == AddOutOfLineTrap(env, added, "ArrayOutOfBounds")
      inside  == JumpIf(trap, "gt_u", "i32", Reg(sum.got), Reg(size.got), trap.got)
      whole   == JumpIf(inside, "gt_u", "i32", Reg(at.got), Reg(sum.got), trap.got)
      length  == PopToModifiableRegister(whole, {})
      value   == PopToRegister(length, {length.got})
      index   == PopToModifiableRegister(value, {length.got, value.got})
      obj     == PopToRegister(index, {length.got, value.got, index.got})
  IN  ArrayFillImpl(obj, obj.got, index.got, value.got, length.got, ElementKind(type),
                    IsRef(ElementKind(type)))

BoundsCheckArray(env, s, array, index, pinned, static) ==
  LET length == GetUnusedRegister(s, {}, pinned)
      trap   == AddOutOfLineTrap(env, LoadLength(env, length, length.got, array, static),
                                 "ArrayOutOfBounds")
  IN  JumpIf(trap, "ge_u", "i32", Reg(index), Reg(length.got), trap.got)

\* index and array are the states that popped them; the index becomes an offset.
ElementAddress(env, index, array, pinned, kind, static) ==
  LET checked == MaybeCheckArray(env, array, array.got, pinned, static)
      bounded == BoundsCheckArray(env, checked, array.got, index.got, pinned, static)
  IN  IF SizeLog2(kind) = 0 THEN bounded
      ELSE Emit(bounded, Ins("shl", "i32", index.got, Reg(index.got), Const("i32", SizeLog2(kind))))

ArrayGetImpl(env, s, type, signed, static, atomic) ==
  LET kind  == ElementKind(type)
      index == PopToModifiableRegister(s, {})
      array == PopToRegister(index, {index.got})
      pinned == {index.got, array.got}
      value == GetUnusedRegister(ElementAddress(env, index, array, pinned, kind, static), {}, pinned)
  IN  PushRegister(LoadField(value, value.got, array.got, index.got, 0, kind, signed, FALSE, atomic),
                   value.got)
ArrayGet(env, s, type, signed, static) == ArrayGetImpl(env, s, type, signed, static, FALSE)
ArrayAtomicGet(env, s, type, signed, static) == ArrayGetImpl(env, s, type, signed, static, TRUE)

ArraySetImpl(env, s, type, static, atomic) ==
  LET kind  == ElementKind(type)
      value == PopToRegister(s, {})
      index == PopToModifiableRegister(value, {value.got})
      array == PopToRegister(index, {value.got, index.got})
      ready == ElementAddress(env, index, array, {value.got, index.got, array.got}, kind, static)
  IN  StoreField(ready, array.got, index.got, 0, value.got, kind, FALSE, TRUE, atomic)
ArraySet(env, s, type, static) == ArraySetImpl(env, s, type, static, FALSE)
ArrayAtomicSet(env, s, type, static) == ArraySetImpl(env, s, type, static, TRUE)

ArrayLen(env, s, static) ==
  LET obj == PopToRegister(s, {})
      len == GetUnusedRegister(MaybeCheckArray(env, obj, obj.got, {obj.got}, static), {}, {obj.got})
  IN  PushRegister(LoadLength(env, len, len.got, obj.got, static), len.got)

ArrayCopy(s) ==
  DropValues(CallBuiltin(s, "array_copy",
    <<Operand0(s, 3), Operand0(s, 1), Operand0(s, 0), Operand0(s, 4), Operand0(s, 2)>>), 5)

ArrayNewFixed(env, s, type, count) ==
  LET kind == ElementKind(type)
      Initialize(t, k) ==
        LET element == PopToRegister(t, {ReturnRegister})
        IN  StoreObjectField(element, ReturnRegister, 0, k, element.got, kind, FALSE,
                             env.old /\ IsRef(kind))
      order == Reverse([k \in 1..count |-> k])
  IN  PushRegister(FoldLeft(Initialize, AllocateArray(s, type, Const("i32", count)), order),
                   ReturnRegister)

\* Whether the elements are references tells which kind of segment is meant.
LoadSmi(s, r, n) == Move(s, r, Const("i32", 2 * n))
IsElement(type) == IF IsRef(ElementKind(type)) THEN 1 ELSE 0

ArrayNewSegment(s, type) ==
  LET rtt  == RttCanon(s, type, {})
      elem == GetUnusedRegister(rtt, {}, {rtt.got})
      flag == GetUnusedRegister(LoadSmi(elem, elem.got, IsElement(type)), {}, {rtt.got, elem.got})
      args == <<Operand0(flag, 1), Top(flag), Reg(elem.got), Reg(flag.got), Reg(rtt.got)>>
      obj  == CallBuiltin(LoadSmi(flag, flag.got, 0), "array_new_segment", args)
  IN  PushRegister(DropValues(obj, 2), ReturnRegister)

ArrayInitSegment(s, type) ==
  LET segment == GetUnusedRegister(s, {}, {})
      elem == GetUnusedRegister(LoadSmi(segment, segment.got, 0), {}, {segment.got})
      flag == GetUnusedRegister(LoadSmi(elem, elem.got, IsElement(type)), {}, {segment.got, elem.got})
      args == <<Operand0(flag, 2), Operand0(flag, 1), Top(flag), Reg(segment.got), Reg(elem.got),
                Reg(flag.got), Operand0(flag, 3)>>
  IN  DropValues(CallBuiltin(LoadSmi(flag, flag.got, 0), "array_init_segment", args), 4)

---------------------------------------------------------------------------
(* i31. *)

RefI31(s) ==
  LET src == PopToRegister(s, {})
      dst == GetUnusedRegister(src, {src.got}, {})
  IN  PushRegister(Emit(dst, Ins("shl", "i32", dst.got, Reg(src.got), Const("i32", 1))), dst.got)

I31Get(env, s, fn, static) ==
  LET src == PopToRegister(s, {})
      dst == GetUnusedRegister(MaybeEmitNullCheck(env, src, src.got, {src.got}, static), {src.got}, {})
  IN  PushRegister(Emit(dst, Ins(fn, "i32", dst.got, Reg(src.got), Const("i32", 1))), dst.got)
I31GetS(env, s, static) == I31Get(env, s, "sar", static)
I31GetU(env, s, static) == I31Get(env, s, "shr", static)

=============================================================================
