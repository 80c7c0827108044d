------------------------- MODULE LiftoffObjectAtomics -------------------------
(***************************************************************************)
(* LiftoffCompiler, part six: the atomic operations on the fields of       *)
(* objects, and waiting on them (liftoff-compiler.cc).  Objects are not    *)
(* shared, so a field of 64 bits, which may not be aligned, is read and    *)
(* written by plain instructions.                                          *)
(***************************************************************************)
EXTENDS LiftoffCasts

\* A place is the register of the object, the one of the element's offset or 0, the
\* field, its kind and whether an access to null traps.
Place0(obj, index, field, kind, trapping) ==
  [obj |-> obj, index |-> index, field |-> field, kind |-> kind, trapping |-> trapping]

LoadPlace(s, dst, p) ==
  LoadObjectField(s, dst, p.obj, p.index, p.field, p.kind, FALSE, p.trapping)
StorePlace(s, value, p) ==
  StoreObjectField(s, p.obj, p.index, p.field, value, p.kind, FALSE, TRUE)

\* What was there is pushed.  An exchange stores the operand itself.
AtomicRMW(s, fn, value, p, pinned) ==
  LET result == GetUnusedRegister(s, {}, pinned)
      loaded == LoadPlace(result, result.got, p)
      new    == GetUnusedRegister(loaded, {}, pinned \cup {result.got})
      ready  == IF fn = "xchg" THEN [loaded EXCEPT !.got = value]
                ELSE Emit(new, Ins(fn, "i64", new.got, Reg(result.got), Reg(value)))
      atomic == Emit(result, <<"fieldrmw", result.got, fn, p.obj, p.index, p.field, value, p.kind,
                               p.trapping>>)
  IN  IF p.kind = "i64" THEN StorePlace(PushRegister(ready, result.got), ready.got, p)
      ELSE PushRegister(atomic, result.got)

AtomicCompareExchangeField(s, expected, new, p, pinned) ==
  LET result == GetUnusedRegister(s, {}, pinned)
      loaded == NewLabel(LoadPlace(result, result.got, p))
      other  == JumpIfOther(loaded, result.got, expected, loaded.label)
      stored == Bind(StorePlace(other, new, p), loaded.label)
      atomic == Emit(result, <<"fieldcmpxchg", result.got, p.obj, p.index, p.field, expected, new,
                               p.kind, p.trapping>>)
  IN  PushRegister(IF p.kind = "i64" THEN stored ELSE atomic, result.got)

---------------------------------------------------------------------------
(* Structs. *)

StructPlace(env, obj, field, kind, static) ==
  Place0(obj, 0, field, kind, ImplicitNullCheck(env, static, field, kind = "i64"))

StructAtomicRMW(env, s, type, field, fn, static) ==
  LET kind  == Fields(type)[field]
      value == PopToRegister(s, {})
      obj   == PopToRegister(value, {value.got})
      pinned == {value.got, obj.got}
      checked == NullCheckForStructOp(env, obj, obj.got, pinned, static, field, kind = "i64")
  IN  AtomicRMW(checked, fn, value.got, StructPlace(env, obj.got, field, kind, static), pinned)

StructAtomicCompareExchange(env, s, type, field, static) ==
  LET kind     == Fields(type)[field]
      new      == PopToRegister(s, {})
      expected == PopToRegister(new, {new.got})
      obj      == PopToRegister(expected, {new.got, expected.got})
      pinned   == {new.got, expected.got, obj.got}
      checked  == NullCheckForStructOp(env, obj, obj.got, pinned, static, field, kind = "i64")
  IN  AtomicCompareExchangeField(checked, expected.got, new.got,
                                 StructPlace(env, obj.got, field, kind, static), pinned)

\* The operands under the timeout are popped after the call that makes it a BigInt,
\* since that call spills them.
StructWait(s, field) ==
  LET timeout  == PopVarState(s)
      big      == CallBuiltin(timeout, "bigint", <<timeout.got>>)
      expected == PopVarState(big)
      obj      == PopVarState(expected)
  IN  PushRegister(CallBuiltin(obj, "managed_wait",
                     <<obj.got, Const("i32", field), expected.got, Reg(ReturnRegister)>>),
                   ReturnRegister)

StructNotify(env, s, field, static) ==
  LET count == PopToRegister(s, {})
      obj   == PopToRegister(count, {count.got})
      pinned == {count.got, obj.got}
      checked == MaybeEmitNullCheck(env, obj, obj.got, pinned, static)
  IN  PushRegister(GenerateCCall(checked, "managed_notify",
                     <<Reg(obj.got), Const("i32", field), Reg(count.got)>>), ReturnRegister)

---------------------------------------------------------------------------
(* Arrays. *)

ArrayAtomicRMW(env, s, type, fn, static) ==
  LET kind  == ElementKind(type)
      value == PopToRegister(s, {})
      index == PopToModifiableRegister(value, {value.got})
      array == PopToRegister(index, {value.got, index.got})
      pinned == {value.got, index.got, array.got}
  IN  AtomicRMW(ElementAddress(env, index, array, pinned, kind, static), fn, value.got,
                Place0(array.got, index.got, 0, kind, FALSE), pinned)

ArrayAtomicCompareExchange(env, s, type, static) ==
  LET kind     == ElementKind(type)
      new      == PopToRegister(s, {})
      expected == PopToRegister(new, {new.got})
      index    == PopToModifiableRegister(expected, {new.got, expected.got})
      array    == PopToRegister(index, {new.got, expected.got, index.got})
      pinned   == {new.got, expected.got, index.got, array.got}
  IN  AtomicCompareExchangeField(ElementAddress(env, index, array, pinned, kind, static),
                                 expected.got, new.got,
                                 Place0(array.got, index.got, 0, kind, FALSE), pinned)

=============================================================================
