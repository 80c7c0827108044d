---------------------------- MODULE LiftoffStrings ----------------------------
(***************************************************************************)
(* LiftoffCompiler, part eight: strings (liftoff-compiler.cc).  Nearly all *)
(* of the work is the builtins'; a handler checks references for null and  *)
(* gets the operands where the builtin expects them.  A view of a string   *)
(* is not distinguished from the string.  There is one memory, number 0.   *)
(***************************************************************************)
EXTENDS LiftoffTables

SecondReturnRegister == 2         \* kReturnRegister1

\* A reference that must not be null:  the top, popped, or the operand k under it, which
\* stays where it is.
NonNull(env, s, type, pinned) ==
  [MaybeEmitNullCheck(env, s, s.got, pinned \cup {s.got}, type) EXCEPT !.got = s.got]
PopNonNull(env, s, type, pinned) == NonNull(env, PopToRegister(s, pinned), type, pinned)
ReadNonNull(env, s, k, type, pinned) ==
  NonNull(env, LoadToRegister(s, Operand0(s, k), pinned), type, pinned)

\* The builtin is called on operands that were popped, or on some of the n on top.
CallAndPush(s, builtin, args) == PushRegister(CallBuiltin(s, builtin, args), ReturnRegister)
CallOnTop(s, builtin, args, n) ==
  PushRegister(DropValues(CallBuiltin(s, builtin, args), n), ReturnRegister)

\* The operands leave the stack without a look at their registers:  the call has spilled
\* them.
CallAndPopBack(s, builtin, args, n) ==
  LET t == CallBuiltin(s, builtin, args)
  IN  PushRegister([t EXCEPT !.stack = SubSeq(@, 1, Len(@) - n)], ReturnRegister)

OnString(env, s, builtin, type) ==
  LET str == PopNonNull(env, s, type, {}) IN CallAndPush(str, builtin, <<Reg(str.got)>>)

---------------------------------------------------------------------------
(* New strings. *)

StringNewWtf8(env, s, variant) ==
  LET r == GetUnusedRegister(s, {}, {})
      address == IndexToVarStateSaturating(env, LoadSmi(r, r.got, variant), 1, {r.got})
  IN  CallOnTop(address, "string_new_wtf8",
                <<address.got, Top(address), Const("i32", 0), Reg(r.got)>>, 2)

StringNewWtf8Array(env, s, variant, type) ==
  LET array == ReadNonNull(env, s, 2, type, {})
      r == GetUnusedRegister(array, {}, {array.got})
  IN  CallAndPopBack(LoadSmi(r, r.got, variant), "string_new_wtf8_array",
        <<Operand0(r, 1), Top(r), Reg(array.got), Reg(r.got), Const("i32", 0)>>, 3)

StringNewWtf16(env, s) ==
  LET address == IndexToVarStateSaturating(env, s, 1, {})
  IN  CallOnTop(address, "string_new_wtf16", <<Const("i32", 0), address.got, Top(address)>>, 2)

StringNewWtf16Array(env, s, type) ==
  LET array == ReadNonNull(env, s, 2, type, {})
  IN  CallAndPopBack(array, "string_new_wtf16_array",
                     <<Reg(array.got), Operand0(array, 1), Top(array)>>, 3)

StringConst(s, index) == CallAndPush(s, "string_const", <<Const("i32", index)>>)

StringFromCodePoint(s) ==
  CallOnTop(s, "string_from_code_point", <<Top(s), Const("i32", 0)>>, 1)

StringConcat(env, s, head, tail) ==
  LET t == PopNonNull(env, s, tail, {})
      h == PopNonNull(env, t, head, {t.got})
  IN  CallAndPush(h, "string_concat", <<Reg(h.got), Reg(t.got)>>)

---------------------------------------------------------------------------
(* What a string is. *)

StringMeasureWtf8(env, s, variant, type) ==
  OnString(env, s, IF variant = "utf8" THEN "string_measure_utf8" ELSE "string_measure_wtf8", type)

StringMeasureWtf16(env, s, type) ==
  LET str   == PopNonNull(env, s, type, {})
      value == GetUnusedRegister(str, {}, {str.got})
  IN  PushRegister(LoadObjectField(value, value.got, str.got, 0, 1, "i32", FALSE, FALSE), value.got)

StringIsUSVSequence(env, s, type) == OnString(env, s, "string_is_usv_sequence", type)

StringHash(env, s, type) ==
  LET str == ReadNonNull(env, s, 0, type, {}) IN CallOnTop(str, "string_hash", <<Reg(str.got)>>, 1)

\* Equal references are equal strings and a null equals nothing else; only other ones go
\* to the builtin.
StringEq(env, s, a_type, b_type) ==
  LET b == PopToModifiableRegister(s, {ReturnRegister})
      a == PopToModifiableRegister(b, {ReturnRegister, b.got})
      null  == GetUnusedRegister(SpillAllRegisters(a), {}, {ReturnRegister, b.got, a.got})
      done  == null.label + 1
      check == IsNullable(a_type) \/ IsNullable(b_type)
      ready == IF check THEN LoadNullValue(NewLabel(null), null.got, "string") ELSE NewLabel(null)
      same  == JumpIfSame(Move(ready, ReturnRegister, Const("i32", 1)), a.got, b.got, done)
      Check(t, type, r) == IF IsNullable(type) THEN JumpIfSame(t, r, null.got, done) ELSE t
      other == IF check THEN Move(same, ReturnRegister, Const("i32", 0)) ELSE same
      both  == Check(Check(other, a_type, a.got), b_type, b.got)
  IN  PushRegister(Bind(CallBuiltin(both, "string_equal", <<Reg(a.got), Reg(b.got)>>), done),
                   ReturnRegister)

StringCompare(env, s, lhs, rhs) ==
  LET r == ReadNonNull(env, s, 0, rhs, {})
      l == ReadNonNull(env, r, 1, lhs, {r.got})
      called == CallBuiltin(l, "string_compare", <<Reg(l.got), Reg(r.got)>>)
  IN  PushRegister(SmiToInt32(DropValues(called, 2), ReturnRegister), ReturnRegister)

---------------------------------------------------------------------------
(* Strings written to the memory or to an array. *)

StringEncodeWtf8(env, s, variant, type) ==
  LET offset == IndexToVarStateSaturating(env, s, 0, {})
      str    == ReadNonNull(env, offset, 1, type, Pin(offset.got))
  IN  CallOnTop(str, "string_encode_wtf8",
                <<offset.got, Const("i32", 0), Const("i32", variant), Reg(str.got)>>, 2)

StringEncodeWtf8Array(env, s, variant, type, array_type) ==
  LET array == ReadNonNull(env, s, 1, array_type, {})
      str   == ReadNonNull(env, array, 2, type, {array.got})
      r     == GetUnusedRegister(str, {}, {array.got, str.got})
  IN  CallOnTop(LoadSmi(r, r.got, variant), "string_encode_wtf8_array",
                <<Reg(str.got), Reg(array.got), Top(r), Reg(r.got)>>, 3)

StringEncodeWtf16(env, s, type) ==
  LET offset == IndexToVarStateSaturating(env, s, 0, {})
      str    == ReadNonNull(env, offset, 1, type, Pin(offset.got))
  IN  CallOnTop(str, "string_encode_wtf16", <<Reg(str.got), offset.got, Const("i32", 0)>>, 2)

StringEncodeWtf16Array(env, s, type, array_type) ==
  LET array == ReadNonNull(env, s, 1, array_type, {})
      str   == ReadNonNull(env, array, 2, type, {array.got})
  IN  CallOnTop(str, "string_encode_wtf16_array", <<Reg(str.got), Reg(array.got), Top(str)>>, 3)

---------------------------------------------------------------------------
(* Views. *)

StringAsWtf8(env, s, type)  == OnString(env, s, "string_as_wtf8", type)
StringAsWtf16(env, s, type) == OnString(env, s, "string_as_wtf16", type)
StringAsIter(env, s, type)  == OnString(env, s, "string_as_iter", type)

\* A view with one or two numbers over it, which stay on the stack.
OnView(env, s, builtin, type) ==
  LET view == ReadNonNull(env, s, 1, type, {})
  IN  CallOnTop(view, builtin, <<Reg(view.got), Top(view)>>, 2)
OnViewRange(env, s, builtin, type) ==
  LET view == ReadNonNull(env, s, 2, type, {})
  IN  CallOnTop(view, builtin, <<Reg(view.got), Operand0(view, 1), Top(view)>>, 3)

StringViewWtf8Advance(env, s, type) == OnViewRange(env, s, "view_wtf8_advance", type)
StringViewWtf8Slice(env, s, type)   == OnViewRange(env, s, "view_wtf8_slice", type)

\* How far it got and how many bytes it wrote.
StringViewWtf8Encode(env, s, variant, type) ==
  LET addr   == IndexToVarStateSaturating(env, s, 2, {})
      view   == ReadNonNull(env, addr, 3, type, Pin(addr.got))
      memory == GetUnusedRegister(view, {}, Pin(addr.got) \cup {view.got})
      r      == GetUnusedRegister(LoadSmi(memory, memory.got, 0), {},
                                  Pin(addr.got) \cup {view.got, memory.got})
      called == Call(LoadSmi(r, r.got, variant), <<ReturnRegister, SecondReturnRegister>>,
                     "view_wtf8_encode", <<addr.got, Operand0(r, 1), Top(r), Reg(view.got),
                                           Reg(memory.got), Reg(r.got)>>)
  IN  PushRegister(PushRegister(DropValues(called, 4), ReturnRegister), SecondReturnRegister)

StringViewWtf16GetCodeUnit(env, s, type) ==
  LET pos  == PopToRegister(s, {})
      view == PopNonNull(env, pos, type, {pos.got})
  IN  CallAndPush(view, "view_wtf16_get_code_unit", <<Reg(view.got), Reg(pos.got)>>)

StringViewWtf16Encode(env, s, type) ==
  LET offset == IndexToVarStateSaturating(env, s, 2, {})
      view   == ReadNonNull(env, offset, 3, type, Pin(offset.got))
      memory == GetUnusedRegister(view, {}, Pin(offset.got) \cup {view.got})
  IN  CallOnTop(LoadSmi(memory, memory.got, 0), "view_wtf16_encode",
        <<offset.got, Operand0(memory, 1), Top(memory), Reg(view.got), Reg(memory.got)>>, 4)

StringViewWtf16Slice(env, s, type) ==
  LET end   == PopToRegister(s, {})
      start == PopToRegister(end, {end.got})
      view  == PopNonNull(env, start, type, {end.got, start.got})
  IN  CallAndPush(view, "view_wtf16_slice", <<Reg(view.got), Reg(start.got), Reg(end.got)>>)

StringViewIterNext(env, s, type) == OnString(env, s, "view_iter_next", type)
StringViewIterAdvance(env, s, type) == OnView(env, s, "view_iter_advance", type)
StringViewIterRewind(env, s, type)  == OnView(env, s, "view_iter_rewind", type)
StringViewIterSlice(env, s, type)   == OnView(env, s, "view_iter_slice", type)

=============================================================================
