----------------------------- MODULE LiftoffTables -----------------------------
(***************************************************************************)
(* LiftoffCompiler, part seven: tables (liftoff-compiler.cc).  They have   *)
(* the address type of the memory; their elements are of type any, and the *)
(* builtins for tables of functions are not distinguished.                 *)
(***************************************************************************)
EXTENDS LiftoffObjectAtomics

\* Pointers are compressed, so a Smi is an i32.
LoadSmiConstant(n) == Const("i32", 2 * n)
SmiToInt32(s, r) == Emit(s, Ins("sar", "i32", r, Reg(r), Const("i32", 1)))

\* The result is an i64 if the address type is.
PushAddress(env, s, r) ==
  PushRegister(IF env.memory64 THEN Emit(s, Ins("sext", "i32", r, Reg(r), Const("i32", 0))) ELSE s, r)

\* As PopIndexToVarState, but operand k under the top stays where it is.
IndexToVarStateSaturating(env, s, k, pinned) ==
  LET slot == Operand0(s, k)
      t == LoadToModifiableRegister(s, slot, pinned)
  IN  IF env.memory64 \/ (IsConst(slot) /\ slot[2] >= 0) THEN [s EXCEPT !.got = slot]
      ELSE [Emit(t, Ins("uext", "i32", t.got, Reg(t.got), Const("i32", 0))) EXCEPT !.got = Reg(t.got)]
PopIndexToVarStateSaturating(env, s, pinned) == DropTop(IndexToVarStateSaturating(env, s, 0, pinned))

TableGet(env, s, table) ==
  LET index == PopIndexToVarState(env, s, {})
  IN  PushRegister(CallBuiltin(index, "table_get", <<Const("i32", table), index.got>>), ReturnRegister)

TableSet(env, s, table) ==
  LET value == PopVarState(s)
      index == PopIndexToVarState(env, value, Pin(value.got))
  IN  CallBuiltin(index, "table_set", <<Const("i32", table), Const("i32", 0), index.got, value.got>>)

TableInit(env, s, table) ==
  LET size == PopVarState(s)
      src  == PopVarState(size)
      dst  == PopIndexToVarState(env, src, Pin(size.got) \cup Pin(src.got))
  IN  CallBuiltin(dst, "table_init", <<dst.got, src.got, size.got, LoadSmiConstant(table),
                                       LoadSmiConstant(0), LoadSmiConstant(0)>>)

\* The empty array takes the place of the segment.
ElemDrop(s) ==
  LET segments == GetUnusedRegister(s, {}, {})
      index    == GetUnusedRegister(segments, {}, {segments.got})
      empty    == GetUnusedRegister(Move(index, index.got, Const("i64", 0)), {}, {segments.got, index.got})
  IN  Emit(empty, <<"elemdrop">>)

TableCopy(env, s, dst_table, src_table) ==
  LET size == PopIndexToVarState(env, s, {})
      src  == PopIndexToVarState(env, size, Pin(size.got))
      dst  == PopIndexToVarState(env, src, Pin(size.got) \cup Pin(src.got))
  IN  CallBuiltin(dst, "table_copy", <<dst.got, src.got, size.got, LoadSmiConstant(dst_table),
                                       LoadSmiConstant(src_table), LoadSmiConstant(0)>>)

\* A delta beyond 32 bits must give -1, not trap.
TableGrow(env, s, table) ==
  LET number == GetUnusedRegister(s, {}, {})
      delta  == PopIndexToVarStateSaturating(env, LoadSmi(number, number.got, table), {number.got})
      value  == PopVarState(delta)
      grown  == CallBuiltin(value, "table_grow", <<Reg(number.got), delta.got, Const("i32", 0), value.got>>)
  IN  PushAddress(env, SmiToInt32(grown, ReturnRegister), ReturnRegister)

TableSize(env, s, table) ==
  LET t == GetUnusedRegister(s, {}, {})
  IN  PushAddress(env, SmiToInt32(Emit(t, <<"tablelength", t.got, table>>), t.got), t.got)

TableFill(env, s, table) ==
  LET count == PopIndexToVarState(env, s, {})
      value == PopVarState(count)
      start == PopIndexToVarState(env, value, Pin(count.got) \cup Pin(value.got))
  IN  CallBuiltin(start, "table_fill", <<start.got, count.got, Const("i32", 0), LoadSmiConstant(table),
                                         value.got>>)

=============================================================================
