---------------------------- MODULE LiftoffCalls ----------------------------
(***************************************************************************)
(* LiftoffCompiler, part nine: calls (liftoff-compiler.cc).  Tables of     *)
(* functions have the address type of the memory.  Deoptimisation and the  *)
(* set-up of prototypes around a call are left out.                        *)
(***************************************************************************)
EXTENDS LiftoffStrings

MultiReturns == <<ReturnRegister, SecondReturnRegister>>

NextFeedbackVectorSlot(s) == FeedbackSlot(s.calls)
Encountered(s) == [s EXCEPT !.calls = @ + 1]     \* encountered_call_instructions_.push_back

FinishCall(s, sig) ==
  FoldLeft(PushRegister, s, SubSeq(MultiReturns, 1, Len(Types[sig].results)))

TierupCheckOnTailCall(env, s) == IF env.tiering THEN TierupCheck(env, s) ELSE s

\* The end of all calls.  target and implicit are where code and implicit argument are.
Transfer(s, sig, target, implicit, tail) ==
  LET t == PrepareCall(s, Len(Types[sig].fields))
  IN  IF tail THEN Emit(t, <<"tailcall", target, implicit, t.got>>)
      ELSE FinishCall(Emit(t, <<"invoke", target, implicit, t.got>>), sig)

CallDirect(env, s, f, tail) ==
  LET sig == Functions[f].sig
      collects == env.inlining # "none"
      noted    == IF collects THEN Encountered(s) ELSE s
      implicit == GetUnusedRegister(noted, {}, {})
      target   == GetUnusedRegister(implicit, {}, {implicit.got})
      table    == Emit(target, <<"dispatchtable", target.got, 0>>)
      loaded   == Emit(Emit(table, <<"dispatchentry", implicit.got, target.got, EntryOffset(f - 1), "implicit">>),
                       <<"dispatchentry", target.got, target.got, EntryOffset(f - 1), "target">>)
      counted  == Emit(GetUnusedRegister(noted, {}, {}), <<"increment", NextFeedbackVectorSlot(s)>>)
  IN  IF f \in Imported THEN Transfer(loaded, sig, Reg(target.got), Reg(implicit.got), tail)
      ELSE Transfer(IF collects THEN counted ELSE s, sig, Const("i64", f), Const("i64", Instance), tail)

---------------------------------------------------------------------------
(* Indirect calls.  index is the operand or a constant; base, a and b are  *)
(* the three temporary registers.                                          *)

MaximumSize(table) == IF table.max >= 0 THEN Min({table.max, MaxTableSize}) ELSE MaxTableSize
Static32(index) == Wrap("i32", index[2])
StaticallyOutOfBounds(table, index) == IsConst(index) /\ Static32(index) >= MaximumSize(table)

CheckTableIndex(env, s, table, index, base, size) ==
  LET trap  == AddOutOfLineTrap(env, s, "TableOutOfBounds")
      fixed == table.max >= 0 /\ table.max = table.min
      kind  == AddressKind(env)
      length == Emit(trap, <<"dispatchlength", size, base>>)
      wide  == IF env.memory64 THEN Emit(length, Ins("uext", "i32", size, Reg(size), Const("i32", 0))) ELSE length
  IN  IF StaticallyOutOfBounds(table, index) THEN Jump(trap, trap.got)
      ELSE IF ~fixed /\ IsConst(index)
        THEN JumpIf(length, "le_u", "i32", Reg(size), Const("i32", index[2]), trap.got)
      ELSE IF ~fixed THEN JumpIf(wide, "le_u", kind, Reg(size), index, trap.got)
      ELSE IF IsConst(index) THEN trap
      ELSE JumpIf(trap, "ge_u", kind, index, Const(kind, MaximumSize(table)), trap.got)

\* The entry is at base with the offset that is returned.  The index register is used
\* for the sum, unless something else is in it.
FindEntry(s, table, index, base, spare) ==
  LET to  == IF s.uses[index[2]] > 1 THEN spare ELSE index[2]
      ext == Emit(s, Ins("uext", "i32", to, index, Const("i32", 0)))
      mul == Emit(ext, Ins("mul", "i64", to, Reg(to), Const("i64", EntrySize)))
      add == Emit(mul, Ins("add", "i64", base, Reg(base), Reg(to)))
  IN  IF StaticallyOutOfBounds(table, index) THEN [s EXCEPT !.got = 0]
      ELSE IF IsConst(index) THEN [s EXCEPT !.got = EntryOffset(Static32(index))]
      ELSE [add EXCEPT !.got = EntriesOffset]

\* A signature that others may extend has to be looked up in the list of supertypes of
\* the one found in the entry.
CheckSupertypes(s, sig, id, rtt, success, mismatch) ==
  LET same  == JumpIf(s, "eq", "i32", Reg(id), Const("i32", SigId(sig)), success)
      info  == Emit(same, <<"canonicalrtt", rtt, id>>)
      deep  == IF Depth(sig) < MinimumSupertypeArraySize THEN info
               ELSE JumpIf(Emit(info, <<"supertypeslength", id, rtt>>),
                           "le_u", "i64", Reg(id), Const("i64", Depth(sig)), mismatch)
      match == Emit(deep, <<"supertype", rtt, rtt, Depth(sig)>>)
  IN  Bind(JumpIfOther(Emit(match, <<"rtt", id, MapOf(sig)>>), id, rtt, mismatch), success)

CheckSignature(env, s, table, sig, base, offset, id, rtt) ==
  LET needs_type_check == HeapOf(table.type) # sig
      needs_null_check == IsNullable(table.type)
      loaded == Emit(s, <<"dispatchentry", id, base, offset, "sig">>)
      null   == AddOutOfLineTrap(env, loaded, "NullFunc")
      other  == AddOutOfLineTrap(env, null, "FuncSigMismatch")
      checked == IF needs_null_check
                   THEN JumpIf(other, "eq", "i32", Reg(id), Const("i32", -1), null.got) ELSE other
  IN  IF ~(needs_type_check \/ needs_null_check) THEN s
      ELSE IF ~needs_type_check THEN checked
      ELSE IF Types[sig].final
        THEN JumpIf(checked, "ne", "i32", Reg(id), Const("i32", SigId(sig)), other.got)
      ELSE CheckSupertypes(NewLabel(checked), sig, id, rtt, checked.label + 1, other.got)

CallEntry(env, s, sig, base, offset, implicit, target, tail) ==
  LET loaded == Emit(Emit(s, <<"dispatchentry", implicit, base, offset, "implicit">>),
                     <<"dispatchentry", target, base, offset, "target">>)
      noted  == Encountered(Call(loaded, MultiReturns, "call_indirect_ic",
                  <<Const("i32", NextFeedbackVectorSlot(s)), Reg(target), Reg(implicit)>>))
  IN  IF env.inlining = "indirect"
        THEN Transfer(noted, sig, Reg(ReturnRegister), Reg(SecondReturnRegister), tail)
        ELSE Transfer(loaded, sig, Reg(target), Reg(implicit), tail)

CallIndirectImpl(env, s, number, sig, tail) ==
  LET table == env.dispatch[number]
      slot  == IndexToVarStateSaturating(env, s, 0, {})
      found == IF IsConst(slot.got) THEN slot ELSE LoadToRegister(slot, slot.got, {})
      index == IF IsConst(slot.got) THEN slot.got ELSE Reg(found.got)
      base  == GetUnusedRegister(found, {}, Pin(index))
      a     == GetUnusedRegister(base, {}, Pin(index) \cup {base.got})
      b     == GetUnusedRegister(a, {}, Pin(index) \cup {base.got, a.got})
      dispatch == Emit(b, <<"dispatchtable", base.got, number>>)
      bounded  == CheckTableIndex(env, dispatch, table, index, base.got, a.got)
      entry    == FindEntry(bounded, table, index, base.got, a.got)
      matched  == CheckSignature(env, entry, table, sig, base.got, entry.got, a.got, b.got)
  IN  CallEntry(env, DropTop(matched), sig, base.got, entry.got, a.got, b.got, tail)

---------------------------------------------------------------------------
(* Calls by reference. *)

CallRefImpl(env, s, sig, type, tail) ==
  LET popped   == PopToRegister(s, {})
      vector   == GetUnusedRegister(popped, {}, {popped.got})
      checked  == MaybeEmitNullCheck(env, vector, popped.got, {popped.got, vector.got}, type)
      noted    == Encountered(Call(checked, MultiReturns, "call_ref_ic",
                    <<Const("i32", NextFeedbackVectorSlot(s)), Reg(popped.got)>>))
      func     == PopToModifiableRegister(SpillAllRegisters(s), {})
      known    == MaybeEmitNullCheck(env, func, func.got, {func.got}, type)
      implicit == GetUnusedRegister(known, {}, {func.got})
      target   == GetUnusedRegister(implicit, {}, {func.got, implicit.got})
      internal == Emit(target, <<"function", func.got, func.got>>)
      loaded   == Emit(Emit(internal, <<"functionpart", implicit.got, func.got, "implicit">>),
                       <<"functionpart", target.got, func.got, "target">>)
  IN  IF env.inlining # "none"
        THEN Transfer(noted, sig, Reg(ReturnRegister), Reg(SecondReturnRegister), tail)
        ELSE Transfer(loaded, sig, Reg(target.got), Reg(implicit.got), tail)

RefFunc(s, f) ==
  PushRegister(CallBuiltin(s, "ref_func", <<Const("i32", f), Const("i32", 0)>>), ReturnRegister)

=============================================================================
