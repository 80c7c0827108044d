---------------------------- MODULE LiftoffNumeric ----------------------------
(***************************************************************************)
(* LiftoffCompiler, part one: the prologue, out-of-line code, constants,   *)
(* locals, globals and the numeric instructions (liftoff-compiler.cc).     *)
(*                                                                         *)
(* A handler takes the assembler state and returns the one after it.  The  *)
(* state of the compiler adds two fields to the assembler's: ool, the code *)
(* to emit at the end of the function, and outstanding, a comparison that  *)
(* waits for the branch after it, "" if there is none.  Registers have one *)
(* class and hold any value; the platform has 64 bits.                     *)
(***************************************************************************)
EXTENDS WasmMachine

Ins(fn, kind, dst, a, b) == <<"alu", fn, kind, dst, a, b>>
Move(s, to, from) == Moves(s, {<<Reg(to), from>>})
Used(s) == {r \in DOMAIN s.uses : IsUsed(s, r)}

---------------------------------------------------------------------------
(* Out-of-line code. *)

GetSpilledRegistersForInspection(s) ==
  {<<Slot(i), s.stack[i]>> : i \in {j \in DOMAIN s.stack : IsReg(s.stack[j])}}

OutOfLineCode(s, builtin, save, spilled) ==
  [label |-> s.label + 1, continuation |-> s.label + 2, builtin |-> builtin,
   save |-> save, spilled |-> spilled]
AddOutOfLine(s, o) == [s EXCEPT !.label = @ + 2, !.ool = Append(@, o), !.got = o.label]

\* Returns the label to jump to.  In debug code the registers go to their slots,
\* where they can be inspected.
AddOutOfLineTrap(env, s, reason) ==
  AddOutOfLine(s, OutOfLineCode(s, reason, {},
                    IF env.debug THEN GetSpilledRegistersForInspection(s) ELSE {}))

\* A check that leaves the function for a builtin and comes back.
EmitCheck(s, o) == Bind(Emit(AddOutOfLine(s, o), <<"check", o.label>>), o.continuation)

StackCheck(env, s) ==
  EmitCheck(s, IF env.debug
                 THEN OutOfLineCode(s, "stack_guard", IF s.mem = 0 THEN {} ELSE {s.mem},
                                    GetSpilledRegistersForInspection(s))
                 ELSE OutOfLineCode(s, "stack_guard", Used(s), {}))

TierupCheck(env, s) ==
  IF env.debug THEN s ELSE EmitCheck(s, OutOfLineCode(s, "tier_up", Used(s), {}))

IsCheck(o) == o.builtin \in {"stack_guard", "tier_up"}

GenerateOutOfLineCode(s, o) ==
  LET saved == IF o.save = {} THEN Bind(s, o.label) ELSE Emit(Bind(s, o.label), <<"push", o.save>>)
      inspected == Moves(saved, o.spilled)
      called == Emit(inspected, <<"call", <<>>, "stack_guard", <<>> >>)
      restored == IF o.save = {} THEN called ELSE Emit(called, <<"pop", o.save>>)
  IN  IF IsCheck(o)
        THEN Jump(Moves(restored, {<<p[2], p[1]>> : p \in o.spilled}), o.continuation)
        ELSE Emit(inspected, <<"trap", o.builtin>>)

\* What comes back first, then the traps.
FinishFunction(s) ==
  FoldLeft(GenerateOutOfLineCode, s,
           SelectSeq(s.ool, IsCheck) \o SelectSeq(s.ool, LAMBDA o : ~IsCheck(o)))

---------------------------------------------------------------------------
(* The prologue. *)

\* The first parameters arrive in registers, the others in the caller's frame.
ParameterRegisters(s, params) == 2..(1 + Min({Len(params), 2, Cardinality(DOMAIN s.uses) - 1}))

ProcessParameters(s, params) ==
  LET Process(t, i) ==
        LET waiting == {r \in ParameterRegisters(s, params) : r > i}
            loaded  == GetUnusedRegister(t, {}, waiting)
        IN  IF i + 1 \in ParameterRegisters(s, params) THEN PushRegister(t, i + 1)
            ELSE PushRegister(Emit(loaded, <<"param", loaded.got, i>>), loaded.got)
  IN  FoldLeft(Process, s, [i \in DOMAIN params |-> i])

SpillLocalsInitially(s, locals) ==
  \/ Len(locals) > Cardinality(DOMAIN s.uses) \div 2
  \/ \E i \in DOMAIN locals : locals[i] \notin {"i32", "i64"}

LoadNullValue(s, r, type) == Move(s, r, Const("i64", NullOf(type)))

\* There are two nulls, one of them for extern types.
InitializeReferences(s, locals, base) ==
  LET js   == GetUnusedRegister(s, {}, {})
      wasm == GetUnusedRegister(js, {}, {js.got})
      both == LoadNullValue(LoadNullValue(wasm, js.got, "extern"), wasm.got, "any")
      refs == {i \in DOMAIN locals : IsRef(locals[i])}
  IN  IF refs = {} THEN s
      ELSE Moves(both, {<<Slot(base + i), Reg(IF UseWasmNull(locals[i]) THEN wasm.got ELSE js.got)>> :
                          i \in refs})

InitializeLocals(s, locals) ==
  LET base == Height(s)
      PushZero(t, i) == PushConstant(t, locals[i], 0)
      PushSlot(t, i) == Push(t, Slot(base + i))
      zeros == {<<Slot(base + i), Const("i32", 0)>> : i \in DOMAIN locals}
      order == [i \in DOMAIN locals |-> i]
  IN  IF ~SpillLocalsInitially(s, locals) THEN FoldLeft(PushZero, s, order)
      ELSE InitializeReferences(Moves(FoldLeft(PushSlot, s, order), zeros), locals, base)

StartFunctionBody(env, s, params, locals) ==
  StackCheck(env, InitializeLocals(ProcessParameters(s, params), locals))

---------------------------------------------------------------------------
(* Calls of C functions and builtins. *)

\* Returns the register of the result.
GenerateCCall(s, fn, args) == [Call(s, <<ReturnRegister>>, fn, args) EXCEPT !.got = ReturnRegister]
GenerateCCallWithStackBuffer(s, into, fn, args) == Call(s, into, fn, args)
CallBuiltin(s, fn, args) == GenerateCCall(s, fn, args)

---------------------------------------------------------------------------
(* Constants, locals and globals. *)

I32Const(s, n) == PushConstant(s, "i32", n)

\* A VarState has room for 32 bits.
I64Const(s, n) ==
  LET t == GetUnusedRegister(s, {}, {})
  IN  IF Signed("i32", Wrap("i32", n)) = n THEN PushConstant(s, "i64", n)
      ELSE PushRegister(Move(t, t.got, Const("i64", n)), t.got)

DropTop(s) == DropValues(s, 1)

LocalGet(s, i) ==
  LET v == s.stack[i]
      t == GetUnusedRegister(s, {}, {})
  IN  IF IsReg(v) THEN PushRegister(s, v[2])
      ELSE IF IsConst(v) THEN Push(s, v)
      ELSE PushRegister(Move(t, t.got, v), t.got)

LocalSetFromStackSlot(s, i) ==
  LET old == s.stack[i]
      t == IF IsReg(old) THEN [Unuse(s, old[2]) EXCEPT !.stack[i] = Slot(i)] ELSE s
      u == GetUnusedRegister(t, {}, {})
  IN  IF IsReg(old) /\ s.uses[old[2]] = 1 THEN Move(s, old[2], Top(s))
      ELSE [Use(Move(u, u.got, Top(s)), u.got) EXCEPT !.stack[i] = Reg(u.got)]

LocalSetKeepsOldUse(s, i, is_tee) ==            \* mutant: the old value stays in use
  LET t == [s EXCEPT !.stack[i] = Top(s)]
      set == IF IsStack(Top(s)) THEN LocalSetFromStackSlot(s, i)
             ELSE IF IsReg(Top(s)) /\ is_tee THEN Use(t, Top(s)[2]) ELSE t
  IN  IF is_tee THEN set ELSE [set EXCEPT !.stack = Front(@)]
LocalSet(s, i, is_tee) ==
  LET source == Top(s)
      freed  == Drop(s, s.stack[i])
      copied == [freed EXCEPT !.stack[i] = source]
      set    == IF IsStack(source) THEN LocalSetFromStackSlot(s, i)
                ELSE IF IsReg(source) /\ is_tee THEN Use(copied, source[2]) ELSE copied
  IN  IF is_tee THEN set ELSE [set EXCEPT !.stack = Front(@)]

\* A global that is imported and mutable needs a register for its offset.
GlobalAddress(s, imported, pinned) ==
  LET buffer == GetUnusedRegister(s, {}, pinned)
      offset == GetUnusedRegister(buffer, {}, pinned \cup {buffer.got})
      loaded == Move(offset, offset.got, Const("i64", 0))
  IN  [Move(IF imported THEN loaded ELSE buffer, buffer.got, Const("i64", 0))
         EXCEPT !.got = buffer.got]

GlobalGet(s, imported) ==
  LET t == GlobalAddress(s, imported, {})
  IN  PushRegister(Emit(t, <<"getglobal", t.got>>), t.got)

GlobalSet(s, imported) ==
  LET value == PopToRegister(s, {})
  IN  Emit(GlobalAddress(value, imported, {value.got}), <<"setglobal", value.got>>)

---------------------------------------------------------------------------
(* Numeric instructions. *)

EmitUnOp(s, Fn(_, _, _)) ==
  LET p == PopToRegister(s, {})
      t == GetUnusedRegister(p, {p.got}, {})
  IN  PushRegister(Fn(t, t.got, p.got), t.got)

EmitBinOp(s, Fn(_, _, _, _)) ==
  LET r == PopToRegister(s, {})
      l == PopToRegister(r, {r.got})
      t == GetUnusedRegister(l, {l.got, r.got}, {})
  IN  PushRegister(Fn(t, t.got, l.got, r.got), t.got)

\* A constant operand becomes an immediate.
EmitBinOpImm(s, fn, kind) ==
  LET rhs == Top(s)
      l == PopToRegister([s EXCEPT !.stack = Front(@)], {})
      t == GetUnusedRegister(l, {l.got}, {l.got})
  IN  IF IsConst(rhs)
        THEN PushRegister(Emit(t, Ins(fn, kind, t.got, Reg(l.got), rhs)), t.got)
        ELSE EmitBinOp(s, LAMBDA u, dst, lhs, right :
                            Emit(u, Ins(fn, kind, dst, Reg(lhs), Reg(right))))

UnOp(env, s, fn, kind) ==
  EmitUnOp(s, LAMBDA t, dst, src :
    IF fn = "popcnt" /\ ~env.native
      THEN LET u == GenerateCCall(t, "word64_popcnt", <<Reg(src)>>) IN Move(u, dst, Reg(u.got))
      ELSE Emit(t, Ins(fn, kind, dst, Reg(src), Reg(src))))

EmitFloatUnOpWithCFallback(env, s, fn) ==
  EmitUnOp(s, LAMBDA t, dst, src :
    IF env.native THEN Emit(t, Ins(fn, "f32", dst, Reg(src), Reg(src)))
    ELSE GenerateCCallWithStackBuffer(t, <<dst>>, fn, <<Reg(src)>>))

\* A float that has no integer traps.
EmitTruncation(env, s, kind, signed) ==
  EmitUnOp(s, LAMBDA t, dst, src :
    LET trap == AddOutOfLineTrap(env, t, "FloatUnrepresentable")
        ret  == GetUnusedRegister(trap, {}, {dst})
        called == GenerateCCallWithStackBuffer(ret, <<ret.got, dst>>,
                    IF signed THEN "float_to_int64" ELSE "float_to_uint64", <<Reg(src)>>)
        other == AddOutOfLineTrap(env, called, "FloatUnrepresentable")
    IN  IF kind = "i32" \/ env.native
          THEN Emit(trap, <<"trunc", kind, signed, dst, src, trap.got>>)
          ELSE Emit(other, <<"jumpif", "eqz", "i32", Reg(ret.got), Const("i32", 0), other.got>>))

\* The other conversions the CPU may not have.
EmitConversion(env, s, fn, kind, fallback) ==
  EmitUnOp(s, LAMBDA t, dst, src :
    IF kind = "i32" \/ env.native THEN Emit(t, Ins(fn, kind, dst, Reg(src), Reg(src)))
    ELSE GenerateCCallWithStackBuffer(t, <<dst>>, fallback, <<Reg(src)>>))

BinOp(s, fn, kind) ==
  IF fn \in {"add", "and", "or", "xor", "shl", "sar", "shr"} THEN EmitBinOpImm(s, fn, kind)
  ELSE EmitBinOp(s, LAMBDA t, dst, lhs, rhs : Emit(t, Ins(fn, kind, dst, Reg(lhs), Reg(rhs))))

\* Left to the branch that follows, which compares by itself.
EmitI32CmpOp(s, fn, branch_follows) ==
  IF branch_follows THEN [s EXCEPT !.outstanding = fn] ELSE BinOp(s, fn, "i32")
EmitEqz(s, kind, branch_follows) ==
  IF branch_follows THEN [s EXCEPT !.outstanding = "eqz"]
  ELSE EmitUnOp(s, LAMBDA t, dst, src : Emit(t, Ins("eqz", kind, dst, Reg(src), Const(kind, 0))))

EmitBitRotationCCall(s, fn) ==
  EmitBinOp(s, LAMBDA t, dst, input, shift :
    LET u == GenerateCCall(t, fn, <<Reg(input), Reg(shift)>>) IN Move(u, dst, Reg(u.got)))

\* The registers the division instruction needs, on x64.
SpillDivRegisters(s) == IF IsUsed(s, 1) THEN SpillRegister(s, 1) ELSE s

EmitDivOrRem64CCall(s, dst, lhs, rhs, fn, by_zero, unrepresentable) ==
  LET ret == GetUnusedRegister(s, {}, {dst})
      called == GenerateCCallWithStackBuffer(ret, <<ret.got, dst>>, fn, <<Reg(lhs), Reg(rhs)>>)
      zero == Emit(called, <<"jumpif", "eq", "i32", Reg(ret.got), Const("i32", 0), by_zero>>)
  IN  IF unrepresentable = 0 THEN zero
      ELSE Emit(zero, <<"jumpif", "eq", "i32", Reg(ret.got), Const("i32", -1), unrepresentable>>)

DivideFunction(fn) == CASE fn = "div_s" -> "int64_div"  [] fn = "rem_s" -> "int64_mod"
                        [] fn = "div_u" -> "uint64_div" [] fn = "rem_u" -> "uint64_mod"

EmitDivide(env, s, fn, kind) ==
  EmitBinOp(s, LAMBDA t, dst, lhs, rhs :
    LET spilled == SpillDivRegisters(t)
        zero == AddOutOfLineTrap(env, spilled, IF fn \in {"div_s", "div_u"}
                                                 THEN "DivByZero" ELSE "RemByZero")
        other == AddOutOfLineTrap(env, zero, "DivUnrepresentable")
        ready == IF fn = "div_s" THEN other ELSE zero
        unrepresentable == IF fn = "div_s" THEN other.got ELSE 0
    IN  IF kind = "i32" \/ env.native
          THEN Emit(ready, <<"div", fn, kind, dst, lhs, rhs, zero.got, unrepresentable>>)
          ELSE EmitDivOrRem64CCall(ready, dst, lhs, rhs, DivideFunction(fn),
                                   zero.got, unrepresentable))

Select(env, s) ==
  LET c == PopToRegister(s, {})
      f == PopToRegister(c, {c.got})
      t == PopToRegister(f, {c.got, f.got})
      d == GetUnusedRegister(t, {t.got, f.got}, {})
      dst == d.got
      no  == d.label + 1
      end == d.label + 2
      taken == Jump(Move(Emit([d EXCEPT !.label = @ + 2],
                 <<"jumpif", "eqz", "i32", Reg(c.got), Const("i32", 0), no>>), dst, Reg(t.got)), end)
  IN  PushRegister(Bind(Move(Bind(taken, no), dst, Reg(f.got)), end), dst)

=============================================================================
