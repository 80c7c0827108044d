----------------------------- MODULE LiftoffCasts -----------------------------
(***************************************************************************)
(* LiftoffCompiler, part five: type tests, casts and the branches on them  *)
(* (liftoff-compiler.cc).  static is the static type of the operand.       *)
(***************************************************************************)
EXTENDS LiftoffObjects

---------------------------------------------------------------------------
(* Types of the module. *)

\* Falls through when obj is of the type heap, whose map is in rtt, else goes to
\* no_match.  null holds the null when static allows it, and serves as a scratch
\* register afterwards.
SubtypeCheck(s, obj, static, rtt, heap, null, scratch, no_match, null_succeeds) ==
  LET match == s.label + 1
      start == NewLabel(s)
      from_any == HeapOf(static) = "any"
      nulls == IF IsNullable(static) /\ (~from_any \/ null_succeeds)
                 THEN JumpIfSame(start, obj, null, IF null_succeeds THEN match ELSE no_match)
                 ELSE start
      smis  == IF IsSubtype(Ref("i31"), static) THEN Emit(nulls, <<"jumpsmi", TRUE, obj, no_match>>)
               ELSE nulls
      map   == Emit(smis, <<"map", null, obj>>)
      equal == JumpIfSame(map, null, rtt, match)
      type  == Emit(equal, <<"instancetype", scratch, null>>)
      first == Emit(type, Ins("sub", "i32", scratch, Reg(scratch), Const("i32", FirstWasmObject)))
      wasm  == JumpIf(first, "gt_u", "i32", Reg(scratch), Const("i32", LastWasmObject - FirstWasmObject),
                      no_match)
      known  == IF from_any THEN wasm ELSE equal
      length == Emit(known, <<"supertypeslength", scratch, null>>)
      long   == JumpIf(length, "le_u", "i32", Reg(scratch), Const("i32", Depth(heap)), no_match)
      deep   == IF Depth(heap) >= MinimumSupertypeArraySize THEN long ELSE known
      super  == Emit(deep, <<"supertype", null, null, Depth(heap)>>)
  IN  Bind(JumpIfOther(IF Types[heap].final THEN map ELSE super, null, rtt, no_match), match)

\* Register for the null that is compared with, loaded when there may be one.
ScratchNull(s, pinned, static) ==
  LET t == GetUnusedRegister(s, {}, pinned)
  IN  [IF IsNullable(static) THEN LoadNullValue(t, t.got, static) ELSE t EXCEPT !.got = t.got]

\* From here on the state of the registers is frozen.
SetResult(s, dst, no_match) ==
  LET done == s.label + 1
      true == Jump(Move(NewLabel(s), dst, Const("i32", 1)), done)
  IN  Bind(Move(Bind(true, no_match), dst, Const("i32", 0)), done)

RefTest(s, heap, static, null_succeeds) ==
  LET rtt  == RttCanon(s, heap, {})
      obj  == PopToRegister(rtt, {rtt.got})
      null == GetUnusedRegister(obj, {}, {rtt.got, obj.got})
      dst  == GetUnusedRegister(null, {}, {rtt.got, obj.got, null.got})
      ready == NewLabel(IF IsNullable(static) THEN LoadNullValue(dst, null.got, static) ELSE dst)
      tested == SubtypeCheck(ready, obj.got, static, rtt.got, heap, null.got, dst.got, ready.label,
                             null_succeeds)
  IN  PushRegister(SetResult(tested, dst.got, ready.label), dst.got)

RefCastImpl(env, s, heap, static, rtt, null_succeeds) ==
  LET obj  == PopToRegister(s, {rtt})
      null == GetUnusedRegister(obj, {}, {rtt, obj.got})
      scratch == GetUnusedRegister(null, {}, {rtt, obj.got, null.got})
      ready == IF IsNullable(static) THEN LoadNullValue(scratch, null.got, static) ELSE scratch
      trap == AddOutOfLineTrap(env, ready, "IllegalCast")
  IN  PushRegister(SubtypeCheck(trap, obj.got, static, rtt, heap, null.got, scratch.got, trap.got,
                                null_succeeds), obj.got)
RefCast(env, s, heap, static, null_succeeds) ==
  LET rtt == RttCanon(s, heap, {}) IN RefCastImpl(env, rtt, heap, static, rtt.got, null_succeeds)

\* Branches with results prepare for being followed by others.
Prepared(s, depth, pinned) ==
  IF depth = Len(s.control) THEN s
  ELSE PrepareForBranch(s, BranchArity(s.control[Len(s.control) - depth]), pinned)

\* The check of a branch, which jumps to no_match.  The null is that of anyref, whatever
\* the operand is.
BranchCheck(s, heap, static, depth, null_succeeds) ==
  LET rtt  == RttCanon(s, heap, {})
      obj  == PeekToRegister(Prepared(rtt, depth, {rtt.got}), 0, {rtt.got})
      null == GetUnusedRegister(obj, {}, {rtt.got, obj.got})
      scratch == GetUnusedRegister(null, {}, {rtt.got, obj.got, null.got})
      ready == NewLabel(IF IsNullable(static) THEN LoadNullValue(scratch, null.got, "any") ELSE scratch)
  IN  [SubtypeCheck(ready, obj.got, static, rtt.got, heap, null.got, scratch.got, ready.label,
                    null_succeeds) EXCEPT !.got = ready.label]

BrOnCastImpl(env, s, heap, static, depth, null_succeeds) ==
  LET check == BranchCheck(s, heap, static, depth, null_succeeds)
  IN  Bind(BrOrRet(env, check, depth), check.got)
BrOnCastFailImpl(env, s, heap, static, depth, null_succeeds) ==
  LET check == BranchCheck(s, heap, static, depth, null_succeeds)
      fallthrough == NewLabel(check)
      passed == Jump(fallthrough, fallthrough.label)
  IN  Bind(BrOrRet(env, Bind(passed, check.got), depth), fallthrough.label)

---------------------------------------------------------------------------
(* Nulls. *)

\* The operand is popped before the branch and comes back after it, unless the
\* branch takes it along.
BrOnNull(env, s, static, depth, pass_null_along_branch) ==
  LET ready == Prepared(s, depth, {})
      ref   == IF pass_null_along_branch THEN PeekToRegister(ready, 0, {}) ELSE PopToRegister(ready, {})
      null  == ScratchNull(ref, {ref.got}, HeapOf(static))
      cont_false == null.label + 1
      other == JumpIfOther(NewLabel(null), ref.got, null.got, cont_false)
      left  == Bind(BrOrRet(env, other, depth), cont_false)
  IN  IF pass_null_along_branch THEN left ELSE PushRegister(left, ref.got)

BrOnNonNull(env, s, static, depth, drop_null_on_fallthrough) ==
  LET ref  == PeekToRegister(Prepared(s, depth, {}), 0, {})
      null == ScratchNull(ref, {ref.got}, HeapOf(static))
      cont_false == null.label + 1
      same == JumpIfSame(NewLabel(null), ref.got, null.got, cont_false)
      left == BrOrRet(env, same, depth)
  IN  Bind(IF drop_null_on_fallthrough THEN DropTop(left) ELSE left, cont_false)

---------------------------------------------------------------------------
(* Generic types.  A check is the operand's register, its static type, a   *)
(* scratch register that holds the null first, and where to go without a   *)
(* match; the checkers fall through on a match.                            *)

Initialize(s, static, pop, no_match) ==
  LET obj == IF pop THEN PopToRegister(s, {}) ELSE PeekToRegister(s, 0, {})
      tmp == ScratchNull(obj, {obj.got}, static)
  IN  [s |-> tmp, obj |-> obj.got, static |-> static, tmp |-> tmp.got, no_match |-> no_match]

LoadInstanceType(s, c, null_succeeds, on_smi) ==
  LET nulls == IF ~null_succeeds /\ IsNullable(c.static) THEN JumpIfSame(s, c.obj, c.tmp, c.no_match)
               ELSE s
      map == Emit(Emit(nulls, <<"jumpsmi", TRUE, c.obj, on_smi>>), <<"map", c.tmp, c.obj>>)
  IN  Emit(map, <<"instancetype", c.tmp, c.tmp>>)

StructCheck(s, c, null_succeeds) ==
  JumpIf(LoadInstanceType(s, c, null_succeeds, c.no_match), "ne", "i32", Reg(c.tmp),
         Const("i32", WasmStructType), c.no_match)
ArrayCheck(s, c, null_succeeds) ==
  JumpIf(LoadInstanceType(s, c, null_succeeds, c.no_match), "ne", "i32", Reg(c.tmp),
         Const("i32", WasmArrayType), c.no_match)
I31Check(s, c) == Emit(s, <<"jumpsmi", FALSE, c.obj, c.no_match>>)
StringCheck(s, c, null_succeeds) ==
  JumpIf(LoadInstanceType(s, c, null_succeeds, c.no_match), "ge_u", "i32", Reg(c.tmp),
         Const("i32", FirstNonstring), c.no_match)
EqCheck(s, c, null_succeeds) ==
  LET match == s.label + 1
      type  == LoadInstanceType(NewLabel(s), c, null_succeeds, match)
      first == Emit(type, Ins("sub", "i32", c.tmp, Reg(c.tmp), Const("i32", FirstWasmObject)))
  IN  Bind(JumpIf(first, "gt_u", "i32", Reg(c.tmp), Const("i32", LastWasmObject - FirstWasmObject),
                  c.no_match), match)

\* A null that succeeds is looked for first and goes to match.
CheckType(s, c, heap, null_succeeds, match) ==
  LET nulls == IF null_succeeds /\ IsNullable(c.static) THEN JumpIfSame(s, c.obj, c.tmp, match) ELSE s
  IN  CASE heap = "struct" -> StructCheck(nulls, c, null_succeeds)
        [] heap = "array"  -> ArrayCheck(nulls, c, null_succeeds)
        [] heap = "i31"    -> I31Check(nulls, c)
        [] heap = "eq"     -> EqCheck(nulls, c, null_succeeds)
        [] heap = "string" -> StringCheck(nulls, c, null_succeeds)

AbstractTypeCheck(s, heap, static, null_succeeds) ==
  LET labels == NewLabel(NewLabel(s))
      match == s.label + 1   no_match == s.label + 2
      c == Initialize(labels, static, TRUE, no_match)
      checked == Bind(CheckType(c.s, c, heap, null_succeeds, match), match)
  IN  PushRegister(SetResult(checked, c.tmp, no_match), c.tmp)

AbstractTypeCast(env, s, heap, static, null_succeeds) ==
  LET match == s.label + 1
      c    == Initialize(NewLabel(s), static, FALSE, 0)
      trap == AddOutOfLineTrap(env, c.s, "IllegalCast")
  IN  Bind(CheckType(trap, [c EXCEPT !.no_match = trap.got], heap, null_succeeds, match), match)

BrOnAbstractType(env, s, heap, static, depth, null_succeeds) ==
  LET labels == NewLabel(NewLabel(Prepared(s, depth, {})))
      match == labels.label   no_match == labels.label - 1
      c == Initialize(labels, static, FALSE, no_match)
      checked == Bind(CheckType(c.s, c, heap, null_succeeds, match), match)
  IN  Bind(BrOrRet(env, checked, depth), no_match)

BrOnNonAbstractType(env, s, heap, static, depth, null_succeeds) ==
  LET labels == NewLabel(NewLabel(Prepared(s, depth, {})))
      end == labels.label   no_match == labels.label - 1
      c == Initialize(labels, static, FALSE, no_match)
      checked == Jump(CheckType(c.s, c, heap, null_succeeds, end), end)
  IN  Bind(BrOrRet(env, Bind(checked, no_match), depth), end)

---------------------------------------------------------------------------
(* The instructions. *)

RefTestAbstract(s, heap, static, null_succeeds) ==
  IF heap = "none" THEN EmitIsNull(s, "eq", static)
  ELSE AbstractTypeCheck(s, heap, static, null_succeeds)
RefCastAbstract(env, s, heap, static, null_succeeds) ==
  IF heap = "none" THEN AssertNullTypecheckImpl(env, s, static, "ne")
  ELSE AbstractTypeCast(env, s, heap, static, null_succeeds)

BrOnCast(env, s, heap, static, depth, null_succeeds) ==
  CASE IsDefined(heap) -> BrOnCastImpl(env, s, heap, static, depth, null_succeeds)
    [] heap = "none"   -> BrOnNull(env, s, static, depth, TRUE)
    [] OTHER -> BrOnAbstractType(env, s, heap, static, depth, null_succeeds)
BrOnCastFail(env, s, heap, static, depth, null_succeeds) ==
  CASE IsDefined(heap) -> BrOnCastFailImpl(env, s, heap, static, depth, null_succeeds)
    [] heap = "none"   -> BrOnNonNull(env, s, static, depth, FALSE)
    [] OTHER -> BrOnNonAbstractType(env, s, heap, static, depth, null_succeeds)

=============================================================================
