---------------------------- MODULE LiftoffMemory ----------------------------
(***************************************************************************)
(* LiftoffCompiler, part two: the instructions that use linear memory, the *)
(* bounds and alignment checks before an access and the call that tells    *)
(* WebTSan about it afterwards (liftoff-compiler.cc).  There is one memory *)
(* and one data segment, the platform has 64 bits, and the other user of   *)
(* TraceMemoryOperation, the flag trace_wasm_memory, is off.               *)
(***************************************************************************)
EXTENDS LiftoffNumeric

JumpIf(s, cond, kind, a, b, label) == Emit(s, <<"jumpif", cond, kind, a, b, label>>)
ZeroExtend(s, r) == Emit(s, Ins("uext", "i32", r, Reg(r), Const("i32", 0)))
AddressKind(env) == IF env.memory64 THEN "i64" ELSE "i32"
IsTraced(env) == env.tsan /\ env.shared

---------------------------------------------------------------------------
(* Before the access. *)

AlignmentCheckMem(env, s, size, offset, index, pinned) ==
  LET t    == GetUnusedRegister(s, {}, pinned)
      trap == AddOutOfLineTrap(env, t, "UnalignedAccess")
      sum  == IF offset % size = 0 THEN trap
              ELSE Emit(trap, Ins("add", "i32", t.got, Reg(index), Const("i32", offset)))
      from == IF offset % size = 0 THEN index ELSE t.got
      rest == Emit(sum, Ins("and", "i32", t.got, Reg(from), Const("i32", size - 1)))
  IN  IF size = 1 THEN s
      ELSE JumpIf(rest, "ne", "i32", Reg(t.got), Const("i32", 0), trap.got)

\* The check against the size the memory has when the code runs.
ExplicitBoundsCheck(env, s, end_offset, index, pinned) ==
  LET e == GetUnusedRegister(s, {}, pinned)
      m == GetUnusedRegister(e, {}, pinned \cup {e.got})
      trap == AddOutOfLineTrap(env, Emit(m, <<"memsize", m.got>>), "MemOutOfBounds")
      end  == Move(trap, e.got, Const("i64", end_offset))
      grown == IF end_offset > env.min
                 THEN JumpIf(end, "ge_u", "i64", Reg(e.got), Reg(m.got), trap.got) ELSE end
      effective == Emit(grown, Ins("sub", "i64", e.got, Reg(m.got), Reg(e.got)))
  IN  JumpIf(effective, "ge_u", "i64", Reg(index), Reg(e.got), trap.got)

BoundsCheckMem(env, s, size, offset, index, pinned, force_check, check_alignment) ==
  LET used == pinned \cup {index}
      aligned == IF check_alignment THEN AlignmentCheckMem(env, s, size, offset, index, used) ELSE s
      end_offset == offset + size - 1
      trap == AddOutOfLineTrap(env, aligned, "MemOutOfBounds")
      guarded == JumpIf(trap, "ge_u", "i64", Reg(index), Const("i64", env.max - end_offset), trap.got)
      extended == IF env.memory64 THEN aligned ELSE ZeroExtend(aligned, index)
  IN  IF env.bounds = "trap" /\ ~force_check
        THEN (IF env.memory64 THEN guarded ELSE aligned)
        ELSE ExplicitBoundsCheck(env, extended, end_offset, index, used)

\* A constant index that is in bounds of the smallest memory needs no check.
Uintptr(n) == n % Modulus("i64")
EffectiveOffset(v, offset) == Uintptr(Wrap(v[3], v[2]) + offset)
InBoundsAfterOverflow(env, v, size, offset) ==   \* mutant: the sum may wrap around
  IsConst(v) /\ IsInBounds(EffectiveOffset(v, offset), size, env.min)
IndexStaticallyInBounds(env, v, size, offset) ==
  /\ IsConst(v)
  /\ EffectiveOffset(v, offset) >= Wrap(v[3], v[2])
  /\ IsInBounds(EffectiveOffset(v, offset), size, env.min)
IndexStaticallyInBoundsAndAligned(env, v, size, offset) ==
  IndexStaticallyInBounds(env, v, size, offset) /\ EffectiveOffset(v, offset) % size = 0

GetMemoryStart(s, pinned) ==
  LET t == GetUnusedRegister(s, {}, pinned)
  IN  IF s.mem # 0 THEN [s EXCEPT !.got = s.mem]
      ELSE SetMemStart(Emit(t, <<"memstart", t.got>>), t.got)

\* The index is popped and checked, unless it is a constant known to be in bounds;
\* then the memory start is loaded.  An address is the state after this, the index
\* register or 0, the offset that remains and the register of the memory start.
Address(env, s, size, offset, pinned, static, force_check, check_alignment) ==
  LET index   == PopToRegister(s, pinned)
      checked == BoundsCheckMem(env, index, size, offset, index.got, pinned,
                                force_check, check_alignment)
      fixed   == GetMemoryStart([s EXCEPT !.stack = Front(@)], pinned)
      start   == GetMemoryStart(checked, pinned \cup {index.got})
  IN  IF static THEN [s |-> fixed, index |-> 0, offset |-> EffectiveOffset(Top(s), offset),
                      mem |-> fixed.got]
      ELSE [s |-> start, index |-> index.got, offset |-> offset, mem |-> start.got]

---------------------------------------------------------------------------
(* After the access. *)

\* The registers hold what they held before, so the index is still there.
TraceMemoryOperation(env, s, is_store, size, index, offset, is_atomic) ==
  LET spilled == SpillAllRegisters(s)
      pinned == IF index = 0 THEN {} ELSE {index}
      e == GetUnusedRegister(spilled, {}, pinned)
      kind == AddressKind(env)
      constant == Move(e, e.got, Const(kind, offset))
      effective == IF index = 0 THEN constant
                   ELSE Emit(constant, Ins("add", kind, e.got, Reg(e.got), Reg(index)))
      info == GetUnusedRegister(effective, {}, pinned \cup {e.got})
      extended == IF env.memory64 THEN info ELSE ZeroExtend(info, e.got)
  IN  IF ~IsTraced(env) THEN s
      ELSE Emit(Move(extended, info.got, Const("i64", 0)),
                <<"call", <<>>, "trace_memory",
                  <<Reg(e.got), Const("i32", size),
                    Const("i32", IF is_store THEN 1 ELSE 0),
                    Const("i32", IF is_atomic THEN 1 ELSE 0)>> >>)

---------------------------------------------------------------------------
(* Loads and stores. *)

LoadMem(env, s, kind, size, signed_from, offset) ==
  LET a == Address(env, s, size, offset, {}, IndexStaticallyInBounds(env, Top(s), size, offset),
                   FALSE, FALSE)
      value == GetUnusedRegister(a.s, {}, {a.mem, a.index})
      loaded == Emit(value, <<"load", value.got, a.mem, a.index, a.offset, size, signed_from,
                              kind, FALSE>>)
  IN  TraceMemoryOperation(env, PushRegister(loaded, value.got), FALSE, size, a.index, a.offset,
                           FALSE)

\* A store that is partly out of bounds must write nothing.
StoreMemTracesFirst(env, s, size, offset) ==     \* mutant: the hook before the store
  LET value == PopToRegister(s, {})
      a == Address(env, value, size, offset, {value.got},
                   IndexStaticallyInBounds(env, Top(value), size, offset),
                   ~(env.noops \/ size = 1), FALSE)
      store == <<"store", a.mem, a.index, a.offset, size, value.got, FALSE, 0>>
      saved == Emit(a.s, <<"push", {value.got, a.mem, a.index} \ {0}>>)
      traced == TraceMemoryOperation(env, saved, TRUE, size, a.index, a.offset, FALSE)
  IN  Emit(Emit(traced, <<"pop", {value.got, a.mem, a.index} \ {0}>>), store)
StoreMem(env, s, size, offset) ==
  LET value == PopToRegister(s, {})
      a == Address(env, value, size, offset, {value.got},
                   IndexStaticallyInBounds(env, Top(value), size, offset),
                   ~(env.noops \/ size = 1), FALSE)
      stored == Emit(a.s, <<"store", a.mem, a.index, a.offset, size, value.got, FALSE, 0>>)
  IN  TraceMemoryOperation(env, stored, TRUE, size, a.index, a.offset, FALSE)

\* Vectors.  A load that extends lanes always loads 64 bits; none of these takes the
\* short way for a constant index.
LoadTransform(env, s, transform, size, offset) ==
  LET bytes == IF transform \in {"extend_s", "extend_u"} THEN Bytes("i64") ELSE size
      a == Address(env, s, bytes, offset, {}, FALSE, FALSE, FALSE)
      value == GetUnusedRegister(a.s, {}, {a.mem, a.index})
      loaded == Emit(value, <<"loadvector", value.got, a.mem, a.index, a.offset, bytes, size,
                              transform>>)
  IN  TraceMemoryOperation(env, PushRegister(loaded, value.got), FALSE, bytes, a.index, a.offset,
                           FALSE)

LoadLaneMem(env, s, size, lane, offset) ==
  LET value == PopToRegister(s, {})
      a == Address(env, value, size, offset, {value.got}, FALSE, FALSE, FALSE)
      result == GetUnusedRegister(a.s, {}, {value.got, a.mem, a.index})
      loaded == Emit(result, <<"loadlane", result.got, a.mem, a.index, a.offset, size, value.got,
                               lane>>)
  IN  TraceMemoryOperation(env, PushRegister(loaded, result.got), FALSE, size, a.index, a.offset,
                           FALSE)

StoreLane(env, s, size, lane, offset) ==
  LET value == PopToRegister(s, {})
      a == Address(env, value, size, offset, {value.got}, FALSE, ~(env.noops \/ size = 1), FALSE)
      stored == Emit(a.s, <<"store", a.mem, a.index, a.offset, size, value.got, FALSE, lane>>)
  IN  TraceMemoryOperation(env, stored, TRUE, size, a.index, a.offset, FALSE)

---------------------------------------------------------------------------
(* Atomic accesses. *)

AtomicAddress(env, s, size, offset, pinned) ==
  Address(env, s, size, offset, pinned,
          IndexStaticallyInBoundsAndAligned(env, Top(s), size, offset), TRUE, TRUE)

AtomicStoreMem(env, s, size, offset) ==
  LET value == PopToRegister(s, {})
      a == AtomicAddress(env, value, size, offset, {value.got})
      stored == Emit(a.s, <<"store", a.mem, a.index, a.offset, size, value.got, TRUE, 0>>)
  IN  TraceMemoryOperation(env, stored, TRUE, size, a.index, a.offset, TRUE)

AtomicLoadMem(env, s, kind, size, offset) ==
  LET a == AtomicAddress(env, s, size, offset, {})
      value == GetUnusedRegister(a.s, {}, {a.mem, a.index})
      loaded == Emit(value, <<"load", value.got, a.mem, a.index, a.offset, size, 0, kind, TRUE>>)
  IN  TraceMemoryOperation(env, PushRegister(loaded, value.got), FALSE, size, a.index, a.offset,
                           TRUE)

\* Reported as a store.
AtomicBinop(env, s, fn, kind, size, offset) ==
  LET value  == PopToRegister(s, {})
      result == GetUnusedRegister(value, {}, {value.got})
      a == AtomicAddress(env, result, size, offset, {value.got, result.got})
      done == Emit(a.s, <<"rmw", result.got, fn, a.mem, a.index, a.offset, size, value.got, kind>>)
  IN  TraceMemoryOperation(env, PushRegister(done, result.got), TRUE, size, a.index, a.offset, TRUE)

AtomicCompareExchange(env, s, size, offset) ==
  LET new      == PopToRegister(s, {})
      expected == PopToRegister(new, {new.got})
      result   == GetUnusedRegister(expected, {}, {new.got, expected.got})
      a == AtomicAddress(env, result, size, offset, {new.got, expected.got, result.got})
      done == Emit(a.s, <<"cmpxchg", result.got, a.mem, a.index, a.offset, size,
                          expected.got, new.got>>)
  IN  TraceMemoryOperation(env, PushRegister(done, result.got), TRUE, size, a.index, a.offset, TRUE)

\* The index register cannot be changed while an operand is in it.
IndexPlusOffset(s, index, offset, pinned) ==
  LET t == GetUnusedRegister(s, {}, pinned)
      u == IF IsUsed(s, index) THEN Move(t, t.got, Reg(index)) ELSE [s EXCEPT !.got = index]
  IN  IF offset = 0 THEN u
      ELSE Emit(u, Ins("add", "i64", u.got, Reg(u.got), Const("i64", offset)))

\* The address replaces the index among the operands, and the timeout becomes a
\* BigInt, as does an expected value of 64 bits.
AtomicWait(env, s, kind, offset) ==
  LET index == PeekToRegister(s, 2, {})
      at    == Height(s) - 2
      checked == BoundsCheckMem(env, index, Bytes(kind), offset, index.got, {}, TRUE, TRUE)
      sum   == IndexPlusOffset(checked, index.got, offset, {index.got})
      placed == [Drop(Use(sum, sum.got), sum.stack[at]) EXCEPT !.stack[at] = Reg(sum.got)]
      big   == CallBuiltin(placed, "bigint", <<Top(placed)>>)
      timeout == PushRegister(DropTop(big), ReturnRegister)
      expected == IF kind = "i32" THEN PeekToRegister(timeout, 1, {})
                  ELSE CallBuiltin(timeout, "bigint", <<timeout.stack[at + 1]>>)
      args  == <<expected.stack[at], Reg(expected.got), Top(expected)>>
      woken == CallBuiltin(expected, IF kind = "i32" THEN "wait32" ELSE "wait64", args)
  IN  PushRegister(DropValues(woken, 3), ReturnRegister)

AtomicNotify(env, s, offset) ==
  LET count == PopToRegister(s, {})
      index == PopToRegister(count, {count.got})
      pinned == {count.got, index.got}
      checked == BoundsCheckMem(env, index, Bytes("i32"), offset, index.got, {count.got}, TRUE, TRUE)
      addr  == IndexPlusOffset(checked, index.got, offset, pinned)
      start == GetMemoryStart(addr, pinned \cup {addr.got})
      sum   == Emit(start, Ins("add", "i64", addr.got, Reg(addr.got), Reg(start.got)))
      woken == GenerateCCall(sum, "notify", <<Reg(addr.got), Reg(count.got)>>)
  IN  PushRegister(woken, woken.got)

---------------------------------------------------------------------------
(* The size of the memory, and the instructions for ranges of it. *)

CurrentMemoryPages(s) ==
  LET t == GetUnusedRegister(s, {}, {})
      size == Emit(t, <<"memsize", t.got>>)
  IN  PushRegister(Emit(size, Ins("shr", "i64", t.got, Reg(t.got), Const("i64", PageSizeLog2))), t.got)

\* The builtin takes 32 bits: growing by more fails without it.
MemoryGrow(env, s) ==
  LET pages   == PopToRegister(s, {})
      spilled == SpillAllRegisters(pages)
      result  == GetUnusedRegister(spilled, {}, {pages.got})
      done    == result.label + 1
      failed  == Move(NewLabel(result), result.got, Const("i32", -1))
      high    == GetUnusedRegister(failed, {}, {pages.got, result.got})
      shifted == Emit(high, Ins("shr", "i64", high.got, Reg(pages.got), Const("i64", Width)))
      small   == JumpIf(shifted, "ne", "i32", Reg(high.got), Const("i32", 0), done)
      ready   == IF env.memory64 THEN small ELSE NewLabel(result)
      params  == Move(Move(ready, 2, Reg(pages.got)), 1, Const("i32", 0))
      called  == Emit(params, <<"call", <<ReturnRegister>>, "memory_grow", <<Reg(2)>> >>)
      grown   == Bind(Move(called, result.got, Reg(ReturnRegister)), done)
  IN  IF env.memory64
        THEN PushRegister(Emit(grown, Ins("sext", "i32", result.got, Reg(result.got), Const("i32", 0))),
                          result.got)
        ELSE PushRegister(grown, result.got)

\* An index of 32 bits is extended, in a register that nobody else reads.
PopIndexToVarState(env, s, pinned) ==
  LET slot == PopVarState(s)
      t == LoadToModifiableRegister(slot, slot.got, pinned)
  IN  IF env.memory64 \/ (IsConst(slot.got) /\ slot.got[2] >= 0) THEN slot
      ELSE [ZeroExtend(t, t.got) EXCEPT !.got = Reg(t.got)]

\* The C function gets the three operands and returns 0 if a range is out of bounds.
RangeCall(env, s, fn, args, pinned) ==
  LET instance_data == GetUnusedRegister(s, {}, pinned)
      result == GenerateCCall(Move(instance_data, instance_data.got, Const("i64", 0)), fn, args)
      trap   == AddOutOfLineTrap(env, result, "MemOutOfBounds")
  IN  JumpIf(trap, "eqz", "i32", Reg(result.got), Const("i32", 0), trap.got)

MemoryCopy(env, s) ==
  LET size == PopIndexToVarState(env, s, {})
      src  == PopIndexToVarState(env, size, Pin(size.got))
      dst  == PopIndexToVarState(env, src, Pin(size.got) \cup Pin(src.got))
  IN  RangeCall(env, dst, "memory_copy", <<dst.got, src.got, size.got>>,
                Pin(size.got) \cup Pin(src.got) \cup Pin(dst.got))

MemoryFill(env, s) ==
  LET size  == PopIndexToVarState(env, s, {})
      value == PopVarState(size)
      dst   == PopIndexToVarState(env, value, Pin(size.got) \cup Pin(value.got))
  IN  RangeCall(env, dst, "memory_fill", <<dst.got, value.got, size.got>>,
                Pin(size.got) \cup Pin(value.got) \cup Pin(dst.got))

\* The data segment is indexed with 32 bits in every memory.
MemoryInit(env, s) ==
  LET size == PopVarState(s)
      src  == PopVarState(size)
      dst  == PopIndexToVarState(env, src, Pin(size.got) \cup Pin(src.got))
  IN  RangeCall(env, dst, "memory_init", <<dst.got, src.got, size.got>>,
                Pin(size.got) \cup Pin(src.got) \cup Pin(dst.got))

DataDrop(s) ==
  LET instance_data == GetUnusedRegister(s, {}, {})
  IN  GenerateCCall(Move(instance_data, instance_data.got, Const("i64", 0)), "data_drop", <<>>)

=============================================================================
