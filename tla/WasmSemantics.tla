---------------------------- MODULE WasmSemantics ----------------------------
(***************************************************************************)
(* What a Wasm function means by the WebAssembly specification: the        *)
(* reference that the code Liftoff emits is compared with.  It shares with *)
(* the machine the memory and the arithmetic that every CPU has, and       *)
(* defines by itself what Liftoff compiles to C functions, checks or       *)
(* several instructions.                                                   *)
(*                                                                         *)
(* A state r of the interpreter: program counter, values, locals, the      *)
(* blocks that are open, and the same memory, global, data segment, events *)
(* and outcome that a machine has.                                         *)
(***************************************************************************)
EXTENDS WasmReferences

---------------------------------------------------------------------------
(* Numbers. *)

Rotate(kind, n, by) ==
  LET w == Bits(kind) IN SumSet({2^((i + by) % w) : i \in BitsSet(kind, n)})

Divide(fn, kind, a, b) ==
  LET x == Signed(kind, a)   y == Signed(kind, b)
      zero == IF fn \in {"div_s", "div_u"} THEN "DivByZero" ELSE "RemByZero"
  IN  IF b = 0 THEN Trapped(zero)
      ELSE CASE fn = "div_u" -> <<"value", a \div b>>
             [] fn = "rem_u" -> <<"value", a % b>>
             [] fn = "rem_s" -> <<"value", Wrap(kind, Remainder(x, y))>>
             [] fn = "div_s" ->
                  IF Quotient(x, y) > MaxInt(kind) THEN Trapped("DivUnrepresentable")
                  ELSE <<"value", Wrap(kind, Quotient(x, y))>>

\* The integer a float is truncated to, or the nearest one there is.
Truncated(kind, signed, saturate, f) ==
  LET low  == IF signed THEN MinInt(kind) ELSE 0
      high == IF signed THEN MaxInt(kind) ELSE Modulus(kind) - 1
      n    == CASE f = NaN -> 0
                [] f = Infinity -> high + 1
                [] f = -Infinity -> low - 1
                [] OTHER -> Truncate(f)
      fits == f # NaN /\ n \in low..high
  IN  IF fits THEN <<"value", Wrap(kind, n)>>
      ELSE IF ~saturate THEN Trapped("FloatUnrepresentable")
      ELSE <<"value", Wrap(kind, IF n > high THEN high ELSE IF n < low THEN low ELSE n)>>

\* The whole number nearest to a float on the side that fn asks for.
Rounded(fn, f) ==
  LET wholes == {n \in (f - 2)..(f + 2) : n % 2 = 0}
      low  == Max({n \in wholes : n <= f})
      high == Min({n \in wholes : n >= f})
  IN  IF ~Finite(f) THEN f
      ELSE CASE fn = "floor" -> low
             [] fn = "ceil"  -> high
             [] fn = "trunc" -> IF f > 0 THEN low ELSE high
             [] fn = "nearest" -> CHOOSE n \in {low, high} : low = high \/ n % 4 = 0

Give(r, n, outcome) ==
  IF outcome[1] = "trap" THEN Stop(r, outcome) ELSE Replace(r, n, outcome[2])

---------------------------------------------------------------------------
(* Control. *)

RECURSIVE Matching(_, _, _, _)
\* The position of the end (or, if there is one, the else) of the block opened at p.
Matching(prog, p, depth, wanted) ==
  LET op == prog[p + 1][1]
  IN  IF depth = 1 /\ op \in wanted THEN p + 1
      ELSE Matching(prog, p + 1,
                    CASE op \in {"block", "loop", "if"} -> depth + 1
                      [] op = "end" -> depth - 1
                      [] OTHER -> depth, wanted)

Enter(r, prog, n, top) ==
  LET i == prog[r.pc]
  IN  [r EXCEPT !.frames = Append(@, [top |-> top, end |-> Matching(prog, r.pc, 1, {"end"}),
                                      height |-> Len(r.vals) - n,
                                      arity |-> IF top = 0 THEN i[3] ELSE i[2]])]

Finish(r, results) ==
  Stop(r, <<"returned", SubSeq(r.vals, Len(r.vals) - results + 1, Len(r.vals))>>)

Branch(env, r, depth) ==
  LET at == Len(r.frames) - depth
      f  == r.frames[at]
      kept == SubSeq(r.vals, 1, f.height) \o SubSeq(r.vals, Len(r.vals) - f.arity + 1, Len(r.vals))
  IN  IF at = 0 THEN Finish(r, env.results)
      ELSE [r EXCEPT !.vals = kept,
                     !.frames = SubSeq(@, 1, IF f.top = 0 THEN at - 1 ELSE at),
                     !.pc = IF f.top = 0 THEN f.end ELSE f.top]

If(r, prog) ==
  LET i == prog[r.pc]
      other == Matching(prog, r.pc, 1, {"else", "end"})
      t == PopN(r, 1)
  IN  IF ValueOf(r, 0) # 0 THEN Enter(t, prog, i[2], 0)
      ELSE IF prog[other][1] = "end" THEN [t EXCEPT !.pc = other]
      ELSE [Enter(t, prog, i[2], 0) EXCEPT !.pc = other]

\* Past the end of the innermost block.
Leave(env, r) ==
  IF r.frames = <<>> THEN Finish(r, env.results)
  ELSE [r EXCEPT !.frames = Front(@), !.pc = Last(r.frames).end]

---------------------------------------------------------------------------
(* Memory. *)

\* Do is given the address; what lies beyond the memory traps before.
At(r, index, offset, n, atomic, Do(_)) ==
  LET at == index + offset
  IN  IF atomic /\ at % n # 0 THEN Stop(r, Trapped("UnalignedAccess"))
      ELSE IF at + n > r.size THEN Stop(r, Trapped("MemOutOfBounds"))
      ELSE Do(at)

Loaded(r, at, n, from, kind) ==
  LET v == ReadBytes(r.mem, at, n) IN IF from = 0 THEN v ELSE Wrap(kind, SignExtend(from, v))

\* Lane k of a vector of lanes of n bytes is the number of its bytes.
LaneOf(n, k, v) == LET unit == 2^(n * k * ByteBits) IN (v \div unit) % 2^(n * ByteBits)
Vector(n, lanes, lane(_)) ==
  MapThenSumSet(LAMBDA k : lane(k) * 2^(n * k * ByteBits), 0..(lanes - 1))

TransformedLoad(r, transform, n, at) ==
  LET bytes == Bytes("s128") \div n
      half  == Bytes("i64") \div n
      Wide(k) == Loaded(r, at + n * k, n, 0, "i64")
      Sign(k) == SignExtend(n * ByteBits, Wide(k)) % 2^(2 * n * ByteBits)
  IN  CASE transform = "zero"  -> Loaded(r, at, n, 0, "s128")
        [] transform = "splat" -> Vector(n, bytes, LAMBDA k : Wide(0))
        [] transform = "extend_u" -> Vector(2 * n, half, Wide)
        [] transform = "extend_s" -> Vector(2 * n, half, Sign)

Written(r, at, n, v) == [r EXCEPT !.mem = WriteBytes(@, at, n, v)]

Region(r, fits, n, new(_)) ==
  IF ~fits THEN Stop(r, Trapped("MemOutOfBounds"))
  ELSE [PopN(r, 3) EXCEPT !.mem = [a \in DOMAIN @ |->
          IF a \in Addresses(ValueOf(r, 2), n) THEN new(a - ValueOf(r, 2)) ELSE @[a]]]

Atomic(env, r, i) ==
  LET v == ValueOf(r, 0)
  IN  CASE i[1] = "atomic.load" ->
             At(r, v, i[5], i[3], TRUE, LAMBDA at : Replace(r, 1, Loaded(r, at, i[3], 0, i[2])))
        [] i[1] = "atomic.store" ->
             At(r, ValueOf(r, 1), i[4], i[3], TRUE,
                LAMBDA at : Written(PopN(r, 2), at, i[3], v))
        [] i[1] = "atomic.rmw" ->
             At(r, ValueOf(r, 1), i[5], i[4], TRUE, LAMBDA at :
               LET old == Loaded(r, at, i[4], 0, i[3])
               IN  Written(Replace(r, 2, old), at, i[4],
                           IF i[2] = "xchg" THEN v ELSE Alu(i[2], i[3], old, v)))
        [] i[1] = "atomic.cmpxchg" ->
             At(r, ValueOf(r, 2), i[4], i[3], TRUE, LAMBDA at :
               LET old == Loaded(r, at, i[3], 0, i[2])
               IN  Written(Replace(r, 3, old), at, i[3],
                           IF old = ValueOf(r, 1) THEN v ELSE old))
        [] i[1] = "atomic.wait" ->
             At(r, ValueOf(r, 2), i[3], Bytes(i[2]), TRUE, LAMBDA at :
               IF ~env.shared THEN Stop(r, Trapped("Wait"))
               ELSE Log(Replace(r, 3, IF Loaded(r, at, Bytes(i[2]), 0, i[2]) = ValueOf(r, 1)
                                        THEN 2 ELSE 1),
                        <<"wait", at, ValueOf(r, 1), v>>))
        [] i[1] = "atomic.notify" ->
             At(r, ValueOf(r, 1), i[2], Bytes("i32"), TRUE,
                LAMBDA at : Log(Replace(r, 2, 0), <<"notify", at, v>>))

Memory(env, r, i) ==
  LET v == ValueOf(r, 0)
      src == ValueOf(r, 1)
      dst == ValueOf(r, 2)
      address == IF env.memory64 THEN "i64" ELSE "i32"
  IN  CASE i[1] = "load" ->
             At(r, v, i[5], i[3], FALSE, LAMBDA at : Replace(r, 1, Loaded(r, at, i[3], i[4], i[2])))
        [] i[1] = "store" ->
             At(r, src, i[4], i[3], FALSE, LAMBDA at : Written(PopN(r, 2), at, i[3], v))
        [] i[1] = "load.transform" ->
             LET n == IF i[2] \in {"extend_s", "extend_u"} THEN Bytes("i64") ELSE i[3]
             IN  At(r, v, i[4], n, FALSE, LAMBDA at : Replace(r, 1, TransformedLoad(r, i[2], i[3], at)))
        [] i[1] = "load.lane" ->
             At(r, src, i[4], i[2], FALSE, LAMBDA at :
               Replace(r, 2, Vector(i[2], Bytes("s128") \div i[2], LAMBDA k :
                 IF k = i[3] THEN Loaded(r, at, i[2], 0, "i64") ELSE LaneOf(i[2], k, v))))
        [] i[1] = "store.lane" ->
             At(r, src, i[4], i[2], FALSE, LAMBDA at :
               Written(PopN(r, 2), at, i[2], LaneOf(i[2], i[3], v)))
        [] i[1] = "memory.size" -> PushV(r, r.size \div PageSize)
        [] i[1] = "memory.grow" ->
             LET grown == r.size + v * PageSize
             IN  IF grown > env.max THEN Replace(r, 1, Modulus(address) - 1)
                 ELSE [Replace(r, 1, r.size \div PageSize) EXCEPT !.size = grown]
        [] i[1] = "memory.copy" ->
             Region(r, dst + v <= r.size /\ src + v <= r.size, v, LAMBDA k : r.mem[src + k])
        [] i[1] = "memory.fill" ->
             Region(r, dst + v <= r.size, v, LAMBDA k : src % ByteBase)
        [] i[1] = "memory.init" ->
             Region(r, dst + v <= r.size /\ src + v <= Len(r.data), v, LAMBDA k : r.data[src + k + 1])
        [] i[1] = "data.drop" -> [r EXCEPT !.data = <<>>]

---------------------------------------------------------------------------
(* Calls.  The feedback of a call is in the slot that belongs to it.       *)

Reached(env, prog, r, f) ==
  LET i == prog[r.pc]
      n == Len(Signature(f).fields)
      args == Values(r, n)
      before == {p \in 1..(r.pc - 1) : Collects(env, prog[p][1])}
      counted == IF ~Collects(env, i[1]) \/ (i[1] \in DirectCalls /\ f \in Imported) THEN r
                 ELSE Feedback(r, FeedbackSlot(Cardinality(before)), IF i[1] \in DirectCalls THEN 0 ELSE f)
      Return(t, results) == IF i[1] \in TailCalls THEN Stop(t, <<"returned", results>>)
                            ELSE [t EXCEPT !.vals = @ \o results]
  IN  Return(Called(env, PopN(counted, n), f, args, PageSize), ResultsOf(f, args))

CallIndirect(env, prog, r, table, sig) ==
  LET entries == env.dispatch[table].entries
      index == ValueOf(r, 0)
      f == entries[index + 1]
  IN  IF index >= Len(entries) THEN TrapWith(r, "TableOutOfBounds")
      ELSE IF f = 0 THEN TrapWith(r, "NullFunc")
      ELSE IF ~IsHeapSubtype(Functions[f].sig, sig) THEN TrapWith(r, "FuncSigMismatch")
      ELSE Reached(env, prog, PopN(r, 1), f)

FunctionCall(env, prog, r, i) ==
  CASE i[1] \in DirectCalls -> Reached(env, prog, r, i[2])
    [] i[1] \in IndirectCalls -> CallIndirect(env, prog, r, i[2], i[3])
    [] i[1] \in RefCalls ->
         Deref(r, ValueOf(r, 0), LAMBDA k : Reached(env, prog, PopN(r, 1), r.heap[k].fields[1]))

---------------------------------------------------------------------------
(* Execution. *)

MemoryOps == {"load", "store", "memory.size", "memory.grow", "memory.copy", "memory.fill",
              "memory.init", "data.drop", "load.transform", "load.lane", "store.lane"}
AtomicOps == {"atomic.load", "atomic.store", "atomic.rmw", "atomic.cmpxchg", "atomic.wait",
              "atomic.notify"}

Perform(env, prog, r, i) ==
  LET v == ValueOf(r, 0)   w == ValueOf(r, 1)
  IN  CASE i[1] = "const" -> PushV(r, Wrap(i[2], i[3]))
        [] i[1] = "local.get" -> PushV(r, r.locals[i[2]])
        [] i[1] = "local.set" -> [PopN(r, 1) EXCEPT !.locals[i[2]] = v]
        [] i[1] = "local.tee" -> [r EXCEPT !.locals[i[2]] = v]
        [] i[1] = "global.get" -> PushV(r, r.global)
        [] i[1] = "global.set" -> [PopN(r, 1) EXCEPT !.global = v]
        [] i[1] = "drop" -> PopN(r, 1)
        [] i[1] = "select" -> Replace(r, 3, IF v # 0 THEN ValueOf(r, 2) ELSE w)
        [] i[1] = "unop" /\ i[2] \in Roundings -> Replace(r, 1, Rounded(i[2], v))
        [] i[1] = "unop" -> Replace(r, 1, Alu(i[2], i[3], v, 0))
        [] i[1] = "binop" -> Replace(r, 2, Alu(i[2], i[3], w, v))
        [] i[1] = "rotate" -> Replace(r, 2, Rotate(i[3], w, IF i[2] = "rol" THEN v
                                                             ELSE Bits(i[3]) - (v % Bits(i[3]))))
        [] i[1] = "divide" -> Give(r, 2, Divide(i[2], i[3], w, v))
        [] i[1] = "truncate" -> Give(r, 1, Truncated(i[2], i[3], i[4], v))
        [] i[1] = "unreachable" -> Stop(r, Trapped("Unreachable"))
        [] i[1] = "block" -> Enter(r, prog, i[2], 0)
        [] i[1] = "loop" -> Enter(r, prog, i[2], r.pc)
        [] i[1] = "if" -> If(r, prog)
        [] i[1] \in {"else", "end"} -> Leave(env, r)
        [] i[1] = "br" -> Branch(env, r, i[2])
        [] i[1] = "br_if" -> IF v = 0 THEN PopN(r, 1) ELSE Branch(env, PopN(r, 1), i[2])
        [] i[1] = "br_table" ->
             Branch(env, PopN(r, 1), i[2][IF v < Len(i[2]) THEN v + 1 ELSE Len(i[2])])
        [] i[1] = "return" -> Finish(r, env.results)
        [] i[1] \in StructOps -> Struct(r, i)
        [] i[1] \in ArrayOps -> Array(r, i)
        [] i[1] \in ObjectAtomicOps -> ObjectAtomic(r, i)
        [] i[1] \in TableOps -> TableOp(r, i, IF env.memory64 THEN "i64" ELSE "i32")
        [] i[1] \in StringOps -> StringOp(r, i)
        [] i[1] \in CallOps -> FunctionCall(env, prog, r, i)
        [] i[1] = "ref.func" ->
             PushV(r, Pointer(CHOOSE k \in DOMAIN r.heap : r.heap[k] = [type |-> Functions[i[2]].sig, fields |-> <<i[2]>>]))
        [] i[1] \in ConvertOps -> Convert(r, i)
        [] i[1] \in BranchOps ->
             LET choice == RefBranch(r, i)
                 kept == IF choice.keeps THEN r ELSE PopN(r, 1)
             IN  IF choice.taken THEN Branch(env, kept, i[2]) ELSE kept
        [] i[1] \in MemoryOps -> Memory(env, r, i)
        [] i[1] \in AtomicOps -> Atomic(env, r, i)

RECURSIVE Interpret(_, _, _, _)
Interpret(env, prog, r, fuel) ==
  IF r.out # Running \/ fuel = 0 THEN r
  ELSE Interpret(env, prog, Perform(env, prog, [r EXCEPT !.pc = @ + 1], prog[r.pc + 1]), fuel - 1)

=============================================================================
