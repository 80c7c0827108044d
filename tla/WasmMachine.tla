----------------------------- MODULE WasmMachine -----------------------------
(***************************************************************************)
(* The processor and the runtime that execute the code Liftoff emits.      *)
(* None of it is in the repository but the C functions of WasmNumerics and *)
(* of the bulk memory instructions.                                        *)
(*                                                                         *)
(* A machine m is a record: the program counter, the registers, the slots  *)
(* of the frame, registers that were pushed, the memory with its size and  *)
(* its address, the globals, the table, the events (accesses to the memory *)
(* and what was reported to WebTSan) and out, how the function ended.      *)
(*                                                                         *)
(* Environment env (CompilationEnv and the platform):                      *)
(*   memory64, shared, tsan   the memory, and the flag wasm_tsan           *)
(*   bounds                   "explicit" or "trap" (trap handler)         *)
(*   min, max                 bytes the memory has at least and at most    *)
(*   native                   the CPU has instructions for everything      *)
(*   noops                    kPartialOOBWritesAreNoops                    *)
(*   debug, tiering           for_debugging_, dynamic_tiering()            *)
(***************************************************************************)
EXTENDS WasmFunctions

PageSizeLog2 == 1
PageSize == 2^PageSizeLog2
MaxSamples == 2                   \* kMaxSamples, 64 in the source

---------------------------------------------------------------------------
(* Memory. *)

IsInBounds(index, length, max) == length <= max /\ index <= max - length

Addresses(at, n) == at..(at + n - 1)
ReadBytes(mem, at, n) ==
  LET Read[k \in 0..n] == IF k = 0 THEN 0 ELSE Read[k - 1] + mem[at + k - 1] * ByteBase^(k - 1)
  IN  Read[n]
WriteBytes(mem, at, n, v) ==
  [a \in DOMAIN mem |-> IF a \in Addresses(at, n)
                          THEN (v \div ByteBase^(a - at)) % ByteBase ELSE mem[a]]

Access(at, n, store, atomic) == <<"access", at, n, store, atomic>>
Traced(at, n, store, atomic) == <<"trace", at, n, store, atomic>>

---------------------------------------------------------------------------
(* Instructions of the CPU. *)

Compare(cond, kind, a, b) ==
  CASE cond \in {"eq", "eqz"} -> a = b
    [] cond \in {"ne", "nez"} -> a # b
    [] cond = "lt_s" -> Signed(kind, a) < Signed(kind, b)
    [] cond = "gt_s" -> Signed(kind, a) > Signed(kind, b)
    [] cond = "le_s" -> Signed(kind, a) <= Signed(kind, b)
    [] cond = "ge_s" -> Signed(kind, a) >= Signed(kind, b)
    [] cond = "lt_u" -> a < b
    [] cond = "gt_u" -> a > b
    [] cond = "le_u" -> a <= b
    [] cond = "ge_u" -> a >= b

Conditions == {"eq", "ne", "eqz", "lt_s", "gt_s", "le_s", "ge_s", "lt_u", "gt_u", "le_u", "ge_u"}

And(kind, a, b) == Bitwise2(kind, LAMBDA x, y : x * y, a, b)
Xor(kind, a, b) == Bitwise2(kind, LAMBDA x, y : (x + y) % 2, a, b)

\* The integer nearest to a float.
Saturate(low, high, f) ==
  CASE f = NaN -> 0
    [] f # NaN /\ f < 2 * low -> low
    [] f # NaN /\ f > 2 * high -> high
    [] OTHER -> Truncate(f)

Roundings == {"floor", "ceil", "trunc", "nearest"}

\* Two-operand instructions; those with one operand ignore b.
Alu(fn, kind, a, b) ==
  CASE fn \in Conditions -> IF Compare(fn, kind, a, b) THEN 1 ELSE 0
    [] fn = "add" -> Wrap(kind, a + b)
    [] fn = "sub" -> Wrap(kind, a - b)
    [] fn = "mul" -> Wrap(kind, a * b)
    [] fn = "and" -> And(kind, a, b)
    [] fn = "or"  -> Or(kind, a, b)
    [] fn = "xor" -> Xor(kind, a, b)
    [] fn = "shl" -> ShiftLeft(kind, a, b % Bits(kind))
    [] fn = "shr" -> ShiftRight(a, b % Bits(kind))
    [] fn = "sar" -> Wrap(kind, ShiftRight(Signed(kind, a), b % Bits(kind)))
    [] fn = "clz" -> CountLeadingZeros(kind, a)
    [] fn = "ctz" -> CountTrailingZeros(kind, a)
    [] fn = "popcnt" -> Cardinality(BitsSet(kind, a))
    [] fn = "extend8" -> Wrap(kind, SignExtend(ByteBits, a % ByteBase))
    [] fn = "wrap" -> Wrap("i32", a)
    [] fn = "sext" -> Wrap("i64", Signed("i32", Wrap("i32", a)))
    [] fn = "uext" -> Wrap("i32", a)
    [] fn = "fsub" -> a - b
    [] fn = "fneg" -> -a
    [] fn \in Roundings -> RoundToWhole(fn, a)
    [] fn = "convert_s" -> Float(Signed(kind, a))
    [] fn = "convert_u" -> Float(a)
    [] fn = "trunc_sat_s" -> Wrap(kind, Saturate(MinInt(kind), MaxInt(kind), a))
    [] fn = "trunc_sat_u" -> Saturate(0, Modulus(kind) - 1, a)

---------------------------------------------------------------------------
(* Operands and effects. *)

Operand(m, v) ==
  CASE IsReg(v)   -> m.regs[v[2]]
    [] IsConst(v) -> Wrap(v[3], v[2])
    [] IsStack(v) -> m.slots[v[2]]

Clobber(m) == [m EXCEPT !.regs = [r \in DOMAIN @ |-> Junk]]

\* The address of a memory operand, relative to the start of the memory.
Effective(m, mem, index, offset) ==
  m.regs[mem] - m.base + offset + (IF index = 0 THEN 0 ELSE m.regs[index])

\* Beyond the memory lies a region where every access faults, when the memory
\* was reserved for the trap handler.
Reserved(env) == IF env.memory64 THEN env.max ELSE 3 * 2^Width
Fault(env, m, at) ==
  IF env.bounds = "trap" /\ at \in 0..(Reserved(env) - 1)
    THEN Stop(m, Trapped("MemOutOfBounds")) ELSE Stop(m, Wild)

\* A store that is partly out of bounds writes its first bytes on some CPUs.
FaultingStore(env, m, at, n, v) ==
  LET inside == IF at < m.size /\ at >= 0 THEN m.size - at ELSE 0
  IN  Fault(env, IF env.noops \/ inside = 0 THEN m
                 ELSE [m EXCEPT !.mem = WriteBytes(@, at, inside, v)], at)

\* An atomic access that is not aligned faults on some CPUs and is torn on others.
CheckedAccess(env, m, at, n, atomic, Do(_)) ==
  IF at < 0 \/ at + n > m.size THEN Fault(env, m, at)
  ELSE IF atomic /\ at % n # 0 THEN Stop(m, Wild)
  ELSE Do(m)

---------------------------------------------------------------------------
(* The C functions of the bulk memory instructions; each returns the       *)
(* machine after it and what it returned.                                  *)

Flagged(m, pair) == [m |-> m, got |-> <<Wrap("i32", pair[1]), pair[2]>>]
OutOfBounds(m) == Result(m, 0)

\* At most MaxSamples bytes of the range are reported, one stride apart.
MaybeReportTSanBulkRange(env, m, offset, size, is_write) ==
  LET n      == Min({size, MaxSamples})
      stride == size \div n
      Sample(t, i) == Log(t, <<"sample", offset + (i - 1) * stride, is_write>>)
  IN  IF ~env.tsan \/ ~env.shared \/ size = 0 THEN m
      ELSE FoldLeft(Sample, m, [i \in 1..n |-> i])

\* The C function reads and writes the ranges <<at, n, store>>.
LogRanges(m, n, ranges) == IF n = 0 THEN m ELSE Log(m, <<"range", ranges>>)

memory_copy_wrapper(env, m, dst, src, size) ==
  IF ~IsInBounds(dst, size, m.size) \/ ~IsInBounds(src, size, m.size) THEN OutOfBounds(m)
  ELSE LET read    == MaybeReportTSanBulkRange(env, m, src, size, FALSE)
           written == MaybeReportTSanBulkRange(env, read, dst, size, TRUE)
           moved   == [a \in DOMAIN m.mem |->
                         IF a \in Addresses(dst, size) THEN m.mem[a - dst + src] ELSE m.mem[a]]
           ranges  == {<<src, size, FALSE>>, <<dst, size, TRUE>>}
       IN  Result([LogRanges(written, size, ranges) EXCEPT !.mem = moved], 1)

memory_fill_wrapper(env, m, dst, value, size) ==
  IF ~IsInBounds(dst, size, m.size) THEN OutOfBounds(m)
  ELSE LET reported == MaybeReportTSanBulkRange(env, m, dst, size, TRUE)
           filled == [a \in DOMAIN m.mem |->
                        IF a \in Addresses(dst, size) THEN value % ByteBase ELSE m.mem[a]]
       IN  Result([LogRanges(reported, size, {<<dst, size, TRUE>>}) EXCEPT !.mem = filled], 1)

\* It writes the range and reports nothing to WebTSan.
memory_init_wrapper(m, dst, src, size) ==
  IF ~IsInBounds(dst, size, m.size) \/ ~IsInBounds(src, size, Len(m.data)) THEN OutOfBounds(m)
  ELSE Result([Log(m, <<"init", dst, size>>) EXCEPT !.mem = [a \in DOMAIN @ |->
                 IF a \in Addresses(dst, size) THEN m.data[a - dst + src + 1] ELSE @[a]]], 1)

data_drop_wrapper(m) == Result([m EXCEPT !.data = <<>>], 0)

\* The memory moves when it grows, unless other threads use it.
Grow(env, m, pages) ==
  LET grown == m.size + pages * PageSize
  IN  IF grown > env.max THEN Result(m, Modulus("i32") - 1)
      ELSE Result([m EXCEPT !.size = grown,
                            !.base = IF env.shared THEN @ ELSE @ + Modulus("i64") \div 4],
                  m.size \div PageSize)

\* wasm_atomic_notify is given an address; nobody waits in these runs.
Notify(m, address, count) ==
  Result(Log(m, <<"notify", address - m.base, count>>), 0)

Wait(env, m, kind, at, expected, timeout) ==
  LET read == ReadBytes(m.mem, at, Bytes(kind))
  IN  IF ~env.shared THEN Result(Stop(m, Trapped("Wait")), 0)
      ELSE Result(Log(m, <<"wait", at, expected, timeout>>), IF read = expected THEN 2 ELSE 1)

Function(env, m, fn, a) ==
  CASE fn = "int64_div"  -> Flagged(m, int64_div(a[1], a[2]))
    [] fn = "int64_mod"  -> Flagged(m, int64_mod(a[1], a[2]))
    [] fn = "uint64_div" -> Flagged(m, uint64_div(a[1], a[2]))
    [] fn = "uint64_mod" -> Flagged(m, uint64_mod(a[1], a[2]))
    [] fn = "word32_rol" -> Result(m, word_rol("i32", a[1], a[2]))
    [] fn = "word32_ror" -> Result(m, word_ror("i32", a[1], a[2]))
    [] fn = "word64_rol" -> Result(m, word_rol("i64", a[1], a[2]))
    [] fn = "word64_ror" -> Result(m, word_ror("i64", a[1], a[2]))
    [] fn = "word64_popcnt" -> Result(m, word_popcnt("i64", a[1]))
    [] fn \in Roundings -> Result(m, RoundToWhole(fn, a[1]))
    [] fn = "float_to_int64"  -> Flagged(m, float_to_int64(a[1], TRUE))
    [] fn = "float_to_uint64" -> Flagged(m, float_to_int64(a[1], FALSE))
    [] fn = "float_to_int64_sat"  -> Result(m, float_to_int64_sat(a[1]))
    [] fn = "float_to_uint64_sat" -> Result(m, float_to_uint64_sat(a[1]))
    [] fn = "int64_to_float"  -> Result(m, int64_to_float(a[1]))
    [] fn = "uint64_to_float" -> Result(m, uint64_to_float_win(a[1]))
    [] fn = "memory_copy" -> memory_copy_wrapper(env, m, a[1], a[2], a[3])
    [] fn = "memory_fill" -> memory_fill_wrapper(env, m, a[1], a[2], a[3])
    [] fn = "memory_init" -> memory_init_wrapper(m, a[1], a[2], a[3])
    [] fn = "data_drop"   -> data_drop_wrapper(m)
    [] fn = "memory_grow" -> Grow(env, m, a[1])
    [] fn = "notify"      -> Notify(m, a[1], a[2])
    [] fn = "wait32"      -> Wait(env, m, "i32", a[1], a[2], a[3])
    [] fn = "wait64"      -> Wait(env, m, "i64", a[1], a[2], a[3])
    [] fn = "bigint"      -> Result(m, a[1])
    [] fn = "trace_memory" ->
         Result(Log(m, <<"trace", a[1], a[2], a[3] = 1, a[4] = 1>>), Junk)
    [] fn = "stack_guard" -> Result(m, Junk)
    [] fn \in TableBuiltins -> TableBuiltin(m, fn, a)
    [] fn \in CallBuiltins -> CallBuiltin0(m, fn, a)
    [] fn \in StringBuiltins -> StringBuiltin(m, fn, a)
    [] fn \in ObjectBuiltins -> ObjectBuiltin(m, fn, a, env.old)

---------------------------------------------------------------------------
(* Execution. *)

LabelsOf(code) ==
  [l \in {code[i][2] : i \in {j \in DOMAIN code : code[j][1] = "bind"}} |->
     CHOOSE i \in DOMAIN code : code[i] = <<"bind", l>>]

\* A vector is loaded with its first bytes, with copies of a lane or with lanes that
\* are widened.  Lane is one lane of n bytes of it.
Lane(n, lane, v) == (v \div ByteBase^(n * lane)) % ByteBase^n
Expand(transform, n, v) ==
  LET Lanes(k, wide, x(_)) == MapThenSumSet(LAMBDA i : x(i) * ByteBase^(wide * i), 0..(k - 1))
      half == Bytes("i64") \div n
  IN  CASE transform = "zero"  -> v
        [] transform = "splat" -> Lanes(Bytes("s128") \div n, n, LAMBDA i : v)
        [] transform = "extend_u" -> Lanes(half, 2 * n, LAMBDA i : Lane(n, i, v))
        [] transform = "extend_s" -> Lanes(half, 2 * n, LAMBDA i :
             SignExtend(n * ByteBits, Lane(n, i, v)) % ByteBase^(2 * n))

Load(env, m, i) ==          \* dst, mem, index, offset, size, signed from, kind, atomic
  LET at == Effective(m, i[3], i[4], i[5])
      n  == i[6]
  IN  CheckedAccess(env, m, at, n, i[9], LAMBDA t :
        LET v == ReadBytes(t.mem, at, n)
            x == IF i[7] = 0 THEN v ELSE Wrap(i[8], SignExtend(i[7], v))
        IN  SetReg(Log(t, Access(at, n, FALSE, i[9])), i[2], x))

Store(env, m, i) ==         \* mem, index, offset, size, value, atomic, lane
  LET at == Effective(m, i[2], i[3], i[4])
      n  == i[5]
      v  == Lane(n, i[8], m.regs[i[6]])
  IN  IF at < 0 \/ at + n > m.size THEN FaultingStore(env, m, at, n, v)
      ELSE CheckedAccess(env, m, at, n, i[7], LAMBDA t :
             Log([t EXCEPT !.mem = WriteBytes(@, at, n, v)], Access(at, n, TRUE, i[7])))

LoadVector(env, m, i) ==    \* dst, mem, index, offset, bytes, lane bytes, transform
  LET at == Effective(m, i[3], i[4], i[5])
  IN  CheckedAccess(env, m, at, i[6], FALSE, LAMBDA t :
        SetReg(Log(t, Access(at, i[6], FALSE, FALSE)), i[2],
               Expand(i[8], i[7], ReadBytes(t.mem, at, i[6]))))

LoadLane(env, m, i) ==      \* dst, mem, index, offset, bytes, src, lane
  LET at == Effective(m, i[3], i[4], i[5])
      n  == i[6]
      v  == m.regs[i[7]]
  IN  CheckedAccess(env, m, at, n, FALSE, LAMBDA t :
        SetReg(Log(t, Access(at, n, FALSE, FALSE)), i[2],
               v + (ReadBytes(t.mem, at, n) - Lane(n, i[8], v)) * ByteBase^(n * i[8])))

\* An atomic read-modify-write returns what it read.
ReadModifyWrite(env, m, i) ==   \* dst, fn, mem, index, offset, size, value, kind
  LET at == Effective(m, i[4], i[5], i[6])
      n  == i[7]
  IN  CheckedAccess(env, m, at, n, TRUE, LAMBDA t :
        LET old == ReadBytes(t.mem, at, n)
            new == IF i[3] = "xchg" THEN m.regs[i[8]] ELSE Alu(i[3], i[9], old, m.regs[i[8]])
        IN  SetReg(Log([t EXCEPT !.mem = WriteBytes(@, at, n, new)],
                       Access(at, n, TRUE, TRUE)), i[2], old))

CompareExchange(env, m, i) ==   \* dst, mem, index, offset, size, expected, new
  LET at == Effective(m, i[3], i[4], i[5])
      n  == i[6]
  IN  CheckedAccess(env, m, at, n, TRUE, LAMBDA t :
        LET old == ReadBytes(t.mem, at, n)
            new == IF old = m.regs[i[7]] THEN m.regs[i[8]] ELSE old
        IN  SetReg(Log([t EXCEPT !.mem = WriteBytes(@, at, n, new)],
                       Access(at, n, TRUE, TRUE)), i[2], old))

Division(m, i, labels) ==       \* fn, kind, dst, lhs, rhs, zero, unrepresentable
  LET x == Signed(i[3], m.regs[i[5]])   y == Signed(i[3], m.regs[i[6]])
      overflow == x = MinInt(i[3]) /\ y = -1
      Set(n) == [[m EXCEPT !.regs[1] = Junk] EXCEPT !.regs[i[4]] = Wrap(i[3], n)]
      Goto(l) == [m EXCEPT !.pc = labels[l]]
  IN  IF y = 0 THEN Goto(i[7])
      ELSE CASE i[2] = "div_s" -> IF overflow THEN Goto(i[8]) ELSE Set(Quotient(x, y))
             [] i[2] = "rem_s" -> Set(Remainder(x, y))
             [] i[2] = "div_u" -> Set(m.regs[i[5]] \div m.regs[i[6]])
             [] i[2] = "rem_u" -> Set(m.regs[i[5]] % m.regs[i[6]])

\* A conversion that may trap jumps when the float has no integer.
Truncation(m, i, labels) ==     \* kind, signed, dst, src, label
  LET f == m.regs[i[5]]
      fits == Finite(f) /\ Truncate(f) \in (IF i[3] THEN MinInt(i[2])..MaxInt(i[2])
                                             ELSE 0..(Modulus(i[2]) - 1))
  IN  IF fits THEN SetReg(m, i[4], Wrap(i[2], Truncate(f)))
      ELSE [m EXCEPT !.pc = labels[i[6]]]

\* The same for the fields of objects; the collector is told of what is stored.
FieldReadModifyWrite(m, i) ==   \* dst, fn, obj, index, at, value, kind, trapping
  UpdateField(m, i[2], i[4], FieldOf(m, i[5], i[6], i[8]), i[8], i[9], LAMBDA old :
    IF i[3] = "xchg" THEN m.regs[i[7]] ELSE Alu(i[3], i[8], old, m.regs[i[7]]))
FieldCompareExchange(m, i) ==   \* dst, obj, index, at, expected, new, kind, trapping
  UpdateField(m, i[2], i[3], FieldOf(m, i[4], i[5], i[8]), i[8], i[9], LAMBDA old :
    IF old = m.regs[i[6]] THEN m.regs[i[7]] ELSE old)

\* The registers named by into receive the results; every other one is lost.
Into(done, into) ==
  [Clobber(done.m) EXCEPT
     !.regs = [r \in DOMAIN @ |->
       IF \E k \in DOMAIN into : into[k] = r
         THEN done.got[CHOOSE k \in DOMAIN into : into[k] = r] ELSE @[r]]]
CallFunction(env, m, i) ==
  Into(Function(env, m, i[3], [k \in DOMAIN i[4] |-> Operand(m, i[4][k])]), i[2])

\* A Wasm function is called:  with the arguments it takes, on the instance it is of.
InvokeFunction(env, m, i) ==            \* target, implicit, args
  LET f == Operand(m, i[2])
      args == [k \in DOMAIN i[4] |-> Operand(m, i[4][k])]
      results == ResultsOf(f, args)
      done == [Called(env, m, f, args, PageSize) EXCEPT
                 !.base = IF env.shared \/ GrowsBy(env, m, f, PageSize) = 0 THEN @
                          ELSE @ + Modulus("i64") \div 8]
  IN  IF \/ f \notin DOMAIN Functions \/ Operand(m, i[3]) # ImplicitArg(f)
         \/ Len(args) # Len(Signature(f).fields) THEN Stop(m, Wild)
      ELSE IF i[1] = "tailcall" THEN Stop(done, <<"returned", results>>)
      ELSE [Clobber(done) EXCEPT !.regs = [r \in DOMAIN @ |->
              IF r \in DOMAIN results THEN results[r] ELSE @[r]]]

MoveAll(m, pairs) ==
  LET to(v) == {p \in pairs : p[1] = v}
      Value(v) == Operand(m, (CHOOSE p \in to(v) : TRUE)[2])
  IN  [m EXCEPT !.regs  = [r \in DOMAIN @ |-> IF to(Reg(r)) = {} THEN @[r] ELSE Value(Reg(r))],
                !.slots = [n \in DOMAIN @ |-> IF to(Slot(n)) = {} THEN @[n] ELSE Value(Slot(n))]]

Execute(env, m, i, labels) ==
  CASE i[1] = "moves" -> MoveAll(m, i[2])
    [] i[1] = "alu"   -> SetReg(m, i[4], Alu(i[2], i[3], Operand(m, i[5]), Operand(m, i[6])))
    [] i[1] = "bind"  -> m
    [] i[1] = "jump"  -> [m EXCEPT !.pc = labels[i[2]]]
    [] i[1] = "jumpif" -> IF Compare(i[2], i[3], Operand(m, i[4]), Operand(m, i[5]))
                            THEN [m EXCEPT !.pc = labels[i[6]]] ELSE m
    [] i[1] = "check" -> IF m.slow THEN [m EXCEPT !.pc = labels[i[2]]] ELSE m
    [] i[1] = "call"  -> CallFunction(env, m, i)
    [] i[1] = "load"  -> Load(env, m, i)
    [] i[1] = "store" -> Store(env, m, i)
    [] i[1] = "loadvector" -> LoadVector(env, m, i)
    [] i[1] = "loadlane"   -> LoadLane(env, m, i)
    [] i[1] = "rmw"   -> ReadModifyWrite(env, m, i)
    [] i[1] = "cmpxchg" -> CompareExchange(env, m, i)
    [] i[1] = "fieldrmw" -> FieldReadModifyWrite(m, i)
    [] i[1] = "fieldcmpxchg" -> FieldCompareExchange(m, i)
    [] i[1] = "div"   -> Division(m, i, labels)
    [] i[1] = "trunc" -> Truncation(m, i, labels)
    [] i[1] = "memstart" -> SetReg(m, i[2], m.base)
    [] i[1] = "memsize"  -> SetReg(m, i[2], m.size)
    [] i[1] = "param" -> SetReg(m, i[2], m.params[i[3]])
    [] i[1] = "getglobal" -> SetReg(m, i[2], m.global)
    [] i[1] = "setglobal" -> [m EXCEPT !.global = m.regs[i[2]]]
    [] i[1] = "push"  -> [m EXCEPT !.pushed = [r \in i[2] |-> m.regs[r]]]
    [] i[1] = "pop"   -> [m EXCEPT !.regs = [r \in DOMAIN @ |->
                             IF r \in i[2] THEN m.pushed[r] ELSE @[r]]]
    [] i[1] = "trap"  -> Stop(m, Trapped(i[2]))
    [] i[1] = "ret"   -> Stop(m, <<"returned", [k \in DOMAIN i[2] |-> Operand(m, i[2][k])]>>)
    [] i[1] \in {"invoke", "tailcall"} -> InvokeFunction(env, m, i)
    [] i[1] \in CallInstructions -> CallInstruction(env, m, i)
    [] i[1] \in ObjectInstructions -> ObjectInstruction(m, i, labels)

\* Runs the code for at most fuel instructions.
RECURSIVE Run(_, _, _, _, _)
Run(env, code, labels, m, fuel) ==
  IF m.out # Running \/ fuel = 0 THEN m
  ELSE Run(env, code, labels,
           Execute(env, [m EXCEPT !.pc = @ + 1], code[m.pc + 1], labels), fuel - 1)

=============================================================================
