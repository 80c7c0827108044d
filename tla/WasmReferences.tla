---------------------------- MODULE WasmReferences ----------------------------
(***************************************************************************)
(* What the instructions on references mean by the WebAssembly             *)
(* specification.  References and objects are those of the machine         *)
(* (WasmObjects), but a type is looked up in the object, without maps, and *)
(* every access is checked first.                                          *)
(***************************************************************************)
EXTENDS WasmMachine

ValueOf(r, k) == r.vals[Len(r.vals) - k]
PopN(r, n)    == [r EXCEPT !.vals = SubSeq(@, 1, Len(@) - n)]
PushV(r, v)   == [r EXCEPT !.vals = Append(@, v)]
Replace(r, n, v) == PushV(PopN(r, n), v)
TrapWith(r, reason) == Stop(r, Trapped(reason))

IsNull(v) == v \in {WasmNull, JSNull}
Deref(r, v, Do(_)) == IF IsNull(v) THEN TrapWith(r, "NullDereference") ELSE Do(Target(v))

\* Whether a value belongs to a type; nulls says whether null does.
HasType(r, v, heap, nulls) ==
  LET type == r.heap[Target(v)].type
  IN  CASE IsNull(v) -> nulls
        [] ~IsNull(v) /\ IsSmi(v) -> heap \in {"i31", "eq", "any"}
        [] ~IsNull(v) /\ ~IsSmi(v) -> IF IsDefined(type) THEN IsHeapSubtype(type, heap) ELSE heap \in {"any", type}

---------------------------------------------------------------------------
(* Structs and arrays. *)

Kind(type, field) == Types[type].fields[field]
Packed(kind, v) == IF kind = "i8" THEN v % ByteBase ELSE v
Unpack(kind, v, signed) ==
  IF kind = "i8" /\ signed THEN Wrap("i32", SignExtend(ByteBits, v)) ELSE v

NewObject(r, n, type, fields) ==
  LET t == PopN(r, n)
  IN  PushV([t EXCEPT !.heap = Append(@, [type |-> type, fields |-> fields])],
            Pointer(Len(r.heap) + 1))

\* The n values on top become the fields.
Values(r, n) == SubSeq(r.vals, Len(r.vals) - n + 1, Len(r.vals))
PackedValues(type, values) ==     \* an array has one kind for all of them
  [f \in DOMAIN values |-> Packed(Kind(type, Min({f, Len(Types[type].fields)})), values[f])]

Struct(r, i) ==
  LET type == i[2]   kinds == Types[type].fields   v == ValueOf(r, 0)
  IN  CASE i[1] = "struct.new" ->
             NewObject(r, Len(kinds), type, PackedValues(type, Values(r, Len(kinds))))
        [] i[1] = "struct.new_default" ->
             NewObject(r, 0, type, [f \in DOMAIN kinds |-> DefaultOf(kinds[f])])
        [] i[1] \in {"struct.get", "struct.atomic.get"} ->
             Deref(r, v, LAMBDA k : Replace(r, 1, Unpack(kinds[i[3]], r.heap[k].fields[i[3]], i[4])))
        [] i[1] \in {"struct.set", "struct.atomic.set"} ->
             Deref(r, ValueOf(r, 1), LAMBDA k :
               [PopN(r, 2) EXCEPT !.heap[k].fields[i[3]] = Packed(kinds[i[3]], v)])

\* Field f of the object v becomes new of what it was, which is left for depth operands.
Swap(r, depth, k, f, new(_)) ==
  LET old == r.heap[k].fields[f]
  IN  [Replace(r, depth, old) EXCEPT !.heap[k].fields[f] = new(old)]
Element(r, v, at, Do(_)) ==
  Deref(r, v, LAMBDA k :
    IF at >= Len(r.heap[k].fields) THEN TrapWith(r, "ArrayOutOfBounds") ELSE Do(k))

ObjectAtomic(r, i) ==
  LET v == ValueOf(r, 0)   w == ValueOf(r, 1)   x == ValueOf(r, 2)   y == ValueOf(r, 3)
      Modified(fn, kind, old) == IF fn = "xchg" THEN v ELSE Alu(fn, kind, old, v)
      Exchanged(old) == IF old = w THEN v ELSE old
  IN  CASE i[1] = "struct.atomic.rmw" ->
             Deref(r, w, LAMBDA k :
               Swap(r, 2, k, i[3], LAMBDA old : Modified(i[4], Kind(i[2], i[3]), old)))
        [] i[1] = "struct.atomic.cmpxchg" ->
             Deref(r, x, LAMBDA k : Swap(r, 3, k, i[3], Exchanged))
        [] i[1] = "array.atomic.rmw" ->
             Element(r, x, w, LAMBDA k :
               Swap(r, 3, k, w + 1, LAMBDA old : Modified(i[3], Kind(i[2], 1), old)))
        [] i[1] = "array.atomic.cmpxchg" ->
             Element(r, y, x, LAMBDA k : Swap(r, 4, k, x + 1, Exchanged))
        [] i[1] = "struct.wait" ->
             Deref(r, x, LAMBDA k : Log(Replace(r, 3, IF r.heap[k].fields[i[3]] = w THEN 2 ELSE 1),
                                        <<"wait", x, i[3], w, v>>))
        [] i[1] = "struct.notify" ->
             Deref(r, w, LAMBDA k : Log(Replace(r, 2, 0), <<"notify", w, i[3], v>>))

\* n elements from index at are replaced and depth operands dropped.
Update(r, depth, v, at, n, outside, new(_)) ==
  Deref(r, v, LAMBDA k :
    LET fields == r.heap[k].fields
    IN  IF at + n > Len(fields) THEN TrapWith(r, "ArrayOutOfBounds")
        ELSE IF outside # "" THEN TrapWith(r, outside)
        ELSE [PopN(r, depth) EXCEPT !.heap[k].fields =
                [f \in DOMAIN fields |-> IF f \in (at + 1)..(at + n) THEN new(f - at) ELSE fields[f]]])

\* Elements of a segment; outside says how a range beyond it traps.
FromSegment(r, kind, at, k) ==
  IF IsRef(kind) THEN r.elems[at + k]
  ELSE LET n == Size(kind)
       IN  MapThenSumSet(LAMBDA b : r.data[at + n * (k - 1) + b] * 2^(ByteBits * (b - 1)), 1..n)
Outside(r, kind, at, n) ==
  CASE IsRef(kind) /\ at + n > Len(r.elems) -> "ElementSegmentOutOfBounds"
    [] ~IsRef(kind) /\ at + n * Size(kind) > Len(r.data) -> "MemOutOfBounds"
    [] OTHER -> ""

NewArray(r, depth, type, n, new(_)) ==
  IF n > MaxLength(type) THEN TrapWith(r, "ArrayTooLarge")
  ELSE NewObject(r, depth, type, [f \in 1..n |-> Packed(Kind(type, 1), new(f))])

Array(r, i) ==
  LET v == ValueOf(r, 0)   w == ValueOf(r, 1)   x == ValueOf(r, 2)
      type == i[2]   kind == Kind(type, 1)
  IN  CASE i[1] = "array.new" -> NewArray(r, 2, type, v, LAMBDA f : w)
        [] i[1] = "array.new_default" -> NewArray(r, 1, type, v, LAMBDA f : DefaultOf(kind))
        [] i[1] = "array.new_fixed" ->
             NewObject(r, i[3], type, PackedValues(type, Values(r, i[3])))
        [] i[1] = "array.new_segment" ->
             IF v <= MaxLength(type) /\ Outside(r, kind, w, v) # ""
               THEN TrapWith(r, Outside(r, kind, w, v))
               ELSE NewArray(r, 2, type, v, LAMBDA f : FromSegment(r, kind, w, f))
        [] i[1] = "array.init_segment" ->
             Update(r, 4, ValueOf(r, 3), x, v, Outside(r, kind, w, v), LAMBDA f : FromSegment(r, kind, w, f))
        [] i[1] \in {"array.get", "array.atomic.get"} ->
             Deref(r, w, LAMBDA k :
               IF v >= Len(r.heap[k].fields) THEN TrapWith(r, "ArrayOutOfBounds")
               ELSE Replace(r, 2, Unpack(kind, r.heap[k].fields[v + 1], i[3])))
        [] i[1] \in {"array.set", "array.atomic.set"} ->
             Update(r, 3, x, w, 1, "", LAMBDA f : Packed(kind, v))
        [] i[1] = "array.fill" -> Update(r, 4, ValueOf(r, 3), x, v, "", LAMBDA f : Packed(kind, w))

ArrayCopy(r) ==         \* dst, index, src, index, length
  LET n == ValueOf(r, 0)   at == ValueOf(r, 1)   src == ValueOf(r, 2)
      from == r.heap[Target(src)].fields
  IN  IF IsNull(src) THEN TrapWith(r, "NullDereference")
      ELSE Update(r, 5, ValueOf(r, 4), ValueOf(r, 3), n,
                  IF at + n > Len(from) THEN "ArrayOutOfBounds" ELSE "", LAMBDA f : from[at + f])

---------------------------------------------------------------------------
(* Tables.  Their lengths and indices are numbers of the given kind. *)

\* n elements of a table from at on become new(1), ..., if the range is inside.
Entries(r, depth, table, at, n, outside, new(_)) ==
  LET list == r.tables[table + 1]
  IN  IF at + n > Len(list) THEN TrapWith(r, "TableOutOfBounds")
      ELSE IF outside # "" THEN TrapWith(r, outside)
      ELSE [PopN(r, depth) EXCEPT !.tables[table + 1] =
              [k \in DOMAIN list |-> IF k \in (at + 1)..(at + n) THEN new(k - at) ELSE list[k]]]

TableOp(r, i, address) ==
  LET v == ValueOf(r, 0)   w == ValueOf(r, 1)   x == ValueOf(r, 2)
      list == r.tables[i[2] + 1]
  IN  CASE i[1] = "table.get" ->
             IF v >= Len(list) THEN TrapWith(r, "TableOutOfBounds") ELSE Replace(r, 1, list[v + 1])
        [] i[1] = "table.set" -> Entries(r, 2, i[2], w, 1, "", LAMBDA k : v)
        [] i[1] = "table.fill" -> Entries(r, 3, i[2], x, v, "", LAMBDA k : w)
        [] i[1] = "table.init" ->
             Entries(r, 3, i[2], x, v, Outside(r, "any", w, v), LAMBDA k : r.elems[w + k])
        [] i[1] = "table.copy" ->
             LET from == r.tables[i[3] + 1]
             IN  Entries(r, 3, i[2], x, v, IF w + v > Len(from) THEN "TableOutOfBounds" ELSE "",
                         LAMBDA k : from[w + k])
        [] i[1] = "table.size" -> PushV(r, Len(list))
        [] i[1] = "table.grow" ->
             IF Len(list) + v > MaxTableSize THEN Replace(r, 2, Modulus(address) - 1)
             ELSE [Replace(r, 2, Len(list)) EXCEPT !.tables[i[2] + 1] = @ \o [k \in 1..v |-> w]]
        [] i[1] = "elem.drop" -> [r EXCEPT !.elems = <<>>]

---------------------------------------------------------------------------
(* Strings.  The builtins are the machine's; this tells on which values they are called. *)

\* depth operands give way to the results of the builtin, unless one of refs is null.
Receive(result, depth) == [PopN(result.m, depth) EXCEPT !.vals = @ \o result.got]
Invoke(r, refs, fn, args, depth) ==
  IF \E v \in refs : IsNull(v) THEN TrapWith(r, "NullDereference")
  ELSE Receive(StringBuiltin(r, fn, args), depth)

ViewOp(r, i) ==
  LET v == ValueOf(r, 0)   w == ValueOf(r, 1)   x == ValueOf(r, 2)   y == ValueOf(r, 3)
  IN  CASE i[1] = "view.wtf8_advance" -> Invoke(r, {x}, "view_wtf8_advance", <<x, w, v>>, 3)
        [] i[1] = "view.wtf8_slice" -> Invoke(r, {x}, "view_wtf8_slice", <<x, w, v>>, 3)
        [] i[1] = "view.wtf8_encode" ->
             Invoke(r, {y}, "view_wtf8_encode", <<x, w, v, y, Smi(0), Smi(i[2])>>, 4)
        [] i[1] = "view.wtf16_get_code_unit" -> Invoke(r, {w}, "view_wtf16_get_code_unit", <<w, v>>, 2)
        [] i[1] = "view.wtf16_encode" -> Invoke(r, {y}, "view_wtf16_encode", <<x, w, v, y, Smi(0)>>, 4)
        [] i[1] = "view.wtf16_slice" -> Invoke(r, {x}, "view_wtf16_slice", <<x, w, v>>, 3)
        [] i[1] = "view.iter_next" -> Invoke(r, {v}, "view_iter_next", <<v>>, 1)
        [] i[1] = "view.iter_advance" -> Invoke(r, {w}, "view_iter_advance", <<w, v>>, 2)
        [] i[1] = "view.iter_rewind" -> Invoke(r, {w}, "view_iter_rewind", <<w, v>>, 2)
        [] i[1] = "view.iter_slice" -> Invoke(r, {w}, "view_iter_slice", <<w, v>>, 2)

StringOp(r, i) ==
  LET v == ValueOf(r, 0)   w == ValueOf(r, 1)   x == ValueOf(r, 2)   y == ValueOf(r, 3)
  IN  CASE i[1] = "string.new_wtf8" -> Invoke(r, {}, "string_new_wtf8", <<w, v, 0, Smi(i[2])>>, 2)
        [] i[1] = "string.new_wtf8_array" ->
             Invoke(r, {x}, "string_new_wtf8_array", <<w, v, x, Smi(i[2]), 0>>, 3)
        [] i[1] = "string.new_wtf16" -> Invoke(r, {}, "string_new_wtf16", <<0, w, v>>, 2)
        [] i[1] = "string.new_wtf16_array" -> Invoke(r, {x}, "string_new_wtf16_array", <<x, w, v>>, 3)
        [] i[1] = "string.const" -> Invoke(r, {}, "string_const", <<i[2]>>, 0)
        [] i[1] = "string.from_code_point" -> Invoke(r, {}, "string_from_code_point", <<v, 0>>, 1)
        [] i[1] = "string.concat" -> Invoke(r, {v, w}, "string_concat", <<w, v>>, 2)
        [] i[1] = "string.measure_utf8" -> Invoke(r, {v}, "string_measure_utf8", <<v>>, 1)
        [] i[1] = "string.measure_wtf8" -> Invoke(r, {v}, "string_measure_wtf8", <<v>>, 1)
        [] i[1] = "string.measure_wtf16" ->
             Deref(r, v, LAMBDA k : Replace(r, 1, r.heap[k].fields[1]))
        [] i[1] = "string.is_usv_sequence" -> Invoke(r, {v}, "string_is_usv_sequence", <<v>>, 1)
        [] i[1] = "string.hash" -> Invoke(r, {v}, "string_hash", <<v>>, 1)
        [] i[1] = "string.eq" ->
             IF v = w \/ IsNull(v) \/ IsNull(w) THEN Replace(r, 2, IF v = w THEN 1 ELSE 0)
             ELSE Invoke(r, {}, "string_equal", <<w, v>>, 2)
        [] i[1] = "string.compare" ->
             LET t == Invoke(r, {v, w}, "string_compare", <<w, v>>, 2)
             IN  IF t.out # Running THEN t ELSE Replace(t, 1, IF ValueOf(t, 0) = Smi(1) THEN 1 ELSE Modulus("i32") - 1)
        [] i[1] = "string.encode_wtf8" -> Invoke(r, {w}, "string_encode_wtf8", <<v, 0, i[2], w>>, 2)
        [] i[1] = "string.encode_wtf8_array" ->
             Invoke(r, {w, x}, "string_encode_wtf8_array", <<x, w, v, Smi(i[2])>>, 3)
        [] i[1] = "string.encode_wtf16" -> Invoke(r, {w}, "string_encode_wtf16", <<w, v, 0>>, 2)
        [] i[1] = "string.encode_wtf16_array" ->
             Invoke(r, {w, x}, "string_encode_wtf16_array", <<x, w, v>>, 3)
        [] i[1] = "string.as_wtf8"  -> Invoke(r, {v}, "string_as_wtf8", <<v>>, 1)
        [] i[1] = "string.as_wtf16" -> Invoke(r, {v}, "string_as_wtf16", <<v>>, 1)
        [] i[1] = "string.as_iter"  -> Invoke(r, {v}, "string_as_iter", <<v>>, 1)
        [] OTHER -> ViewOp(r, i)

---------------------------------------------------------------------------
(* Tests and casts; the branches are WasmSemantics'. *)

Convert(r, i) ==
  LET v == ValueOf(r, 0)
  IN  CASE i[1] = "ref.null" -> PushV(r, NullOf(i[2]))
        [] i[1] = "ref.is_null" -> Replace(r, 1, IF IsNull(v) THEN 1 ELSE 0)
        [] i[1] = "ref.as_non_null" -> Deref(r, v, LAMBDA k : r)
        [] i[1] = "ref.eq" -> Replace(r, 2, IF v = ValueOf(r, 1) THEN 1 ELSE 0)
        [] i[1] = "ref.i31" -> Replace(r, 1, Smi(v))
        [] i[1] = "i31.get" ->
             IF IsNull(v) THEN TrapWith(r, "NullDereference")
             ELSE Replace(r, 1, IF i[2] /\ v >= Modulus("i32") \div 2
                                  THEN v \div 2 + Modulus("i32") \div 2 ELSE v \div 2)
        [] i[1] = "ref.test" -> Replace(r, 1, IF HasType(r, v, i[2], i[3]) THEN 1 ELSE 0)
        [] i[1] = "ref.cast" -> IF HasType(r, v, i[2], i[3]) THEN r ELSE TrapWith(r, "IllegalCast")
        [] i[1] = "extern.convert_any" -> Replace(r, 1, IF IsNull(v) THEN JSNull ELSE v)
        [] i[1] = "any.convert_extern" -> Replace(r, 1, IF IsNull(v) THEN WasmNull ELSE v)
        [] i[1] = "array.len" -> Deref(r, v, LAMBDA k : Replace(r, 1, Len(r.heap[k].fields)))
        [] i[1] = "array.copy" -> ArrayCopy(r)

\* Whether a branch on a reference is taken, and whether it keeps the operand when
\* it is taken and when it is not.
RefBranch(r, i) ==
  LET v == ValueOf(r, 0)
      Choice(taken, along, after) == [taken |-> taken, keeps |-> IF taken THEN along ELSE after]
  IN  CASE i[1] = "br_on_null" -> Choice(IsNull(v), FALSE, TRUE)
        [] i[1] = "br_on_non_null" -> Choice(~IsNull(v), TRUE, FALSE)
        [] i[1] = "br_on_cast" -> Choice(HasType(r, v, i[3], i[4]), TRUE, TRUE)
        [] i[1] = "br_on_cast_fail" -> Choice(~HasType(r, v, i[3], i[4]), TRUE, TRUE)

StructOps == {"struct.new", "struct.new_default", "struct.get", "struct.set", "struct.atomic.get",
              "struct.atomic.set"}
ArrayOps == {"array.new", "array.new_default", "array.new_fixed", "array.new_segment",
             "array.init_segment", "array.get", "array.set", "array.atomic.get", "array.atomic.set",
             "array.fill"}
ConvertOps == {"ref.null", "ref.is_null", "ref.as_non_null", "ref.eq", "ref.i31", "i31.get", "ref.test",
               "ref.cast", "extern.convert_any", "any.convert_extern", "array.len", "array.copy"}
ObjectAtomicOps == {"struct.atomic.rmw", "struct.atomic.cmpxchg", "array.atomic.rmw",
                    "array.atomic.cmpxchg", "struct.wait", "struct.notify"}
TableOps == {"table.get", "table.set", "table.fill", "table.init", "table.copy", "table.size",
             "table.grow", "elem.drop"}
StringOps ==
  {"string.new_wtf8", "string.new_wtf8_array", "string.new_wtf16", "string.new_wtf16_array", "string.const",
   "string.from_code_point", "string.concat", "string.measure_utf8", "string.measure_wtf8",
   "string.measure_wtf16", "string.is_usv_sequence", "string.hash", "string.eq", "string.compare",
   "string.encode_wtf8", "string.encode_wtf8_array", "string.encode_wtf16", "string.encode_wtf16_array",
   "string.as_wtf8", "string.as_wtf16", "string.as_iter", "view.wtf8_advance", "view.wtf8_slice",
   "view.wtf8_encode", "view.wtf16_get_code_unit", "view.wtf16_encode", "view.wtf16_slice",
   "view.iter_next", "view.iter_advance", "view.iter_rewind", "view.iter_slice"}
BranchOps == {"br_on_null", "br_on_non_null", "br_on_cast", "br_on_cast_fail"}

=============================================================================
