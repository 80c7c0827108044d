------------------------------ MODULE WasmObjects ------------------------------
(***************************************************************************)
(* The references of a machine, the objects they point to, and the         *)
(* instructions that read and write objects.  The heap and the maps belong *)
(* to the garbage collector and are not in the repository; they are        *)
(* modelled from how liftoff-compiler.cc uses them.                        *)
(*                                                                         *)
(* Types describes the struct and array types of the module that is        *)
(* compiled:  a record per type with its number, its shape ("struct",       *)
(* "array" or "func"), its supertype or "", the kinds of its fields (an     *)
(* array has one) and whether it is final.                                 *)
(*                                                                         *)
(* The heap is a sequence of objects, each with its type and the values of *)
(* its fields; old is the set of those in the old generation.  A reference *)
(* is a number:  an i31 is even, an object odd.  The null of Wasm types is *)
(* an object on a page that cannot be accessed beyond its map, the null of *)
(* extern types is one of JavaScript's.                                    *)
(***************************************************************************)
EXTENDS LiftoffAssembler, WasmNumerics

CONSTANT Types

Running == <<"running">>
Wild    == <<"wild">>             \* an access beyond memory and guard regions
Junk    == 1000                   \* what a call leaves in a register
Trapped(reason) == <<"trap", reason>>

ByteBits == Width \div 2          \* an i32 has two bytes, an i64 four
ByteBase == 2^ByteBits
Bytes(kind) == Bits(kind) \div ByteBits
SignExtend(from, n) == IF n < 2^(from - 1) THEN n ELSE n - 2^from

SetReg(m, r, n) == [m EXCEPT !.regs[r] = n]
Stop(m, out) == [m EXCEPT !.out = out]
Log(m, event) == [m EXCEPT !.events = Append(@, event)]

---------------------------------------------------------------------------
(* Types.  A heap type is a type of the module or generic; as a value type *)
(* it allows null, Ref of it does not.                                     *)

Generic == {"any", "eq", "i31", "struct", "array", "string", "none", "extern", "func"}
HeapTypes == DOMAIN Types \cup Generic
Ref(heap) == "ref " \o heap
RefTypes == HeapTypes \cup {Ref(h) : h \in HeapTypes}

HeapOf(type) == CHOOSE h \in HeapTypes : type \in {h, Ref(h)}
IsRef(type) == type \in RefTypes
IsNullable(type) == type \in HeapTypes

RECURSIVE Ancestors(_)
\* The supertypes of a type, the root first.
Ancestors(t) == IF Types[t].super = "" THEN <<>> ELSE Append(Ancestors(Types[t].super), Types[t].super)
Depth(t) == Len(Ancestors(t))
IsDefined(h) == h \in DOMAIN Types

Over(h) ==      \* the generic types above a heap type
  CASE h \in {"any", "extern", "func"} -> {}
    [] h \in {"eq", "string"} -> {"any"}
    [] h \in {"i31", "struct", "array"} -> {"eq", "any"}
    [] h = "none" -> HeapTypes \ {"extern", "func"}
    [] IsDefined(h) /\ Types[h].shape = "func" -> {"func"}
    [] OTHER -> {Types[h].shape, "eq", "any"}
IsHeapSubtype(h, g) ==
  h = g \/ g \in Over(h) \/ (IsDefined(h) /\ g \in Range(Ancestors(h)))
IsSubtype(t, u) ==
  \/ t = u
  \/ IsRef(t) /\ IsRef(u) /\ IsHeapSubtype(HeapOf(t), HeapOf(u)) /\ (IsNullable(t) => IsNullable(u))

\* Packed kinds exist in objects only.
Unpacked(kind) == IF kind = "i8" THEN "i32" ELSE kind
SizeLog2(kind) == CASE kind = "i8" -> 0 [] kind = "i64" -> 2 [] OTHER -> 1
Size(kind) == 2^SizeLog2(kind)

\* An array has at most this many elements, so that its size fits in 32 bits.
MaxLength(type) == (2^Width - 4) \div Size(Types[type].fields[1])

---------------------------------------------------------------------------
(* References. *)

WasmNull == 1
JSNull == Modulus("i64") - 1
UseWasmNull(type) == HeapOf(type) # "extern"
NullOf(type) == IF UseWasmNull(type) THEN WasmNull ELSE JSNull

IsSmi(v) == v % 2 = 0
Smi(n)   == Wrap("i32", 2 * n)
Pointer(k) == 2 * k + 1
Target(v) == v \div 2
IsObject(heap, v) == ~IsSmi(v) /\ Target(v) \in DOMAIN heap
DefaultOf(kind) == IF IsRef(kind) THEN NullOf(kind) ELSE 0

---------------------------------------------------------------------------
(* Maps.  The map of a type is its number.                                 *)

JSMaps == [host |-> 50, string |-> 51, null |-> 52]
MapOf(t) == IF IsDefined(t) THEN Types[t].id ELSE JSMaps[t]
IsWasmMap(map) == map \notin Range(JSMaps)
TypeOf(map) == CHOOSE t \in DOMAIN Types : Types[t].id = map

FirstWasmObject == 8              \* FIRST_WASM_OBJECT_TYPE; strings are below FirstNonstring
LastWasmObject == 9
FirstNonstring == 4
WasmArrayType == 8
WasmStructType == 9
InstanceType(map) ==
  CASE map = MapOf("string") -> 2 [] map = MapOf("null") -> 5 [] map = MapOf("host") -> 12
    [] OTHER -> IF Types[TypeOf(map)].shape = "array" THEN WasmArrayType ELSE WasmStructType

\* The list of the supertypes of a map is padded.
MinimumSupertypeArraySize == 3
SupertypesLength(map) == Max({Depth(TypeOf(map)), MinimumSupertypeArraySize})

LoadMap(m, dst, v) ==
  CASE v \in {WasmNull, JSNull} -> SetReg(m, dst, MapOf("null"))
    [] IsObject(m.heap, v) -> SetReg(m, dst, MapOf(m.heap[Target(v)].type))
    [] OTHER -> Stop(m, Wild)

\* Only the map of a Wasm object has a list of supertypes.
LoadSupertype(m, dst, map, depth) ==
  LET list == Ancestors(TypeOf(map))
  IN  IF ~IsWasmMap(map) \/ depth >= SupertypesLength(map) THEN Stop(m, Wild)
      ELSE SetReg(m, dst, IF depth < Len(list) THEN MapOf(list[depth + 1]) ELSE 0)
LoadSupertypesLength(m, dst, map) ==
  IF ~IsWasmMap(map) THEN Stop(m, Wild) ELSE SetReg(m, dst, SupertypesLength(map))

---------------------------------------------------------------------------
(* Objects. *)

\* The fields of an object follow each other; the first ones of a null fault.
MaxFieldForImplicitNullCheck == 1
Faults(v, at, trapping) == v = WasmNull /\ trapping /\ at <= MaxFieldForImplicitNullCheck

\* Which field an access means: field at of a struct, or the element of an array that
\* is index bytes away.
FieldOf(m, index, at, kind) ==
  IF index = 0 THEN at
  ELSE IF m.regs[index] % Size(kind) # 0 THEN 0 ELSE 1 + m.regs[index] \div Size(kind)

\* An atomic access of 64 bits cannot be made to a null.
Touch(m, v, field, kind, trapping, atomic, Do(_)) ==
  CASE Faults(v, field, trapping) /\ ~(atomic /\ kind = "i64") -> Stop(m, Trapped("NullDereference"))
    [] IsObject(m.heap, v) /\ field \in DOMAIN m.heap[Target(v)].fields -> Do(Target(v))
    [] OTHER -> Stop(m, Wild)

GetField(m, i) ==           \* dst, obj, index, at, kind, signed, trapping, atomic
  LET field == FieldOf(m, i[4], i[5], i[6])
      Extended(v) == IF i[6] = "i8" /\ i[7] THEN Wrap("i32", SignExtend(ByteBits, v)) ELSE v
  IN  Touch(m, m.regs[i[3]], field, i[6], i[8], i[9], LAMBDA k :
        SetReg(m, i[2], Extended(m.heap[k].fields[field])))

\* The collector must be told of an object that goes into one in the old generation.
SetField(m, i) ==           \* obj, index, at, value, kind, trapping, barrier, atomic
  LET field == FieldOf(m, i[3], i[4], i[6])
      v == m.regs[i[5]]
      stored == IF i[6] = "i8" THEN v % ByteBase ELSE v
  IN  Touch(m, m.regs[i[2]], field, i[6], i[7], i[9], LAMBDA k :
        IF IsRef(i[6]) /\ ~i[8] /\ k \in m.old /\ IsObject(m.heap, v) THEN Stop(m, Wild)
        ELSE [m EXCEPT !.heap[k].fields[field] = stored])

\* An atomic read-modify-write returns what it read.  For an array the object and the
\* element are found as for a plain access.
UpdateField(m, dst, obj, field, kind, trapping, new(_)) ==
  Touch(m, m.regs[obj], field, kind, trapping, TRUE, LAMBDA k :
    LET old == m.heap[k].fields[field]
    IN  SetReg([m EXCEPT !.heap[k].fields[field] = new(old)], dst, old))

GetLength(m, i) ==          \* dst, obj, trapping
  LET v == m.regs[i[3]]
  IN  IF IsObject(m.heap, v) THEN SetReg(m, i[2], Len(m.heap[Target(v)].fields))
      ELSE Stop(m, IF Faults(v, 0, i[4]) THEN Trapped("NullDereference") ELSE Wild)

\* A new object, its fields not yet written.
Allocate(m, type, n, old) ==
  LET k == Len(m.heap) + 1
  IN  [m EXCEPT !.heap = Append(@, [type |-> type, fields |-> [f \in 1..n |-> Junk]]),
                !.old = IF old THEN @ \cup {k} ELSE @]
---------------------------------------------------------------------------
(* Builtins; each returns the machine after it and what it returned.       *)

Result(m, n) == [m |-> m, got |-> <<n>>]
TrapResult(m, reason) == Result(Stop(m, Trapped(reason)), 0)

New(m, type, n, old) ==
  Result(Allocate(m, type, n, old), Pointer(Len(m.heap) + 1))

\* The fields from at on become values.
Overwrite(m, k, at, values) ==
  [m EXCEPT !.heap[k].fields = [f \in DOMAIN @ |->
     IF f - at \in DOMAIN values THEN values[f - at] ELSE @[f]]]
Fits(at, n, length) == at + n <= length
Part(list, at, n) == SubSeq(list, at + 1, at + n)

\* Ranges of one array that overlap are moved, so every element is read before it is
\* overwritten.
array_copy_wrapper(m, dst_at, src_at, n, dst, src) ==
  Overwrite(m, Target(dst), dst_at, Part(m.heap[Target(src)].fields, src_at, n))
array_copy(m, dst_at, src_at, n, dst, src) ==
  LET Outside(array, at) == ~Fits(at, n, Len(m.heap[Target(array)].fields))
  IN  IF WasmNull \in {dst, src} THEN TrapResult(m, "NullDereference")
      ELSE IF Outside(dst, dst_at) \/ Outside(src, src_at) THEN TrapResult(m, "ArrayOutOfBounds")
      ELSE Result(array_copy_wrapper(m, dst_at, src_at, n, dst, src), 0)

\* There is one data and one element segment; elements of a data segment are bytes,
\* the first the lowest.
Segment(m, kind, at, n) ==
  LET unit == Size(kind)
      Element(k) == MapThenSumSet(LAMBDA b : m.data[at + unit * (k - 1) + b + 1] * ByteBase^b, 0..(unit - 1))
  IN  IF IsRef(kind) THEN Part(m.elems, at, n) ELSE [k \in 1..n |-> Element(k)]
SegmentFits(m, kind, at, n) ==
  IF IsRef(kind) THEN Fits(at, n, Len(m.elems)) ELSE Fits(at, n * Size(kind), Len(m.data))
SegmentOutOfBounds(kind) == IF IsRef(kind) THEN "ElementSegmentOutOfBounds" ELSE "MemOutOfBounds"

array_new_segment(m, type, at, n, old) ==
  LET kind == Types[type].fields[1]
      t    == New(m, type, n, old)
  IN  IF n > MaxLength(type) THEN TrapResult(m, "ArrayTooLarge")
      ELSE IF ~SegmentFits(m, kind, at, n) THEN TrapResult(m, SegmentOutOfBounds(kind))
      ELSE [t EXCEPT !.m = Overwrite(@, Len(@.heap), 0, Segment(m, kind, at, n))]

array_init_segment(m, index, at, n, v) ==
  LET kind == Types[m.heap[Target(v)].type].fields[1]
  IN  IF v = WasmNull THEN TrapResult(m, "NullDereference")
      ELSE IF ~Fits(index, n, Len(m.heap[Target(v)].fields)) THEN TrapResult(m, "ArrayOutOfBounds")
      ELSE IF ~SegmentFits(m, kind, at, n) THEN TrapResult(m, SegmentOutOfBounds(kind))
      ELSE Result(Overwrite(m, Target(v), index, Segment(m, kind, at, n)), 0)

any_convert_extern(v) == IF v = JSNull THEN WasmNull ELSE v

\* Tables are sequences of references; a builtin is given the number of one.
MaxTableSize == 4
Table(m, table) == m.tables[table + 1]
SetElements(m, table, at, values) ==
  [m EXCEPT !.tables[table + 1] = [k \in DOMAIN @ |->
     IF k - at \in DOMAIN values THEN values[k - at] ELSE @[k]]]
InTable(m, table, at, n, Then) ==
  IF Fits(at, n, Len(Table(m, table))) THEN Then ELSE TrapResult(m, "TableOutOfBounds")
FromSmi(v) == v \div 2

table_get(m, table, at) == InTable(m, table, at, 1, Result(m, Table(m, table)[at + 1]))
table_set(m, table, at, v) == InTable(m, table, at, 1, Result(SetElements(m, table, at, <<v>>), 0))
table_fill(m, table, at, n, v) ==
  InTable(m, table, at, n, Result(SetElements(m, table, at, [k \in 1..n |-> v]), 0))
table_init(m, table, dst, src, n) ==
  InTable(m, table, dst, n,
    IF ~Fits(src, n, Len(m.elems)) THEN TrapResult(m, "ElementSegmentOutOfBounds")
    ELSE Result(SetElements(m, table, dst, Part(m.elems, src, n)), 0))
table_copy(m, to, dst, from, src, n) ==
  InTable(m, to, dst, n, InTable(m, from, src, n,
    Result(SetElements(m, to, dst, Part(Table(m, from), src, n)), 0)))
table_grow(m, table, n, v) ==
  LET size == Len(Table(m, table))
  IN  IF size + n > MaxTableSize THEN Result(m, Smi(-1))
      ELSE Result([m EXCEPT !.tables[table + 1] = @ \o [k \in 1..n |-> v]], Smi(size))

TableBuiltins == {"table_get", "table_set", "table_fill", "table_init", "table_copy", "table_grow"}
TableBuiltin(m, fn, a) ==
  CASE fn = "table_get" -> table_get(m, a[1], a[2])
    [] fn = "table_set" -> table_set(m, a[1], a[3], a[4])
    [] fn = "table_fill" -> table_fill(m, FromSmi(a[4]), a[1], a[2], a[5])
    [] fn = "table_init" -> table_init(m, FromSmi(a[4]), a[1], a[2], a[3])
    [] fn = "table_copy" -> table_copy(m, FromSmi(a[4]), a[1], FromSmi(a[5]), a[2], a[3])
    [] fn = "table_grow" -> table_grow(m, FromSmi(a[1]), a[2], a[4])

\* Nobody else waits in these runs.
managed_wait(m, v, field, expected, timeout) ==
  IF v = WasmNull THEN TrapResult(m, "NullDereference")
  ELSE Result(Log(m, <<"wait", v, field, expected, timeout>>),
              IF m.heap[Target(v)].fields[field] = expected THEN 2 ELSE 1)
managed_notify(m, v, field, count) == Result(Log(m, <<"notify", v, field, count>>), 0)

\* What the builtins for strings do is left open:  the model tells how they are called, and
\* what they return depends on that.  Of a string there is its length.
NewStrings == {"string_new_wtf8", "string_new_wtf8_array", "string_new_wtf16", "string_new_wtf16_array",
               "string_const", "string_from_code_point", "string_concat", "string_as_wtf8",
               "string_as_wtf16", "string_as_iter", "view_wtf8_slice", "view_wtf16_slice",
               "view_iter_slice"}
StringBuiltins ==
  NewStrings \cup
  {"string_measure_utf8", "string_measure_wtf8", "string_is_usv_sequence", "string_hash", "string_equal",
   "string_compare", "string_encode_wtf8", "string_encode_wtf8_array", "string_encode_wtf16",
   "string_encode_wtf16_array", "view_wtf8_advance", "view_wtf8_encode", "view_wtf16_get_code_unit",
   "view_wtf16_encode", "view_iter_next", "view_iter_advance", "view_iter_rewind"}

StringBuiltin(m, fn, a) ==
  LET n == Wrap("i32", 1 + FoldLeft(LAMBDA x, y : x + y, 0, a))
      t == Log(m, <<"string", fn, a>>)
      LengthOf(v) == m.heap[Target(v)].fields[1]
  IN  CASE fn \in NewStrings ->
             Result([t EXCEPT !.heap = Append(@, [type |-> "string", fields |-> <<n>>])],
                    Pointer(Len(m.heap) + 1))
        [] fn = "string_equal" -> Result(t, IF LengthOf(a[1]) = LengthOf(a[2]) THEN 1 ELSE 0)
        [] fn = "string_compare" -> Result(t, Smi(IF LengthOf(a[1]) < LengthOf(a[2]) THEN -1 ELSE 1))
        [] fn = "view_wtf8_encode" -> [m |-> t, got |-> <<n, Wrap("i32", n + 1)>>]
        [] OTHER -> Result(t, n)

ObjectBuiltins == {"allocate_struct", "allocate_array", "array_copy", "array_new_segment",
                   "array_init_segment", "any_convert_extern", "managed_wait", "managed_notify"}

\* The number of fields that is asked for is the one of the type.
ObjectBuiltin(m, fn, a, old) ==
  CASE fn = "allocate_struct" -> New(m, TypeOf(a[1]), a[2], old)
    [] fn = "allocate_array" ->
         IF a[3] # Size(Types[TypeOf(a[1])].fields[1]) THEN Result(Stop(m, Wild), 0)
         ELSE New(m, TypeOf(a[1]), a[2], old)
    [] fn = "array_copy" -> array_copy(m, a[1], a[2], a[3], a[4], a[5])
    [] fn = "array_new_segment" ->
         IF a[3] # Smi(IF IsRef(Types[TypeOf(a[5])].fields[1]) THEN 1 ELSE 0) \/ a[4] # Smi(0)
           THEN Result(Stop(m, Wild), 0)
         ELSE array_new_segment(m, TypeOf(a[5]), a[1], a[2], old)
    [] fn = "array_init_segment" -> array_init_segment(m, a[1], a[2], a[3], a[7])
    [] fn = "any_convert_extern" -> Result(m, any_convert_extern(a[1]))
    [] fn = "managed_wait" -> managed_wait(m, a[1], a[2], a[3], a[4])
    [] fn = "managed_notify" -> managed_notify(m, a[1], a[2], a[3])

---------------------------------------------------------------------------
(* Instructions. *)

ObjectInstructions == {"getfield", "setfield", "length", "word", "rtt", "map", "instancetype",
                       "supertype", "supertypeslength", "jumpsmi", "tablelength", "elemdrop"}

ObjectInstruction(m, i, labels) ==
  CASE i[1] = "getfield" -> GetField(m, i)
    [] i[1] = "setfield" -> SetField(m, i)
    [] i[1] = "length"   -> GetLength(m, i)
    [] i[1] = "word" ->         \* a word of the object, to see whether it can be read
         IF m.regs[i[3]] = WasmNull THEN Stop(m, Trapped("NullDereference"))
         ELSE IF IsObject(m.heap, m.regs[i[3]]) THEN SetReg(m, i[2], Junk) ELSE Stop(m, Wild)
    [] i[1] = "rtt" -> SetReg(m, i[2], i[3])
    [] i[1] = "map" -> LoadMap(m, i[2], m.regs[i[3]])
    [] i[1] = "instancetype" -> SetReg(m, i[2], InstanceType(m.regs[i[3]]))
    [] i[1] = "supertypeslength" -> LoadSupertypesLength(m, i[2], m.regs[i[3]])
    [] i[1] = "supertype" -> LoadSupertype(m, i[2], m.regs[i[3]], i[4])
    [] i[1] = "tablelength" -> SetReg(m, i[2], Smi(Len(Table(m, i[3]))))
    [] i[1] = "elemdrop" -> [m EXCEPT !.elems = <<>>]
    [] i[1] = "jumpsmi" -> IF IsSmi(m.regs[i[3]]) = i[2] THEN [m EXCEPT !.pc = labels[i[4]]] ELSE m
=============================================================================
