------------------------------ MODULE MCLiftoff ------------------------------
(***************************************************************************)
(* Lessons for LiftoffDecoder:  environments and families of functions,    *)
(* each small enough to compile and run every member.  An i32 has 4 bits   *)
(* and two bytes, an i64 8 bits and four bytes, a page two bytes.          *)
(***************************************************************************)
EXTENDS LiftoffDecoder, LiftoffCompiler

\* The first table may have grown, the others cannot; only the second has no nulls.
DispatchTables ==
  << [type |-> "func", min |-> 3, max |-> -1, entries |-> <<3, 0, 5, 2>>],
     [type |-> Ref("G0"), min |-> 3, max |-> 3, entries |-> <<1, 3, 4>>],
     [type |-> "G0", min |-> 2, max |-> 4, entries |-> <<5, 0, 4>>] >>

Plain ==
  [memory64 |-> FALSE, shared |-> TRUE, tsan |-> TRUE, bounds |-> "trap", min |-> 4, max |-> 8,
   native |-> FALSE, noops |-> TRUE, debug |-> FALSE, tiering |-> FALSE, imported |-> FALSE,
   nulls |-> "trap", old |-> FALSE, results |-> 1, dispatch |-> DispatchTables, inlining |-> "none"]
Explicit == [Plain EXCEPT !.bounds = "explicit", !.debug = TRUE, !.nulls = "explicit", !.old = TRUE]
Partial  == [Plain EXCEPT !.noops = FALSE, !.shared = FALSE, !.native = TRUE]
Wide     == [Plain EXCEPT !.memory64 = TRUE]
WideExplicit == [Wide EXCEPT !.bounds = "explicit", !.tsan = FALSE]
Tiering  == [Plain EXCEPT !.tiering = TRUE, !.imported = TRUE]

Environments == {Plain, Explicit, Partial, Wide, WideExplicit}

---------------------------------------------------------------------------
(* Types and objects.  S3 is three below S0, so its depth is beyond what the lists of     *)
(* supertypes always have.                                                 *)

Type(id, shape, super, fields, final) ==
  [id |-> id, shape |-> shape, super |-> super, fields |-> fields, final |-> final]
Func(id, super, params, results, final) ==
  [results |-> results] @@ Type(id, "func", super, params, final)
ModuleTypes ==
  [S0 |-> Type(10, "struct", "", <<"i64", "i32">>, FALSE),
   S1 |-> Type(11, "struct", "S0", <<"i64", "i32", "i8">>, FALSE),
   S2 |-> Type(12, "struct", "S1", <<"i64", "i32", "i8">>, FALSE),
   S3 |-> Type(13, "struct", "S2", <<"i64", "i32", "i8", "any">>, FALSE),
   F  |-> Type(14, "struct", "S0", <<"i64", "i32", "any">>, TRUE),
   V  |-> Type(15, "array", "", <<"i32">>, FALSE),
   B  |-> Type(16, "array", "", <<"i8">>, FALSE),
   R  |-> Type(17, "array", "", <<"any">>, FALSE),
   A  |-> Type(18, "struct", "", <<"i32", "i64", "eq">>, FALSE),
   W  |-> Type(19, "array", "", <<"i64">>, FALSE),
   Q  |-> Type(20, "array", "", <<"eq">>, FALSE),
   G0 |-> Func(1, "", <<"i32">>, <<"i32">>, FALSE),
   G1 |-> Func(2, "G0", <<"i32">>, <<"i32">>, FALSE),
   G2 |-> Func(3, "G1", <<"i32">>, <<"i32">>, FALSE),
   G3 |-> Func(4, "G2", <<"i32">>, <<"i32">>, FALSE),
   H  |-> Func(5, "", <<"i64", "i32">>, <<"i32", "i64">>, TRUE)]

ModuleFunctions ==
  << [sig |-> "G0", imported |-> TRUE],
     [sig |-> "H", imported |-> TRUE],
     [sig |-> "G0", imported |-> FALSE],
     [sig |-> "G1", imported |-> FALSE],
     [sig |-> "G3", imported |-> FALSE] >>

Heap ==
  << [type |-> "S0", fields |-> <<100, 3>>],
     [type |-> "S1", fields |-> <<101, 4, 2>>],
     [type |-> "S3", fields |-> <<102, 5, 3, WasmNull>>],
     [type |-> "F", fields |-> <<103, 6, 2>>],
     [type |-> "V", fields |-> <<7, 8, 9>>],
     [type |-> "B", fields |-> <<0, 1, 2, 3>>],
     [type |-> "R", fields |-> <<WasmNull, Pointer(1)>>],
     [type |-> "host", fields |-> <<>>],
     [type |-> "string", fields |-> <<3>>],
     [type |-> "A", fields |-> <<5, 104, Pointer(1)>>],
     [type |-> "W", fields |-> <<105, 106>>],
     [type |-> "Q", fields |-> <<WasmNull, Pointer(1)>>],
     [type |-> "string", fields |-> <<3>>],
     [type |-> "string", fields |-> <<5>>],
     [type |-> "G0", fields |-> <<1>>],
     [type |-> "H", fields |-> <<2>>],
     [type |-> "G0", fields |-> <<3>>],
     [type |-> "G1", fields |-> <<4>>],
     [type |-> "G3", fields |-> <<5>>] >>
\* No function is an eqref or anyref.
Objects == {Pointer(k) : k \in {k \in DOMAIN Heap : Heap[k].type \notin {"G0", "G1", "G3", "H"}}}

---------------------------------------------------------------------------
(* Instructions. *)

Get(k) == <<"local.get", k>>
Set(k) == <<"local.set", k>>
Tee(k) == <<"local.tee", k>>
I32(n) == <<"const", "i32", n>>
I64(n) == <<"const", "i64", n>>
Op(fn, kind) == <<"binop", fn, kind>>
End == <<"end">>
Gets(n) == {Get(k) : k \in 1..n}
IndexKind(e) == AddressKind(e)

Compares == {"eq", "ne", "lt_s", "gt_s", "le_s", "ge_s", "lt_u", "gt_u", "le_u", "ge_u"}
Arithmetic == {"add", "sub", "mul", "and", "or", "xor", "shl", "shr", "sar"}

Lesson(e, registers, params, locals, results, ops, inputs) ==
  [env |-> [e EXCEPT !.results = Len(results)], registers |-> registers, params |-> params,
   locals |-> locals, results |-> results, block |-> "i32", heap |-> Heap, elems |-> <<WasmNull, 6>>,
   tables |-> << <<Pointer(1), WasmNull>>, <<4, Pointer(3), Pointer(2)>> >>,
   ops |-> ops, inputs |-> inputs]

Inputs(values, sizes) == {[params |-> v, size |-> z] : v \in values, z \in sizes}

---------------------------------------------------------------------------
(* Families. *)

\* Locals and operands that share few registers.
Sharing ==
  LET any == Gets(2) \cup {Set(1), Tee(2), Set(3), I32(5), <<"drop">>, Op("sub", "i32")}
  IN  {Lesson(e, n, <<"i32", "i32">>, locals, <<"i32">>,
              <<Gets(2), any, any, any, {Get(1), Get(3), Op("sub", "i32"), <<"drop">>},
                {End, Op("add", "i32")}, {End}>>,
              Inputs({<<6, 11>>}, {4})) : e \in {Plain, Explicit}, n \in {3}, locals \in {<<"i32">>, <<"f32">>}}

Numbers ==
  {Lesson(e, 4, <<kind, kind>>, <<>>, <<result>>,
          <<{Get(1)}, {Get(2), <<"const", kind, 3>>},
            {Op(fn, kind) : fn \in fns}, {End}>>,
          Inputs({<<0, 0>>, <<1, 7>>, <<7, 1>>, <<9, 14>>}, {4})) :
     e \in {Plain}, kind \in {"i32", "i64"}, result \in {"i32", "i64"}, fns \in {Compares \cup Arithmetic}}
  \cup
  {Lesson(e, 3, <<kind, kind>>, <<>>, <<kind>>,
          <<{Get(1)}, {Get(2)},
            {<<"divide", fn, kind>> : fn \in {"div_s", "div_u", "rem_s", "rem_u"}}
               \cup {<<"rotate", fn, kind>> : fn \in {"rol", "ror"}}, {Get(2), End}, {Op("xor", kind)}, {End}>>,
          Inputs({<<5, 0>>, <<Modulus(kind) \div 2, Modulus(kind) - 1>>, <<11, 2>>, <<13, 4>>}, {4})) :
     e \in {Plain, Partial, Explicit}, kind \in {"i32", "i64"}}
  \cup
  {Lesson(e, 3, <<"i32", "i64">>, <<>>, <<result>>,
          <<Gets(2), {<<"unop", "wrap", "i64">>, <<"unop", "sext", "i32">>, <<"unop", "uext", "i32">>}
             \cup {<<"unop", fn, kind>> : fn \in {"clz", "ctz", "popcnt", "extend8", "eqz"},
                                          kind \in {"i32", "i64"}}, {End}>>,
          Inputs({<<0, 0>>, <<9, 200>>, <<6, 18>>}, {4})) :
     e \in {Plain, Partial}, result \in {"i32", "i64"}}

Floats ==
  {Lesson(e, 3, <<kind>>, <<>>, <<"f32">>,
          <<{Get(1)}, {<<"unop", "convert_s", kind>>, <<"unop", "convert_u", kind>>}, {End}>>,
          Inputs({<<n>> : n \in {0, 1, 7, 8, 11} \cup {v \in {37, 83, 128, 173, 251, 255} : kind = "i64"}}, {4})) :
     e \in {Plain, Partial}, kind \in {"i32", "i64"}}
  \cup
  {Lesson(e, 3, <<"f32">>, <<>>, <<kind>>,
          <<{Get(1)}, {<<"truncate", kind, signed, saturate>> : signed, saturate \in BOOLEAN}, {End}>>,
          Inputs({<<f>> : f \in {-1, -2, -3, 0, 5, 14, 15, 16, 30, 31, 32, -16, -17, -18,
                                 254, 256, 511, 512, -256, -258, Infinity, -Infinity, NaN}}, {4})) :
     e \in {Plain, Partial}, kind \in {"i32", "i64"}}

Rounding ==
  {Lesson(e, 3, <<"f32">>, <<>>, <<"f32">>,
          <<{Get(1)}, {<<"unop", fn, "f32">> : fn \in Roundings}, {End}>>,
          Inputs({<<f>> : f \in (-5)..5 \cup {Infinity, -Infinity, NaN}}, {4})) : e \in {Plain, Partial}}

Memories ==
  {Lesson(e, 6, <<IndexKind(e), "i32">>, <<>>, <<"i32">>,
          <<{Get(1), <<"const", IndexKind(e), 2>>, <<"const", IndexKind(e), -1>>},
            {<<"load", "i32", size, from, offset>> : size \in 1..2, from \in {0}, offset \in {0, 1, 3}}
              \cup {<<"load", "i32", 1, 2, 1>>},
            {End, Get(1)},
            {<<"load", "i32", 2, 0, 0>>}, {Op("add", "i32")}, {End}>>,
          Inputs({<<a, 9>> : a \in {0, 1, 3, 5, 15}}, {4, 6})) : e \in Environments}
  \cup
  {Lesson(e, 6, <<IndexKind(e), "i32">>, <<>>, <<"i32">>,
          <<{Get(1), <<"const", IndexKind(e), 2>>}, {Get(2), I32(6)},
            {<<"store", "i32", size, offset>> : size \in 1..2, offset \in {0, 1, 3}},
            {Get(1)}, {<<"load", "i32", 1, 0, 0>>}, {End}>>,
          Inputs({<<a, 9>> : a \in {0, 1, 3, 5, 15}}, {4, 6})) : e \in Environments}

\* A vector is loaded and one of its lanes stored again.
Vectors ==
  {Lesson(e, n, <<IndexKind(e), "s128">>, <<>>, <<"s128">>,
          <<{Get(1), <<"const", IndexKind(e), 1>>},
            {<<"load.transform", t, size, offset>> : t \in {"zero", "splat"}, size \in {1, 2, 4}, offset \in {0, 1}}
              \cup {<<"load.transform", t, size, 1>> : t \in {"extend_s", "extend_u"}, size \in {1, 2}}
              \cup {Get(2)},
            {End, <<"load.lane", 1, 5, 0>>, <<"load.lane", 2, 3, 1>>, <<"load.lane", 4, 0, 0>>,
             <<"store.lane", 1, 7, 0>>, <<"store.lane", 2, 1, 1>>, <<"store.lane", 4, 1, 0>>},
            {Get(2), End}, {End}>>,
          Inputs({<<a, 37291>> : a \in {0, 1, 4, 5, 15}}, {4, 6})) : e \in Environments, n \in {4}}

Atomics ==
  {Lesson(e, 7, <<IndexKind(e), "i32">>, <<>>, <<"i32">>,
          <<{Get(1), <<"const", IndexKind(e), 2>>, <<"const", IndexKind(e), 1>>},
            {<<"atomic.load", "i32", size, 0, offset>> : size \in 1..2, offset \in {0, 1}}
              \cup {Get(2), I32(2)},
            {<<"atomic.rmw", fn, "i32", 2, 0>> : fn \in {"add", "xchg"}}
              \cup {<<"atomic.store", "i32", 2, 1>>, <<"atomic.notify", 1>>, Get(2), End},
            {<<"atomic.cmpxchg", "i32", 2, 0>>, Get(2), End}, {End}>>,
          Inputs({<<a, 4>> : a \in {0, 1, 2, 3, 15}}, {4, 6})) : e \in Environments}
  \cup
  {Lesson(e, 6, <<IndexKind(e), kind, "i64">>, <<>>, <<"i32">>,
          <<{Get(1), <<"const", IndexKind(e), 0>>}, {Get(2)}, {Get(3), I64(-1)},
            {<<"atomic.wait", kind, offset>> : offset \in {0, 2}}, {End}>>,
          Inputs({<<a, 4, 9>> : a \in {0, 2, 15}}, {4, 8})) : e \in Environments, kind \in {"i32", "i64"}}

Ranges ==
  {Lesson(e, n, <<IndexKind(e), IndexKind(e), "i32">>, <<>>, <<"i32">>,
          <<{Get(1), <<"const", IndexKind(e), 1>>}, {Get(2), Get(3), I32(0)},
            {Get(1), Get(2), Get(3), I32(1), <<"const", IndexKind(e), -1>>},
            {<<"memory.copy">>, <<"memory.fill">>, <<"memory.init">>}, {<<"data.drop">>, Get(3)}, {Get(3), End}, {End}>>,
          Inputs({<<a, b, 3>> : a \in {0, 1, 5}, b \in {2, 15}}, {6})) :
     e \in {Plain, Wide, Explicit}, n \in {4, 6}}

Growth ==
  {Lesson(e, n, <<IndexKind(e), IndexKind(e)>>, <<"i32">>, <<"i32">>,
          <<{Get(2)}, {<<"load", "i32", 1, 0, 0>>}, {Set(3)}, {Get(1)},
            {<<"memory.grow">>}, {<<"drop">>}, {Get(2)}, {<<"load", "i32", 1, 0, 0>>},
            {Get(3), End}, {Op("sub", "i32")}, {End}>>,
          Inputs({<<a, b>> : a \in {0, 1, 9}, b \in {1, 5}} \cup {<<Modulus(IndexKind(e)) - 1, 1>>}, {4})) :
     e \in Environments, n \in {4}}
  \cup
  {Lesson(e, 4, <<IndexKind(e)>>, <<>>, <<IndexKind(e)>>,
          <<{Get(1), <<"memory.size">>}, {<<"memory.grow">>, <<"memory.size">>}, {End, Op("add", IndexKind(e))}, {End}>>,
          Inputs({<<a>> : a \in {0, 1, 9}} \cup {<<Modulus(IndexKind(e)) - 1>>}, {4})) : e \in {Plain, Wide}}

Globals ==
  {Lesson(e, 3, <<"i32", "i32">>, <<>>, <<"i32">>,
          <<Gets(2), Gets(2) \cup {I32(0), <<"global.get">>}, {<<"global.set">>, Tee(1), <<"global.get">>},
            {Get(2), <<"select">>, <<"global.get">>}, {<<"select">>, Op("sub", "i32"), End}, {End}>>,
          Inputs({<<6, 11>>, <<0, 3>>}, {4})) : e \in {Plain, Tiering}}

\* Conditions, compared by the branch or before it.
Conditionals ==
  {Lesson(e, 3, <<"i32", "i32">>, <<>>, <<"i32">>,
          <<{Get(1), I32(-3)}, {Get(2), I32(5)}, {Op(fn, "i32") : fn \in Compares} \cup {<<"unop", "eqz", "i32">>},
            {<<"if", 0, 1>>}, {Get(1)}, {<<"else">>}, {Get(2)}, {End}, {End}>>,
          Inputs({<<6, 11>>, <<0, 0>>, <<13, 5>>}, {4})) : e \in {Plain, Explicit}}

\* Blocks with locals that are set on one of the paths.
Branches ==
  {Lesson(e, n, <<"i32", "i32">>, locals, <<"i32">>,
          <<{Get(2)}, {<<op, 1, 1>>}, {Get(1)},
            {<<"if", 0, 0>>, <<"br_if", 0>>, <<"br_if", 1>>, <<"br_table", <<0, 1, 0>> >>},
            {Get(1), I32(4), End, Get(3)}, {Set(2), Set(3), <<"br", 0>>, Op("add", "i32")},
            {End, <<"else">>, <<"return">>, <<"unreachable">>}, {End, Get(3)}, {End, Op("sub", "i32")}, {End}>>,
          Inputs({<<0, 9>>, <<1, 9>>, <<5, 9>>}, {4})) :
     op \in {"block"}, e \in {Plain, Explicit, Tiering}, n \in {3, 4}, locals \in {<<"i32">>}}

\* Loops that count down and use memory.
Loops ==
  {Lesson(e, n, <<"i32", "i32">>, <<>>, <<"i32">>,
          <<{Get(2), <<"block", 0, 0>>}, {<<"loop", 1, 1>>, <<"loop", 0, 0>>}, {Get(1)}, {<<"load", "i32", 1, 0, 0>>},
            {Set(2)}, {I32(0)}, {<<"memory.grow">>}, {<<"drop">>, Set(2)},
            {Get(1)}, {I32(1)}, {Op("sub", "i32")}, {Tee(1)},
            {<<"br_if", 0>>, <<"br_table", <<1, 0>> >>}, {End}, {End, Get(2)}, {Get(2), Op("add", "i32"), End}, {End}>>,
          Inputs({<<1, 9>>, <<3, 9>>}, {4})) :
     e \in {Plain, Partial, Explicit, Tiering}, n \in {3, 4}}

\* Fields of structs that may be null: packed ones, ones that no page of the null guards.
Structs ==
  {Lesson(e, n, <<"S1", "i32">>, <<"F">>, <<kind>>,
          <<{Get(1), Get(3), <<"struct.new_default", "S1">>},
            {<<"struct.get", "S1", f, TRUE>> : f \in 1..3} \cup {<<"struct.get", "S1", 3, FALSE>>}
              \cup {<<"struct.atomic.get", "S1", f, FALSE>> : f \in 1..2} \cup {Get(2), I64(9)},
            {<<"struct.set", "S1", f>> : f \in 1..3} \cup {<<"struct.atomic.set", "S1", f>> : f \in 1..2}
              \cup {End},
            {Get(1)}, {<<"struct.get", "S1", f, FALSE>> : f \in 1..3}, {End}>>,
          Inputs({<<v, 6>> : v \in {WasmNull, Pointer(2), Pointer(3)}}, {4})) :
     e \in {Plain, Explicit}, n \in {3, 4}, kind \in {"i32", "i64"}}

\* New structs and arrays, made of and put into objects that may be old.
NewObjects ==
  {Lesson(e, n, <<"F", "any", "i32">>, <<>>, <<"any">>,
          <<{I64(77), Get(2)}, {Get(1), Get(3), I32(2)},
            {Get(1), <<"struct.new_default", "S1">>, <<"array.new", "R">>, <<"array.new_fixed", "R", 2>>},
            {Get(1), End, <<"struct.new", "F">>, <<"array.new_fixed", "R", 2>>}, {<<"struct.set", "F", 3>>, End}, {Get(2), End}, {End}>>,
          Inputs({<<Pointer(4), v, k>> : v \in {WasmNull, 4, Pointer(1)}, k \in {0, 2, 7}}, {4})) :
     e \in {Plain, Explicit}, n \in {4, 5}}
  \cup
  {Lesson(e, 4, <<"F", "R", "i32">>, <<>>, <<"F">>,
          <<{Get(1), Get(2)}, {Get(3)}, {Get(1), <<"struct.new_default", "S1">>}, {<<"struct.set", "F", 3>>, <<"array.set", "R">>},
            {Get(1)}, {End}>>,
          Inputs({<<Pointer(4), Pointer(7), k>> : k \in {1, 3}}, {4})) : e \in {Plain, Explicit}}
  \cup
  {Lesson(e, 4, <<"F", "i32">>, <<>>, <<"F">>,
          <<{Get(1)}, {Get(1), <<"struct.new_default", "S1">>}, {<<"struct.set", "F", 3>>}, {Get(2)},
            {<<"array.new_default", type>> : type \in {"V", "B", "R"}}, {<<"drop">>}, {Get(1)}, {End}>>,
          Inputs({<<Pointer(4), k>> : k \in {1, 3, 7, 13}}, {4})) : e \in {Plain, Explicit}}

ArraysOf(type, kind, values) ==
  {Lesson(e, n, <<type, "i32", kind>>, <<"i32">>, <<result>>,
          <<{Get(1), <<"ref.null", type>>}, {Get(2), <<"array.len">>},
            {<<"array.get", type, TRUE>>, <<"array.get", type, FALSE>>, <<"array.atomic.get", type, FALSE>>, Get(3), End},
            {<<"array.set", type>>, <<"array.atomic.set", type>>, Get(2), End}, {<<"array.fill", type>>, Get(1)},
            {Get(1), Get(2)}, {Get(2), <<"array.len">>, <<"array.get", type, FALSE>>},
            {<<"array.get", type, TRUE>>, End}, {End}>>,
          Inputs({<<v, k, x>> : v \in {WasmNull} \cup {Pointer(o) : o \in {o \in DOMAIN Heap : Heap[o].type = type}},
                                k \in {0, 1, 3, 15}, x \in values}, {4})) :
     e \in {Plain, Explicit}, n \in {5}, result \in {"i32", kind}}

\* Ranges of arrays and segments.
ArrayRanges(type) ==
  {Lesson(e, n, <<type, "i32", "i32">>, <<type>>, <<"i32">>,
          <<{Get(1), Get(2), Get(4)}, {Get(2), Get(3)}, {Get(1), Get(2), <<"array.new_segment", type>>},
            {Get(2), Get(3), <<"array.len">>}, {Get(3), End}, {<<"array.copy", type, type>>, <<"array.init_segment", type>>},
            {Get(3)}, {End}>>,
          Inputs({<<v, k, x>> : v \in {WasmNull} \cup {Pointer(o) : o \in {o \in DOMAIN Heap : Heap[o].type = type}},
                                k \in {0, 1, 3}, x \in {0, 1, 2, 7, 15}}, {4})) :
     e \in {Plain, Explicit}, n \in {3, 5}}
Arrays ==
  ArraysOf("V", "i32", {5}) \cup ArraysOf("B", "i32", {6}) \cup ArraysOf("R", "any", {4, WasmNull})
    \cup ArrayRanges("V") \cup ArrayRanges("B") \cup ArrayRanges("R")

\* Every object, null and an i31 is tested for and cast to every type below the static one.
Tests ==
  {Lesson(e, n, <<static, "extern">>, locals, <<"i32">>,
          <<{Get(1), Get(2)}, {<<op, h, nulls>> : op \in {"ref.test", "ref.cast"}, nulls \in BOOLEAN,
                         h \in {"S0", "S1", "S3", "F", "V", "struct", "array", "i31", "eq", "string", "none"}}
             \cup {<<"any.convert_extern">>},
            {<<"ref.is_null">>, <<"i31.get", TRUE>>, <<"i31.get", FALSE>>, <<"struct.get", "S0", 2, TRUE>>,
             <<"ref.as_non_null">>, <<"extern.convert_any">>, <<"array.len">>, <<"ref.cast", "any", FALSE>>,
             <<"ref.cast", "none", TRUE>>, Get(1), End},
            {<<"ref.is_null">>, <<"ref.eq">>, End}, {End}>>,
          Inputs({<<v, JSNull>> : v \in {o \in Objects \cup {WasmNull, 4, 10} :
                       CASE static = "any" -> TRUE [] static = "eq" -> o <= Pointer(7)
                         [] static = "S0" -> o \in {WasmNull} \cup {Pointer(k) : k \in 1..4}
                         [] static = "struct" -> o \in {WasmNull} \cup {Pointer(k) : k \in 1..4}}}, {4})) :
     e \in {Plain, Explicit}, n \in {4}, locals \in {<<>>, <<"extern">>}, static \in {"any", "eq", "S0", "struct"}}

RefBranches ==
  {[Lesson(e, n, <<static, static>>, <<"any">>, <<"any">>,
          <<{<<"block", 0, 1>>}, {Get(1), Get(2)},
            {<<op, d, h, nulls>> : op \in {"br_on_cast", "br_on_cast_fail"}, d \in {0}, nulls \in BOOLEAN,
                         h \in {"S1", "S3", "F", "array", "i31", "eq"}}
             \cup {<<op, 1, h, TRUE>> : op \in {"br_on_cast", "br_on_cast_fail"}, h \in {"S0", "struct", "none"}}
             \cup {<<"br_on_non_null", d>> : d \in 0..1},
            {Set(3), Tee(3), Get(1)}, {Get(2), <<"br", 0>>, End}, {End}, {End, Get(3)}, {End, <<"ref.eq">>}, {End}>>,
          Inputs({<<v, Pointer(1)>> : v \in {o \in Objects \cup {WasmNull, 4} :
                       static = "any" \/ o \in {WasmNull} \cup {Pointer(k) : k \in 1..4}}}, {4}))
     EXCEPT !.block = "any"] : e \in {Plain, Explicit}, n \in {4, 6}, static \in {"any", "S0"}}
  \cup
  {Lesson(e, n, <<static, "i32">>, <<"i32">>, <<"i32">>,
          <<{<<"block", 0, 1>>}, {Get(2)}, {Get(1)}, {<<"br_on_null", d>> : d \in 0..1}, {Set(1), <<"drop">>, <<"ref.is_null">>},
            {Set(3), Tee(3), Tee(2), End}, {End, Get(3)}, {End, Op("add", "i32")}, {End}>>,
          Inputs({<<v, 9>> : v \in {NullOf(static), Pointer(4)}}, {4})) :
     e \in {Plain, Explicit}, n \in {3, 4}, static \in {"S0", "extern"}}

\* Atomic operations on fields of every kind, of objects that may be null, with operands
\* in registers or, after a call, in the frame.
Fetches == {"add", "sub", "and", "or", "xor", "xchg"}
NewA == <<"struct.new_default", "A">>
StructAtomics(field, kind, values) ==
  {Lesson(e, n, <<"A", kind, "i64">>, <<"A">>, <<kind>>,
          <<{Get(1), Get(4), NewA}, {Get(2), <<"ref.null", "eq">>},
            {<<"struct.atomic.rmw", "A", field, fn>> : fn \in Fetches}
              \cup {Get(2), Get(3), NewA, <<"struct.notify", "A", field>>},
            {<<"struct.atomic.cmpxchg", "A", field>>, <<"struct.wait", "A", field>>, End}, {End}>>,
          Inputs({<<v, x, 7>> : v \in {WasmNull, Pointer(10)}, x \in values}, {4})) :
     e \in {Plain, Explicit}, n \in {4, 6}}
  \cup
  {Lesson(Plain, 4, <<"A", kind, "i64">>, <<>>, <<result>>,
          <<{Get(1)}, {Get(2)}, {Get(2), Get(3), NewA}, {NewA, <<"drop">>},
            {<<"drop">>} \cup {<<"struct.atomic.rmw", "A", field, fn>> : fn \in {"add", "xchg"}},
            {<<"struct.atomic.cmpxchg", "A", field>>, <<"struct.wait", "A", field>>, End}, {End}>>,
          Inputs({<<Pointer(10), x, 7>> : x \in values}, {4})) : result \in {"i32", kind}}
ArrayAtomics(type, kind, values) ==
  {Lesson(e, n, <<type, "i32", kind>>, <<type>>, <<kind>>,
          <<{Get(1), Get(4)}, {Get(2)}, {Get(3)},
            {<<"array.atomic.rmw", type, fn>> : fn \in Fetches} \cup {Get(3), <<"ref.null", "eq">>, NewA},
            {<<"array.atomic.cmpxchg", type>>, End, Get(1), NewA, <<"drop">>},
            {Get(2), End, <<"drop">>, <<"array.atomic.rmw", type, "xchg">>},
            {<<"array.get", type, FALSE>>, End, <<"array.atomic.cmpxchg", type>>},
            {<<"drop">>, End}, {End}>>,
          Inputs({<<v, k, x>> : v \in {WasmNull} \cup {Pointer(o) : o \in {o \in DOMAIN Heap : Heap[o].type = type}},
                                k \in {0, 1, 3, 15}, x \in values}, {4})) :
     e \in {Plain, Explicit}, n \in {5, 7}}
ObjectAtomics ==
  StructAtomics(1, "i32", {5, 9}) \cup StructAtomics(2, "i64", {104, 77})
    \cup StructAtomics(3, "eq", {Pointer(1), 4}) \cup ArrayAtomics("V", "i32", {8})
    \cup ArrayAtomics("W", "i64", {106, 3}) \cup ArrayAtomics("Q", "eq", {Pointer(1), 4})

\* Elements and ranges of two tables.
Tables ==
  {Lesson(e, n, <<IndexKind(e), "any", IndexKind(e)>>, <<>>, <<result>>,
          <<{Get(1), <<"const", IndexKind(e), 1>>},
            {Get(2), <<"table.get", 1>>, <<"table.size", 0>>},
            {<<"table.set", 0>>, Get(1), Get(3), <<"const", IndexKind(e), -1>>},
            {Get(1), Get(2), <<"table.fill", 1>>, <<"elem.drop">>},
            {Get(1), <<"table.grow", 0>>, <<"table.size", 1>>, <<"table.get", 0>>},
            {<<"table.grow", 1>>, <<"table.get", 1>>, End}, {End}>>,
          Inputs({<<a, v, b>> : a \in {0, 1, 2, Modulus(IndexKind(e)) - 1}, v \in {6, Pointer(4)}, b \in {0, 1, 3}},
                 {4})) : e \in {Plain, Wide}, n \in {4, 6}, result \in {"any", "i32", "i64"}}
  \cup
  {Lesson(e, n, <<IndexKind(e), "i32", "i32", IndexKind(e)>>, <<>>, <<"any">>,
          <<{Get(1), <<"const", IndexKind(e), 0>>}, {Get(2), Get(1), I32(0)}, {Get(3), Get(4), <<"table.size", 0>>},
            {<<"table.init", 1>>, <<"table.copy", 0, 1>>, <<"table.copy", 1, 1>>, <<"elem.drop">>},
            {Get(4), <<"table.init", 0>>}, {Get(1), <<"table.get", 1>>}, {<<"table.get", 0>>, End}, {End}>>,
          Inputs({<<a, b, c, d>> : a \in {0, 1}, b \in {0, 1, 15}, c \in {0, 1, 2}, d \in {0, 1, 3}}, {4})) :
     e \in {Plain, Wide}, n \in {4, 6}}

\* Strings that may be null, with operands in registers, constants or, after a call, in
\* the frame.
AString == <<"string.const", 7>>
Strings ==
  {Lesson(e, n, <<"string", IndexKind(e), "i32">>, <<>>, <<result>>,
          <<{AString, Get(1)}, {Get(2), Get(1)}, {Get(3), I32(2)},
            {Get(3), <<"string.new_wtf8", 1>>, <<"string.new_wtf16">>, <<"view.iter_advance">>,
             <<"view.iter_rewind">>, <<"view.iter_slice">>, <<"view.wtf16_get_code_unit">>,
             <<"view.wtf8_advance">>, <<"view.wtf8_slice">>, <<"view.wtf16_slice">>},
            {<<"view.wtf8_encode", 1>>, <<"view.wtf16_encode">>, <<"string.concat">>,
             <<"drop">>, <<"string.from_code_point">>},
            {<<"string.encode_wtf8", 1>>, <<"string.encode_wtf16">>, Op("sub", "i32"),
             <<"string.measure_wtf16">>, <<"string.concat">>, End},
            {End, <<"string.hash">>}, {End}>>,
          Inputs({<<v, 11, 2>> : v \in {WasmNull, Pointer(9)}}, {4})) :
     e \in {Plain, Explicit, Wide}, n \in {4, 5}, result \in {"i32", "string"}}
  \cup
  {Lesson(e, n, <<"string", "string", "B">>, <<"i32">>, <<"i32">>,
          <<{Get(1), AString}, {Get(2), Get(3), AString},
            {<<"string.eq">>, <<"string.compare">>, <<"string.concat">>, Get(3), Get(4)},
            {Get(4), I32(1), <<"string.measure_utf8">>, <<"string.measure_wtf8">>,
             <<"string.measure_wtf16">>, <<"string.is_usv_sequence">>, <<"string.hash">>,
             <<"string.as_wtf8">>, <<"string.as_wtf16">>, <<"string.as_iter">>},
            {<<"string.new_wtf8_array", 1, "B">>, <<"string.new_wtf16_array", "B">>,
             <<"string.encode_wtf8_array", 1, "B">>, <<"string.encode_wtf16_array", "B">>,
             <<"view.iter_next">>, <<"string.measure_wtf8">>, Get(4), End},
            {Op("add", "i32"), <<"string.eq">>, <<"string.compare">>, <<"string.encode_wtf16_array", "B">>,
             <<"string.encode_wtf8_array", 0, "B">>, End},
            {End}>>,
          Inputs({<<v, w, a>> : v, w \in {WasmNull, Pointer(9), Pointer(13), Pointer(14)},
                                a \in {WasmNull, Pointer(6)}}, {4})) :
     e \in {Plain, Explicit}, n \in {4, 6}}

\* Each instruction on strings by itself, on operands in registers or, after a string was
\* made, in the frame.
StringUses ==
  {<<"i32", <<{Get(1)}, {Get(2), Get(4)}, {Get(3), <<"string.encode_wtf8", 1>>, <<"string.encode_wtf16">>},
              {I32(5), <<"string.encode_wtf8_array", 1, "B">>, <<"string.encode_wtf16_array", "B">>, End},
              {<<"view.wtf8_encode", 1>>, <<"view.wtf16_encode">>, End}, {Op("sub", "i32"), End}, {End}>> >>,
   <<"i32", <<{Get(3)}, {Get(1)}, {<<"string.hash">>}, {Op("sub", "i32")}, {End}>> >>,
   <<"string", <<{Get(1), Get(4)}, {Get(3)}, {I32(5)},
                 {<<"view.wtf8_slice">>, <<"view.wtf16_slice">>, <<"string.new_wtf8_array", 1, "B">>,
                  <<"string.new_wtf16_array", "B">>}, {End}>> >>,
   <<"i32", <<{Get(1)}, {<<"string.hash">>, AString}, {<<"string.eq">>, <<"string.compare">>, End}, {End}>> >>,
   <<"i32", <<{AString}, {Get(1)}, {<<"string.eq">>, <<"string.compare">>}, {End}>> >>}
Alone ==
  {Lesson(e, n, <<"string", IndexKind(e), "i32", "B">>, <<>>, <<use[1]>>, before \o use[2],
          Inputs({<<v, 3, 2, a>> : v \in {WasmNull, Pointer(9)}, a \in {WasmNull, Pointer(6)}}, {4})) :
     e \in {Plain, Explicit}, n \in {5}, before \in {<<>>, <<{AString}, {<<"drop">>}>>}, use \in StringUses}

\* Calls with operands under the arguments, with arguments in registers, as constants and,
\* after a call, in the frame; the memory may have moved in between.
Inlining(e, how) == [e EXCEPT !.inlining = how]
Loaded == <<"load", "i32", 1, 0, 1>>
CallTo(f) == <<"call", f>>
Indirect(table, sig) == <<"call_indirect", table, sig>>
Address4(e) == <<"const", IndexKind(e), 1>>
Calls ==
  {Lesson(e, n, <<"i32", "i64", IndexKind(e), "G0">>, <<"i32">>, <<"i32">>,
          <<{Get(1), Address4(e)}, {Get(1), I32(3), Loaded}, {Get(3), <<"call", 1>>, <<"call", 4>>, Get(4)},
            {Indirect(1, "G0"), Indirect(2, "G0"), Indirect(2, "G1"), Indirect(3, "G0"), Indirect(3, "G3"),
             <<"call_ref", "G0">>, Address4(e), <<"const", IndexKind(e), 3>>, End},
            {Op("sub", "i32"), Loaded, End, <<"call", 3>>, Indirect(2, "G0"), Indirect(3, "G0")},
            {Op("sub", "i32"), <<"call", 5>>, End}, {End}>>,
          Inputs({<<6, 30, x, f>> : x \in 0..4, f \in {WasmNull, Pointer(15), Pointer(19)}}, {4})) :
     e \in {Partial, Inlining(Explicit, "indirect"), Inlining(Plain, "direct"), Inlining(Wide, "indirect")},
     n \in {5, 6}}
  \cup
  {Lesson(e, 5, <<"i32", "i64", IndexKind(e)>>, <<>>, <<"i32", "i64">>,
          <<{Get(1)}, {Get(2), <<"const", "i64", 5>>}, {Get(1), I32(2)},
            {Get(3), Address4(e), <<"call", 2>>, <<"return_call", 2>>, <<"ref.func", 2>>,
             <<"const", IndexKind(e), 3>>},
            {Op("sub", "i64"), <<"drop">>, <<"call_ref", "H">>, <<"return_call_ref", "H">>,
             Indirect(1, "H"), <<"return_call_indirect", 1, "H">>, End},
            {<<"drop">>, End}, {End, <<"drop">>}, {End}>>,
          Inputs({<<6, 30, x>> : x \in 0..4}, {4})) :
     e \in {Plain, Tiering, Inlining(Explicit, "indirect"), Inlining(Wide, "indirect")}}
  \cup
  {Lesson(e, n, <<"i32", "i64", IndexKind(e), "G0">>, <<>>, <<"i32", result>>,
          <<{Get(1)}, {Get(3), Get(4)}, {Indirect(1, "G0"), Indirect(3, "G0"), <<"call_ref", "G0">>},
            {Get(3), Get(4)}, {End}>>,
          Inputs({<<6, 30, 2, Pointer(17)>>}, {4})) :
     e \in {Partial, Wide}, n \in {5, 6}, result \in {"i32", "i64", "G0"}}

References == Calls \cup Strings \cup Alone \cup Structs \cup Tables \cup ObjectAtomics \cup NewObjects \cup Arrays \cup Tests \cup RefBranches

AllLessons ==
  Sharing \cup Numbers \cup Floats \cup Rounding \cup Memories \cup Vectors \cup Atomics \cup Ranges \cup Growth
    \cup Globals \cup Conditionals \cup Branches \cup Loops \cup References

=============================================================================
