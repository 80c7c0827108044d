-------------------------- MODULE LiftoffAssembler --------------------------
(***************************************************************************)
(* What LiftoffCompiler relies on below it: the assembler's cache state    *)
(* (where each local and operand of the Wasm function lives while its code *)
(* is being emitted) and the code itself.  LiftoffAssembler is not in the  *)
(* repository; it is modelled from how liftoff-compiler.cc uses it.        *)
(*                                                                         *)
(* An assembler state s is a record: the value stack, one VarState per     *)
(* local and operand; the use count of each cache register; the register   *)
(* that caches the memory start, or 0; the code emitted so far; the last   *)
(* label; and what the last call returned.  A slot of the frame has the    *)
(* index of its operand, so one index names both.                          *)
(***************************************************************************)
EXTENDS Integers, Sequences, SequencesExt, FiniteSetsExt

Reg(r)         == <<"reg", r>>
Const(kind, n) == <<"const", n, kind>>   \* n is an i32, sign-extended for an i64
Slot(i)        == <<"slot", i>>

\* kReturnRegister0, where every C function and builtin leaves its result.
ReturnRegister == 1

IsReg(v)   == v[1] = "reg"
IsConst(v) == v[1] = "const"
IsStack(v) == v[1] = "slot"

---------------------------------------------------------------------------
(* Code. *)

Emit(s, i) == [s EXCEPT !.code = Append(@, i)]

\* Parallel moves <<to, from>> between registers, frame slots and constants.
Moves(s, pairs) ==
  LET real == {p \in pairs : p[1] # p[2]}
  IN  IF real = {} THEN s ELSE Emit(s, <<"moves", real>>)

NewLabel(s) == [s EXCEPT !.label = @ + 1]
Bind(s, l)  == Emit(s, <<"bind", l>>)
Jump(s, l)  == Emit(s, <<"jump", l>>)

---------------------------------------------------------------------------
(* Registers. *)

Use(s, r)   == [s EXCEPT !.uses[r] = @ + 1]
Unuse(s, r) == [s EXCEPT !.uses[r] = @ - 1]
IsUsed(s, r) == s.uses[r] > 0
Unused(s, pinned) == {r \in DOMAIN s.uses \ pinned : s.uses[r] = 0}

\* The registers of a VarState, for pinning.
Pin(v) == IF IsReg(v) THEN {v[2]} ELSE {}

ClearMemStart(s) ==
  IF s.mem = 0 THEN s ELSE [Unuse(s, s.mem) EXCEPT !.mem = 0]
SetMemStart(s, r) == [Use(s, r) EXCEPT !.mem = r]

\* A function on 1..n as a sequence.
Sequence(f) == <<>> \o f

SpillRegister(s, r) ==
  LET at == {i \in DOMAIN s.stack : s.stack[i] = Reg(r)}
  IN  [Moves(s, {<<Slot(i), Reg(r)>> : i \in at}) EXCEPT
         !.stack = Sequence([i \in DOMAIN @ |-> IF i \in at THEN Slot(i) ELSE @[i]]),
         !.uses[r] = 0]

\* A register nobody uses, one of try if it can be, else any that is not pinned;
\* when there is none the cached memory start goes, and then operands are spilled.
GetUnusedRegister(s, try, pinned) ==
  LET liked == {r \in try : s.uses[r] = 0}
      free  == Unused(s, pinned)
      taken == Min(DOMAIN s.uses \ (pinned \cup {s.mem}))
  IN  IF liked # {} THEN [s EXCEPT !.got = Min(liked)]
      ELSE IF free # {} THEN [s EXCEPT !.got = Min(free)]
      ELSE IF s.mem # 0 /\ s.mem \notin pinned
             THEN [ClearMemStart(s) EXCEPT !.got = s.mem]
             ELSE [SpillRegister(s, taken) EXCEPT !.got = taken]

---------------------------------------------------------------------------
(* The value stack. *)

Height(s)  == Len(s.stack)
Top(s)     == s.stack[Height(s)]
Push(s, v) == [s EXCEPT !.stack = Append(@, v)]
PushRegister(s, r) == Push(Use(s, r), Reg(r))
PushConstant(s, kind, n) == Push(s, Const(kind, n))

\* The operand leaves the stack and its register one use.
Drop(s, v) == IF IsReg(v) THEN Unuse(s, v[2]) ELSE s
PopVarState(s) ==
  [Drop(s, Top(s)) EXCEPT !.stack = Front(@), !.got = Top(s)]

LoadToRegister(s, v, pinned) ==
  IF IsReg(v) THEN [s EXCEPT !.got = v[2]]
  ELSE LET t == GetUnusedRegister(s, {}, pinned)
       IN  Moves(t, {<<Reg(t.got), v>>})

\* Nobody else may use the register, since the caller will write to it.
LoadToModifiableRegister(s, v, pinned) ==
  IF IsReg(v) /\ ~IsUsed(s, v[2]) THEN [s EXCEPT !.got = v[2]]
  ELSE LET t == GetUnusedRegister(s, {}, pinned \cup Pin(v))
       IN  Moves(t, {<<Reg(t.got), v>>})

PopToRegister(s, pinned) ==
  LET t == PopVarState(s) IN LoadToRegister(t, t.got, pinned)

\* The operand i below the top is brought into a register and stays where it is.
PeekToRegister(s, i, pinned) ==
  LET at == Height(s) - i
      t  == LoadToRegister(s, s.stack[at], pinned)
  IN  IF IsReg(s.stack[at]) THEN t
      ELSE [Use(t, t.got) EXCEPT !.stack[at] = Reg(t.got)]

DropValues(s, n) ==
  LET dropped == SubSeq(s.stack, Height(s) - n + 1, Height(s))
  IN  [FoldLeft(Drop, s, dropped) EXCEPT !.stack = SubSeq(@, 1, Len(@) - n)]

---------------------------------------------------------------------------
(* Spilling. *)

SpillOperands(s, at) ==
  [Moves(s, {<<Slot(i), s.stack[i]>> : i \in at}) EXCEPT
     !.stack = Sequence([i \in DOMAIN @ |-> IF i \in at THEN Slot(i) ELSE @[i]]),
     !.uses  = [r \in DOMAIN @ |->
                  @[r] - Cardinality({i \in at : s.stack[i] = Reg(r)})]]

\* Before a call: every operand that is in a register goes to its slot, and the
\* memory start is forgotten.
SpillAllRegisters(s) ==
  LET t == ClearMemStart(s)
  IN  SpillOperands(t, {i \in DOMAIN t.stack : IsReg(t.stack[i])})

SpillLocals(s) == SpillOperands(s, {i \in 1..s.locals : ~IsStack(s.stack[i])})

\* A call that leaves its results in the registers of into; it may use every register.
Call(s, into, fn, args) ==
  Emit(SpillAllRegisters(s), <<"call", into, fn, args>>)

\* The n arguments on top leave the stack for where the callee expects them; got says where
\* they were.  Everything else is spilled.
PrepareCall(s, n) ==
  [SpillAllRegisters(DropValues(s, n)) EXCEPT
     !.got = SubSeq(s.stack, Height(s) - n + 1, Height(s))]

---------------------------------------------------------------------------
(* Merges: at a label every path must leave the operands in the same places. *)

Cache(s) == [stack |-> s.stack, uses |-> s.uses, mem |-> s.mem]
Steal(s, cache) ==
  [s EXCEPT !.stack = cache.stack, !.uses = cache.uses, !.mem = cache.mem]

\* One more place of a new merge state for the operand v; keep says that constants
\* and shared registers may stay.
Place(cache, at, v, keep, reserved) ==
  LET free == {r \in DOMAIN cache.uses : cache.uses[r] = 0} \ reserved
      here(w) == [cache EXCEPT !.stack[at] = w]
      into(r) == [here(Reg(r)) EXCEPT !.uses[r] = @ + 1]
  IN  IF IsConst(v) /\ keep THEN here(v)
      ELSE IF IsReg(v) /\ cache.uses[v[2]] = 0
                /\ (~keep \/ v[2] \notin reserved) THEN into(v[2])
      ELSE IF ~IsStack(v) /\ free # {} THEN into(Min(free))
      ELSE here(Slot(at))

\* A state with the locals, depth operands under the branch and arity results.
\* Locals and results keep their registers where they can; no register is used
\* twice there and no constant remains.
NewMergeState(s, arity, depth) ==
  LET height == s.locals + depth + arity
      From(i) == IF i <= s.locals + depth THEN s.stack[i]
                 ELSE s.stack[i - height + Height(s)]
      Fixed    == (1..s.locals) \cup ((s.locals + depth + 1)..height)
      reserved == UNION {Pin(From(i)) : i \in Fixed}
      empty == [stack |-> Sequence([i \in 1..height |-> Slot(i)]),
                uses |-> [r \in DOMAIN s.uses |-> 0], mem |-> 0]
      order == [i \in 1..arity |-> s.locals + depth + i]
                 \o [i \in 1..(s.locals + depth) |-> i]
      placed == FoldLeft(LAMBDA c, i : Place(c, i, From(i), i \notin Fixed, reserved),
                         empty, order)
  IN  IF s.mem # 0 /\ placed.uses[s.mem] = 0
        THEN [placed EXCEPT !.mem = s.mem, !.uses[s.mem] = 1]
        ELSE placed

\* The moves from the current state to the state cache at a branch with arity
\* results.  A forward label may still give up its memory start; a backward label
\* is bound, so the branch has to load it.  Returns the label's state.
MergeStackWith(s, cache, arity, backward) ==
  LET height == Len(cache.stack)
      From(i) == IF i <= height - arity THEN s.stack[i]
                 ELSE s.stack[i - height + Height(s)]
      moved == Moves(s, {<<cache.stack[i], From(i)>> :
                            i \in {j \in 1..height : ~IsConst(cache.stack[j])}})
      same == s.mem = cache.mem
      lost == [cache EXCEPT !.mem = 0, !.uses[cache.mem] = 0]
  IN  IF same \/ cache.mem = 0 THEN [moved EXCEPT !.got = cache]
      ELSE IF backward
        THEN [Emit(moved, <<"memstart", cache.mem>>) EXCEPT !.got = cache]
        ELSE [moved EXCEPT !.got = lost]

MergeFullStackWith(s, cache) == MergeStackWith(s, cache, 0, FALSE)

\* The first branch to a label makes its state and moves into it.
MergeIntoNewState(s, arity, depth) ==
  MergeStackWith(s, NewMergeState(s, arity, depth), arity, FALSE)

\* Before a conditional branch that others will follow: its results and the locals
\* get registers of their own.
PrepareForBranch(s, arity, pinned) ==
  LET Prepare(t, i) ==
        LET v == t.stack[i]
            free == Unused(t, pinned)
            shared == IsReg(v) /\ t.uses[v[2]] > 1
            to == IF free = {} THEN Slot(i) ELSE Reg(Min(free))
            moved == [Moves(Drop(t, v), {<<to, v>>}) EXCEPT !.stack[i] = to]
        IN  IF ~(shared \/ IsConst(v)) THEN t
            ELSE IF free = {} THEN moved ELSE Use(moved, to[2])
      order == [i \in 1..arity |-> Height(s) - arity + i]
                 \o [i \in 1..s.locals |-> i]
  IN  FoldLeft(Prepare, s, order)

=============================================================================
