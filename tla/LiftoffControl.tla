---------------------------- MODULE LiftoffControl ----------------------------
(***************************************************************************)
(* LiftoffCompiler, part three: blocks, branches and returns               *)
(* (liftoff-compiler.cc).                                                  *)
(*                                                                         *)
(* The field control of the state is the stack of open blocks.  A block is *)
(* a record: op; its label and, of an if, the label and the state of the   *)
(* else arm; the state at the label, once reached says that a branch made  *)
(* one; whether the code at hand is reachable; the operands under it and   *)
(* how many it takes and gives.  For a loop, label, state and reached are  *)
(* those of its start.                                                     *)
(***************************************************************************)
EXTENDS LiftoffMemory

Block(s, op, params, results) ==
  [op |-> op, label |-> s.label, else_label |-> 0, else_state |-> Cache(s),
   label_state |-> Cache(s), reached |-> op = "loop", reachable |-> TRUE,
   depth |-> Height(s) - s.locals - params, params |-> params, results |-> results]

PushControl(s, block) == [s EXCEPT !.control = Append(@, block)]
Innermost(s) == Last(s.control)
IsOneArmedIf(c) == c.op = "if"
BranchArity(c) == IF c.op = "loop" THEN c.params ELSE c.results

\* The merge just made or used leaves its state in got.
Reach(s, at) == [s EXCEPT !.control[at].reached = TRUE, !.control[at].label_state = s.got]

---------------------------------------------------------------------------
(* Conditions. *)

Negate(cond) == CASE cond = "eq" -> "ne" [] cond = "ne" -> "eq"
                  [] cond = "lt_s" -> "ge_s" [] cond = "ge_s" -> "lt_s"
                  [] cond = "gt_s" -> "le_s" [] cond = "le_s" -> "gt_s"
                  [] cond = "lt_u" -> "ge_u" [] cond = "ge_u" -> "lt_u"
                  [] cond = "gt_u" -> "le_u" [] cond = "le_u" -> "gt_u"
Flip(cond) == CASE cond \in {"eq", "ne"} -> cond
                [] cond = "lt_s" -> "gt_s" [] cond = "gt_s" -> "lt_s"
                [] cond = "le_s" -> "ge_s" [] cond = "ge_s" -> "le_s"
                [] cond = "lt_u" -> "gt_u" [] cond = "gt_u" -> "lt_u"
                [] cond = "le_u" -> "ge_u" [] cond = "ge_u" -> "le_u"

CompareAndJump(s, fn, false_dst) ==
  LET cond == Negate(fn)
      right_constant == PopToRegister([s EXCEPT !.stack = Front(@)], {})
      rhs == PopToRegister(s, {})
      lhs == PopToRegister(rhs, {rhs.got})
  IN  IF IsConst(Top(s))
        THEN JumpIf(right_constant, cond, "i32", Reg(right_constant.got), Top(s), false_dst)
      ELSE IF IsConst(Top(rhs))
        THEN JumpIf([rhs EXCEPT !.stack = Front(@)], Flip(cond), "i32",
                    Reg(rhs.got), Top(rhs), false_dst)
      ELSE JumpIf(lhs, cond, "i32", Reg(lhs.got), Reg(rhs.got), false_dst)

\* A comparison that was left outstanding is made here.
JumpIfFalse(s, false_dst) ==
  LET fn    == s.outstanding
      plain == [s EXCEPT !.outstanding = ""]
      value == PopToRegister(plain, {})
  IN  IF fn \notin {"", "eqz"} THEN CompareAndJump(plain, fn, false_dst)
      ELSE JumpIf(value, IF fn = "eqz" THEN "nez" ELSE "eqz", "i32",
                  Reg(value.got), Const("i32", 0), false_dst)

---------------------------------------------------------------------------
(* Blocks. *)

EnterBlock(s, params, results) ==
  LET t == NewLabel(s) IN PushControl(t, Block(t, "block", params, results))

\* The locals and the loop's operands are spilled, so that branches to the start
\* find them in the same place.
Loop(env, s, params, results) ==
  LET spilled == SpillLocals(NewLabel(s))
      args  == {i \in (Height(s) - params + 1)..Height(s) : ~IsStack(spilled.stack[i])}
      ready == SpillOperands(spilled, args)
      bound == Bind(ready, ready.label)
      inside == PushControl(bound, Block(ready, "loop", params, results))
  IN  IF env.tiering THEN inside ELSE StackCheck(env, inside)

If(s, params, results) ==
  LET t == JumpIfFalse(NewLabel(s), s.label + 1)
      u == NewLabel(t)
  IN  PushControl(u, [Block(u, "if", params, results) EXCEPT !.else_label = s.label + 1])

\* To the end of the innermost block, from the code at hand.
MergeIntoEnd(s, c) ==
  IF c.reached THEN MergeFullStackWith(s, c.label_state)
  ELSE MergeIntoNewState(s, c.results, c.depth)

Else(s) ==
  LET c == Innermost(s)
      at == Len(s.control)
      merged == MergeIntoEnd(s, c)
      left == IF c.reachable THEN Jump(Reach(merged, at), c.label) ELSE s
  IN  [Steal(Bind(left, c.else_label), c.else_state) EXCEPT
         !.control[at].op = "else", !.control[at].reachable = TRUE]

\* The arm that is missing goes to the end as it is.
FinishOneArmedIf(s, c) ==
  LET merged == IF c.reached THEN MergeFullStackWith(s, c.label_state)
                ELSE MergeIntoNewState(s, c.params, c.depth)
      left == IF c.reachable THEN Jump(merged, c.label) ELSE [s EXCEPT !.got = c.label_state]
      other == Steal(Bind(left, c.else_label), c.else_state)
      both == MergeFullStackWith(other, left.got)
  IN  IF c.reached \/ c.reachable THEN Steal(both, both.got) ELSE other

PopControl(s) ==
  LET c == Innermost(s)
      merged == IF c.reachable THEN MergeFullStackWith(s, c.label_state)
                ELSE [s EXCEPT !.got = c.label_state]
      ended == CASE c.op = "loop" -> s
                 [] IsOneArmedIf(c) -> Bind(FinishOneArmedIf(s, c), c.label)
                 [] c.op \in {"block", "else"} ->
                      Bind(IF c.reached THEN Steal(merged, merged.got) ELSE s, c.label)
  IN  [ended EXCEPT !.control = Front(@)]

---------------------------------------------------------------------------
(* Branches and returns. *)

ReturnImpl(env, s, results) ==
  LET t == IF env.tiering THEN TierupCheck(env, s) ELSE s
  IN  Emit(t, <<"ret", SubSeq(s.stack, Height(s) - results + 1, Height(s))>>)

BrImpl(env, s, at) ==
  LET c == s.control[at]
      checked == IF env.tiering /\ c.op = "loop" THEN TierupCheck(env, s) ELSE s
      merged  == IF c.reached
                   THEN MergeStackWith(checked, c.label_state, BranchArity(c), c.op = "loop")
                   ELSE MergeIntoNewState(checked, BranchArity(c), c.depth)
  IN  Jump(Reach(merged, at), c.label)

\* The outermost block is the function.
BrOrRet(env, s, depth) ==
  IF depth = Len(s.control) THEN ReturnImpl(env, s, env.results)
  ELSE BrImpl(env, s, Len(s.control) - depth)

BrIf(env, s, depth) ==
  LET prepared == IF depth = Len(s.control) THEN s
                  ELSE PrepareForBranch(s, BranchArity(s.control[Len(s.control) - depth]), {})
      cont_false == s.label + 1
  IN  Bind(BrOrRet(env, JumpIfFalse(NewLabel(prepared), cont_false), depth), cont_false)

\* t is the state and the labels of the targets that have code.
GenerateBrCase(env, t, depth) ==
  LET s == NewLabel(t.s)
  IN  IF depth \in DOMAIN t.targets THEN [t EXCEPT !.s = Jump(@, t.targets[depth])]
      ELSE [s |-> BrOrRet(env, Bind(s, s.label), depth), targets |-> t.targets @@ (depth :> s.label)]

RECURSIVE GenerateBrTable(_, _, _, _, _, _)
GenerateBrTable(env, t, value, table, min, max) ==
  LET split == min + (max - min) \div 2
      upper_half == t.s.label + 1
      branch == JumpIf(NewLabel(t.s), "ge_u", "i32", Reg(value), Const("i32", split), upper_half)
      lower == GenerateBrTable(env, [t EXCEPT !.s = branch], value, table, min, split)
  IN  IF max = min + 1 THEN GenerateBrCase(env, t, table[min + 1])
      ELSE GenerateBrTable(env, [lower EXCEPT !.s = Bind(@, upper_half)], value, table, split, max)

\* The last of the table is the default.
BrTable(env, s, table) ==
  LET value == PopToRegister(s, {})
      sample == table[1]
      arity == IF sample = Len(s.control) THEN env.results
               ELSE BranchArity(s.control[Len(s.control) - sample])
      count == Len(table) - 1
      ready == PrepareForBranch(value, arity, {value.got})
      default == ready.label + 1
      range == JumpIf(NewLabel(ready), "ge_u", "i32", Reg(value.got), Const("i32", count), default)
      cases == GenerateBrTable(env, [s |-> range, targets |-> <<>>], value.got, table, 0, count)
  IN  IF count = 0 THEN GenerateBrCase(env, [s |-> ready, targets |-> <<>>], Last(table)).s
      ELSE GenerateBrCase(env, [cases EXCEPT !.s = Bind(@, default)], Last(table)).s

=============================================================================
