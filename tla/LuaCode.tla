------------------------------ MODULE LuaCode ------------------------------
(***************************************************************************)
(* The code generator of the Lua compiler (lua/lcode.c): registers, jump   *)
(* lists, constants and the delayed code of expressions.                   *)
(*                                                                         *)
(* The operators work on the state c of one compilation (LexState and the  *)
(* chain of FuncStates); c.f is the FuncState of the function being        *)
(* compiled.  Code positions count from 0.  An expression description e is *)
(* the expdesc of lparser.h: its kind, a register, position, index or      *)
(* value (info), for a table access table, key and where the table is, and *)
(* the lists of jumps taken when it is true (t) and false (f).  Operators  *)
(* that change both take and return a record x = [c, e].                   *)
(*                                                                         *)
(* c.bad tells that an assertion of the source failed and c.err that a     *)
(* compile error was raised.  The width and the modes of instruction       *)
(* fields, with their assertions (lcode.c:316-339), are left out; the      *)
(* branches that assert 0 are those a CASE here does not have.             *)
(***************************************************************************)
EXTENDS LuaArith, Sequences

CONSTANTS MAXREGS,            \* registers of a function
          LFIELDS_PER_FLUSH   \* list items of a constructor stored at once

ASSUME CodeAssumption == MAXREGS \in Nat /\ LFIELDS_PER_FLUSH \in Nat \ {0}

NO_JUMP == -1
NO_REG == 255
MULTRET == -1
BITRK == 256

ISK(rk) == rk >= BITRK
RKASK(k) == BITRK + k

(* A jump has its offset in b. *)
Instr(op, a, b, c) == [op |-> op, a |-> a, b |-> b, c |-> c]
TestOps == {"EQ", "LT", "LE", "TEST", "TESTSET"}

Exp(k, info) == [k |-> k, info |-> info, tab |-> 0, idx |-> 0, vt |-> "",
                 t |-> NO_JUMP, f |-> NO_JUMP]
HasJumps(e) == e.t # e.f
HasMultret(k) == k \in {"CALL", "VARARG"}
IsNumeral(e) == e.k \in {"KINT", "KFLT"} /\ ~HasJumps(e)

Pc(c) == Len(c.f.code)
At(c, pc) == c.f.code[pc + 1]

(* Nothing is asserted once an error has left the compiler. *)
Lua_assert(c, cond) == [c EXCEPT !.bad = @ \/ ~(cond \/ c.err)]

----------------------------------------------------------------------------
(* Jump lists. *)

GetJump(c, pc) == IF At(c, pc).b = NO_JUMP THEN NO_JUMP ELSE pc + 1 + At(c, pc).b

FixJump(c, pc, dest) ==
    [Lua_assert(c, dest # NO_JUMP) EXCEPT !.f.code[pc + 1].b = dest - (pc + 1)]

RECURSIVE LastOfList(_, _), RemoveValues(_, _), PatchListAux(_, _, _, _, _),
          LuaK_patchclose(_, _, _), NeedValue(_, _)

LastOfList(c, list) ==
    IF GetJump(c, list) = NO_JUMP THEN list ELSE LastOfList(c, GetJump(c, list))

(* luaK_concat: the code after it, and the value of the list. *)
LuaK_concat(c, l1, l2) ==
    IF l1 = NO_JUMP \/ l2 = NO_JUMP THEN c ELSE FixJump(c, LastOfList(c, l1), l2)
Joined(l1, l2) == IF l1 = NO_JUMP THEN l2 ELSE l1

GetJumpControl(c, pc) == IF pc >= 1 /\ At(c, pc - 1).op \in TestOps THEN pc - 1 ELSE pc

ProducesValue(c, node) == At(c, GetJumpControl(c, node)).op = "TESTSET"

PatchTestReg(c, node, reg) ==
    LET pc == GetJumpControl(c, node)
        i  == At(c, pc)
    IN  CASE i.op # "TESTSET" -> c
          [] i.op = "TESTSET" /\ reg # NO_REG /\ reg # i.b -> [c EXCEPT !.f.code[pc + 1].a = reg]
          [] OTHER -> [c EXCEPT !.f.code[pc + 1] = Instr("TEST", i.b, 0, i.c)]

RemoveValues(c, list) ==
    IF list = NO_JUMP THEN c ELSE RemoveValues(PatchTestReg(c, list, NO_REG), GetJump(c, list))

(* Tests that produce values put them into reg and jump to vtarget, the    *)
(* others jump to dtarget.                                                 *)
PatchListAux(c, list, vtarget, reg, dtarget) ==
    IF list = NO_JUMP THEN c
    ELSE LET dest == IF ProducesValue(c, list) THEN vtarget ELSE dtarget
         IN  PatchListAux(FixJump(PatchTestReg(c, list, reg), list, dest),
                          GetJump(c, list), vtarget, reg, dtarget)

NeedValue(c, list) ==
    list # NO_JUMP /\ (~ProducesValue(c, list) \/ NeedValue(c, GetJump(c, list)))

(* luaK_code, after dischargejpc. *)
LuaK_code(c, i) ==
    LET d == PatchListAux(c, c.f.jpc, Pc(c), NO_REG, Pc(c))
    IN  [d EXCEPT !.f.jpc = NO_JUMP, !.f.code = Append(@, i)]

Emit(c, op, a, b, cc) == LuaK_code(c, Instr(op, a, b, cc))

(* The position of the jump is the pc before. *)
LuaK_jump(c) ==
    LET held == [c EXCEPT !.f.jpc = NO_JUMP]
    IN  LuaK_concat(Emit(held, "JMP", 0, NO_JUMP, 0), Pc(c), c.f.jpc)

(* The position of the jump is the pc before plus one. *)
CondJump(c, op, a, b, cc) == LuaK_jump(Emit(c, op, a, b, cc))

LuaK_getlabel(c) == [c EXCEPT !.f.lasttarget = Pc(c)]

LuaK_patchtohere(c, list) ==
    [LuaK_concat(LuaK_getlabel(c), c.f.jpc, list) EXCEPT !.f.jpc = Joined(c.f.jpc, list)]

LuaK_patchlist(c, list, target) ==
    IF target = Pc(c) THEN LuaK_patchtohere(c, list)
    ELSE PatchListAux(Lua_assert(c, target < Pc(c)), list, target, NO_REG, target)

LuaK_patchclose(c, list, level) ==
    IF list = NO_JUMP THEN c
    ELSE LET d == Lua_assert(c, At(c, list).op = "JMP" /\ (At(c, list).a = 0 \/ At(c, list).a >= level + 1))
         IN  LuaK_patchclose([d EXCEPT !.f.code[list + 1].a = level + 1], GetJump(c, list), level)

LuaK_ret(c, first, nret) == Emit(c, "RETURN", first, nret + 1, 0)

(* Fault: the previous instruction is extended across a jump target. *)
LuaK_nilAlways(c, from, n) ==
    IF Pc(c) > 0 /\ At(c, Pc(c) - 1).op = "LOADNIL" /\ At(c, Pc(c) - 1).a + At(c, Pc(c) - 1).b + 1 = from
    THEN [c EXCEPT !.f.code[Pc(c)].b = @ + n]
    ELSE Emit(c, "LOADNIL", from, n - 1, 0)

(* An OP_LOADNIL just before, in the same basic block, is extended. *)
LuaK_nil(c, from, n) ==
    LET prev == At(c, Pc(c) - 1)
        l  == from + n - 1
        pl == prev.a + prev.b
        low  == IF prev.a < from THEN prev.a ELSE from
        high == IF pl > l THEN pl ELSE l
    IN  IF /\ Pc(c) > c.f.lasttarget
           /\ prev.op = "LOADNIL"
           /\ (prev.a <= from /\ from <= pl + 1) \/ (from <= prev.a /\ prev.a <= l + 1)
        THEN [c EXCEPT !.f.code[Pc(c)] = Instr("LOADNIL", low, high - low, 0)]
        ELSE Emit(c, "LOADNIL", from, n - 1, 0)

----------------------------------------------------------------------------
(* Registers and constants. *)

(* Fault: the size of the frame is not kept. *)
LuaK_checkstackNot(c, n) == c

LuaK_checkstack(c, n) ==
    LET newstack == c.f.freereg + n
    IN  IF newstack <= c.f.maxstacksize THEN c
        ELSE [c EXCEPT !.f.maxstacksize = newstack, !.err = @ \/ newstack >= MAXREGS]

LuaK_reserveregs(c, n) == [LuaK_checkstack(c, n) EXCEPT !.f.freereg = @ + n]

FreeReg(c, reg) ==
    IF ISK(reg) \/ reg < c.f.nactvar THEN c
    ELSE Lua_assert([c EXCEPT !.f.freereg = @ - 1], reg = c.f.freereg - 1)

FreeExp(c, e) == IF e.k = "NONRELOC" THEN FreeReg(c, e.info) ELSE c


FreeExps(c, e1, e2) ==
    LET r(e) == IF e.k = "NONRELOC" THEN e.info ELSE -1
    IN  IF r(e1) > r(e2) THEN FreeExp(FreeExp(c, e1), e2) ELSE FreeExp(FreeExp(c, e2), e1)

(* addk: the scanner's table remembers positions for all functions, so the *)
(* one it gives is checked.                                                *)
Cached(c, v) == v \in DOMAIN c.h /\ c.h[v] < Len(c.f.k) /\ c.f.k[c.h[v] + 1] = v

AddK(c, v) ==
    IF Cached(c, v) THEN c
    ELSE [c EXCEPT !.f.k = Append(@, v),
                   !.h = [x \in DOMAIN @ \cup {v} |-> IF x = v THEN Len(c.f.k) ELSE @[x]]]
PositionK(c, v) == IF Cached(c, v) THEN c.h[v] ELSE Len(c.f.k)

LuaK_codek(c, reg, k) == Emit(c, "LOADK", reg, k, 0)

(* The value of a constant expression. *)
Constant(e) == CASE e.k = "NIL"   -> <<"nil", 0>>
                 [] e.k = "TRUE"  -> <<"bool", TRUE>>
                 [] e.k = "FALSE" -> <<"bool", FALSE>>
                 [] e.k = "KINT"  -> <<"int", e.info>>
                 [] e.k = "KFLT"  -> <<"float", e.info>>

----------------------------------------------------------------------------
(* Expressions. *)

Relocatable(x, op, b, cc) ==
    [c |-> Emit(x.c, op, 0, b, cc), e |-> [x.e EXCEPT !.k = "RELOC", !.info = Pc(x.c)]]

LuaK_setreturns(c, e, nresults) ==
    CASE e.k = "CALL"   -> [c EXCEPT !.f.code[e.info + 1].c = nresults + 1]
      [] e.k = "VARARG" -> LuaK_reserveregs(
             [c EXCEPT !.f.code[e.info + 1].b = nresults + 1,
                       !.f.code[e.info + 1].a = c.f.freereg], 1)
      [] OTHER -> Lua_assert(c, nresults = MULTRET)

LuaK_setoneret(x) ==
    CASE x.e.k = "CALL"   -> [c |-> Lua_assert(x.c, At(x.c, x.e.info).c = 2),
                              e |-> [x.e EXCEPT !.k = "NONRELOC", !.info = At(x.c, @).a]]
      [] x.e.k = "VARARG" -> [c |-> [x.c EXCEPT !.f.code[x.e.info + 1].b = 2],
                              e |-> [x.e EXCEPT !.k = "RELOC"]]
      [] OTHER -> x

LuaK_dischargevars(x) ==
    LET e == x.e
        freed == FreeReg(x.c, e.idx)
    IN  CASE e.k = "LOCAL"   -> [x EXCEPT !.e.k = "NONRELOC"]
          [] e.k = "UPVAL"   -> Relocatable(x, "GETUPVAL", e.info, 0)
          [] e.k = "INDEXED" /\ e.vt = "LOCAL" ->
               Relocatable([x EXCEPT !.c = FreeReg(freed, e.tab)], "GETTABLE", e.tab, e.idx)
          [] e.k = "INDEXED" /\ e.vt # "LOCAL" ->
               Relocatable([x EXCEPT !.c = Lua_assert(freed, e.vt = "UPVAL")], "GETTABUP", e.tab, e.idx)
          [] OTHER -> LuaK_setoneret(x)

Values == {"NIL", "TRUE", "FALSE", "K", "KINT", "KFLT", "RELOC", "NONRELOC"}

Discharge2Reg(x0, reg) ==
    LET x == LuaK_dischargevars(x0)
        c == x.c
        e == x.e
        done == CASE e.k = "NIL" -> LuaK_nil(c, reg, 1)
                  [] e.k \in {"TRUE", "FALSE"} ->
                       Emit(c, "LOADBOOL", reg, IF e.k = "TRUE" THEN 1 ELSE 0, 0)
                  [] e.k = "K" -> LuaK_codek(c, reg, e.info)
                  [] e.k \in {"KINT", "KFLT"} ->
                       LuaK_codek(AddK(c, Constant(e)), reg, PositionK(c, Constant(e)))
                  [] e.k = "RELOC" -> [c EXCEPT !.f.code[e.info + 1].a = reg]
                  [] e.k = "NONRELOC" /\ reg # e.info -> Emit(c, "MOVE", reg, e.info, 0)
                  [] OTHER -> c
    IN  IF e.k \in Values THEN [c |-> done, e |-> [e EXCEPT !.k = "NONRELOC", !.info = reg]]
        ELSE [x EXCEPT !.c = Lua_assert(@, e.k = "JMP")]

Discharge2AnyReg(x) ==
    IF x.e.k = "NONRELOC" THEN x
    ELSE LET c == LuaK_reserveregs(x.c, 1)
         IN  Discharge2Reg([x EXCEPT !.c = c], c.f.freereg - 1)

CodeLoadBool(c, a, b, jump) == Emit(LuaK_getlabel(c), "LOADBOOL", a, b, jump)

(* The instructions that load false and true for the tests without value. *)
LoadBools(x, reg) ==
    LET fj == IF x.e.k = "JMP" THEN NO_JUMP ELSE Pc(x.c)
        j  == IF x.e.k = "JMP" THEN x.c ELSE LuaK_jump(x.c)
    IN  LuaK_patchtohere(CodeLoadBool(CodeLoadBool(j, reg, 0, 1), reg, 1, 0), fj)

Exp2Reg(x0, reg) ==
    LET d == Discharge2Reg(x0, reg)
        t == IF d.e.k = "JMP" THEN Joined(d.e.t, d.e.info) ELSE d.e.t
        x == IF d.e.k = "JMP" THEN [c |-> LuaK_concat(d.c, d.e.t, d.e.info), e |-> [d.e EXCEPT !.t = t]]
             ELSE d
        need == NeedValue(x.c, t) \/ NeedValue(x.c, x.e.f)
        b == LuaK_getlabel(IF need THEN LoadBools(x, reg) ELSE x.c)
        p_f == IF need THEN Pc(b) - 2 ELSE NO_JUMP
        p_t == IF need THEN Pc(b) - 1 ELSE NO_JUMP
        patched == PatchListAux(PatchListAux(b, x.e.f, Pc(b), reg, p_f), t, Pc(b), reg, p_t)
    IN  [c |-> IF HasJumps(x.e) THEN patched ELSE x.c, e |-> Exp("NONRELOC", reg)]

LuaK_exp2nextreg(x0) ==
    LET x == LuaK_dischargevars(x0)
        c == LuaK_reserveregs(FreeExp(x.c, x.e), 1)
    IN  Exp2Reg([x EXCEPT !.c = c], c.f.freereg - 1)

LuaK_exp2anyreg(x0) ==
    LET x == LuaK_dischargevars(x0)
    IN  CASE x.e.k = "NONRELOC" /\ ~HasJumps(x.e) -> x
          [] x.e.k = "NONRELOC" /\ HasJumps(x.e) /\ x.e.info >= x.c.f.nactvar ->
               Exp2Reg(x, x.e.info)
          [] OTHER -> LuaK_exp2nextreg(x)

LuaK_exp2anyregup(x) ==
    IF x.e.k # "UPVAL" \/ HasJumps(x.e) THEN LuaK_exp2anyreg(x) ELSE x

LuaK_exp2val(x) == IF HasJumps(x.e) THEN LuaK_exp2anyreg(x) ELSE LuaK_dischargevars(x)

(* The R/K index is RK of the resulting expression. *)
LuaK_exp2RK(x0) ==
    LET x == LuaK_exp2val(x0)
    IN  CASE x.e.k \in {"TRUE", "FALSE", "NIL", "KINT", "KFLT"} ->
               LET v == Constant(x.e)
               IN  [c |-> AddK(x.c, v), e |-> [x.e EXCEPT !.k = "K", !.info = PositionK(x.c, v)]]
          [] x.e.k = "K" -> x
          [] OTHER -> LuaK_exp2anyreg(x)
RK(e) == IF e.k = "K" THEN RKASK(e.info) ELSE e.info

LuaK_storevar(c, var, ex) ==
    LET x == [c |-> c, e |-> ex]
        any == LuaK_exp2anyreg(x)
        rk == LuaK_exp2RK(x)
    IN  CASE var.k = "LOCAL" -> Exp2Reg([x EXCEPT !.c = FreeExp(c, ex)], var.info).c
          [] var.k = "UPVAL" -> FreeExp(Emit(any.c, "SETUPVAL", any.e.info, var.info, 0), any.e)
          [] var.k = "INDEXED" ->
               FreeExp(Emit(rk.c, IF var.vt = "LOCAL" THEN "SETTABLE" ELSE "SETTABUP",
                            var.tab, var.idx, RK(rk.e)), rk.e)

LuaK_self(x0, key) ==
    LET x == LuaK_exp2anyreg(x0)
        freed == FreeExp(x.c, x.e)
        base == freed.f.freereg
        k == LuaK_exp2RK([c |-> LuaK_reserveregs(freed, 2), e |-> key])
    IN  [c |-> FreeExp(Emit(k.c, "SELF", base, x.e.info, RK(k.e)), k.e),
         e |-> [x.e EXCEPT !.k = "NONRELOC", !.info = base]]

LuaK_indexed(x, key) ==
    LET k == LuaK_exp2RK([c |-> x.c, e |-> key])
    IN  [c |-> Lua_assert(k.c, ~HasJumps(x.e) /\ x.e.k \in {"NONRELOC", "LOCAL", "UPVAL"}),
         e |-> [x.e EXCEPT !.k = "INDEXED", !.tab = x.e.info, !.idx = RK(k.e),
                           !.vt = IF x.e.k = "UPVAL" THEN "UPVAL" ELSE "LOCAL"]]

----------------------------------------------------------------------------
(* Conditions and operators. *)

(* The condition is a comparison. *)
NegateCondition(c, e) ==
    LET pc == GetJumpControl(c, e.info)
    IN  [Lua_assert(c, At(c, pc).op \in {"EQ", "LT", "LE"}) EXCEPT !.f.code[pc + 1].a = 1 - @]

(* A not just emitted is taken back; the new jump is the last instruction. *)
JumpOnCond(x, cond) ==
    LET i == At(x.c, x.e.info)
        d == Discharge2AnyReg(x)
    IN  IF x.e.k = "RELOC" /\ i.op = "NOT"
        THEN CondJump([x.c EXCEPT !.f.code = SubSeq(@, 1, Len(@) - 1)], "TEST", i.b, 0, 1 - cond)
        ELSE CondJump(FreeExp(d.c, d.e), "TESTSET", NO_REG, d.e.info, cond)

LuaK_goiftrue(x0) ==
    LET x == LuaK_dischargevars(x0)
        true == x.e.k \in {"K", "KINT", "KFLT", "TRUE"}
        c == CASE x.e.k = "JMP" -> NegateCondition(x.c, x.e)
               [] true -> x.c
               [] OTHER -> JumpOnCond(x, 0)
        pc == CASE x.e.k = "JMP" -> x.e.info [] true -> NO_JUMP [] OTHER -> Pc(c) - 1
    IN  [c |-> LuaK_patchtohere(LuaK_concat(c, x.e.f, pc), x.e.t),
         e |-> [x.e EXCEPT !.f = Joined(@, pc), !.t = NO_JUMP]]

LuaK_goiffalse(x0) ==
    LET x == LuaK_dischargevars(x0)
        false == x.e.k \in {"NIL", "FALSE"}
        c == IF x.e.k = "JMP" \/ false THEN x.c ELSE JumpOnCond(x, 1)
        pc == CASE x.e.k = "JMP" -> x.e.info [] false -> NO_JUMP [] OTHER -> Pc(c) - 1
    IN  [c |-> LuaK_patchtohere(LuaK_concat(c, x.e.t, pc), x.e.f),
         e |-> [x.e EXCEPT !.t = Joined(@, pc), !.f = NO_JUMP]]

CodeNot(x0) ==
    LET x == LuaK_dischargevars(x0)
        d == Discharge2AnyReg(x)
        n == CASE x.e.k \in {"NIL", "FALSE"} -> [x EXCEPT !.e.k = "TRUE"]
               [] x.e.k \in {"K", "KINT", "KFLT", "TRUE"} -> [x EXCEPT !.e.k = "FALSE"]
               [] x.e.k = "JMP" -> [x EXCEPT !.c = NegateCondition(x.c, x.e)]
               [] OTHER -> Relocatable([d EXCEPT !.c = FreeExp(d.c, d.e)], "NOT", d.e.info, 0)
    IN  [c |-> RemoveValues(RemoveValues(n.c, n.e.t), n.e.f),
         e |-> [n.e EXCEPT !.t = n.e.f, !.f = n.e.t]]

ArithOps == {"ADD", "SUB", "MUL", "MOD", "POW", "DIV", "IDIV", "BAND", "BOR", "BXOR", "SHL", "SHR"}
CompareOps == {"EQ", "LT", "LE", "NE", "GT", "GE"}

ValidOp(op, v1, v2) ==
    /\ op \in BitOps => IsIntegral(v1) /\ IsIntegral(v2)
    /\ op \in {"DIV", "IDIV", "MOD"} => Ratio(v2)[1] # 0

(* constfolding: a float zero is not folded; an error of the operation is  *)
(* an error of the compiler.                                               *)
CanFold(op, e1, e2) ==
    /\ IsNumeral(e1) /\ IsNumeral(e2)
    /\ ValidOp(op, Constant(e1), Constant(e2))
    /\ ~ArithRaises(op, Constant(e1), Constant(e2)) =>
         LuaO_arith(op, Constant(e1), Constant(e2)) # FloatV(0, 1)

ConstFolding(c, op, e1, e2) ==
    LET v == LuaO_arith(op, Constant(e1), Constant(e2))
    IN  IF ArithRaises(op, Constant(e1), Constant(e2)) THEN [c |-> [c EXCEPT !.err = TRUE], e |-> e1]
        ELSE [c |-> c, e |-> [e1 EXCEPT !.k = IF v[1] = "int" THEN "KINT" ELSE "KFLT", !.info = v[2]]]

CodeUnexpVal(x0, op) ==
    LET x == LuaK_exp2anyreg(x0)
    IN  Relocatable([x EXCEPT !.c = FreeExp(x.c, x.e)], op, x.e.info, 0)

CodeBinexpVal(c, op, e1, e2) ==
    LET x1 == LuaK_exp2RK([c |-> c, e |-> e1])
        x2 == LuaK_exp2RK([c |-> x1.c, e |-> e2])
    IN  Relocatable([c |-> FreeExps(x2.c, x1.e, x2.e), e |-> x1.e], op, RK(x1.e), RK(x2.e))

CodeComp(c, op, e1, e2) ==
    LET x2 == LuaK_exp2RK([c |-> Lua_assert(c, e1.k \in {"K", "NONRELOC"}), e |-> e2])
        freed == FreeExps(x2.c, e1, x2.e)
        a == RK(e1)
        b == RK(x2.e)
    IN  [c |-> CASE op = "NE" -> CondJump(freed, "EQ", 0, a, b)
                 [] op = "GT" -> CondJump(freed, "LT", 1, b, a)
                 [] op = "GE" -> CondJump(freed, "LE", 1, b, a)
                 [] OTHER -> CondJump(freed, op, 1, a, b),
         e |-> [e1 EXCEPT !.k = "JMP", !.info = Pc(freed) + 1]]

(* A fake second operand is zero. *)
LuaK_prefix(op, x) ==
    LET ef == Exp("KINT", 0)
        folds == op \in {"UNM", "BNOT"} /\ CanFold(op, x.e, ef)
    IN  CASE folds -> ConstFolding(x.c, op, x.e, ef)
          [] ~folds /\ op # "NOT" -> CodeUnexpVal(x, op)
          [] op = "NOT" -> CodeNot(x)

LuaK_infix(op, x) ==
    CASE op = "AND" -> LuaK_goiftrue(x)
      [] op = "OR" -> LuaK_goiffalse(x)
      [] op = "CONCAT" -> LuaK_exp2nextreg(x)
      [] op \in ArithOps /\ IsNumeral(x.e) -> x
      [] OTHER -> LuaK_exp2RK(x)

(* a .. (b .. c) becomes one instruction over a range of registers. *)
PosfixConcat(c, e1, e2) ==
    LET x == LuaK_exp2val([c |-> c, e |-> e2])
        y == LuaK_exp2nextreg(x)
    IN  IF x.e.k = "RELOC" /\ At(x.c, x.e.info).op = "CONCAT"
        THEN [c |-> [FreeExp(Lua_assert(x.c, e1.info = At(x.c, x.e.info).b - 1), e1)
                       EXCEPT !.f.code[x.e.info + 1].b = e1.info],
              e |-> [e1 EXCEPT !.k = "RELOC", !.info = x.e.info]]
        ELSE CodeBinexpVal(y.c, "CONCAT", e1, y.e)

LuaK_posfix(c, op, e1, e2) ==
    LET d == LuaK_dischargevars([c |-> c, e |-> e2])
    IN  CASE op = "AND" -> [c |-> LuaK_concat(Lua_assert(d.c, e1.t = NO_JUMP), d.e.f, e1.f),
                            e |-> [d.e EXCEPT !.f = Joined(@, e1.f)]]
          [] op = "OR"  -> [c |-> LuaK_concat(Lua_assert(d.c, e1.f = NO_JUMP), d.e.t, e1.t),
                            e |-> [d.e EXCEPT !.t = Joined(@, e1.t)]]
          [] op = "CONCAT" -> PosfixConcat(c, e1, e2)
          [] op \in ArithOps /\ CanFold(op, e1, e2) -> ConstFolding(c, op, e1, e2)
          [] op \in ArithOps /\ ~CanFold(op, e1, e2) -> CodeBinexpVal(c, op, e1, e2)
          [] op \in CompareOps -> CodeComp(c, op, e1, e2)

LuaK_setlist(c, base, nelems, tostore) ==
    [Emit(Lua_assert(c, tostore # 0 /\ tostore <= LFIELDS_PER_FLUSH), "SETLIST", base, IF tostore = MULTRET THEN 0 ELSE tostore,
          (nelems - 1) \div LFIELDS_PER_FLUSH + 1) EXCEPT !.f.freereg = base + 1]
=============================================================================
