----------------------------- MODULE LuaParser -----------------------------
(***************************************************************************)
(* The parser of the Lua compiler (lua/lparser.c): recursive descent over  *)
(* the tokens of a program, calling the code generator as it goes.         *)
(*                                                                         *)
(* The state c of a compilation has the tokens (src, each with its value)  *)
(* and the position of the current one (i), the FuncState of the function  *)
(* being compiled (f) and of the functions around it (outer, the nearest   *)
(* first), the pending gotos (gt), the visible labels (label) and the      *)
(* scanner's table (h).  A block list has its innermost block first.       *)
(*                                                                         *)
(* History: c.wrong has the constructs met for which the source generates  *)
(* wrong code.                                                             *)
(*                                                                         *)
(* A compile error sets c.err and parsing goes on: what it produces is     *)
(* dropped.  Line numbers, the growth of vectors and the limit on nested   *)
(* C levels are left out.                                                  *)
(***************************************************************************)
EXTENDS LuaCode, SequencesExt

Tk(c) == c.src[c.i][1]
Seminfo(c) == c.src[c.i][2]
LuaX_next(c) == [c EXCEPT !.i = IF @ < Len(c.src) THEN @ + 1 ELSE @]
LuaX_lookahead(c) == c.src[c.i + 1][1]

CheckCondition(c, cond) == [c EXCEPT !.err = @ \/ ~cond]
TestNext(c, tk) == IF Tk(c) = tk THEN LuaX_next(c) ELSE c
Check(c, tk) == CheckCondition(c, Tk(c) = tk)
CheckNext(c, tk) == LuaX_next(Check(c, tk))

(* The name is Seminfo of the state before. *)
Str_checkname(c) == CheckNext(c, "name")

CodeString(c, s) ==
    LET v == <<"str", <<s>>>> IN [c |-> AddK(c, v), e |-> Exp("K", PositionK(c, v))]
CheckName(c) == CodeString(Str_checkname(c), Seminfo(c))

----------------------------------------------------------------------------
(* Variables. *)

New_localvar(c, name) == [c EXCEPT !.f.vars = Append(@, name)]
AdjustLocalVars(c, n) == [c EXCEPT !.f.nactvar = @ + n]
RemoveVars(c, tolevel) ==
    [c EXCEPT !.f.vars = SubSeq(@, 1, Len(@) - (c.f.nactvar - tolevel)), !.f.nactvar = tolevel]

SearchUpvalue(f, n) == Max({-1} \cup {i \in 0..(Len(f.up) - 1) : f.up[i + 1].name = n})
NewUpvalue(f, n, v) ==
    [f EXCEPT !.up = Append(@, [name |-> n, instack |-> v.k = "LOCAL", idx |-> v.info])]

SearchVar(f, n) == Max({-1} \cup {i \in 0..(f.nactvar - 1) : f.vars[i + 1] = n})

(* The block that defines the variable closes it on exit. *)
MarkUpval(f, level) ==
    [f EXCEPT !.bl[Min({j \in DOMAIN f.bl : f.bl[j].nactvar <= level})].upval = TRUE]

RECURSIVE SingleVarAux(_, _, _)

(* The functions fs from the current one outwards, with the upvalues that  *)
(* the name needs in all of them, and what the name is.                    *)
SingleVarAux(fs, n, base) ==
    LET f == Head(fs)
        v == SearchVar(f, n)
        idx == SearchUpvalue(f, n)
        up == SingleVarAux(Tail(fs), n, FALSE)
    IN  CASE fs = <<>> -> [fs |-> fs, k |-> "VOID", info |-> 0]
          [] fs # <<>> /\ v >= 0 ->
               [fs |-> <<IF base THEN f ELSE MarkUpval(f, v)>> \o Tail(fs), k |-> "LOCAL", info |-> v]
          [] fs # <<>> /\ v < 0 /\ idx >= 0 -> [fs |-> fs, k |-> "UPVAL", info |-> idx]
          [] OTHER -> IF up.k = "VOID" THEN [fs |-> fs, k |-> "VOID", info |-> 0]
                      ELSE [fs |-> <<NewUpvalue(f, n, up)>> \o up.fs, k |-> "UPVAL", info |-> Len(f.up)]

Named(c, n) ==
    LET r == SingleVarAux(<<c.f>> \o c.outer, n, TRUE)
    IN  [c |-> [c EXCEPT !.f = Head(r.fs), !.outer = Tail(r.fs)], e |-> Exp(r.k, r.info)]

SingleVar(c0) ==
    LET c == Str_checkname(c0)
        x == Named(c, Seminfo(c0))
        env == Named(x.c, "_ENV")
        key == CodeString(Lua_assert(env.c, env.e.k # "VOID"), Seminfo(c0))
    IN  IF x.e.k # "VOID" THEN x ELSE LuaK_indexed([c |-> key.c, e |-> env.e], key.e)

Adjust_assign(c, nvars, nexps, e) ==
    LET left == nvars - nexps
        extra == IF HasMultret(e.k) THEN Max({left + 1, 0}) ELSE left
        set == LuaK_setreturns(c, e, extra)
        last == IF e.k = "VOID" THEN c ELSE LuaK_exp2nextreg([c |-> c, e |-> e]).c
    IN  CASE HasMultret(e.k) -> IF extra > 1 THEN LuaK_reserveregs(set, extra - 1) ELSE set
          [] ~HasMultret(e.k) /\ extra > 0 ->
               LuaK_nil(LuaK_reserveregs(last, extra), last.f.freereg, extra)
          [] OTHER -> last

----------------------------------------------------------------------------
(* Labels, gotos and blocks. *)

NewLabelEntry(c, name, pc) == [name |-> name, pc |-> pc, nactvar |-> c.f.nactvar]

(* Fault: a jump into the scope of a local variable is accepted. *)
CloseGotoAnywhere(c, g, label) ==
    [LuaK_patchlist(c, c.gt[g].pc, label.pc) EXCEPT !.gt = RemoveAt(@, g)]

CloseGoto(c, g, label) ==
    LET ok == CheckCondition(Lua_assert(c, c.gt[g].name = label.name), c.gt[g].nactvar >= label.nactvar)
    IN  [LuaK_patchlist(ok, c.gt[g].pc, label.pc) EXCEPT !.gt = RemoveAt(@, g)]

(* A backward jump is closed by the first label of its name in the block. *)
FindLabel(c, g) ==
    LET bl == Head(c.f.bl)
        gt == c.gt[g]
        found == {i \in (bl.firstlabel + 1)..Len(c.label) : c.label[i].name = gt.name}
        lb == c.label[Min(found)]
        closing == gt.nactvar > lb.nactvar /\ (bl.upval \/ Len(c.label) > bl.firstlabel)
    IN  IF found = {} THEN c
        ELSE CloseGoto(IF closing THEN LuaK_patchclose(c, gt.pc, lb.nactvar) ELSE c, g, lb)

RECURSIVE FindGotos(_, _, _), MoveGotosOut(_, _, _)

FindGotos(c, lb, i) ==
    CASE i > Len(c.gt) -> c
      [] i <= Len(c.gt) /\ c.gt[i].name = lb.name -> FindGotos(CloseGoto(c, i, lb), lb, i)
      [] OTHER -> FindGotos(c, lb, i + 1)


(* A pending goto leaves the block: the variables it exits are closed. *)
LeaveScope(c, bl, i) ==
    LET d == IF bl.upval THEN LuaK_patchclose(c, c.gt[i].pc, bl.nactvar) ELSE c
    IN  [d EXCEPT !.gt[i].nactvar = bl.nactvar]

MoveGotosOut(c, bl, i) ==
    LET d == FindLabel(IF c.gt[i].nactvar > bl.nactvar THEN LeaveScope(c, bl, i) ELSE c, i)
    IN  IF i > Len(c.gt) THEN c
        ELSE MoveGotosOut(d, bl, IF Len(d.gt) < Len(c.gt) THEN i ELSE i + 1)

EnterBlock(c, isloop) ==
    LET bl == [isloop |-> isloop, nactvar |-> c.f.nactvar, firstlabel |-> Len(c.label),
               firstgoto |-> Len(c.gt), upval |-> FALSE]
    IN  Lua_assert([c EXCEPT !.f.bl = <<bl>> \o @], c.f.freereg = c.f.nactvar)

BreakLabel(c) ==
    LET lb == NewLabelEntry(c, "break", Pc(c))
    IN  FindGotos([c EXCEPT !.label = Append(@, lb)], lb, Head(c.f.bl).firstgoto + 1)

LeaveBlock(c) ==
    LET bl == Head(c.f.bl)
        inner == Len(c.f.bl) > 1
        closed == IF inner /\ bl.upval
                  THEN LuaK_patchtohere(LuaK_patchclose(LuaK_jump(c), Pc(c), bl.nactvar), Pc(c))
                  ELSE c
        broken == IF bl.isloop THEN BreakLabel(closed) ELSE closed
        left == [RemoveVars([Lua_assert(broken, bl.nactvar <= broken.f.nactvar) EXCEPT !.f.bl = Tail(@)],
                            bl.nactvar)
                   EXCEPT !.f.freereg = bl.nactvar, !.label = SubSeq(@, 1, bl.firstlabel)]
    IN  IF inner THEN MoveGotosOut(left, bl, bl.firstgoto + 1)
        ELSE [CheckCondition(left, bl.firstgoto = Len(left.gt)) EXCEPT !.gt = SubSeq(@, 1, bl.firstgoto)]

----------------------------------------------------------------------------
(* Functions. *)

NewFuncState ==
    [code |-> <<>>, jpc |-> NO_JUMP, lasttarget |-> 0, freereg |-> 0, k |-> <<>>, p |-> <<>>,
     up |-> <<>>, vars |-> <<>>, nactvar |-> 0, bl |-> <<>>, maxstacksize |-> 2,
     numparams |-> 0, is_vararg |-> 0, source |-> "chunk"]

Open_func(c) == EnterBlock([c EXCEPT !.outer = <<c.f>> \o @, !.f = NewFuncState], FALSE)

Proto(f) == [code |-> f.code, k |-> f.k, p |-> f.p, up |-> f.up, numparams |-> f.numparams,
             is_vararg |-> f.is_vararg, maxstacksize |-> f.maxstacksize, source |-> f.source]

(* close_func; the prototype joins those of the function around it. *)
Close_func(c) ==
    LET e == LeaveBlock(LuaK_ret(c, 0, 0))
        d == Lua_assert(e, e.f.bl = <<>> /\ e.f.vars = <<>>)
    IN  [d EXCEPT !.f = [Head(d.outer) EXCEPT !.p = Append(@, Proto(d.f))], !.outer = Tail(@)]

CodeClosure(c) ==
    LuaK_exp2nextreg(Relocatable([c |-> c, e |-> Exp("VOID", 0)], "CLOSURE", Len(c.f.p) - 1, 0))

----------------------------------------------------------------------------
(* Grammar rules: expressions. *)

RECURSIVE SubExpr(_, _), Operators(_, _), Statement(_), StatList(_), Fields(_, _), Params(_, _),
          MoreExps(_), SuffixLoop(_), Assignment(_, _), StoreAll(_, _, _), SkipNoopStat(_),
          MoreNames(_), ElseIfs(_), NameSuffixes(_)

Block_follow(c, withuntil) ==
    Tk(c) \in {"else", "elseif", "end", "eos"} \/ (Tk(c) = "until" /\ withuntil)

StatList(c) ==
    CASE Block_follow(c, TRUE) -> c
      [] Tk(c) = "return" -> Statement(c)
      [] OTHER -> StatList(Statement(c))

Expr(c) == SubExpr(c, 0)

FieldSel(x) ==
    LET up == LuaK_exp2anyregup(x)
        key == CheckName(LuaX_next(up.c))
    IN  LuaK_indexed([up EXCEPT !.c = key.c], key.e)

Yindex(c) ==
    LET x == LuaK_exp2val(Expr(LuaX_next(c))) IN [x EXCEPT !.c = CheckNext(x.c, "]")]

(* A constructor is y = [c, v, na, nh, tostore]: ConsControl, with the     *)
(* table in register t.                                                    *)
RecField(y, t) ==
    LET key == IF Tk(y.c) = "name" THEN CheckName(y.c) ELSE Yindex(y.c)
        rkkey == LuaK_exp2RK([key EXCEPT !.c = CheckNext(key.c, "=")])
        val == LuaK_exp2RK(Expr(rkkey.c))
        d == Emit(val.c, "SETTABLE", t, RK(rkkey.e), RK(val.e))
    IN  [y EXCEPT !.c = [d EXCEPT !.f.freereg = y.c.f.freereg], !.nh = @ + 1]

CloseListField(y, t) ==
    LET x == LuaK_exp2nextreg([c |-> y.c, e |-> y.v])
        full == y.tostore = LFIELDS_PER_FLUSH
    IN  IF y.v.k = "VOID" THEN y
        ELSE [y EXCEPT !.c = IF full THEN LuaK_setlist(x.c, t, y.na, y.tostore) ELSE x.c,
                       !.v = Exp("VOID", 0), !.tostore = IF full THEN 0 ELSE @]

LastListField(y, t) ==
    LET x == LuaK_exp2nextreg([c |-> y.c, e |-> y.v])
    IN  CASE y.tostore = 0 -> y
          [] y.tostore # 0 /\ HasMultret(y.v.k) ->
               [y EXCEPT !.c = LuaK_setlist(LuaK_setreturns(y.c, y.v, MULTRET), t, y.na, MULTRET),
                         !.na = @ - 1]
          [] OTHER -> [y EXCEPT !.c = LuaK_setlist(IF y.v.k = "VOID" THEN y.c ELSE x.c, t, y.na, y.tostore)]

ListField(y) ==
    LET x == Expr(y.c) IN [y EXCEPT !.c = x.c, !.v = x.e, !.na = @ + 1, !.tostore = @ + 1]

Field(y, t) ==
    IF Tk(y.c) = "[" \/ (Tk(y.c) = "name" /\ LuaX_lookahead(y.c) = "=") THEN RecField(y, t)
    ELSE ListField(y)

Fields(y, t) ==
    LET z == Field(CloseListField([y EXCEPT !.c = Lua_assert(@, y.v.k = "VOID" \/ y.tostore > 0)], t), t)
    IN  CASE Tk(y.c) = "}" -> y
          [] Tk(y.c) # "}" /\ Tk(z.c) \in {",", ";"} -> Fields([z EXCEPT !.c = LuaX_next(@)], t)
          [] OTHER -> z

Constructor(c) ==
    LET pc == Pc(c)
        tab == LuaK_exp2nextreg(Relocatable([c |-> c, e |-> Exp("VOID", 0)], "NEWTABLE", 0, 0))
        y == Fields([c |-> CheckNext(tab.c, "{"), v |-> Exp("VOID", 0), na |-> 0, nh |-> 0, tostore |-> 0],
                    tab.e.info)
        z == LastListField([y EXCEPT !.c = CheckNext(@, "}")], tab.e.info)
    IN  [c |-> [z.c EXCEPT !.f.code[pc + 1].b = z.na, !.f.code[pc + 1].c = z.nh], e |-> tab.e]

Params(c, n) ==
    LET d == IF Tk(c) = "name" THEN Str_checkname(New_localvar(c, Seminfo(c)))
             ELSE [CheckNext(c, "...") EXCEPT !.f.is_vararg = 2]
        m == IF Tk(c) = "name" THEN n + 1 ELSE n
    IN  IF Tk(d) = "," /\ d.f.is_vararg = 0 THEN Params(LuaX_next(d), m)
        ELSE AdjustLocalVars(d, m)

ParList(c) ==
    LET d == IF Tk(c) = ")" THEN c ELSE Params(c, 0)
    IN  LuaK_reserveregs([d EXCEPT !.f.numparams = d.f.nactvar], d.f.nactvar)

(* Closing the function and coding its closure touch different FuncStates. *)
Body(c, ismethod) ==
    LET open == CheckNext(Open_func(c), "(")
        self == IF ismethod THEN AdjustLocalVars(New_localvar(open, "self"), 1) ELSE open
        stats == StatList(CheckNext(ParList(self), ")"))
    IN  CodeClosure(Close_func(CheckNext(stats, "end")))

MoreExps(r) ==
    LET next == LuaK_exp2nextreg([c |-> r.c, e |-> r.e])
        x == Expr(LuaX_next(next.c))
    IN  IF Tk(r.c) = "," THEN MoreExps([c |-> x.c, e |-> x.e, n |-> r.n + 1]) ELSE r
ExpList(c) == LET x == Expr(c) IN MoreExps([c |-> x.c, e |-> x.e, n |-> 1])

(* The arguments in parentheses; a last one of many values stays open. *)
ArgList(c) ==
    LET r == ExpList(c)
    IN  IF Tk(c) = ")" THEN [c |-> c, e |-> Exp("VOID", 0)]
        ELSE [c |-> IF HasMultret(r.e.k) THEN LuaK_setreturns(r.c, r.e, MULTRET) ELSE r.c, e |-> r.e]

FuncArgs(x) ==
    LET list == ArgList(LuaX_next(x.c))
        args == CASE Tk(x.c) = "(" -> [list EXCEPT !.c = CheckNext(@, ")")]
                  [] Tk(x.c) = "{" -> Constructor(x.c)
                  [] OTHER -> CodeString(CheckNext(x.c, "string"), Seminfo(x.c))
        base == x.e.info
        c == IF HasMultret(args.e.k) \/ args.e.k = "VOID" THEN args.c ELSE LuaK_exp2nextreg(args).c
        nparams == IF HasMultret(args.e.k) THEN MULTRET ELSE c.f.freereg - (base + 1)
        call == Emit(Lua_assert(c, x.e.k = "NONRELOC"), "CALL", base, nparams + 1, 2)
    IN  [c |-> [call EXCEPT !.f.freereg = base + 1], e |-> Exp("CALL", Pc(c))]

PrimaryExp(c) ==
    LET x == Expr(LuaX_next(c))
    IN  IF Tk(c) = "(" THEN LuaK_dischargevars([x EXCEPT !.c = CheckNext(@, ")")])
        ELSE SingleVar(c)

SuffixLoop(x) ==
    LET up == LuaK_exp2anyregup(x)
        key == Yindex(up.c)
        name == CheckName(LuaX_next(x.c))
    IN  CASE Tk(x.c) = "." -> SuffixLoop(FieldSel(x))
          [] Tk(x.c) = "[" -> SuffixLoop(LuaK_indexed([up EXCEPT !.c = key.c], key.e))
          [] Tk(x.c) = ":" -> SuffixLoop(FuncArgs(LuaK_self([x EXCEPT !.c = name.c], name.e)))
          [] Tk(x.c) \in {"(", "string", "{"} -> SuffixLoop(FuncArgs(LuaK_exp2nextreg(x)))
          [] OTHER -> x
SuffixedExp(c) == SuffixLoop(PrimaryExp(c))

SimpleExp(c) ==
    LET d == LuaX_next(c)
        vararg == CheckCondition([d EXCEPT !.f.is_vararg = 1], c.f.is_vararg # 0)
    IN  CASE Tk(c) = "int" -> [c |-> d, e |-> Exp("KINT", Seminfo(c))]
          [] Tk(c) = "string" -> CodeString(d, Seminfo(c))
          [] Tk(c) = "nil" -> [c |-> d, e |-> Exp("NIL", 0)]
          [] Tk(c) = "true" -> [c |-> d, e |-> Exp("TRUE", 0)]
          [] Tk(c) = "false" -> [c |-> d, e |-> Exp("FALSE", 0)]
          [] Tk(c) = "..." -> [c |-> Emit(vararg, "VARARG", 0, 1, 0), e |-> Exp("VARARG", Pc(c))]
          [] Tk(c) = "{" -> Constructor(c)
          [] Tk(c) = "function" -> Body(d, FALSE)
          [] OTHER -> SuffixedExp(c)

UnOprs == [tk \in {"not", "-", "~", "#"} |->
             CASE tk = "not" -> "NOT" [] tk = "-" -> "UNM" [] tk = "~" -> "BNOT" [] tk = "#" -> "LEN"]

BinOpr(op, left, right) == [op |-> op, left |-> left, right |-> right]

(* getbinopr and the priorities of the operator. *)
GetBinOpr(tk) ==
    CASE tk = "+"  -> BinOpr("ADD", 10, 10)  [] tk = "-"  -> BinOpr("SUB", 10, 10)
      [] tk = "*"  -> BinOpr("MUL", 11, 11)  [] tk = "%"  -> BinOpr("MOD", 11, 11)
      [] tk = "^"  -> BinOpr("POW", 14, 13)  [] tk = "/"  -> BinOpr("DIV", 11, 11)
      [] tk = "//" -> BinOpr("IDIV", 11, 11) [] tk = "&"  -> BinOpr("BAND", 6, 6)
      [] tk = "|"  -> BinOpr("BOR", 4, 4)    [] tk = "~"  -> BinOpr("BXOR", 5, 5)
      [] tk = "<<" -> BinOpr("SHL", 7, 7)    [] tk = ">>" -> BinOpr("SHR", 7, 7)
      [] tk = ".." -> BinOpr("CONCAT", 9, 8)
      [] tk = "==" -> BinOpr("EQ", 3, 3)     [] tk = "~=" -> BinOpr("NE", 3, 3)
      [] tk = "<"  -> BinOpr("LT", 3, 3)     [] tk = "<=" -> BinOpr("LE", 3, 3)
      [] tk = ">"  -> BinOpr("GT", 3, 3)     [] tk = ">=" -> BinOpr("GE", 3, 3)
      [] tk = "and" -> BinOpr("AND", 2, 2)   [] tk = "or" -> BinOpr("OR", 1, 1)
      [] OTHER -> BinOpr("NOBINOPR", 0, 0)

UNARY_PRIORITY == 12

(* Operators that bind tighter than limit. *)
Operators(x, limit) ==
    LET o == GetBinOpr(Tk(x.c))
        left == LuaK_infix(o.op, [x EXCEPT !.c = LuaX_next(@)])
        right == SubExpr(left.c, o.right)
    IN  IF o.left <= limit THEN x ELSE Operators(LuaK_posfix(right.c, o.op, left.e, right.e), limit)

SubExpr(c, limit) ==
    Operators(IF Tk(c) \in DOMAIN UnOprs
              THEN LuaK_prefix(UnOprs[Tk(c)], SubExpr(LuaX_next(c), UNARY_PRIORITY))
              ELSE SimpleExp(c), limit)

----------------------------------------------------------------------------
(* Grammar rules: statements. *)

Block(c) == LeaveBlock(StatList(EnterBlock(c, FALSE)))

(* An earlier target that indexes with the variable assigned now uses a    *)
(* copy of its value.                                                      *)
Check_conflict(c, lhs, v) ==
    LET extra == c.f.freereg
        asTable(l) == l.k = "INDEXED" /\ l.vt = v.k /\ l.tab = v.info
        asKey(l) == l.k = "INDEXED" /\ v.k = "LOCAL" /\ l.idx = v.info
        safe(l) == [l EXCEPT !.vt = IF asTable(l) THEN "LOCAL" ELSE @,
                             !.tab = IF asTable(l) THEN extra ELSE @,
                             !.idx = IF asKey(l) THEN extra ELSE @]
        copy == Emit(c, IF v.k = "LOCAL" THEN "MOVE" ELSE "GETUPVAL", extra, v.info, 0)
    IN  [c |-> IF \E j \in DOMAIN lhs : asTable(lhs[j]) \/ asKey(lhs[j])
               THEN LuaK_reserveregs(copy, 1) ELSE c,
         lhs |-> [j \in DOMAIN lhs |-> safe(lhs[j])]]

(* Targets are assigned from the last one to the first. *)
StoreAll(c, lhs, n) ==
    IF n = 0 THEN c
    ELSE StoreAll(LuaK_storevar(c, lhs[n], Exp("NONRELOC", c.f.freereg - 1)), lhs, n - 1)

Assignment(c0, lhs) ==
    LET c == CheckCondition(c0, Last(lhs).k \in {"LOCAL", "UPVAL", "INDEXED"})
        x == SuffixedExp(LuaX_next(c))
        safe == IF x.e.k = "INDEXED" THEN [c |-> x.c, lhs |-> lhs] ELSE Check_conflict(x.c, lhs, x.e)
        nvars == Len(lhs)
        r == ExpList(CheckNext(c, "="))
        one == LuaK_setoneret([c |-> r.c, e |-> r.e])
        adjusted == [Adjust_assign(r.c, nvars, r.n, r.e) EXCEPT !.f.freereg = @ - Max({r.n - nvars, 0})]
    IN  CASE Tk(c) = "," -> Assignment(safe.c, Append(safe.lhs, x.e))
          [] Tk(c) # "," /\ r.n # nvars -> StoreAll(adjusted, lhs, nvars)
          [] OTHER -> StoreAll(LuaK_storevar(one.c, Last(lhs), one.e), lhs, nvars - 1)

(* The jumps taken when the condition is false are the list f. *)
Cond(c) ==
    LET x == Expr(c) IN LuaK_goiftrue([x EXCEPT !.e.k = IF @ = "NIL" THEN "FALSE" ELSE @])

GotoStat(c, pc) ==
    LET label == IF Tk(c) = "goto" THEN Seminfo(LuaX_next(c)) ELSE "break"
        d == IF Tk(c) = "goto" THEN Str_checkname(LuaX_next(c)) ELSE LuaX_next(c)
    IN  FindLabel([d EXCEPT !.gt = Append(@, NewLabelEntry(d, label, pc))], Len(d.gt) + 1)

CheckRepeated(c, label) ==
    CheckCondition(c, \A i \in (Head(c.f.bl).firstlabel + 1)..Len(c.label) : c.label[i].name # label)

SkipNoopStat(c) == IF Tk(c) \in {";", "::"} THEN SkipNoopStat(Statement(c)) ELSE c

(* A label at the end of its block is outside the scope of its locals. *)
LabelStat(c0) ==
    LET name == Seminfo(c0)
        c == CheckNext(CheckRepeated(Str_checkname(c0), name), "::")
        l == Len(c.label) + 1
        here == LuaK_getlabel([c EXCEPT !.label = Append(@, NewLabelEntry(c, name, Pc(c)))])
        d == SkipNoopStat(here)
        e == IF Block_follow(d, FALSE) THEN [d EXCEPT !.label[l].nactvar = Head(d.f.bl).nactvar] ELSE d
    IN  FindGotos(e, e.label[l], Head(e.f.bl).firstgoto + 1)

LuaK_jumpto(c, target) == LuaK_patchlist(LuaK_jump(c), Pc(c), target)

WhileStat(c) ==
    LET init == LuaK_getlabel(LuaX_next(c))
        condexit == Cond(init)
        loop == Block(CheckNext(EnterBlock(condexit.c, TRUE), "do"))
    IN  LuaK_patchtohere(LeaveBlock(CheckNext(LuaK_jumpto(loop, Pc(c)), "end")), condexit.e.f)

(* The condition is inside the scope of the block's variables. *)
RepeatStat(c) ==
    LET init == EnterBlock(EnterBlock(LuaK_getlabel(c), TRUE), FALSE)
        condexit == Cond(CheckNext(StatList(LuaX_next(init)), "until"))
        bl2 == Head(condexit.c.f.bl)
        closed == IF bl2.upval THEN LuaK_patchclose(condexit.c, condexit.e.f, bl2.nactvar) ELSE condexit.c
    IN  LeaveBlock(LuaK_patchlist(LeaveBlock(closed), condexit.e.f, Pc(c)))

Exp1(c) == LET x == LuaK_exp2nextreg(Expr(c)) IN Lua_assert(x.c, x.e.k = "NONRELOC")

ForBody(c, base, nvars, isnum) ==
    LET d == CheckNext(AdjustLocalVars(c, 3), "do")
        prep == Pc(d)
        jump == IF isnum THEN Emit(d, "FORPREP", base, NO_JUMP, 0) ELSE LuaK_jump(d)
        scope == LuaK_reserveregs(AdjustLocalVars(EnterBlock(jump, FALSE), nvars), nvars)
        back == LuaK_patchtohere(LeaveBlock(Block(scope)), prep)
        loop == IF isnum THEN Emit(back, "FORLOOP", base, NO_JUMP, 0)
                ELSE Emit(Emit(back, "TFORCALL", base, 0, nvars), "TFORLOOP", base + 2, NO_JUMP, 0)
    IN  LuaK_patchlist(loop, Pc(loop) - 1, prep + 1)

New_controlvars(c) == New_localvar(New_localvar(New_localvar(c, "(for)"), "(for)"), "(for)")

ForNum(c, varname) ==
    LET one == <<"int", 1>>
        c2 == Exp1(CheckNext(New_localvar(New_controlvars(c), varname), "="))
        c3 == Exp1(CheckNext(c2, ","))
        step == IF Tk(c3) = "," THEN Exp1(LuaX_next(c3))
                ELSE LuaK_reserveregs(LuaK_codek(AddK(c3, one), c3.f.freereg, PositionK(c3, one)), 1)
    IN  ForBody(step, c.f.freereg, 1, TRUE)

MoreNames(c) ==
    IF Tk(c) # "," THEN c
    ELSE LET d == LuaX_next(c) IN MoreNames(Str_checkname(New_localvar(d, Seminfo(d))))

(* Only an assignment gives back the registers of surplus expressions:     *)
(* those of a list of more than three stay under the variables of the loop.*)
ForList(c, indexname) ==
    LET names == MoreNames(New_localvar(New_controlvars(c), indexname))
        r == ExpList(CheckNext(names, "in"))
        gen == LuaK_checkstack(Adjust_assign(r.c, 3, r.n, r.e), 3)
        known == [gen EXCEPT !.wrong = @ \cup (IF r.n > 3 THEN {"for list"} ELSE {})]
    IN  ForBody(known, c.f.freereg, Len(names.f.vars) - Len(c.f.vars) - 3, FALSE)

ForStat(c) ==
    LET d == LuaX_next(EnterBlock(c, TRUE))
        named == Str_checkname(d)
        loop == IF Tk(named) = "=" THEN ForNum(named, Seminfo(d)) ELSE ForList(named, Seminfo(d))
    IN  LeaveBlock(CheckNext(loop, "end"))

(* After a then block that ends here; jf skips it. *)
ThenBlock(c, jf, escapelist) ==
    LET d == LeaveBlock(StatList(c))
        more == Tk(d) \in {"else", "elseif"}
        e == IF more THEN LuaK_concat(LuaK_jump(d), escapelist, Pc(d)) ELSE d
    IN  [c |-> LuaK_patchtohere(e, jf),
         escapelist |-> IF more THEN Joined(escapelist, Pc(d)) ELSE escapelist]

(* A goto or break at the start of the block takes the condition's jumps;  *)
(* the jump over the rest is made after the labels that follow it, so that *)
(* a goto to one of them takes it.                                         *)
Test_then_block(c, escapelist) ==
    LET v == Expr(LuaX_next(c))
        x == [v EXCEPT !.c = CheckNext(@, "then")]
        unless == LuaK_goiffalse(x)
        goto == GotoStat(EnterBlock(unless.c, FALSE), unless.e.t)
        jump == SkipNoopStat(goto)
        known == [jump EXCEPT !.wrong = @ \cup (IF Tk(goto) = "::" THEN {"label"} ELSE {})]
        whole == Block_follow(jump, FALSE)
        iftrue == LuaK_goiftrue(x)
    IN  CASE Tk(x.c) \in {"goto", "break"} /\ whole ->
               [c |-> LeaveBlock(jump), escapelist |-> escapelist]
          [] Tk(x.c) \in {"goto", "break"} /\ ~whole ->
               ThenBlock(LuaK_jump(known), Pc(jump), escapelist)
          [] OTHER -> ThenBlock(EnterBlock(iftrue.c, FALSE), iftrue.e.f, escapelist)

ElseIfs(r) == IF Tk(r.c) = "elseif" THEN ElseIfs(Test_then_block(r.c, r.escapelist)) ELSE r

IfStat(c) ==
    LET r == ElseIfs(Test_then_block(c, NO_JUMP))
        d == IF Tk(r.c) = "else" THEN Block(LuaX_next(r.c)) ELSE r.c
    IN  LuaK_patchtohere(CheckNext(d, "end"), r.escapelist)

LocalFunc(c) ==
    Body(AdjustLocalVars(Str_checkname(New_localvar(c, Seminfo(c))), 1), FALSE).c

LocalStat(c) ==
    LET names == MoreNames(Str_checkname(New_localvar(c, Seminfo(c))))
        nvars == Len(names.f.vars) - Len(c.f.vars)
        r == ExpList(LuaX_next(names))
    IN  AdjustLocalVars(IF Tk(names) = "=" THEN Adjust_assign(r.c, nvars, r.n, r.e)
                        ELSE Adjust_assign(names, nvars, 0, Exp("VOID", 0)), nvars)

NameSuffixes(x) == IF Tk(x.c) = "." THEN NameSuffixes(FieldSel(x)) ELSE x

FuncStat(c) ==
    LET v == NameSuffixes(SingleVar(LuaX_next(c)))
        ismethod == Tk(v.c) = ":"
        name == IF ismethod THEN FieldSel(v) ELSE v
        b == Body(name.c, ismethod)
    IN  LuaK_storevar(b.c, name.e, b.e)

ExprStat(c) ==
    LET x == SuffixedExp(c)
    IN  CASE Tk(x.c) \in {"=", ","} -> Assignment(x.c, <<x.e>>)
          [] Tk(x.c) \notin {"=", ","} /\ x.e.k = "CALL" -> [x.c EXCEPT !.f.code[x.e.info + 1].c = 1]
          [] OTHER -> CheckCondition(x.c, FALSE)

RetStat(c) ==
    LET r == ExpList(c)
        x == [c |-> r.c, e |-> r.e]
        open == LuaK_setreturns(r.c, r.e, MULTRET)
        tail == Lua_assert([open EXCEPT !.f.code[r.e.info + 1].op = "TAILCALL"],
                       At(open, r.e.info).a = c.f.nactvar)
        any == LuaK_exp2anyreg(x)
        next == LuaK_exp2nextreg(x).c
        nact == r.c.f.nactvar
        d == CASE Block_follow(c, TRUE) \/ Tk(c) = ";" -> LuaK_ret(c, 0, 0)
               [] r.e.k = "CALL" /\ r.n = 1 -> LuaK_ret(tail, nact, MULTRET)
               [] HasMultret(r.e.k) -> LuaK_ret(open, nact, MULTRET)
               [] r.n = 1 -> LuaK_ret(any.c, any.e.info, 1)
               [] OTHER -> LuaK_ret(Lua_assert(next, r.n = next.f.freereg - nact), nact, r.n)
    IN  TestNext(d, ";")

Statement(c) ==
    LET d == LuaX_next(c)
        s == CASE Tk(c) = ";" -> d
               [] Tk(c) = "if" -> IfStat(c)
               [] Tk(c) = "while" -> WhileStat(c)
               [] Tk(c) = "do" -> CheckNext(Block(d), "end")
               [] Tk(c) = "for" -> ForStat(c)
               [] Tk(c) = "repeat" -> RepeatStat(c)
               [] Tk(c) = "function" -> FuncStat(c)
               [] Tk(c) = "local" -> IF Tk(d) = "function" THEN LocalFunc(LuaX_next(d)) ELSE LocalStat(d)
               [] Tk(c) = "::" -> LabelStat(d)
               [] Tk(c) = "return" -> RetStat(d)
               [] Tk(c) \in {"break", "goto"} -> GotoStat(LuaK_jump(c), Pc(c))
               [] OTHER -> ExprStat(c)
    IN  [Lua_assert(s, s.f.maxstacksize >= s.f.freereg /\ s.f.freereg >= s.f.nactvar)
           EXCEPT !.f.freereg = s.f.nactvar]

(* luaY_parser and mainfunc: the main function has the upvalue _ENV and is *)
(* a prototype of the empty function around it.                            *)
LuaY_parser(tokens) ==
    LET none == [src |-> tokens, i |-> 1, f |-> NewFuncState, outer |-> <<>>, gt |-> <<>>,
                 label |-> <<>>, h |-> <<>>, bad |-> FALSE, wrong |-> {}, err |-> FALSE]
        open == Open_func(none)
        main == [open EXCEPT !.f = [NewUpvalue(@, "_ENV", Exp("LOCAL", 0)) EXCEPT !.is_vararg = 2],
                             !.outer = <<>>]
        d == Check(StatList(main), "eos")
        done == Close_func([d EXCEPT !.outer = <<NewFuncState>>])
    IN  [proto |-> done.f.p[1], err |-> done.err, wrong |-> done.wrong,
         bad |-> Lua_assert(done, Len(done.f.p[1].up) = 1 /\ done.gt = <<>> /\ done.label = <<>>).bad]
=============================================================================
