---------------------------- MODULE LuaSemantics ----------------------------
(***************************************************************************)
(* The reference for the compiler and the virtual machine: the programs as *)
(* syntax trees, the tokens the scanner gives for them, and what they      *)
(* compute, by direct evaluation of the tree.                              *)
(*                                                                         *)
(* A value is a pair of its type and its content; a string is a sequence   *)
(* of pieces and no program builds one string from different pieces.       *)
(* Evaluation threads a state s: the contents of variables (loc), tables   *)
(* (tab) and functions (fn), and whether an error was raised (err).  An    *)
(* environment maps names to variables; _ENV is variable 1 and holds       *)
(* table 1, the globals.                                                   *)
(***************************************************************************)
EXTENDS LuaArith, Sequences, SequencesExt

Nil == <<"nil", 0>>
Truthy(v) == v # Nil /\ v # <<"bool", FALSE>>
BoolV(b) == <<"bool", b>>
StrV(s) == <<"str", <<s>>>>

----------------------------------------------------------------------------
(* Tokens. *)

Sym(tk) == <<<<tk, "">>>>
NameTk(n) == <<<<"name", n>>>>

RECURSIVE ExpTks(_), ListTks(_), StatTks(_), BlockTks(_), NamesTks(_), ClausesTks(_, _)

NamesTks(ns) ==
    CASE ns = <<>> -> <<>>
      [] Len(ns) = 1 -> IF ns[1] = "..." THEN Sym("...") ELSE NameTk(ns[1])
      [] OTHER -> NameTk(ns[1]) \o Sym(",") \o NamesTks(Tail(ns))

ListTks(es) ==
    CASE es = <<>> -> <<>>
      [] Len(es) = 1 -> ExpTks(es[1])
      [] OTHER -> ExpTks(es[1]) \o Sym(",") \o ListTks(Tail(es))

BodyTks(ps, b) == Sym("(") \o NamesTks(ps) \o Sym(")") \o BlockTks(b) \o Sym("end")

ExpTks(e) ==
    CASE e[1] \in {"nil", "true", "false", "..."} -> Sym(e[1])
      [] e[1] = "int" -> <<<<"int", e[2]>>>>
      [] e[1] = "str" -> <<<<"string", e[2]>>>>
      [] e[1] = "var" -> NameTk(e[2])
      [] e[1] = "paren" -> Sym("(") \o ExpTks(e[2]) \o Sym(")")
      [] e[1] = "un" -> Sym(e[2]) \o ExpTks(e[3])
      [] e[1] = "bin" -> ExpTks(e[3]) \o Sym(e[2]) \o ExpTks(e[4])
      [] e[1] = "dot" -> ExpTks(e[2]) \o Sym(".") \o NameTk(e[3])
      [] e[1] = "index" -> ExpTks(e[2]) \o Sym("[") \o ExpTks(e[3]) \o Sym("]")
      [] e[1] = "call" -> ExpTks(e[2]) \o Sym("(") \o ListTks(e[3]) \o Sym(")")
      [] e[1] = "callwith" -> ExpTks(e[2]) \o ExpTks(e[3])
      [] e[1] = "method" -> ExpTks(e[2]) \o Sym(":") \o NameTk(e[3]) \o Sym("(") \o ListTks(e[4]) \o Sym(")")
      [] e[1] = "function" -> Sym("function") \o BodyTks(e[2], e[3])
      [] e[1] = "table" -> Sym("{") \o ListTks(e[2]) \o Sym("}")
      [] e[1] = "field" -> NameTk(e[2]) \o Sym("=") \o ExpTks(e[3])
      [] e[1] = "at" -> Sym("[") \o ExpTks(e[2]) \o Sym("]") \o Sym("=") \o ExpTks(e[3])

ClausesTks(kw, cs) ==
    IF cs = <<>> THEN <<>>
    ELSE Sym(kw) \o ExpTks(cs[1][1]) \o Sym("then") \o BlockTks(cs[1][2]) \o ClausesTks("elseif", Tail(cs))

StatTks(t) ==
    CASE t[1] = "local" -> Sym("local") \o NamesTks(t[2])
                           \o (IF t[3] = <<>> THEN <<>> ELSE Sym("=") \o ListTks(t[3]))
      [] t[1] = "assign" -> ListTks(t[2]) \o Sym("=") \o ListTks(t[3])
      [] t[1] = "do" -> Sym("do") \o BlockTks(t[2]) \o Sym("end")
      [] t[1] = "while" -> Sym("while") \o ExpTks(t[2]) \o Sym("do") \o BlockTks(t[3]) \o Sym("end")
      [] t[1] = "repeat" -> Sym("repeat") \o BlockTks(t[2]) \o Sym("until") \o ExpTks(t[3])
      [] t[1] = "if" -> ClausesTks("if", t[2]) \o Sym("end")
      [] t[1] = "ifelse" -> ClausesTks("if", t[2]) \o Sym("else") \o BlockTks(t[3]) \o Sym("end")
      [] t[1] = "fornum" -> Sym("for") \o NameTk(t[2]) \o Sym("=") \o ListTks(t[3]) \o Sym("do")
                            \o BlockTks(t[4]) \o Sym("end")
      [] t[1] = "forin" -> Sym("for") \o NamesTks(t[2]) \o Sym("in") \o ListTks(t[3]) \o Sym("do")
                           \o BlockTks(t[4]) \o Sym("end")
      [] t[1] = "localfunction" -> Sym("local") \o Sym("function") \o NameTk(t[2]) \o BodyTks(t[3], t[4])
      [] t[1] = "functionstat" -> Sym("function") \o ExpTks(t[2]) \o BodyTks(t[3], t[4])
      [] t[1] = "methodstat" -> Sym("function") \o ExpTks(t[2]) \o Sym(":") \o NameTk(t[3]) \o BodyTks(t[4], t[5])
      [] t[1] = "return" -> Sym("return") \o ListTks(t[2]) \o Sym(";")
      [] t[1] = "goto" -> Sym("goto") \o NameTk(t[2])
      [] t[1] = "label" -> Sym("::") \o NameTk(t[2]) \o Sym("::")
      [] t[1] = "break" -> Sym("break")
      [] t[1] \in {"call", "callwith", "method"} -> ExpTks(t)

BlockTks(b) == IF b = <<>> THEN <<>> ELSE StatTks(Head(b)) \o BlockTks(Tail(b))

Tokens(program) == BlockTks(program) \o Sym("eos")

----------------------------------------------------------------------------
(* Arithmetic.  An error has no value.  This build supports neither % nor  *)
(* ^ (lvm.c, OP_MOD and OP_POW), but an operation on numerals is done when *)
(* the program is compiled: % of two integers has a value there, and what  *)
(* has none keeps the program from being compiled.                         *)

ErrorV == <<"error", 0>>

OpName == [op \in {"+", "-", "*", "/", "//", "&", "|", "~", "<<", ">>", "%", "^"} |->
             CASE op = "+" -> "ADD" [] op = "-" -> "SUB" [] op = "*" -> "MUL" [] op = "/" -> "DIV"
               [] op = "//" -> "IDIV" [] op = "&" -> "BAND" [] op = "|" -> "BOR" [] op = "~" -> "BXOR"
               [] op = "<<" -> "SHL" [] op = ">>" -> "SHR" [] op = "%" -> "MOD" [] op = "^" -> "POW"]
UnaryName == [op \in {"-", "~"} |-> IF op = "-" THEN "UNM" ELSE "BNOT"]

Operands(op, a, b) ==
    /\ IsNumber(a) /\ IsNumber(b)
    /\ op \in BitOps => IsIntegral(a) /\ IsIntegral(b)

Arithmetic(op, a, b) ==
    IF ~Operands(op, a, b) \/ op \in {"MOD", "POW"} \/ (op = "IDIV" /\ a[1] = "int" /\ b = IntV(0))
    THEN ErrorV ELSE LuaO_arith(op, a, b)

(* What the compiler makes of an operation on numerals: not their division *)
(* by zero, and no float zero.                                             *)
AtCompileTime(op, a, b) ==
    CASE ~Operands(op, a, b) \/ (op \in {"DIV", "IDIV", "MOD"} /\ Ratio(b)[1] = 0) -> Nil
      [] Operands(op, a, b) /\ ArithRaises(op, a, b) -> ErrorV
      [] OTHER -> IF LuaO_arith(op, a, b) = FloatV(0, 1) THEN Nil ELSE LuaO_arith(op, a, b)

RECURSIVE Numeral(_)

(* The value of an expression of numerals, nil for one that is computed    *)
(* when the program runs.                                                  *)
Numeral(e) ==
    CASE e[1] = "int" -> IntV(e[2])
      [] e[1] = "paren" -> Numeral(e[2])
      [] e[1] = "un" /\ e[2] \in DOMAIN UnaryName -> AtCompileTime(UnaryName[e[2]], Numeral(e[3]), IntV(0))
      [] e[1] = "bin" /\ e[2] \in DOMAIN OpName -> AtCompileTime(OpName[e[2]], Numeral(e[3]), Numeral(e[4]))
      [] OTHER -> Nil

----------------------------------------------------------------------------
(* Which programs are legal: a goto sees a label of its name in its block  *)
(* or one around it, in the same function, and does not enter the scope of *)
(* a local variable unless the label ends the block (of a repeat the       *)
(* condition ends it); a break is inside a loop, and ... inside a function *)
(* that has it.  The compiler computes every operation on numerals.        *)

Declares(t) == t[1] \in {"local", "localfunction"}
NoOp(t) == t[1] = "label"

RECURSIVE LegalBlock(_, _, _, _), LegalExp(_, _)

Legal(b, labels, va) == LegalBlock(b, labels, va, TRUE)
LegalExps(es, va) == \A j \in DOMAIN es : LegalExp(es[j], va)
LegalClauses(cs, labels, va) == \A j \in DOMAIN cs : LegalExp(cs[j][1], va) /\ Legal(cs[j][2], labels, va)

LegalExp(e, va) ==
    CASE e[1] = "..." -> va
      [] e[1] = "function" -> Legal(e[3], {}, e[2] # <<>> /\ Last(e[2]) = "...")
      [] e[1] = "paren" -> LegalExp(e[2], va)
      [] e[1] = "un" -> LegalExp(e[3], va) /\ Numeral(e) # ErrorV
      [] e[1] = "bin" -> LegalExp(e[3], va) /\ LegalExp(e[4], va) /\ Numeral(e) # ErrorV
      [] e[1] \in {"index", "callwith", "at"} -> LegalExp(e[2], va) /\ LegalExp(e[3], va)
      [] e[1] = "dot" -> LegalExp(e[2], va)
      [] e[1] = "field" -> LegalExp(e[3], va)
      [] e[1] = "call" -> LegalExp(e[2], va) /\ LegalExps(e[3], va)
      [] e[1] = "method" -> LegalExp(e[2], va) /\ LegalExps(e[4], va)
      [] e[1] = "table" -> LegalExps(e[2], va)
      [] OTHER -> TRUE

(* The labels of block b that a goto in its statement i may reach. *)
Reachable(b, i, ends) ==
    {b[j][2] : j \in {m \in DOMAIN b : /\ b[m][1] = "label"
                                       /\ \/ m <= i
                                          \/ \A n \in i..m : ~Declares(b[n])
                                          \/ ends /\ \A n \in m..Len(b) : NoOp(b[n])}}

LegalBlock(b, labels, va, ends) ==
    /\ \A i, j \in DOMAIN b : i # j /\ b[i][1] = "label" /\ b[j][1] = "label" => b[i][2] # b[j][2]
    /\ \A i \in DOMAIN b :
         LET t == b[i]
             in == labels \cup Reachable(b, i, ends)
             loop == in \cup {"break"}
         IN  CASE t[1] = "goto" -> t[2] \in in
               [] t[1] = "break" -> "break" \in in
               [] t[1] = "local" -> LegalExps(t[3], va)
               [] t[1] = "assign" -> LegalExps(t[2], va) /\ LegalExps(t[3], va)
               [] t[1] = "return" -> LegalExps(t[2], va)
               [] t[1] \in {"call", "callwith", "method"} -> LegalExp(t, va)
               [] t[1] = "do" -> Legal(t[2], in, va)
               [] t[1] = "while" -> LegalExp(t[2], va) /\ Legal(t[3], loop, va)
               [] t[1] = "repeat" -> LegalBlock(t[2], loop, va, FALSE) /\ LegalExp(t[3], va)
               [] t[1] = "if" -> LegalClauses(t[2], in, va)
               [] t[1] = "ifelse" -> Legal(t[3], in, va) /\ LegalClauses(t[2], in, va)
               [] t[1] \in {"fornum", "forin"} -> LegalExps(t[3], va) /\ Legal(t[4], loop, va)
               [] t[1] \in {"localfunction", "functionstat"} ->
                    Legal(t[4], {}, t[3] # <<>> /\ Last(t[3]) = "...")
               [] t[1] = "methodstat" -> Legal(t[5], {}, t[4] # <<>> /\ Last(t[4]) = "...")
               [] OTHER -> TRUE

----------------------------------------------------------------------------
(* Operations on values.  No program uses a float as a key, in a string or *)
(* as the bound of a loop, and no string of a program is a numeral.        *)

Pieces(v) == IF v[1] = "int" THEN <<ToString(v[2])>> ELSE v[2]

Equal(a, b) == IF IsNumber(a) /\ IsNumber(b) THEN Ratio(a) = Ratio(b) ELSE a = b

Binary(op, a, b) ==
    LET nums == IsNumber(a) /\ IsNumber(b)
        strs == {a[1], b[1]} \subseteq {"str", "int"}
    IN  CASE op = "==" -> BoolV(Equal(a, b))
          [] op = "~=" -> BoolV(~Equal(a, b))
          [] op = ".." -> IF strs THEN <<"str", Pieces(a) \o Pieces(b)>> ELSE ErrorV
          [] op \in DOMAIN OpName -> Arithmetic(OpName[op], a, b)
          [] op \in {"<", "<=", ">", ">="} /\ ~nums -> ErrorV
          [] op = "<" /\ nums -> BoolV(Less(a, b))
          [] op = "<=" /\ nums -> BoolV(~Less(b, a))
          [] op = ">" /\ nums -> BoolV(Less(b, a))
          [] op = ">=" /\ nums -> BoolV(~Less(a, b))

(* A table is a function from the keys it holds. *)
Lookup(t, k) == IF k \in DOMAIN t THEN t[k] ELSE Nil
Stored(t, k, v) == [x \in (DOMAIN t \cup {k}) \ (IF v = Nil THEN {k} ELSE {}) |-> IF x = k THEN v ELSE t[x]]
Border(t) == CHOOSE n \in 0..Cardinality(DOMAIN t) :
                 Lookup(t, IntV(n + 1)) = Nil /\ \A j \in 1..n : Lookup(t, IntV(j)) # Nil

Unary(op, v, s) ==
    CASE op = "not" -> BoolV(~Truthy(v))
      [] op \in DOMAIN UnaryName -> Arithmetic(UnaryName[op], v, v)
      [] op = "#" -> IF v[1] = "table" THEN IntV(Border(s.tab[v[2]])) ELSE ErrorV

Failed(s) == [s EXCEPT !.err = TRUE]

IndexV(s, t, k) == IF t[1] = "table" THEN Lookup(s.tab[t[2]], k) ELSE ErrorV
SetIndex(s, t, k, v) ==
    IF t[1] # "table" \/ k = Nil THEN Failed(s) ELSE [s EXCEPT !.tab[t[2]] = Stored(@, k, v)]

----------------------------------------------------------------------------
(* Evaluation.  An expression gives r = [s, vs], all its values. *)

RECURSIVE Eval(_, _, _), EvalAll(_, _, _), Fields1(_, _, _, _, _), Exec(_, _, _), Run(_, _, _, _),
          While(_, _, _), Repeat(_, _, _), ForNumLoop(_, _, _, _, _), ForInLoop(_, _, _, _, _),
          Choose1(_, _, _, _), Targets(_, _, _), AssignAll(_, _, _, _)

Value(v, s) == IF v = ErrorV THEN [s |-> Failed(s), vs |-> <<>>] ELSE [s |-> s, vs |-> <<v>>]
One(r) == IF r.vs = <<>> THEN Nil ELSE r.vs[1]
Nth(vs, n) == IF n <= Len(vs) THEN vs[n] ELSE Nil

(* New variables for the names, holding the values. *)
Bind(names, vs, env, s) ==
    LET n == Len(s.loc)
        bound(x) == Max({j \in DOMAIN names : names[j] = x})
    IN  [s |-> [s EXCEPT !.loc = @ \o [j \in DOMAIN names |-> Nth(vs, j)]],
         env |-> [x \in DOMAIN env \cup Range(names) |->
                    IF x \in Range(names) THEN n + bound(x) ELSE env[x]]]

Read(x, env, s) ==
    IF x \in DOMAIN env THEN s.loc[env[x]] ELSE IndexV(s, s.loc[env["_ENV"]], StrV(x))

EvalAll(es, env, s) ==
    LET r == Eval(Head(es), env, s)
        rest == EvalAll(Tail(es), env, r.s)
    IN  CASE es = <<>> -> [s |-> s, vs |-> <<>>]
          [] Len(es) = 1 -> r
          [] OTHER -> [s |-> rest.s, vs |-> <<One(r)>> \o rest.vs]

(* A call of f with the arguments; a function that ends gives no value. *)
Apply(f, args, s) ==
    LET fn == s.fn[f[2]]
        variadic == fn.params # <<>> /\ Last(fn.params) = "..."
        names == IF variadic THEN Front(fn.params) ELSE fn.params
        b == Bind(names, args, fn.env, s)
        extra == SubSeq(args, Len(names) + 1, Len(args))
        o == Exec(fn.body, [env |-> b.env, va |-> extra], b.s)
    IN  IF f[1] # "fn" \/ s.err THEN [s |-> Failed(s), vs |-> <<>>]
        ELSE [s |-> o.s, vs |-> IF o.sig = "return" THEN o.vs ELSE <<>>]

MakeFn(params, body, env, s) ==
    [s |-> [s EXCEPT !.fn = Append(@, [params |-> params, body |-> body, env |-> env])],
     vs |-> <<<<"fn", Len(s.fn) + 1>>>>]

(* The remaining fields of a constructor; n list items were stored. *)
Fields1(fs, tab, n, ctx, s) ==
    LET f == Head(fs)
        key == IF f[1] = "field" THEN [s |-> s, vs |-> <<StrV(f[2])>>] ELSE Eval(f[2], ctx, s)
        val == Eval(f[3], ctx, key.s)
        item == Eval(f, ctx, s)
        vs == IF Len(fs) = 1 THEN item.vs ELSE <<One(item)>>
        put == FoldLeft(LAMBDA st, j : SetIndex(st, tab, IntV(n + j), vs[j]), item.s, [j \in DOMAIN vs |-> j])
    IN  CASE fs = <<>> -> s
          [] fs # <<>> /\ f[1] \in {"field", "at"} ->
               Fields1(Tail(fs), tab, n, ctx, SetIndex(val.s, tab, One(key), One(val)))
          [] OTHER -> Fields1(Tail(fs), tab, n + 1, ctx, put)

Eval(e, ctx, s) ==
    LET sub == Eval(e[2], ctx, s)
        two == Eval(e[3], ctx, s)
        left == Eval(e[3], ctx, s)
        right == Eval(e[4], ctx, left.s)
        args == EvalAll(e[3], ctx, sub.s)
        key == Eval(e[3], ctx, sub.s)
        margs == EvalAll(e[4], ctx, sub.s)
        self == One(sub)
        fresh == [s EXCEPT !.tab = Append(@, <<>>)]
        tab == <<"table", Len(s.tab) + 1>>
    IN  CASE s.err -> [s |-> s, vs |-> <<>>]
          [] e[1] = "nil" -> Value(Nil, s)
          [] e[1] = "true" -> Value(BoolV(TRUE), s)
          [] e[1] = "false" -> Value(BoolV(FALSE), s)
          [] Numeral(e) # Nil -> Value(Numeral(e), s)
          [] e[1] = "str" -> Value(StrV(e[2]), s)
          [] e[1] = "..." -> [s |-> s, vs |-> ctx.va]
          [] e[1] = "var" -> Value(Read(e[2], ctx.env, s), s)
          [] e[1] = "paren" -> [sub EXCEPT !.vs = <<One(sub)>>]
          [] e[1] = "un" -> Value(Unary(e[2], One(two), two.s), two.s)
          [] e[1] = "bin" /\ e[2] \in {"and", "or"} ->
               IF Truthy(One(left)) = (e[2] = "or") THEN Value(One(left), left.s) ELSE Value(One(right), right.s)
          [] e[1] = "bin" -> Value(Binary(e[2], One(left), One(right)), right.s)
          [] e[1] = "dot" -> Value(IndexV(sub.s, self, StrV(e[3])), sub.s)
          [] e[1] = "index" -> Value(IndexV(key.s, self, One(key)), key.s)
          [] e[1] = "call" -> Apply(self, args.vs, args.s)
          [] e[1] = "callwith" -> Apply(self, <<One(key)>>, key.s)
          [] e[1] = "method" -> Apply(IndexV(sub.s, self, StrV(e[3])), <<self>> \o margs.vs, margs.s)
          [] e[1] = "function" -> MakeFn(e[2], e[3], ctx.env, s)
          [] e[1] = "table" -> [s |-> Fields1(e[2], tab, 0, ctx, fresh), vs |-> <<tab>>]

(* A statement gives o = [s, env, sig, vs]: the environment after it, and  *)
(* whether control goes on, or leaves by a break, a return (with values)   *)
(* or a goto (with its label).                                             *)
Goes(s, ctx) == [s |-> s, ctx |-> ctx, sig |-> IF s.err THEN "error" ELSE "next", vs |-> <<>>]
Leaves(s, ctx, sig, vs) == [Goes(s, ctx) EXCEPT !.sig = IF s.err THEN "error" ELSE sig, !.vs = vs]

(* Where the targets of an assignment are: tables and keys, in order. *)
Targets(ts, ctx, s) ==
    LET t == Head(ts)
        tab == Eval(t[2], ctx, s)
        key == IF t[1] = "dot" THEN [s |-> tab.s, vs |-> <<StrV(t[3])>>] ELSE Eval(t[3], ctx, tab.s)
        named == t[1] = "var"
        global == named /\ t[2] \notin DOMAIN ctx.env
        here == CASE global -> <<s.loc[ctx.env["_ENV"]], StrV(t[2])>>
                  [] named /\ ~global -> <<ctx.env[t[2]]>>
                  [] OTHER -> <<One(tab), One(key)>>
        rest == Targets(Tail(ts), ctx, IF named THEN s ELSE key.s)
    IN  IF ts = <<>> THEN [s |-> s, at |-> <<>>] ELSE [s |-> rest.s, at |-> <<here>> \o rest.at]

(* The order of assignments is not defined; no program depends on it. *)
AssignAll(at, vs, j, s) ==
    CASE j = 0 \/ s.err -> s
      [] Len(at[j]) = 1 /\ ~s.err -> AssignAll(at, vs, j - 1, [s EXCEPT !.loc[at[j][1]] = Nth(vs, j)])
      [] OTHER -> AssignAll(at, vs, j - 1, SetIndex(s, at[j][1], at[j][2], Nth(vs, j)))

While(t, ctx, s) ==
    LET c == Eval(t[2], ctx, s)
        o == Exec(t[3], ctx, c.s)
    IN  CASE c.s.err \/ ~Truthy(One(c)) -> Goes(c.s, ctx)
          [] o.sig = "break" -> Goes(o.s, ctx)
          [] o.sig = "next" -> While(t, ctx, o.s)
          [] OTHER -> [o EXCEPT !.ctx = ctx]

Repeat(t, ctx, s) ==
    LET o == Run(t[2], 1, <<ctx>>, s)
        c == Eval(t[3], o.ctx, o.s)
    IN  CASE o.sig = "break" -> Goes(o.s, ctx)
          [] o.sig \notin {"next", "break"} -> [o EXCEPT !.ctx = ctx]
          [] OTHER -> IF c.s.err \/ Truthy(One(c)) THEN Goes(c.s, ctx) ELSE Repeat(t, ctx, c.s)

ForNumLoop(t, idx, r, ctx, s) ==
    LET step == IF Len(r) = 3 THEN r[3][2] ELSE 1
        b == Bind(<<t[2]>>, <<IntV(idx)>>, ctx.env, s)
        o == Exec(t[4], [ctx EXCEPT !.env = b.env], b.s)
    IN  CASE IF step > 0 THEN idx > r[2][2] ELSE idx < r[2][2] -> Goes(s, ctx)
          [] o.sig = "break" -> Goes(o.s, ctx)
          [] o.sig = "next" -> ForNumLoop(t, idx + step, r, ctx, o.s)
          [] OTHER -> [o EXCEPT !.ctx = ctx]

ForInLoop(t, r, control, ctx, s) ==
    LET c == Apply(Nth(r, 1), <<Nth(r, 2), control>>, s)
        b == Bind(t[2], c.vs, ctx.env, c.s)
        o == Exec(t[4], [ctx EXCEPT !.env = b.env], b.s)
    IN  CASE c.s.err \/ One(c) = Nil -> Goes(c.s, ctx)
          [] o.sig = "break" -> Goes(o.s, ctx)
          [] o.sig = "next" -> ForInLoop(t, r, One(c), ctx, o.s)
          [] OTHER -> [o EXCEPT !.ctx = ctx]

(* The block of the first clause whose condition holds. *)
Choose1(cs, else, ctx, s) ==
    LET c == Eval(cs[1][1], ctx, s)
    IN  CASE cs = <<>> -> [Exec(else, ctx, s) EXCEPT !.ctx = ctx]
          [] cs # <<>> /\ c.s.err -> Goes(c.s, ctx)
          [] OTHER -> IF Truthy(One(c)) THEN [Exec(cs[1][2], ctx, c.s) EXCEPT !.ctx = ctx]
                      ELSE Choose1(Tail(cs), else, ctx, c.s)

Step(t, ctx, s) ==
    LET r == EvalAll(t[3], ctx, s)
        bound == Bind(t[2], r.vs, ctx.env, r.s)
        at == Targets(t[2], ctx, s)
        assigned == EvalAll(t[3], ctx, at.s)
        name == Bind(<<t[2]>>, <<Nil>>, ctx.env, s)
        local == MakeFn(t[3], t[4], name.env, name.s)
        fn == MakeFn(t[3], t[4], ctx.env, s)
        fat == Targets(<<t[2]>>, ctx, fn.s)
        meth == MakeFn(<<"self">> \o t[4], t[5], ctx.env, s)
        obj == Eval(t[2], ctx, meth.s)
        ret == EvalAll(t[2], ctx, s)
    IN  CASE t[1] = "local" -> Goes(bound.s, [ctx EXCEPT !.env = bound.env])
          [] t[1] = "assign" -> Goes(AssignAll(at.at, assigned.vs, Len(at.at), assigned.s), ctx)
          [] t[1] \in {"call", "callwith", "method"} -> Goes(Eval(t, ctx, s).s, ctx)
          [] t[1] = "do" -> [Exec(t[2], ctx, s) EXCEPT !.ctx = ctx]
          [] t[1] = "while" -> While(t, ctx, s)
          [] t[1] = "repeat" -> Repeat(t, ctx, s)
          [] t[1] = "if" -> Choose1(t[2], <<>>, ctx, s)
          [] t[1] = "ifelse" -> Choose1(t[2], t[3], ctx, s)
          [] t[1] = "fornum" ->
               IF r.s.err \/ \E j \in DOMAIN r.vs : r.vs[j][1] # "int" THEN Goes(Failed(r.s), ctx)
               ELSE ForNumLoop(t, r.vs[1][2], r.vs, ctx, r.s)
          [] t[1] = "forin" -> IF r.s.err THEN Goes(r.s, ctx) ELSE ForInLoop(t, r.vs, Nth(r.vs, 3), ctx, r.s)
          [] t[1] = "localfunction" ->
               Goes([local.s EXCEPT !.loc[name.env[t[2]]] = local.vs[1]], [ctx EXCEPT !.env = name.env])
          [] t[1] = "functionstat" -> Goes(AssignAll(fat.at, fn.vs, 1, fat.s), ctx)
          [] t[1] = "methodstat" -> Goes(SetIndex(obj.s, One(obj), StrV(t[3]), meth.vs[1]), ctx)
          [] t[1] = "return" -> Leaves(ret.s, ctx, "return", ret.vs)
          [] t[1] = "break" -> Leaves(s, ctx, "break", <<>>)
          [] t[1] = "goto" -> Leaves(s, ctx, "goto", <<t[2]>>)
          [] t[1] = "label" -> Goes(s, ctx)

(* Block b from statement i; ctxs are the contexts before statements 1..i. *)
(* A goto to a label of the block goes on there, without the variables     *)
(* declared after the label.                                               *)
Run(b, i, ctxs, s) ==
    LET o == Step(b[i], ctxs[i], s)
        labels == {j \in DOMAIN b : b[j][1] = "label" /\ b[j][2] = Nth(o.vs, 1)}
        j == CHOOSE l \in labels : TRUE
        then == IF j <= i THEN SubSeq(ctxs, 1, j) ELSE ctxs \o [l \in 1..(j - i) |-> ctxs[i]]
    IN  CASE i > Len(b) -> Goes(s, ctxs[i])
          [] i <= Len(b) /\ o.sig = "next" -> Run(b, i + 1, Append(ctxs, o.ctx), o.s)
          [] i <= Len(b) /\ o.sig = "goto" /\ labels # {} -> Run(b, j, then, o.s)
          [] OTHER -> o

Exec(b, ctx, s) == Run(b, 1, <<ctx>>, s)

(* What the program returns, with tables and functions shown by their type. *)
Shown(v) == IF v[1] \in {"table", "fn"} THEN <<v[1], 0>> ELSE v

Rejected == [status |-> "rejected", values |-> <<>>]

Meaning(program) ==
    LET s == [loc |-> <<<<"table", 1>>>>, tab |-> <<<<>>>>, fn |-> <<>>, err |-> FALSE]
        o == Exec(program, [env |-> [x \in {"_ENV"} |-> 1], va |-> <<>>], s)
    IN  CASE ~Legal(program, {}, TRUE) -> Rejected
          [] Legal(program, {}, TRUE) /\ o.s.err -> [status |-> "error", values |-> <<>>]
          [] OTHER -> [status |-> "done", values |-> [j \in DOMAIN o.vs |-> Shown(o.vs[j])]]
=============================================================================
