------------------------------ MODULE MCLuaVM ------------------------------
(***************************************************************************)
(* The programs of the compiler's runs.                                    *)
(***************************************************************************)
EXTENDS LuaVM

V(x) == <<"var", x>>
N(n) == <<"int", n>>
S(x) == <<"str", x>>
NilE == <<"nil">>
TrueE == <<"true">>
FalseE == <<"false">>
Dots == <<"...">>
Bin(op, a, b) == <<"bin", op, a, b>>
Un(op, a) == <<"un", op, a>>
Not(a) == Un("not", a)
P(e) == <<"paren", e>>
Call(f, as) == <<"call", f, as>>
Fn(ps, b) == <<"function", ps, b>>
Tab(fs) == <<"table", fs>>
Idx(t, k) == <<"index", t, k>>
Dot(t, k) == <<"dot", t, k>>
Local(ns, es) == <<"local", ns, es>>
Set(x, e) == <<"assign", <<V(x)>>, <<e>>>>
Asg(ts, es) == <<"assign", ts, es>>
Ret(e) == <<"return", <<e>>>>
Rets(es) == <<"return", es>>
If(e, b) == <<"if", <<<<e, b>>>>>>
IfElse(e, b, c) == <<"ifelse", <<<<e, b>>>>, c>>
Inc(x) == Set(x, Bin("+", V(x), N(1)))
Push(t, e) == Asg(<<Idx(V(t), Bin("+", <<"un", "#", V(t)>>, N(1)))>>, <<e>>)

----------------------------------------------------------------------------
(* Conditions: tests, values and jumps in every place of an expression. *)

Leaves1 == {V("a"), Not(V("a")), NilE, N(1), Bin("<", V("b"), N(3))}
Inner == {Bin(op, u, v) : op \in {"and", "or", "=="}, u \in Leaves1, v \in {V("a"), N(2), FalseE}}
Conditions ==
    {Bin(op, P(e), w) : op \in {"and", "or"}, e \in Inner, w \in {V("b"), NilE, Not(V("a"))}}
    \cup {Bin(op, w, P(e)) : op \in {"and", "or", "=="}, e \in Inner, w \in {V("a"), TrueE}}
    \cup {Not(P(e)) : e \in Inner}
    \cup {Bin("or", Bin("and", u, v), Bin("and", V("a"), Not(w))) : u, v, w \in {V("a"), V("b"), NilE}}

Valued == {<<Local(<<"a", "b">>, <<x, N(2)>>), Ret(e)>> : x \in {NilE, N(1)}, e \in Conditions}

Simple == {Bin("and", V("a"), V("b")), Bin("or", Not(V("a")), V("b")), Bin("<", V("b"), N(3)), Not(V("a")),
           Bin("and", P(Bin("or", V("a"), NilE)), P(Bin("==", V("b"), N(2)))), TrueE, NilE, N(1)}

Branching ==
    {<<Local(<<"a", "b">>, <<x, N(2)>>), s, Rets(<<V("a"), V("b")>>)>> :
       x \in {NilE, N(1)},
       s \in UNION {{IfElse(e, <<Set("b", N(5))>>, <<Local(<<"c">>, <<>>), Set("b", V("c"))>>),
                     <<"if", <<<<e, <<Set("b", N(7))>>>>, <<Not(P(e)), <<Set("a", V("b"))>>>>>>>>,
                     <<"while", e, <<Set("a", NilE), Inc("b"), If(Bin("==", V("b"), N(4)), <<<<"break">>>>)>>>>,
                     <<"repeat", <<Inc("b"), If(Bin(">", V("b"), N(4)), <<Set("b", N(9)), <<"break">>>>)>>, e>>}
                    : e \in Simple}}

----------------------------------------------------------------------------
(* Arithmetic, concatenation and calls in operands. *)

(* Quotients, operations on bits, and numerals the compiler computes. *)
Quotient == P(Bin("/", N(7), N(2)))
Numbers ==
    {Bin(op, u, v) : op \in {"&", "|", "~", "<<", ">>", "/"}, u, v \in {V("a"), N(2), P(Bin("-", N(5), V("b"))), Quotient}}
    \cup {Un("~", e) : e \in {V("a"), N(5), Quotient, NilE, Un("-", N(3)), Un("~", V("b"))}}
    \cup {Bin("%", u, v) : u \in {N(7), Un("-", N(7)), Quotient}, v \in {N(4), N(0), V("a")}}
    \cup {Bin("^", N(2), N(3)), Bin("^", N(2), V("a")), Bin("and", FalseE, Bin("^", N(2), N(0))),
          Bin("|", V("a"), Bin("~", V("b"), Bin("&", N(12), Bin("<<", V("b"), Bin("+", N(1), V("a")))))),
          Bin("==", Bin("&", V("a"), N(2)), N(2)), Bin("<<", N(1), N(64)), Bin(">>", N(1), Un("-", N(4))),
          Bin("//", Quotient, N(2)), Bin("/", N(0), N(5)), Bin("/", N(1), N(0)), Bin("/", V("a"), N(4)),
          Bin("-", Quotient, Quotient), Bin("*", V("b"), Quotient), Un("-", Quotient), Bin("or", Quotient, V("a")),
          Bin("<", Quotient, V("a")), Bin("==", Bin("/", V("a"), N(2)), V("b")), Bin("&", P(Bin("/", N(6), N(3))), N(7))}

Id == <<"localfunction", "f", <<"x", "...">>, <<Rets(<<V("x"), Dots>>)>>>>
Operand == {V("a"), N(2), Call(V("f"), <<V("a"), N(7)>>), P(Bin("-", N(5), V("b"))), Idx(P(Tab(<<N(4), V("b")>>)), N(2))}
Computed ==
    {<<Id, Local(<<"a", "b">>, <<N(6), N(3)>>), Ret(e)>> :
       e \in {Bin(op, u, v) : op \in {"+", "-", "*", "//", "<=", ">=", "~="}, u, v \in Operand}
             \cup {Bin("..", u, Bin("..", v, S("z"))) : u, v \in {V("a"), S("y"), Call(V("f"), <<S("x")>>)}}
             \cup {Bin("..", P(Bin("..", S("x"), V("a"))), V("b")), Bin("+", V("a"), NilE), Bin("//", N(1), N(0)),
                   Bin("//", V("a"), N(0)), Bin("%", V("a"), N(4)), Bin("-", Bin("-", N(9), V("a")), N(1)),
                   Bin("^", V("a"), N(2)), Bin("-", Bin("//", Un("-", N(7)), N(2)), Un("-", N(3))),
                   Un("-", V("a")), Un("-", NilE), Bin("<", V("a"), S("x")),
                   Bin("-", V("a"), Bin("*", V("b"), N(2))), Bin("+", Bin("*", N(2), V("a")), V("b"))}
             \cup Numbers}

(* Many values: calls, ..., constructors and assignments. *)
Many == {Call(V("f"), <<N(1), N(2)>>), P(Call(V("f"), <<N(1), N(2)>>)), Dots, P(Dots), N(3), Call(V("f"), <<Dots>>)}
Lists == {<<e>> : e \in Many} \cup {<<e, d>> : e, d \in Many}
Use(es) ==
    {<<Rets(es)>>,
     <<Local(<<"p", "q", "r">>, es), Rets(<<V("p"), V("q"), V("r")>>)>>,
     <<Local(<<"t">>, <<Tab(es \o es)>>), Rets(<<<<"un", "#", V("t")>>, Idx(V("t"), N(2)), Idx(V("t"), N(3))>>)>>,
     <<Local(<<"p", "q">>, <<>>), Asg(<<V("p"), V("q")>>, es), Rets(<<V("q"), V("p")>>)>>}
Passing ==
    {<<Id, <<"localfunction", "g", <<"...">>, b>>, Ret(Call(V("g"), <<N(8), N(9)>>))>> : b \in UNION {Use(es) : es \in Lists}}

----------------------------------------------------------------------------
(* Variables, scopes and jumps. *)

Keep(e) == Push("t", Fn(<<>>, <<Ret(e)>>))
Kept == Rets(<<Call(Idx(V("t"), N(1)), <<>>), Call(Idx(V("t"), N(2)), <<>>)>>)
T == Local(<<"t">>, <<Tab(<<>>)>>)

(* Loops whose variables are captured, left in several ways. *)
Exits == {<<>>, <<If(Bin("==", V("i"), N(2)), <<<<"break">>>>)>>, <<If(Bin("<", V("i"), N(2)), <<<<"goto", "c">>>>)>>,
          <<If(Bin("==", V("i"), N(2)), <<<<"goto", "out">>>>)>>}
Body1(out) == <<Local(<<"x">>, <<V("i")>>), Keep(Bin("+", V("x"), V("i")))>> \o out \o <<Inc("x"), <<"label", "c">>>>
Captured ==
    {<<T, s, <<"label", "out">>, Kept>> :
       s \in UNION {{<<"fornum", "i", <<N(1), N(3)>>, Body1(out)>>,
                     <<"fornum", "i", <<N(3), N(1), Un("-", N(1))>>, Body1(out)>>,
                     <<"do", <<Local(<<"i">>, <<N(0)>>), <<"while", Bin("<", V("i"), N(3)), <<Inc("i")>> \o Body1(out)>>>>>>,
                     <<"do", <<Local(<<"i">>, <<N(0)>>),
                               <<"repeat", <<Inc("i"), Local(<<"x">>, <<V("i")>>), Keep(V("x"))>> \o
                                           SelectSeq(out, LAMBDA u : u # If(Bin("<", V("i"), N(2)), <<<<"goto", "c">>>>)),
                                 Bin(">", V("x"), N(2))>>>>>>,
                     <<"do", <<Local(<<"i">>, <<N(0)>>), <<"label", "again">>, Inc("i"), <<"do", Body1(out)>>,
                               If(Bin("<", V("i"), N(3)), <<<<"goto", "again">>>>)>>>>,
                     <<"forin", <<"i", "j">>, <<Fn(<<"s", "c">>, <<If(Bin("<", V("c"), V("s")), <<Rets(<<Bin("+", V("c"), N(1)), V("s")>>)>>)>>),
                                                N(3), N(0)>>, Body1(out)>>}
                    : out \in Exits}}

(* Gotos and labels, legal and not. *)
Jumping ==
    {<<Local(<<"a">>, <<N(1)>>)>> \o g \o <<Ret(V("a"))>> :
       g \in {<<<<"goto", "l">>, Local(<<"b">>, <<N(2)>>), <<"label", "l">>>>,
              <<<<"goto", "l">>, Local(<<"b">>, <<N(2)>>), <<"label", "l">>, Set("a", V("b"))>>,
              <<<<"do", <<<<"goto", "l">>, Local(<<"b">>, <<N(2)>>), <<"label", "l">>>>>>, Inc("a")>>,
              <<<<"do", <<<<"goto", "l">>, Inc("a"), <<"label", "m">>>>>>, <<"label", "l">>, Inc("a")>>,
              <<<<"goto", "m">>, <<"do", <<<<"label", "m">>>>>>>>,
              <<<<"break">>>>, <<<<"label", "l">>, <<"label", "l">>>>,
              <<<<"localfunction", "f", <<>>, <<<<"goto", "l">>>>>>, <<"label", "l">>>>,
              <<<<"localfunction", "f", <<"x">>, <<Ret(Dots)>>>>>>,
              <<<<"repeat", <<If(Bin(">", V("a"), N(2)), <<<<"goto", "l">>>>), Inc("a"), Local(<<"b">>, <<V("a")>>), <<"label", "l">>>>,
                  Bin(">", V("a"), N(2))>>>>,
              <<<<"while", TrueE, <<If(V("a"), <<<<"goto", "l">>, Inc("a")>>), Inc("a")>>>>, <<"label", "l">>>>,
              <<<<"label", "l">>, Inc("a"), <<"do", <<Local(<<"b">>, <<V("a")>>), Set("g", Fn(<<>>, <<Ret(V("b"))>>)),
                  If(Bin("<", V("b"), N(4)), <<<<"goto", "l">>>>)>>>>, Set("a", Call(V("g"), <<>>))>>,
              <<Local(<<"b", "c">>, <<>>), <<"label", "l">>, Local(<<"d">>, <<>>), If(Bin("==", V("d"), NilE), <<Inc("a")>>),
                Set("d", N(1)), If(Bin("<", V("a"), N(3)), <<<<"goto", "l">>>>)>>}}

(* The constructs that are compiled wrongly, and their neighbours. *)
Next3 == Fn(<<"s", "c">>, <<If(Bin("<", V("c"), V("s")), <<Rets(<<Bin("+", V("c"), N(1)), V("s")>>)>>)>>)
Excepted ==
    {<<Id, Local(<<"a">>, <<N(0)>>), <<"forin", <<"i", "j">>, <<Next3, N(3), N(0)>> \o es, b>>, Ret(V("a"))>> :
       es \in {<<>>, <<N(5)>>, <<Call(V("f"), <<N(5), N(6)>>)>>, <<Dots>>, <<N(5), Call(V("f"), <<N(6)>>)>>},
       b \in {<<>>, <<Set("a", Bin("+", V("a"), V("i")))>>,
              <<Local(<<"x">>, <<V("i")>>), Set("a", Bin("+", V("a"), V("x")))>>,
              <<Local(<<"x", "y">>, <<>>), Set("a", Bin("or", V("x"), V("i")))>>}}
    \cup {<<Local(<<"a">>, <<x>>), <<"while", Bin("~=", V("a"), N(3)), <<If(V("a"), b), Set("a", N(3))>>>>, <<"label", "l">>, Ret(V("a"))>> :
       x \in {NilE, N(1)},
       b \in {<<<<"goto", "l">>, <<"label", "m">>>>, <<<<"goto", "l">>, <<"label", "m">>, Inc("a")>>,
              <<<<"break">>, <<"label", "m">>, Inc("a")>>,
              <<<<"goto", "k">>, <<"label", "m">>, <<"do", <<Ret(N(5))>>>>, <<"label", "k">>, <<"goto", "m">>>>,
              <<<<"goto", "k">>, Inc("a"), <<"label", "k">>, Inc("a")>>}}

(* Upvalues through several functions, methods, tail calls, conflicts. *)
Functions1 ==
    {<<Local(<<"a">>, <<N(1)>>),
       <<"localfunction", "f", <<"x">>, <<Local(<<"y">>, <<V("x")>>), Ret(Fn(<<"z">>, <<Inc("a"), Set("y", Bin("+", V("y"), V("z"))),
           Rets(<<V("a"), V("x"), V("y")>>)>>))>>>>,
       Local(<<"g", "h">>, <<Call(V("f"), <<N(10)>>), Call(V("f"), <<N(20)>>)>>),
       <<"call", V("g"), <<N(1)>>>>, Rets(<<Call(V("g"), <<N(2)>>), Call(V("h"), <<N(3)>>)>>)>>,
     <<<<"localfunction", "loop", <<"n", "acc">>, <<If(Bin("==", V("n"), N(0)), <<Rets(<<V("acc"), V("n")>>)>>),
           Local(<<"k">>, <<V("n")>>), Set("g", Fn(<<>>, <<Ret(V("k"))>>)),
           Ret(Call(V("loop"), <<Bin("-", V("n"), N(1)), Bin("+", V("acc"), V("k"))>>))>>>>,
       Local(<<"p", "q">>, <<Call(V("loop"), <<N(3), N(0)>>)>>), Rets(<<V("p"), V("q"), Call(V("g"), <<>>)>>)>>,
     <<Local(<<"o">>, <<Tab(<<<<"field", "n", N(1)>>, <<"at", S("m"), N(2)>>, N(5), <<"field", "k", Tab(<<>>)>>, N(6), N(7)>>)>>),
       <<"methodstat", V("o"), "up", <<"d">>, <<Asg(<<Dot(V("self"), "n")>>, <<Bin("+", Dot(V("self"), "n"), V("d"))>>), Ret(V("self"))>>>>,
       <<"functionstat", Dot(Dot(V("o"), "k"), "w"), <<"s">>, <<Ret(Dot(V("s"), "n"))>>>>,
       <<"method", <<"method", V("o"), "up", <<N(2)>>>>, "up", <<N(3)>>>>,
       Rets(<<Call(Dot(Dot(V("o"), "k"), "w"), <<V("o")>>), Dot(V("o"), "m"), Idx(V("o"), N(3)), <<"un", "#", V("o")>>>>)>>,
     <<<<"functionstat", V("f"), <<"x">>, <<Ret(Bin("or", V("x"), N(0)))>>>>,
       Rets(<<<<"callwith", V("f"), S("s")>>, <<"callwith", V("f"), Tab(<<>>)>>, Call(V("f"), <<>>)>>)>>,
     <<Local(<<"f">>, <<N(1)>>), Local(<<"f">>, <<Fn(<<>>, <<Ret(V("f"))>>)>>), Ret(Call(V("f"), <<>>))>>,
     <<Local(<<"a">>, <<>>), <<"call", V("a"), <<>>>>>>, <<Ret(Call(V("u"), <<>>))>>, <<Ret(<<"method", V("u"), "m", <<>>>>)>>,
     <<Asg(<<Dot(V("u"), "x")>>, <<N(1)>>)>>, <<Asg(<<Idx(P(Tab(<<>>)), NilE)>>, <<N(1)>>)>>,
     <<<<"fornum", "i", <<N(1), S("x")>>, <<>>>>>>, <<<<"forin", <<"i">>, <<N(1)>>, <<>>>>>>}

Conflicts ==
    {<<Local(<<"i", "t">>, <<N(1), Tab(<<N(5), N(6)>>)>>), Local(<<"o">>, <<V("t")>>)>> \o s
       \o <<Rets(<<V("i"), Idx(V("o"), N(1)), Idx(V("o"), N(2)), V("t")>>)>> :
       s \in LET both(ts, es) == {<<Asg(ts, es)>>, <<<<"localfunction", "f", <<>>, <<Asg(ts, es)>>>>, <<"call", V("f"), <<>>>>>>}
                 ti == Idx(V("t"), V("i"))
             IN  both(<<V("i"), ti>>, <<N(2), N(9)>>) \cup both(<<ti, V("i")>>, <<N(9), N(2)>>)
                 \cup both(<<ti, V("t")>>, <<N(9), N(8)>>) \cup both(<<ti, V("t"), V("i")>>, <<N(9), N(8)>>)
                 \cup both(<<ti, V("i"), V("t")>>, <<Call(P(Fn(<<>>, <<Rets(<<N(9), N(2), N(7)>>)>>)), <<>>)>>)
                 \cup both(<<V("i")>>, <<N(2), V("t")>>)}

MCPrograms == Valued \cup Branching \cup Computed \cup Passing \cup Captured \cup Jumping \cup Functions1 \cup Conflicts
              \cup Excepted

MCCases ==
    LET programs == MCPrograms
        dumped == Captured \cup Functions1 \cup Conflicts
    IN  {Case(p, "text") : p \in programs} \cup {Case(p, chunk) : p \in dumped, chunk \in {"dumped", "stripped", "cut"}}

MCLong == {<<"y">>, <<"n">>}
MCHuge == {<<"x">>}
=============================================================================
