----------------------------- MODULE MCLuaText ------------------------------
(***************************************************************************)
(* Instances of LuaText for TLC.  Patterns are put together from pieces:   *)
(* every piece, every two pieces and every captured piece followed by      *)
(* another one; so most of them backtrack, and some are malformed.         *)
(* Numerals are all texts of up to four of eight characters, and some      *)
(* longer ones around the limits.                                          *)
(***************************************************************************)
EXTENDS LuaText, TLC

P == INSTANCE LuaPatterns
V == INSTANCE LuaNumeralValue

Pieces ==
  {<<"a">>, <<"a", "-">>, <<".", "?">>, <<".", "*">>, <<"$">>,
   <<"^">>, <<"(">>, <<")">>, <<"(", ")">>, <<"%", "1">>, <<"%">>, <<"[", "a">>,
   <<"%", "b", "(", ")">>, <<"%", "f", "[", "b", "]">>}

Longer ==
  {<<"[", "^", "a", "]", "+">>,
   <<"(", "a", "*", "(", ".", ")", "%", "w", "(", ".", "*", ")", ")">>,
   <<"(", ")", "(", ".", "-", ")", "%", "2", "(", ")">>,
   <<"[", "a", "-", "b", "%", "d", "]", "+">>, <<"[", "]", "a", "]">>,
   <<"^", "(", "a", ")", "(", ")", "(", "b", "?", ")", "(", ")">>,
   <<"(", ")", "(", ")", "(", ")">>, <<"(", ")", "(", ")", "(", ")", "(", ")">>,
   <<"b", "(", ")", "(", "a", ")", "(", ")", "(", "?">>,
   <<"a", "-", "a", "-", "a", "-", "a", "-", "b", "$">>,
   <<"%", "A", "%", "x">>, <<"%", "b", "a", "a">>, <<"%", "f", "a">>}

ShortPatterns == {Str(p) : p \in {<<>>} \cup Longer \cup Pieces}

MCPatterns ==
  ShortPatterns \cup
  {Str(p) : p \in {p \o q : p, q \in Pieces}
             \cup {<<"(">> \o p \o <<")">> \o q : p, q \in Pieces}}

MCSubjects ==
  {Str(t) : t \in {<<>>, <<"a", "b", "a">>, <<"(", "a", ")", "b">>,
                   <<"b", "b", "1", "a", "a">>}}

(* %1x%0%%                                                                 *)
FourPieces ==
  [type |-> "string",
   text |-> Str(<<"%", "1", "x", "%", "0", "%", "%">>),
   pieces |-> <<[capture |-> 1], [literal |-> Str(<<"x">>)], [capture |-> 0],
                [literal |-> Str(<<"%">>)]>>]

Replacements ==
  {[type |-> "string", text |-> Str(<<"%", "2">>), pieces |-> <<[capture |-> 2]>>],
   [type |-> "string", text |-> Str(<<"a", "%">>),
    pieces |-> <<[literal |-> Str(<<"a">>)], [bad |-> TRUE]>>],
   [type |-> "function", gives |-> "argument"],
   [type |-> "table", gives |-> "nil"]}

FindCall(f, t, p, i, plain) ==
  [fn |-> f, src |-> t, pat |-> p, init |-> i, plain |-> plain]

GsubCall(t, p, repl, max) ==
  [fn |-> "gsub", src |-> t, pat |-> p, repl |-> repl, max |-> max]

Few == {Str(<<"b", "a">>), Str(<<")">>), Str(<<"a", "*">>), Str(<<"^", "a">>)}

StringCalls ==
  {FindCall(f, t, p, 1, FALSE) :
     f \in {"find", "match", "gmatch"}, t \in MCSubjects, p \in MCPatterns}
  \cup {GsubCall(t, p, repl, Len(t) + 1) :
          t \in MCSubjects, p \in ShortPatterns, repl \in Replacements}
  \cup {GsubCall(t, p, FourPieces, Len(t) + 1) : t \in MCSubjects, p \in MCPatterns}
  \cup {FindCall("find", t, p, i, plain) :
          t \in MCSubjects, p \in Few, i \in -4..5, plain \in BOOLEAN}
  \cup {GsubCall(t, p, [type |-> "function", gives |-> g], max) :
          t \in MCSubjects, p \in Few, g \in {"nil", "table"}, max \in 0..2}

Characters == {Code[c] : c \in {"0", "1", "5", ".", "x", "p", "-", "e"}}

(* A decimal exponent has one digit, so that TLC can compute its meaning.  *)
SmallExponent(t) ==
  \A i \in DOMAIN t : t[i] = Code["e"] => Len(t) <= i + 1 \/ ~isdigit(t[i + 1])

Texts ==
  {t \in UNION {[1..k -> Characters] : k \in 0..4} : SmallExponent(t)}
  \cup {Str(t) : t \in
         {<<"1", "2", "7">>, <<"1", "2", "8">>, <<"-", "1", "2", "8">>,
          <<"-", "1", "2", "9">>, <<"0", "x", "f", "f">>, <<"0", "x", "1", "0", "5">>,
          <<"1", "2", "3", "4", ".", "5">>, <<"1", "0", ".", "0", "5">>,
          <<"0", "x", "1", ".", "8", "p", "3">>, <<"0", "X", "A", "P", "+", "2">>,
          <<" ", "1", "2", " ">>, <<" ", "-", "1", ".", "5", " ">>, <<" ", " ">>,
          <<"n", "a", "n">>, <<"0", "x", "1", "p", "-", "1">>,
          <<"0", "x", "1", "p", "7">>, <<"0", "x", "1", "p", "8">>,
          <<"1", "1", "1", "1", "1">>, <<"0", "0", "0", "0", "7">>}}

(* With the promises worked out once.                                      *)
MCCalls == LET cs == StringCalls IN {P!WithPromise(c) : c \in cs}
MCNumerals == LET ts == Texts IN {V!Numeral(t) : t \in ts}

(* One numeral.                                                            *)
Fraction ==
  LET ts == {Str(<<"0", ".", "0", "5">>)} IN {V!Numeral(t) : t \in ts}
NoCalls == {}
=============================================================================
