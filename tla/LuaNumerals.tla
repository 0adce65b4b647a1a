---------------------------- MODULE LuaNumerals -----------------------------
(***************************************************************************)
(* From text to number: luaO_str2num (lua/lobject.c), which the lexer, the *)
(* coercions and tonumber use, and the strtod of lua/ltrusted_app.c under  *)
(* it, which the TA build has instead of libc's.  One loop iteration of    *)
(* strtod is one step.                                                     *)
(*                                                                         *)
(* A double is an exact fraction here: rounding is left out.  Integers     *)
(* keep their width.                                                       *)
(***************************************************************************)
EXTENDS LuaChars

CONSTANTS
  IntBits,    \* width of lua_Integer (64)
  MAXDIG,     \* digits strtod keeps (30)
  INT_MAX     \* the greatest C int

ASSUME NumeralsAssumption ==
  IntBits \in Nat \ {0, 1} /\ MAXDIG \in Nat \ {0} /\ INT_MAX \in Nat

INT_MIN == -INT_MAX - 1

VARIABLES
  num,       \* the text, with what it stands for
  npc,       \* "idle", "str2num", "digits", "exponent", "scale",
             \* "hangs" or "done"
  s,         \* the place strtod has read to
  endptr,    \* where the numeral ends for the caller
  base,      \* 10 or 16
  neg,       \* there was a minus sign
  r,         \* the result accumulator
  hasdot, sigfig, e, exp,
  value      \* what luaO_str2num stored, or that it failed

numeralVars == <<num, npc, s, endptr, base, neg, r, hasdot, sigfig, e, exp, value>>

NoNumeral == [text |-> <<>>]

NumeralsInit(c) ==
  /\ num = c
  /\ npc = IF c = NoNumeral THEN "idle" ELSE "str2num"
  /\ s = 1 /\ endptr = 1
  /\ base = 0 /\ neg = FALSE /\ hasdot = FALSE
  /\ r = [n |-> 0, d |-> 1]
  /\ sigfig = 0 /\ e = 0 /\ exp = 0
  /\ value = [fails |-> TRUE]

-----------------------------------------------------------------------------
(* The places the loops over spaces and digits stop at, and signs.         *)

Spaces(t) == {k \in DOMAIN t : isspace(t[k])}
Digits(t) == {k \in DOMAIN t : isdigit(t[k])}
HexDigits(t) == {k \in DOMAIN t : isxdigit(t[k])}

(* The first place from i on that is not one of ks.                        *)
After(ks, t, i) ==
  CHOOSE j \in i..Len(t) + 1 : i..j - 1 \subseteq ks /\ j \notin ks

AfterSpaces(t, i) == After(Spaces(t), t, i)
Sign == {Code["-"], Code["+"]}
isneg(t, i) == At(t, i) = Code["-"]
AfterSign(t, i) == IF At(t, i) \in Sign THEN i + 1 ELSE i

HexPrefix(t, i) == At(t, i) = Code["0"] /\ At(t, i + 1) \in {Code["x"], Code["X"]}

hexavalue(c) == IF isdigit(c) THEN c - Code["0"] ELSE tolower(c) - Code["a"] + 10

-----------------------------------------------------------------------------
(* l_str2int: an integer numeral that fits, or a hexadecimal one modulo    *)
(* the size of lua_Unsigned.                                               *)

LUA_MAXINTEGER == 2^(IntBits - 1) - 1
MAXBY10 == LUA_MAXINTEGER \div 10
MAXLASTD == LUA_MAXINTEGER % 10

(* What next makes of the digits from i on, up to place at.                *)
Read(next, t, i, at) == [a |-> Folded(next, 0, SubSeq(t, i, at - 1)), at |-> at]

AddHex == [x \in Nat \X Nat |-> (x[1] * 16 + hexavalue(x[2])) % 2^IntBits]

ReadHex(t, i) == Read(AddHex, t, i, After(HexDigits(t), t, i))

(* Fault: the last digit is not compared.                                  *)
OverflowsLate(a, d, minus) == a > MAXBY10

Overflows(a, d, minus) ==
  a >= MAXBY10 /\ (a > MAXBY10 \/ d > MAXLASTD + (IF minus THEN 1 ELSE 0))

Overflow == -1

AddDecimal(minus) ==
  [x \in (Nat \cup {Overflow}) \X Nat |->
     IF x[1] = Overflow \/ Overflows(x[1], x[2] - Code["0"], minus) THEN Overflow
     ELSE (x[1] * 10 + (x[2] - Code["0"])) % 2^IntBits]

ReadDecimal(t, i, minus) == Read(AddDecimal(minus), t, i, After(Digits(t), t, i))

(* l_castU2S of 0u - a or of a.                                            *)
CastU2S(a, minus) ==
  LET u == IF minus THEN (-a) % 2^IntBits ELSE a
  IN  IF u > LUA_MAXINTEGER THEN u - 2^IntBits ELSE u

(* The digits from i on were read up to got.at.                            *)
IntRead(t, i, got, minus) ==
  IF /\ got.a # Overflow
     /\ got.at > i                                  \* not empty
     /\ AfterSpaces(t, got.at) = Len(t) + 1
  THEN [int |-> CastU2S(got.a, minus)]
  ELSE [fails |-> TRUE]

IntFrom(t, i, minus) ==
  IF HexPrefix(t, i) THEN IntRead(t, i + 2, ReadHex(t, i + 2), minus)
  ELSE IntRead(t, i, ReadDecimal(t, i, minus), minus)

l_str2int(t) ==
  LET i == AfterSpaces(t, 1) IN IntFrom(t, AfterSign(t, i), isneg(t, i))

-----------------------------------------------------------------------------
(* luaO_str2num.                                                           *)

Fails == npc' = "done" /\ value' = [fails |-> TRUE]

(* The first of these characters; n and N belong to nan and inf.           *)
Modes == {Code[c] : c \in {".", "x", "X", "n"}} \cup {78}
Mode(t) == LET i == strpbrk_me(t, 1, Modes) IN IF i = 0 THEN NUL ELSE tolower(t[i])

Str2Int ==
  /\ npc = "str2num"
  /\ "int" \in DOMAIN l_str2int(num.text)
  /\ value' = l_str2int(num.text)
  /\ npc' = "done"
  /\ UNCHANGED <<num, s, endptr, base, neg, r, hasdot, sigfig, e, exp>>

(* l_str2d rejects a text with n before it converts.  strtod: spaces, the  *)
(* sign and the base; without a digit nothing is recognised, and endptr    *)
(* stays at the start.  The second attempt, with the decimal point of the  *)
(* locale, is made with the same point and fails like the first.           *)
Strtod ==
  /\ npc = "str2num"
  /\ "fails" \in DOMAIN l_str2int(num.text)
  /\ LET t == num.text
         i == AfterSpaces(t, 1)
         j == AfterSign(t, i) IN
     IF Mode(t) = Code["n"] \/ ~(HexPrefix(t, j) \/ isdigit(At(t, j)))
     THEN Fails /\ UNCHANGED <<s, base, neg>>
     ELSE /\ neg' = isneg(t, i)
          /\ base' = IF HexPrefix(t, j) THEN 16 ELSE 10
          /\ s' = IF HexPrefix(t, j) THEN j + 2 ELSE j
          /\ npc' = "digits" /\ UNCHANGED value
  /\ UNCHANGED <<num, endptr, r, hasdot, sigfig, e, exp>>

Here == At(num.text, s)
IsNumeral(c) == IF base = 16 THEN isxdigit(c) ELSE isdigit(c)

ReadDot ==
  /\ npc = "digits"
  /\ Here = Code["."] /\ ~hasdot
  /\ hasdot' = TRUE
  /\ s' = s + 1
  /\ UNCHANGED <<num, npc, endptr, base, neg, r, sigfig, e, exp, value>>

(* A leading zero is passed over, also behind the dot.                     *)
ReadDigit ==
  /\ npc = "digits"
  /\ IsNumeral(Here)
  /\ IF Here = Code["0"] /\ sigfig = 0
     THEN UNCHANGED <<r, sigfig, e>>
     ELSE /\ sigfig' = sigfig + 1
          /\ r' = IF sigfig' <= MAXDIG THEN [r EXCEPT !.n = @ * base + hexavalue(Here)]
                  ELSE r
          /\ e' = e + (IF sigfig' <= MAXDIG THEN 0 ELSE 1) - (IF hasdot THEN 1 ELSE 0)
  /\ s' = s + 1
  /\ UNCHANGED <<num, npc, endptr, base, neg, hasdot, exp, value>>

(* Fault: a second dot neither continues nor ends the loop.                *)
EndDigitsNotAtDot ==
  /\ npc = "digits"
  /\ ~IsNumeral(Here) /\ Here # Code["."]
  /\ endptr' = s
  /\ npc' = "exponent"
  /\ UNCHANGED <<num, s, base, neg, r, hasdot, sigfig, e, exp, value>>

EndDigits ==
  /\ npc = "digits"
  /\ ~IsNumeral(Here) /\ ~(Here = Code["."] /\ ~hasdot)
  /\ endptr' = s
  /\ npc' = "exponent"
  /\ UNCHANGED <<num, s, base, neg, r, hasdot, sigfig, e, exp, value>>

AddDigit == [x \in Nat \X Nat |-> x[1] * 10 + (x[2] - Code["0"])]

ReadNat(t, i) == Read(AddDigit, t, i, After(Digits(t), t, i))

(* p and an exponent; p without one makes strtod return at once, with      *)
(* endptr at the p, and the caller rejects what is left.  Above INT_MAX    *)
(* the behaviour is undefined: exp may be any int.                         *)
Exponent ==
  /\ npc = "exponent"
  /\ LET i == AfterSign(num.text, s + 1)
         got == ReadNat(num.text, i) IN
     IF base = 16 /\ Here \in {Code["p"], Code["P"]}
     THEN IF got.at = i
          THEN Fails /\ UNCHANGED <<s, endptr, exp>>
          ELSE /\ exp' \in IF got.a > INT_MAX THEN INT_MIN..INT_MAX
                          ELSE {IF isneg(num.text, s + 1) THEN -got.a ELSE got.a}
               /\ s' = got.at /\ endptr' = got.at
               /\ npc' = "scale" /\ UNCHANGED value
     ELSE npc' = "scale" /\ UNCHANGED <<s, endptr, exp, value>>
  /\ UNCHANGED <<num, base, neg, r, hasdot, sigfig, e>>

(* The loops over e, then those over exp.                                  *)
ScaleByBase ==
  /\ npc = "scale"
  /\ \/ e > 0 /\ e' = e - 1 /\ r' = [r EXCEPT !.n = @ * base]
     \/ e < 0 /\ e' = e + 1 /\ r' = [r EXCEPT !.d = @ * base]
  /\ UNCHANGED <<num, npc, s, endptr, base, neg, hasdot, sigfig, exp, value>>

(* The second loop counts down from a negative number.                     *)
ScaleByTwo ==
  /\ npc = "scale" /\ e = 0
  /\ \/ exp > 0 /\ exp' = exp - 1 /\ r' = [r EXCEPT !.n = @ * 2]
     \/ exp < 0 /\ exp > INT_MIN /\ exp' = exp - 1 /\ r' = [r EXCEPT !.d = @ * 2]
  /\ UNCHANGED <<num, npc, s, endptr, base, neg, hasdot, sigfig, e, value>>

(* Below INT_MIN the behaviour is undefined: exp wraps around and the loop *)
(* ends with what is left of r, which is zero, or it never ends.           *)
ScaleBelowMin ==
  /\ npc = "scale" /\ e = 0 /\ exp = INT_MIN
  /\ \/ exp' = 0 /\ r' = [n |-> 0, d |-> 1] /\ UNCHANGED npc
     \/ npc' = "hangs" /\ UNCHANGED <<exp, r>>
  /\ UNCHANGED <<num, s, endptr, base, neg, hasdot, sigfig, e, value>>

(* l_str2dloc: only spaces may follow.  The sign was applied before the    *)
(* scaling.                                                                *)
EndStrtod ==
  /\ npc = "scale" /\ e = 0 /\ exp = 0
  /\ npc' = "done"
  /\ value' = IF AfterSpaces(num.text, endptr) = Len(num.text) + 1
              THEN [float |-> [r EXCEPT !.n = IF neg THEN -@ ELSE @]]
              ELSE [fails |-> TRUE]
  /\ UNCHANGED <<num, s, endptr, base, neg, r, hasdot, sigfig, e, exp>>

NumeralsNext ==
  \/ Str2Int \/ Strtod \/ ReadDot \/ ReadDigit \/ EndDigits
  \/ Exponent \/ ScaleByBase \/ ScaleByTwo \/ ScaleBelowMin \/ EndStrtod

-----------------------------------------------------------------------------
(* Properties.  num.meaning is the number the text stands for, by the      *)
(* grammar of numerals, and num.shapes the ways in which it is one that    *)
(* strtod is known to treat differently.                                   *)

SameNumber(v, w) ==
  CASE "float" \in DOMAIN v /\ "float" \in DOMAIN w ->
         v.float.n * w.float.d = w.float.n * v.float.d
    [] OTHER -> v = w

(* luaO_str2num gives every text its meaning: an integer exactly if it     *)
(* fits (a hexadecimal one modulo 2^IntBits), otherwise the float it       *)
(* denotes, to MAXDIG digits, and what is no numeral is rejected; except   *)
(* for six shapes of text, of which nothing is said.                       *)
NumeralsConvert ==
  npc = "done" /\ num # NoNumeral /\ num.shapes = {}
    => SameNumber(value, num.meaning)

(* The same without the exceptions: "lua_str2number converts a decimal     *)
(* numeric string to a number" (luaconf.h).                                *)
EveryNumeralConverts ==
  npc = "done" /\ num # NoNumeral => SameNumber(value, num.meaning)
=============================================================================
