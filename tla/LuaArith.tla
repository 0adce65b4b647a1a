------------------------------ MODULE LuaArith ------------------------------
(***************************************************************************)
(* Arithmetic on numbers, as the compiler does it on numerals (luaO_arith  *)
(* of lua/lobject.c) and the virtual machine on values (lua/lvm.c).        *)
(*                                                                         *)
(* A float is the exact quotient of two integers in lowest terms, with the *)
(* denominator 0 for the infinities and NaN: rounding and the sign of zero *)
(* are left out, and so is the width of integers, which no program comes   *)
(* near; no negative integer is shifted right.                             *)
(***************************************************************************)
EXTENDS Integers

IntV(n) == <<"int", n>>

RECURSIVE Gcd(_, _), Band(_, _)

Gcd(a, b) == IF b = 0 THEN a ELSE Gcd(b, a % b)

FloatV(n, d) ==
    LET s == IF d < 0 THEN -1 ELSE 1
        g == Gcd(IF n < 0 THEN -n ELSE n, s * d)
    IN  <<"float", IF g = 0 THEN <<0, 0>> ELSE <<(s * n) \div g, (s * d) \div g>>>>

IsNumber(v) == v[1] \in {"int", "float"}
Ratio(v) == IF v[1] = "int" THEN <<v[2], 1>> ELSE v[2]

(* luaV_tointeger: floats with an integral value count as integers. *)
IsIntegral(v) == IsNumber(v) /\ Ratio(v)[2] = 1

Less(v, w) == Ratio(v)[1] * Ratio(w)[2] < Ratio(w)[1] * Ratio(v)[2]

BitOps == {"BAND", "BOR", "BXOR", "SHL", "SHR", "BNOT"}

----------------------------------------------------------------------------

(* luaV_div and luaV_mod round down. *)
LuaV_div(a, b) == IF b > 0 THEN a \div b ELSE (-a) \div (-b)
LuaV_mod(a, b) == a - b * LuaV_div(a, b)

(* Two's complement: -1 has all bits set. *)
Bnot(a) == -a - 1
Band(a, b) ==
    CASE a = 0 \/ b = 0 -> 0
      [] a = -1 /\ b # 0 -> b
      [] b = -1 /\ a # 0 -> a
      [] OTHER -> 2 * Band(a \div 2, b \div 2) + (a % 2) * (b % 2)
Bor(a, b) == Bnot(Band(Bnot(a), Bnot(b)))

NBITS == 64
LuaV_shiftl(x, y) ==
    CASE y >= NBITS \/ y <= -NBITS -> 0
      [] y \in 0..(NBITS - 1) -> x * 2 ^ y
      [] OTHER -> x \div 2 ^ (-y)

IntArith(op, a, b) ==
    CASE op = "ADD" -> a + b
      [] op = "SUB" -> a - b
      [] op = "MUL" -> a * b
      [] op = "MOD" -> LuaV_mod(a, b)
      [] op = "IDIV" -> LuaV_div(a, b)
      [] op = "BAND" -> Band(a, b)
      [] op = "BOR" -> Bor(a, b)
      [] op = "BXOR" -> Bor(a, b) - Band(a, b)
      [] op = "SHL" -> LuaV_shiftl(a, b)
      [] op = "SHR" -> LuaV_shiftl(a, -b)
      [] op = "UNM" -> -a
      [] op = "BNOT" -> Bnot(a)

(* On floats p and q; the two operations this build lacks have no value. *)
NumArith(op, p, q) ==
    CASE op = "ADD" -> FloatV(p[1] * q[2] + q[1] * p[2], p[2] * q[2])
      [] op = "SUB" -> FloatV(p[1] * q[2] - q[1] * p[2], p[2] * q[2])
      [] op = "MUL" -> FloatV(p[1] * q[1], p[2] * q[2])
      [] op = "DIV" -> FloatV(p[1] * q[2], p[2] * q[1])
      [] op = "IDIV" -> IF q[1] = 0 THEN FloatV(p[1], 0) ELSE FloatV(LuaV_div(p[1] * q[2], p[2] * q[1]), 1)
      [] op = "UNM" -> FloatV(-p[1], p[2])

(* numarith raises an error for ^, and for % on floats. *)
ArithRaises(op, a, b) == op = "POW" \/ (op = "MOD" /\ {a[1], b[1]} # {"int"})

LuaO_arith(op, a, b) ==
    CASE op \in BitOps -> IntV(IntArith(op, Ratio(a)[1], Ratio(b)[1]))
      [] op \notin BitOps \cup {"DIV"} /\ {a[1], b[1]} = {"int"} -> IntV(IntArith(op, a[2], b[2]))
      [] OTHER -> NumArith(op, Ratio(a), Ratio(b))
=============================================================================
