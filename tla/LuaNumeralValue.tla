-------------------------- MODULE LuaNumeralValue ---------------------------
(***************************************************************************)
(* What a text means as a numeral, from the grammar of numerals: spaces, a *)
(* sign, digits with at most one dot, an exponent.                         *)
(***************************************************************************)
EXTENDS LuaChars

CONSTANTS IntBits, MAXDIG, INT_MAX

Dot == Code["."]
HexDigit(c) == IF isdigit(c) THEN c - 48 ELSE tolower(c) - 87

(* The number the digits of a sequence stand for.                          *)
Number(b, ds) == Folded([x \in Nat \X Nat |-> x[1] * b + HexDigit(x[2])], 0, ds)

Power(b, n) == Folded([x \in Nat \X Nat |-> x[1] * x[2]], 1, [i \in 1..n |-> b])

Trim(t) ==
  LET solid == {i \in DOMAIN t : ~isspace(t[i])} IN
  IF solid = {} THEN <<>>
  ELSE SubSeq(t, CHOOSE i \in solid : \A j \in solid : i <= j,
                 CHOOSE i \in solid : \A j \in solid : j <= i)

Signed(t) == t # <<>> /\ t[1] \in {Code["+"], Code["-"]}
Unsigned(t) == IF Signed(t) THEN Tail(t) ELSE t
Minus(t) == t # <<>> /\ t[1] = Code["-"]

(* The parts of an unsigned numeral: base, whole and fractional digits and *)
(* exponent.  The exponent begins at the first exponent letter.            *)
Parts(u) ==
  LET hex == Len(u) >= 2 /\ u[1] = 48 /\ u[2] \in {Code["x"], Code["X"]}
      body == IF hex THEN SubSeq(u, 3, Len(u)) ELSE u
      letters == {i \in DOMAIN body :
                    body[i] \in (IF hex THEN {Code["p"], Code["P"]} ELSE {101, 69})}
      cut == IF letters = {} THEN Len(body) + 1
             ELSE CHOOSE i \in letters : \A j \in letters : i <= j
      mantissa == SubSeq(body, 1, cut - 1)
      dots == {i \in DOMAIN mantissa : mantissa[i] = Dot}
      point == IF dots = {} THEN Len(mantissa) + 1 ELSE CHOOSE i \in dots : TRUE
  IN  [base |-> IF hex THEN 16 ELSE 10,
       whole |-> SubSeq(mantissa, 1, point - 1),
       fraction |-> SubSeq(mantissa, point + 1, Len(mantissa)),
       dots |-> Cardinality(dots),
       hasexp |-> letters # {},
       exponent |-> SubSeq(body, cut + 1, Len(body))]

IsNumeral(p) ==
  LET ok(c) == IF p.base = 16 THEN isxdigit(c) ELSE isdigit(c)
      ds == p.whole \o p.fraction
      es == Unsigned(p.exponent) IN
  /\ p.dots <= 1
  /\ ds # <<>> /\ \A i \in DOMAIN ds : ok(ds[i])
  /\ p.hasexp => es # <<>> /\ \A i \in DOMAIN es : isdigit(es[i])

(* Digits after the first MAXDIG that count are read as zeros.             *)
Kept(ds) ==
  LET sig == {i \in DOMAIN ds : \E j \in 1..i : ds[j] # 48}
  IN  [i \in DOMAIN ds |->
         IF Cardinality({j \in sig : j <= i}) <= MAXDIG THEN ds[i] ELSE 48]

Float(p, minus) ==
  LET m == Number(p.base, Kept(p.whole \o p.fraction))
      x == Number(10, Unsigned(p.exponent))
      b == IF p.base = 16 THEN 2 ELSE 10
      down == Minus(p.exponent) IN
  [n |-> (IF minus THEN -m ELSE m) * (IF down THEN 1 ELSE Power(b, x)),
   d |-> Power(p.base, Len(p.fraction)) * (IF down THEN Power(b, x) ELSE 1)]

(* A hexadecimal integer wraps around, a decimal one that does not fit is  *)
(* a float.                                                                *)
Wrapped(m) == LET u == m % 2^IntBits
              IN  IF u >= 2^(IntBits - 1) THEN u - 2^IntBits ELSE u

Meaning(t) ==
  LET u == Unsigned(Trim(t))
      p == Parts(u)
      minus == Minus(Trim(t))
      m == Number(p.base, p.whole)
      i == IF minus THEN -m ELSE m
      integral == p.dots = 0 /\ ~p.hasexp IN
  CASE ~IsNumeral(p) -> [fails |-> TRUE]
    [] IsNumeral(p) /\ integral /\ p.base = 16 -> [int |-> Wrapped(i)]
    [] /\ IsNumeral(p) /\ integral /\ p.base = 10
       /\ i \in -2^(IntBits - 1)..2^(IntBits - 1) - 1 -> [int |-> i]
    [] OTHER -> [float |-> Float(p, minus)]

(* The shapes strtod of the TA build is known to treat differently:        *)
(*   zeros     only zeros before the dot and a zero behind it (0.05)       *)
(*   negative  a negative binary exponent (0x1p-1)                         *)
(*   nodigits  0x without a digit, which it accepts                        *)
(*   nowhole   a decimal that begins with the dot (.5), rejected           *)
(*   decimal   a decimal exponent (1e5), rejected                          *)
(*   large     a binary exponent that is no int                            *)
Shapes(t) ==
  LET p == Parts(Unsigned(Trim(t)))
      es == Unsigned(p.exponent)
      zeros == {i \in DOMAIN p.whole : p.whole[i] # 48} = {}
                 /\ p.fraction # <<>> /\ p.fraction[1] = 48 IN
  {x \in {"zeros", "negative", "nodigits", "nowhole", "decimal", "large"} :
     CASE x = "zeros" -> IsNumeral(p) /\ zeros
       [] x = "negative" -> p.base = 16 /\ Minus(p.exponent)
       [] x = "nodigits" -> p.base = 16 /\ p.whole \o p.fraction = <<>>
       [] x = "nowhole" -> IsNumeral(p) /\ p.base = 10 /\ p.whole = <<>>
       [] x = "decimal" -> IsNumeral(p) /\ p.base = 10 /\ p.hasexp
       [] x = "large" ->
            /\ p.base = 16
            /\ \E k \in 1..Len(es) : /\ \A j \in 1..k : isdigit(es[j])
                                    /\ Number(10, SubSeq(es, 1, k)) > INT_MAX}

Numeral(t) == [text |-> t, meaning |-> Meaning(t), shapes |-> Shapes(t)]
=============================================================================
