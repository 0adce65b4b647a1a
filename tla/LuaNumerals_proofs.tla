------------------------- MODULE LuaNumerals_proofs -------------------------
(***************************************************************************)
(* luaO_str2num gives every text its meaning as a numeral, for texts of    *)
(* any length, any width of integers and any number of digits kept.        *)
(***************************************************************************)
EXTENDS LuaNumerals, FiniteSetTheorems, TLAPS

V == INSTANCE LuaNumeralValue

-----------------------------------------------------------------------------
(* Induction over the naturals, with sets in place of predicates.          *)

(* A nonempty set of naturals has a least element.                         *)
LEMMA LeastNat ==
  ASSUME NEW S \in SUBSET Nat, S # {}
  PROVE  \E m \in S : \A k \in S : m <= k
<1> DEFINE R == StrictSubsetOrdering(Nat)
           F == FiniteSubsetsOf(Nat)
           T == {0 .. n : n \in S}
<1>1. IsWellFoundedOn(R, F)
  BY FS_StrictSubsetOrderingWellFounded
<1>2. T \subseteq F
  <2> SUFFICES ASSUME NEW n \in S PROVE 0 .. n \in F
    OBVIOUS
  <2>1. n \in Nat /\ 0 \in Int /\ n \in Int
    OBVIOUS
  <2>2. IsFiniteSet(0 .. n)
    BY <2>1, FS_Interval
  <2>3. QED
    BY <2>2 DEF FiniteSubsetsOf
<1>3. T # {}
  OBVIOUS
<1> HIDE DEF R, F
<1>4. PICK x \in T : \A y \in T : ~ (<<y, x>> \in R)
  BY <1>1, <1>2, <1>3, WFMin
<1>5. PICK m \in S : x = 0 .. m
  BY <1>4
<1>6. ASSUME NEW k \in S, k < m PROVE FALSE
  <2>1. 0 .. k \subseteq 0 .. m /\ m \in 0 .. m /\ m \notin 0 .. k
    BY <1>6
  <2>2. <<0 .. k, 0 .. m>> \in R
    BY <2>1 DEF R, StrictSubsetOrdering
  <2>3. QED
    BY <1>4, <1>5, <2>2
<1>7. QED
  BY <1>6

(* A set that holds 0 and the successor of every member holds all naturals. *)
LEMMA NatSet ==
  ASSUME NEW S, 0 \in S, \A n \in Nat : n \in S => n + 1 \in S
  PROVE  \A n \in Nat : n \in S
<1> SUFFICES ASSUME NEW n \in Nat, n \notin S PROVE FALSE
  OBVIOUS
<1> DEFINE B == {k \in Nat : k \notin S}
<1>1. B \in SUBSET Nat /\ B # {}
  OBVIOUS
<1> HIDE DEF B
<1>2. PICK m \in B : \A k \in B : m <= k
  BY <1>1, LeastNat
<1>3. m \in Nat /\ m # 0 /\ m \notin S
  BY <1>2 DEF B
<1>4. m - 1 \in Nat /\ m - 1 \notin B
  BY <1>2, <1>3
<1>5. QED
  BY <1>3, <1>4 DEF B

-----------------------------------------------------------------------------
(* Recursive functions have the values their equations state.              *)

Folding(next, start, t) ==
  LET at[k \in 0 .. Len(t)] == IF k = 0 THEN start ELSE next[<<at[k - 1], t[k]>>] IN at

LEMMA FoldingFacts ==
  ASSUME NEW next, NEW start, NEW t, Len(t) \in Nat
  PROVE  /\ Folding(next, start, t)[0] = start
         /\ \A k \in 0 .. Len(t) - 1 :
              Folding(next, start, t)[k + 1] = next[<<Folding(next, start, t)[k], t[k + 1]>>]
         /\ Folded(next, start, t) = Folding(next, start, t)[Len(t)]
<1> DEFINE n == Len(t)
           G(g, m) == g = [i \in 0 .. m |-> IF i = 0 THEN start ELSE next[<<g[i - 1], t[i]>>]]
           S == {m \in Nat : \E g : G(g, m)}
           at[k \in 0 .. n] == IF k = 0 THEN start ELSE next[<<at[k - 1], t[k]>>]
<1>1. 0 \in S
  <2>1. G([i \in 0 .. 0 |-> start], 0)
    OBVIOUS
  <2>2. QED
    BY <2>1
<1>2. ASSUME NEW m \in Nat, m \in S PROVE m + 1 \in S
  <2>1. PICK g : G(g, m)
    BY <1>2
  <2>a. \A i \in 0 .. m : g[i] = IF i = 0 THEN start ELSE next[<<g[i - 1], t[i]>>]
    BY <2>1
  <2> HIDE DEF G
  <2> DEFINE h == [i \in 0 .. m + 1 |-> IF i <= m THEN g[i] ELSE next[<<g[m], t[m + 1]>>]]
  <2>2. \A i \in 0 .. m : h[i] = g[i]
    OBVIOUS
  <2>3. \A i \in 0 .. m + 1 : h[i] = IF i = 0 THEN start ELSE next[<<h[i - 1], t[i]>>]
    <3> SUFFICES ASSUME NEW i \in 0 .. m + 1
                 PROVE h[i] = IF i = 0 THEN start ELSE next[<<h[i - 1], t[i]>>]
      OBVIOUS
    <3>1. CASE i = 0
      <4>0. 0 \in 0 .. m
        OBVIOUS
      <4>1. g[0] = IF 0 = 0 THEN start ELSE next[<<g[0 - 1], t[0]>>]
        BY ONLY <2>a, <4>0
      <4>2. QED
        BY <2>2, <3>1, <4>0, <4>1
    <3>2. CASE i # 0 /\ i <= m
      <4>1. g[i] = next[<<g[i - 1], t[i]>>]
        BY <2>a, <3>2
      <4>2. i - 1 \in 0 .. m
        BY <3>2
      <4>3. QED
        BY <2>2, <3>2, <4>1, <4>2
    <3>3. CASE i = m + 1
      <4>1. h[m + 1] = next[<<g[m], t[m + 1]>>]
        BY <3>3
      <4>2. h[m] = g[m] /\ (m + 1) - 1 = m /\ m + 1 # 0
        BY <2>2
      <4> HIDE DEF h
      <4>3. QED
        BY ONLY <3>3, <4>1, <4>2
    <3>4. QED
      BY <3>1, <3>2, <3>3
  <2>4. h = [i \in 0 .. m + 1 |-> IF i = 0 THEN start ELSE next[<<h[i - 1], t[i]>>]]
    BY <2>3
  <2>5. G(h, m + 1)
    BY <2>4 DEF G
  <2>6. \E k : G(k, m + 1)
    <3> HIDE DEF G, h
    <3>1. QED
      BY <2>5
  <2>7. QED
    <3> HIDE DEF G
    <3>1. QED
      BY <2>6
<1>3. n \in S
  <2> HIDE DEF S
  <2>1. n \in Nat
    OBVIOUS
  <2> HIDE DEF n
  <2>2. QED
    BY <1>1, <1>2, <2>1, NatSet
<1>4. at = [k \in 0 .. n |-> IF k = 0 THEN start ELSE next[<<at[k - 1], t[k]>>]]
  BY <1>3
<1>5. at[0] = start /\ \A k \in 0 .. n - 1 : at[k + 1] = next[<<at[k], t[k + 1]>>]
  <2> HIDE DEF at
  <2>0. n \in Nat
    OBVIOUS
  <2> HIDE DEF n
  <2>1. \A k \in 0 .. n : at[k] = IF k = 0 THEN start ELSE next[<<at[k - 1], t[k]>>]
    BY <1>4
  <2>2. 0 \in 0 .. n /\ \A k \in 0 .. n - 1 : k + 1 \in 0 .. n /\ k + 1 # 0 /\ (k + 1) - 1 = k
    BY <2>0
  <2>3. QED
    BY <2>1, <2>2
<1>6. at = Folding(next, start, t) /\ Folded(next, start, t) = at[n]
  BY DEF Folding, Folded
<1>7. QED
  <2> HIDE DEF at
  <2>1. QED
    BY <1>5, <1>6

(* The values stay in any set that next does not leave.                    *)
LEMMA FoldingType ==
  ASSUME NEW next, NEW start, NEW t, Len(t) \in Nat, NEW A, start \in A,
         \A a \in A : \A k \in 1 .. Len(t) : next[<<a, t[k]>>] \in A
  PROVE  \A k \in 0 .. Len(t) : Folding(next, start, t)[k] \in A
<1> DEFINE F == Folding(next, start, t)
           S == {k \in Nat : k <= Len(t) => F[k] \in A}
<1>1. F[0] = start /\ \A k \in 0 .. Len(t) - 1 : F[k + 1] = next[<<F[k], t[k + 1]>>]
  BY FoldingFacts
<1> HIDE DEF F
<1>2. 0 \in S
  BY <1>1
<1>3. ASSUME NEW k \in Nat, k \in S PROVE k + 1 \in S
  <2>1. CASE k + 1 <= Len(t)
    <3>1. F[k] \in A /\ k \in 0 .. Len(t) - 1 /\ k + 1 \in 1 .. Len(t)
      BY <1>3, <2>1
    <3>2. F[k + 1] \in A
      BY <1>1, <3>1
    <3>3. QED
      BY <3>2
  <2>2. QED
    BY <2>1
<1> HIDE DEF S
<1>4. \A k \in Nat : k \in S
  BY <1>2, <1>3, NatSet
<1>5. QED
  BY <1>4 DEF S, F

-----------------------------------------------------------------------------
(* Characters and digits.                                                  *)

LEMMA CodeFacts ==
  /\ Code["0"] = 48 /\ Code["."] = 46 /\ Code["-"] = 45 /\ Code["+"] = 43
  /\ Code["x"] = 120 /\ Code["X"] = 88 /\ Code["p"] = 112 /\ Code["P"] = 80
  /\ Code["a"] = 97 /\ Code["n"] = 110
BY DEF Code

LEMMA SameCodes == V!Code = Code
BY DEF V!Code, Code

Codes(b) == {c \in Nat : IF b = 16 THEN isxdigit(c) ELSE isdigit(c)}
Value(c) == V!HexDigit(c)

LEMMA CodesAre ==
  /\ Codes(10) = 48 .. 57
  /\ Codes(16) = (48 .. 57) \cup (65 .. 70) \cup (97 .. 102)
BY DEF Codes, isdigit, isxdigit

LEMMA DigitFacts ==
  ASSUME NEW b \in {10, 16}, NEW c \in Codes(b)
  PROVE  /\ c \in Nat /\ c \in Codes(16)
         /\ Value(c) \in 0 .. b - 1
         /\ hexavalue(c) = Value(c)
         /\ c \in 48 .. 57 => Value(c) = c - 48
<1>1. c \in (48 .. 57) \cup (65 .. 70) \cup (97 .. 102) /\ (b = 10 => c \in 48 .. 57)
  BY CodesAre
<1>2. Value(c) = IF c \in 48 .. 57 THEN c - 48 ELSE (IF c \in 65 .. 90 THEN c + 32 ELSE c) - 87
  BY <1>1 DEF Value, V!HexDigit, V!isdigit, V!tolower, V!isupper
<1>3. hexavalue(c) = IF c \in 48 .. 57 THEN c - 48
                     ELSE (IF c \in 65 .. 90 THEN c + 32 ELSE c) - 97 + 10
  BY <1>1, CodeFacts DEF hexavalue, isdigit, tolower, isupper
<1>4. QED
  BY <1>1, <1>2, <1>3, CodesAre

-----------------------------------------------------------------------------
(* The numbers that sequences of digits stand for, and powers.             *)

AddOne(b) == [x \in Nat \X Nat |-> x[1] * b + Value(x[2])]

(* The number that the first k digits of ds stand for is Num(b, ds)[k].    *)
Num(b, ds) == Folding(AddOne(b), 0, ds)

AllIn(ds, S) == \A k \in 1 .. Len(ds) : ds[k] \in S

LEMMA NumFacts ==
  ASSUME NEW b \in {10, 16}, NEW ds, Len(ds) \in Nat, AllIn(ds, Codes(b))
  PROVE  /\ Num(b, ds)[0] = 0
         /\ \A k \in 0 .. Len(ds) : Num(b, ds)[k] \in Nat
         /\ \A k \in 0 .. Len(ds) - 1 :
              Num(b, ds)[k + 1] = Num(b, ds)[k] * b + Value(ds[k + 1])
         /\ V!Number(b, ds) = Num(b, ds)[Len(ds)]
<1> DEFINE F == Folding(AddOne(b), 0, ds)
<1>1. \A a, c \in Nat : AddOne(b)[<<a, c>>] = a * b + Value(c)
  BY DEF AddOne
<1>2. \A k \in 1 .. Len(ds) : ds[k] \in Nat /\ Value(ds[k]) \in Nat
  <2> SUFFICES ASSUME NEW k \in 1 .. Len(ds) PROVE ds[k] \in Nat /\ Value(ds[k]) \in Nat
    OBVIOUS
  <2>1. ds[k] \in Codes(b)
    BY DEF AllIn
  <2>2. ds[k] \in Nat /\ Value(ds[k]) \in 0 .. b - 1
    BY <2>1, DigitFacts
  <2>3. QED
    BY <2>2
<1>3. \A a \in Nat : \A k \in 1 .. Len(ds) : AddOne(b)[<<a, ds[k]>>] \in Nat
  <2> SUFFICES ASSUME NEW a \in Nat, NEW k \in 1 .. Len(ds)
               PROVE  AddOne(b)[<<a, ds[k]>>] \in Nat
    OBVIOUS
  <2>1. AddOne(b)[<<a, ds[k]>>] = a * b + Value(ds[k])
    BY <1>1, <1>2
  <2>2. a * b \in Nat
    OBVIOUS
  <2>3. QED
    BY <2>1, <2>2, <1>2
<1>4. \A k \in 0 .. Len(ds) : F[k] \in Nat
  <2>1. 0 \in Nat
    OBVIOUS
  <2>2. QED
    BY ONLY <2>1, <1>3, Len(ds) \in Nat, FoldingType
<1>5. /\ F[0] = 0
      /\ \A k \in 0 .. Len(ds) - 1 : F[k + 1] = AddOne(b)[<<F[k], ds[k + 1]>>]
      /\ Folded(AddOne(b), 0, ds) = F[Len(ds)]
  BY FoldingFacts
<1> HIDE DEF F
<1>6. \A k \in 0 .. Len(ds) - 1 : F[k + 1] = F[k] * b + Value(ds[k + 1])
  <2> SUFFICES ASSUME NEW k \in 0 .. Len(ds) - 1 PROVE F[k + 1] = F[k] * b + Value(ds[k + 1])
    OBVIOUS
  <2>1. k \in 0 .. Len(ds) /\ k + 1 \in 1 .. Len(ds)
    OBVIOUS
  <2>2. QED
    BY <1>1, <1>2, <1>4, <1>5, <2>1
<1>7. V!Number(b, ds) = Folded(AddOne(b), 0, ds)
  BY DEF V!Number, V!Folded, Folded, AddOne, Value
<1>8. QED
  BY <1>4, <1>5, <1>6, <1>7 DEF F, Num

Times == [x \in Nat \X Nat |-> x[1] * x[2]]
Copies(b, n) == [i \in 1 .. n |-> b]

LEMMA CopiesLen ==
  ASSUME NEW b \in Nat, NEW n \in Nat
  PROVE  Copies(b, n) \in Seq(Nat) /\ Len(Copies(b, n)) = n /\ \A i \in 1 .. n : Copies(b, n)[i] = b
BY DEF Copies

LEMMA PowerFacts ==
  ASSUME NEW b \in Nat \ {0}
  PROVE  /\ V!Power(b, 0) = 1
         /\ \A n \in Nat : V!Power(b, n) \in Nat \ {0}
         /\ \A n \in Nat : V!Power(b, n + 1) = V!Power(b, n) * b
<1> DEFINE F(n) == Folding(Times, 1, Copies(b, n))
<1>1. ASSUME NEW n \in Nat
      PROVE  /\ F(n)[0] = 1
             /\ \A k \in 0 .. n - 1 : F(n)[k + 1] = F(n)[k] * b
             /\ \A k \in 0 .. n : F(n)[k] \in Nat \ {0}
             /\ V!Power(b, n) = F(n)[n]
  <2>1. Len(Copies(b, n)) = n /\ \A i \in 1 .. n : Copies(b, n)[i] = b
    BY CopiesLen
  <2>2. \A a \in Nat \ {0} : Times[<<a, b>>] = a * b /\ a * b \in Nat \ {0}
    BY DEF Times
  <2>3. /\ F(n)[0] = 1
        /\ \A k \in 0 .. Len(Copies(b, n)) - 1 :
              F(n)[k + 1] = Times[<<F(n)[k], Copies(b, n)[k + 1]>>]
        /\ Folded(Times, 1, Copies(b, n)) = F(n)[Len(Copies(b, n))]
    BY <2>1, FoldingFacts
  <2>4. \A k \in 0 .. Len(Copies(b, n)) : F(n)[k] \in Nat \ {0}
    <3> DEFINE A == Nat \ {0}
    <3>1. 1 \in A
      OBVIOUS
    <3>2. \A a \in A : \A k \in 1 .. Len(Copies(b, n)) : Times[<<a, Copies(b, n)[k]>>] \in A
      BY <2>1, <2>2
    <3>3. Len(Copies(b, n)) \in Nat
      BY <2>1
    <3> HIDE DEF A
    <3>4. \A k \in 0 .. Len(Copies(b, n)) : F(n)[k] \in A
      BY ONLY <3>1, <3>2, <3>3, FoldingType
    <3>5. QED
      BY <3>4 DEF A
  <2>5. V!Power(b, n) = Folded(Times, 1, Copies(b, n))
    BY DEF V!Power, V!Folded, Folded, Times, Copies
  <2> HIDE DEF F
  <2>6. \A k \in 0 .. n - 1 : F(n)[k + 1] = F(n)[k] * b
    <3> SUFFICES ASSUME NEW k \in 0 .. n - 1 PROVE F(n)[k + 1] = F(n)[k] * b
      OBVIOUS
    <3>1. k \in 0 .. Len(Copies(b, n)) - 1 /\ k + 1 \in 1 .. n /\ k \in 0 .. Len(Copies(b, n))
      BY <2>1
    <3>2. QED
      BY <2>1, <2>2, <2>3, <2>4, <3>1
  <2>7. QED
    BY <2>1, <2>3, <2>4, <2>5, <2>6
<1> HIDE DEF F
<1>2. ASSUME NEW n \in Nat
      PROVE  \A k \in Nat : k <= n => F(n + 1)[k] = F(n)[k]
  <2> DEFINE S == {k \in Nat : k <= n => F(n + 1)[k] = F(n)[k]}
  <2>1. 0 \in S
    BY <1>1
  <2>2. ASSUME NEW k \in Nat, k \in S PROVE k + 1 \in S
    <3>1. CASE k + 1 <= n
      <4>1. F(n + 1)[k] = F(n)[k] /\ k \in 0 .. n - 1 /\ k \in 0 .. (n + 1) - 1 /\ n + 1 \in Nat
        BY <2>2, <3>1
      <4>2. F(n + 1)[k + 1] = F(n + 1)[k] * b
        BY <4>1, <1>1
      <4>3. F(n)[k + 1] = F(n)[k] * b
        BY <4>1, <1>1
      <4>4. QED
        BY <4>1, <4>2, <4>3
    <3>2. QED
      BY <3>1
  <2> HIDE DEF S
  <2>3. \A k \in Nat : k \in S
    BY <2>1, <2>2, NatSet
  <2>4. QED
    BY <2>3 DEF S
<1>3. V!Power(b, 0) = 1
  BY <1>1
<1>4. \A n \in Nat : V!Power(b, n) \in Nat \ {0}
  BY <1>1
<1>5. ASSUME NEW n \in Nat PROVE V!Power(b, n + 1) = V!Power(b, n) * b
  <2>1. n + 1 \in Nat /\ n \in 0 .. (n + 1) - 1
    OBVIOUS
  <2>2. V!Power(b, n + 1) = F(n + 1)[n + 1] /\ F(n + 1)[n + 1] = F(n + 1)[n] * b
    BY <1>1, <2>1
  <2>3. F(n + 1)[n] = F(n)[n] /\ V!Power(b, n) = F(n)[n]
    BY <1>1, <1>2
  <2>4. QED
    BY <2>2, <2>3
<1>6. QED
  BY <1>3, <1>4, <1>5

-----------------------------------------------------------------------------
(* Places in a text.                                                       *)

LEMMA AfterFacts ==
  ASSUME NEW t \in Seq(Nat), NEW ks \in SUBSET (1 .. Len(t)), NEW i \in 1 .. Len(t) + 1
  PROVE  /\ After(ks, t, i) \in i .. Len(t) + 1
         /\ \A k \in i .. After(ks, t, i) - 1 : k \in ks
         /\ After(ks, t, i) \notin ks
         /\ \A j \in i .. Len(t) + 1 :
              (\A k \in i .. j - 1 : k \in ks) /\ j \notin ks => After(ks, t, i) = j
<1> DEFINE n == Len(t)
           S == {j \in i .. n + 1 : j \notin ks}
           P(j) == j \in i .. n + 1 /\ i .. j - 1 \subseteq ks /\ j \notin ks
           m == CHOOSE j : P(j)
<1>0. n \in Nat /\ n + 1 \notin ks /\ i \in Nat /\ i <= n + 1
  OBVIOUS
<1>1. S \in SUBSET Nat /\ S # {}
  BY <1>0
<1>2. PICK j \in S : \A k \in S : j <= k
  BY <1>1, LeastNat
<1>3. P(j)
  <2>1. \A k \in i .. j - 1 : k \in i .. n + 1 /\ ~(j <= k)
    BY <1>0, <1>2
  <2>2. QED
    BY <1>2, <2>1
<1>4. P(m)
  BY <1>3
<1>5. m = After(ks, t, i)
  BY DEF After
<1>6. ASSUME NEW j2 \in i .. n + 1, \A k \in i .. j2 - 1 : k \in ks, j2 \notin ks
      PROVE  m = j2
  <2> HIDE DEF m
  <2>0. m \in Int /\ j2 \in Int /\ i <= m /\ i <= j2 /\ m <= n + 1 /\ j2 <= n + 1
    BY <1>0, <1>4
  <2>1. ~(m < j2)
    <3>1. m < j2 => m \in i .. j2 - 1
      BY <2>0
    <3>2. QED
      BY <1>4, <1>6, <3>1
  <2>2. ~(j2 < m)
    <3>1. j2 < m => j2 \in i .. m - 1
      BY <2>0
    <3>2. QED
      BY <1>4, <1>6, <3>1
  <2>3. QED
    BY <2>0, <2>1, <2>2
<1>7. QED
  <2> HIDE DEF m
  <2>1. QED
    BY <1>4, <1>5, <1>6

Solid(t) == {k \in DOMAIN t : ~isspace(t[k])}

(* u is the n characters of t from place i on.                             *)
Slice(u, t, i, n) ==
  u \in Seq(Nat) /\ n \in Nat /\ Len(u) = n /\ \A k \in 1 .. n : u[k] = t[i + k - 1]

LEMMA SubSlice ==
  ASSUME NEW u, NEW t, NEW i \in Int, NEW n, Slice(u, t, i, n),
         NEW a \in Nat \ {0}, NEW b \in Int, b <= n, a <= b + 1
  PROVE  Slice(SubSeq(u, a, b), t, i + a - 1, b - a + 1)
<1>1. u \in Seq(Nat) /\ n \in Nat /\ Len(u) = n /\ \A k \in 1 .. n : u[k] = t[i + k - 1]
  BY DEF Slice
<1>2. SubSeq(u, a, b) \in Seq(Nat) /\ Len(SubSeq(u, a, b)) = b - a + 1
  BY <1>1, SMTT(30)
<1>3. ASSUME NEW k \in 1 .. b - a + 1 PROVE SubSeq(u, a, b)[k] = t[i + a - 1 + k - 1]
  <2>1. SubSeq(u, a, b)[k] = u[a + k - 1]
    BY <1>1
  <2>2. a + k - 1 \in 1 .. n
    BY <1>1
  <2>3. u[a + k - 1] = t[i + (a + k - 1) - 1]
    BY <1>1, <2>2
  <2>4. i + (a + k - 1) - 1 = i + a - 1 + k - 1
    OBVIOUS
  <2>5. QED
    BY <2>1, <2>3, <2>4
<1>4. b - a + 1 \in Nat
  OBVIOUS
<1> DEFINE v == SubSeq(u, a, b)
<1>5. v \in Seq(Nat) /\ Len(v) = b - a + 1 /\ \A k \in 1 .. b - a + 1 : v[k] = t[i + a - 1 + k - 1]
  BY ONLY <1>2, <1>3
<1> HIDE DEF v
<1>6. Slice(v, t, i + a - 1, b - a + 1)
  BY ONLY <1>4, <1>5 DEF Slice
<1>7. QED
  BY <1>6 DEF v

LEMMA WholeSlice ==
  ASSUME NEW t \in Seq(Nat)
  PROVE  Slice(t, t, 1, Len(t))
BY DEF Slice

(* Where the first character that is no space stands, and the last one.    *)
Bounds(t, first, last) ==
  /\ first = AfterSpaces(t, 1)
  /\ first \in 1 .. last /\ last \in 1 .. Len(t)
  /\ ~isspace(t[first]) /\ ~isspace(t[last])
  /\ \A i \in 1 .. Len(t) + 1 : AfterSpaces(t, i) = Len(t) + 1 <=> i > last

LEMMA TrimFacts ==
  ASSUME NEW t \in Seq(Nat), Solid(t) # {}
  PROVE  \E first, last :
           Bounds(t, first, last) /\ Slice(V!Trim(t), t, first, last - first + 1)
<1> DEFINE n == Len(t)
           S == Solid(t)
           T == {n - k : k \in S}
           lo == CHOOSE i \in S : \A j \in S : i <= j
           hi == CHOOSE i \in S : \A j \in S : j <= i
<1>0. n \in Nat /\ DOMAIN t = 1 .. n
  OBVIOUS
<1>1. S \in SUBSET (1 .. n) /\ S \in SUBSET Nat /\ S # {} /\ S \in SUBSET Int
  BY <1>0 DEF Solid
<1>s. \A k \in 1 .. n : k \in S <=> ~isspace(t[k])
  BY <1>0 DEF Solid
<1>t. V!Trim(t) = SubSeq(t, lo, hi)
  <2>1. S = {i \in DOMAIN t : ~V!isspace(t[i])}
    BY DEF Solid, isspace, V!isspace
  <2>2. QED
    BY <1>1, <2>1 DEF V!Trim
<1> HIDE DEF S
<1>2. lo \in S /\ \A j \in S : lo <= j
  <2>1. \E i \in S : \A j \in S : i <= j
    BY <1>1, LeastNat
  <2>2. QED
    BY <2>1
<1>3. hi \in S /\ \A j \in S : j <= hi
  <2>1. \A k \in S : n - k \in Nat
    BY <1>0, <1>1
  <2>2. T \in SUBSET Nat /\ T # {}
    BY <1>1, <2>1
  <2> HIDE DEF T
  <2>3. PICK x \in T : \A y \in T : x <= y
    BY <2>2, LeastNat
  <2> USE DEF T
  <2>4. PICK k \in S : x = n - k
    BY <2>3
  <2>5. \A j \in S : j <= k
    <3> SUFFICES ASSUME NEW j \in S PROVE j <= k
      OBVIOUS
    <3>1. n - k <= n - j
      BY <2>3, <2>4
    <3>2. QED
      BY <1>0, <1>1, <3>1
  <2>6. \E i \in S : \A j \in S : j <= i
    BY <2>5
  <2>7. QED
    BY <2>6
<1> HIDE DEF lo, hi
<1>4. Spaces(t) = (1 .. n) \ S
  BY <1>0, <1>s DEF Spaces
<1>5. Spaces(t) \in SUBSET (1 .. n)
  BY <1>4
<1>6. lo \in 1 .. n /\ hi \in 1 .. n /\ lo <= hi /\ lo \in 1 .. n + 1
  BY <1>0, <1>1, <1>2, <1>3
<1>7. AfterSpaces(t, 1) = lo
  <2>1. \A k \in 1 .. lo - 1 : k \in Spaces(t)
    <3> SUFFICES ASSUME NEW k \in 1 .. lo - 1 PROVE k \in Spaces(t)
      OBVIOUS
    <3>1. k \in 1 .. n /\ ~(lo <= k)
      BY <1>0, <1>6
    <3>2. QED
      BY <1>2, <1>4, <3>1
  <2>2. lo \notin Spaces(t) /\ 1 \in 1 .. n + 1
    BY <1>0, <1>2, <1>4
  <2>3. QED
    BY <1>0, <1>5, <1>6, <2>1, <2>2, AfterFacts DEF AfterSpaces
<1>8. ASSUME NEW i \in 1 .. n + 1
      PROVE  AfterSpaces(t, i) = n + 1 <=> i > hi
  <2>1. CASE i > hi
    <3>1. \A k \in i .. (n + 1) - 1 : k \in Spaces(t)
      <4> SUFFICES ASSUME NEW k \in i .. (n + 1) - 1 PROVE k \in Spaces(t)
        OBVIOUS
      <4>1. k \in 1 .. n /\ ~(k <= hi)
        BY <1>0, <1>6, <2>1
      <4>2. QED
        BY <1>3, <1>4, <4>1
    <3>2. n + 1 \notin Spaces(t) /\ n + 1 \in i .. n + 1
      BY <1>0, <1>4
    <3>a. \A j \in i .. n + 1 :
            (\A k \in i .. j - 1 : k \in Spaces(t)) /\ j \notin Spaces(t)
              => After(Spaces(t), t, i) = j
      BY <1>5, AfterFacts
    <3>3. After(Spaces(t), t, i) = n + 1
      BY ONLY <3>a, <3>1, <3>2
    <3>4. QED
      BY <2>1, <3>3 DEF AfterSpaces
  <2>2. CASE ~(i > hi)
    <3>1. hi \in i .. (n + 1) - 1 /\ hi \notin Spaces(t)
      BY <1>0, <1>3, <1>4, <1>6, <2>2
    <3>2. \A k \in i .. After(Spaces(t), t, i) - 1 : k \in Spaces(t)
      BY <1>0, <1>5, AfterFacts
    <3>3. QED
      BY <2>2, <3>1, <3>2 DEF AfterSpaces
  <2>3. QED
    BY <2>1, <2>2
<1>9. Bounds(t, lo, hi)
  BY <1>0, <1>1, <1>2, <1>3, <1>6, <1>7, <1>8, <1>s DEF Bounds
<1>10. Slice(SubSeq(t, lo, hi), t, 1 + lo - 1, hi - lo + 1)
  BY <1>0, <1>6, WholeSlice, SubSlice
<1>11. 1 + lo - 1 = lo
  BY <1>6
<1>12. QED
  BY <1>9, <1>10, <1>11, <1>t

LEMMA AtFacts ==
  ASSUME NEW t \in Seq(Nat), NEW i \in Nat
  PROVE  /\ At(t, i) \in Nat
         /\ At(t, i) # 0 => i \in 1 .. Len(t)
         /\ i \in 1 .. Len(t) => At(t, i) = t[i]
<1>1. DOMAIN t = 1 .. Len(t)
  OBVIOUS
<1>2. CASE i \in 1 .. Len(t)
  BY <1>1, <1>2 DEF At
<1>3. CASE i \notin 1 .. Len(t)
  BY <1>1, <1>3 DEF At, NUL
<1>4. QED
  BY <1>2, <1>3

LEMMA SignFacts ==
  ASSUME NEW t \in Seq(Nat), NEW i \in Nat
  PROVE  /\ AfterSign(t, i) = IF At(t, i) \in {43, 45} THEN i + 1 ELSE i
         /\ isneg(t, i) <=> At(t, i) = 45
         /\ HexPrefix(t, i) <=> At(t, i) = 48 /\ At(t, i + 1) \in {120, 88}
BY CodeFacts DEF AfterSign, Sign, isneg, HexPrefix

LEMMA UnsignedFacts ==
  ASSUME NEW t \in Seq(Nat), NEW i \in Nat \ {0}, NEW u, NEW n, Slice(u, t, i, n),
         i + n <= Len(t) + 1, n = 0 => At(t, i) \notin {43, 45}
  PROVE  /\ AfterSign(t, i) \in Nat \ {0} /\ AfterSign(t, i) <= i + n
         /\ Slice(V!Unsigned(u), t, AfterSign(t, i), i + n - AfterSign(t, i))
         /\ V!Minus(u) <=> isneg(t, i) 
<1>1. u \in Seq(Nat) /\ n \in Nat /\ Len(u) = n /\ \A k \in 1 .. n : u[k] = t[i + k - 1]
  BY DEF Slice
<1>2. u # <<>> <=> n # 0
  BY <1>1
<1>3. n # 0 => u[1] = t[i] /\ At(t, i) = t[i]
  <2>1. n # 0 => 1 \in 1 .. n /\ i + 1 - 1 = i /\ i \in 1 .. Len(t)
    BY <1>1
  <2>2. QED
    BY <1>1, <2>1, AtFacts
<1>4. V!Signed(u) <=> At(t, i) \in {43, 45}
  BY <1>2, <1>3, CodeFacts, SameCodes DEF V!Signed
<1>5. V!Minus(u) <=> isneg(t, i)
  BY <1>2, <1>3, SignFacts, CodeFacts, SameCodes DEF V!Minus
<1>6. CASE At(t, i) \in {43, 45}
  <2>1. n # 0 /\ V!Unsigned(u) = Tail(u) /\ AfterSign(t, i) = i + 1
    BY <1>4, <1>6, SignFacts DEF V!Unsigned
  <2>2. Tail(u) \in Seq(Nat) /\ Len(Tail(u)) = n - 1 /\ \A k \in 1 .. n - 1 : Tail(u)[k] = u[k + 1]
    BY <1>1, <1>2, <2>1
  <2>3. ASSUME NEW k \in 1 .. n - 1 PROVE Tail(u)[k] = t[(i + 1) + k - 1]
    <3>1. k + 1 \in 1 .. n /\ i + (k + 1) - 1 = (i + 1) + k - 1
      BY <1>1
    <3>2. QED
      BY <1>1, <2>2, <3>1
  <2>4. i + n - (i + 1) = n - 1 /\ n - 1 \in Nat
    BY <1>1, <2>1
  <2> DEFINE v == Tail(u)
             j == i + 1
  <2>5. v \in Seq(Nat) /\ Len(v) = n - 1 /\ \A k \in 1 .. n - 1 : v[k] = t[j + k - 1]
    BY ONLY <2>2, <2>3
  <2> HIDE DEF v, j
  <2>6. Slice(v, t, j, n - 1)
    BY ONLY <2>4, <2>5 DEF Slice
  <2>7. Slice(V!Unsigned(u), t, AfterSign(t, i), i + n - AfterSign(t, i))
    BY ONLY <2>1, <2>4, <2>6 DEF v, j
  <2>8. QED
    BY <1>1, <1>5, <2>1, <2>7
<1>7. CASE At(t, i) \notin {43, 45}
  <2>1. V!Unsigned(u) = u /\ AfterSign(t, i) = i
    BY <1>4, <1>7, SignFacts DEF V!Unsigned
  <2>2. i + n - i = n
    BY <1>1
  <2>3. QED
    BY <1>1, <1>5, <2>1, <2>2
<1>8. QED
  BY <1>6, <1>7

(* Where the parts of a numeral stand in the text: first is behind the     *)
(* spaces, start behind the sign, body behind 0x; cut is the exponent      *)
(* letter or the end, dot is a dot before that or the same place.          *)
Letters(b) == IF b = 16 THEN {112, 80} ELSE {101, 69}

Layout(t, l) ==
  /\ Bounds(t, l.first, l.last)
  /\ l.start = AfterSign(t, l.first) /\ l.start \in l.first .. l.last + 1
  /\ l.base = IF HexPrefix(t, l.start) THEN 16 ELSE 10
  /\ l.body = IF HexPrefix(t, l.start) THEN l.start + 2 ELSE l.start
  /\ l.body \in l.start .. l.last + 1
  /\ l.cut \in l.body .. l.last + 1
  /\ \A k \in l.body .. l.cut - 1 : t[k] \notin Letters(l.base)
  /\ l.cut <= l.last => t[l.cut] \in Letters(l.base)
  /\ l.dot \in l.body .. l.cut
  /\ l.dot # l.cut => t[l.dot] = 46
  /\ l.dot = l.cut => \A k \in l.body .. l.cut - 1 : t[k] # 46

OneDot(t, l) == \A k \in l.body .. l.cut - 1 : t[k] = 46 => k = l.dot
Fraction(l) == IF l.dot = l.cut THEN 0 ELSE l.cut - l.dot - 1

PartsAt(t, l, p) ==
  /\ p.base = l.base
  /\ p.hasexp <=> l.cut <= l.last
  /\ Slice(p.whole, t, l.body, l.dot - l.body)
  /\ Slice(p.fraction, t, l.dot + 1, Fraction(l))
  /\ p.dots = 0 <=> l.dot = l.cut
  /\ p.dots <= 1 <=> OneDot(t, l)
  /\ l.cut <= l.last => Slice(p.exponent, t, l.cut + 1, l.last - l.cut)
  /\ l.cut > l.last => p.exponent = <<>>

LEMMA SameCardinality == \A S : V!Cardinality(S) = Cardinality(S)
BY DEF V!Cardinality, Cardinality

(* Min of a set of places, as the grammar chooses it.                      *)
LEMMA FirstOf ==
  ASSUME NEW S \in SUBSET Nat, S # {}
  PROVE  LET m == CHOOSE i \in S : \A j \in S : i <= j
         IN  m \in S /\ \A j \in S : m <= j
BY LeastNat

LEMMA PartsFacts ==
  ASSUME NEW t \in Seq(Nat), NEW first, NEW last, Bounds(t, first, last),
         NEW start, start = AfterSign(t, first), start \in first .. last + 1,
         NEW u, Slice(u, t, start, last + 1 - start)
  PROVE  \E l : Layout(t, l) /\ PartsAt(t, l, V!Parts(u))
            /\ l.first = first /\ l.last = last /\ l.start = start
<1> DEFINE hex == Len(u) >= 2 /\ u[1] = 48 /\ u[2] \in {V!Code["x"], V!Code["X"]}
           body == IF hex THEN SubSeq(u, 3, Len(u)) ELSE u
           letters == {i \in DOMAIN body :
                         body[i] \in (IF hex THEN {V!Code["p"], V!Code["P"]} ELSE {101, 69})}
           cut == IF letters = {} THEN Len(body) + 1
                  ELSE CHOOSE i \in letters : \A j \in letters : i <= j
           mantissa == SubSeq(body, 1, cut - 1)
           dots == {i \in DOMAIN mantissa : mantissa[i] = V!Code["."]}
           point == IF dots = {} THEN Len(mantissa) + 1 ELSE CHOOSE i \in dots : TRUE
           p == V!Parts(u)
           bs == IF hex THEN 16 ELSE 10
           c == IF hex THEN start + 2 ELSE start
<1>p. p = [base |-> IF hex THEN 16 ELSE 10,
           whole |-> SubSeq(mantissa, 1, point - 1),
           fraction |-> SubSeq(mantissa, point + 1, Len(mantissa)),
           dots |-> V!Cardinality(dots),
           hasexp |-> letters # {},
           exponent |-> SubSeq(body, cut + 1, Len(body))]
  BY DEF V!Parts, V!Dot
<1> HIDE DEF p
<1>a. first \in 1 .. last /\ last \in 1 .. Len(t) /\ Len(t) \in Nat
  BY DEF Bounds
<1>0. /\ first \in Nat /\ last \in Nat /\ start \in Nat /\ start >= 1 /\ start <= last + 1
      /\ first <= last /\ last <= Len(t) /\ Len(t) \in Nat
  BY ONLY <1>a, start \in first .. last + 1
<1>b. \A i \in 1 .. Len(t) + 1 : AfterSpaces(t, i) = Len(t) + 1 <=> i > last
  BY DEF Bounds
<1>1. u \in Seq(Nat) /\ Len(u) = last + 1 - start /\ \A k \in 1 .. last + 1 - start : u[k] = t[start + k - 1]
  BY DEF Slice
<1>2. hex <=> HexPrefix(t, start)
  <2>1. ASSUME hex PROVE HexPrefix(t, start)
    <3>1. Len(u) >= 2 /\ u[1] = 48 /\ u[2] \in {120, 88}
      BY <2>1, SameCodes, CodeFacts
    <3>2. 1 \in 1 .. last + 1 - start /\ 2 \in 1 .. last + 1 - start
          /\ start + 1 - 1 = start /\ start + 2 - 1 = start + 1
      BY ONLY <1>0, <1>1, <3>1
    <3>3. t[start] = 48 /\ t[start + 1] \in {120, 88}
      BY <1>1, <3>1, <3>2
    <3>4. start \in 1 .. Len(t) /\ start + 1 \in 1 .. Len(t) /\ start + 1 \in Nat
      BY <1>0, <3>2
    <3>5. At(t, start) = 48 /\ At(t, start + 1) \in {120, 88}
      <4>1. At(t, start) = t[start] /\ At(t, start + 1) = t[start + 1]
        BY <3>4, <1>0, AtFacts
      <4>2. QED
        BY ONLY <4>1, <3>3
    <3>6. QED
      BY <3>5, <1>0, SignFacts
  <2>2. ASSUME HexPrefix(t, start) PROVE hex
    <3>1. At(t, start) = 48 /\ At(t, start + 1) \in {120, 88} /\ start + 1 \in Nat
      BY <1>0, <2>2, SignFacts
    <3>2. start \in 1 .. Len(t) /\ start + 1 \in 1 .. Len(t)
          /\ t[start] = 48 /\ t[start + 1] \in {120, 88}
      <4>1. At(t, start) # 0 /\ At(t, start + 1) # 0
        BY <3>1
      <4>2. start \in 1 .. Len(t) /\ start + 1 \in 1 .. Len(t)
        BY <1>0, <3>1, <4>1, AtFacts
      <4>3. At(t, start) = t[start] /\ At(t, start + 1) = t[start + 1]
        BY <1>0, <3>1, <4>2, AtFacts, ZenonT(40)
      <4>4. QED
        BY <3>1, <4>2, <4>3
    <3>3. start + 1 \notin Spaces(t)
      BY <3>2, SMTT(30) DEF Spaces, isspace
    <3>4. start + 1 <= last
      <4>1. Spaces(t) \in SUBSET (1 .. Len(t))
        BY DEF Spaces
      <4>2. start + 1 > last => AfterSpaces(t, start + 1) = Len(t) + 1
        BY <1>0, <1>b, <3>2
      <4>3. \A k \in start + 1 .. AfterSpaces(t, start + 1) - 1 : k \in Spaces(t)
        <5>1. start + 1 \in 1 .. Len(t) + 1
          BY <3>2
        <5>2. QED
          BY <4>1, <5>1, AfterFacts DEF AfterSpaces
      <4>4. QED
        <5>1. SUFFICES ASSUME start + 1 > last PROVE FALSE
          BY <1>0
        <5>2. start + 1 \in start + 1 .. (Len(t) + 1) - 1
          BY <1>0, <3>2
        <5>3. QED
          BY <3>3, <4>2, <4>3, <5>1, <5>2
    <3>5. 1 \in 1 .. last + 1 - start /\ 2 \in 1 .. last + 1 - start
          /\ start + 1 - 1 = start /\ start + 2 - 1 = start + 1
      BY <1>0, <3>4
    <3>6. Len(u) >= 2 /\ u[1] = 48 /\ u[2] \in {120, 88}
      <4>1. u[1] = t[start + 1 - 1] /\ u[2] = t[start + 2 - 1]
        BY ONLY <1>1, <3>5
      <4>2. Len(u) >= 2
        BY ONLY <1>0, <1>1, <3>4
      <4>3. QED
        BY ONLY <4>1, <4>2, <3>2, <3>5
    <3>7. QED
      BY <3>6, SameCodes, CodeFacts
  <2>3. QED
    BY <2>1, <2>2
<1>3. hex => Len(u) >= 2
  OBVIOUS
<1> HIDE DEF hex
<1>4. c \in Nat /\ c >= start /\ c <= last + 1 /\ c >= 1
  BY ONLY <1>0, <1>1, <1>3
<1>5. Slice(body, t, c, last + 1 - c)
  <2>1. CASE hex
    <3>1. last + 1 - start \in Int /\ last + 1 - start >= 2
      BY <1>0, <1>1, <1>3, <2>1
    <3>a. 3 \in Nat \ {0} /\ last + 1 - start <= last + 1 - start /\ start \in Int
          /\ 3 <= last + 1 - start + 1
      BY <1>0, <3>1
    <3> DEFINE n0 == last + 1 - start
               i0 == start + 3 - 1
               n1 == n0 - 3 + 1
    <3>1a. Slice(u, t, start, n0) /\ n0 \in Int /\ n0 <= n0 /\ 3 <= n0 + 1 /\ Len(u) = n0
      BY <1>1, <3>1, <3>a
    <3>1b. i0 = c /\ n1 = last + 1 - c
      BY <1>0, <2>1
    <3> HIDE DEF n0
    <3>2. Slice(SubSeq(u, 3, n0), t, i0, n1)
      BY <3>a, <3>1a, SubSlice
    <3> HIDE DEF i0, n1
    <3>3. body = SubSeq(u, 3, n0)
      BY <2>1, <3>1a
    <3> HIDE DEF body, c
    <3>4. QED
      BY ONLY <3>1b, <3>2, <3>3
  <2>2. CASE ~hex
    BY <2>2
  <2>3. QED
    BY <2>1, <2>2
<1> DEFINE n == last + 1 - c
<1>6. body \in Seq(Nat) /\ n \in Nat /\ Len(body) = n /\ DOMAIN body = 1 .. n
      /\ \A k \in 1 .. n : body[k] = t[c + k - 1]
  <2>1. body \in Seq(Nat) /\ n \in Nat /\ Len(body) = n /\ \A k \in 1 .. n : body[k] = t[c + k - 1]
    BY <1>5 DEF Slice
  <2> HIDE DEF body
  <2>2. QED
    BY <2>1
<1> HIDE DEF body
<1>7. letters = {i \in 1 .. n : body[i] \in Letters(bs)}
  BY <1>6, SameCodes, CodeFacts DEF Letters
<1>8. /\ cut \in 1 .. n + 1
      /\ \A i \in 1 .. cut - 1 : body[i] \notin Letters(bs)
      /\ cut <= n => body[cut] \in Letters(bs)
      /\ letters # {} <=> cut <= n
  <2>1. letters \in SUBSET Nat /\ letters \in SUBSET (1 .. n)
    BY <1>7
  <2>2. CASE letters = {}
    <3>1. cut = n + 1
      BY <1>6, <2>2
    <3>2. \A i \in 1 .. n : body[i] \notin Letters(bs)
      BY <1>7, <2>2
    <3> HIDE DEF cut, letters, bs
    <3>3. n \in Nat
      BY <1>6
    <3> HIDE DEF n
    <3>4. QED
      BY <2>2, <3>1, <3>2, <3>3
  <2>3. CASE letters # {}
    <3> HIDE DEF letters
    <3>1. cut \in letters /\ \A j \in letters : cut <= j
      BY <2>1, <2>3, FirstOf
    <3> HIDE DEF cut, bs
    <3>2. n \in Nat
      BY <1>6
    <3> HIDE DEF n
    <3>3. \A i \in 1 .. cut - 1 : i \in 1 .. n /\ ~(cut <= i)
      BY <2>1, <3>1, <3>2
    <3>4. QED
      BY <1>7, <2>1, <2>3, <3>1, <3>2, <3>3
  <2>4. QED
    BY <2>2, <2>3
<1> HIDE DEF letters, cut
<1>9. Slice(mantissa, t, c, cut - 1)
  <2>1. cut - 1 \in Int /\ 1 <= cut - 1 + 1 /\ cut - 1 <= n /\ c \in Int /\ 1 \in Nat \ {0}
    BY <1>4, <1>6, <1>8
  <2>2. Slice(SubSeq(body, 1, cut - 1), t, c + 1 - 1, cut - 1 - 1 + 1)
    BY <1>5, <2>1, SubSlice
  <2>3. c + 1 - 1 = c /\ cut - 1 - 1 + 1 = cut - 1
    BY <2>1, <1>8
  <2>4. QED
    BY <2>2, <2>3
<1>10. mantissa \in Seq(Nat) /\ cut - 1 \in Nat /\ Len(mantissa) = cut - 1
       /\ DOMAIN mantissa = 1 .. cut - 1
       /\ \A k \in 1 .. cut - 1 : mantissa[k] = t[c + k - 1]
  <2>1. mantissa \in Seq(Nat) /\ cut - 1 \in Nat /\ Len(mantissa) = cut - 1
        /\ \A k \in 1 .. cut - 1 : mantissa[k] = t[c + k - 1]
    BY <1>9 DEF Slice
  <2> HIDE DEF mantissa
  <2>2. QED
    BY <2>1
<1> HIDE DEF mantissa
<1>11. dots = {i \in 1 .. cut - 1 : mantissa[i] = 46}
  BY <1>10, SameCodes, CodeFacts
<1>12. /\ dots = {} => point = cut
       /\ dots # {} => point \in dots
  <2> HIDE DEF dots
  <2>1. Len(mantissa) + 1 = cut
    BY <1>8, <1>10
  <2>2. QED
    BY <2>1
<1>13. IsFiniteSet(dots) /\ dots \in SUBSET (1 .. cut - 1)
  <2>1. IsFiniteSet(1 .. cut - 1)
    BY <1>10, FS_Interval
  <2>2. dots \in SUBSET (1 .. cut - 1)
    BY <1>11
  <2>3. QED
    BY <2>1, <2>2, FS_Subset
<1> HIDE DEF dots, point
<1>14. /\ Cardinality(dots) = 0 <=> dots = {}
       /\ Cardinality(dots) <= 1 <=> \A x, y \in dots : x = y
  <2>1. Cardinality(dots) = 0 <=> dots = {}
    BY <1>13, FS_EmptySet
  <2>2. Cardinality(dots) \in Nat
    BY <1>13, FS_CardinalityType
  <2>3. Cardinality(dots) = 1 <=> \E x : dots = {x}
    BY <1>13, FS_Singleton
  <2> DEFINE q == Cardinality(dots)
  <2>4. q <= 1 <=> q = 0 \/ q = 1
    BY <2>2
  <2> HIDE DEF q
  <2>5. (\A x, y \in dots : x = y) <=> dots = {} \/ \E x : dots = {x}
    <3>1. ASSUME \A x, y \in dots : x = y, dots # {} PROVE \E x : dots = {x}
      <4>1. PICK x : x \in dots
        BY <3>1
      <4>2. dots = {x}
        BY <3>1, <4>1
      <4>3. QED
        BY <4>2
    <3>2. ASSUME NEW x, dots = {x} PROVE \A y, z \in dots : y = z
      BY <3>2
    <3>3. QED
      BY <3>1, <3>2
  <2>6. q <= 1 <=> \A x, y \in dots : x = y
    BY <2>1, <2>3, <2>4, <2>5 DEF q
  <2>7. QED
    BY <2>1, <2>6 DEF q
<1> DEFINE l == [first |-> first, last |-> last, start |-> start, base |-> bs, body |-> c,
                 cut |-> c + cut - 1, dot |-> c + point - 1]
<1>15. point \in 1 .. cut /\ point \in Nat /\ cut \in Nat /\ cut >= 1 /\ point >= 1
  <2>1. cut \in Nat /\ cut >= 1
    BY <1>6, <1>8
  <2>2. point = cut \/ point \in 1 .. cut - 1
    BY <1>12, <1>13
  <2>3. QED
    BY <2>1, <2>2
<1> DEFINE cutAt == c + cut - 1
           dotAt == c + point - 1
<1>16. /\ cutAt \in Nat /\ dotAt \in Nat /\ c <= cutAt /\ cutAt <= last + 1
       /\ c <= dotAt /\ dotAt <= cutAt
       /\ cutAt <= last <=> cut <= n
       /\ dotAt = cutAt <=> point = cut
  <2>1. cut <= n + 1 /\ n \in Nat /\ n = last + 1 - c
    BY <1>6, <1>8
  <2> HIDE DEF n, c
  <2>2. QED
    BY ONLY <2>1, <1>0, <1>4, <1>15 DEF cutAt, dotAt
<1>17. /\ bs = IF HexPrefix(t, start) THEN 16 ELSE 10
       /\ c = IF HexPrefix(t, start) THEN start + 2 ELSE start
  BY <1>2
<1>18. \A k \in c .. cutAt - 1 :
         t[k] \notin Letters(bs) /\ (t[k] = 46 <=> k - c + 1 \in dots)
  <2> SUFFICES ASSUME NEW k \in c .. cutAt - 1
               PROVE  t[k] \notin Letters(bs) /\ (t[k] = 46 <=> k - c + 1 \in dots)
    OBVIOUS
  <2> DEFINE i == k - c + 1
  <2>1. i \in 1 .. cut - 1 /\ i \in 1 .. n /\ c + i - 1 = k
    <3>1. cut <= n + 1 /\ n \in Nat /\ k \in c .. cutAt - 1
      BY <1>6, <1>8
    <3> HIDE DEF n, c
    <3>2. QED
      BY ONLY <3>1, <1>4, <1>15 DEF cutAt, i
  <2> HIDE DEF i, n, cutAt, bs
  <2>2. body[i] = t[k] /\ mantissa[i] = t[k]
    BY <1>6, <1>10, <2>1
  <2>3. t[k] \notin Letters(bs) /\ (t[k] = 46 <=> i \in dots)
    BY <1>8, <1>11, <2>1, <2>2
  <2>4. QED
    BY <2>3 DEF i
<1>19. cutAt <= last => t[cutAt] \in Letters(bs)
  <2>1. SUFFICES ASSUME cutAt <= last PROVE t[cutAt] \in Letters(bs)
    OBVIOUS
  <2>2. cut <= n /\ cut \in 1 .. n
    BY <1>6, <1>8, <1>16, <2>1
  <2>3. body[cut] = t[c + cut - 1] /\ body[cut] \in Letters(bs)
    BY <1>6, <1>8, <2>2
  <2>4. QED
    BY <2>3
<1>20. dotAt # cutAt => t[dotAt] = 46
  <2>1. SUFFICES ASSUME dotAt # cutAt PROVE t[dotAt] = 46
    OBVIOUS
  <2>2. point \in dots
    BY <1>12, <1>16, <2>1
  <2>3. dotAt \in c .. cutAt - 1 /\ dotAt - c + 1 = point
    BY <1>4, <1>15, <1>16, <2>1, SMTT(30)
  <2>4. QED
    BY <1>18, <2>2, <2>3
<1>21. dotAt = cutAt => dots = {}
  BY <1>12, <1>13, <1>15, <1>16
<1>22. dotAt = cutAt => \A k \in c .. cutAt - 1 : t[k] # 46
  BY <1>18, <1>21
<1>23. l.first = first /\ l.last = last /\ l.start = start /\ l.base = bs /\ l.body = c
       /\ l.cut = cutAt /\ l.dot = dotAt
  OBVIOUS
<1> HIDE DEF l, cutAt, dotAt, c, bs
<1>24. Layout(t, l)
  <2>1. start \in first .. last + 1 /\ c \in start .. last + 1 /\ cutAt \in c .. last + 1
        /\ dotAt \in c .. cutAt
    BY <1>0, <1>4, <1>16
  <2>2. QED
    BY ONLY <1>17, <1>18, <1>19, <1>20, <1>22, <1>23, <2>1, Bounds(t, first, last),
            start = AfterSign(t, first) DEF Layout
<1>25. (\A x, y \in dots : x = y) <=> OneDot(t, l)
  <2>1. ASSUME \A x, y \in dots : x = y, NEW k \in c .. cutAt - 1, t[k] = 46
        PROVE  k = dotAt
    <3>1. k - c + 1 \in dots /\ dots # {}
      BY <1>18, <2>1
    <3>2. point = k - c + 1
      BY <1>12, <2>1, <3>1
    <3>3. QED
      BY <3>2, <1>4, <1>16 DEF dotAt
  <2>2. ASSUME \A k \in c .. cutAt - 1 : t[k] = 46 => k = dotAt, NEW x \in dots
        PROVE  x = point
    <3>1. x \in 1 .. cut - 1
      BY <1>13
    <3>2. c + x - 1 \in c .. cutAt - 1 /\ (c + x - 1) - c + 1 = x
      BY <1>4, <1>15, <3>1 DEF cutAt
    <3>3. c + x - 1 = dotAt
      BY <1>18, <2>2, <3>2
    <3>4. QED
      BY <1>4, <1>15, <3>1, <3>3 DEF dotAt
  <2>3. QED
    <3>1. ASSUME \A x, y \in dots : x = y PROVE OneDot(t, l)
      BY <2>1, <3>1, <1>23 DEF OneDot
    <3>2. ASSUME OneDot(t, l) PROVE \A x, y \in dots : x = y
      <4>1. \A k \in c .. cutAt - 1 : t[k] = 46 => k = dotAt
        BY <3>2, <1>23 DEF OneDot
      <4>2. QED
        BY <2>2, <4>1
    <3>3. QED
      BY <3>1, <3>2
<1>26. Slice(SubSeq(mantissa, 1, point - 1), t, c, dotAt - c)
  <2>1. 1 \in Nat \ {0} /\ point - 1 \in Int /\ point - 1 <= cut - 1 /\ 1 <= point - 1 + 1 /\ c \in Int
    BY <1>4, <1>15
  <2> DEFINE j == point - 1
             m == cut - 1
  <2>2. j \in Int /\ j <= m /\ 1 <= j + 1 /\ Slice(mantissa, t, c, m)
    BY <2>1, <1>9
  <2>3. c + 1 - 1 = c /\ j - 1 + 1 = dotAt - c
    BY <1>4, <1>15 DEF dotAt
  <2> HIDE DEF j, m
  <2>4. Slice(SubSeq(mantissa, 1, j), t, c + 1 - 1, j - 1 + 1)
    BY <2>1, <2>2, SubSlice
  <2>5. Slice(SubSeq(mantissa, 1, j), t, c, dotAt - c)
    BY ONLY <2>3, <2>4
  <2>6. QED
    BY <2>5 DEF j
<1>27. Slice(SubSeq(mantissa, point + 1, Len(mantissa)), t, dotAt + 1, Fraction(l))
  <2>1. CASE dotAt = cutAt
    <3>1. point = cut /\ Fraction(l) = 0
      BY <2>1, <1>16, <1>23 DEF Fraction
    <3> DEFINE v == SubSeq(mantissa, point + 1, Len(mantissa))
    <3>2. Len(mantissa) = point - 1 /\ point + 1 \in Nat /\ point - 1 \in Int
      BY <1>10, <1>15, <3>1
    <3>3. v \in Seq(Nat) /\ Len(v) = 0
      BY <1>10, <1>15, <3>2
    <3> HIDE DEF v
    <3>4. Slice(v, t, dotAt + 1, 0)
      BY <3>3 DEF Slice
    <3>5. QED
      BY <3>1, <3>4 DEF v
  <2>2. CASE dotAt # cutAt
    <3>1. point # cut /\ Fraction(l) = cutAt - dotAt - 1
      BY <2>2, <1>16, <1>23 DEF Fraction
    <3> DEFINE a == point + 1
               m == cut - 1
    <3>2. a \in Nat \ {0} /\ m \in Int /\ m <= m /\ a <= m + 1 /\ c \in Int
          /\ Slice(mantissa, t, c, m) /\ Len(mantissa) = m
      BY <1>4, <1>9, <1>10, <1>15, <3>1
    <3>3. c + a - 1 = dotAt + 1 /\ m - a + 1 = cutAt - dotAt - 1
      BY <1>4, <1>15 DEF dotAt, cutAt
    <3> HIDE DEF a, m
    <3>4. Slice(SubSeq(mantissa, a, m), t, c + a - 1, m - a + 1)
      BY <3>2, SubSlice
    <3>5. Slice(SubSeq(mantissa, a, Len(mantissa)), t, dotAt + 1, Fraction(l))
      BY ONLY <3>1, <3>2, <3>3, <3>4
    <3>6. QED
      BY <3>5 DEF a
  <2>3. QED
    BY <2>1, <2>2
<1>28. cutAt <= last => Slice(SubSeq(body, cut + 1, Len(body)), t, cutAt + 1, last - cutAt)
  <2>1. SUFFICES ASSUME cutAt <= last
                 PROVE  Slice(SubSeq(body, cut + 1, Len(body)), t, cutAt + 1, last - cutAt)
    OBVIOUS
  <2> DEFINE a == cut + 1
  <2>2. a \in Nat \ {0} /\ n \in Int /\ n <= n /\ a <= n + 1 /\ c \in Int
        /\ Slice(body, t, c, n) /\ Len(body) = n
    BY <1>4, <1>5, <1>6, <1>15, <1>16, <2>1
  <2>3. c + a - 1 = cutAt + 1 /\ n - a + 1 = last - cutAt
    BY <1>0, <1>4, <1>15 DEF cutAt
  <2> HIDE DEF a, n
  <2>4. Slice(SubSeq(body, a, n), t, c + a - 1, n - a + 1)
    BY <2>2, SubSlice
  <2>5. Slice(SubSeq(body, a, Len(body)), t, cutAt + 1, last - cutAt)
    BY ONLY <2>2, <2>3, <2>4
  <2>6. QED
    BY <2>5 DEF a
<1>29. cutAt > last => SubSeq(body, cut + 1, Len(body)) = <<>>
  <2>1. SUFFICES ASSUME cutAt > last PROVE SubSeq(body, cut + 1, Len(body)) = <<>>
    OBVIOUS
  <2>2. Len(body) = n /\ n < cut + 1 /\ n \in Nat
    <3>1. Len(body) = n /\ n \in Nat /\ (cutAt <= last <=> cut <= n)
      BY <1>6, <1>16
    <3>2. ~(cutAt <= last)
      BY <1>0, <1>16, <2>1
    <3> HIDE DEF n
    <3>3. QED
      BY ONLY <1>15, <3>1, <3>2
  <2> HIDE DEF n
  <2>3. QED
    BY <2>2, <1>6, <1>15
<1>30. PartsAt(t, l, p)
  <2> DEFINE w == SubSeq(mantissa, 1, point - 1)
             f == SubSeq(mantissa, point + 1, Len(mantissa))
             x == SubSeq(body, cut + 1, Len(body))
             d == Cardinality(dots)
  <2>1. V!Cardinality(dots) = d
    BY SameCardinality
  <2>2. p.base = bs /\ p.whole = w /\ p.fraction = f /\ p.dots = d
        /\ (p.hasexp <=> letters # {}) /\ p.exponent = x
    BY <1>p, <2>1 DEF bs
  <2>3. dots = {} <=> dotAt = cutAt
    <3>1. dots = {} => dotAt = cutAt
      BY <1>12, <1>16
    <3>2. QED
      BY <3>1, <1>21
  <2> HIDE DEF w, f, x, d
  <2>4. Slice(w, t, c, dotAt - c) /\ Slice(f, t, dotAt + 1, Fraction(l))
        /\ (cutAt <= last => Slice(x, t, cutAt + 1, last - cutAt))
        /\ (cutAt > last => x = <<>>)
    BY <1>26, <1>27, <1>28, <1>29 DEF w, f, x
  <2>5. (d = 0 <=> dotAt = cutAt) /\ (d <= 1 <=> OneDot(t, l))
    BY <1>14, <1>25, <2>3 DEF d
  <2>6. letters # {} <=> cutAt <= last
    BY <1>8, <1>16
  <2>7. QED
    BY ONLY <1>23, <2>2, <2>4, <2>5, <2>6 DEF PartsAt
<1>31. QED
  BY <1>23, <1>24, <1>30 DEF p

PartsOf(t) == V!Parts(V!Unsigned(V!Trim(t)))

LEMMA LayoutExists ==
  ASSUME NEW t \in Seq(Nat), Solid(t) # {}
  PROVE  \E l : Layout(t, l) /\ PartsAt(t, l, PartsOf(t))
                /\ (V!Minus(V!Trim(t)) <=> isneg(t, l.first))
<1>1. PICK first, last :
        Bounds(t, first, last) /\ Slice(V!Trim(t), t, first, last - first + 1)
  BY TrimFacts
<1>2. first \in 1 .. last /\ last \in 1 .. Len(t) /\ Len(t) \in Nat
  BY <1>1 DEF Bounds
<1>3. first \in Nat \ {0} /\ last - first + 1 # 0 /\ first + (last - first + 1) = last + 1
      /\ first + (last - first + 1) <= Len(t) + 1
  BY ONLY <1>2
<1> DEFINE n == last - first + 1
<1>4. PICK start, u :
        /\ start = AfterSign(t, first) /\ u = V!Unsigned(V!Trim(t))
        /\ start \in Nat \ {0} /\ start <= first + n
        /\ Slice(u, t, start, first + n - start)
        /\ V!Minus(V!Trim(t)) <=> isneg(t, first)
  <2>1. n # 0 /\ first + n <= Len(t) + 1 /\ Slice(V!Trim(t), t, first, n)
    BY <1>1, <1>3
  <2> HIDE DEF n
  <2>2. QED
    BY <1>3, <2>1, UnsignedFacts
<1>5. start \in first .. last + 1
  <2>1. start = first \/ start = first + 1
    BY <1>3, <1>4, SignFacts
  <2>2. QED
    BY <1>2, <2>1
<1>6. first + n = last + 1
  BY <1>3
<1> HIDE DEF n
<1>7. Slice(u, t, start, last + 1 - start)
  <2>1. first + n - start = last + 1 - start
    BY <1>2, <1>4 DEF n
  <2>2. QED
    BY ONLY <1>4, <2>1
<1>9. PICK l : Layout(t, l) /\ PartsAt(t, l, V!Parts(u)) /\ l.first = first
  BY <1>1, <1>4, <1>5, <1>7, PartsFacts
<1>10. QED
  BY <1>4, <1>9 DEF PartsOf

(* The grammar of numerals in terms of places.                             *)
ExponentAt(t, l) == AfterSign(t, l.cut + 1)

Numeral(t, l) ==
  /\ OneDot(t, l)
  /\ \A k \in l.body .. l.cut - 1 : t[k] \in Codes(l.base) \/ k = l.dot
  /\ \E k \in l.body .. l.cut - 1 : k # l.dot
  /\ l.cut <= l.last =>
       ExponentAt(t, l) <= l.last /\ \A k \in ExponentAt(t, l) .. l.last : t[k] \in Codes(10)

(* The place of the k-th digit.                                            *)
Place(l, k) == IF k <= l.dot - l.body THEN l.body + k - 1 ELSE l.body + k

LEMMA LayoutTypes ==
  ASSUME NEW t \in Seq(Nat), NEW l, Layout(t, l)
  PROVE  /\ l.first \in Nat \ {0} /\ l.last \in Nat /\ l.start \in Nat /\ l.body \in Nat
         /\ l.cut \in Nat /\ l.dot \in Nat /\ Len(t) \in Nat /\ l.base \in {10, 16}
         /\ l.first <= l.last /\ l.last <= Len(t) /\ l.first <= l.start /\ l.start <= l.body
         /\ l.body <= l.dot /\ l.dot <= l.cut /\ l.cut <= l.last + 1
         /\ Fraction(l) \in Nat
         /\ l.dot # l.cut => Fraction(l) = l.cut - l.dot - 1
         /\ l.dot = l.cut => Fraction(l) = 0
<1>1. /\ l.first \in 1 .. l.last /\ l.last \in 1 .. Len(t) /\ Len(t) \in Nat
      /\ l.start \in l.first .. l.last + 1 /\ l.body \in l.start .. l.last + 1
      /\ l.cut \in l.body .. l.last + 1 /\ l.dot \in l.body .. l.cut
      /\ l.base \in {10, 16}
  BY DEF Layout, Bounds
<1>2. /\ l.first \in Nat \ {0} /\ l.last \in Nat /\ l.start \in Nat /\ l.body \in Nat
      /\ l.cut \in Nat /\ l.dot \in Nat
      /\ l.first <= l.last /\ l.last <= Len(t) /\ l.first <= l.start /\ l.start <= l.body
      /\ l.body <= l.dot /\ l.dot <= l.cut /\ l.cut <= l.last + 1
  BY ONLY <1>1, SMTT(30)
<1>3. QED
  BY ONLY <1>1, <1>2 DEF Fraction

LEMMA Concatenation ==
  ASSUME NEW v \in Seq(Nat), NEW w \in Seq(Nat)
  PROVE  /\ v \o w \in Seq(Nat) /\ Len(v \o w) = Len(v) + Len(w)
         /\ \A k \in 1 .. Len(v) : (v \o w)[k] = v[k]
         /\ \A k \in 1 .. Len(w) : (v \o w)[Len(v) + k] = w[k]
OBVIOUS

DigitsOf(p) == p.whole \o p.fraction
Count(l) == (l.dot - l.body) + Fraction(l)

LEMMA MantissaFacts ==
  ASSUME NEW t \in Seq(Nat), NEW l, Layout(t, l), NEW p, PartsAt(t, l, p)
  PROVE  /\ DigitsOf(p) \in Seq(Nat) /\ Count(l) \in Nat /\ Len(DigitsOf(p)) = Count(l)
         /\ \A k \in 1 .. Count(l) : /\ DigitsOf(p)[k] = t[Place(l, k)]
                                     /\ Place(l, k) \in l.body .. l.cut - 1
                                     /\ Place(l, k) # l.dot
         /\ \A k \in l.body .. l.cut - 1 :
              k # l.dot => \E j \in 1 .. Count(l) : Place(l, j) = k
         /\ p.whole \in Seq(Nat) /\ p.fraction \in Seq(Nat)
         /\ Len(p.whole) = l.dot - l.body /\ Len(p.fraction) = Fraction(l)
         /\ \A k \in 1 .. Len(p.whole) : DigitsOf(p)[k] = p.whole[k]
         /\ \A k \in 1 .. Len(p.fraction) : DigitsOf(p)[Len(p.whole) + k] = p.fraction[k]
<1> DEFINE w == p.whole
           f == p.fraction
           ds == w \o f
           a == l.dot - l.body
           b == Fraction(l)
           n == a + b
           bo == l.body
           cu == l.cut
           d == l.dot
<1>1. /\ w \in Seq(Nat) /\ a \in Nat /\ Len(w) = a /\ \A k \in 1 .. a : w[k] = t[l.body + k - 1]
      /\ f \in Seq(Nat) /\ b \in Nat /\ Len(f) = b /\ \A k \in 1 .. b : f[k] = t[l.dot + 1 + k - 1]
  BY DEF PartsAt, Slice
<1>2. /\ l.body \in Nat /\ l.cut \in Nat /\ l.dot \in Nat /\ l.body <= l.dot /\ l.dot <= l.cut
      /\ l.dot # l.cut => b = l.cut - l.dot - 1
      /\ l.dot = l.cut => b = 0
  BY LayoutTypes
<1> HIDE DEF w, f
<1>3. ds \in Seq(Nat) /\ Len(ds) = Len(w) + Len(f)
      /\ (\A k \in 1 .. Len(w) : ds[k] = w[k]) /\ \A k \in 1 .. Len(f) : ds[Len(w) + k] = f[k]
  BY <1>1, Concatenation
<1>6. a \in Nat /\ b \in Nat /\ n \in Nat /\ n = a + b
  <2>1. a \in Nat /\ b \in Nat
    BY <1>1
  <2> HIDE DEF a, b
  <2>2. QED
    BY <2>1
<1>7. Len(ds) = n /\ (\A k \in 1 .. a : ds[k] = w[k]) /\ \A k \in 1 .. b : ds[a + k] = f[k]
  BY <1>1, <1>3
<1>9. /\ bo \in Nat /\ cu \in Nat /\ d \in Nat /\ bo <= d /\ d <= cu
      /\ d # cu => b = cu - d - 1
      /\ d = cu => b = 0
      /\ a = d - bo
  BY <1>2
<1>10. \A k : Place(l, k) = IF k <= a THEN bo + k - 1 ELSE bo + k
  BY DEF Place
<1>11. /\ \A k \in 1 .. a : w[k] = t[bo + k - 1]
       /\ \A k \in 1 .. b : f[k] = t[d + 1 + k - 1]
  BY <1>1
<1> HIDE DEF ds, a, b, n, bo, cu, d
<1>4. ASSUME NEW k \in 1 .. n
      PROVE  ds[k] = t[Place(l, k)] /\ Place(l, k) \in bo .. cu - 1 /\ Place(l, k) # d
  <2>0. k \in Nat /\ 1 <= k /\ k <= a + b
    BY <1>6
  <2>1. CASE k <= a
    <3>1. Place(l, k) = bo + k - 1 /\ k \in 1 .. a
      BY <1>6, <1>10, <2>0, <2>1
    <3>2. ds[k] = t[bo + k - 1]
      BY <1>7, <1>11, <3>1
    <3>3. bo + k - 1 \in bo .. cu - 1 /\ bo + k - 1 # d
      BY <1>9, <2>0, <2>1
    <3>4. QED
      BY <3>1, <3>2, <3>3
  <2>2. CASE ~(k <= a)
    <3>1. Place(l, k) = bo + k
      BY <1>10, <2>2
    <3>2. k - a \in 1 .. b /\ a + (k - a) = k /\ d + 1 + (k - a) - 1 = bo + k
      BY <1>6, <1>9, <2>0, <2>2
    <3>3. ds[a + (k - a)] = f[k - a] /\ f[k - a] = t[d + 1 + (k - a) - 1]
      BY <1>7, <1>11, <3>2
    <3>4. ds[k] = t[bo + k]
      BY ONLY <3>2, <3>3
    <3>5. bo + k \in bo .. cu - 1 /\ bo + k # d
      BY <1>6, <1>9, <2>0, <2>2
    <3>6. QED
      BY <3>1, <3>4, <3>5
  <2>3. QED
    BY <2>1, <2>2
<1>5. ASSUME NEW k \in bo .. cu - 1, k # d
      PROVE  \E j \in 1 .. n : Place(l, j) = k
  <2>1. CASE k < d
    <3>1. k - bo + 1 \in 1 .. n /\ k - bo + 1 <= a /\ bo + (k - bo + 1) - 1 = k
      BY <1>6, <1>9, <2>1
    <3>2. Place(l, k - bo + 1) = k
      BY ONLY <1>10, <3>1
    <3>3. QED
      BY <3>1, <3>2
  <2>2. CASE k > d
    <3>1. k - bo \in 1 .. n /\ ~(k - bo <= a) /\ bo + (k - bo) = k
      BY <1>6, <1>9, <2>2
    <3>2. Place(l, k - bo) = k
      BY ONLY <1>10, <3>1
    <3>3. QED
      BY <3>1, <3>2
  <2>3. QED
    BY <1>9, <1>5, <2>1, <2>2
<1>8. DigitsOf(p) = ds /\ Count(l) = n
  BY DEF DigitsOf, Count, ds, n, a, b, w, f
<1>12. \A k \in 1 .. Len(f) : ds[Len(w) + k] = f[k]
  BY <1>1, <1>3
<1>13. QED
  BY ONLY <1>1, <1>3, <1>4, <1>5, <1>6, <1>7, <1>8, <1>12 DEF w, f, a, b, bo, cu, d

(* Behind the last character that is no space there are only spaces.       *)
LEMMA BehindFacts ==
  ASSUME NEW t \in Seq(Nat), NEW first, NEW last, Bounds(t, first, last)
  PROVE  /\ \A k \in last + 1 .. Len(t) : isspace(t[k])
         /\ \A k \in Nat : k > last => At(t, k) \in {0, 32} \cup 9 .. 13
<1>1. first \in 1 .. last /\ last \in 1 .. Len(t) /\ Len(t) \in Nat /\ last \in Nat
      /\ \A i \in 1 .. Len(t) + 1 : AfterSpaces(t, i) = Len(t) + 1 <=> i > last
  BY DEF Bounds
<1>2. last + 1 \in 1 .. Len(t) + 1 /\ last + 1 > last
  BY <1>1
<1>3. AfterSpaces(t, last + 1) = Len(t) + 1
  BY <1>1, <1>2
<1>4. Spaces(t) \in SUBSET (1 .. Len(t))
  BY DEF Spaces
<1>5. \A k \in last + 1 .. After(Spaces(t), t, last + 1) - 1 : k \in Spaces(t)
  BY <1>2, <1>4, AfterFacts
<1>6. \A k \in last + 1 .. Len(t) : k \in Spaces(t)
  BY <1>1, <1>3, <1>5 DEF AfterSpaces
<1>7. \A k \in last + 1 .. Len(t) : isspace(t[k])
  BY <1>6 DEF Spaces
<1>8. ASSUME NEW k \in Nat, k > last PROVE At(t, k) \in {0, 32} \cup 9 .. 13
  <2>1. CASE At(t, k) = 0
    BY <2>1
  <2>2. CASE At(t, k) # 0
    <3>1. k \in 1 .. Len(t) /\ At(t, k) = t[k]
      BY <2>2, AtFacts
    <3>2. k \in last + 1 .. Len(t)
      BY <1>1, <1>8, <3>1
    <3>3. isspace(t[k])
      BY <1>7, <3>2
    <3>4. QED
      BY <3>1, <3>3 DEF isspace
  <2>3. QED
    BY <2>1, <2>2
<1>9. QED
  BY <1>7, <1>8

LEMMA ExponentFacts ==
  ASSUME NEW t \in Seq(Nat), NEW l, Layout(t, l), NEW p, PartsAt(t, l, p)
  PROVE  /\ l.cut <= l.last =>
              /\ ExponentAt(t, l) \in l.cut + 1 .. l.last + 1
              /\ Slice(V!Unsigned(p.exponent), t, ExponentAt(t, l), (l.last + 1) - ExponentAt(t, l))
              /\ V!Minus(p.exponent) <=> isneg(t, l.cut + 1)
         /\ l.cut > l.last => V!Unsigned(p.exponent) = <<>> /\ ~V!Minus(p.exponent)
<1> DEFINE c == l.cut
           e0 == l.last
           x == ExponentAt(t, l)
<1>1. c \in Nat \ {0} /\ e0 \in Nat /\ e0 <= Len(t) /\ Len(t) \in Nat
  BY LayoutTypes
<1>2. Bounds(t, l.first, e0) /\ (c <= e0 => Slice(p.exponent, t, c + 1, e0 - c))
      /\ (c > e0 => p.exponent = <<>>)
  BY DEF Layout, PartsAt
<1>3. x = AfterSign(t, c + 1)
  BY DEF ExponentAt
<1> HIDE DEF c, e0, x
<1>4. ASSUME c <= e0
      PROVE  /\ x \in c + 1 .. e0 + 1
             /\ Slice(V!Unsigned(p.exponent), t, x, (e0 + 1) - x)
             /\ V!Minus(p.exponent) <=> isneg(t, c + 1)
  <2> DEFINE i == c + 1
             n == e0 - c
  <2>1. i \in Nat \ {0} /\ n \in Nat /\ i + n = e0 + 1 /\ i + n <= Len(t) + 1
    BY <1>1, <1>4
  <2>2. n = 0 => At(t, i) \notin {43, 45}
    <3>1. n = 0 => i \in Nat /\ i > e0
      BY <1>1, <2>1
    <3>2. i \in Nat /\ i > e0 => At(t, i) \in {0, 32} \cup 9 .. 13
      BY <1>2, BehindFacts
    <3>3. QED
      BY ONLY <3>1, <3>2
  <2>3. Slice(p.exponent, t, i, n) /\ x = AfterSign(t, i)
    BY <1>2, <1>3, <1>4
  <2> HIDE DEF i, n
  <2>4. /\ x \in Nat \ {0} /\ x <= i + n
        /\ Slice(V!Unsigned(p.exponent), t, x, i + n - x)
        /\ V!Minus(p.exponent) <=> isneg(t, i)
    BY <2>1, <2>2, <2>3, UnsignedFacts
  <2>5. i + n - x = (e0 + 1) - x
    BY <2>1, <2>4
  <2>6. x = i \/ x = i + 1
    BY <2>1, <2>3, SignFacts
  <2>7. x \in i .. e0 + 1
    BY <2>1, <2>4, <2>6
  <2>8. Slice(V!Unsigned(p.exponent), t, x, (e0 + 1) - x)
    BY ONLY <2>4, <2>5
  <2>9. QED
    BY <2>4, <2>7, <2>8 DEF i
<1>5. ASSUME c > e0 PROVE V!Unsigned(p.exponent) = <<>> /\ ~V!Minus(p.exponent)
  BY <1>2, <1>5 DEF V!Unsigned, V!Signed, V!Minus
<1>6. QED
  BY <1>4, <1>5 DEF c, e0, x

LEMMA NumeralFacts ==
  ASSUME NEW t \in Seq(Nat), NEW l, Layout(t, l), NEW p, PartsAt(t, l, p)
  PROVE  /\ V!IsNumeral(p) <=> Numeral(t, l)
         /\ Numeral(t, l) => AllIn(DigitsOf(p), Codes(l.base)) /\ Len(DigitsOf(p)) # 0
         /\ Numeral(t, l) => AllIn(V!Unsigned(p.exponent), Codes(10))
<1> DEFINE ds == DigitsOf(p)
           es == V!Unsigned(p.exponent)
           n == Count(l)
           B == Codes(l.base)
<1>1. /\ ds \in Seq(Nat) /\ n \in Nat /\ Len(ds) = n
      /\ \A k \in 1 .. n : /\ ds[k] = t[Place(l, k)]
                           /\ Place(l, k) \in l.body .. l.cut - 1
                           /\ Place(l, k) # l.dot
      /\ \A k \in l.body .. l.cut - 1 :
           k # l.dot => \E j \in 1 .. n : Place(l, j) = k
  BY MantissaFacts
<1>2. p.base = l.base /\ l.base \in {10, 16} /\ (p.dots <= 1 <=> OneDot(t, l))
      /\ (p.hasexp <=> l.cut <= l.last)
  BY LayoutTypes DEF PartsAt
<1> HIDE DEF n
<1>3. (\A k \in 1 .. n : ds[k] \in B) <=>
        \A k \in l.body .. l.cut - 1 : t[k] \in B \/ k = l.dot
  BY <1>1, SMTT(30)
<1>4. ds # <<>> <=> \E k \in l.body .. l.cut - 1 : k # l.dot
  <2>1. ds # <<>> <=> n # 0
    BY <1>1
  <2>2. n # 0 <=> \E k \in 1 .. n : TRUE
    <3>1. n \in Nat
      BY <1>1
    <3>2. n # 0 => 1 \in 1 .. n
      BY <3>1
    <3>3. QED
      BY <3>1, <3>2
  <2>3. QED
    BY <1>1, <2>1, <2>2
<1>5. \A c \in Nat : (IF p.base = 16 THEN V!isxdigit(c) ELSE V!isdigit(c)) <=> c \in B
  BY <1>2 DEF Codes, isdigit, isxdigit, V!isdigit, V!isxdigit
<1>6. (\A k \in DOMAIN ds : IF p.base = 16 THEN V!isxdigit(ds[k]) ELSE V!isdigit(ds[k]))
        <=> \A k \in 1 .. n : ds[k] \in B
  <2>1. DOMAIN ds = 1 .. n /\ \A k \in 1 .. n : ds[k] \in Nat
    BY <1>1
  <2> HIDE DEF ds, B
  <2>2. QED
    BY <1>5, <2>1
<1> HIDE DEF ds, B
<1>7. ASSUME l.cut <= l.last
      PROVE  (es # <<>> /\ \A k \in DOMAIN es : V!isdigit(es[k])) <=>
               (ExponentAt(t, l) <= l.last
                /\ \A k \in ExponentAt(t, l) .. l.last : t[k] \in Codes(10))
  <2> DEFINE x == ExponentAt(t, l)
             m == (l.last + 1) - x
  <2>0. l.last \in Nat /\ x \in Nat /\ x <= l.last + 1
    <3>1. x \in l.cut + 1 .. l.last + 1 /\ l.cut \in Nat /\ l.last \in Nat
      BY <1>7, ExponentFacts, LayoutTypes
    <3> HIDE DEF x
    <3>2. QED
      BY <3>1
  <2>1. es \in Seq(Nat) /\ m \in Nat /\ Len(es) = m /\ \A k \in 1 .. m : es[k] = t[x + k - 1]
    BY <1>7, ExponentFacts DEF Slice
  <2> HIDE DEF x, es
  <2>2. es # <<>> <=> x <= l.last
    <3>1. es # <<>> <=> m # 0
      BY <2>1
    <3>2. QED
      BY <2>0, <3>1
  <2>3. (\A k \in DOMAIN es : V!isdigit(es[k])) <=> \A k \in 1 .. m : t[x + k - 1] \in Codes(10)
    <3>1. \A k \in 1 .. m : es[k] = t[x + k - 1] /\ es[k] \in Nat
      BY <2>1
    <3>2. \A c \in Nat : V!isdigit(c) <=> c \in Codes(10)
      BY CodesAre DEF V!isdigit
    <3>3. DOMAIN es = 1 .. m
      BY <2>1
    <3> HIDE DEF m
    <3>4. QED
      BY <3>1, <3>2, <3>3
  <2>4. (\A k \in 1 .. m : t[x + k - 1] \in Codes(10)) <=> \A k \in x .. l.last : t[k] \in Codes(10)
    <3>1. ASSUME \A k \in 1 .. m : t[x + k - 1] \in Codes(10), NEW k \in x .. l.last
          PROVE  t[k] \in Codes(10)
      <4>1. k - x + 1 \in 1 .. m /\ x + (k - x + 1) - 1 = k
        BY <2>0
      <4>2. t[x + (k - x + 1) - 1] \in Codes(10)
        BY <3>1, <4>1
      <4>3. QED
        BY <4>1, <4>2
    <3>2. ASSUME \A k \in x .. l.last : t[k] \in Codes(10), NEW k \in 1 .. m
          PROVE  t[x + k - 1] \in Codes(10)
      <4>1. x + k - 1 \in x .. l.last
        BY <2>0
      <4>2. QED
        BY <3>2, <4>1
    <3>3. QED
      BY <3>1, <3>2
  <2>5. QED
    BY <2>2, <2>3, <2>4 DEF x
<1>8. V!IsNumeral(p) <=>
        /\ p.dots <= 1
        /\ ds # <<>> /\ \A k \in DOMAIN ds : IF p.base = 16 THEN V!isxdigit(ds[k]) ELSE V!isdigit(ds[k])
        /\ p.hasexp => es # <<>> /\ \A k \in DOMAIN es : V!isdigit(es[k])
  BY DEF V!IsNumeral, DigitsOf, ds, es
<1> HIDE DEF es
<1>9. V!IsNumeral(p) <=> Numeral(t, l)
  <2>1. ASSUME l.cut <= l.last PROVE V!IsNumeral(p) <=> Numeral(t, l)
    BY <1>2, <1>3, <1>4, <1>6, <1>7, <1>8, <2>1 DEF Numeral, B
  <2>2. ASSUME ~(l.cut <= l.last) PROVE V!IsNumeral(p) <=> Numeral(t, l)
    BY <1>2, <1>3, <1>4, <1>6, <1>8, <2>2 DEF Numeral, B
  <2>3. QED
    BY <2>1, <2>2
<1>10. Numeral(t, l) => AllIn(ds, B) /\ Len(ds) # 0
  <2>1. Numeral(t, l) => ds # <<>> /\ \A k \in 1 .. n : ds[k] \in B
    BY <1>3, <1>4 DEF Numeral, B
  <2>2. QED
    BY <1>1, <2>1 DEF AllIn
<1>11. Numeral(t, l) => AllIn(es, Codes(10))
  <2>1. CASE l.cut <= l.last
    <3>1. Numeral(t, l) => \A k \in DOMAIN es : V!isdigit(es[k])
      BY <1>7, <2>1 DEF Numeral
    <3>2. es \in Seq(Nat)
      BY <2>1, ExponentFacts DEF es, Slice
    <3>3. \A c \in Nat : V!isdigit(c) => c \in Codes(10)
      BY CodesAre DEF V!isdigit
    <3>4. \A k \in 1 .. Len(es) : es[k] \in Nat /\ k \in DOMAIN es
      BY <3>2
    <3>5. QED
      BY <3>1, <3>3, <3>4 DEF AllIn
  <2>2. CASE ~(l.cut <= l.last)
    <3>1. es = <<>>
      <4>1. l.cut > l.last
        BY <2>2, LayoutTypes
      <4>2. QED
        BY <4>1, ExponentFacts DEF es
    <3>2. QED
      BY <3>1 DEF AllIn
  <2>3. QED
    BY <2>1, <2>2
<1>12. QED
  BY <1>9, <1>10, <1>11 DEF ds, B, es

-----------------------------------------------------------------------------
(* Remainders and powers of two.                                           *)

LEMMA SameRemainder ==
  ASSUME NEW m \in Nat \ {0}, NEW a \in Int, NEW q \in Int, NEW x \in Nat, x < m,
         a = q * m + x
  PROVE  a % m = x
<1> DEFINE d == a \div m
           y == a % m
<1>1. d \in Int /\ y \in 0 .. m - 1 /\ a = d * m + y
  OBVIOUS
<1>2. d * m + y = q * m + x
  BY <1>1
<1> HIDE DEF d, y
<1>3. d > q => d * m >= q * m + m
  <2>1. d > q => d - q >= 1 /\ d - q \in Nat
    BY <1>1
  <2>2. d > q => (d - q) * m >= m
    BY <2>1
  <2>3. (d - q) * m = d * m - q * m
    BY <1>1
  <2>4. d * m \in Int /\ q * m \in Int
    BY <1>1
  <2>5. QED
    BY <2>2, <2>3, <2>4
<1>4. q > d => q * m >= d * m + m
  <2>1. q > d => q - d >= 1 /\ q - d \in Nat
    BY <1>1
  <2>2. q > d => (q - d) * m >= m
    BY <2>1
  <2>3. (q - d) * m = q * m - d * m
    BY <1>1
  <2>4. d * m \in Int /\ q * m \in Int
    BY <1>1
  <2>5. QED
    BY <2>2, <2>3, <2>4
<1>5. d * m \in Int /\ q * m \in Int
  BY <1>1
<1>6. d = q
  BY <1>1, <1>2, <1>3, <1>4, <1>5
<1>7. QED
  BY <1>1, <1>2, <1>5, <1>6 DEF y

LEMMA Remainders ==
  ASSUME NEW m \in Nat \ {0}, NEW a \in Int
  PROVE  /\ a % m \in Nat /\ a % m < m
         /\ \A b \in Nat : \A c \in Int : ((a % m) * b + c) % m = (a * b + c) % m
         /\ (-(a % m)) % m = (-a) % m
         /\ a \in Nat /\ a < m => a % m = a
<1> DEFINE d == a \div m
           y == a % m
<1>1. d \in Int /\ y \in 0 .. m - 1 /\ a = d * m + y
  OBVIOUS
<1> HIDE DEF d, y
<1>2. ASSUME NEW b \in Nat, NEW c \in Int
      PROVE  (y * b + c) % m = (a * b + c) % m
  <2> DEFINE z == y * b + c
             g == z \div m
             h == z % m
  <2>1. z \in Int /\ y \in Int
    BY <1>1
  <2> HIDE DEF z
  <2>2. g \in Int /\ h \in Nat /\ h < m /\ z = g * m + h
    BY <2>1
  <2> HIDE DEF g, h
  <2>3. a * b + c = (d * b) * m + z
    <3>1. a * b = (d * m) * b + y * b
      BY <1>1
    <3>2. (d * m) * b = (d * b) * m
      BY <1>1
    <3>3. (d * b) * m \in Int /\ y * b \in Int
      BY <1>1
    <3>4. QED
      BY <3>1, <3>2, <3>3 DEF z
  <2>4. (d * b) * m + (g * m + h) = (d * b + g) * m + h
    <3>1. d * b \in Int
      BY <1>1
    <3>2. QED
      BY <2>2, <3>1
  <2>5. a * b + c = (d * b + g) * m + h
    BY ONLY <2>2, <2>3, <2>4
  <2>6. d * b + g \in Int /\ a * b + c \in Int
    BY <1>1, <2>2
  <2>7. (a * b + c) % m = h
    BY <2>2, <2>5, <2>6, SameRemainder
  <2>8. QED
    BY <2>7 DEF h, z
<1>3. (-y) % m = (-a) % m
  <2> DEFINE z == -y
             g == z \div m
             h == z % m
  <2>1. z \in Int /\ y \in Int
    BY <1>1
  <2> HIDE DEF z
  <2>2. g \in Int /\ h \in Nat /\ h < m /\ z = g * m + h
    BY <2>1
  <2> HIDE DEF g, h
  <2>3. -a = (-d) * m + z
    BY <1>1 DEF z
  <2>4. -a = (g - d) * m + h
    BY <1>1, <2>2, <2>3
  <2>5. g - d \in Int /\ -a \in Int
    BY <1>1, <2>2
  <2>6. (-a) % m = h
    BY <2>2, <2>4, <2>5, SameRemainder
  <2>7. QED
    BY <2>6 DEF h, z
<1>4. a \in Nat /\ a < m => a % m = a
  OBVIOUS
<1>5. QED
  BY <1>1, <1>2, <1>3, <1>4 DEF y

LEMMA TwoToThe ==
  /\ \A n \in Nat : 2^n \in Nat \ {0} /\ 2^(n + 1) = 2 * 2^n
  /\ 2^0 = 1
<1>1. ASSUME NEW n \in Nat
      PROVE  2^n \in Nat /\ IsFiniteSet(SUBSET (1 .. n)) /\ Cardinality(SUBSET (1 .. n)) = 2^n
  <2>1. IsFiniteSet(1 .. n) /\ Cardinality(1 .. n) = n
    BY FS_Interval
  <2>2. IsFiniteSet(SUBSET (1 .. n)) /\ Cardinality(SUBSET (1 .. n)) = 2^Cardinality(1 .. n)
    BY <2>1, FS_SUBSET
  <2>3. QED
    BY <2>1, <2>2, FS_CardinalityType
<1>2. ASSUME NEW n \in Nat
      PROVE  2^(n + 1) = 2 * 2^n
  <2> DEFINE A == SUBSET (1 .. n)
             B == SUBSET (1 .. n + 1)
             C == {X \in B : n + 1 \in X}
             f == [X \in A |-> X \cup {n + 1}]
  <2>1. A \cup C = B /\ A \cap C = {}
    <3>1. 1 .. n + 1 = (1 .. n) \cup {n + 1} /\ n + 1 \notin 1 .. n
      OBVIOUS
    <3>2. QED
      BY <3>1
  <2>2. f \in Bijection(A, C)
    <3>1. 1 .. n + 1 = (1 .. n) \cup {n + 1} /\ n + 1 \notin 1 .. n
      OBVIOUS
    <3>2. f \in [A -> C]
      BY <3>1
    <3>3. \A X, Y \in A : f[X] = f[Y] => X = Y
      BY <3>1
    <3>4. ASSUME NEW Y \in C PROVE \E X \in A : f[X] = Y
      <4>1. Y \ {n + 1} \in A
        BY <3>1
      <4>2. f[Y \ {n + 1}] = Y
        BY <4>1
      <4>3. QED
        BY <4>1, <4>2
    <3> HIDE DEF A, C, f
    <3>5. f \in Injection(A, C) /\ f \in Surjection(A, C)
      BY <3>2, <3>3, <3>4 DEF Injection, IsInjective, Surjection
    <3>6. QED
      BY <3>5 DEF Bijection
  <2>3. IsFiniteSet(A) /\ Cardinality(A) = 2^n /\ Cardinality(B) = 2^(n + 1)
        /\ 2^n \in Nat /\ 2^(n + 1) \in Nat
    <3>1. n + 1 \in Nat
      OBVIOUS
    <3>2. Cardinality(B) = 2^(n + 1) /\ 2^(n + 1) \in Nat
      BY <1>1, <3>1
    <3>3. QED
      BY <1>1, <3>2
  <2> HIDE DEF A, B, C, f
  <2>4. ExistsBijection(A, C)
    BY <2>2 DEF ExistsBijection
  <2>5. IsFiniteSet(C) /\ Cardinality(C) = Cardinality(A)
    BY <2>3, <2>4, FS_Bijection
  <2>6. Cardinality(A \cup C) = Cardinality(A) + Cardinality(C) - Cardinality(A \cap C)
    BY <2>3, <2>5, FS_Union
  <2>7. Cardinality(A \cap C) = 0
    BY <2>1, FS_EmptySet
  <2>8. QED
    BY <2>1, <2>3, <2>5, <2>6, <2>7
<1>3. 2^0 = 1
  OBVIOUS
<1>4. \A n \in Nat : 2^n # 0
  <2> DEFINE S == {n \in Nat : 2^n # 0}
  <2>1. 0 \in S
    BY <1>3
  <2>2. ASSUME NEW n \in Nat, n \in S PROVE n + 1 \in S
    <3>1. 2^n \in Nat /\ 2^n # 0 /\ 2^(n + 1) = 2 * 2^n
      BY <1>1, <1>2, <2>2
    <3>2. 2 * 2^n # 0
      BY <3>1
    <3>3. QED
      BY <3>1, <3>2
  <2> HIDE DEF S
  <2>3. \A n \in Nat : n \in S
    BY <2>1, <2>2, NatSet
  <2>4. QED
    BY <2>3 DEF S
<1>5. QED
  BY <1>1, <1>2, <1>3, <1>4

(* The least and the greatest integer.                                     *)
Half == 2^(IntBits - 1)

LEMMA IntegerFacts ==
  /\ Half \in Nat \ {0} /\ 2^IntBits = 2 * Half /\ LUA_MAXINTEGER = Half - 1
  /\ MAXBY10 \in Nat /\ MAXLASTD \in 0 .. 8 /\ LUA_MAXINTEGER = 10 * MAXBY10 + MAXLASTD
<1>1. IntBits - 1 \in Nat /\ (IntBits - 1) + 1 = IntBits /\ IntBits - 2 \in Nat
      /\ (IntBits - 2) + 1 = IntBits - 1
  BY NumeralsAssumption
<1>2. Half \in Nat \ {0} /\ 2^IntBits = 2 * Half
  <2> DEFINE n == IntBits - 1
  <2>1. n \in Nat /\ n + 1 = IntBits
    BY <1>1
  <2> HIDE DEF n
  <2>2. 2^n \in Nat \ {0} /\ 2^IntBits = 2 * 2^n
    BY <2>1, TwoToThe
  <2>3. QED
    BY <2>2 DEF n, Half
<1>3. \A n \in Nat : 2^(n + 1) % 10 \in {2, 4, 6, 8}
  <2> DEFINE S == {n \in Nat : 2^(n + 1) % 10 \in {2, 4, 6, 8}}
  <2>1. 0 \in S
    <3>1. 2^(0 + 1) = 2 * 2^0 /\ 2^0 = 1
      BY TwoToThe
    <3>2. QED
      BY <3>1
  <2>2. ASSUME NEW n \in Nat, n \in S PROVE n + 1 \in S
    <3> DEFINE x == 2^(n + 1)
               y == 2^((n + 1) + 1)
    <3>1. n + 1 \in Nat
      OBVIOUS
    <3>2. x \in Nat /\ y = 2 * x
      BY <3>1, TwoToThe
    <3>3. x % 10 \in {2, 4, 6, 8}
      BY <2>2
    <3> HIDE DEF x, y
    <3>4. y % 10 \in {2, 4, 6, 8}
      BY <3>2, <3>3
    <3>5. QED
      BY <3>1, <3>4 DEF y
  <2> HIDE DEF S
  <2>3. \A n \in Nat : n \in S
    BY <2>1, <2>2, NatSet
  <2>4. QED
    BY <2>3 DEF S
<1>4. Half % 10 \in {2, 4, 6, 8}
  BY <1>1, <1>3 DEF Half
<1>5. LUA_MAXINTEGER = Half - 1
  BY DEF LUA_MAXINTEGER, Half
<1> DEFINE L == LUA_MAXINTEGER
<1> HIDE DEF L
<1>6. L \in Nat /\ L = Half - 1
  BY <1>2, <1>5 DEF L
<1>7. L \div 10 \in Nat /\ L % 10 \in 0 .. 8 /\ L = 10 * (L \div 10) + (L % 10)
  BY <1>2, <1>4, <1>6
<1>8. QED
  BY <1>2, <1>5, <1>7 DEF L, MAXBY10, MAXLASTD

LEMMA SliceUnique ==
  ASSUME NEW u, NEW v, NEW t, NEW i, NEW n, Slice(u, t, i, n), Slice(v, t, i, n)
  PROVE  u = v
<1>1. u \in Seq(Nat) /\ v \in Seq(Nat) /\ Len(u) = n /\ Len(v) = n
      /\ \A k \in 1 .. n : u[k] = v[k]
  BY DEF Slice
<1>2. QED
  BY <1>1

(* What the loop of l_str2int over hexadecimal digits computes.            *)
LEMMA HexRead ==
  ASSUME NEW ds \in Seq(Nat), AllIn(ds, Codes(16))
  PROVE  Folded(AddHex, 0, ds) = V!Number(16, ds) % 2^IntBits
<1> DEFINE n == Len(ds)
           M == 2^IntBits
           F == Folding(AddHex, 0, ds)
           N == Num(16, ds)
           S == {k \in Nat : k <= n => F[k] = N[k] % M}
<1>1. n \in Nat /\ M \in Nat \ {0}
  BY IntegerFacts
<1>2. /\ F[0] = 0 /\ Folded(AddHex, 0, ds) = F[n]
      /\ \A k \in 0 .. n - 1 : F[k + 1] = AddHex[<<F[k], ds[k + 1]>>]
  BY <1>1, FoldingFacts
<1>3. /\ N[0] = 0 /\ V!Number(16, ds) = N[n]
      /\ \A k \in 0 .. n : N[k] \in Nat
      /\ \A k \in 0 .. n - 1 : N[k + 1] = N[k] * 16 + Value(ds[k + 1])
  BY <1>1, NumFacts
<1>4. \A a, c \in Nat : AddHex[<<a, c>>] = (a * 16 + hexavalue(c)) % M
  BY DEF AddHex
<1>5. \A k \in 1 .. n : ds[k] \in Nat /\ hexavalue(ds[k]) = Value(ds[k]) /\ Value(ds[k]) \in Nat
  <2> SUFFICES ASSUME NEW k \in 1 .. n
               PROVE  ds[k] \in Nat /\ hexavalue(ds[k]) = Value(ds[k]) /\ Value(ds[k]) \in Nat
    OBVIOUS
  <2>1. ds[k] \in Codes(16)
    BY DEF AllIn
  <2>2. ds[k] \in Nat /\ hexavalue(ds[k]) = Value(ds[k]) /\ Value(ds[k]) \in 0 .. 16 - 1
    BY <2>1, DigitFacts
  <2>3. QED
    BY <2>2, SMTT(30)
<1> HIDE DEF F, N, M, n
<1>6. 0 \in S
  BY <1>1, <1>2, <1>3
<1>7. ASSUME NEW k \in Nat, k \in S PROVE k + 1 \in S
  <2>1. CASE k + 1 <= n
    <3>1. k \in 0 .. n - 1 /\ k + 1 \in 1 .. n /\ k \in 0 .. n /\ k <= n
      BY <1>1, <2>1
    <3> DEFINE c == ds[k + 1]
               a == N[k]
               v == Value(c)
               b == F[k]
    <3>2. F[k + 1] = AddHex[<<b, c>>] /\ N[k + 1] = a * 16 + v
      BY <1>2, <1>3, <3>1
    <3>3. a \in Nat /\ c \in Nat /\ v \in Nat /\ hexavalue(c) = v
      BY <1>3, <1>5, <3>1
    <3>4. b = a % M
      BY <1>7, <3>1
    <3> HIDE DEF a, b, c, v
    <3>5. b \in Nat /\ (b * 16 + v) % M = (a * 16 + v) % M
      <4>1. a \in Int /\ v \in Int /\ 16 \in Nat
        BY <3>3
      <4>2. /\ a % M \in Nat
            /\ \A p \in Nat : \A q \in Int : ((a % M) * p + q) % M = (a * p + q) % M
        BY <1>1, <4>1, Remainders
      <4>3. ((a % M) * 16 + v) % M = (a * 16 + v) % M
        BY ONLY <4>1, <4>2
      <4>4. QED
        BY ONLY <3>4, <4>2, <4>3
    <3>6. F[k + 1] = (b * 16 + v) % M
      BY <1>4, <3>2, <3>3, <3>5
    <3>7. QED
      BY <3>2, <3>5, <3>6
  <2>2. QED
    BY <2>1
<1> HIDE DEF S
<1>8. n \in S
  BY <1>1, <1>6, <1>7, NatSet
<1>9. QED
  BY <1>1, <1>2, <1>3, <1>8 DEF S, M

(* And the loop over decimal digits.                                       *)
Limit(minus) == LUA_MAXINTEGER + (IF minus THEN 1 ELSE 0)

LEMMA DecimalStep ==
  ASSUME NEW a \in Nat, NEW d \in 0 .. 9, NEW minus \in BOOLEAN
  PROVE  /\ Overflows(a, d, minus) <=> a * 10 + d > Limit(minus)
         /\ ~Overflows(a, d, minus) => (a * 10 + d) % 2^IntBits = a * 10 + d
<1> DEFINE s0 == IF minus THEN 1 ELSE 0
           B == MAXBY10
           R == MAXLASTD
           M == 2^IntBits
           x == a * 10 + d
<1>1. B \in Nat /\ R \in 0 .. 8 /\ s0 \in {0, 1} /\ LUA_MAXINTEGER = 10 * B + R
      /\ M = 2 * Half /\ LUA_MAXINTEGER = Half - 1 /\ Half \in Nat \ {0}
  BY IntegerFacts
<1>2. Limit(minus) = 10 * B + R + s0
  BY <1>1 DEF Limit
<1>3. Overflows(a, d, minus) <=> a >= B /\ (a > B \/ d > R + s0)
  BY DEF Overflows
<1> HIDE DEF s0, B, R, M
<1>4. Overflows(a, d, minus) <=> x > Limit(minus)
  BY <1>1, <1>2, <1>3
<1>5. ~Overflows(a, d, minus) => x < M
  BY <1>1, <1>2, <1>4
<1>6. M \in Nat \ {0} /\ x \in Nat
  BY <1>1
<1> HIDE DEF x
<1>7. ~Overflows(a, d, minus) => x % M = x
  <2>1. x \in Int
    BY <1>6
  <2>2. x \in Nat /\ x < M => x % M = x
    BY ONLY <1>6, <2>1, Remainders
  <2>3. QED
    BY <1>5, <1>6, <2>2
<1>8. QED
  BY <1>4, <1>7 DEF x, M

LEMMA DecimalRead ==
  ASSUME NEW ds \in Seq(Nat), AllIn(ds, Codes(10)), NEW minus \in BOOLEAN
  PROVE  Folded(AddDecimal(minus), 0, ds) =
           IF V!Number(10, ds) <= Limit(minus) THEN V!Number(10, ds) ELSE Overflow
<1> DEFINE n == Len(ds)
           lim == Limit(minus)
           next == AddDecimal(minus)
           F == Folding(next, 0, ds)
           N == Num(10, ds)
           S == {k \in Nat : k <= n => F[k] = IF N[k] <= lim THEN N[k] ELSE Overflow}
<1>1. n \in Nat /\ lim \in Nat
  BY IntegerFacts DEF Limit
<1>2. /\ F[0] = 0 /\ Folded(next, 0, ds) = F[n]
      /\ \A k \in 0 .. n - 1 : F[k + 1] = next[<<F[k], ds[k + 1]>>]
  BY <1>1, FoldingFacts
<1>3. /\ N[0] = 0 /\ V!Number(10, ds) = N[n]
      /\ \A k \in 0 .. n : N[k] \in Nat
      /\ \A k \in 0 .. n - 1 : N[k + 1] = N[k] * 10 + Value(ds[k + 1])
  BY <1>1, NumFacts
<1>4. \A c \in Nat : next[<<Overflow, c>>] = Overflow
  BY DEF AddDecimal
<1>5. \A a, c \in Nat :
        next[<<a, c>>] = IF Overflows(a, c - 48, minus) THEN Overflow
                         ELSE (a * 10 + (c - 48)) % 2^IntBits
  <2> SUFFICES ASSUME NEW a \in Nat, NEW c \in Nat
               PROVE  next[<<a, c>>] = IF Overflows(a, c - 48, minus) THEN Overflow
                                       ELSE (a * 10 + (c - 48)) % 2^IntBits
    OBVIOUS
  <2>1. a # Overflow /\ <<a, c>> \in (Nat \cup {Overflow}) \X Nat
    BY DEF Overflow
  <2>2. next[<<a, c>>] = IF a = Overflow \/ Overflows(a, c - Code["0"], minus) THEN Overflow
                         ELSE (a * 10 + (c - Code["0"])) % 2^IntBits
    BY <2>1 DEF AddDecimal
  <2> HIDE DEF next
  <2>3. QED
    BY ONLY <2>1, <2>2, CodeFacts
<1>6. \A k \in 1 .. n : ds[k] \in Nat /\ Value(ds[k]) = ds[k] - 48 /\ Value(ds[k]) \in 0 .. 9
  <2> SUFFICES ASSUME NEW k \in 1 .. n
               PROVE  ds[k] \in Nat /\ Value(ds[k]) = ds[k] - 48 /\ Value(ds[k]) \in 0 .. 9
    OBVIOUS
  <2>1. ds[k] \in Codes(10) /\ ds[k] \in 48 .. 57
    BY CodesAre DEF AllIn
  <2>2. ds[k] \in Nat /\ Value(ds[k]) = ds[k] - 48
    BY <2>1, DigitFacts
  <2>3. QED
    BY <2>1, <2>2
<1> HIDE DEF F, N, n, lim, next
<1>7. 0 \in S
  BY <1>1, <1>2, <1>3
<1>8. ASSUME NEW k \in Nat, k \in S PROVE k + 1 \in S
  <2>1. CASE k + 1 <= n
    <3>1. k \in 0 .. n - 1 /\ k + 1 \in 1 .. n /\ k \in 0 .. n /\ k <= n
      BY <1>1, <2>1
    <3> DEFINE c == ds[k + 1]
               a == N[k]
               v == Value(c)
               b == F[k]
    <3>2. F[k + 1] = next[<<b, c>>] /\ N[k + 1] = a * 10 + v
      BY <1>2, <1>3, <3>1
    <3>3. a \in Nat /\ c \in Nat /\ v \in 0 .. 9 /\ v = c - 48
      BY <1>3, <1>6, <3>1
    <3>4. b = IF a <= lim THEN a ELSE Overflow
      BY <1>8, <3>1
    <3> HIDE DEF a, b, c, v
    <3>5. CASE a <= lim
      <4>1. F[k + 1] = IF Overflows(a, v, minus) THEN Overflow ELSE (a * 10 + v) % 2^IntBits
        BY <1>5, <3>2, <3>3, <3>4, <3>5
      <4>2. /\ Overflows(a, v, minus) <=> a * 10 + v > lim
            /\ ~Overflows(a, v, minus) => (a * 10 + v) % 2^IntBits = a * 10 + v
        BY <3>3, DecimalStep DEF lim
      <4>3. a * 10 + v > lim <=> ~(a * 10 + v <= lim)
        BY <1>1, <3>3
      <4>4. F[k + 1] = IF a * 10 + v <= lim THEN a * 10 + v ELSE Overflow
        BY ONLY <4>1, <4>2, <4>3
      <4>5. QED
        BY <3>2, <4>4
    <3>6. CASE ~(a <= lim)
      <4>1. F[k + 1] = Overflow
        BY <1>4, <3>2, <3>3, <3>4, <3>6
      <4>2. ~(a * 10 + v <= lim)
        BY <1>1, <3>3, <3>6
      <4>3. QED
        BY <3>2, <4>1, <4>2
    <3>7. QED
      BY <3>5, <3>6
  <2>2. QED
    BY <2>1
<1> HIDE DEF S
<1>9. n \in S
  BY <1>1, <1>7, <1>8, NatSet
<1>10. QED
  BY <1>1, <1>2, <1>3, <1>9 DEF S, next, lim

-----------------------------------------------------------------------------
(* l_str2int.                                                              *)

(* The text is an integer numeral: no dot, no exponent.                    *)
Integral(l) == l.cut = l.last + 1 /\ l.dot = l.cut

LEMMA IntegerPlace ==
  ASSUME NEW t \in Seq(Nat), NEW l, Layout(t, l), NEW p, PartsAt(t, l, p),
         NEW ks, ks = {k \in 1 .. Len(t) : t[k] \in Codes(l.base)},
         NEW at, at = After(ks, t, l.body)
  PROVE  /\ at > l.body /\ AfterSpaces(t, at) = Len(t) + 1 <=> Numeral(t, l) /\ Integral(l)
         /\ Numeral(t, l) /\ Integral(l) =>
              SubSeq(t, l.body, at - 1) = p.whole /\ AllIn(p.whole, Codes(l.base))
<1> DEFINE c == l.body
           e0 == l.last
           B == Codes(l.base)
<1>1. /\ c \in 1 .. Len(t) + 1 /\ c \in Nat /\ e0 \in Nat /\ c <= e0 + 1 /\ e0 <= Len(t)
      /\ 1 <= e0 /\ Len(t) \in Nat /\ l.base \in {10, 16}
  <2>1. /\ l.first \in Nat \ {0} /\ l.last \in Nat /\ l.start \in Nat /\ l.body \in Nat
        /\ Len(t) \in Nat /\ l.base \in {10, 16} /\ l.cut \in Nat /\ l.dot \in Nat
        /\ l.first <= l.last /\ l.last <= Len(t) /\ l.first <= l.start /\ l.start <= l.body
        /\ l.body <= l.dot /\ l.dot <= l.cut /\ l.cut <= l.last + 1
    BY LayoutTypes
  <2>2. QED
    BY ONLY <2>1
<1>2. ks \in SUBSET (1 .. Len(t))
  OBVIOUS
<1>3. /\ at \in c .. Len(t) + 1
      /\ \A k \in c .. at - 1 : k \in ks
      /\ at \notin ks
      /\ \A j \in c .. Len(t) + 1 :
           (\A k \in c .. j - 1 : k \in ks) /\ j \notin ks => at = j
  BY <1>1, <1>2, AfterFacts
<1>4. AfterSpaces(t, at) = Len(t) + 1 <=> at > e0
  <2>1. \A i \in 1 .. Len(t) + 1 : AfterSpaces(t, i) = Len(t) + 1 <=> i > e0
    BY DEF Layout, Bounds
  <2>2. at \in 1 .. Len(t) + 1
    BY <1>1, <1>3
  <2>3. QED
    BY <2>1, <2>2
<1>5. e0 + 1 \notin ks
  <2>1. SUFFICES ASSUME e0 + 1 \in ks PROVE FALSE
    OBVIOUS
  <2>2. e0 + 1 \in e0 + 1 .. Len(t) /\ t[e0 + 1] \in B
    BY <1>1, <2>1
  <2>3. isspace(t[e0 + 1])
    <3>1. Bounds(t, l.first, e0)
      BY DEF Layout
    <3>2. \A k \in e0 + 1 .. Len(t) : isspace(t[k])
      BY <3>1, BehindFacts
    <3>3. QED
      BY <2>2, <3>2
  <2> DEFINE y == t[e0 + 1]
  <2>4. y \in (9 .. 13) \cup {32} /\ y \in (48 .. 57) \cup (65 .. 70) \cup (97 .. 102)
    BY <1>1, <2>2, <2>3, CodesAre, ZenonT(40) DEF isspace
  <2> HIDE DEF y
  <2>5. QED
    BY <2>4
<1> HIDE DEF c, e0
<1>6. ASSUME at > e0 PROVE at = e0 + 1
  <2>1. at # e0 + 1 => e0 + 1 \in c .. at - 1
    BY <1>1, <1>3, <1>6
  <2>2. QED
    BY <1>3, <1>5, <2>1
<1>7. ASSUME at > c, at > e0
      PROVE  Numeral(t, l) /\ Integral(l)
  <2>1. at = e0 + 1 /\ c <= e0
    BY <1>1, <1>6, <1>7
  <2>2. \A k \in c .. e0 : t[k] \in B
    <3>1. c .. at - 1 = c .. e0
      BY <1>1, <2>1
    <3>2. QED
      BY <1>3, <3>1
  <2>3. \A x \in B : x \notin Letters(l.base) /\ x # 46
    <3>1. CASE l.base = 16
      <4>1. B = (48 .. 57) \cup (65 .. 70) \cup (97 .. 102) /\ Letters(l.base) = {112, 80}
        BY <3>1, CodesAre DEF Letters
      <4> HIDE DEF B
      <4>2. QED
        BY ONLY <4>1
    <3>2. CASE l.base = 10
      BY <3>2, CodesAre DEF Letters
    <3>3. QED
      BY <1>1, <3>1, <3>2
  <2> HIDE DEF B
  <2>4. l.cut \in c .. e0 + 1 /\ l.dot \in c .. l.cut
        /\ (l.cut <= e0 => t[l.cut] \in Letters(l.base)) /\ (l.dot # l.cut => t[l.dot] = 46)
    BY DEF Layout, c, e0
  <2>5. l.cut = e0 + 1
    <3>1. l.cut # e0 + 1 => l.cut \in c .. e0 /\ l.cut <= e0
      BY <1>1, <2>4
    <3>2. QED
      BY <2>2, <2>3, <2>4, <3>1
  <2>6. l.dot = l.cut
    <3>1. l.dot # l.cut => l.dot \in c .. e0
      BY <1>1, <2>4, <2>5
    <3>2. QED
      BY <2>2, <2>3, <2>4, <3>1
  <2>7. c .. l.cut - 1 = c .. e0 /\ c \in c .. e0 /\ c # l.dot /\ ~(l.cut <= e0)
    BY <1>1, <2>1, <2>5, <2>6
  <2>8. OneDot(t, l)
    BY <2>2, <2>3, <2>7 DEF OneDot, c
  <2>9. QED
    BY <2>2, <2>5, <2>6, <2>7, <2>8 DEF Numeral, Integral, B, c, e0
<1>8. ASSUME Numeral(t, l), Integral(l)
      PROVE  /\ at > c /\ at > e0 /\ SubSeq(t, c, at - 1) = p.whole
             /\ AllIn(p.whole, B)
  <2>1. l.cut = e0 + 1 /\ l.dot = e0 + 1
    BY <1>8 DEF Integral, e0
  <2>2. c .. l.cut - 1 = c .. e0 /\ \A k \in c .. e0 : k # l.dot
    BY <1>1, <2>1
  <2>3. (\A k \in c .. e0 : t[k] \in B) /\ \E k \in c .. e0 : TRUE
    BY <1>8, <2>2 DEF Numeral, c, B
  <2>4. c <= e0
    BY <1>1, <2>3
  <2>5. at = e0 + 1
    <3>1. \A k \in c .. (e0 + 1) - 1 : k \in ks
      <4>1. \A k \in c .. (e0 + 1) - 1 : k \in c .. e0 /\ k \in 1 .. Len(t)
        BY <1>1
      <4>2. QED
        BY <2>3, <4>1
    <3>2. e0 + 1 \in c .. Len(t) + 1
      BY <1>1
    <3>3. QED
      BY ONLY <1>3, <1>5, <3>1, <3>2
  <2> DEFINE n == (e0 + 1) - c
  <2>6. Slice(p.whole, t, c, n)
    <3>1. Slice(p.whole, t, c, l.dot - c)
      BY DEF PartsAt, c
    <3>2. QED
      BY ONLY <2>1, <3>1
  <2>7. Slice(SubSeq(t, c, at - 1), t, c, n)
    <3> DEFINE j == at - 1
               m == Len(t)
    <3>1. c \in Nat \ {0} /\ j \in Int /\ j <= m /\ c <= j + 1 /\ 1 \in Int
      BY <1>1, <2>5
    <3>2. Slice(t, t, 1, m)
      BY WholeSlice
    <3>3. 1 + c - 1 = c /\ j - c + 1 = n
      BY <1>1, <2>5
    <3> HIDE DEF j, m, n
    <3>4. Slice(SubSeq(t, c, j), t, 1 + c - 1, j - c + 1)
      BY <3>1, <3>2, SubSlice
    <3>5. Slice(SubSeq(t, c, j), t, c, n)
      BY ONLY <3>3, <3>4
    <3>6. QED
      BY <3>5 DEF j
  <2> HIDE DEF n
  <2>8. SubSeq(t, c, at - 1) = p.whole
    BY <2>6, <2>7, SliceUnique
  <2>9. AllIn(p.whole, B)
    <3>1. p.whole \in Seq(Nat) /\ Len(p.whole) = n /\ \A k \in 1 .. n : p.whole[k] = t[c + k - 1]
      BY <2>6 DEF Slice
    <3>2. \A k \in 1 .. n : c + k - 1 \in c .. e0
      BY <1>1 DEF n
    <3>3. QED
      BY <2>3, <3>1, <3>2 DEF AllIn
  <2>10. QED
    BY <1>1, <2>4, <2>5, <2>8, <2>9
<1>9. QED
  BY <1>4, <1>7, <1>8 DEF c, B

Minus(t) == V!Minus(V!Trim(t))
Signed(m, minus) == IF minus THEN -m ELSE m

LEMMA MeaningCases ==
  ASSUME NEW t \in Seq(Nat), NEW p, p = PartsOf(t), NEW minus, minus = Minus(t),
         NEW i, i = Signed(V!Number(p.base, p.whole), minus), p.base \in {10, 16},
         NEW integral, integral = (p.dots = 0 /\ ~p.hasexp)
  PROVE  /\ ~V!IsNumeral(p) => V!Meaning(t) = [fails |-> TRUE]
         /\ V!IsNumeral(p) /\ integral /\ p.base = 16 => V!Meaning(t) = [int |-> V!Wrapped(i)]
         /\ V!IsNumeral(p) /\ integral /\ p.base = 10 /\ i \in -Half .. Half - 1 =>
              V!Meaning(t) = [int |-> i]
         /\ V!IsNumeral(p) /\ ~(integral /\ (p.base = 16 \/ i \in -Half .. Half - 1)) =>
              V!Meaning(t) = [float |-> V!Float(p, minus)]
<1> DEFINE A == ~V!IsNumeral(p)
           B == V!IsNumeral(p) /\ integral /\ p.base = 16
           C == V!IsNumeral(p) /\ integral /\ p.base = 10 /\ i \in -Half .. Half - 1
           D == V!IsNumeral(p) /\ ~(integral /\ (p.base = 16 \/ i \in -Half .. Half - 1))
<1>1. V!Meaning(t) = CASE A -> [fails |-> TRUE]
                       [] B -> [int |-> V!Wrapped(i)]
                       [] C -> [int |-> i]
                       [] OTHER -> [float |-> V!Float(p, minus)]
  BY DEF V!Meaning, PartsOf, Minus, Signed, Half
<1>2. (A => ~B /\ ~C) /\ (B => ~A /\ ~C) /\ (C => ~A /\ ~B) /\ (D => ~A /\ ~B /\ ~C)
  OBVIOUS
<1> HIDE DEF A, B, C, D
<1>3. /\ A => V!Meaning(t) = [fails |-> TRUE]
      /\ B => V!Meaning(t) = [int |-> V!Wrapped(i)]
      /\ C => V!Meaning(t) = [int |-> i]
      /\ D => V!Meaning(t) = [float |-> V!Float(p, minus)]
  BY ONLY <1>1, <1>2
<1>4. QED
  BY <1>3 DEF A, B, C, D

LEMMA HexCast ==
  ASSUME NEW m \in Nat, NEW minus \in BOOLEAN
  PROVE  CastU2S(m % 2^IntBits, minus) = V!Wrapped(Signed(m, minus))
<1> DEFINE M == 2^IntBits
           a == m % M
           u == IF minus THEN (-a) % M ELSE a
           w == Signed(m, minus) % M
<1>1. M \in Nat \ {0} /\ M = 2 * Half /\ Half \in Nat \ {0} /\ LUA_MAXINTEGER = Half - 1
  BY IntegerFacts
<1>2. u = w
  <2> HIDE DEF M
  <2>0. m \in Int
    OBVIOUS
  <2>1. (-(m % M)) % M = (-m) % M
    BY ONLY <1>1, <2>0, Remainders
  <2>2. QED
    BY <2>1 DEF Signed
<1>3. w \in Nat
  <2> DEFINE x == Signed(m, minus)
  <2>1. x \in Int
    BY DEF Signed
  <2> HIDE DEF M, x
  <2>2. x % M \in Nat
    BY <1>1, <2>1, Remainders
  <2>3. QED
    BY <2>2 DEF x
<1>4. CastU2S(a, minus) = IF u > LUA_MAXINTEGER THEN u - M ELSE u
  BY DEF CastU2S
<1>5. V!Wrapped(Signed(m, minus)) = IF w >= Half THEN w - M ELSE w
  BY DEF V!Wrapped, Half
<1> HIDE DEF u, w
<1>6. w > LUA_MAXINTEGER <=> w >= Half
  BY <1>1, <1>3
<1>7. QED
  <2>1. CastU2S(a, minus) = V!Wrapped(Signed(m, minus))
    <3> HIDE DEF a, M
    <3>1. QED
      BY ONLY <1>2, <1>4, <1>5, <1>6
  <2>2. QED
    BY <2>1

LEMMA DecimalCast ==
  ASSUME NEW m \in Nat, NEW minus \in BOOLEAN
  PROVE  /\ m <= Limit(minus) <=> Signed(m, minus) \in -Half .. Half - 1
         /\ m <= Limit(minus) => CastU2S(m, minus) = Signed(m, minus)
<1> DEFINE M == 2^IntBits
           u == IF minus THEN (-m) % M ELSE m
<1>1. M \in Nat \ {0} /\ M = 2 * Half /\ Half \in Nat \ {0} /\ LUA_MAXINTEGER = Half - 1
  BY IntegerFacts
<1>2. m <= Limit(minus) <=> Signed(m, minus) \in -Half .. Half - 1
  BY <1>1 DEF Limit, Signed
<1>3. CastU2S(m, minus) = IF u > LUA_MAXINTEGER THEN u - M ELSE u
  BY DEF CastU2S
<1> HIDE DEF M
<1>4. ASSUME m <= Limit(minus) PROVE CastU2S(m, minus) = Signed(m, minus)
  <2>1. CASE ~minus
    BY <1>1, <1>3, <1>4, <2>1 DEF Limit, Signed
  <2>2. CASE minus /\ m = 0
    <3>1. -m = 0
      <4>1. m <= 0
        BY <2>2
      <4>2. \A x \in Nat : x <= 0 => -x = 0
        OBVIOUS
      <4>3. QED
        BY ONLY m \in Nat, <4>1, <4>2
    <3>2. 0 % M = 0
      <4>1. 0 \in Int /\ 0 \in Nat /\ 0 < M
        BY <1>1
      <4>2. QED
        BY ONLY <1>1, <4>1, Remainders
    <3>3. u = 0
      BY <2>2, <3>1, <3>2
    <3> HIDE DEF u
    <3>4. QED
      BY <1>1, <1>3, <2>2, <3>1, <3>3 DEF Signed
  <2>3. CASE minus /\ m # 0
    <3>1. -m = (-1) * M + (M - m) /\ M - m \in Nat /\ M - m < M /\ -1 \in Int /\ -m \in Int
      BY <1>1, <1>4, <2>3 DEF Limit
    <3>2. (-m) % M = M - m
      BY <1>1, <3>1, SameRemainder
    <3>3. u = M - m
      BY <2>3, <3>2
    <3> HIDE DEF u
    <3>4. u > LUA_MAXINTEGER /\ u - M = -m
      BY <1>1, <1>4, <2>3, <3>3 DEF Limit
    <3>5. QED
      BY <1>3, <2>3, <3>4 DEF Signed
  <2>4. QED
    BY <2>1, <2>2, <2>3
<1>5. QED
  BY <1>2, <1>4

LEMMA IntegerValue ==
  ASSUME NEW t \in Seq(Nat), NEW l, Layout(t, l), PartsAt(t, l, PartsOf(t)),
         Minus(t) <=> isneg(t, l.first)
  PROVE  \/ l_str2int(t) = V!Meaning(t) /\ DOMAIN l_str2int(t) = {"int"}
         \/ /\ l_str2int(t) = [fails |-> TRUE]
            /\ V!Meaning(t) = IF Numeral(t, l) THEN [float |-> V!Float(PartsOf(t), Minus(t))]
                              ELSE [fails |-> TRUE]
<1> DEFINE p == PartsOf(t)
           minus == Minus(t)
           b == l.base
           hex == HexPrefix(t, l.start)
           c == l.body
           ks == {k \in 1 .. Len(t) : t[k] \in Codes(b)}
           at == After(ks, t, c)
           ds == SubSeq(t, c, at - 1)
           a == IF hex THEN Folded(AddHex, 0, ds) ELSE Folded(AddDecimal(minus), 0, ds)
           m == V!Number(b, p.whole)
           i == Signed(m, minus)
           integral == p.dots = 0 /\ ~p.hasexp
<1>1. /\ b = IF hex THEN 16 ELSE 10
      /\ c = IF hex THEN l.start + 2 ELSE l.start
      /\ l.start = AfterSign(t, l.first) /\ l.first = AfterSpaces(t, 1)
      /\ b \in {10, 16}
  BY DEF Layout, Bounds
<1>2. minus = isneg(t, l.first) /\ minus \in BOOLEAN
  BY DEF Minus, V!Minus, isneg
<1>3. /\ hex => HexDigits(t) = ks
      /\ ~hex => Digits(t) = ks
  <2>1. DOMAIN t = 1 .. Len(t) /\ \A k \in 1 .. Len(t) : t[k] \in Nat
    OBVIOUS
  <2> HIDE DEF hex
  <2>2. QED
    BY <1>1, <2>1 DEF HexDigits, Digits, Codes
<1> HIDE DEF ks, hex
<1>4. l_str2int(t) = IF /\ a # Overflow /\ at > c /\ AfterSpaces(t, at) = Len(t) + 1
                     THEN [int |-> CastU2S(a, minus)]
                     ELSE [fails |-> TRUE]
  <2>1. l_str2int(t) = IntFrom(t, l.start, minus)
    BY <1>1, <1>2 DEF l_str2int
  <2> HIDE DEF minus
  <2>2. CASE hex
    <3>1. l_str2int(t) = IntRead(t, c, ReadHex(t, c), minus)
      BY <1>1, <2>1, <2>2 DEF IntFrom, hex
    <3>2. ReadHex(t, c) = [a |-> a, at |-> at]
      BY <1>3, <2>2 DEF ReadHex, Read
    <3> HIDE DEF a, at, c
    <3>3. QED
      BY <3>1, <3>2 DEF IntRead
  <2>3. CASE ~hex
    <3>1. l_str2int(t) = IntRead(t, c, ReadDecimal(t, c, minus), minus)
      BY <1>1, <2>1, <2>3 DEF IntFrom, hex
    <3>2. ReadDecimal(t, c, minus) = [a |-> a, at |-> at]
      BY <1>3, <2>3 DEF ReadDecimal, Read
    <3> HIDE DEF a, at, c
    <3>3. QED
      BY <3>1, <3>2 DEF IntRead
  <2>4. QED
    BY <2>2, <2>3
<1>5. /\ at > c /\ AfterSpaces(t, at) = Len(t) + 1 <=> Numeral(t, l) /\ Integral(l)
      /\ Numeral(t, l) /\ Integral(l) => ds = p.whole /\ AllIn(p.whole, Codes(b))
  BY IntegerPlace DEF ks
<1>6. V!IsNumeral(p) <=> Numeral(t, l)
  BY NumeralFacts
<1>7. integral <=> Integral(l)
  <2>1. (p.dots = 0 <=> l.dot = l.cut) /\ (p.hasexp <=> l.cut <= l.last)
    BY DEF PartsAt
  <2>2. l.cut \in Nat /\ l.last \in Nat /\ l.cut <= l.last + 1
    BY LayoutTypes
  <2>3. l.cut = l.last + 1 <=> ~(l.cut <= l.last)
    BY ONLY <2>2
  <2>4. QED
    BY <2>1, <2>3 DEF Integral
<1>8. p.base = b /\ p.whole \in Seq(Nat)
  BY DEF PartsAt, Slice
<1>9. /\ ~V!IsNumeral(p) => V!Meaning(t) = [fails |-> TRUE]
      /\ V!IsNumeral(p) /\ integral /\ b = 16 => V!Meaning(t) = [int |-> V!Wrapped(i)]
      /\ V!IsNumeral(p) /\ integral /\ b = 10 /\ i \in -Half .. Half - 1 =>
           V!Meaning(t) = [int |-> i]
      /\ V!IsNumeral(p) /\ ~(integral /\ (b = 16 \/ i \in -Half .. Half - 1)) =>
           V!Meaning(t) = [float |-> V!Float(p, minus)]
  <2>1. p.base \in {10, 16} /\ i = Signed(V!Number(p.base, p.whole), minus)
    BY <1>1, <1>8
  <2> HIDE DEF p, minus, i, b, integral
  <2>2. p = PartsOf(t) /\ minus = Minus(t) /\ integral = (p.dots = 0 /\ ~p.hasexp) /\ p.base = b
    BY <1>8 DEF p, minus, integral
  <2>3. QED
    BY ONLY <2>1, <2>2, t \in Seq(Nat), MeaningCases
<1> HIDE DEF integral, at, p, minus, i, ds
<1>10. CASE ~(Numeral(t, l) /\ Integral(l))
  BY <1>4, <1>5, <1>6, <1>7, <1>9, <1>10 DEF p, minus
<1>11. CASE Numeral(t, l) /\ Integral(l)
  <2>1. ds = p.whole /\ AllIn(p.whole, Codes(b))
    BY <1>5, <1>11
  <2>2. m \in Nat
    <3>1. Len(p.whole) \in Nat /\ \A k \in 0 .. Len(p.whole) : Num(b, p.whole)[k] \in Nat
          /\ m = Num(b, p.whole)[Len(p.whole)]
      BY <1>1, <1>8, <2>1, NumFacts
    <3>2. Len(p.whole) \in 0 .. Len(p.whole)
      BY <1>8
    <3>3. QED
      BY <3>1, <3>2
  <2>3. CASE b = 16
    <3>1. a = m % 2^IntBits
      BY <1>1, <1>8, <2>1, <2>3, HexRead
    <3>2. a # Overflow
      <4>1. 2^IntBits \in Nat \ {0} /\ m \in Int
        BY <2>2, IntegerFacts
      <4> DEFINE M == 2^IntBits
      <4> HIDE DEF a, m, M
      <4>2. m % M \in Nat
        BY ONLY <4>1, Remainders DEF M
      <4>4. a \in Nat
        BY ONLY <3>1, <4>2 DEF M
      <4>3. QED
        BY <4>4 DEF Overflow
    <3>3. CastU2S(a, minus) = V!Wrapped(i)
      BY <1>2, <2>2, <3>1, HexCast DEF i
    <3>4. QED
      BY <1>4, <1>5, <1>6, <1>7, <1>9, <1>11, <2>3, <3>2, <3>3
  <2>4. CASE b = 10
    <3>1. a = IF m <= Limit(minus) THEN m ELSE Overflow
      BY <1>1, <1>2, <1>8, <2>1, <2>4, DecimalRead
    <3>2. /\ m <= Limit(minus) <=> i \in -Half .. Half - 1
          /\ m <= Limit(minus) => CastU2S(m, minus) = i
      BY <1>2, <2>2, DecimalCast DEF i
    <3>3. m # Overflow
      BY <2>2 DEF Overflow
    <3> HIDE DEF m, a
    <3>4. CASE m <= Limit(minus)
      <4>1. a # Overflow /\ CastU2S(a, minus) = i /\ i \in -Half .. Half - 1
        BY <3>1, <3>2, <3>3, <3>4
      <4>2. l_str2int(t) = [int |-> i]
        BY <1>4, <1>5, <1>11, <4>1
      <4>3. V!Meaning(t) = [int |-> i]
        BY <1>6, <1>7, <1>9, <1>11, <2>4, <4>1
      <4>4. QED
        BY <4>2, <4>3
    <3>5. CASE ~(m <= Limit(minus))
      <4>1. a = Overflow /\ ~(i \in -Half .. Half - 1)
        BY <3>1, <3>2, <3>5
      <4>2. l_str2int(t) = [fails |-> TRUE]
        BY <1>4, <4>1
      <4>3. V!Meaning(t) = [float |-> V!Float(p, minus)]
        BY <1>6, <1>9, <1>11, <2>4, <4>1
      <4>4. QED
        BY <1>11, <4>2, <4>3 DEF p, minus
    <3>6. QED
      BY <3>4, <3>5
  <2>5. QED
    BY <1>1, <2>3, <2>4
<1>12. QED
  BY <1>10, <1>11

(* A text of spaces only is no numeral.                                    *)
LEMMA BlankText ==
  ASSUME NEW t \in Seq(Nat), Solid(t) = {}
  PROVE  /\ l_str2int(t) = [fails |-> TRUE] /\ V!Meaning(t) = [fails |-> TRUE]
         /\ LET j == AfterSign(t, AfterSpaces(t, 1))
            IN  ~HexPrefix(t, j) /\ ~isdigit(At(t, j))
<1> DEFINE n == Len(t)
           j == AfterSign(t, AfterSpaces(t, 1))
<1>1. n \in Nat /\ DOMAIN t = 1 .. n /\ n + 1 \in Nat
  OBVIOUS
<1>2. Spaces(t) = 1 .. n
  BY <1>1 DEF Spaces, Solid
<1>3. AfterSpaces(t, 1) = n + 1 /\ AfterSpaces(t, n + 1) = n + 1
  <2>1. Spaces(t) \in SUBSET (1 .. n) /\ 1 \in 1 .. n + 1 /\ n + 1 \in 1 .. n + 1
        /\ n + 1 \in n + 1 .. n + 1 /\ n + 1 \notin Spaces(t)
        /\ \A k \in 1 .. (n + 1) - 1 : k \in Spaces(t)
    BY <1>1, <1>2
  <2>2. After(Spaces(t), t, 1) = n + 1
    <3>1. \A i \in 1 .. n + 1 :
            (\A k \in 1 .. i - 1 : k \in Spaces(t)) /\ i \notin Spaces(t) => After(Spaces(t), t, 1) = i
      BY <2>1, AfterFacts
    <3>2. QED
      BY ONLY <2>1, <3>1
  <2>3. After(Spaces(t), t, n + 1) = n + 1
    <3>1. After(Spaces(t), t, n + 1) \in n + 1 .. n + 1
      BY <2>1, AfterFacts
    <3> DEFINE x == After(Spaces(t), t, n + 1)
    <3> HIDE DEF x
    <3>2. x = n + 1
      BY <1>1, <3>1 DEF x
    <3>3. QED
      BY <3>2 DEF x
  <2>4. QED
    BY <2>2, <2>3 DEF AfterSpaces
<1>4. At(t, n + 1) = 0
  BY <1>1 DEF At, NUL
<1>5. j = n + 1 /\ ~HexPrefix(t, n + 1) /\ ~isdigit(At(t, n + 1))
  BY <1>1, <1>3, <1>4, SignFacts DEF isdigit
<1>6. l_str2int(t) = [fails |-> TRUE]
  <2> DEFINE minus == isneg(t, n + 1)
             got == ReadDecimal(t, n + 1, minus)
  <2>1. l_str2int(t) = IntRead(t, n + 1, got, minus)
    BY <1>3, <1>5 DEF l_str2int, IntFrom
  <2>2. Digits(t) = {}
    <3>1. \A k \in 1 .. n : isspace(t[k])
      BY <1>2 DEF Spaces
    <3>2. \A c \in Nat : ~(isspace(c) /\ isdigit(c))
      BY DEF isspace, isdigit
    <3>3. \A k \in 1 .. n : t[k] \in Nat
      OBVIOUS
    <3>4. QED
      BY <1>1, <3>1, <3>2, <3>3 DEF Digits
  <2>3. got.at \in n + 1 .. n + 1
    <3>1. After({}, t, n + 1) \in n + 1 .. n + 1
      <4>1. {} \in SUBSET (1 .. n) /\ n + 1 \in 1 .. n + 1
        BY <1>1
      <4>2. QED
        BY <4>1, AfterFacts
    <3>2. QED
      BY <2>2, <3>1 DEF ReadDecimal, Read
  <2> HIDE DEF got
  <2>4. ~(got.at > n + 1)
    BY <1>1, <2>3
  <2>5. QED
    BY <2>1, <2>4 DEF IntRead
<1>7. V!Meaning(t) = [fails |-> TRUE]
  <2>1. {i \in DOMAIN t : ~V!isspace(t[i])} = {}
    BY DEF Solid, isspace, V!isspace
  <2>2. V!Trim(t) = <<>>
    BY <2>1 DEF V!Trim
  <2>3. V!Unsigned(V!Trim(t)) = <<>>
    BY <2>2 DEF V!Unsigned, V!Signed
  <2> DEFINE p == V!Parts(<<>>)
  <2>4. p.whole = <<>> /\ p.fraction = <<>> /\ p.base = 10
    <3> DEFINE letters == {i \in DOMAIN <<>> : <<>>[i] \in {101, 69}}
               cut == IF letters = {} THEN Len(<<>>) + 1
                      ELSE CHOOSE i \in letters : \A k \in letters : i <= k
               mantissa == SubSeq(<<>>, 1, cut - 1)
               dots == {i \in DOMAIN mantissa : mantissa[i] = V!Dot}
               point == IF dots = {} THEN Len(mantissa) + 1 ELSE CHOOSE i \in dots : TRUE
    <3>0. Len(<<>>) = 0 /\ DOMAIN <<>> = {}
      OBVIOUS
    <3>1. ~(Len(<<>>) >= 2)
      BY <3>0
    <3>2. /\ p.whole = SubSeq(mantissa, 1, point - 1)
          /\ p.fraction = SubSeq(mantissa, point + 1, Len(mantissa))
          /\ p.base = 10
      BY <3>1, SMTT(30) DEF V!Parts
    <3>3. letters = {}
      BY <3>0
    <3>4. cut = 1
      BY <3>0, <3>3
    <3>5. mantissa = <<>>
      <4> HIDE DEF cut
      <4>1. QED
        BY <3>4
    <3> HIDE DEF mantissa
    <3>6. dots = {} /\ point = 1
      BY <3>0, <3>5
    <3> HIDE DEF point, p
    <3>7. \A u : u = <<>> => SubSeq(u, 1, 0) = <<>> /\ SubSeq(u, 2, 0) = <<>>
      OBVIOUS
    <3>8. point - 1 = 0 /\ point + 1 = 2 /\ Len(mantissa) = 0
      BY <3>5, <3>6
    <3>9. QED
      BY ONLY <3>2, <3>5, <3>7, <3>8
  <2> HIDE DEF p
  <2>5. ~V!IsNumeral(p)
    <3>1. p.whole \o p.fraction = <<>>
      BY <2>4
    <3>2. QED
      BY <3>1 DEF V!IsNumeral
  <2>6. PartsOf(t) = p
    BY <2>3 DEF PartsOf, p
  <2> DEFINE minus == Minus(t)
             i == Signed(V!Number(p.base, p.whole), minus)
             integral == p.dots = 0 /\ ~p.hasexp
  <2> HIDE DEF minus, i, integral
  <2>7. p.base \in {10, 16} /\ minus = Minus(t) /\ integral = (p.dots = 0 /\ ~p.hasexp)
        /\ i = Signed(V!Number(p.base, p.whole), minus)
    BY <2>4 DEF minus, i, integral
  <2>8. QED
    BY ONLY t \in Seq(Nat), <2>5, <2>6, <2>7, MeaningCases
<1>8. QED
  BY <1>3, <1>5, <1>6, <1>7

-----------------------------------------------------------------------------
(* The digits that strtod keeps.                                           *)

LEMMA PowerSum ==
  ASSUME NEW b \in Nat \ {0}, NEW i \in Nat, NEW j \in Nat
  PROVE  V!Power(b, i + j) = V!Power(b, i) * V!Power(b, j)
<1> DEFINE P(n) == V!Power(b, n)
           S == {k \in Nat : P(i + k) = P(i) * P(k)}
<1>1. P(0) = 1 /\ (\A n \in Nat : P(n) \in Nat \ {0}) /\ \A n \in Nat : P(n + 1) = P(n) * b
  BY PowerFacts
<1> HIDE DEF P
<1>2. 0 \in S
  BY <1>1
<1>3. ASSUME NEW k \in Nat, k \in S PROVE k + 1 \in S
  <2>1. i + k \in Nat /\ (i + k) + 1 = i + (k + 1)
    OBVIOUS
  <2>2. P((i + k) + 1) = P(i + k) * b /\ P(k + 1) = P(k) * b /\ P(i + k) = P(i) * P(k)
    BY <1>1, <1>3, <2>1
  <2>3. P(i) \in Nat /\ P(k) \in Nat
    BY <1>1
  <2>4. (P(i) * P(k)) * b = P(i) * (P(k) * b)
    BY <2>3
  <2>5. P(i + (k + 1)) = P(i) * P(k + 1)
    BY ONLY <2>1, <2>2, <2>4
  <2>6. QED
    BY <2>5
<1> HIDE DEF S
<1>4. j \in S
  BY <1>2, <1>3, NatSet
<1>5. QED
  BY <1>4 DEF S, P

(* The first z digits are zeros, and the next one is not.                  *)
Leading(ds, z) ==
  /\ z \in 0 .. Len(ds)
  /\ \A j \in 1 .. z : ds[j] = 48
  /\ z < Len(ds) => ds[z + 1] # 48

LEMMA LeadingExists ==
  ASSUME NEW ds \in Seq(Nat)
  PROVE  \E z : Leading(ds, z)
<1> DEFINE n == Len(ds)
           S == {z \in 0 .. n : z < n => ds[z + 1] # 48}
<1>1. n \in Nat
  OBVIOUS
<1> HIDE DEF n
<1>2. n \in S /\ S \in SUBSET Nat /\ S # {}
  BY <1>1
<1>3. PICK z \in S : \A k \in S : z <= k
  BY <1>2, LeastNat
<1>4. ASSUME NEW j \in 1 .. z PROVE ds[j] = 48
  <2>1. j - 1 \in 0 .. n /\ j - 1 < n /\ ~(z <= j - 1) /\ (j - 1) + 1 = j
    BY <1>1, <1>3
  <2>2. j - 1 \notin S
    BY <1>3, <2>1
  <2>3. QED
    BY <2>1, <2>2
<1>5. Leading(ds, z)
  BY <1>3, <1>4 DEF Leading, n
<1>6. QED
  BY <1>5

LEMMA KeptFacts ==
  ASSUME NEW b \in {10, 16}, NEW ds \in Seq(Nat), AllIn(ds, Codes(b)), NEW z, Leading(ds, z)
  PROVE  /\ V!Kept(ds) \in Seq(Nat) /\ Len(V!Kept(ds)) = Len(ds)
         /\ AllIn(V!Kept(ds), Codes(b))
         /\ \A i \in 1 .. Len(ds) :
              V!Kept(ds)[i] = IF i - z <= MAXDIG THEN ds[i] ELSE 48
<1> DEFINE n == Len(ds)
           sig == {i \in DOMAIN ds : \E j \in 1 .. i : ds[j] # 48}
           T(i) == {j \in sig : j <= i}
           K == V!Kept(ds)
<1>1. n \in Nat /\ DOMAIN ds = 1 .. n /\ z \in Nat /\ z <= n /\ MAXDIG \in Nat
      /\ (\A j \in 1 .. z : ds[j] = 48) /\ (z < n => ds[z + 1] # 48)
  BY NumeralsAssumption DEF Leading
<1>2. sig = z + 1 .. n
  <2>1. ASSUME NEW i \in 1 .. n, NEW j \in 1 .. i, ds[j] # 48 PROVE i \in z + 1 .. n
    <3>1. ~(j \in 1 .. z)
      BY <1>1, <2>1
    <3> HIDE DEF n
    <3>2. QED
      BY <1>1, <2>1, <3>1
  <2>2. ASSUME NEW i \in z + 1 .. n PROVE i \in 1 .. n /\ z + 1 \in 1 .. i /\ ds[z + 1] # 48
    <3> HIDE DEF n
    <3>1. i \in 1 .. n /\ z + 1 \in 1 .. i /\ z < n
      BY <1>1
    <3>2. QED
      BY <1>1, <3>1
  <2>3. QED
    BY <1>1, <2>1, <2>2
<1> HIDE DEF sig
<1>3. ASSUME NEW i \in 1 .. n PROVE V!Cardinality(T(i)) <= MAXDIG <=> i - z <= MAXDIG
  <2>1. T(i) = z + 1 .. i
    <3> HIDE DEF n
    <3>1. QED
      BY <1>1, <1>2
  <2>2. Cardinality(z + 1 .. i) = IF z + 1 > i THEN 0 ELSE i - (z + 1) + 1
    <3>1. z + 1 \in Int /\ i \in Int
      BY <1>1
    <3>2. QED
      BY <3>1, FS_Interval
  <2> DEFINE x == Cardinality(z + 1 .. i)
  <2>3. V!Cardinality(T(i)) = x
    BY <2>1, SameCardinality
  <2> HIDE DEF x, T, n
  <2>4. x = IF z + 1 > i THEN 0 ELSE i - z
    BY <1>1, <2>2 DEF x, n
  <2>5. x <= MAXDIG <=> i - z <= MAXDIG
    BY <1>1, <2>4 DEF n
  <2>6. QED
    BY ONLY <2>3, <2>5
<1>4. K = [i \in 1 .. n |-> IF V!Cardinality(T(i)) <= MAXDIG THEN ds[i] ELSE 48]
  BY <1>1 DEF V!Kept, sig
<1> HIDE DEF K, T
<1>5. \A i \in 1 .. n : K[i] = IF i - z <= MAXDIG THEN ds[i] ELSE 48
  BY <1>3, <1>4
<1>6. \A i \in 1 .. n : ds[i] \in Codes(b) /\ 48 \in Codes(b) /\ ds[i] \in Nat
  BY CodesAre DEF AllIn
<1>7. \A i \in 1 .. n : K[i] \in Codes(b) /\ K[i] \in Nat
  BY <1>5, <1>6, SMTT(30)
<1>8. K \in Seq(Nat) /\ Len(K) = n
  <2> DEFINE f(i) == IF V!Cardinality(T(i)) <= MAXDIG THEN ds[i] ELSE 48
  <2>1. K = [i \in 1 .. n |-> f(i)]
    BY <1>4
  <2>2. \A i \in 1 .. n : f(i) \in Nat
    BY <1>4, <1>7
  <2> HIDE DEF f, n
  <2>3. n \in Nat
    BY <1>1
  <2>4. QED
    BY ONLY <2>1, <2>2, <2>3
<1>9. QED
  BY <1>5, <1>7, <1>8 DEF K, AllIn

(* The digits that count among the first q, and those of them not kept.    *)
Significant(z, q) == IF q <= z THEN 0 ELSE q - z
Dropped(c) == IF c <= MAXDIG THEN 0 ELSE c - MAXDIG

(* rn holds the first q digits, without those dropped.                     *)
Accumulated(ds, b, z, q, rn) ==
  rn \in Nat /\ rn * V!Power(b, Dropped(Significant(z, q))) = Num(b, V!Kept(ds))[q]

LEMMA Accumulation ==
  ASSUME NEW b \in {10, 16}, NEW ds \in Seq(Nat), AllIn(ds, Codes(b)), NEW z, Leading(ds, z)
  PROVE  /\ Accumulated(ds, b, z, 0, 0)
         /\ \A q \in 0 .. Len(ds) - 1 : \A rn : Accumulated(ds, b, z, q, rn) =>
              /\ ds[q + 1] = 48 /\ Significant(z, q) = 0 =>
                   Significant(z, q + 1) = 0 /\ Accumulated(ds, b, z, q + 1, rn)
              /\ ~(ds[q + 1] = 48 /\ Significant(z, q) = 0) =>
                   /\ Significant(z, q + 1) = Significant(z, q) + 1
                   /\ Accumulated(ds, b, z, q + 1,
                        IF Significant(z, q + 1) <= MAXDIG
                        THEN rn * b + hexavalue(ds[q + 1]) ELSE rn)
                   /\ Dropped(Significant(z, q + 1)) =
                        Dropped(Significant(z, q))
                          + (IF Significant(z, q + 1) <= MAXDIG THEN 0 ELSE 1)
<1> DEFINE n == Len(ds)
           K == V!Kept(ds)
           N == Num(b, K)
           P(k) == V!Power(b, k)
<1>1. n \in Nat /\ z \in Nat /\ z <= n /\ MAXDIG \in Nat \ {0} /\ b \in Nat \ {0}
      /\ (\A j \in 1 .. z : ds[j] = 48) /\ (z < n => ds[z + 1] # 48)
  BY NumeralsAssumption DEF Leading
<1>2. /\ K \in Seq(Nat) /\ Len(K) = n /\ AllIn(K, Codes(b))
      /\ \A i \in 1 .. n : K[i] = IF i - z <= MAXDIG THEN ds[i] ELSE 48
  BY KeptFacts
<1>3. /\ N[0] = 0 /\ \A k \in 0 .. n : N[k] \in Nat
      /\ \A k \in 0 .. n - 1 : N[k + 1] = N[k] * b + Value(K[k + 1])
  <2>1. Len(K) \in Nat
    BY <1>1, <1>2
  <2>2. /\ N[0] = 0
        /\ \A k \in 0 .. Len(K) : N[k] \in Nat
        /\ \A k \in 0 .. Len(K) - 1 : N[k + 1] = N[k] * b + Value(K[k + 1])
    BY <1>2, <2>1, NumFacts
  <2> HIDE DEF N, K, n
  <2>3. QED
    BY ONLY <1>2, <2>2
<1>4. P(0) = 1 /\ (\A k \in Nat : P(k) \in Nat \ {0}) /\ \A k \in Nat : P(k + 1) = P(k) * b
  BY <1>1, PowerFacts
<1>5. \A i \in 1 .. n : hexavalue(ds[i]) = Value(ds[i]) /\ Value(ds[i]) \in Nat
  <2> SUFFICES ASSUME NEW i \in 1 .. n
               PROVE  hexavalue(ds[i]) = Value(ds[i]) /\ Value(ds[i]) \in Nat
    OBVIOUS
  <2>1. ds[i] \in Codes(b)
    BY DEF AllIn
  <2>2. hexavalue(ds[i]) = Value(ds[i]) /\ Value(ds[i]) \in 0 .. b - 1
    BY <2>1, DigitFacts
  <2>3. QED
    BY <2>2
<1>6. Value(48) = 0
  <2>1. 48 \in Codes(10)
    BY CodesAre
  <2>2. QED
    BY <2>1, DigitFacts
<1>7. \A q, rn : Accumulated(ds, b, z, q, rn) <=>
        rn \in Nat /\ rn * P(Dropped(Significant(z, q))) = N[q]
  BY DEF Accumulated
<1> HIDE DEF n, K, N, P
<1>8. Accumulated(ds, b, z, 0, 0)
  <2>1. Significant(z, 0) = 0 /\ Dropped(0) = 0
    BY <1>1 DEF Significant, Dropped
  <2>2. 0 * P(0) = 0
    BY <1>4
  <2>3. QED
    BY <1>3, <1>7, <2>1, <2>2
<1>9. ASSUME NEW q \in 0 .. n - 1, NEW rn, Accumulated(ds, b, z, q, rn)
      PROVE  /\ ds[q + 1] = 48 /\ Significant(z, q) = 0 =>
                  Significant(z, q + 1) = 0 /\ Accumulated(ds, b, z, q + 1, rn)
             /\ ~(ds[q + 1] = 48 /\ Significant(z, q) = 0) =>
                  /\ Significant(z, q + 1) = Significant(z, q) + 1
                  /\ Accumulated(ds, b, z, q + 1,
                       IF Significant(z, q + 1) <= MAXDIG
                       THEN rn * b + hexavalue(ds[q + 1]) ELSE rn)
                  /\ Dropped(Significant(z, q + 1)) =
                       Dropped(Significant(z, q))
                         + (IF Significant(z, q + 1) <= MAXDIG THEN 0 ELSE 1)
  <2> DEFINE g == Significant(z, q)
             h == Significant(z, q + 1)
             c == ds[q + 1]
             y == Value(c)
  <2>1. q \in Nat /\ q + 1 \in 1 .. n /\ q + 1 \in Nat /\ q \in 0 .. n
    BY <1>1
  <2>2. rn \in Nat /\ rn * P(Dropped(g)) = N[q]
    BY <1>7, <1>9
  <2>3. N[q + 1] = N[q] * b + Value(K[q + 1])
    BY <1>3
  <2>4. K[q + 1] = IF (q + 1) - z <= MAXDIG THEN c ELSE 48
    BY <1>2, <2>1
  <2>5. hexavalue(c) = y /\ y \in Nat /\ Value(c) = y
    BY <1>5, <2>1
  <2>6. g = (IF q <= z THEN 0 ELSE q - z) /\ h = IF q + 1 <= z THEN 0 ELSE (q + 1) - z
    BY DEF Significant
  <2>7. Accumulated(ds, b, z, q + 1, rn) <=> rn * P(Dropped(h)) = N[q + 1]
    BY <1>7, <2>2
  <2>8. q < z => c = 48
    BY <1>1, <2>1
  <2>9. q = z => c # 48
    BY <1>1, <2>1
  <2> HIDE DEF c, y, g, h
  <2>10. ASSUME c = 48, g = 0 PROVE h = 0 /\ rn * P(Dropped(h)) = N[q + 1]
    <3>1. q < z
      BY <1>1, <2>1, <2>6, <2>9, <2>10
    <3>2. h = 0
      BY <1>1, <2>1, <2>6, <3>1
    <3>3. K[q + 1] = 48
      BY <2>4, <2>10
    <3>4. Dropped(0) = 0
      BY <1>1 DEF Dropped
    <3>5. rn * 1 = N[q] /\ N[q + 1] = N[q] * b + 0
      BY <1>4, <1>6, <2>2, <2>3, <2>10, <3>3, <3>4
    <3>6. N[q] = 0
      <4> DEFINE Z == {k \in Nat : k <= q => N[k] = 0}
      <4>1. 0 \in Z
        BY <1>3
      <4>2. ASSUME NEW k \in Nat, k \in Z PROVE k + 1 \in Z
        <5>1. CASE k + 1 <= q
          <6>1. N[k] = 0 /\ k \in 0 .. n - 1 /\ k + 1 \in 1 .. n /\ k + 1 \in 1 .. z
            BY <1>1, <2>1, <3>1, <4>2, <5>1
          <6>2. K[k + 1] = 48
            <7>1. K[k + 1] = IF (k + 1) - z <= MAXDIG THEN ds[k + 1] ELSE 48
              BY ONLY <1>2, <6>1
            <7>2. ds[k + 1] = 48
              BY ONLY <1>1, <6>1
            <7>3. QED
              BY ONLY <7>1, <7>2
          <6>3. N[k + 1] = 0 * b + 0
            BY <1>3, <1>6, <6>1, <6>2
          <6>4. QED
            BY <1>1, <6>3
        <5>2. QED
          BY <5>1
      <4> HIDE DEF Z
      <4>3. q \in Z
        BY <2>1, <4>1, <4>2, NatSet
      <4>4. QED
        BY <2>1, <4>3 DEF Z
    <3>7. N[q + 1] = 0 /\ rn = 0
      BY <1>1, <2>2, <3>5, <3>6
    <3>8. QED
      BY <1>4, <3>2, <3>4, <3>7
  <2>11. ASSUME ~(c = 48 /\ g = 0)
         PROVE  /\ h = g + 1 /\ h = (q + 1) - z /\ h \in Nat /\ g \in Nat
                /\ Dropped(h) = Dropped(g) + (IF h <= MAXDIG THEN 0 ELSE 1)
                /\ Dropped(g) \in Nat
                /\ h <= MAXDIG => Dropped(g) = 0
    <3>1. q >= z
      BY <1>1, <2>1, <2>6, <2>8, <2>11
    <3>2. h = g + 1 /\ h = (q + 1) - z /\ h \in Nat /\ g \in Nat
      BY <1>1, <2>1, <2>6, <3>1
    <3>3. QED
      BY <1>1, <3>2 DEF Dropped
  <2>12. ASSUME ~(c = 48 /\ g = 0), h <= MAXDIG
         PROVE  Accumulated(ds, b, z, q + 1, rn * b + y)
    <3>1. rn * b + y \in Nat
      BY <1>1, <2>2, <2>5
    <3>2. Dropped(h) = 0 /\ Dropped(g) = 0
      BY <2>11, <2>12
    <3>3. rn * 1 = N[q]
      BY <1>4, <2>2, <3>2
    <3>4. K[q + 1] = c
      BY <2>4, <2>11, <2>12
    <3>5. N[q + 1] = rn * b + y
      BY <2>2, <2>3, <2>5, <3>3, <3>4
    <3>6. (rn * b + y) * P(Dropped(h)) = N[q + 1]
      BY <1>4, <3>1, <3>2, <3>5
    <3>7. QED
      BY <1>7, <3>1, <3>6 DEF h
  <2>13. ASSUME ~(c = 48 /\ g = 0), ~(h <= MAXDIG)
         PROVE  Accumulated(ds, b, z, q + 1, rn)
    <3> DEFINE j == Dropped(g)
    <3>1. Dropped(h) = j + 1 /\ j \in Nat
      BY <2>11, <2>13
    <3>2. K[q + 1] = 48
      BY <2>4, <2>11, <2>13
    <3> HIDE DEF j
    <3>3. N[q + 1] = N[q] * b + 0 /\ N[q] \in Nat
      BY <1>3, <1>6, <2>1, <2>3, <3>2
    <3>4. P(j + 1) = P(j) * b /\ P(j) \in Nat
      BY <1>4, <3>1
    <3>5. rn * P(j) = N[q]
      BY <2>2 DEF j
    <3>6. rn * (P(j) * b) = (rn * P(j)) * b
      BY <1>1, <2>2, <3>4
    <3>7. N[q] * b + 0 = N[q] * b
      BY <1>1, <3>3
    <3>8. rn * P(Dropped(h)) = N[q + 1]
      BY ONLY <3>1, <3>3, <3>4, <3>5, <3>6, <3>7
    <3>9. QED
      BY <2>7, <3>8
  <2>14. QED
    BY <2>5, <2>7, <2>10, <2>11, <2>12, <2>13 DEF g, h, c
<1>10. QED
  BY <1>8, <1>9 DEF n

-----------------------------------------------------------------------------
(* Texts of none of the shapes that strtod treats differently.             *)

LEMMA ShapeFacts ==
  ASSUME NEW t \in Seq(Nat), V!Shapes(t) = {}, NEW p, p = PartsOf(t), NEW es, es = V!Unsigned(p.exponent)
  PROVE  /\ ~(V!IsNumeral(p) /\ {i \in DOMAIN p.whole : p.whole[i] # 48} = {}
                /\ p.fraction # <<>> /\ p.fraction[1] = 48)
         /\ ~(p.base = 16 /\ V!Minus(p.exponent))
         /\ ~(p.base = 16 /\ DigitsOf(p) = <<>>)
         /\ ~(V!IsNumeral(p) /\ p.base = 10 /\ p.whole = <<>>)
         /\ ~(V!IsNumeral(p) /\ p.base = 10 /\ p.hasexp)
         /\ ~(p.base = 16 /\ \E k \in 1 .. Len(es) : /\ \A j \in 1 .. k : V!isdigit(es[j])
                                                   /\ V!Number(10, SubSeq(es, 1, k)) > INT_MAX)
<1> DEFINE A == V!IsNumeral(p) /\ {i \in DOMAIN p.whole : p.whole[i] # 48} = {}
                  /\ p.fraction # <<>> /\ p.fraction[1] = 48
           B == p.base = 16 /\ V!Minus(p.exponent)
           C == p.base = 16 /\ DigitsOf(p) = <<>>
           D == V!IsNumeral(p) /\ p.base = 10 /\ p.whole = <<>>
           E == V!IsNumeral(p) /\ p.base = 10 /\ p.hasexp
           F == p.base = 16 /\ \E k \in 1 .. Len(es) : /\ \A j \in 1 .. k : V!isdigit(es[j])
                                                     /\ V!Number(10, SubSeq(es, 1, k)) > INT_MAX
<1>1. V!Shapes(t) = {x \in {"zeros", "negative", "nodigits", "nowhole", "decimal", "large"} :
                       CASE x = "zeros" -> A [] x = "negative" -> B [] x = "nodigits" -> C
                         [] x = "nowhole" -> D [] x = "decimal" -> E [] x = "large" -> F}
  BY DEF V!Shapes, PartsOf, DigitsOf
<1> HIDE DEF A, B, C, D, E, F
<1>2. \A x \in {"zeros", "negative", "nodigits", "nowhole", "decimal", "large"} :
        ~ CASE x = "zeros" -> A [] x = "negative" -> B [] x = "nodigits" -> C
            [] x = "nowhole" -> D [] x = "decimal" -> E [] x = "large" -> F
  BY <1>1
<1>3. ~A /\ ~B /\ ~C /\ ~D /\ ~E /\ ~F
  BY <1>2
<1>4. QED
  BY <1>3 DEF A, B, C, D, E, F

(* A text that strtod reads, as l describes it: one that is no integer.    *)
Reading(t, l) ==
  /\ t \in Seq(Nat) /\ V!Shapes(t) = {}
  /\ Layout(t, l) /\ PartsAt(t, l, PartsOf(t)) /\ Minus(t) = isneg(t, l.first)
  /\ V!Meaning(t) = IF Numeral(t, l) THEN [float |-> V!Float(PartsOf(t), Minus(t))]
                    ELSE [fails |-> TRUE]
  /\ l.base = 10 => isdigit(At(t, l.body))

LEMMA ReadingFacts ==
  ASSUME NEW t, NEW l, Reading(t, l), NEW p, p = PartsOf(t)
  PROVE  /\ Numeral(t, l) /\ (\A i \in 1 .. Len(p.whole) : p.whole[i] = 48)
              /\ Len(p.fraction) # 0 => p.fraction[1] # 48
         /\ l.base = 16 => ~V!Minus(p.exponent) /\ Len(DigitsOf(p)) # 0
         /\ Numeral(t, l) /\ l.base = 10 => l.cut = l.last + 1
         /\ Numeral(t, l) /\ l.base = 16 /\ l.cut <= l.last =>
              V!Number(10, V!Unsigned(p.exponent)) <= INT_MAX
<1> DEFINE es == V!Unsigned(p.exponent)
<1>1. t \in Seq(Nat) /\ V!Shapes(t) = {} /\ Layout(t, l) /\ PartsAt(t, l, p)
  BY DEF Reading
<1>2. /\ ~(V!IsNumeral(p) /\ {i \in DOMAIN p.whole : p.whole[i] # 48} = {}
             /\ p.fraction # <<>> /\ p.fraction[1] = 48)
      /\ ~(p.base = 16 /\ V!Minus(p.exponent))
      /\ ~(p.base = 16 /\ DigitsOf(p) = <<>>)
      /\ ~(V!IsNumeral(p) /\ p.base = 10 /\ p.hasexp)
      /\ ~(p.base = 16 /\ \E k \in 1 .. Len(es) : /\ \A j \in 1 .. k : V!isdigit(es[j])
                                                /\ V!Number(10, SubSeq(es, 1, k)) > INT_MAX)
  BY <1>1, ShapeFacts
<1> HIDE DEF es
<1>3. /\ p.base = l.base /\ (p.hasexp <=> l.cut <= l.last)
      /\ p.whole \in Seq(Nat) /\ p.fraction \in Seq(Nat) /\ DigitsOf(p) \in Seq(Nat)
  <2>1. p.whole \in Seq(Nat) /\ p.fraction \in Seq(Nat) /\ DigitsOf(p) \in Seq(Nat)
    BY <1>1, MantissaFacts
  <2>2. QED
    BY <1>1, <2>1 DEF PartsAt
<1>4. V!IsNumeral(p) <=> Numeral(t, l)
  BY <1>1, NumeralFacts
<1>5. DOMAIN p.whole = 1 .. Len(p.whole) /\ (Len(p.fraction) # 0 => p.fraction # <<>>)
      /\ (Len(DigitsOf(p)) = 0 => DigitsOf(p) = <<>>)
  BY <1>3
<1>6. Numeral(t, l) /\ (\A i \in 1 .. Len(p.whole) : p.whole[i] = 48)
         /\ Len(p.fraction) # 0 => p.fraction[1] # 48
  BY <1>2, <1>4, <1>5
<1>7. l.base = 16 => ~V!Minus(p.exponent) /\ Len(DigitsOf(p)) # 0
  BY <1>2, <1>3, <1>5
<1>8. Numeral(t, l) /\ l.base = 10 => l.cut = l.last + 1
  <2>1. l.cut \in Nat /\ l.last \in Nat /\ l.cut <= l.last + 1
    BY <1>1, LayoutTypes
  <2>2. ~(l.cut <= l.last) => l.cut = l.last + 1
    BY ONLY <2>1
  <2>3. QED
    BY <1>2, <1>3, <1>4, <2>2
<1>9. ASSUME Numeral(t, l), l.base = 16, l.cut <= l.last
      PROVE  V!Number(10, es) <= INT_MAX
  <2>1. ExponentAt(t, l) <= l.last
    BY <1>9 DEF Numeral
  <2>2. es \in Seq(Nat) /\ Len(es) = (l.last + 1) - ExponentAt(t, l)
        /\ ExponentAt(t, l) \in l.cut + 1 .. l.last + 1
    BY <1>1, <1>9, ExponentFacts DEF es, Slice
  <2>3. Len(es) \in Nat /\ Len(es) # 0
    <3>1. l.last \in Nat /\ l.cut \in Nat
      BY <1>1, LayoutTypes
    <3> DEFINE x == ExponentAt(t, l)
    <3> HIDE DEF x
    <3>2. x <= l.last /\ Len(es) = (l.last + 1) - x /\ x \in l.cut + 1 .. l.last + 1
      BY <2>1, <2>2 DEF x
    <3>3. QED
      BY <3>1, <3>2
  <2>4. AllIn(es, Codes(10))
    BY <1>1, <1>9, NumeralFacts DEF es
  <2> DEFINE k == Len(es)
  <2>5. k \in 1 .. Len(es) /\ SubSeq(es, 1, k) = es
    BY <2>2, <2>3
  <2>6. \A j \in 1 .. k : V!isdigit(es[j])
    <3>1. \A c \in Codes(10) : V!isdigit(c)
      BY CodesAre DEF V!isdigit
    <3>2. QED
      BY <2>4, <3>1 DEF AllIn
  <2>7. ~(V!Number(10, SubSeq(es, 1, k)) > INT_MAX)
    <3> HIDE DEF k
    <3>1. QED
      BY <1>2, <1>3, <1>9, <2>5, <2>6
  <2>8. V!Number(10, es) \in Nat
    <3>1. V!Number(10, es) = Num(10, es)[Len(es)]
          /\ \A i \in 0 .. Len(es) : Num(10, es)[i] \in Nat
      BY <2>3, <2>4, NumFacts
    <3>2. Len(es) \in 0 .. Len(es)
      BY <2>3
    <3>3. QED
      BY <3>1, <3>2
  <2>9. ~(V!Number(10, es) > INT_MAX)
    BY <2>5, <2>7
  <2>10. QED
    BY <2>8, <2>9, NumeralsAssumption
<1>10. QED
  BY <1>6, <1>7, <1>8, <1>9 DEF es

(* There is no n in a numeral.                                             *)
LEMMA NumeralHasNoN ==
  ASSUME NEW t \in Seq(Nat), NEW l, Layout(t, l), Numeral(t, l)
  PROVE  \A k \in 1 .. Len(t) : t[k] \notin {110, 78}
<1>1. /\ l.first \in Nat \ {0} /\ l.last \in Nat /\ l.start \in Nat /\ l.body \in Nat
      /\ l.cut \in Nat /\ l.dot \in Nat /\ Len(t) \in Nat /\ l.base \in {10, 16}
      /\ l.first <= l.last /\ l.last <= Len(t) /\ l.first <= l.start /\ l.start <= l.body
      /\ l.body <= l.dot /\ l.dot <= l.cut /\ l.cut <= l.last + 1
  BY ONLY t \in Seq(Nat), Layout(t, l), LayoutTypes
<1>2. Bounds(t, l.first, l.last)
  BY ONLY Layout(t, l) DEF Layout
<1>3. \A k \in 1 .. l.first - 1 : isspace(t[k])
  <2>1. Spaces(t) \in SUBSET (1 .. Len(t)) /\ 1 \in 1 .. Len(t) + 1
    BY ONLY <1>1, t \in Seq(Nat) DEF Spaces
  <2>2. l.first = After(Spaces(t), t, 1)
    BY ONLY <1>2 DEF Bounds, AfterSpaces
  <2>3. \A k \in 1 .. l.first - 1 : k \in Spaces(t)
    BY ONLY <2>1, <2>2, t \in Seq(Nat), AfterFacts
  <2> QED
    BY ONLY <2>3 DEF Spaces
<1>4. \A k \in l.last + 1 .. Len(t) : isspace(t[k])
  BY ONLY t \in Seq(Nat), <1>2, BehindFacts
<1>5. \A c : isspace(c) => c \notin {110, 78}
  BY DEF isspace
<1>6. \A i \in 1 .. Len(t) : At(t, i) = t[i]
  BY ONLY t \in Seq(Nat), AtFacts, <1>1
<1>7. SUFFICES ASSUME NEW k \in 1 .. Len(t) PROVE t[k] \notin {110, 78}
  OBVIOUS
<1>8. k \in Nat /\ k >= 1 /\ k <= Len(t) /\ At(t, k) = t[k]
  BY ONLY <1>1, <1>6, <1>7
<1>9. CASE k < l.first
  BY ONLY <1>1, <1>3, <1>5, <1>8, <1>9, SMTT(30)
<1>10. CASE k >= l.first /\ k < l.start
  <2>1. l.start = AfterSign(t, l.first)
    BY ONLY Layout(t, l) DEF Layout
  <2>2. AfterSign(t, l.first) = IF At(t, l.first) \in {43, 45} THEN l.first + 1 ELSE l.first
    BY ONLY <1>1, t \in Seq(Nat), SignFacts
  <2>3. At(t, l.first) \in {43, 45} /\ k = l.first
    BY ONLY <1>1, <1>8, <1>10, <2>1, <2>2
  <2> QED
    BY ONLY <1>8, <2>3
<1>11. CASE k >= l.start /\ k < l.body
  <2>1. l.body = IF HexPrefix(t, l.start) THEN l.start + 2 ELSE l.start
    BY ONLY Layout(t, l) DEF Layout
  <2>2. HexPrefix(t, l.start) <=> At(t, l.start) = 48 /\ At(t, l.start + 1) \in {120, 88}
    BY ONLY <1>1, t \in Seq(Nat), SignFacts
  <2>3. HexPrefix(t, l.start) /\ l.body = l.start + 2
    BY ONLY <1>1, <1>8, <1>11, <2>1
  <2>4. k = l.start \/ k = l.start + 1
    <3>1. \A x \in Nat : \A y \in Nat : y >= x /\ y < x + 2 => y = x \/ y = x + 1
      OBVIOUS
    <3>2. k \in Nat /\ l.start \in Nat /\ k >= l.start /\ k < l.start + 2
      BY ONLY <1>1, <1>8, <1>11, <2>3
    <3> QED
      BY ONLY <3>1, <3>2
  <2> QED
    BY ONLY <1>8, <2>2, <2>3, <2>4
<1>12. CASE k >= l.body /\ k < l.cut
  <2>1. k \in l.body .. l.cut - 1
    BY ONLY <1>1, <1>8, <1>12
  <2>2. t[k] \in Codes(l.base) \/ k = l.dot
    BY ONLY <2>1, Numeral(t, l) DEF Numeral
  <2>3. k = l.dot => t[k] = 46
    BY ONLY <1>1, <1>12, Layout(t, l) DEF Layout
  <2>4. \A c \in Codes(l.base) : c \notin {110, 78}
    <3>1. \A c \in Codes(10) : c \notin {110, 78}
      BY ONLY CodesAre
    <3>2. \A c \in Codes(16) : c \notin {110, 78}
      <4>1. \A c \in 48 .. 57 : c \notin {110, 78}
        OBVIOUS
      <4>2. \A c \in 65 .. 70 : c \notin {110, 78}
        OBVIOUS
      <4>3. \A c \in 97 .. 102 : c \notin {110, 78}
        OBVIOUS
      <4> QED
        BY ONLY <4>1, <4>2, <4>3, CodesAre, ZenonT(40)
    <3> QED
      BY ONLY <1>1, <3>1, <3>2
  <2> QED
    BY ONLY <2>2, <2>3, <2>4
<1>13. CASE k = l.cut /\ l.cut <= l.last
  <2>1. t[k] \in Letters(l.base)
    BY ONLY <1>13, Layout(t, l) DEF Layout
  <2> QED
    BY ONLY <2>1 DEF Letters
<1>14. CASE k > l.cut /\ k <= l.last
  <2>1. l.cut <= l.last /\ l.cut + 1 \in Nat
    BY ONLY <1>1, <1>8, <1>14, SMTT(30)
  <2>2. AfterSign(t, l.cut + 1) = IF At(t, l.cut + 1) \in {43, 45} THEN l.cut + 2 ELSE l.cut + 1
    BY ONLY <1>1, <2>1, t \in Seq(Nat), SignFacts
  <2>3. CASE k < ExponentAt(t, l)
    <3>1. At(t, l.cut + 1) \in {43, 45} /\ k = l.cut + 1
      <4>1. ExponentAt(t, l) = IF At(t, l.cut + 1) \in {43, 45} THEN l.cut + 2 ELSE l.cut + 1
        BY ONLY <2>2 DEF ExponentAt
      <4>2. k \in Nat /\ l.cut \in Nat /\ k > l.cut /\ k < ExponentAt(t, l)
        BY ONLY <1>1, <1>8, <1>14, <2>3
      <4>3. \A x \in Nat : \A y \in Nat : y > x => ~(y < x + 1) /\ (y < x + 2 => y = x + 1)
        OBVIOUS
      <4> QED
        BY ONLY <4>1, <4>2, <4>3
    <3> QED
      BY ONLY <1>8, <3>1
  <2>4. CASE k >= ExponentAt(t, l)
    <3>1. ExponentAt(t, l) \in Nat
      BY ONLY <1>1, <2>2 DEF ExponentAt
    <3>2. k \in ExponentAt(t, l) .. l.last
      BY ONLY <1>1, <1>8, <1>14, <2>4, <3>1
    <3>3. t[k] \in Codes(10)
      BY ONLY <2>1, <3>2, Numeral(t, l) DEF Numeral
    <3> QED
      <4>1. \A c \in Codes(10) : c \notin {110, 78}
        BY ONLY CodesAre
      <4> QED
        BY ONLY <3>3, <4>1
  <2>5. ExponentAt(t, l) \in Nat
    BY ONLY <1>1, <2>2, SMTT(30) DEF ExponentAt
  <2>6. k < ExponentAt(t, l) \/ k >= ExponentAt(t, l)
    BY ONLY <1>8, <2>5
  <2> QED
    BY ONLY <2>3, <2>4, <2>6
<1>15. CASE k > l.last
  <2>1. k \in l.last + 1 .. Len(t)
    BY ONLY <1>1, <1>8, <1>15
  <2> QED
    BY ONLY <1>4, <1>5, <2>1
<1> QED
  BY ONLY <1>1, <1>8, <1>9, <1>10, <1>11, <1>12, <1>13, <1>14, <1>15, SMTT(30)

(* What strtod and the test for n reject at the start is no numeral.       *)
LEMMA EntryFacts ==
  ASSUME NEW t \in Seq(Nat), V!Shapes(t) = {}, NEW l, Layout(t, l), PartsAt(t, l, PartsOf(t)),
         Numeral(t, l)
  PROVE  Mode(t) # Code["n"] /\ (HexPrefix(t, l.start) \/ isdigit(At(t, l.start)))
<1> DEFINE p == PartsOf(t)
           i == strpbrk_me(t, 1, Modes)
           found == {j \in 1 .. Len(t) : t[j] \in Modes /\ NUL \notin {t[k] : k \in 1 .. j}}
<1>1. Mode(t) # Code["n"]
  <2>1. \A k \in 1 .. Len(t) : t[k] \notin {110, 78}
    BY ONLY t \in Seq(Nat), Layout(t, l), Numeral(t, l), NumeralHasNoN
  <2>2. i = 0 \/ i \in 1 .. Len(t)
    <3>1. found # {} => \E m \in found : \A k \in found : m <= k
      <4>1. found \in SUBSET Nat
        BY ONLY t \in Seq(Nat)
      <4> HIDE DEF found
      <4> QED
        BY ONLY <4>1, LeastNat
    <3>2. i = IF found = {} THEN 0 ELSE CHOOSE j \in found : \A k \in found : j <= k
      BY DEF strpbrk_me
    <3>3. found \subseteq 1 .. Len(t)
      OBVIOUS
    <3> HIDE DEF found, i
    <3> QED
      BY ONLY <3>1, <3>2, <3>3
  <2>3. Mode(t) = IF i = 0 THEN NUL ELSE tolower(t[i])
    BY DEF Mode
  <2>4. i \in 1 .. Len(t) => t[i] \in Nat
    BY ONLY t \in Seq(Nat)
  <2> HIDE DEF i
  <2>5. Code["n"] = 110
    BY ONLY CodeFacts
  <2>6. \A c \in Nat : c \notin {110, 78} => tolower(c) # 110
    BY DEF tolower, isupper
  <2> QED
    BY ONLY <2>1, <2>2, <2>3, <2>4, <2>5, <2>6 DEF NUL
<1>2. ASSUME ~HexPrefix(t, l.start) PROVE isdigit(At(t, l.start))
  <2>1. /\ l.body \in Nat /\ l.cut \in Nat /\ l.dot \in Nat /\ Len(t) \in Nat
        /\ l.first \in Nat \ {0} /\ l.first <= l.start /\ l.start <= l.body
        /\ l.last <= Len(t) /\ l.last \in Nat /\ l.cut <= l.last + 1
        /\ l.body <= l.dot /\ l.dot <= l.cut /\ l.start \in Nat
    BY ONLY t \in Seq(Nat), Layout(t, l), LayoutTypes
  <2>2. l.base = 10 /\ l.body = l.start
    BY ONLY <1>2, Layout(t, l) DEF Layout
  <2>3. p.base = 10
    BY ONLY <2>2, PartsAt(t, l, PartsOf(t)) DEF PartsAt
  <2>4. V!IsNumeral(p)
    BY ONLY t \in Seq(Nat), Layout(t, l), PartsAt(t, l, PartsOf(t)), Numeral(t, l), NumeralFacts
  <2>5. p.whole # <<>>
    BY ONLY t \in Seq(Nat), V!Shapes(t) = {}, <2>3, <2>4, ShapeFacts
  <2>6. p.whole \in Seq(Nat) /\ Len(p.whole) = l.dot - l.body
    BY ONLY t \in Seq(Nat), Layout(t, l), PartsAt(t, l, PartsOf(t)), MantissaFacts
  <2> HIDE DEF p
  <2>7. Len(p.whole) # 0
    BY ONLY <2>5, <2>6
  <2>8. l.body \in l.body .. l.cut - 1 /\ l.body # l.dot
    BY ONLY <2>1, <2>6, <2>7, SMTT(30)
  <2>9. t[l.body] \in Codes(10)
    <3>1. \A k \in l.body .. l.cut - 1 : t[k] \in Codes(l.base) \/ k = l.dot
      BY ONLY Numeral(t, l) DEF Numeral
    <3>2. t[l.body] \in Codes(l.base)
      BY ONLY <2>8, <3>1
    <3> QED
      BY ONLY <2>2, <3>2
  <2>10. At(t, l.body) = t[l.body]
    <3>1. l.body \in 1 .. Len(t)
      BY ONLY <2>1, <2>8
    <3> QED
      BY ONLY <3>1, <2>1, t \in Seq(Nat), AtFacts
  <2> QED
    BY ONLY <2>2, <2>9, <2>10, CodesAre DEF isdigit
<1> QED
  BY <1>1, <1>2

-----------------------------------------------------------------------------
(* The loop of strtod over digits.                                         *)

(* It has read the places from l.body up to place at, with a dot or not.   *)
ReadUpTo(t, l, at, dotted) ==
  /\ at \in l.body .. l.cut
  /\ dotted \in BOOLEAN
  /\ \A k \in l.body .. at - 1 : t[k] \in Codes(l.base) \/ t[k] = 46
  /\ dotted <=> \E k \in l.body .. at - 1 : t[k] = 46
  /\ \A j, k \in l.body .. at - 1 : t[j] = 46 /\ t[k] = 46 => j = k

(* At the cut there is neither a digit nor a dot.                          *)
LEMMA CutFacts ==
  ASSUME NEW t \in Seq(Nat), NEW l, Layout(t, l)
  PROVE  /\ At(t, l.cut) \notin Codes(l.base) /\ At(t, l.cut) # 46
         /\ l.cut > l.last => At(t, l.cut) \notin {112, 80}
         /\ l.base = 16 /\ l.cut <= l.last => At(t, l.cut) \in {112, 80}
         /\ \A k \in l.body .. l.cut - 1 : At(t, k) = t[k] /\ t[k] \in Nat
         /\ \A k \in l.body .. l.cut - 1 : l.base = 16 => t[k] \notin {112, 80}
<1>1. /\ l.first \in Nat \ {0} /\ l.last \in Nat /\ l.start \in Nat /\ l.body \in Nat
      /\ l.cut \in Nat /\ Len(t) \in Nat /\ l.base \in {10, 16}
      /\ l.first <= l.last /\ l.last <= Len(t) /\ l.first <= l.start /\ l.start <= l.body
      /\ l.body <= l.cut /\ l.cut <= l.last + 1
  <2>1. l.body <= l.dot /\ l.dot <= l.cut /\ l.dot \in Nat
    BY ONLY t \in Seq(Nat), Layout(t, l), LayoutTypes
  <2>2. /\ l.first \in Nat \ {0} /\ l.last \in Nat /\ l.start \in Nat /\ l.body \in Nat
        /\ l.cut \in Nat /\ Len(t) \in Nat /\ l.base \in {10, 16}
        /\ l.first <= l.last /\ l.last <= Len(t) /\ l.first <= l.start /\ l.start <= l.body
        /\ l.cut <= l.last + 1
    BY ONLY t \in Seq(Nat), Layout(t, l), LayoutTypes
  <2> QED
    BY ONLY <2>1, <2>2
<1>2. Bounds(t, l.first, l.last)
  BY ONLY Layout(t, l) DEF Layout
<1>3. l.cut <= l.last => At(t, l.cut) \in Letters(l.base)
  <2>1. l.cut <= l.last => l.cut \in 1 .. Len(t)
    BY ONLY <1>1
  <2>2. l.cut <= l.last => At(t, l.cut) = t[l.cut]
    BY ONLY <1>1, <2>1, t \in Seq(Nat), AtFacts
  <2>3. l.cut <= l.last => t[l.cut] \in Letters(l.base)
    BY ONLY Layout(t, l) DEF Layout
  <2> QED
    BY ONLY <2>2, <2>3
<1>4. l.cut > l.last => At(t, l.cut) \in {0, 32} \cup 9 .. 13
  BY ONLY t \in Seq(Nat), <1>1, <1>2, BehindFacts
<1>5. l.cut <= l.last \/ l.cut > l.last
  BY ONLY <1>1
<1>6. Letters(16) = {112, 80} /\ Letters(10) = {101, 69}
  BY DEF Letters
<1>7. /\ \A c \in {0, 32} \cup 9 .. 13 : c \notin 48 .. 57 /\ c \notin 65 .. 70 /\ c \notin 97 .. 102
      /\ \A c \in {0, 32} \cup 9 .. 13 : c # 46 /\ c \notin {112, 80}
  OBVIOUS
<1>8. /\ \A c \in {112, 80} : c \notin 48 .. 57 /\ c \notin 65 .. 70 /\ c \notin 97 .. 102 /\ c # 46
      /\ \A c \in {101, 69} : c \notin 48 .. 57 /\ c # 46
  OBVIOUS
<1>9. At(t, l.cut) \notin Codes(l.base) /\ At(t, l.cut) # 46
  <2>1. CASE l.base = 16
    <3>1. At(t, l.cut) \in {112, 80} \/ At(t, l.cut) \in {0, 32} \cup 9 .. 13
      BY ONLY <1>3, <1>4, <1>5, <1>6, <2>1
    <3>2. At(t, l.cut) \notin 48 .. 57 /\ At(t, l.cut) \notin 65 .. 70
            /\ At(t, l.cut) \notin 97 .. 102 /\ At(t, l.cut) # 46
      <4> DEFINE c == At(t, l.cut)
      <4>1. c \in {112, 80} \/ c \in {0, 32} \cup 9 .. 13
        BY ONLY <3>1
      <4> HIDE DEF c
      <4>2. c \in {0, 32} \cup 9 .. 13 =>
              c \notin 48 .. 57 /\ c \notin 65 .. 70 /\ c \notin 97 .. 102 /\ c # 46
        OBVIOUS
      <4>3. c \in {112, 80} =>
              c \notin 48 .. 57 /\ c \notin 65 .. 70 /\ c \notin 97 .. 102 /\ c # 46
        OBVIOUS
      <4>4. c \notin 48 .. 57 /\ c \notin 65 .. 70 /\ c \notin 97 .. 102 /\ c # 46
        BY ONLY <4>1, <4>2, <4>3
      <4> QED
        BY ONLY <4>4 DEF c
    <3> QED
      BY ONLY <2>1, <3>2, CodesAre
  <2>2. CASE l.base = 10
    <3>1. At(t, l.cut) \in {101, 69} \/ At(t, l.cut) \in {0, 32} \cup 9 .. 13
      BY ONLY <1>3, <1>4, <1>5, <1>6, <2>2
    <3>2. At(t, l.cut) \notin 48 .. 57 /\ At(t, l.cut) # 46
      BY ONLY <1>7, <1>8, <3>1, SMTT(30)
    <3> QED
      BY ONLY <2>2, <3>2, CodesAre
  <2> QED
    BY ONLY <1>1, <2>1, <2>2
<1>10. l.cut > l.last => At(t, l.cut) \notin {112, 80}
  BY ONLY <1>4, <1>7
<1>11. l.base = 16 /\ l.cut <= l.last => At(t, l.cut) \in {112, 80}
  BY ONLY <1>3, <1>6
<1>12. ASSUME NEW k \in l.body .. l.cut - 1 PROVE At(t, k) = t[k] /\ t[k] \in Nat
  <2>1. k \in 1 .. Len(t)
    BY ONLY <1>1, k \in l.body .. l.cut - 1
  <2>2. k \in Nat /\ t[k] \in Nat
    BY ONLY <2>1, t \in Seq(Nat)
  <2> QED
    BY ONLY <2>1, <2>2, t \in Seq(Nat), AtFacts
<1>13. ASSUME NEW k \in l.body .. l.cut - 1, l.base = 16 PROVE t[k] \notin {112, 80}
  <2>1. t[k] \notin Letters(l.base)
    BY ONLY k \in l.body .. l.cut - 1, Layout(t, l) DEF Layout
  <2> QED
    BY ONLY <2>1, <1>13, <1>6
<1> QED
  BY ONLY <1>9, <1>10, <1>11, <1>12, <1>13

(* It reads on only before the cut, and in a numeral it stops at the cut.  *)
LEMMA ReadFacts ==
  ASSUME NEW t \in Seq(Nat), NEW l, Layout(t, l), NEW at, NEW dotted, ReadUpTo(t, l, at, dotted)
  PROVE  /\ At(t, at) \in Codes(l.base) =>
              at < l.cut /\ t[at] = At(t, at) /\ ReadUpTo(t, l, at + 1, dotted)
         /\ At(t, at) = 46 /\ dotted = FALSE => 
              at < l.cut /\ t[at] = At(t, at) /\ ReadUpTo(t, l, at + 1, TRUE)
         /\ Numeral(t, l) => (dotted = TRUE <=> l.dot < at)
         /\ Numeral(t, l) /\ At(t, at) \notin Codes(l.base) /\ ~(At(t, at) = 46 /\ dotted = FALSE) =>
              at = l.cut
<1>1. /\ l.body \in Nat /\ l.cut \in Nat /\ l.dot \in Nat /\ l.base \in {10, 16}
      /\ l.body <= l.dot /\ l.dot <= l.cut
  BY ONLY t \in Seq(Nat), Layout(t, l), LayoutTypes
<1>2. /\ At(t, l.cut) \notin Codes(l.base) /\ At(t, l.cut) # 46
      /\ \A k \in l.body .. l.cut - 1 : At(t, k) = t[k]
  BY ONLY t \in Seq(Nat), Layout(t, l), CutFacts
<1>3. /\ at \in l.body .. l.cut
      /\ dotted \in BOOLEAN
      /\ \A k \in l.body .. at - 1 : t[k] \in Codes(l.base) \/ t[k] = 46
      /\ dotted <=> \E k \in l.body .. at - 1 : t[k] = 46
      /\ \A j, k \in l.body .. at - 1 : t[j] = 46 /\ t[k] = 46 => j = k
  BY ONLY ReadUpTo(t, l, at, dotted) DEF ReadUpTo
<1>4. at \in Nat /\ l.body <= at /\ at <= l.cut
  BY ONLY <1>1, <1>3
<1>5. 46 \notin Codes(l.base)
  <2>1. 46 \notin 48 .. 57 /\ 46 \notin 65 .. 70 /\ 46 \notin 97 .. 102
    OBVIOUS
  <2> QED
    BY ONLY <1>1, <2>1, CodesAre, ZenonT(40)
<1>6. \A k \in l.body .. at : k \in l.body .. at - 1 \/ k = at
  BY ONLY <1>1, <1>4
<1>7. l.body .. at - 1 \subseteq l.body .. at /\ at \in l.body .. at /\ (at + 1) - 1 = at
  BY ONLY <1>1, <1>4
<1>8. at # l.cut => at < l.cut /\ at + 1 \in l.body .. l.cut /\ t[at] = At(t, at)
  BY ONLY <1>1, <1>2, <1>4
<1>9. ASSUME At(t, at) \in Codes(l.base)
      PROVE  at < l.cut /\ t[at] = At(t, at) /\ ReadUpTo(t, l, at + 1, dotted)
  <2>1. at < l.cut /\ at + 1 \in l.body .. l.cut /\ t[at] = At(t, at)
    BY ONLY <1>2, <1>8, <1>9
  <2>2. \A k \in l.body .. at : t[k] \in Codes(l.base) \/ t[k] = 46
    BY ONLY <1>3, <1>6, <1>9, <2>1
  <2>3. t[at] # 46
    BY ONLY <1>5, <1>9, <2>1
  <2>4. dotted <=> \E k \in l.body .. at : t[k] = 46
    BY ONLY <1>3, <1>6, <1>7, <2>3
  <2>5. \A j, k \in l.body .. at : t[j] = 46 /\ t[k] = 46 => j = k
    BY ONLY <1>3, <1>6, <2>3
  <2> QED
    BY ONLY <1>3, <1>7, <2>1, <2>2, <2>4, <2>5 DEF ReadUpTo
<1>10. ASSUME At(t, at) = 46, dotted = FALSE
       PROVE  at < l.cut /\ t[at] = At(t, at) /\ ReadUpTo(t, l, at + 1, TRUE)
  <2>1. at < l.cut /\ at + 1 \in l.body .. l.cut /\ t[at] = At(t, at)
    BY ONLY <1>2, <1>8, <1>10
  <2>2. \A k \in l.body .. at : t[k] \in Codes(l.base) \/ t[k] = 46
    BY ONLY <1>3, <1>6, <1>10, <2>1
  <2>3. \A k \in l.body .. at - 1 : t[k] # 46
    BY ONLY <1>3, <1>10
  <2>4. \E k \in l.body .. at : t[k] = 46
    BY ONLY <1>7, <1>10, <2>1
  <2>5. \A j, k \in l.body .. at : t[j] = 46 /\ t[k] = 46 => j = k
    BY ONLY <1>6, <2>3
  <2> QED
    BY ONLY <1>7, <2>1, <2>2, <2>4, <2>5 DEF ReadUpTo
<1>11. ASSUME Numeral(t, l) PROVE dotted = TRUE <=> l.dot < at
  <2>1. OneDot(t, l)
    BY ONLY <1>11 DEF Numeral
  <2>2. l.body .. at - 1 \subseteq l.body .. l.cut - 1
    BY ONLY <1>1, <1>4
  <2>3. \A k \in l.body .. at - 1 : t[k] = 46 => k = l.dot
    BY ONLY <2>1, <2>2 DEF OneDot
  <2>4. dotted => l.dot \in l.body .. at - 1
    BY ONLY <1>3, <2>3
  <2>5. l.dot < at => l.dot \in l.body .. at - 1 /\ l.dot # l.cut
    BY ONLY <1>1, <1>4
  <2>6. l.dot # l.cut => t[l.dot] = 46
    BY ONLY Layout(t, l) DEF Layout
  <2>7. l.dot \in l.body .. at - 1 => l.dot < at
    BY ONLY <1>1, <1>4
  <2> QED
    BY ONLY <1>3, <2>4, <2>5, <2>6, <2>7
<1>12. ASSUME Numeral(t, l), At(t, at) \notin Codes(l.base), ~(At(t, at) = 46 /\ dotted = FALSE)
       PROVE  at = l.cut
  <2>1. SUFFICES ASSUME at # l.cut PROVE FALSE
    OBVIOUS
  <2>2. at \in l.body .. l.cut - 1 /\ t[at] = At(t, at) /\ at < l.cut
    BY ONLY <1>1, <1>2, <1>4, <2>1
  <2>3. at = l.dot
    BY ONLY <1>12, <2>2 DEF Numeral
  <2>4. t[at] = 46
    BY ONLY <2>1, <2>3, Layout(t, l) DEF Layout
  <2>5. ~(l.dot < at)
    BY ONLY <1>1, <2>3
  <2> QED
    BY ONLY <1>11, <1>12, <2>2, <2>4, <2>5
<1> QED
  BY ONLY <1>9, <1>10, <1>11, <1>12

(* What was read up to the end is a numeral.                               *)
LEMMA StopFacts ==
  ASSUME NEW t, NEW l, Reading(t, l), NEW dotted, ReadUpTo(t, l, l.cut, dotted),
         l.cut <= l.last =>
           ExponentAt(t, l) <= l.last /\ \A k \in ExponentAt(t, l) .. l.last : t[k] \in Codes(10)
  PROVE  Numeral(t, l)
<1>1. t \in Seq(Nat) /\ Layout(t, l) /\ PartsAt(t, l, PartsOf(t)) /\ (l.base = 10 => isdigit(At(t, l.body)))
  BY ONLY Reading(t, l) DEF Reading
<1>2. /\ l.body \in Nat /\ l.cut \in Nat /\ l.dot \in Nat /\ l.base \in {10, 16}
      /\ l.body <= l.dot /\ l.dot <= l.cut
  BY ONLY <1>1, LayoutTypes
<1>3. /\ l.dot # l.cut => t[l.dot] = 46
      /\ l.dot = l.cut => \A k \in l.body .. l.cut - 1 : t[k] # 46
  BY ONLY <1>1 DEF Layout
<1>4. /\ \A k \in l.body .. l.cut - 1 : t[k] \in Codes(l.base) \/ t[k] = 46
      /\ \A j, k \in l.body .. l.cut - 1 : t[j] = 46 /\ t[k] = 46 => j = k
  BY ONLY ReadUpTo(t, l, l.cut, dotted) DEF ReadUpTo
<1>5. l.dot # l.cut => l.dot \in l.body .. l.cut - 1
  BY ONLY <1>2
<1>6. \A k \in l.body .. l.cut - 1 : t[k] = 46 => k = l.dot
  BY ONLY <1>3, <1>4, <1>5
<1>7. OneDot(t, l)
  BY ONLY <1>6 DEF OneDot
<1>8. \E k \in l.body .. l.cut - 1 : k # l.dot
  <2>1. CASE l.base = 10
    <3>1. isdigit(At(t, l.body))
      BY ONLY <1>1, <2>1
    <3>2. At(t, l.cut) \notin Codes(10) /\ \A k \in l.body .. l.cut - 1 : At(t, k) = t[k]
      BY ONLY <1>1, <2>1, CutFacts
    <3>3. At(t, l.body) \in Codes(10)
      BY ONLY <3>1, CodesAre DEF isdigit
    <3>4. l.body # l.cut
      BY ONLY <3>2, <3>3
    <3>5. l.body \in l.body .. l.cut - 1
      BY ONLY <1>2, <3>4
    <3>6. t[l.body] \in 48 .. 57
      BY ONLY <3>2, <3>3, <3>5, CodesAre
    <3>7. t[l.body] # 46
      BY ONLY <3>6
    <3>8. l.body # l.dot
      BY ONLY <1>3, <3>4, <3>7
    <3> QED
      BY ONLY <3>5, <3>8
  <2>2. CASE l.base = 16
    <3>1. Len(DigitsOf(PartsOf(t))) # 0
      BY ONLY Reading(t, l), <2>2, ReadingFacts
    <3>2. /\ Count(l) \in Nat /\ Len(DigitsOf(PartsOf(t))) = Count(l)
          /\ \A k \in 1 .. Count(l) : Place(l, k) \in l.body .. l.cut - 1 /\ Place(l, k) # l.dot
      BY ONLY <1>1, MantissaFacts, SMTT(30)
    <3>3. 1 \in 1 .. Count(l)
      BY ONLY <3>1, <3>2
    <3> QED
      BY ONLY <3>2, <3>3
  <2> QED
    BY ONLY <1>2, <2>1, <2>2
<1>9. \A k \in l.body .. l.cut - 1 : t[k] \in Codes(l.base) \/ k = l.dot
  BY ONLY <1>4, <1>6
<1> QED
  BY <1>7, <1>8, <1>9 DEF Numeral

(* The number of digits before place at.                                   *)
DigitsBefore(l, at) == (at - l.body) - (IF l.dot < at THEN 1 ELSE 0)

LEMMA DigitsBeforeFacts ==
  ASSUME NEW t \in Seq(Nat), NEW l, Layout(t, l)
  PROVE  /\ DigitsBefore(l, l.body) = 0
         /\ DigitsBefore(l, l.cut) = Count(l)
         /\ \A at \in l.body .. l.cut - 1 : at # l.dot =>
              /\ DigitsBefore(l, at) \in 0 .. Count(l) - 1
              /\ Place(l, DigitsBefore(l, at) + 1) = at
              /\ DigitsBefore(l, at + 1) = DigitsBefore(l, at) + 1
              /\ l.dot < at => DigitsBefore(l, at) >= l.dot - l.body
         /\ l.dot < l.cut => /\ DigitsBefore(l, l.dot) = l.dot - l.body
                             /\ DigitsBefore(l, l.dot + 1) = l.dot - l.body
<1>1. /\ l.body \in Nat /\ l.cut \in Nat /\ l.dot \in Nat
      /\ l.body <= l.dot /\ l.dot <= l.cut
      /\ Fraction(l) \in Nat
      /\ l.dot # l.cut => Fraction(l) = l.cut - l.dot - 1
      /\ l.dot = l.cut => Fraction(l) = 0
  BY ONLY t \in Seq(Nat), Layout(t, l), LayoutTypes
<1> DEFINE a == l.body
           b == l.dot
           c == l.cut
           f == Fraction(l)
<1>2. a \in Nat /\ b \in Nat /\ c \in Nat /\ f \in Nat /\ a <= b /\ b <= c
  BY ONLY <1>1
<1>3. (b # c => f = c - b - 1) /\ (b = c => f = 0)
  BY ONLY <1>1
<1>4. \A at : DigitsBefore(l, at) = (at - a) - (IF b < at THEN 1 ELSE 0)
  BY DEF DigitsBefore
<1>5. Count(l) = (b - a) + f
  BY DEF Count
<1>6. \A k : Place(l, k) = IF k <= b - a THEN a + k - 1 ELSE a + k
  BY DEF Place
<1>7. SUFFICES
        /\ DigitsBefore(l, a) = 0
        /\ DigitsBefore(l, c) = Count(l)
        /\ \A at \in a .. c - 1 : at # b =>
              /\ DigitsBefore(l, at) \in 0 .. Count(l) - 1
              /\ Place(l, DigitsBefore(l, at) + 1) = at
              /\ DigitsBefore(l, at + 1) = DigitsBefore(l, at) + 1
              /\ b < at => DigitsBefore(l, at) >= b - a
        /\ b < c => DigitsBefore(l, b) = b - a /\ DigitsBefore(l, b + 1) = b - a
  BY DEF a, b, c
<1> HIDE DEF a, b, c, f
<1>8. DigitsBefore(l, a) = 0
  <2>1. ~(b < a) /\ a - a = 0
    BY ONLY <1>2
  <2> QED
    BY ONLY <1>2, <1>4, <2>1
<1>9. DigitsBefore(l, c) = Count(l)
  <2>1. CASE b = c
    BY ONLY <1>2, <1>3, <1>4, <1>5, <2>1
  <2>2. CASE b # c
    <3>1. b < c
      BY ONLY <1>2, <2>2
    <3> QED
      BY ONLY <1>2, <1>3, <1>4, <1>5, <2>2, <3>1
  <2> QED
    BY ONLY <2>1, <2>2
<1>10. ASSUME NEW at \in a .. c - 1, at # b
       PROVE  /\ DigitsBefore(l, at) \in 0 .. Count(l) - 1
              /\ Place(l, DigitsBefore(l, at) + 1) = at
              /\ DigitsBefore(l, at + 1) = DigitsBefore(l, at) + 1
              /\ b < at => DigitsBefore(l, at) >= b - a
  <2>1. at \in Nat /\ a <= at /\ at < c
    BY ONLY <1>2, at \in a .. c - 1
  <2>2. CASE b < at
    <3>1. DigitsBefore(l, at) = (at - a) - 1 /\ DigitsBefore(l, at + 1) = (at + 1 - a) - 1
      BY ONLY <1>2, <1>4, <2>1, <2>2
    <3>2. f = c - b - 1
      BY ONLY <1>2, <1>3, <2>1, <2>2
    <3>3. DigitsBefore(l, at) \in 0 .. Count(l) - 1 /\ DigitsBefore(l, at) >= b - a
      BY ONLY <1>2, <1>5, <2>1, <2>2, <3>1, <3>2
    <3>4. Place(l, DigitsBefore(l, at) + 1) = at
      <4>1. DigitsBefore(l, at) + 1 = at - a /\ ~(at - a <= b - a) /\ a + (at - a) = at
        BY ONLY <1>2, <2>1, <2>2, <3>1
      <4> QED
        BY ONLY <1>6, <4>1
    <3> QED
      BY ONLY <1>2, <2>1, <3>1, <3>3, <3>4
  <2>3. CASE at < b
    <3>1. DigitsBefore(l, at) = at - a /\ DigitsBefore(l, at + 1) = at + 1 - a
      BY ONLY <1>2, <1>4, <2>1, <2>3
    <3>2. DigitsBefore(l, at) \in 0 .. Count(l) - 1
      BY ONLY <1>2, <1>5, <2>1, <2>3, <3>1
    <3>3. Place(l, DigitsBefore(l, at) + 1) = at
      <4>1. DigitsBefore(l, at) + 1 = at - a + 1 /\ at - a + 1 <= b - a
              /\ a + (at - a + 1) - 1 = at
        BY ONLY <1>2, <2>1, <2>3, <3>1
      <4> QED
        BY ONLY <1>6, <4>1
    <3> QED
      BY ONLY <1>2, <2>1, <2>3, <3>1, <3>2, <3>3
  <2> QED
    BY ONLY <1>2, <1>10, <2>1, <2>2, <2>3
<1>11. ASSUME b < c PROVE DigitsBefore(l, b) = b - a /\ DigitsBefore(l, b + 1) = b - a
  BY ONLY <1>2, <1>4
<1> QED
  BY ONLY <1>8, <1>9, <1>10, <1>11

(* What the loop has computed, if the text is a numeral.                   *)
DigitsRead(t, l, at, c, ee, rn) ==
  LET ds == DigitsOf(PartsOf(t))
      q == DigitsBefore(l, at) IN
  \E z : /\ Leading(ds, z)
         /\ c = Significant(z, q)
         /\ Accumulated(ds, l.base, z, q, rn)
         /\ ee = Dropped(c) - (IF l.dot < at THEN q - (l.dot - l.body) ELSE 0)

LEMMA DigitsStart ==
  ASSUME NEW t, NEW l, Reading(t, l), Numeral(t, l)
  PROVE  DigitsRead(t, l, l.body, 0, 0, 0)
<1> DEFINE ds == DigitsOf(PartsOf(t))
<1>1. t \in Seq(Nat) /\ Layout(t, l) /\ PartsAt(t, l, PartsOf(t))
  BY ONLY Reading(t, l) DEF Reading
<1>2. ds \in Seq(Nat)
  BY ONLY <1>1, MantissaFacts
<1>3. AllIn(ds, Codes(l.base))
  BY ONLY <1>1, Numeral(t, l), NumeralFacts
<1>4. l.base \in {10, 16} /\ l.body \in Nat /\ l.dot \in Nat /\ l.body <= l.dot
  BY ONLY <1>1, LayoutTypes
<1>5. DigitsBefore(l, l.body) = 0
  BY ONLY <1>1, DigitsBeforeFacts
<1> HIDE DEF ds
<1>6. PICK z : Leading(ds, z)
  BY ONLY <1>2, LeadingExists
<1>7. Accumulated(ds, l.base, z, 0, 0)
  BY ONLY <1>2, <1>3, <1>4, <1>6, Accumulation
<1>8. z \in Nat
  BY ONLY <1>2, <1>6 DEF Leading
<1>9. Significant(z, 0) = 0 /\ Dropped(0) = 0
  BY ONLY <1>8, NumeralsAssumption DEF Significant, Dropped
<1>10. ~(l.dot < l.body)
  BY ONLY <1>4
<1> QED
  BY ONLY <1>5, <1>6, <1>7, <1>9, <1>10 DEF DigitsRead, ds

LEMMA DigitsStep ==
  ASSUME NEW t, NEW l, Reading(t, l), Numeral(t, l), NEW at \in l.body .. l.cut - 1,
         NEW c, NEW ee, NEW rn, DigitsRead(t, l, at, c, ee, rn)
  PROVE  /\ t[at] = 46 => DigitsRead(t, l, at + 1, c, ee, rn)
         /\ t[at] # 46 /\ t[at] = 48 /\ c = 0 => DigitsRead(t, l, at + 1, c, ee, rn)
         /\ t[at] # 46 /\ ~(t[at] = 48 /\ c = 0) =>
              DigitsRead(t, l, at + 1, c + 1,
                ee + ((IF c + 1 <= MAXDIG THEN 0 ELSE 1) - (IF l.dot < at THEN 1 ELSE 0)),
                IF c + 1 <= MAXDIG THEN rn * l.base + hexavalue(t[at]) ELSE rn)
<1> DEFINE p == PartsOf(t)
           ds == DigitsOf(p)
           q == DigitsBefore(l, at)
           W == l.dot - l.body
<1>1. t \in Seq(Nat) /\ Layout(t, l) /\ PartsAt(t, l, p)
  BY ONLY Reading(t, l) DEF Reading
<1>2. /\ l.body \in Nat /\ l.cut \in Nat /\ l.dot \in Nat /\ l.base \in {10, 16}
      /\ l.body <= l.dot /\ l.dot <= l.cut
  BY ONLY <1>1, LayoutTypes
<1>3. /\ ds \in Seq(Nat) /\ Len(ds) = Count(l) /\ Count(l) \in Nat
      /\ \A k \in 1 .. Count(l) : ds[k] = t[Place(l, k)]
      /\ p.whole \in Seq(Nat) /\ p.fraction \in Seq(Nat)
      /\ Len(p.whole) = l.dot - l.body /\ Len(p.fraction) = Fraction(l)
      /\ \A k \in 1 .. Len(p.whole) : ds[k] = p.whole[k]
      /\ \A k \in 1 .. Len(p.fraction) : ds[Len(p.whole) + k] = p.fraction[k]
  BY ONLY <1>1, MantissaFacts
<1>4. AllIn(ds, Codes(l.base))
  BY ONLY <1>1, Numeral(t, l), NumeralFacts
<1>5. PICK z : /\ Leading(ds, z)
               /\ c = Significant(z, q)
               /\ Accumulated(ds, l.base, z, q, rn)
               /\ ee = Dropped(c) - (IF l.dot < at THEN q - W ELSE 0)
  BY ONLY DigitsRead(t, l, at, c, ee, rn) DEF DigitsRead
<1>6. at \in Nat /\ l.body <= at /\ at < l.cut
  BY ONLY <1>2, at \in l.body .. l.cut - 1
<1>7. W \in Nat /\ Len(p.whole) = W
  BY ONLY <1>2, <1>3
<1>8. z \in Nat /\ z <= Len(ds) /\ \A j \in 1 .. z : ds[j] = 48
  BY ONLY <1>3, <1>5 DEF Leading
<1>9. ASSUME t[at] = 46 PROVE DigitsRead(t, l, at + 1, c, ee, rn)
  <2>1. at = l.dot
    BY ONLY <1>9, Numeral(t, l) DEF Numeral, OneDot
  <2>2. DigitsBefore(l, at + 1) = W /\ q = W
    BY ONLY <1>1, <1>6, <2>1, DigitsBeforeFacts
  <2>3. ee = Dropped(c) - 0
    <3>1. ~(l.dot < at)
      BY ONLY <1>2, <2>1
    <3> QED
      BY ONLY <1>5, <3>1
  <2>4. ee = Dropped(c) - (IF l.dot < at + 1 THEN DigitsBefore(l, at + 1) - W ELSE 0)
    BY ONLY <1>7, <2>2, <2>3
  <2> HIDE DEF ds, W
  <2>5. c = Significant(z, DigitsBefore(l, at + 1)) /\ Accumulated(ds, l.base, z, DigitsBefore(l, at + 1), rn)
    BY ONLY <1>5, <2>2
  <2> QED
    BY ONLY <1>5, <2>4, <2>5 DEF DigitsRead, ds, p, W
<1>10. ASSUME t[at] # 46
       PROVE  /\ at # l.dot
              /\ q \in 0 .. Count(l) - 1
              /\ ds[q + 1] = t[at]
              /\ DigitsBefore(l, at + 1) = q + 1
              /\ l.dot < at => q >= W
              /\ l.dot < at + 1 <=> l.dot < at
  <2>1. at # l.dot
    BY ONLY <1>2, <1>6, <1>10, <1>1 DEF Layout
  <2>2. /\ q \in 0 .. Count(l) - 1
        /\ Place(l, q + 1) = at
        /\ DigitsBefore(l, at + 1) = q + 1
        /\ l.dot < at => q >= W
    BY ONLY <1>1, <2>1, at \in l.body .. l.cut - 1, DigitsBeforeFacts
  <2>3. q + 1 \in 1 .. Count(l)
    <3> HIDE DEF q
    <3> QED
      BY ONLY <1>3, <2>2
  <2>4. ds[q + 1] = t[at]
    <3> HIDE DEF q
    <3> QED
      BY ONLY <1>3, <2>2, <2>3
  <2>5. l.dot < at + 1 <=> l.dot < at
    BY ONLY <1>2, <1>6, <2>1
  <2> QED
    BY ONLY <2>1, <2>2, <2>4, <2>5
<1>11. ASSUME t[at] # 46, t[at] = 48, c = 0 PROVE DigitsRead(t, l, at + 1, c, ee, rn)
  <2>1. /\ q \in 0 .. Count(l) - 1 /\ ds[q + 1] = 48 /\ DigitsBefore(l, at + 1) = q + 1
        /\ l.dot < at => q >= W
        /\ l.dot < at + 1 <=> l.dot < at
    BY ONLY <1>10, <1>11
  <2>2. Significant(z, q) = 0
    BY ONLY <1>5, <1>11
  <2> HIDE DEF q, ds, W
  <2>3. q \in 0 .. Len(ds) - 1 /\ q \in Nat
    BY ONLY <1>3, <2>1
  <2>4. Significant(z, q + 1) = 0 /\ Accumulated(ds, l.base, z, q + 1, rn)
    BY ONLY <1>2, <1>3, <1>4, <1>5, <2>1, <2>2, <2>3, Accumulation
  <2>5. ~(l.dot < at)
    <3>1. SUFFICES ASSUME l.dot < at PROVE FALSE
      OBVIOUS
    <3>2. q >= W
      BY ONLY <2>1, <3>1
    <3>3. q <= z
      <4>1. ~(q > z)
        BY ONLY <1>8, <2>2, <2>3 DEF Significant
      <4> QED
        BY ONLY <1>8, <2>3, <4>1
    <3>4. \A j \in 1 .. q + 1 : ds[j] = 48
      <4>1. \A j \in 1 .. q + 1 : j \in 1 .. z \/ j = q + 1
        BY ONLY <1>8, <2>3, <3>3
      <4> QED
        BY ONLY <1>8, <2>1, <4>1
    <3>5. \A i \in 1 .. Len(p.whole) : p.whole[i] = 48
      <4>1. \A i \in 1 .. Len(p.whole) : i \in 1 .. q + 1
        BY ONLY <1>7, <2>3, <3>2
      <4> QED
        BY ONLY <1>3, <3>4, <4>1
    <3>6. Len(p.fraction) \in Nat /\ Len(p.fraction) # 0
      <4>1. Count(l) = W + Fraction(l)
        BY DEF Count, W
      <4>2. Fraction(l) \in Nat
        BY ONLY <1>1, LayoutTypes
      <4> QED
        BY ONLY <1>3, <1>7, <2>1, <2>3, <3>2, <4>1, <4>2
    <3>7. p.fraction[1] = 48
      <4>1. W + 1 \in 1 .. q + 1 /\ 1 \in 1 .. Len(p.fraction)
        BY ONLY <1>7, <2>3, <3>2, <3>6
      <4>2. ds[W + 1] = p.fraction[1]
        BY ONLY <1>3, <1>7, <4>1
      <4> QED
        BY ONLY <3>4, <4>1, <4>2
    <3>8. p.fraction[1] # 48
      BY ONLY Reading(t, l), Numeral(t, l), <3>5, <3>6, ReadingFacts
    <3> QED
      BY ONLY <3>7, <3>8
  <2>6. ee = Dropped(c) - (IF l.dot < at + 1 THEN DigitsBefore(l, at + 1) - W ELSE 0)
    BY ONLY <1>5, <2>1, <2>5
  <2>7. c = Significant(z, DigitsBefore(l, at + 1)) /\ Accumulated(ds, l.base, z, DigitsBefore(l, at + 1), rn)
    BY ONLY <1>11, <2>1, <2>4
  <2> QED
    BY ONLY <1>5, <2>6, <2>7 DEF DigitsRead, ds, p, W
<1>12. ASSUME t[at] # 46, ~(t[at] = 48 /\ c = 0)
       PROVE  DigitsRead(t, l, at + 1, c + 1,
                ee + ((IF c + 1 <= MAXDIG THEN 0 ELSE 1) - (IF l.dot < at THEN 1 ELSE 0)),
                IF c + 1 <= MAXDIG THEN rn * l.base + hexavalue(t[at]) ELSE rn)
  <2>1. /\ q \in 0 .. Count(l) - 1 /\ ds[q + 1] = t[at] /\ DigitsBefore(l, at + 1) = q + 1
        /\ l.dot < at => q >= W
        /\ l.dot < at + 1 <=> l.dot < at
    BY ONLY <1>10, <1>12
  <2> HIDE DEF q, ds, W
  <2>2. q \in 0 .. Len(ds) - 1 /\ q \in Nat
    BY ONLY <1>3, <2>1
  <2>3. ~(ds[q + 1] = 48 /\ Significant(z, q) = 0)
    BY ONLY <1>5, <1>12, <2>1
  <2>4. /\ Significant(z, q + 1) = Significant(z, q) + 1
        /\ Accumulated(ds, l.base, z, q + 1,
             IF Significant(z, q + 1) <= MAXDIG THEN rn * l.base + hexavalue(ds[q + 1]) ELSE rn)
        /\ Dropped(Significant(z, q + 1)) =
             Dropped(Significant(z, q)) + (IF Significant(z, q + 1) <= MAXDIG THEN 0 ELSE 1)
    <3>1. ds \in Seq(Nat) /\ l.base \in {10, 16} /\ Leading(ds, z)
      BY ONLY <1>2, <1>3, <1>5
    <3>2. \A i \in 0 .. Len(ds) - 1 : \A x : Accumulated(ds, l.base, z, i, x) =>
            (~(ds[i + 1] = 48 /\ Significant(z, i) = 0) =>
              /\ Significant(z, i + 1) = Significant(z, i) + 1
              /\ Accumulated(ds, l.base, z, i + 1,
                   IF Significant(z, i + 1) <= MAXDIG THEN x * l.base + hexavalue(ds[i + 1]) ELSE x)
              /\ Dropped(Significant(z, i + 1)) =
                   Dropped(Significant(z, i)) + (IF Significant(z, i + 1) <= MAXDIG THEN 0 ELSE 1))
      BY ONLY <1>4, <3>1, Accumulation
    <3>3. Accumulated(ds, l.base, z, q, rn)
      BY ONLY <1>5
    <3> QED
      BY ONLY <2>2, <2>3, <3>2, <3>3
  <2>5. c + 1 = Significant(z, DigitsBefore(l, at + 1))
    BY ONLY <1>5, <2>1, <2>4
  <2>6. Accumulated(ds, l.base, z, DigitsBefore(l, at + 1),
          IF c + 1 <= MAXDIG THEN rn * l.base + hexavalue(t[at]) ELSE rn)
    BY ONLY <1>5, <2>1, <2>4
  <2>7. Dropped(c + 1) = Dropped(c) + (IF c + 1 <= MAXDIG THEN 0 ELSE 1)
    BY ONLY <1>5, <2>4
  <2>8. c \in Nat
    BY ONLY <1>5, <1>8, <2>2 DEF Significant
  <2>9. Dropped(c) \in Nat
    BY ONLY <2>8, NumeralsAssumption DEF Dropped
  <2>10. ee + ((IF c + 1 <= MAXDIG THEN 0 ELSE 1) - (IF l.dot < at THEN 1 ELSE 0))
           = Dropped(c + 1) - (IF l.dot < at + 1 THEN DigitsBefore(l, at + 1) - W ELSE 0)
    <3> DEFINE o == IF c + 1 <= MAXDIG THEN 0 ELSE 1
    <3>1. o \in Nat
      OBVIOUS
    <3> HIDE DEF o
    <3>2. CASE l.dot < at
      <4>1. ee = Dropped(c) - (q - W)
        BY ONLY <1>5, <3>2
      <4>2. DigitsBefore(l, at + 1) - W = (q - W) + 1
        BY ONLY <1>7, <2>1, <2>2
      <4>3. Dropped(c + 1) = Dropped(c) + o
        BY ONLY <2>7 DEF o
      <4>4. ee + (o - 1) = Dropped(c + 1) - (DigitsBefore(l, at + 1) - W)
        BY ONLY <1>7, <2>2, <2>9, <3>1, <4>1, <4>2, <4>3
      <4> QED
        BY ONLY <2>1, <3>2, <4>4 DEF o
    <3>3. CASE ~(l.dot < at)
      <4>1. ee = Dropped(c)
        BY ONLY <1>5, <2>9, <3>3
      <4>3. Dropped(c + 1) = Dropped(c) + o
        BY ONLY <2>7 DEF o
      <4>4. ee + (o - 0) = Dropped(c + 1) - 0
        BY ONLY <2>9, <3>1, <4>1, <4>3
      <4> QED
        BY ONLY <2>1, <3>3, <4>4 DEF o
    <3> QED
      BY ONLY <3>2, <3>3
  <2> QED
    BY ONLY <1>5, <2>5, <2>6, <2>10 DEF DigitsRead, ds, p, W
<1> QED
  BY ONLY <1>9, <1>11, <1>12

-----------------------------------------------------------------------------
(* Scaling by powers of the base and of two.                               *)

Pos(x) == IF x > 0 THEN x ELSE 0

(* nn/dd * b^ee * 2^xx is k/b^f.                                           *)
Balance(b, f, k, nn, dd, ee, xx) ==
  /\ nn \in Nat /\ dd \in Nat \ {0} /\ ee \in Int /\ xx \in Nat
  /\ nn * V!Power(b, Pos(ee)) * V!Power(2, xx) * V!Power(b, f) = k * dd * V!Power(b, Pos(-ee))

LEMMA BalanceSteps ==
  ASSUME NEW b \in Nat \ {0}, NEW f \in Nat, NEW k \in Nat,
         NEW nn, NEW dd, NEW ee, NEW xx, Balance(b, f, k, nn, dd, ee, xx)
  PROVE  /\ ee > 0 => Balance(b, f, k, nn * b, dd, ee - 1, xx)
         /\ ee < 0 => Balance(b, f, k, nn, dd * b, ee + 1, xx)
         /\ xx > 0 => Balance(b, f, k, nn * 2, dd, ee, xx - 1)
         /\ ee = 0 /\ xx = 0 => nn * V!Power(b, f) = k * dd
<1> DEFINE P(n) == V!Power(b, n)
           T(n) == V!Power(2, n)
<1>1. /\ nn \in Nat /\ dd \in Nat \ {0} /\ ee \in Int /\ xx \in Nat
      /\ nn * P(Pos(ee)) * T(xx) * P(f) = k * dd * P(Pos(-ee))
  BY DEF Balance
<1>2. P(0) = 1 /\ (\A n \in Nat : P(n) \in Nat \ {0}) /\ (\A n \in Nat : P(n + 1) = P(n) * b)
  BY ONLY b \in Nat \ {0}, PowerFacts
<1>3. T(0) = 1 /\ (\A n \in Nat : T(n) \in Nat \ {0}) /\ (\A n \in Nat : T(n + 1) = T(n) * 2)
  BY ONLY 2 \in Nat \ {0}, PowerFacts
<1>4. \A n1, d1, e1, x1 :
        /\ n1 \in Nat /\ d1 \in Nat \ {0} /\ e1 \in Int /\ x1 \in Nat
        /\ n1 * P(Pos(e1)) * T(x1) * P(f) = k * d1 * P(Pos(-e1))
        => Balance(b, f, k, n1, d1, e1, x1)
  BY DEF Balance
<1> HIDE DEF P, T
<1>5. P(f) \in Nat /\ T(xx) \in Nat
  BY ONLY <1>1, <1>2, <1>3, f \in Nat
<1>6. ASSUME ee > 0 PROVE Balance(b, f, k, nn * b, dd, ee - 1, xx)
  <2>1. Pos(ee) = ee /\ Pos(ee - 1) = ee - 1 /\ Pos(-ee) = 0 /\ Pos(-(ee - 1)) = 0 /\ ee - 1 \in Nat
    BY ONLY <1>1, <1>6 DEF Pos
  <2>2. P(ee) = P(ee - 1) * b
    <3>1. (ee - 1) + 1 = ee
      BY ONLY <1>1
    <3> QED
      BY ONLY <1>2, <2>1, <3>1
  <2>3. P(ee - 1) \in Nat
    BY ONLY <1>2, <2>1
  <2>4. nn * (P(ee - 1) * b) * T(xx) * P(f) = k * dd * P(0)
    BY ONLY <1>1, <2>1, <2>2
  <2>5. (nn * b) * P(ee - 1) * T(xx) * P(f) = nn * (P(ee - 1) * b) * T(xx) * P(f)
    <3> DEFINE x == P(ee - 1)
               y == T(xx)
               z == P(f)
    <3>1. x \in Nat /\ y \in Nat /\ z \in Nat
      BY ONLY <1>5, <2>3
    <3> HIDE DEF x, y, z
    <3>2. (nn * b) * x = nn * (x * b)
      BY ONLY <1>1, <3>1, b \in Nat \ {0}
    <3>3. (nn * b) * x * y * z = nn * (x * b) * y * z
      BY ONLY <3>2
    <3> QED
      BY ONLY <3>3 DEF x, y, z
  <2>6. nn * b \in Nat
    BY ONLY <1>1, b \in Nat \ {0}
  <2>7. (nn * b) * P(Pos(ee - 1)) * T(xx) * P(f) = k * dd * P(Pos(-(ee - 1)))
    BY ONLY <2>1, <2>4, <2>5
  <2>8. ee - 1 \in Int
    BY ONLY <1>1
  <2> QED
    BY ONLY <1>1, <1>4, <2>6, <2>7, <2>8
<1>7. ASSUME ee < 0 PROVE Balance(b, f, k, nn, dd * b, ee + 1, xx)
  <2>1. Pos(-ee) = -ee /\ Pos(-(ee + 1)) = -(ee + 1) /\ Pos(ee) = 0 /\ Pos(ee + 1) = 0 /\ -(ee + 1) \in Nat
    BY ONLY <1>1, <1>7 DEF Pos
  <2>2. P(-ee) = P(-(ee + 1)) * b
    <3>1. (-(ee + 1)) + 1 = -ee
      BY ONLY <1>1
    <3> QED
      BY ONLY <1>2, <2>1, <3>1
  <2>3. P(-(ee + 1)) \in Nat
    BY ONLY <1>2, <2>1
  <2>4. nn * P(0) * T(xx) * P(f) = k * dd * (P(-(ee + 1)) * b)
    BY ONLY <1>1, <2>1, <2>2
  <2>5. k * dd * (P(-(ee + 1)) * b) = k * (dd * b) * P(-(ee + 1))
    <3> DEFINE x == P(-(ee + 1))
    <3>1. x \in Nat
      BY ONLY <2>3
    <3> HIDE DEF x
    <3>2. k * dd * (x * b) = k * (dd * b) * x
      BY ONLY <1>1, <3>1, b \in Nat \ {0}, k \in Nat
    <3> QED
      BY ONLY <3>2 DEF x
  <2>6. dd * b \in Nat \ {0}
    BY ONLY <1>1, b \in Nat \ {0}
  <2>7. nn * P(Pos(ee + 1)) * T(xx) * P(f) = k * (dd * b) * P(Pos(-(ee + 1)))
    BY ONLY <2>1, <2>4, <2>5
  <2>8. ee + 1 \in Int
    BY ONLY <1>1
  <2> QED
    BY ONLY <1>1, <1>4, <2>6, <2>7, <2>8
<1>8. ASSUME xx > 0 PROVE Balance(b, f, k, nn * 2, dd, ee, xx - 1)
  <2>1. xx - 1 \in Nat /\ (xx - 1) + 1 = xx
    BY ONLY <1>1, <1>8
  <2>2. T(xx) = T(xx - 1) * 2 /\ T(xx - 1) \in Nat
    BY ONLY <1>3, <2>1
  <2>3. P(Pos(ee)) \in Nat
    <3>1. Pos(ee) \in Nat
      BY ONLY <1>1 DEF Pos
    <3> QED
      BY ONLY <1>2, <3>1
  <2>4. (nn * 2) * P(Pos(ee)) * T(xx - 1) * P(f) = nn * P(Pos(ee)) * T(xx) * P(f)
    <3> DEFINE x == P(Pos(ee))
               y == T(xx - 1)
               z == P(f)
    <3>1. x \in Nat /\ y \in Nat /\ z \in Nat
      BY ONLY <1>5, <2>2, <2>3
    <3> HIDE DEF x, y, z
    <3>2. (nn * 2) * x * y = nn * x * (y * 2)
      BY ONLY <1>1, <3>1
    <3>3. (nn * 2) * x * y * z = nn * x * (y * 2) * z
      BY ONLY <3>2
    <3> QED
      BY ONLY <3>3, <2>2 DEF x, y, z
  <2>5. nn * 2 \in Nat
    BY ONLY <1>1
  <2>6. (nn * 2) * P(Pos(ee)) * T(xx - 1) * P(f) = k * dd * P(Pos(-ee))
    BY ONLY <1>1, <2>4
  <2> QED
    BY ONLY <1>1, <1>4, <2>1, <2>5, <2>6
<1>9. ASSUME ee = 0, xx = 0 PROVE nn * P(f) = k * dd
  <2>1. Pos(ee) = 0 /\ Pos(-ee) = 0
    BY ONLY <1>9 DEF Pos
  <2>2. nn * 1 * 1 * P(f) = k * dd * 1
    BY ONLY <1>1, <1>2, <1>3, <1>9, <2>1
  <2> QED
    BY ONLY <1>1, <1>5, <2>2, k \in Nat
<1> QED
  BY ONLY <1>6, <1>7, <1>8, <1>9 DEF P

(* The digits of a numeral, as kept, and its exponent.                     *)
Mantissa(t) == V!Number(PartsOf(t).base, V!Kept(DigitsOf(PartsOf(t))))
Power2(t) == V!Number(10, V!Unsigned(PartsOf(t).exponent))

Scaled(t, l, nn, dd, ee, xx) ==
  Balance(l.base, Fraction(l), Mantissa(t) * V!Power(2, Power2(t)), nn, dd, ee, xx)

LEMMA NumberTypes ==
  ASSUME NEW t, NEW l, Reading(t, l), Numeral(t, l)
  PROVE  /\ Mantissa(t) \in Nat /\ Power2(t) \in Nat
         /\ V!Power(2, Power2(t)) \in Nat \ {0} /\ Mantissa(t) * V!Power(2, Power2(t)) \in Nat
         /\ Mantissa(t) = Num(l.base, V!Kept(DigitsOf(PartsOf(t))))[Count(l)]
         /\ l.cut > l.last => Power2(t) = 0
<1> DEFINE p == PartsOf(t)
           ds == DigitsOf(p)
           es == V!Unsigned(p.exponent)
<1>1. t \in Seq(Nat) /\ Layout(t, l) /\ PartsAt(t, l, p)
  BY ONLY Reading(t, l) DEF Reading
<1>2. l.base \in {10, 16} /\ p.base = l.base /\ l.cut \in Nat /\ l.last \in Nat
  BY ONLY <1>1, LayoutTypes DEF PartsAt
<1>3. ds \in Seq(Nat) /\ Len(ds) = Count(l) /\ Count(l) \in Nat
  BY ONLY <1>1, MantissaFacts
<1>4. AllIn(ds, Codes(l.base)) /\ AllIn(es, Codes(10))
  BY ONLY <1>1, Numeral(t, l), NumeralFacts
<1>5. /\ l.cut <= l.last => Slice(es, t, ExponentAt(t, l), (l.last + 1) - ExponentAt(t, l))
      /\ l.cut > l.last => es = <<>>
  BY ONLY <1>1, ExponentFacts
<1>6. Len(es) \in Nat /\ (l.cut > l.last => Len(es) = 0)
  <2>1. l.cut <= l.last \/ l.cut > l.last
    BY ONLY <1>2
  <2> HIDE DEF es
  <2> QED
    BY ONLY <1>5, <2>1 DEF Slice
<1>7. Mantissa(t) = V!Number(l.base, V!Kept(ds))
  BY ONLY <1>2 DEF Mantissa
<1>8. Power2(t) = V!Number(10, es)
  BY DEF Power2
<1> HIDE DEF ds, es, p
<1>9. PICK z : Leading(ds, z)
  BY ONLY <1>3, LeadingExists
<1>10. V!Kept(ds) \in Seq(Nat) /\ Len(V!Kept(ds)) = Len(ds) /\ AllIn(V!Kept(ds), Codes(l.base))
  BY ONLY <1>2, <1>3, <1>4, <1>9, KeptFacts
<1>11. /\ V!Number(l.base, V!Kept(ds)) = Num(l.base, V!Kept(ds))[Count(l)]
       /\ Num(l.base, V!Kept(ds))[Count(l)] \in Nat
  <2>1. /\ \A k \in 0 .. Len(V!Kept(ds)) : Num(l.base, V!Kept(ds))[k] \in Nat
        /\ V!Number(l.base, V!Kept(ds)) = Num(l.base, V!Kept(ds))[Len(V!Kept(ds))]
    <3>1. Len(V!Kept(ds)) \in Nat
      BY ONLY <1>3, <1>10
    <3> QED
      BY ONLY <1>2, <1>10, <3>1, NumFacts
  <2>2. Count(l) \in 0 .. Len(V!Kept(ds))
    BY ONLY <1>3, <1>10
  <2> QED
    BY ONLY <1>3, <1>10, <2>1, <2>2
<1>12. V!Number(10, es) \in Nat /\ (Len(es) = 0 => V!Number(10, es) = 0)
  <2>1. /\ Num(10, es)[0] = 0
        /\ \A k \in 0 .. Len(es) : Num(10, es)[k] \in Nat
        /\ V!Number(10, es) = Num(10, es)[Len(es)]
    BY ONLY <1>4, <1>6, NumFacts
  <2>2. Len(es) \in 0 .. Len(es)
    BY ONLY <1>6
  <2> QED
    BY ONLY <2>1, <2>2
<1>13. V!Power(2, Power2(t)) \in Nat \ {0}
  BY ONLY <1>8, <1>12, 2 \in Nat \ {0}, PowerFacts
<1>14. Mantissa(t) * V!Power(2, Power2(t)) \in Nat
  <2>1. Mantissa(t) \in Nat
    BY ONLY <1>7, <1>11
  <2> QED
    BY ONLY <1>13, <2>1
<1>15. l.cut > l.last => Power2(t) = 0
  BY ONLY <1>6, <1>8, <1>12
<1>16. Mantissa(t) \in Nat /\ Power2(t) \in Nat
  BY ONLY <1>7, <1>8, <1>11, <1>12
<1>17. Mantissa(t) = Num(l.base, V!Kept(DigitsOf(PartsOf(t))))[Count(l)]
  BY ONLY <1>7, <1>11 DEF ds, p
<1> QED
  BY ONLY <1>13, <1>14, <1>15, <1>16, <1>17

LEMMA ScaleStart ==
  ASSUME NEW t, NEW l, Reading(t, l), Numeral(t, l), NEW c, NEW ee, NEW rn,
         DigitsRead(t, l, l.cut, c, ee, rn)
  PROVE  Scaled(t, l, rn, 1, ee, Power2(t))
<1> DEFINE ds == DigitsOf(PartsOf(t))
           f == Fraction(l)
           b == l.base
           P(n) == V!Power(b, n)
           X == V!Power(2, Power2(t))
           D == Dropped(c)
           M == Mantissa(t)
<1>1. t \in Seq(Nat) /\ Layout(t, l) /\ PartsAt(t, l, PartsOf(t))
  BY ONLY Reading(t, l) DEF Reading
<1>2. /\ l.body \in Nat /\ l.cut \in Nat /\ l.dot \in Nat /\ b \in {10, 16}
      /\ l.body <= l.dot /\ l.dot <= l.cut /\ f \in Nat /\ (l.dot = l.cut => f = 0)
  BY ONLY <1>1, LayoutTypes
<1>3. DigitsBefore(l, l.cut) = Count(l) /\ Count(l) = (l.dot - l.body) + f
  BY ONLY <1>1, DigitsBeforeFacts DEF Count
<1>4. ds \in Seq(Nat) /\ Len(ds) = Count(l) /\ Count(l) \in Nat
  BY ONLY <1>1, MantissaFacts
<1>5. M \in Nat /\ Power2(t) \in Nat /\ X \in Nat \ {0} /\ M = Num(b, V!Kept(ds))[Count(l)]
  BY ONLY Reading(t, l), Numeral(t, l), NumberTypes
<1>6. PICK z : /\ Leading(ds, z)
               /\ c = Significant(z, DigitsBefore(l, l.cut))
               /\ Accumulated(ds, b, z, DigitsBefore(l, l.cut), rn)
               /\ ee = D - (IF l.dot < l.cut THEN DigitsBefore(l, l.cut) - (l.dot - l.body) ELSE 0)
  BY ONLY DigitsRead(t, l, l.cut, c, ee, rn) DEF DigitsRead
<1>7. P(0) = 1 /\ \A n \in Nat : P(n) \in Nat \ {0}
  <2>1. b \in Nat \ {0}
    BY ONLY <1>2
  <2> HIDE DEF b
  <2> QED
    BY ONLY <2>1, PowerFacts
<1>8. \A i \in Nat : \A j \in Nat : P(i + j) = P(i) * P(j)
  <2>1. b \in Nat \ {0}
    BY ONLY <1>2
  <2> HIDE DEF b
  <2> QED
    BY ONLY <2>1, PowerSum
<1>9. \A n1, d1, e1, x1 :
        /\ n1 \in Nat /\ d1 \in Nat \ {0} /\ e1 \in Int /\ x1 \in Nat
        /\ n1 * P(Pos(e1)) * V!Power(2, x1) * P(f) = (M * X) * d1 * P(Pos(-e1))
        => Scaled(t, l, n1, d1, e1, x1)
  BY DEF Balance, Scaled
<1>10. rn \in Nat /\ rn * P(D) = M
  BY ONLY <1>3, <1>5, <1>6 DEF Accumulated
<1>11. D \in Nat
  <2>1. z \in Nat
    BY ONLY <1>4, <1>6 DEF Leading
  <2>2. c \in Nat
    BY ONLY <1>3, <1>4, <1>6, <2>1 DEF Significant
  <2> QED
    BY ONLY <2>2, NumeralsAssumption DEF Dropped
<1> HIDE DEF ds, f, b, P, X, D, M
<1>12. ee = D - f
  <2>1. CASE l.dot < l.cut
    BY ONLY <1>2, <1>3, <1>6, <1>11, <2>1
  <2>2. CASE ~(l.dot < l.cut)
    BY ONLY <1>2, <1>6, <1>11, <2>2
  <2> QED
    BY ONLY <2>1, <2>2
<1>13. P(Pos(ee)) * P(f) = P(D) * P(Pos(-ee))
  <2>1. CASE D >= f
    <3>1. Pos(ee) = D - f /\ Pos(-ee) = 0 /\ D - f \in Nat /\ (D - f) + f = D
      BY ONLY <1>2, <1>11, <1>12, <2>1 DEF Pos
    <3>2. P(D) = P(D - f) * P(f)
      BY ONLY <1>2, <1>8, <3>1
    <3> QED
      BY ONLY <1>7, <1>11, <3>1, <3>2
  <2>2. CASE D < f
    <3>1. Pos(ee) = 0 /\ Pos(-ee) = f - D /\ f - D \in Nat /\ D + (f - D) = f
      BY ONLY <1>2, <1>11, <1>12, <2>2 DEF Pos
    <3>2. P(f) = P(D) * P(f - D)
      BY ONLY <1>11, <1>8, <3>1
    <3>3. P(f) \in Nat
      BY ONLY <1>2, <1>7
    <3> QED
      BY ONLY <1>7, <3>1, <3>2, <3>3
  <2> QED
    BY ONLY <1>2, <1>11, <2>1, <2>2
<1>14. rn * P(Pos(ee)) * X * P(f) = (M * X) * 1 * P(Pos(-ee))
  <2>1. Pos(ee) \in Nat /\ Pos(-ee) \in Nat
    BY ONLY <1>2, <1>11, <1>12 DEF Pos
  <2> DEFINE u == P(Pos(ee))
             v == P(f)
             w == P(D)
             y == P(Pos(-ee))
  <2>2. u \in Nat /\ v \in Nat /\ w \in Nat /\ y \in Nat
    BY ONLY <1>2, <1>7, <1>11, <2>1
  <2>3. u * v = w * y /\ rn * w = M
    BY ONLY <1>10, <1>13
  <2> HIDE DEF u, v, w, y
  <2>4. rn * u * X * v = X * rn * (u * v)
    BY ONLY <1>5, <1>10, <2>2
  <2>5. (M * X) * 1 * y = X * (rn * w) * y
    BY ONLY <1>5, <1>10, <2>2, <2>3
  <2>6. X * (rn * w) * y = X * rn * (w * y)
    BY ONLY <1>5, <1>10, <2>2
  <2> QED
    BY ONLY <2>3, <2>4, <2>5, <2>6 DEF u, v, y
<1>15. ee \in Int
  BY ONLY <1>2, <1>11, <1>12
<1> QED
  BY ONLY <1>5, <1>9, <1>10, <1>14, <1>15 DEF X

LEMMA ScaleEnd ==
  ASSUME NEW t, NEW l, Reading(t, l), Numeral(t, l), NEW nn, NEW dd, Scaled(t, l, nn, dd, 0, 0)
  PROVE  SameNumber([float |-> [n |-> Signed(nn, isneg(t, l.first)), d |-> dd]], V!Meaning(t))
<1> DEFINE p == PartsOf(t)
           f == Fraction(l)
           M == Mantissa(t)
           X == V!Power(2, Power2(t))
           minus == isneg(t, l.first)
           F == V!Power(l.base, f)
<1>1. /\ t \in Seq(Nat) /\ Layout(t, l) /\ PartsAt(t, l, p) /\ Minus(t) = minus
      /\ V!Meaning(t) = [float |-> V!Float(p, Minus(t))]
  BY ONLY Reading(t, l), Numeral(t, l) DEF Reading
<1>2. /\ l.base \in {10, 16} /\ p.base = l.base /\ f \in Nat /\ l.cut \in Nat /\ l.last \in Nat
  BY ONLY <1>1, LayoutTypes DEF PartsAt
<1>3. Len(p.fraction) = f
  BY ONLY <1>1, MantissaFacts
<1>4. /\ M \in Nat /\ Power2(t) \in Nat /\ X \in Nat \ {0} /\ M * X \in Nat
      /\ l.cut > l.last => Power2(t) = 0
  BY ONLY Reading(t, l), Numeral(t, l), NumberTypes
<1>5. Balance(l.base, f, M * X, nn, dd, 0, 0)
  BY ONLY Scaled(t, l, nn, dd, 0, 0) DEF Scaled
<1>6. l.base \in Nat \ {0}
  BY ONLY <1>2
<1>7. F \in Nat \ {0}
  BY ONLY <1>2, <1>6, PowerFacts
<1>8. nn \in Nat /\ dd \in Nat \ {0}
  BY ONLY <1>5 DEF Balance
<1>9. nn * F = (M * X) * dd
  <2> DEFINE K == M * X
  <2>1. K \in Nat /\ Balance(l.base, f, K, nn, dd, 0, 0)
    BY ONLY <1>4, <1>5
  <2> HIDE DEF K
  <2>2. nn * V!Power(l.base, f) = K * dd
    <3> DEFINE b == l.base
               z == 0
    <3>1. b \in Nat \ {0} /\ f \in Nat /\ Balance(b, f, K, nn, dd, z, z)
      BY ONLY <1>2, <1>6, <2>1
    <3>2. z = 0
      OBVIOUS
    <3> HIDE DEF b, f, z
    <3>3. z = 0 /\ z = 0 => nn * V!Power(b, f) = K * dd
      BY ONLY <2>1, <3>1, BalanceSteps
    <3> QED
      BY ONLY <3>2, <3>3 DEF b
  <2> QED
    BY ONLY <2>2 DEF K
<1>10. ~V!Minus(p.exponent) /\ (l.base = 10 => l.cut = l.last + 1)
  <2>1. l.base = 16 => ~V!Minus(p.exponent)
    BY ONLY Reading(t, l), ReadingFacts
  <2>2. l.base = 10 => l.cut = l.last + 1
    BY ONLY Reading(t, l), Numeral(t, l), ReadingFacts
  <2>3. l.base = 10 => l.cut > l.last
    BY ONLY <1>2, <2>2
  <2>4. l.cut > l.last => ~V!Minus(p.exponent)
    BY ONLY <1>1, ExponentFacts
  <2> QED
    BY ONLY <1>2, <2>1, <2>2, <2>3, <2>4
<1>11. X = V!Power(IF p.base = 16 THEN 2 ELSE 10, Power2(t))
  <2>1. CASE l.base = 16
    BY ONLY <1>2, <2>1
  <2>2. CASE l.base = 10
    <3>1. Power2(t) = 0
      BY ONLY <1>2, <1>4, <1>10, <2>2
    <3>2. V!Power(2, 0) = 1
      BY ONLY 2 \in Nat \ {0}, PowerFacts
    <3>3. V!Power(10, 0) = 1
      BY ONLY 10 \in Nat \ {0}, PowerFacts
    <3> QED
      BY ONLY <1>2, <2>2, <3>1, <3>2, <3>3
  <2> QED
    BY ONLY <1>2, <2>1, <2>2
<1>12. V!Float(p, minus) = [n |-> Signed(M, minus) * X, d |-> F * 1]
  <2>1. V!Float(p, minus) =
          [n |-> (IF minus THEN -M ELSE M)
                   * (IF V!Minus(p.exponent) THEN 1
                      ELSE V!Power(IF p.base = 16 THEN 2 ELSE 10, Power2(t))),
           d |-> V!Power(p.base, Len(p.fraction))
                   * (IF V!Minus(p.exponent)
                      THEN V!Power(IF p.base = 16 THEN 2 ELSE 10, Power2(t)) ELSE 1)]
    BY DEF V!Float, Mantissa, Power2, DigitsOf
  <2> HIDE DEF M, X, minus, p
  <2> QED
    BY ONLY <1>2, <1>3, <1>10, <1>11, <2>1 DEF Signed
<1> HIDE DEF M, X, F, minus, p
<1>13. Signed(nn, minus) * (F * 1) = (Signed(M, minus) * X) * dd
  <2>1. CASE minus
    <3>1. (-nn) * (F * 1) = -(nn * F) /\ ((-M) * X) * dd = -((M * X) * dd)
      BY ONLY <1>4, <1>7, <1>8
    <3> QED
      BY ONLY <1>9, <2>1, <3>1 DEF Signed
  <2>2. CASE ~minus
    <3>1. nn * (F * 1) = nn * F
      BY ONLY <1>7, <1>8
    <3> QED
      BY ONLY <1>9, <2>2, <3>1 DEF Signed
  <2> QED
    BY ONLY <2>1, <2>2
<1>14. V!Meaning(t) = [float |-> [n |-> Signed(M, minus) * X, d |-> F * 1]]
  BY ONLY <1>1, <1>12
<1>15. ASSUME NEW A, NEW B, NEW C, NEW E, A * E = C * B
       PROVE  SameNumber([float |-> [n |-> A, d |-> B]], [float |-> [n |-> C, d |-> E]])
  BY ONLY <1>15 DEF SameNumber
<1> QED
  BY ONLY <1>13, <1>14, <1>15 DEF minus

-----------------------------------------------------------------------------
(* The binary exponent.                                                    *)

LEMMA NatRead ==
  ASSUME NEW ds \in Seq(Nat), AllIn(ds, Codes(10))
  PROVE  Folded(AddDigit, 0, ds) = V!Number(10, ds)
<1> DEFINE n == Len(ds)
           F == Folding(AddDigit, 0, ds)
           N == Num(10, ds)
           S == {k \in Nat : k <= n => F[k] = N[k]}
<1>1. n \in Nat
  OBVIOUS
<1>2. /\ F[0] = 0 /\ Folded(AddDigit, 0, ds) = F[n]
      /\ \A k \in 0 .. n - 1 : F[k + 1] = AddDigit[<<F[k], ds[k + 1]>>]
  BY <1>1, FoldingFacts
<1>3. /\ N[0] = 0 /\ V!Number(10, ds) = N[n]
      /\ \A k \in 0 .. n : N[k] \in Nat
      /\ \A k \in 0 .. n - 1 : N[k + 1] = N[k] * 10 + Value(ds[k + 1])
  BY <1>1, NumFacts
<1>4. \A a, c \in Nat : AddDigit[<<a, c>>] = a * 10 + (c - 48)
  BY CodeFacts DEF AddDigit
<1>5. \A k \in 1 .. n : ds[k] \in Nat /\ Value(ds[k]) = ds[k] - 48
  <2> SUFFICES ASSUME NEW k \in 1 .. n PROVE ds[k] \in Nat /\ Value(ds[k]) = ds[k] - 48
    OBVIOUS
  <2>1. ds[k] \in Codes(10) /\ ds[k] \in 48 .. 57
    BY CodesAre DEF AllIn
  <2>2. QED
    BY <2>1, DigitFacts
<1> HIDE DEF F, N, n
<1>6. 0 \in S
  BY <1>1, <1>2, <1>3
<1>7. ASSUME NEW k \in Nat, k \in S PROVE k + 1 \in S
  <2>1. CASE k + 1 <= n
    <3>1. k \in 0 .. n - 1 /\ k + 1 \in 1 .. n /\ k \in 0 .. n /\ k <= n
      BY <1>1, <2>1
    <3>2. F[k + 1] = AddDigit[<<F[k], ds[k + 1]>>] /\ N[k + 1] = N[k] * 10 + Value(ds[k + 1])
      BY ONLY <1>2, <1>3, <3>1
    <3>3. N[k] \in Nat /\ ds[k + 1] \in Nat /\ Value(ds[k + 1]) = ds[k + 1] - 48
      BY ONLY <1>3, <1>5, <3>1
    <3>4. F[k] = N[k]
      BY <1>7, <3>1
    <3>5. F[k + 1] = N[k + 1]
      BY ONLY <1>4, <3>2, <3>3, <3>4
    <3>6. QED
      BY <3>5
  <2>2. QED
    BY <2>1
<1> HIDE DEF S
<1>8. n \in S
  BY <1>1, <1>6, <1>7, NatSet
<1>9. QED
  BY <1>1, <1>2, <1>3, <1>8 DEF S

(* What is read of the exponent, in a numeral and in other texts.          *)
LEMMA ExponentRead ==
  ASSUME NEW t, NEW l, Reading(t, l), l.base = 16, l.cut <= l.last,
         NEW got, got = ReadNat(t, ExponentAt(t, l))
  PROVE  /\ got.at \in ExponentAt(t, l) .. l.last + 1
         /\ ExponentAt(t, l) \in Nat \ {0}
         /\ got.at # ExponentAt(t, l) /\ got.at = l.last + 1 =>
              ExponentAt(t, l) <= l.last /\ \A k \in ExponentAt(t, l) .. l.last : t[k] \in Codes(10)
         /\ Numeral(t, l) =>
              /\ got.at # ExponentAt(t, l) /\ got.at = l.last + 1
              /\ got.a = Power2(t) /\ ~(got.a > INT_MAX) /\ ~isneg(t, l.cut + 1)
<1> DEFINE i == ExponentAt(t, l)
           p == PartsOf(t)
           es == V!Unsigned(p.exponent)
           e0 == l.last
<1>1. t \in Seq(Nat) /\ Layout(t, l) /\ PartsAt(t, l, p)
  BY ONLY Reading(t, l) DEF Reading
<1>2. l.cut \in Nat /\ e0 \in Nat /\ Len(t) \in Nat /\ e0 <= Len(t) /\ l.cut <= e0
  BY ONLY <1>1, l.cut <= l.last, LayoutTypes
<1>3. /\ i \in l.cut + 1 .. e0 + 1
      /\ Slice(es, t, i, (e0 + 1) - i)
      /\ V!Minus(p.exponent) <=> isneg(t, l.cut + 1)
  BY ONLY <1>1, l.cut <= l.last, ExponentFacts
<1>4. Bounds(t, l.first, e0)
  BY ONLY <1>1 DEF Layout
<1>5. got.at = After(Digits(t), t, i) /\ got.a = Folded(AddDigit, 0, SubSeq(t, i, got.at - 1))
  BY DEF ReadNat, Read
<1>6. ~V!Minus(p.exponent)
  BY ONLY Reading(t, l), l.base = 16, ReadingFacts
<1>7. Numeral(t, l) => V!Number(10, es) <= INT_MAX
  BY ONLY Reading(t, l), l.base = 16, l.cut <= l.last, ReadingFacts
<1>8. Numeral(t, l) => i <= e0 /\ \A k \in i .. e0 : t[k] \in Codes(10)
  BY ONLY l.cut <= l.last DEF Numeral
<1>9. Numeral(t, l) => AllIn(es, Codes(10))
  BY ONLY <1>1, NumeralFacts
<1>10. Power2(t) = V!Number(10, es)
  BY DEF Power2
<1>11. Digits(t) = {k \in 1 .. Len(t) : t[k] \in Codes(10)}
  <2>1. DOMAIN t = 1 .. Len(t)
    BY ONLY <1>1
  <2>2. \A c : isdigit(c) <=> c \in Codes(10)
    BY ONLY CodesAre DEF isdigit
  <2> QED
    BY ONLY <2>1, <2>2 DEF Digits
<1> HIDE DEF i, es, p
<1>12. i \in Nat /\ l.cut + 1 <= i /\ i <= e0 + 1 /\ i >= 1 /\ i \in 1 .. Len(t) + 1
  BY ONLY <1>2, <1>3
<1>13. e0 + 1 \notin Digits(t)
  <2>1. SUFFICES ASSUME e0 + 1 \in Digits(t) PROVE FALSE
    OBVIOUS
  <2>2. e0 + 1 \in e0 + 1 .. Len(t) /\ t[e0 + 1] \in Codes(10)
    BY ONLY <1>2, <1>11, <2>1
  <2>3. isspace(t[e0 + 1])
    BY ONLY <1>1, <1>4, <2>2, BehindFacts
  <2>4. t[e0 + 1] \in 48 .. 57
    BY ONLY <2>2, CodesAre
  <2> QED
    BY ONLY <2>3, <2>4 DEF isspace
<1>14. /\ got.at \in i .. Len(t) + 1
       /\ \A k \in i .. got.at - 1 : k \in Digits(t)
       /\ got.at \notin Digits(t)
       /\ \A j \in i .. Len(t) + 1 :
            (\A k \in i .. j - 1 : k \in Digits(t)) /\ j \notin Digits(t) => got.at = j
  <2>1. Digits(t) \in SUBSET (1 .. Len(t))
    BY ONLY <1>11
  <2> DEFINE ks == Digits(t)
             g == After(ks, t, i)
  <2>2. t \in Seq(Nat) /\ ks \in SUBSET (1 .. Len(t)) /\ i \in 1 .. Len(t) + 1
    BY ONLY <1>1, <1>12, <2>1
  <2> HIDE DEF ks
  <2>3. /\ g \in i .. Len(t) + 1
        /\ \A k \in i .. g - 1 : k \in ks
        /\ g \notin ks
        /\ \A j \in i .. Len(t) + 1 : (\A k \in i .. j - 1 : k \in ks) /\ j \notin ks => g = j
    BY ONLY <2>2, AfterFacts
  <2>4. got.at = g
    BY ONLY <1>5 DEF ks
  <2> HIDE DEF g
  <2> QED
    BY ONLY <2>3, <2>4 DEF ks
<1>15. got.at \in Nat /\ i <= got.at
  BY ONLY <1>12, <1>14
<1>16. got.at \in i .. e0 + 1
  <2>1. ASSUME got.at > e0 + 1 PROVE FALSE
    <3>1. e0 + 1 \in i .. got.at - 1
      BY ONLY <1>2, <1>12, <1>15, <2>1
    <3> QED
      BY ONLY <1>13, <1>14, <3>1
  <2> DEFINE g == got.at
  <2>2. g \in Nat /\ i <= g /\ ~(g > e0 + 1)
    BY ONLY <1>15, <2>1
  <2> HIDE DEF g
  <2>3. g \in i .. e0 + 1
    BY ONLY <1>2, <1>12, <2>2
  <2> QED
    BY ONLY <2>3 DEF g
<1>17. ASSUME got.at # i, got.at = e0 + 1
       PROVE  i <= e0 /\ \A k \in i .. e0 : t[k] \in Codes(10)
  <2>1. i <= e0 /\ i .. got.at - 1 = i .. e0
    BY ONLY <1>2, <1>12, <1>15, <1>17
  <2> QED
    BY ONLY <1>11, <1>14, <2>1
<1>18. ASSUME Numeral(t, l)
       PROVE  /\ got.at # i /\ got.at = e0 + 1
              /\ got.a = Power2(t) /\ ~(got.a > INT_MAX) /\ ~isneg(t, l.cut + 1)
  <2>1. got.at = e0 + 1
    <3>1. e0 + 1 \in i .. Len(t) + 1 /\ (e0 + 1) - 1 = e0
      BY ONLY <1>2, <1>12
    <3>2. \A k \in i .. e0 : k \in 1 .. Len(t)
      BY ONLY <1>2, <1>12
    <3>3. \A k \in i .. e0 : k \in Digits(t)
      BY ONLY <1>8, <1>11, <1>18, <3>2
    <3> QED
      BY ONLY <1>13, <1>14, <3>1, <3>3
  <2>2. got.at # i
    BY ONLY <1>2, <1>8, <1>12, <1>18, <2>1
  <2>3. SubSeq(t, i, got.at - 1) = es
    <3>1. Slice(t, t, 1, Len(t))
      BY ONLY <1>1, WholeSlice
    <3>2. /\ i \in Nat \ {0} /\ e0 \in Int /\ e0 <= Len(t) /\ i <= e0 + 1 /\ 1 \in Int
          /\ (1 + i) - 1 = i /\ got.at - 1 = e0 /\ (e0 - i) + 1 = (e0 + 1) - i
      BY ONLY <1>2, <1>12, <2>1
    <3>3. Slice(SubSeq(t, i, e0), t, 1 + i - 1, e0 - i + 1)
      BY ONLY <3>1, <3>2, SubSlice
    <3>4. 1 + i - 1 = i /\ e0 - i + 1 = (e0 + 1) - i
      BY ONLY <1>2, <1>12
    <3>5. Slice(SubSeq(t, i, e0), t, i, (e0 + 1) - i)
      BY ONLY <3>3, <3>4
    <3> QED
      BY ONLY <1>3, <3>2, <3>5, SliceUnique
  <2>4. es \in Seq(Nat)
    BY ONLY <1>3 DEF Slice
  <2>5. got.a = V!Number(10, es)
    BY ONLY <1>5, <1>9, <1>18, <2>3, <2>4, NatRead
  <2>6. V!Number(10, es) \in Nat /\ V!Number(10, es) <= INT_MAX
    BY ONLY <1>7, <1>10, <1>18, Reading(t, l), NumberTypes
  <2>7. ~(got.a > INT_MAX)
    BY ONLY <2>5, <2>6, NumeralsAssumption
  <2> QED
    BY ONLY <1>3, <1>6, <1>10, <2>1, <2>2, <2>5, <2>7
<1> QED
  BY ONLY <1>12, <1>16, <1>17, <1>18 DEF i

-----------------------------------------------------------------------------
(* The inductive invariant.                                                *)

InDigits(t, l) ==
  /\ Reading(t, l)
  /\ base = l.base /\ neg = isneg(t, l.first)
  /\ r = [n |-> r.n, d |-> 1] /\ exp = 0
  /\ ReadUpTo(t, l, s, hasdot)
  /\ Numeral(t, l) => DigitsRead(t, l, s, sigfig, e, r.n)

AtExponent(t, l) ==
  /\ InDigits(t, l)
  /\ endptr = s
  /\ At(t, s) \notin Codes(l.base) /\ ~(At(t, s) = 46 /\ ~hasdot)

(* A numeral was read to its end, anything else not to its last character. *)
InScale(t, l) ==
  /\ Reading(t, l)
  /\ base = l.base /\ neg = isneg(t, l.first)
  /\ r = [n |-> r.n, d |-> r.d]
  /\ Numeral(t, l) => endptr = l.last + 1 /\ Scaled(t, l, r.n, r.d, e, exp)
  /\ ~Numeral(t, l) => endptr \in 1 .. l.last

NumeralInv(t) ==
  /\ num = V!Numeral(t)
  /\ V!Shapes(t) = {} =>
       /\ npc = "str2num" =>
            r = [n |-> 0, d |-> 1] /\ hasdot = FALSE /\ sigfig = 0 /\ e = 0 /\ exp = 0
       /\ npc = "digits" => \E l : InDigits(t, l)
       /\ npc = "exponent" => \E l : AtExponent(t, l)
       /\ npc = "scale" => \E l : InScale(t, l)
       /\ npc = "done" => SameNumber(value, V!Meaning(t))

LEMMA SameItself == \A v : SameNumber(v, v)
BY DEF SameNumber

LEMMA NumeralText ==
  ASSUME NEW t
  PROVE  V!Numeral(t).text = t /\ V!Numeral(t).meaning = V!Meaning(t)
           /\ V!Numeral(t).shapes = V!Shapes(t) /\ V!Numeral(t) # NoNumeral
<1>1. V!Numeral(t) = [text |-> t, meaning |-> V!Meaning(t), shapes |-> V!Shapes(t)]
  BY DEF V!Numeral
<1>2. DOMAIN [text |-> t, meaning |-> V!Meaning(t), shapes |-> V!Shapes(t)] = {"text", "meaning", "shapes"}
  OBVIOUS
<1>3. DOMAIN NoNumeral = {"text"}
  BY DEF NoNumeral
<1>4. "meaning" # "text"
  OBVIOUS
<1> QED
  BY ONLY <1>1, <1>2, <1>3, <1>4

LEMMA InitInv ==
  ASSUME NEW t \in Seq(Nat), NumeralsInit(V!Numeral(t))
  PROVE  NumeralInv(t)
BY NumeralText DEF NumeralsInit, NumeralInv

LEMMA StutterInv ==
  ASSUME NEW t \in Seq(Nat), NumeralInv(t), UNCHANGED numeralVars
  PROVE  NumeralInv(t)'
BY DEF NumeralInv, numeralVars, InDigits, AtExponent, InScale

LEMMA Str2IntInv ==
  ASSUME NEW t \in Seq(Nat), NumeralInv(t), Str2Int
  PROVE  NumeralInv(t)'
<1>1. num = V!Numeral(t) /\ num.text = t
  BY NumeralText DEF NumeralInv
<1>2. /\ "int" \in DOMAIN l_str2int(t) /\ value' = l_str2int(t)
      /\ npc' = "done" /\ num' = num
  BY ONLY Str2Int, <1>1 DEF Str2Int
<1>3. SameNumber(l_str2int(t), V!Meaning(t))
  <2>1. CASE Solid(t) = {}
    <3>1. l_str2int(t) = [fails |-> TRUE] /\ V!Meaning(t) = [fails |-> TRUE]
      BY ONLY <2>1, t \in Seq(Nat), BlankText
    <3> QED
      BY ONLY <3>1, SameItself
  <2>2. CASE Solid(t) # {}
    <3>1. PICK l : Layout(t, l) /\ PartsAt(t, l, PartsOf(t)) /\ (Minus(t) <=> isneg(t, l.first))
      BY ONLY <2>2, t \in Seq(Nat), LayoutExists DEF Minus
    <3>2. \/ l_str2int(t) = V!Meaning(t)
          \/ l_str2int(t) = [fails |-> TRUE]
      BY ONLY <3>1, t \in Seq(Nat), IntegerValue
    <3>3. "int" \notin DOMAIN [fails |-> TRUE]
      OBVIOUS
    <3>4. l_str2int(t) = V!Meaning(t)
      BY ONLY <1>2, <3>2, <3>3
    <3> QED
      BY ONLY <3>4, SameItself
  <2> QED
    BY ONLY <2>1, <2>2
<1> QED
  BY ONLY <1>1, <1>2, <1>3 DEF NumeralInv

LEMMA StrtodInv ==
  ASSUME NEW t \in Seq(Nat), NumeralInv(t), Strtod
  PROVE  NumeralInv(t)'
<1>1. num = V!Numeral(t) /\ num.text = t
  BY NumeralText DEF NumeralInv
<1> DEFINE i == AfterSpaces(t, 1)
           j == AfterSign(t, i)
           rejected == Mode(t) = Code["n"] \/ ~(HexPrefix(t, j) \/ isdigit(At(t, j)))
<1>2. /\ npc = "str2num" /\ "fails" \in DOMAIN l_str2int(t) /\ num' = num
      /\ r' = r /\ hasdot' = hasdot /\ sigfig' = sigfig /\ e' = e /\ exp' = exp
      /\ rejected => npc' = "done" /\ value' = [fails |-> TRUE]
      /\ ~rejected => /\ neg' = isneg(t, i)
                      /\ base' = IF HexPrefix(t, j) THEN 16 ELSE 10
                      /\ s' = IF HexPrefix(t, j) THEN j + 2 ELSE j
                      /\ npc' = "digits"
  BY ONLY Strtod, <1>1 DEF Strtod, Fails
<1>3. SUFFICES ASSUME V!Shapes(t) = {}
               PROVE  /\ npc' = "digits" => (\E l : InDigits(t, l))'
                      /\ npc' = "done" => SameNumber(value', V!Meaning(t))
                      /\ npc' \in {"digits", "done"}
  <2>1. num' = V!Numeral(t)
    BY ONLY <1>1, <1>2
  <2> QED
    BY ONLY <2>1, <1>3 DEF NumeralInv
<1>4. r = [n |-> 0, d |-> 1] /\ hasdot = FALSE /\ sigfig = 0 /\ e = 0 /\ exp = 0
  BY ONLY NumeralInv(t), <1>2, <1>3 DEF NumeralInv
<1> HIDE DEF i, j, rejected
<1>5. CASE Solid(t) = {}
  <2>1. V!Meaning(t) = [fails |-> TRUE]
    BY ONLY <1>5, t \in Seq(Nat), BlankText
  <2>2. ~HexPrefix(t, j) /\ ~isdigit(At(t, j))
    BY ONLY <1>5, t \in Seq(Nat), BlankText DEF i, j
  <2>3. rejected
    BY ONLY <2>2 DEF rejected
  <2>4. npc' = "done" /\ value' = V!Meaning(t)
    BY ONLY <1>2, <2>1, <2>3
  <2>5. SameNumber(value', V!Meaning(t))
    BY ONLY <2>4, SameItself
  <2> QED
    BY ONLY <2>4, <2>5
<1>6. CASE Solid(t) # {}
  <2>1. PICK l : Layout(t, l) /\ PartsAt(t, l, PartsOf(t)) /\ (Minus(t) <=> isneg(t, l.first))
    BY ONLY <1>6, t \in Seq(Nat), LayoutExists DEF Minus
  <2>2. \/ DOMAIN l_str2int(t) = {"int"}
        \/ V!Meaning(t) = IF Numeral(t, l) THEN [float |-> V!Float(PartsOf(t), Minus(t))]
                          ELSE [fails |-> TRUE]
    BY ONLY <2>1, t \in Seq(Nat), IntegerValue
  <2>3. V!Meaning(t) = IF Numeral(t, l) THEN [float |-> V!Float(PartsOf(t), Minus(t))]
                       ELSE [fails |-> TRUE]
    BY ONLY <1>2, <2>2
  <2>4. i = l.first /\ j = l.start
    BY ONLY <2>1 DEF Layout, Bounds, i, j
  <2>5. CASE rejected
    <3>1. ~Numeral(t, l)
      <4>1. Numeral(t, l) => Mode(t) # Code["n"] /\ (HexPrefix(t, l.start) \/ isdigit(At(t, l.start)))
        BY ONLY <1>3, <2>1, t \in Seq(Nat), EntryFacts
      <4> QED
        BY ONLY <2>4, <2>5, <4>1 DEF rejected
    <3>2. npc' = "done" /\ value' = V!Meaning(t)
      BY ONLY <1>2, <2>3, <2>5, <3>1
    <3>3. SameNumber(value', V!Meaning(t))
      BY ONLY <3>2, SameItself
    <3> QED
      BY ONLY <3>2, <3>3
  <2>6. CASE ~rejected
    <3>1. /\ npc' = "digits" /\ neg' = isneg(t, l.first) /\ base' = l.base /\ s' = l.body
          /\ r' = [n |-> 0, d |-> 1] /\ hasdot' = FALSE /\ sigfig' = 0 /\ e' = 0 /\ exp' = 0
      BY ONLY <1>2, <1>4, <2>1, <2>4, <2>6 DEF Layout
    <3>2. l.base = 10 => isdigit(At(t, l.body))
      <4>1. HexPrefix(t, l.start) \/ isdigit(At(t, l.start))
        BY ONLY <2>4, <2>6 DEF rejected
      <4>2. l.base = 10 => ~HexPrefix(t, l.start) /\ l.body = l.start
        BY ONLY <2>1 DEF Layout
      <4> QED
        BY ONLY <4>1, <4>2
    <3>3. Minus(t) = isneg(t, l.first)
      <4>1. Minus(t) \in BOOLEAN /\ isneg(t, l.first) \in BOOLEAN
        BY DEF Minus, V!Minus, isneg
      <4> QED
        BY ONLY <2>1, <4>1
    <3>4. Reading(t, l)
      BY ONLY t \in Seq(Nat), <1>3, <2>1, <2>3, <3>2, <3>3 DEF Reading
    <3>5. ReadUpTo(t, l, l.body, FALSE)
      <4>1. l.body \in Nat /\ l.cut \in Nat /\ l.dot \in Nat /\ l.body <= l.dot /\ l.dot <= l.cut
        BY ONLY t \in Seq(Nat), <2>1, LayoutTypes
      <4>2. l.body \in l.body .. l.cut /\ l.body .. l.body - 1 = {}
        BY ONLY <4>1
      <4> QED
        BY ONLY <4>2 DEF ReadUpTo
    <3>6. Numeral(t, l) => DigitsRead(t, l, l.body, 0, 0, 0)
      BY ONLY <3>4, DigitsStart
    <3>7. r' = [n |-> r'.n, d |-> 1] /\ r'.n = 0
      BY ONLY <3>1
    <3>8. InDigits(t, l)'
      BY ONLY <3>1, <3>4, <3>5, <3>6, <3>7 DEF InDigits
    <3> QED
      BY ONLY <3>1, <3>8
  <2> QED
    BY ONLY <2>5, <2>6
<1> QED
  BY ONLY <1>5, <1>6

LEMMA DigitTest ==
  ASSUME NEW t \in Seq(Nat), NEW at \in Nat, NEW b \in {10, 16}
  PROVE  (IF b = 16 THEN isxdigit(At(t, at)) ELSE isdigit(At(t, at))) <=> At(t, at) \in Codes(b)
<1>1. At(t, at) \in Nat
  BY ONLY t \in Seq(Nat), at \in Nat, AtFacts
<1> QED
  BY ONLY <1>1 DEF Codes

(* What is known at the digits of a text of none of the shapes.            *)
LEMMA InDigitsFacts ==
  ASSUME NEW t \in Seq(Nat), NEW l, InDigits(t, l), num.text = t
  PROVE  /\ Layout(t, l) /\ l.base \in {10, 16}
         /\ s \in Nat \ {0} /\ l.body <= s /\ s <= l.cut /\ l.body \in Nat /\ l.cut \in Nat
         /\ Here = At(t, s) /\ (IsNumeral(Here) <=> At(t, s) \in Codes(l.base))
         /\ Numeral(t, l) => (hasdot <=> l.dot < s)
<1>1. Layout(t, l) /\ base = l.base /\ ReadUpTo(t, l, s, hasdot)
  BY ONLY InDigits(t, l) DEF InDigits, Reading
<1>2. /\ l.first \in Nat \ {0} /\ l.start \in Nat /\ l.body \in Nat /\ l.cut \in Nat
      /\ l.first <= l.start /\ l.start <= l.body /\ l.base \in {10, 16}
  BY ONLY <1>1, t \in Seq(Nat), LayoutTypes
<1>3. s \in l.body .. l.cut
  BY ONLY <1>1 DEF ReadUpTo
<1>4. s \in Nat \ {0} /\ l.body <= s /\ s <= l.cut
  BY ONLY <1>2, <1>3
<1>5. Here = At(t, s)
  BY ONLY num.text = t DEF Here
<1>6. IsNumeral(Here) <=> At(t, s) \in Codes(l.base)
  <2>1. s \in Nat
    BY ONLY <1>4
  <2> QED
    BY ONLY <1>1, <1>2, <1>5, <2>1, t \in Seq(Nat), DigitTest DEF IsNumeral
<1>7. Numeral(t, l) => (hasdot <=> l.dot < s)
  <2>1. hasdot \in BOOLEAN
    BY ONLY <1>1 DEF ReadUpTo
  <2>2. Numeral(t, l) => (hasdot = TRUE <=> l.dot < s)
    BY ONLY <1>1, t \in Seq(Nat), ReadFacts
  <2> QED
    BY ONLY <2>1, <2>2
<1> QED
  BY ONLY <1>1, <1>2, <1>4, <1>5, <1>6, <1>7

LEMMA ReadDotInv ==
  ASSUME NEW t \in Seq(Nat), NumeralInv(t), ReadDot
  PROVE  NumeralInv(t)'
<1>1. num = V!Numeral(t) /\ num.text = t
  BY NumeralText DEF NumeralInv
<1>2. /\ npc = "digits" /\ Here = 46 /\ ~hasdot
      /\ hasdot' = TRUE /\ s' = s + 1
      /\ npc' = npc /\ num' = num /\ base' = base /\ neg' = neg /\ r' = r /\ sigfig' = sigfig
      /\ e' = e /\ exp' = exp
  BY ONLY ReadDot, CodeFacts DEF ReadDot
<1>3. SUFFICES ASSUME V!Shapes(t) = {} PROVE (\E l : InDigits(t, l))'
  <2>1. num' = V!Numeral(t) /\ npc' = "digits"
    BY ONLY <1>1, <1>2
  <2> QED
    BY ONLY <2>1, <1>3 DEF NumeralInv
<1>4. PICK l : InDigits(t, l)
  BY ONLY NumeralInv(t), <1>2, <1>3 DEF NumeralInv
<1>5. /\ Reading(t, l) /\ Layout(t, l) /\ base = l.base /\ neg = isneg(t, l.first)
      /\ r = [n |-> r.n, d |-> 1] /\ exp = 0 /\ ReadUpTo(t, l, s, hasdot)
      /\ Numeral(t, l) => DigitsRead(t, l, s, sigfig, e, r.n)
  BY ONLY <1>4 DEF InDigits, Reading
<1>6. /\ s \in Nat \ {0} /\ l.body <= s /\ l.cut \in Nat /\ l.body \in Nat /\ Here = At(t, s)
  BY ONLY <1>1, <1>4, t \in Seq(Nat), InDigitsFacts
<1>7. s < l.cut /\ t[s] = At(t, s) /\ ReadUpTo(t, l, s + 1, TRUE)
  <2>1. ReadUpTo(t, l, s, hasdot) /\ At(t, s) = 46 /\ hasdot = FALSE
    BY ONLY <1>2, <1>5, <1>6 DEF ReadUpTo
  <2> QED
    BY ONLY <1>5, <2>1, t \in Seq(Nat), ReadFacts
<1>8. ASSUME Numeral(t, l) PROVE DigitsRead(t, l, s + 1, sigfig, e, r.n)
  <2>1. s \in l.body .. l.cut - 1
    BY ONLY <1>6, <1>7
  <2>2. t[s] = 46
    BY ONLY <1>2, <1>6, <1>7
  <2>3. DigitsRead(t, l, s, sigfig, e, r.n)
    BY ONLY <1>5, <1>8
  <2> QED
    BY ONLY <1>5, <1>8, <2>1, <2>2, <2>3, DigitsStep
<1>9. InDigits(t, l)'
  BY ONLY <1>2, <1>5, <1>7, <1>8 DEF InDigits
<1> QED
  BY ONLY <1>9

LEMMA ReadDigitInv ==
  ASSUME NEW t \in Seq(Nat), NumeralInv(t), ReadDigit
  PROVE  NumeralInv(t)'
<1>1. num = V!Numeral(t) /\ num.text = t
  BY NumeralText DEF NumeralInv
<1>2. /\ npc = "digits" /\ IsNumeral(Here) /\ s' = s + 1
      /\ npc' = npc /\ num' = num /\ base' = base /\ neg' = neg /\ hasdot' = hasdot
      /\ exp' = exp
      /\ Here = 48 /\ sigfig = 0 => r' = r /\ sigfig' = sigfig /\ e' = e
      /\ ~(Here = 48 /\ sigfig = 0) =>
           /\ sigfig' = sigfig + 1
           /\ r' = IF sigfig' <= MAXDIG THEN [r EXCEPT !.n = @ * base + hexavalue(Here)] ELSE r
           /\ e' = e + ((IF sigfig' <= MAXDIG THEN 0 ELSE 1) - (IF hasdot THEN 1 ELSE 0))
  BY ONLY ReadDigit, CodeFacts DEF ReadDigit
<1>3. SUFFICES ASSUME V!Shapes(t) = {} PROVE (\E l : InDigits(t, l))'
  <2>1. num' = V!Numeral(t) /\ npc' = "digits"
    BY ONLY <1>1, <1>2
  <2> QED
    BY ONLY <2>1, <1>3 DEF NumeralInv
<1>4. PICK l : InDigits(t, l)
  BY ONLY NumeralInv(t), <1>2, <1>3 DEF NumeralInv
<1>5. /\ Reading(t, l) /\ Layout(t, l) /\ base = l.base /\ neg = isneg(t, l.first)
      /\ r = [n |-> r.n, d |-> 1] /\ exp = 0 /\ ReadUpTo(t, l, s, hasdot)
      /\ Numeral(t, l) => DigitsRead(t, l, s, sigfig, e, r.n)
  BY ONLY <1>4 DEF InDigits, Reading
<1>6. /\ s \in Nat \ {0} /\ l.body <= s /\ l.cut \in Nat /\ l.body \in Nat /\ Here = At(t, s)
      /\ At(t, s) \in Codes(l.base) /\ l.base \in {10, 16}
      /\ Numeral(t, l) => (hasdot <=> l.dot < s)
  BY ONLY <1>1, <1>2, <1>4, t \in Seq(Nat), InDigitsFacts
<1>7. s < l.cut /\ t[s] = At(t, s) /\ ReadUpTo(t, l, s + 1, hasdot)
  BY ONLY <1>5, <1>6, t \in Seq(Nat), ReadFacts
<1>8. r' = [n |-> r'.n, d |-> 1]
  <2>1. \A x : [r EXCEPT !.n = x] = [n |-> x, d |-> 1]
    BY ONLY <1>5
  <2>2. r' = r \/ \E x : r' = [r EXCEPT !.n = x]
    BY ONLY <1>2
  <2>3. r' = r \/ \E x : r' = [n |-> x, d |-> 1]
    BY ONLY <2>1, <2>2
  <2> QED
    BY ONLY <1>5, <2>3
<1>9. ASSUME Numeral(t, l) PROVE DigitsRead(t, l, s + 1, sigfig', e', r'.n)
  <2>1. s \in l.body .. l.cut - 1
    BY ONLY <1>6, <1>7
  <2>2. t[s] # 46
    <3>1. 46 \notin 48 .. 57 /\ 46 \notin 65 .. 70 /\ 46 \notin 97 .. 102
      OBVIOUS
    <3>2. 46 \notin Codes(l.base)
      BY ONLY <1>6, <3>1, CodesAre, ZenonT(40)
    <3> QED
      BY ONLY <1>6, <1>7, <3>2
  <2>3. DigitsRead(t, l, s, sigfig, e, r.n)
    BY ONLY <1>5, <1>9
  <2>4. Here = t[s]
    BY ONLY <1>6, <1>7
  <2>5. CASE t[s] = 48 /\ sigfig = 0
    <3>1. DigitsRead(t, l, s + 1, sigfig, e, r.n)
      BY ONLY <1>5, <1>9, <2>1, <2>2, <2>3, <2>5, DigitsStep
    <3>2. r' = r /\ sigfig' = sigfig /\ e' = e
      BY ONLY <1>2, <2>4, <2>5
    <3> QED
      BY ONLY <3>1, <3>2
  <2>6. CASE ~(t[s] = 48 /\ sigfig = 0)
    <3>1. DigitsRead(t, l, s + 1, sigfig + 1,
                e + ((IF sigfig + 1 <= MAXDIG THEN 0 ELSE 1) - (IF l.dot < s THEN 1 ELSE 0)),
                IF sigfig + 1 <= MAXDIG THEN r.n * l.base + hexavalue(t[s]) ELSE r.n)
      BY ONLY <1>5, <1>9, <2>1, <2>2, <2>3, <2>6, DigitsStep
    <3>2. /\ sigfig' = sigfig + 1
          /\ r' = IF sigfig + 1 <= MAXDIG THEN [r EXCEPT !.n = @ * l.base + hexavalue(t[s])] ELSE r
          /\ e' = e + ((IF sigfig + 1 <= MAXDIG THEN 0 ELSE 1) - (IF hasdot THEN 1 ELSE 0))
      BY ONLY <1>2, <1>5, <2>4, <2>6
    <3>3. e' = e + ((IF sigfig + 1 <= MAXDIG THEN 0 ELSE 1) - (IF l.dot < s THEN 1 ELSE 0))
      BY ONLY <1>6, <1>9, <3>2
    <3>4. r'.n = IF sigfig + 1 <= MAXDIG THEN r.n * l.base + hexavalue(t[s]) ELSE r.n
      <4>1. [r EXCEPT !.n = @ * l.base + hexavalue(t[s])].n = r.n * l.base + hexavalue(t[s])
        BY ONLY <1>5
      <4> QED
        BY ONLY <3>2, <4>1
    <3> QED
      BY ONLY <3>1, <3>2, <3>3, <3>4
  <2> QED
    BY ONLY <2>5, <2>6
<1>10. InDigits(t, l)'
  BY ONLY <1>2, <1>5, <1>7, <1>8, <1>9 DEF InDigits
<1> QED
  BY ONLY <1>10

LEMMA EndDigitsInv ==
  ASSUME NEW t \in Seq(Nat), NumeralInv(t), EndDigits
  PROVE  NumeralInv(t)'
<1>1. num = V!Numeral(t) /\ num.text = t
  BY NumeralText DEF NumeralInv
<1>2. /\ npc = "digits" /\ ~IsNumeral(Here) /\ ~(Here = 46 /\ ~hasdot)
      /\ endptr' = s /\ npc' = "exponent" /\ hasdot' = hasdot /\ s' = s
      /\ num' = num /\ base' = base /\ neg' = neg /\ r' = r /\ sigfig' = sigfig
      /\ e' = e /\ exp' = exp
  BY ONLY EndDigits, CodeFacts DEF EndDigits
<1>3. SUFFICES ASSUME V!Shapes(t) = {} PROVE (\E l : AtExponent(t, l))'
  <2>1. num' = V!Numeral(t) /\ npc' = "exponent"
    BY ONLY <1>1, <1>2
  <2> QED
    BY ONLY <2>1, <1>3 DEF NumeralInv
<1>4. PICK l : InDigits(t, l)
  BY ONLY NumeralInv(t), <1>2, <1>3 DEF NumeralInv
<1>5. Here = At(t, s) /\ At(t, s) \notin Codes(l.base)
  BY ONLY <1>1, <1>2, <1>4, t \in Seq(Nat), InDigitsFacts
<1>6. InDigits(t, l)'
  BY ONLY <1>2, <1>4 DEF InDigits
<1>7. AtExponent(t, l)'
  BY ONLY <1>2, <1>5, <1>6 DEF AtExponent
<1> QED
  BY ONLY <1>7

LEMMA ExponentInv ==
  ASSUME NEW t \in Seq(Nat), NumeralInv(t), Exponent
  PROVE  NumeralInv(t)'
<1>1. num = V!Numeral(t) /\ num.text = t
  BY NumeralText DEF NumeralInv
<1> DEFINE i == AfterSign(t, s + 1)
           got == ReadNat(t, i)
           letter == base = 16 /\ Here \in {112, 80}
<1>2. /\ npc = "exponent" /\ num' = num /\ base' = base /\ neg' = neg /\ r' = r /\ e' = e
      /\ letter /\ got.at = i => npc' = "done" /\ value' = [fails |-> TRUE]
      /\ letter /\ got.at # i =>
           /\ exp' \in IF got.a > INT_MAX THEN INT_MIN .. INT_MAX
                       ELSE {IF isneg(t, s + 1) THEN -got.a ELSE got.a}
           /\ endptr' = got.at /\ npc' = "scale"
      /\ ~letter => npc' = "scale" /\ endptr' = endptr /\ exp' = exp
  BY ONLY Exponent, <1>1, CodeFacts DEF Exponent, Fails
<1> HIDE DEF i, got, letter
<1>3. SUFFICES ASSUME V!Shapes(t) = {}
               PROVE  /\ npc' = "scale" => (\E l : InScale(t, l))'
                      /\ npc' = "done" => SameNumber(value', V!Meaning(t))
                      /\ npc' \in {"scale", "done"}
  <2>1. num' = V!Numeral(t)
    BY ONLY <1>1, <1>2
  <2> QED
    BY ONLY <2>1, <1>3 DEF NumeralInv
<1>4. PICK l : AtExponent(t, l)
  BY ONLY NumeralInv(t), <1>2, <1>3 DEF NumeralInv
<1>5. /\ InDigits(t, l) /\ endptr = s
      /\ At(t, s) \notin Codes(l.base) /\ ~(At(t, s) = 46 /\ ~hasdot)
  BY ONLY <1>4 DEF AtExponent
<1>6. /\ Reading(t, l) /\ Layout(t, l) /\ base = l.base /\ neg = isneg(t, l.first)
      /\ r = [n |-> r.n, d |-> 1] /\ exp = 0 /\ ReadUpTo(t, l, s, hasdot) /\ hasdot \in BOOLEAN
      /\ Numeral(t, l) => DigitsRead(t, l, s, sigfig, e, r.n)
      /\ V!Meaning(t) = IF Numeral(t, l) THEN [float |-> V!Float(PartsOf(t), Minus(t))]
                        ELSE [fails |-> TRUE]
  BY ONLY <1>5 DEF InDigits, Reading, ReadUpTo
<1>7. /\ s \in Nat \ {0} /\ l.body <= s /\ s <= l.cut /\ l.body \in Nat /\ l.cut \in Nat
      /\ Here = At(t, s) /\ l.base \in {10, 16}
  BY ONLY <1>1, <1>5, t \in Seq(Nat), InDigitsFacts
<1>8. Numeral(t, l) => s = l.cut
  <2>1. ~(At(t, s) = 46 /\ hasdot = FALSE)
    BY ONLY <1>5, <1>6
  <2> QED
    BY ONLY <1>5, <1>6, <2>1, t \in Seq(Nat), ReadFacts
<1>9. l.last \in Nat /\ l.cut <= l.last + 1
  BY ONLY <1>6, t \in Seq(Nat), LayoutTypes
<1>10. Numeral(t, l) => Scaled(t, l, r.n, 1, e, Power2(t))
  BY ONLY <1>6, <1>8, ScaleStart
<1>11. CASE letter
  <2>1. l.base = 16 /\ At(t, s) \in {112, 80}
    BY ONLY <1>6, <1>7, <1>11 DEF letter
  <2>2. s = l.cut /\ l.cut <= l.last
    <3>1. /\ l.cut > l.last => At(t, l.cut) \notin {112, 80}
          /\ \A k \in l.body .. l.cut - 1 : At(t, k) = t[k] /\ t[k] \notin {112, 80}
      BY ONLY <1>6, <2>1, t \in Seq(Nat), CutFacts
    <3>2. s \notin l.body .. l.cut - 1
      BY ONLY <2>1, <3>1
    <3>3. s = l.cut
      BY ONLY <1>7, <3>2
    <3> QED
      BY ONLY <1>7, <1>9, <2>1, <3>1, <3>3
  <2>3. i = ExponentAt(t, l) /\ got = ReadNat(t, ExponentAt(t, l))
    BY ONLY <2>2 DEF i, got, ExponentAt
  <2>4. /\ got.at \in ExponentAt(t, l) .. l.last + 1
        /\ ExponentAt(t, l) \in Nat \ {0}
        /\ got.at # ExponentAt(t, l) /\ got.at = l.last + 1 =>
             ExponentAt(t, l) <= l.last /\ \A k \in ExponentAt(t, l) .. l.last : t[k] \in Codes(10)
        /\ Numeral(t, l) =>
             /\ got.at # ExponentAt(t, l) /\ got.at = l.last + 1
             /\ got.a = Power2(t) /\ ~(got.a > INT_MAX) /\ ~isneg(t, l.cut + 1)
    BY ONLY <1>6, <2>1, <2>2, <2>3, ExponentRead
  <2>5. CASE got.at = i
    <3>1. ~Numeral(t, l)
      BY ONLY <2>3, <2>4, <2>5
    <3>2. npc' = "done" /\ value' = V!Meaning(t)
      BY ONLY <1>2, <1>6, <1>11, <2>5, <3>1
    <3>3. SameNumber(value', V!Meaning(t))
      BY ONLY <3>2, SameItself
    <3> QED
      BY ONLY <3>2, <3>3
  <2>6. CASE got.at # i
    <3>1. npc' = "scale" /\ endptr' = got.at
      BY ONLY <1>2, <1>11, <2>6
    <3>2. ASSUME Numeral(t, l) PROVE endptr' = l.last + 1 /\ Scaled(t, l, r.n, 1, e, exp')
      <4>1. exp' = got.a
        BY ONLY <1>2, <1>11, <2>2, <2>4, <2>6, <3>2
      <4> QED
        BY ONLY <1>10, <2>4, <3>1, <3>2, <4>1
    <3>3. ASSUME ~Numeral(t, l) PROVE endptr' \in 1 .. l.last
      <4>1. ReadUpTo(t, l, l.cut, hasdot)
        BY ONLY <1>6, <2>2
      <4>2. ~(got.at = l.last + 1)
        BY ONLY <1>6, <2>2, <2>3, <2>4, <2>6, <3>3, <4>1, StopFacts
      <4> DEFINE g == got.at
                 x == ExponentAt(t, l)
      <4>3. x \in Nat \ {0} /\ g \in x .. l.last + 1 /\ g # l.last + 1
        BY ONLY <2>4, <4>2
      <4> HIDE DEF g, x
      <4>4. g \in 1 .. l.last
        BY ONLY <1>9, <4>3
      <4> QED
        BY ONLY <3>1, <4>4 DEF g
    <3>4. r' = [n |-> r'.n, d |-> r'.d] /\ r'.n = r.n /\ r'.d = 1
      BY ONLY <1>2, <1>6
    <3>5. InScale(t, l)'
      BY ONLY <1>2, <1>6, <3>2, <3>3, <3>4 DEF InScale
    <3> QED
      BY ONLY <3>1, <3>5
  <2> QED
    BY ONLY <2>5, <2>6
<1>12. CASE ~letter
  <2>1. npc' = "scale" /\ endptr' = s /\ exp' = 0
    BY ONLY <1>2, <1>5, <1>6, <1>12
  <2>2. ASSUME Numeral(t, l) PROVE endptr' = l.last + 1 /\ Scaled(t, l, r.n, 1, e, exp')
    <3>1. s = l.cut
      BY ONLY <1>8, <2>2
    <3>2. l.cut = l.last + 1
      <4>1. CASE l.base = 10
        BY ONLY <1>6, <2>2, <4>1, ReadingFacts
      <4>2. CASE l.base = 16
        <5>1. ~(At(t, s) \in {112, 80})
          BY ONLY <1>6, <1>7, <1>12, <4>2 DEF letter
        <5>2. ~(l.cut <= l.last)
          BY ONLY <1>6, <3>1, <4>2, <5>1, t \in Seq(Nat), CutFacts
        <5> QED
          BY ONLY <1>7, <1>9, <5>2
      <4> QED
        BY ONLY <1>7, <4>1, <4>2
    <3>3. Power2(t) = 0
      <4>1. l.cut > l.last
        BY ONLY <1>9, <3>2
      <4> QED
        BY ONLY <1>6, <2>2, <4>1, NumberTypes
    <3> QED
      BY ONLY <1>10, <2>1, <2>2, <3>1, <3>2, <3>3
  <2>3. ASSUME ~Numeral(t, l) PROVE endptr' \in 1 .. l.last
    <3>1. s # l.last + 1
      <4>1. SUFFICES ASSUME s = l.last + 1 PROVE FALSE
        OBVIOUS
      <4>2. s = l.cut /\ ~(l.cut <= l.last)
        BY ONLY <1>7, <1>9, <4>1
      <4>3. ReadUpTo(t, l, l.cut, hasdot)
        BY ONLY <1>6, <4>2
      <4> QED
        BY ONLY <1>6, <2>3, <4>2, <4>3, StopFacts
    <3>2. s \in 1 .. l.last
      BY ONLY <1>7, <1>9, <3>1
    <3> QED
      BY ONLY <2>1, <3>2
  <2>4. r' = [n |-> r'.n, d |-> r'.d] /\ r'.n = r.n /\ r'.d = 1
    BY ONLY <1>2, <1>6
  <2>5. InScale(t, l)'
    BY ONLY <1>2, <1>6, <2>2, <2>3, <2>4 DEF InScale
  <2> QED
    BY ONLY <2>1, <2>5
<1> QED
  BY ONLY <1>11, <1>12

LEMMA ScaledSteps ==
  ASSUME NEW t, NEW l, Reading(t, l), Numeral(t, l),
         NEW nn, NEW dd, NEW ee, NEW xx, Scaled(t, l, nn, dd, ee, xx)
  PROVE  /\ ee \in Int /\ xx \in Nat
         /\ ee > 0 => Scaled(t, l, nn * l.base, dd, ee - 1, xx)
         /\ ee < 0 => Scaled(t, l, nn, dd * l.base, ee + 1, xx)
         /\ xx > 0 => Scaled(t, l, nn * 2, dd, ee, xx - 1)
<1> DEFINE K == Mantissa(t) * V!Power(2, Power2(t))
           b == l.base
           f == Fraction(l)
<1>1. K \in Nat
  BY ONLY Reading(t, l), Numeral(t, l), NumberTypes
<1>2. b \in Nat \ {0} /\ f \in Nat
  <2>1. t \in Seq(Nat) /\ Layout(t, l)
    BY ONLY Reading(t, l) DEF Reading
  <2>2. l.base \in {10, 16} /\ f \in Nat
    BY ONLY <2>1, LayoutTypes
  <2> QED
    BY ONLY <2>2
<1>3. Balance(b, f, K, nn, dd, ee, xx)
  BY ONLY Scaled(t, l, nn, dd, ee, xx) DEF Scaled
<1>4. \A n1, d1, e1, x1 : Balance(b, f, K, n1, d1, e1, x1) => Scaled(t, l, n1, d1, e1, x1)
  BY DEF Scaled
<1> HIDE DEF K, b, f
<1>5. ee \in Int /\ xx \in Nat
  BY ONLY <1>3 DEF Balance
<1>6. /\ ee > 0 => Balance(b, f, K, nn * b, dd, ee - 1, xx)
      /\ ee < 0 => Balance(b, f, K, nn, dd * b, ee + 1, xx)
      /\ xx > 0 => Balance(b, f, K, nn * 2, dd, ee, xx - 1)
  BY ONLY <1>1, <1>2, <1>3, BalanceSteps
<1>7. /\ ee > 0 => Scaled(t, l, nn * b, dd, ee - 1, xx)
      /\ ee < 0 => Scaled(t, l, nn, dd * b, ee + 1, xx)
      /\ xx > 0 => Scaled(t, l, nn * 2, dd, ee, xx - 1)
  BY ONLY <1>4, <1>6
<1> QED
  BY ONLY <1>5, <1>7 DEF b

LEMMA ScaleByBaseInv ==
  ASSUME NEW t \in Seq(Nat), NumeralInv(t), ScaleByBase
  PROVE  NumeralInv(t)'
<1>1. num = V!Numeral(t)
  BY DEF NumeralInv
<1>2. /\ npc = "scale" /\ num' = num /\ npc' = npc /\ base' = base /\ neg' = neg
      /\ endptr' = endptr /\ exp' = exp
      /\ \/ e > 0 /\ e' = e - 1 /\ r' = [r EXCEPT !.n = @ * base]
         \/ e < 0 /\ e' = e + 1 /\ r' = [r EXCEPT !.d = @ * base]
  BY ONLY ScaleByBase DEF ScaleByBase
<1>3. SUFFICES ASSUME V!Shapes(t) = {} PROVE (\E l : InScale(t, l))'
  <2>1. num' = V!Numeral(t) /\ npc' = "scale"
    BY ONLY <1>1, <1>2
  <2> QED
    BY ONLY <2>1, <1>3 DEF NumeralInv
<1>4. PICK l : InScale(t, l)
  BY ONLY NumeralInv(t), <1>2, <1>3 DEF NumeralInv
<1>5. /\ Reading(t, l) /\ base = l.base /\ neg = isneg(t, l.first)
      /\ r = [n |-> r.n, d |-> r.d]
      /\ Numeral(t, l) => endptr = l.last + 1 /\ Scaled(t, l, r.n, r.d, e, exp)
      /\ ~Numeral(t, l) => endptr \in 1 .. l.last
  BY ONLY <1>4 DEF InScale
<1>6. CASE e > 0 /\ e' = e - 1 /\ r' = [r EXCEPT !.n = @ * base]
  <2>1. r' = [n |-> r.n * l.base, d |-> r.d]
    BY ONLY <1>5, <1>6
  <2>2. r' = [n |-> r'.n, d |-> r'.d] /\ r'.n = r.n * l.base /\ r'.d = r.d
    BY ONLY <2>1
  <2>3. Numeral(t, l) => Scaled(t, l, r.n * l.base, r.d, e - 1, exp)
    BY ONLY <1>5, <1>6, ScaledSteps
  <2>4. InScale(t, l)'
    BY ONLY <1>2, <1>5, <1>6, <2>2, <2>3 DEF InScale
  <2> QED
    BY ONLY <2>4
<1>7. CASE e < 0 /\ e' = e + 1 /\ r' = [r EXCEPT !.d = @ * base]
  <2>1. r' = [n |-> r.n, d |-> r.d * l.base]
    BY ONLY <1>5, <1>7
  <2>2. r' = [n |-> r'.n, d |-> r'.d] /\ r'.n = r.n /\ r'.d = r.d * l.base
    BY ONLY <2>1
  <2>3. Numeral(t, l) => Scaled(t, l, r.n, r.d * l.base, e + 1, exp)
    BY ONLY <1>5, <1>7, ScaledSteps
  <2>4. InScale(t, l)'
    BY ONLY <1>2, <1>5, <1>7, <2>2, <2>3 DEF InScale
  <2> QED
    BY ONLY <2>4
<1> QED
  BY ONLY <1>2, <1>6, <1>7

LEMMA ScaleByTwoInv ==
  ASSUME NEW t \in Seq(Nat), NumeralInv(t), ScaleByTwo
  PROVE  NumeralInv(t)'
<1>1. num = V!Numeral(t)
  BY DEF NumeralInv
<1>2. /\ npc = "scale" /\ num' = num /\ npc' = npc /\ base' = base /\ neg' = neg
      /\ endptr' = endptr /\ e' = e /\ e = 0
      /\ \/ exp > 0 /\ exp' = exp - 1 /\ r' = [r EXCEPT !.n = @ * 2]
         \/ exp < 0 /\ r' = [r EXCEPT !.d = @ * 2]
  BY ONLY ScaleByTwo DEF ScaleByTwo
<1>3. SUFFICES ASSUME V!Shapes(t) = {} PROVE (\E l : InScale(t, l))'
  <2>1. num' = V!Numeral(t) /\ npc' = "scale"
    BY ONLY <1>1, <1>2
  <2> QED
    BY ONLY <2>1, <1>3 DEF NumeralInv
<1>4. PICK l : InScale(t, l)
  BY ONLY NumeralInv(t), <1>2, <1>3 DEF NumeralInv
<1>5. /\ Reading(t, l) /\ base = l.base /\ neg = isneg(t, l.first)
      /\ r = [n |-> r.n, d |-> r.d]
      /\ Numeral(t, l) => endptr = l.last + 1 /\ Scaled(t, l, r.n, r.d, e, exp)
      /\ ~Numeral(t, l) => endptr \in 1 .. l.last
  BY ONLY <1>4 DEF InScale
<1>6. r' = [n |-> r'.n, d |-> r'.d]
  <2>1. CASE r' = [r EXCEPT !.n = @ * 2]
    <3>1. r' = [n |-> r.n * 2, d |-> r.d]
      BY ONLY <1>5, <2>1
    <3> QED
      BY ONLY <3>1
  <2>2. CASE r' = [r EXCEPT !.d = @ * 2]
    <3>1. r' = [n |-> r.n, d |-> r.d * 2]
      BY ONLY <1>5, <2>2
    <3> QED
      BY ONLY <3>1
  <2> QED
    BY ONLY <1>2, <2>1, <2>2
<1>7. ASSUME Numeral(t, l) PROVE Scaled(t, l, r'.n, r'.d, e', exp')
  <2>1. /\ exp \in Nat /\ exp > 0 => Scaled(t, l, r.n * 2, r.d, e, exp - 1)
    BY ONLY <1>5, <1>7, ScaledSteps
  <2>2. exp > 0 /\ exp' = exp - 1 /\ r' = [r EXCEPT !.n = @ * 2]
    <3>1. exp \in Nat
      BY ONLY <1>5, <1>7, ScaledSteps
    <3>2. ~(exp < 0)
      BY ONLY <3>1
    <3> QED
      BY ONLY <1>2, <3>2
  <2>3. r' = [n |-> r.n * 2, d |-> r.d]
    BY ONLY <1>5, <2>2
  <2>4. r'.n = r.n * 2 /\ r'.d = r.d
    BY ONLY <2>3
  <2>5. exp \in Nat
    BY ONLY <1>5, <1>7, ScaledSteps
  <2>6. Scaled(t, l, r.n * 2, r.d, e, exp - 1)
    BY ONLY <2>1, <2>2, <2>5
  <2> QED
    BY ONLY <1>2, <2>2, <2>4, <2>6
<1>8. InScale(t, l)'
  BY ONLY <1>2, <1>5, <1>6, <1>7 DEF InScale
<1> QED
  BY ONLY <1>8

(* The exponent of a numeral that is read is no int below zero.            *)
LEMMA ScaleBelowMinInv ==
  ASSUME NEW t \in Seq(Nat), NumeralInv(t), ScaleBelowMin
  PROVE  NumeralInv(t)'
<1>1. num = V!Numeral(t)
  BY DEF NumeralInv
<1>2. /\ npc = "scale" /\ num' = num /\ base' = base /\ neg' = neg
      /\ endptr' = endptr /\ exp = INT_MIN
      /\ \/ r' = [n |-> 0, d |-> 1] /\ npc' = npc
         \/ npc' = "hangs"
  BY ONLY ScaleBelowMin DEF ScaleBelowMin
<1>3. SUFFICES ASSUME V!Shapes(t) = {}, npc' = "scale", r' = [n |-> 0, d |-> 1]
               PROVE  (\E l : InScale(t, l))'
  <2>1. num' = V!Numeral(t)
    BY ONLY <1>1, <1>2
  <2>2. npc' = "hangs" \/ (npc' = "scale" /\ r' = [n |-> 0, d |-> 1])
    BY ONLY <1>2
  <2> QED
    BY ONLY <2>1, <2>2, <1>3 DEF NumeralInv
<1>4. PICK l : InScale(t, l)
  BY ONLY NumeralInv(t), <1>2, <1>3 DEF NumeralInv
<1>5. /\ Reading(t, l) /\ base = l.base /\ neg = isneg(t, l.first)
      /\ Numeral(t, l) => Scaled(t, l, r.n, r.d, e, exp)
      /\ ~Numeral(t, l) => endptr \in 1 .. l.last
  BY ONLY <1>4 DEF InScale
<1>6. ~Numeral(t, l)
  <2>1. Numeral(t, l) => exp \in Nat
    BY ONLY <1>5, ScaledSteps
  <2>2. INT_MIN \notin Nat
    BY ONLY NumeralsAssumption DEF INT_MIN
  <2> QED
    BY ONLY <1>2, <2>1, <2>2
<1>7. InScale(t, l)'
  BY ONLY <1>2, <1>3, <1>5, <1>6 DEF InScale
<1> QED
  BY ONLY <1>7

LEMMA EndStrtodInv ==
  ASSUME NEW t \in Seq(Nat), NumeralInv(t), EndStrtod
  PROVE  NumeralInv(t)'
<1>1. num = V!Numeral(t) /\ num.text = t
  BY NumeralText DEF NumeralInv
<1>2. /\ npc = "scale" /\ e = 0 /\ exp = 0 /\ npc' = "done" /\ num' = num
      /\ value' = IF AfterSpaces(t, endptr) = Len(t) + 1
                  THEN [float |-> [r EXCEPT !.n = IF neg THEN -@ ELSE @]]
                  ELSE [fails |-> TRUE]
  BY ONLY EndStrtod, <1>1 DEF EndStrtod
<1>3. SUFFICES ASSUME V!Shapes(t) = {} PROVE SameNumber(value', V!Meaning(t))
  <2>1. num' = V!Numeral(t)
    BY ONLY <1>1, <1>2
  <2> QED
    BY ONLY <1>2, <2>1, <1>3 DEF NumeralInv
<1>4. PICK l : InScale(t, l)
  BY ONLY NumeralInv(t), <1>2, <1>3 DEF NumeralInv
<1>5. /\ Reading(t, l) /\ Layout(t, l) /\ base = l.base /\ neg = isneg(t, l.first)
      /\ r = [n |-> r.n, d |-> r.d]
      /\ Numeral(t, l) => endptr = l.last + 1 /\ Scaled(t, l, r.n, r.d, 0, 0)
      /\ ~Numeral(t, l) => endptr \in 1 .. l.last
      /\ ~Numeral(t, l) => V!Meaning(t) = [fails |-> TRUE]
  BY ONLY <1>2, <1>4 DEF InScale, Reading
<1>6. l.last \in Nat /\ Len(t) \in Nat /\ l.last <= Len(t)
  BY ONLY <1>5, t \in Seq(Nat), LayoutTypes
<1>7. \A i \in 1 .. Len(t) + 1 : AfterSpaces(t, i) = Len(t) + 1 <=> i > l.last
  BY ONLY <1>5 DEF Layout, Bounds
<1>8. CASE Numeral(t, l)
  <2>1. endptr \in 1 .. Len(t) + 1 /\ endptr > l.last
    BY ONLY <1>5, <1>6, <1>8
  <2>2. value' = [float |-> [r EXCEPT !.n = IF neg THEN -@ ELSE @]]
    BY ONLY <1>2, <1>7, <2>1
  <2>3. [r EXCEPT !.n = IF neg THEN -@ ELSE @]
          = [n |-> IF isneg(t, l.first) THEN -r.n ELSE r.n, d |-> r.d]
    BY ONLY <1>5
  <2>4. value' = [float |-> [n |-> Signed(r.n, isneg(t, l.first)), d |-> r.d]]
    BY ONLY <2>2, <2>3 DEF Signed
  <2>5. SameNumber([float |-> [n |-> Signed(r.n, isneg(t, l.first)), d |-> r.d]], V!Meaning(t))
    BY ONLY <1>5, <1>8, ScaleEnd
  <2> QED
    BY ONLY <2>4, <2>5
<1>9. CASE ~Numeral(t, l)
  <2>1. endptr \in 1 .. Len(t) + 1 /\ ~(endptr > l.last)
    BY ONLY <1>5, <1>6, <1>9
  <2>2. value' = V!Meaning(t)
    BY ONLY <1>2, <1>5, <1>7, <1>9, <2>1
  <2> QED
    BY ONLY <2>2, SameItself
<1> QED
  BY ONLY <1>8, <1>9

-----------------------------------------------------------------------------
(* The theorem.                                                            *)

(* luaO_str2num of any one text.  The counters of strtod are C ints, so    *)
(* nothing is said of texts longer than an int can count.                  *)
NumeralsSpec ==
  /\ \E t \in Seq(Nat) : Len(t) <= INT_MAX /\ NumeralsInit(V!Numeral(t))
  /\ [][NumeralsNext]_numeralVars

LEMMA NumeralsStep ==
  ASSUME NEW t \in Seq(Nat), NumeralInv(t), [NumeralsNext]_numeralVars
  PROVE  NumeralInv(t)'
<1>1. CASE UNCHANGED numeralVars
  BY <1>1, StutterInv
<1>2. CASE Str2Int
  BY <1>2, Str2IntInv
<1>3. CASE Strtod
  BY <1>3, StrtodInv
<1>4. CASE ReadDot
  BY <1>4, ReadDotInv
<1>5. CASE ReadDigit
  BY <1>5, ReadDigitInv
<1>6. CASE EndDigits
  BY <1>6, EndDigitsInv
<1>7. CASE Exponent
  BY <1>7, ExponentInv
<1>8. CASE ScaleByBase
  BY <1>8, ScaleByBaseInv
<1>9. CASE ScaleByTwo
  BY <1>9, ScaleByTwoInv
<1>10. CASE ScaleBelowMin
  BY <1>10, ScaleBelowMinInv
<1>11. CASE EndStrtod
  BY <1>11, EndStrtodInv
<1> QED
  BY <1>1, <1>2, <1>3, <1>4, <1>5, <1>6, <1>7, <1>8, <1>9, <1>10, <1>11 DEF NumeralsNext

SomeText == \E t \in Seq(Nat) : NumeralInv(t)

(* luaO_str2num, with l_str2int and the strtod of the TA build, gives      *)
(* every text its meaning by the grammar of numerals: an integer exactly   *)
(* if it fits, otherwise the float it denotes to MAXDIG digits, and what   *)
(* is no numeral is rejected.  Only of the six shapes of text that strtod  *)
(* treats differently is nothing said.                                     *)
THEOREM NumeralsAreConverted == NumeralsSpec => []NumeralsConvert
<1>1. (\E t \in Seq(Nat) : Len(t) <= INT_MAX /\ NumeralsInit(V!Numeral(t))) => SomeText
  BY InitInv DEF SomeText
<1>2. SomeText /\ [NumeralsNext]_numeralVars => SomeText'
  <2> SUFFICES ASSUME SomeText, [NumeralsNext]_numeralVars PROVE SomeText'
    OBVIOUS
  <2>1. PICK t \in Seq(Nat) : NumeralInv(t)
    BY DEF SomeText
  <2>2. NumeralInv(t)'
    BY <2>1, NumeralsStep
  <2> QED
    BY <2>2 DEF SomeText
<1>3. SomeText => NumeralsConvert
  <2> SUFFICES ASSUME SomeText PROVE NumeralsConvert
    OBVIOUS
  <2>1. PICK t \in Seq(Nat) : NumeralInv(t)
    BY DEF SomeText
  <2> QED
    BY <2>1, NumeralText DEF NumeralInv, NumeralsConvert
<1> QED
  BY <1>1, <1>2, <1>3, PTL DEF NumeralsSpec
=============================================================================
