-------------------------- MODULE LuaTable_proofs --------------------------
(***************************************************************************)
(* Proofs about LuaTable, for any keys, any values, any size of the array  *)
(* part and tables of any size.                                            *)
(***************************************************************************)
EXTENDS LuaTable, FiniteSetTheorems, TLAPS

-----------------------------------------------------------------------------
(* Induction over the naturals, with sets in place of predicates.          *)

(* A nonempty set of naturals has a least element.                         *)
LEMMA LeastNat ==
  ASSUME NEW S \in SUBSET Nat, S # {}
  PROVE  \E m \in S : \A k \in S : m <= k
<1> DEFINE R == StrictSubsetOrdering(Nat)
           F == FiniteSubsetsOf(Nat)
           T == {0 .. n : n \in S}
<1>1. IsWellFoundedOn(R, F)
  BY FS_StrictSubsetOrderingWellFounded
<1>2. T \subseteq F
  <2> SUFFICES ASSUME NEW n \in S PROVE 0 .. n \in F
    OBVIOUS
  <2>1. n \in Nat /\ 0 \in Int /\ n \in Int
    OBVIOUS
  <2>2. IsFiniteSet(0 .. n)
    BY <2>1, FS_Interval
  <2>3. QED
    BY <2>2 DEF FiniteSubsetsOf
<1>3. T # {}
  OBVIOUS
<1> HIDE DEF R, F
<1>4. PICK x \in T : \A y \in T : ~ (<<y, x>> \in R)
  BY <1>1, <1>2, <1>3, WFMin
<1>5. PICK m \in S : x = 0 .. m
  BY <1>4
<1>6. ASSUME NEW k \in S, k < m PROVE FALSE
  <2>1. 0 .. k \subseteq 0 .. m /\ m \in 0 .. m /\ m \notin 0 .. k
    BY <1>6
  <2>2. <<0 .. k, 0 .. m>> \in R
    BY <2>1 DEF R, StrictSubsetOrdering
  <2>3. QED
    BY <1>4, <1>5, <2>2
<1>7. QED
  BY <1>6

(* A set that holds 0 and the successor of every member holds all naturals. *)
LEMMA NatSet ==
  ASSUME NEW S, 0 \in S, \A n \in Nat : n \in S => n + 1 \in S
  PROVE  \A n \in Nat : n \in S
<1> SUFFICES ASSUME NEW n \in Nat, n \notin S PROVE FALSE
  OBVIOUS
<1> DEFINE B == {k \in Nat : k \notin S}
<1>1. B \in SUBSET Nat /\ B # {}
  OBVIOUS
<1> HIDE DEF B
<1>2. PICK m \in B : \A k \in B : m <= k
  BY <1>1, LeastNat
<1>3. m \in Nat /\ m # 0 /\ m \notin S
  BY <1>2 DEF B
<1>4. m - 1 \in Nat /\ m - 1 \notin B
  BY <1>2, <1>3
<1>5. QED
  BY <1>3, <1>4 DEF B

(* Min and Max return the least and the greatest member.                   *)
LEMMA MinFacts ==
  ASSUME NEW S \in SUBSET Nat, S # {}
  PROVE  Min(S) \in S /\ \A k \in S : Min(S) <= k
<1>1. \E m \in S : \A k \in S : m <= k
  BY LeastNat
<1>2. QED
  BY <1>1 DEF Min

LEMMA MaxFacts ==
  ASSUME NEW S \in SUBSET Nat, S # {}, NEW b \in Nat, \A k \in S : k <= b
  PROVE  Max(S) \in S /\ \A k \in S : k <= Max(S)
<1> DEFINE T == {b - k : k \in S}
<1>1. T \in SUBSET Nat /\ T # {}
  <2>1. \A k \in S : b - k \in Nat
    OBVIOUS
  <2>2. QED
    BY <2>1
<1>2. PICK m \in T : \A k \in T : m <= k
  <2> HIDE DEF T
  <2>1. QED
    BY <1>1, LeastNat
<1>3. PICK x \in S : m = b - x
  BY <1>2
<1>4. \A k \in S : k <= x
  BY <1>2, <1>3
<1>5. QED
  BY <1>4 DEF Max

-----------------------------------------------------------------------------
(* Powers of two.                                                          *)

LEMMA PowerSet ==
  ASSUME NEW n \in Nat
  PROVE  /\ IsFiniteSet(SUBSET (1 .. n)) /\ Cardinality(SUBSET (1 .. n)) = 2^n
         /\ 2^n \in Nat
<1>1. IsFiniteSet(1 .. n) /\ Cardinality(1 .. n) = n
  BY FS_Interval
<1>2. IsFiniteSet(SUBSET (1 .. n)) /\ Cardinality(SUBSET (1 .. n)) = 2^Cardinality(1 .. n)
  BY <1>1, FS_SUBSET
<1>3. QED
  BY <1>1, <1>2, FS_CardinalityType

LEMMA PowerIncreases ==
  ASSUME NEW i \in Nat, NEW j \in Nat, i < j
  PROVE  2^i < 2^j
<1> DEFINE A == SUBSET (1 .. i)  B == SUBSET (1 .. j)
<1>1. A \subseteq B /\ {j} \in B /\ {j} \notin A
  OBVIOUS
<1>2. IsFiniteSet(B) /\ Cardinality(A) = 2^i /\ Cardinality(B) = 2^j /\ 2^i \in Nat /\ 2^j \in Nat
  BY PowerSet
<1> HIDE DEF A, B
<1>3. Cardinality(A) <= Cardinality(B) /\ (Cardinality(A) = Cardinality(B) => A = B)
  BY <1>1, <1>2, FS_Subset
<1>4. QED
  BY <1>1, <1>2, <1>3

LEMMA PowerBounds ==
  ASSUME NEW n \in Nat
  PROVE  2^n \in Nat /\ n < 2^n
<1> DEFINE S == {m \in Nat : m < 2^m}
<1>1. 0 \in S
  OBVIOUS
<1>2. ASSUME NEW m \in Nat, m \in S PROVE m + 1 \in S
  <2>1. m + 1 \in Nat
    OBVIOUS
  <2>2a. 2^m \in Nat /\ 2^(m + 1) \in Nat
    BY <2>1, PowerSet
  <2>2. 2^m < 2^(m + 1)
    BY PowerIncreases
  <2>3. QED
    BY <1>2, <2>1, <2>2a, <2>2
<1> HIDE DEF S
<1>3. n \in S
  BY <1>1, <1>2, NatSet
<1>4. QED
  BY <1>3, PowerSet DEF S

(* luaO_ceillog2: the least power of two that is not smaller.              *)
LEMMA CeilLog2Facts ==
  ASSUME NEW x \in Nat
  PROVE  CeilLog2(x) \in Nat /\ x <= 2^CeilLog2(x)
<1> DEFINE S == {i \in 0 .. x : x <= 2^i}
<1>1. x \in S /\ S \in SUBSET Nat
  BY PowerBounds
<1> HIDE DEF S
<1>2. PICK m \in S : \A k \in S : m <= k
  BY <1>1, LeastNat
<1>3. m \in 0 .. x /\ x <= 2^m
  BY <1>2 DEF S
<1>4. m # 0 => 2^(m - 1) < x
  <2>1. m # 0 => m - 1 \in 0 .. x /\ m - 1 \notin S /\ m - 1 \in Nat
    BY <1>2, <1>3
  <2>2. m # 0 => 2^(m - 1) \in Nat
    BY <2>1, PowerSet
  <2>3. QED
    BY <2>1, <2>2 DEF S
<1>5. CeilLog2(x) \in 0 .. x /\ x <= 2^CeilLog2(x)
  BY <1>3, <1>4 DEF CeilLog2
<1>6. QED
  BY <1>5

-----------------------------------------------------------------------------
(* Recursive functions have the values their equations state.              *)

Iteration(a, step, n) ==
  LET at[i \in 0 .. n] == IF i = 0 THEN a ELSE step[at[i - 1]] IN at

LEMMA Iterates ==
  ASSUME NEW a, NEW step, NEW n \in Nat
  PROVE  /\ Iteration(a, step, n)[0] = a
         /\ \A i \in 0 .. n - 1 :
               Iteration(a, step, n)[i + 1] = step[Iteration(a, step, n)[i]]
<1> DEFINE G(g, m) == g = [i \in 0 .. m |-> IF i = 0 THEN a ELSE step[g[i - 1]]]
           S == {m \in Nat : \E g : G(g, m)}
           at[i \in 0 .. n] == IF i = 0 THEN a ELSE step[at[i - 1]]
<1>1. 0 \in S
  <2>1. G([i \in 0 .. 0 |-> a], 0)
    OBVIOUS
  <2>2. QED
    BY <2>1
<1>2. ASSUME NEW m \in Nat, m \in S PROVE m + 1 \in S
  <2>1. PICK g : G(g, m)
    BY <1>2
  <2> DEFINE h == [i \in 0 .. m + 1 |-> IF i <= m THEN g[i] ELSE step[g[m]]]
  <2>2. \A i \in 0 .. m : h[i] = g[i]
    OBVIOUS
  <2>3. \A i \in 0 .. m + 1 : h[i] = IF i = 0 THEN a ELSE step[h[i - 1]]
    <3> SUFFICES ASSUME NEW i \in 0 .. m + 1 PROVE h[i] = IF i = 0 THEN a ELSE step[h[i - 1]]
      OBVIOUS
    <3>1. CASE i = 0
      BY <2>1, <3>1
    <3>2. CASE i # 0 /\ i <= m
      <4>1. g[i] = step[g[i - 1]]
        BY <2>1, <3>2
      <4>2. i - 1 \in 0 .. m
        BY <3>2
      <4>3. QED
        BY <2>2, <3>2, <4>1, <4>2
    <3>3. CASE i = m + 1
      BY <2>2, <3>3
    <3>4. QED
      BY <3>1, <3>2, <3>3
  <2>4. h = [i \in 0 .. m + 1 |-> IF i = 0 THEN a ELSE step[h[i - 1]]]
    BY <2>3
  <2>5. G(h, m + 1)
    BY <2>4
  <2>6. \E k : G(k, m + 1)
    <3> HIDE DEF G, h
    <3>1. QED
      BY <2>5
  <2>7. QED
    <3> HIDE DEF G
    <3>1. QED
      BY <2>6
<1>3. n \in S
  <2> HIDE DEF S
  <2>1. QED
    BY <1>1, <1>2, NatSet
<1>4. at = [i \in 0 .. n |-> IF i = 0 THEN a ELSE step[at[i - 1]]]
  BY <1>3
<1>5. at[0] = a /\ \A i \in 0 .. n - 1 : at[i + 1] = step[at[i]]
  <2> HIDE DEF at
  <2>1. \A i \in 0 .. n : at[i] = IF i = 0 THEN a ELSE step[at[i - 1]]
    BY <1>4
  <2>2. 0 \in 0 .. n /\ \A i \in 0 .. n - 1 : i + 1 \in 0 .. n /\ i + 1 # 0 /\ (i + 1) - 1 = i
    OBVIOUS
  <2>3. QED
    BY <2>1, <2>2
<1>6. at = Iteration(a, step, n)
  BY DEF Iteration
<1>7. QED
  BY ONLY <1>5, <1>6

-----------------------------------------------------------------------------
(* Chains.  Reachability is stated with sets of nodes that next does not   *)
(* leave: a node is reached when every such set around the start holds it. *)

LinkOf(s, n) == n + s.node[n].next

Closed(s, C) == \A x \in C : LinkOf(s, x) \in C

Reaches(s, a, b) ==
  \A C \in SUBSET DOMAIN s.node : a \in C /\ Closed(s, C) => b \in C

(* No links leave the nodes and no cycle of links exists.                  *)
Sized(s) ==
  \E k \in Nat : k # 0 /\ DOMAIN s.node = 0 .. k - 1

LinksInside(s) ==
  \A n \in DOMAIN s.node : s.node[n].next \in Int /\ LinkOf(s, n) \in DOMAIN s.node

ChainsEnd(s) ==
  \A C \in SUBSET DOMAIN s.node :
    C # {} /\ Closed(s, C) => \E x \in C : s.node[x].next = 0

ChainShape(s) == Sized(s) /\ LinksInside(s) /\ ChainsEnd(s)

LEMMA SizeFacts ==
  ASSUME NEW s, Sized(s)
  PROVE  /\ Sizenode(s) \in Nat /\ Sizenode(s) # 0
         /\ DOMAIN s.node = 0 .. Sizenode(s) - 1
         /\ IsFiniteSet(DOMAIN s.node)
         /\ Cardinality(DOMAIN s.node) = Sizenode(s)
<1>1. PICK k \in Nat : k # 0 /\ DOMAIN s.node = 0 .. k - 1
  BY DEF Sized
<1>2. IsFiniteSet(0 .. k - 1) /\ Cardinality(0 .. k - 1) = k
  <2>1. 0 \in Int /\ k - 1 \in Int
    BY <1>1
  <2>2. IsFiniteSet(0 .. k - 1) /\ Cardinality(0 .. k - 1) = IF 0 > k - 1 THEN 0 ELSE (k - 1) - 0 + 1
    BY <2>1, FS_Interval
  <2>3. QED
    BY <2>2, <1>1
<1>3. QED
  BY <1>1, <1>2 DEF Sizenode

(* Until stops at the first node of stops, or where the chain ends.        *)
StopsRight(s, n, X, m) ==
  /\ m \in DOMAIN s.node
  /\ Reaches(s, n, m)
  /\ m \in X \/ s.node[m].next = 0
  /\ m \notin X => \A x \in X : ~Reaches(s, n, x)
  /\ \A x \in X : Reaches(s, n, x) => Reaches(s, m, x)

LEMMA UntilFacts ==
  ASSUME NEW s, ChainShape(s), NEW n \in DOMAIN s.node, NEW X \in SUBSET DOMAIN s.node
  PROVE  StopsRight(s, n, X, Until(s, n, X))
<1> DEFINE N == DOMAIN s.node
           K == Sizenode(s)
           step == [m \in N |-> IF m \in X THEN m ELSE m + s.node[m].next]
           at[i \in 0 .. K] == IF i = 0 THEN n ELSE step[at[i - 1]]
           m == at[K]
<1>1. /\ K \in Nat /\ K # 0 /\ N = 0 .. K - 1
      /\ IsFiniteSet(N) /\ Cardinality(N) = K
  BY SizeFacts DEF ChainShape
<1>2. at[0] = n /\ \A i \in 0 .. K - 1 : at[i + 1] = step[at[i]]
  <2>1. at = Iteration(n, step, K)
    BY DEF Iteration
  <2> HIDE DEF step, at, K
  <2>2. QED
    BY <2>1, <1>1, Iterates
<1>3. Until(s, n, X) = m
  BY DEF Until
<1> HIDE DEF K, at
<1>4. \A x \in N : step[x] \in N
  BY DEF ChainShape, LinksInside, LinkOf
<1>5. \A i \in 0 .. K : at[i] \in N
  <2> DEFINE S == {i \in Nat : i <= K => at[i] \in N}
  <2>1. 0 \in S
    BY <1>2
  <2>2. ASSUME NEW i \in Nat, i \in S PROVE i + 1 \in S
    <3> SUFFICES ASSUME i + 1 <= K PROVE at[i + 1] \in N
      OBVIOUS
    <3>1. i \in 0 .. K - 1 /\ at[i] \in N
      BY <2>2, <1>1
    <3>2. QED
      BY <3>1, <1>2, <1>4
  <2> HIDE DEF S
  <2>3. \A i \in Nat : i \in S
    BY <2>1, <2>2, NatSet
  <2>4. QED
    BY <2>3, <1>1 DEF S
<1>6. ASSUME NEW i \in 0 .. K, step[at[i]] = at[i] PROVE m = at[i]
  <2> DEFINE S == {j \in Nat : i + j <= K => at[i + j] = at[i]}
  <2>1. 0 \in S
    OBVIOUS
  <2>2. ASSUME NEW j \in Nat, j \in S PROVE j + 1 \in S
    <3> SUFFICES ASSUME i + (j + 1) <= K PROVE at[i + (j + 1)] = at[i]
      OBVIOUS
    <3>1. i + j \in 0 .. K - 1 /\ at[i + j] = at[i] /\ i + (j + 1) = (i + j) + 1
      BY <2>2, <1>1
    <3>2. QED
      BY <3>1, <1>2, <1>6
  <2> HIDE DEF S
  <2>3. \A j \in Nat : j \in S
    BY <2>1, <2>2, NatSet
  <2>4. K - i \in Nat /\ K - i \in S /\ i + (K - i) = K
    BY <2>3, <1>1
  <2>5. QED
    BY <2>4, <1>1 DEF S
<1>7. \A x \in N : step[x] = x <=> (x \in X \/ s.node[x].next = 0)
  BY <1>1 DEF ChainShape, LinksInside
<1>8. \A x \in N : x \notin X => step[x] = LinkOf(s, x)
  BY DEF LinkOf
<1> HIDE DEF step
<1>9. step[m] = m
  <2> SUFFICES ASSUME step[m] # m PROVE FALSE
    OBVIOUS
  <2>1. \A i \in 0 .. K : step[at[i]] # at[i]
    BY <1>6
  <2> DEFINE g == [i \in 0 .. K |-> at[i]]
  <2>2. PICK i, j \in 0 .. K : i # j /\ g[i] = g[j]
    <3>1. g \in [0 .. K -> N]
      BY <1>5
    <3>2. IsFiniteSet(0 .. K) /\ Cardinality(0 .. K) = K + 1
      <4>1. 0 \in Int /\ K \in Int
        BY <1>1
      <4>2. IsFiniteSet(0 .. K) /\ Cardinality(0 .. K) = IF 0 > K THEN 0 ELSE K - 0 + 1
        BY <4>1, FS_Interval
      <4>3. QED
        BY <4>2, <1>1
    <3>3. Cardinality(N) < Cardinality(0 .. K)
      BY <3>2, <1>1
    <3> HIDE DEF g, N
    <3>4. QED
      BY <3>1, <3>2, <3>3, <1>1, FS_PigeonHole, ZenonT(40)
  <2>3. PICK a \in 0 .. K, b \in 0 .. K : a < b /\ at[a] = at[b]
    BY <2>2
  <2> DEFINE C == {at[x] : x \in a .. b - 1}
  <2>4. Closed(s, C)
    <3> SUFFICES ASSUME NEW x \in a .. b - 1 PROVE LinkOf(s, at[x]) \in C
      BY DEF Closed
    <3>1. x \in 0 .. K - 1 /\ x \in 0 .. K
      BY <1>1
    <3>2. at[x] \in N /\ step[at[x]] # at[x]
      BY <3>1, <2>1, <1>5
    <3>3. LinkOf(s, at[x]) = at[x + 1]
      BY <3>1, <3>2, <1>2, <1>7, <1>8
    <3>4. CASE x = b - 1
      <4>1. at[x + 1] = at[a] /\ a \in a .. b - 1
        BY <3>4, <2>3, <1>1
      <4>2. QED
        BY <4>1, <3>3
    <3>5. CASE x # b - 1
      <4>1. x + 1 \in a .. b - 1
        BY <3>5
      <4>2. QED
        BY <4>1, <3>3
    <3>6. QED
      BY <3>4, <3>5
  <2>5. C # {} /\ C \in SUBSET N
    <3>1. a \in a .. b - 1
      BY <2>3
    <3>2. \A x \in a .. b - 1 : at[x] \in N
      BY <1>5, <1>1
    <3>3. QED
      BY <3>1, <3>2
  <2>6. PICK y \in C : s.node[y].next = 0
    <3> HIDE DEF C
    <3>1. QED
      BY <2>4, <2>5 DEF ChainShape, ChainsEnd
  <2>7. PICK x \in a .. b - 1 : y = at[x]
    OBVIOUS
  <2>8. x \in 0 .. K
    BY <1>1
  <2>9. QED
    BY <2>6, <2>7, <2>8, <2>1, <1>5, <1>7
<1> DEFINE C == {at[i] : i \in 0 .. K}
<1>10. n \in C /\ m \in C /\ m \in N /\ C \in SUBSET N
  <2>1. 0 \in 0 .. K /\ K \in 0 .. K
    BY <1>1
  <2>2. QED
    BY <2>1, <1>2, <1>5
<1>11. \A x \in C : step[x] \in C
  <2> SUFFICES ASSUME NEW i \in 0 .. K PROVE step[at[i]] \in C
    OBVIOUS
  <2>1. CASE i = K
    BY <2>1, <1>9
  <2>2. CASE i # K
    <3>1. i \in 0 .. K - 1 /\ i + 1 \in 0 .. K
      BY <2>2, <1>1
    <3>2. QED
      BY <3>1, <1>2
  <2>3. QED
    BY <2>1, <2>2
<1>12. \A x \in C : x \in X => x = m
  BY <1>5, <1>6, <1>7
<1>13. Reaches(s, n, m)
  <2> SUFFICES ASSUME NEW D \in SUBSET N, n \in D, Closed(s, D) PROVE m \in D
    BY DEF Reaches
  <2> DEFINE S == {i \in Nat : i <= K => at[i] \in D}
  <2>1. 0 \in S
    BY <1>2
  <2>2. ASSUME NEW i \in Nat, i \in S PROVE i + 1 \in S
    <3> SUFFICES ASSUME i + 1 <= K PROVE at[i + 1] \in D
      OBVIOUS
    <3>1. i \in 0 .. K - 1 /\ at[i] \in D
      BY <2>2, <1>1
    <3>2. step[at[i]] \in D
      BY <3>1, <1>7, <1>8 DEF Closed
    <3>3. QED
      BY <3>1, <3>2, <1>2
  <2> HIDE DEF S
  <2>3. K \in S
    BY <2>1, <2>2, NatSet, <1>1
  <2>4. QED
    BY <2>3, <1>1 DEF S
<1> HIDE DEF C
<1>14. m \notin X => \A x \in X : ~Reaches(s, n, x)
  <2> SUFFICES ASSUME m \notin X, NEW x \in X PROVE ~Reaches(s, n, x)
    OBVIOUS
  <2>1. \A y \in C : y \notin X
    BY <1>12
  <2>2. Closed(s, C)
    BY <2>1, <1>8, <1>10, <1>11 DEF Closed
  <2>3. x \notin C
    BY <2>1
  <2>4. QED
    BY <2>2, <2>3, <1>10 DEF Reaches
<1>15. ASSUME NEW x \in X, Reaches(s, n, x) PROVE Reaches(s, m, x)
  <2> SUFFICES ASSUME NEW D \in SUBSET N, m \in D, Closed(s, D) PROVE x \in D
    BY DEF Reaches
  <2>1. Closed(s, C \cup D)
    <3> SUFFICES ASSUME NEW y \in C \cup D PROVE LinkOf(s, y) \in C \cup D
      BY DEF Closed
    <3>1. CASE y \in D
      BY <3>1 DEF Closed
    <3>2. CASE y \in C /\ y \notin X
      BY <3>2, <1>8, <1>10, <1>11
    <3>3. CASE y \in C /\ y \in X
      BY <3>3, <1>12 DEF Closed
    <3>4. QED
      BY <3>1, <3>2, <3>3
  <2>2. x \in C \cup D
    BY <2>1, <1>10, <1>15 DEF Reaches
  <2>3. QED
    BY <2>2, <1>12
<1>16. QED
  <2>1. m \in X \/ s.node[m].next = 0
    BY <1>7, <1>9, <1>10
  <2>2. QED
    BY ONLY <2>1, <1>3, <1>10, <1>13, <1>14, <1>15 DEF StopsRight

-----------------------------------------------------------------------------
(* Keys of nodes and their main positions.                                 *)

PtrKeys == {k \in NormalKeys : k[1] = "ptr"}
DeadKeys == {DeadKey(k) : k \in PtrKeys}
NodeKeys == NormalKeys \cup DeadKeys \cup {NilKey}
Vals == Values \cup {Nil}

LEMMA KeyFacts ==
  /\ \A k \in NormalKeys : /\ k[1] \in {"int", "flt", "str", "ptr"} /\ k[2] \in Int
                           /\ k = <<k[1], k[2]>> /\ Normal(k) = k
  /\ \A k \in DeadKeys : k[1] = "dead" /\ k[2] \in Int
  /\ \A k \in NodeKeys : k[2] \in Int
  /\ NilKey \notin NormalKeys /\ NilKey \notin DeadKeys
  /\ Off \notin NormalKeys /\ Off # NilKey
  /\ \A k \in NormalKeys : k \notin DeadKeys
  /\ \A k \in Keys : Normal(k) \in NormalKeys
<1>1. ASSUME NEW k \in Keys
      PROVE  /\ Normal(k)[1] \in {"int", "flt", "str", "ptr"} /\ Normal(k)[2] \in Int
             /\ Normal(k) = <<Normal(k)[1], Normal(k)[2]>> /\ Normal(Normal(k)) = Normal(k)
  <2>1. k[1] \in {"int", "flt", "str", "ptr"} /\ k[2] \in Int /\ k = <<k[1], k[2]>>
    BY TableAssumption
  <2>2. CASE k[1] = "flt" /\ k[2] % 2 = 0
    <3>1. k[2] \div 2 \in Int
      BY <2>1
    <3>2. QED
      BY <2>1, <2>2, <3>1 DEF Normal, IntKey
  <2>3. CASE ~(k[1] = "flt" /\ k[2] % 2 = 0)
    <3>1. Normal(k) = k
      BY <2>3 DEF Normal
    <3>2. QED
      BY <2>1, <3>1
  <2>4. QED
    BY <2>2, <2>3
<1>2. \A k \in NormalKeys : /\ k[1] \in {"int", "flt", "str", "ptr"} /\ k[2] \in Int
                            /\ k = <<k[1], k[2]>> /\ Normal(k) = k
  BY <1>1 DEF NormalKeys
<1>3. \A k \in DeadKeys : k[1] = "dead" /\ k[2] \in Int
  BY <1>2 DEF DeadKeys, PtrKeys, DeadKey
<1>4. NilKey[1] = "nil" /\ NilKey[2] = 0 /\ Off[1] = "off"
  BY DEF NilKey, Off
<1>5. QED
  BY <1>2, <1>3, <1>4 DEF NodeKeys, NormalKeys

LEMMA ModBounds ==
  ASSUME NEW a \in Int, NEW m \in Nat, m # 0
  PROVE  a % m \in 0 .. m - 1
OBVIOUS

LEMMA MainPositionInside ==
  ASSUME NEW s, Sized(s), NEW k \in NodeKeys
  PROVE  MainPosition(s, k) \in DOMAIN s.node
<1> DEFINE K == Sizenode(s)
<1>1. K \in Nat /\ K # 0 /\ DOMAIN s.node = 0 .. K - 1
  BY SizeFacts
<1>2. k[2] \in Int
  BY KeyFacts
<1> HIDE DEF K
<1>3. k[2] % K \in 0 .. K - 1
  BY <1>1, <1>2, ModBounds
<1>4. k[2] % (IF K = 1 THEN 1 ELSE K - 1) \in 0 .. K - 1
  <2>1. CASE K = 1
    <3>1. k[2] % 1 \in 0 .. 0
      BY <1>2, ModBounds
    <3>2. QED
      BY <2>1, <3>1
  <2>2. CASE K # 1
    <3> DEFINE L == K - 1
    <3>1. L \in Nat /\ L # 0 /\ L = K - 1
      BY <1>1, <2>2
    <3> HIDE DEF L
    <3>2. k[2] % L \in 0 .. L - 1
      BY <1>2, <3>1, ModBounds
    <3>3. QED
      BY <2>2, <3>1, <3>2
  <2>3. QED
    BY <2>1, <2>2
<1>5. QED
  BY <1>1, <1>3, <1>4 DEF MainPosition, HashPow2, HashMod, K

(* What depends on the links only.                                         *)
LEMMA SameLinks ==
  ASSUME NEW s, NEW r, DOMAIN r.node = DOMAIN s.node,
         \A n \in DOMAIN s.node : r.node[n].next = s.node[n].next
  PROVE  /\ \A C \in SUBSET DOMAIN s.node : Closed(r, C) <=> Closed(s, C)
         /\ \A a, b : Reaches(r, a, b) <=> Reaches(s, a, b)
         /\ ChainShape(s) => ChainShape(r)
         /\ Sizenode(r) = Sizenode(s)
         /\ \A k : MainPosition(r, k) = MainPosition(s, k)
<1>1. \A C \in SUBSET DOMAIN s.node : Closed(r, C) <=> Closed(s, C)
  BY DEF Closed, LinkOf
<1>2. \A a, b : Reaches(r, a, b) <=> Reaches(s, a, b)
  BY <1>1 DEF Reaches
<1>3. ASSUME ChainShape(s) PROVE ChainShape(r)
  <2>1. Sized(r)
    BY <1>3 DEF ChainShape, Sized
  <2>2. LinksInside(r)
    BY <1>3 DEF ChainShape, LinksInside, LinkOf
  <2>3. ChainsEnd(r)
    BY <1>3, <1>1 DEF ChainShape, ChainsEnd
  <2>4. QED
    BY <2>1, <2>2, <2>3 DEF ChainShape
<1>4. Sizenode(r) = Sizenode(s)
  BY DEF Sizenode
<1>5. \A k : MainPosition(r, k) = MainPosition(s, k)
  BY <1>4 DEF MainPosition, HashPow2, HashMod
<1>6. QED
  BY <1>1, <1>2, <1>3, <1>4, <1>5

-----------------------------------------------------------------------------
(* The inductive invariant of a table.                                     *)

NodeSet == [key : NodeKeys, val : Vals, next : Int]
NodeVectors == UNION {[0 .. k - 1 -> NodeSet] : k \in Nat \ {0}}

TableShape(s) ==
  /\ s \in [array : Seq(Vals), node : NodeVectors, dummy : BOOLEAN,
            lastfree : Nat, flags : BOOLEAN]
  /\ s.lastfree <= Sizenode(s)
  /\ Sizearray(s) <= 2^MAXABITS
  /\ \A i \in 1 .. Sizearray(s) : s.array[i] # Nil => IntKey(i) \in NormalKeys

KeyAt(s, n) == s.node[n].key

(* A node without a key has no value and is on no chain.                   *)
FreeNodes(s) ==
  \A n \in DOMAIN s.node : KeyAt(s, n) = NilKey =>
    /\ s.node[n].val = Nil /\ s.node[n].next = 0
    /\ \A m \in DOMAIN s.node : LinkOf(s, m) = n => m = n

(* Chains do not merge.                                                    *)
LinksDistinct(s) ==
  \A n, m \in DOMAIN s.node :
    s.node[n].next # 0 /\ s.node[m].next # 0 /\ LinkOf(s, n) = LinkOf(s, m) => n = m

(* The main position of every key in a node is held by a key whose main    *)
(* position it is: what a colliding node is moved for.                     *)
HeadsOwn(s) ==
  \A n \in DOMAIN s.node : KeyAt(s, n) # NilKey =>
    LET p == MainPosition(s, KeyAt(s, n))
    IN  KeyAt(s, p) # NilKey /\ MainPosition(s, KeyAt(s, p)) = p

(* Every key in a node, dead or alive, is on the chain of its main position. *)
Found(s) ==
  \A n \in DOMAIN s.node : KeyAt(s, n) # NilKey =>
    Reaches(s, MainPosition(s, KeyAt(s, n)), n)

(* No key is stored twice.                                                 *)
KeysUnique(s) ==
  \A n \in DOMAIN s.node : KeyAt(s, n) \in NormalKeys =>
    /\ \A m \in DOMAIN s.node : KeyAt(s, m) = KeyAt(s, n) => m = n
    /\ ~InArray(s, KeyAt(s, n))

DeadEmpty(s) ==
  \A n \in DOMAIN s.node : KeyAt(s, n) \in DeadKeys => s.node[n].val = Nil

(* A key comes before the dead keys of the same address on its chain, so   *)
(* that next finds the entry it returned last.                             *)
NewestFirst(s) ==
  \A n, m \in DOMAIN s.node :
    KeyAt(s, n) \in PtrKeys /\ KeyAt(s, m) = DeadKey(KeyAt(s, n)) => Reaches(s, n, m)

(* lastfree has passed no free node.                                       *)
LastFreeBound(s) ==
  /\ s.dummy => s.node = [n \in 0 .. 0 |-> EmptyNode] /\ s.lastfree = 0
  /\ ~s.dummy => \A n \in DOMAIN s.node : n >= s.lastfree => KeyAt(s, n) # NilKey

ChainInv(s) ==
  /\ ChainShape(s) /\ FreeNodes(s) /\ LinksDistinct(s) /\ HeadsOwn(s) /\ Found(s)
  /\ NewestFirst(s)

TableInv(s) ==
  TableShape(s) /\ ChainInv(s) /\ KeysUnique(s) /\ DeadEmpty(s) /\ LastFreeBound(s)

LEMMA ShapeFacts ==
  ASSUME NEW s, TableShape(s)
  PROVE  /\ Sizenode(s) \in Nat /\ Sizenode(s) # 0
         /\ DOMAIN s.node = 0 .. Sizenode(s) - 1
         /\ s.node \in [DOMAIN s.node -> NodeSet]
         /\ \A n \in DOMAIN s.node :
               KeyAt(s, n) \in NodeKeys /\ s.node[n].val \in Vals /\ s.node[n].next \in Int
         /\ s.array \in Seq(Vals) /\ Sizearray(s) \in Nat /\ s.lastfree \in Nat
         /\ s.dummy \in BOOLEAN /\ s.flags \in BOOLEAN
<1>1. s.node \in NodeVectors /\ s.array \in Seq(Vals) /\ s.lastfree \in Nat
      /\ s.dummy \in BOOLEAN /\ s.flags \in BOOLEAN
  BY DEF TableShape
<1>2. PICK k \in Nat \ {0} : s.node \in [0 .. k - 1 -> NodeSet]
  BY <1>1 DEF NodeVectors
<1>3. Sized(s)
  BY <1>2 DEF Sized
<1>4. s.node \in [DOMAIN s.node -> NodeSet]
  BY <1>2
<1>5. \A n \in DOMAIN s.node :
         KeyAt(s, n) \in NodeKeys /\ s.node[n].val \in Vals /\ s.node[n].next \in Int
  BY <1>4 DEF NodeSet, KeyAt
<1>6. QED
  BY <1>1, <1>3, <1>4, <1>5, SizeFacts DEF Sizearray

-----------------------------------------------------------------------------
(* Searching a chain.                                                      *)

LEMMA ReachesLink ==
  ASSUME NEW s, NEW a, NEW b, Reaches(s, a, b)
  PROVE  Reaches(s, a, LinkOf(s, b))
BY DEF Reaches, Closed

(* Two nodes that reach each other are the same.                           *)
LEMMA ReachesAntisymmetric ==
  ASSUME NEW s, ChainShape(s), NEW a \in DOMAIN s.node, NEW b \in DOMAIN s.node,
         Reaches(s, a, b), Reaches(s, b, a)
  PROVE  a = b
<1> SUFFICES ASSUME a # b PROVE FALSE
  OBVIOUS
<1> DEFINE N == DOMAIN s.node
           D == {x \in N : Reaches(s, a, x) /\ Reaches(s, x, a)}
<1>1. a \in D
  BY DEF Reaches
<1>2. ASSUME NEW x \in D PROVE LinkOf(s, x) \in D
  <2> DEFINE y == LinkOf(s, x)
  <2>1. y \in N /\ Reaches(s, a, y)
    BY ReachesLink DEF ChainShape, LinksInside
  <2>2. ASSUME NEW C \in SUBSET N, y \in C, Closed(s, C) PROVE a \in C
    <3>1. Closed(s, C \cup {x}) /\ C \cup {x} \in SUBSET N
      BY <2>2 DEF Closed
    <3>2. a \in C \cup {x}
      BY <3>1 DEF Reaches
    <3>3. CASE a = x
      <4>1. b \in C \cup {x}
        BY <3>1, <3>2, <3>3 DEF Reaches
      <4>2. b \in C
        BY <4>1, <3>3
      <4>3. QED
        BY <4>2, <2>2 DEF Reaches
    <3>4. QED
      BY <3>2, <3>3
  <2>3. Reaches(s, y, a)
    BY <2>2 DEF Reaches
  <2>4. QED
    BY <2>1, <2>3
<1>3. PICK x \in D : s.node[x].next = 0
  <2>1. Closed(s, D) /\ D # {} /\ D \in SUBSET N
    BY <1>1, <1>2 DEF Closed
  <2> HIDE DEF D
  <2>2. QED
    BY <2>1 DEF ChainShape, ChainsEnd
<1>4. Closed(s, {x}) /\ {x} \in SUBSET N
  BY <1>3 DEF Closed, LinkOf, ChainShape, Sized
<1>5. a = x
  BY <1>3, <1>4 DEF Reaches
<1>6. b = x
  BY <1>4, <1>5 DEF Reaches
<1>7. QED
  BY <1>5, <1>6

LEMMA WalkFacts ==
  ASSUME NEW s, ChainShape(s), NEW n \in DOMAIN s.node, NEW ks
  PROVE  LET m == Walk(s, n, ks)
         IN  /\ m # -1 => m \in DOMAIN s.node /\ KeyAt(s, m) \in ks
             /\ \A x \in DOMAIN s.node : KeyAt(s, x) \in ks /\ Reaches(s, n, x) =>
                   m # -1 /\ Reaches(s, m, x)
<1> DEFINE hits == {m \in DOMAIN s.node : s.node[m].key \in ks}
           end == Until(s, n, hits)
<1>1. StopsRight(s, n, hits, end)
  BY UntilFacts
<1>2. -1 \notin DOMAIN s.node
  BY SizeFacts DEF ChainShape
<1>3. Walk(s, n, ks) = IF end \in hits THEN end ELSE -1
  BY DEF Walk
<1> HIDE DEF end
<1>4. QED
  BY <1>1, <1>2, <1>3 DEF StopsRight, KeyAt

(* What a key is compared with by next: itself or what it died to.         *)
Marks(k) == {k} \cup (IF k[1] = "ptr" THEN {DeadKey(k)} ELSE {})

LEMMA MarksSearch ==
  ASSUME NEW s, TableInv(s), NEW k \in NormalKeys, NEW n \in DOMAIN s.node, KeyAt(s, n) = k
  PROVE  Search(s, k, Marks(k)) = n
<1> DEFINE p == MainPosition(s, k)
           m == Walk(s, p, Marks(k))
<1>1. ChainShape(s) /\ Found(s) /\ KeysUnique(s) /\ NewestFirst(s)
  BY DEF TableInv, ChainInv
<1>2. k \in NodeKeys /\ k # NilKey
  BY KeyFacts DEF NodeKeys
<1>3. p \in DOMAIN s.node
  BY <1>1, <1>2, MainPositionInside DEF ChainShape
<1>4. Reaches(s, p, n)
  BY <1>1, <1>2 DEF Found
<1>5. m # -1 /\ Reaches(s, m, n) /\ m \in DOMAIN s.node /\ KeyAt(s, m) \in Marks(k)
  <2>1. k \in Marks(k)
    BY DEF Marks
  <2> HIDE DEF p
  <2>2. QED
    BY <1>1, <1>3, <1>4, <2>1, WalkFacts
<1> HIDE DEF m, p
<1>6. CASE KeyAt(s, m) = k
  BY <1>1, <1>5, <1>6 DEF KeysUnique, m, p, Search
<1>7. CASE k[1] = "ptr" /\ KeyAt(s, m) = DeadKey(k)
  <2>1. Reaches(s, n, m)
    BY <1>1, <1>5, <1>7 DEF NewestFirst, PtrKeys
  <2>2. m = n
    BY <2>1, <1>1, <1>5, ReachesAntisymmetric
  <2>3. QED
    BY <2>2 DEF m, p, Search
<1>8. QED
  BY <1>5, <1>6, <1>7 DEF Marks

LEMMA SearchFacts ==
  ASSUME NEW s, TableInv(s), NEW k \in NormalKeys
  PROVE  /\ \A n \in DOMAIN s.node : KeyAt(s, n) = k => Search(s, k, {k}) = n
         /\ (\A n \in DOMAIN s.node : KeyAt(s, n) # k) => Search(s, k, {k}) = -1
         /\ Search(s, k, {k}) # -1 =>
               Search(s, k, {k}) \in DOMAIN s.node /\ KeyAt(s, Search(s, k, {k})) = k
<1> DEFINE p == MainPosition(s, k)
           m == Walk(s, p, {k})
<1>1. ChainShape(s) /\ Found(s) /\ KeysUnique(s)
  BY DEF TableInv, ChainInv
<1>2. k \in NodeKeys /\ k # NilKey
  BY KeyFacts DEF NodeKeys
<1>3. p \in DOMAIN s.node
  BY <1>1, <1>2, MainPositionInside DEF ChainShape
<1>4. m # -1 => m \in DOMAIN s.node /\ KeyAt(s, m) = k
  <2> HIDE DEF p
  <2>1. QED
    BY <1>1, <1>3, WalkFacts
<1>5. ASSUME NEW n \in DOMAIN s.node, KeyAt(s, n) = k PROVE m # -1
  <2>1. Reaches(s, p, n)
    BY <1>1, <1>2, <1>5 DEF Found
  <2> HIDE DEF p
  <2>2. QED
    BY <1>1, <1>3, <1>5, <2>1, WalkFacts
<1>6. Search(s, k, {k}) = m
  BY DEF Search
<1> HIDE DEF m
<1>7. QED
  BY <1>1, <1>4, <1>5, <1>6 DEF KeysUnique

-----------------------------------------------------------------------------
(* The value of a key, and where it is.                                    *)

LEMMA InArrayFacts ==
  ASSUME NEW s, Sizearray(s) \in Nat, Sizearray(s) <= 2^MAXABITS, NEW k \in NormalKeys
  PROVE  /\ InArray(s, k) <=> k[1] = "int" /\ k[2] \in 1 .. Sizearray(s)
         /\ InArray(s, k) => ArrayIndex(k) = k[2] /\ k = IntKey(ArrayIndex(k))
<1>1. k[2] \in Int /\ k = <<k[1], k[2]>>
  BY KeyFacts
<1>2. 2^MAXABITS \in Nat
  BY PowerSet, TableAssumption
<1> DEFINE P == 2^MAXABITS
<1>3. /\ P \in Nat /\ Sizearray(s) <= P
      /\ ArrayIndex(k) = IF k[1] = "int" /\ 0 < k[2] /\ k[2] <= P THEN k[2] ELSE 0
  BY <1>2 DEF ArrayIndex
<1> HIDE DEF P
<1>4. QED
  BY <1>1, <1>3 DEF InArray, IntKey

LEMMA GetFacts ==
  ASSUME NEW s, TableInv(s), NEW k \in NormalKeys
  PROVE  /\ InArray(s, k) => LuaH_get(s, k) = s.array[ArrayIndex(k)]
         /\ \A n \in DOMAIN s.node : KeyAt(s, n) = k => LuaH_get(s, k) = s.node[n].val
         /\ ~InArray(s, k) /\ (\A n \in DOMAIN s.node : KeyAt(s, n) # k) => LuaH_get(s, k) = Nil
         /\ Has(s, k) <=> InArray(s, k) \/ \E n \in DOMAIN s.node : KeyAt(s, n) = k
<1>1. Normal(k) = k /\ k = <<k[1], k[2]>>
  BY KeyFacts
<1>2. TableShape(s) /\ KeysUnique(s)
  BY DEF TableInv
<1>3. Sizearray(s) \in Nat /\ Sizearray(s) <= 2^MAXABITS
  BY <1>2, ShapeFacts DEF TableShape
<1>4. -1 \notin DOMAIN s.node
  BY <1>2, ShapeFacts
<1>5. /\ InArray(s, k) <=> k[1] = "int" /\ k[2] \in 1 .. Sizearray(s)
      /\ InArray(s, k) => ArrayIndex(k) = k[2] /\ k = IntKey(ArrayIndex(k))
  BY <1>3, InArrayFacts
<1> DEFINE p == Search(s, k, {k})
<1>6. LuaH_get(s, k) = IF InArray(s, k) THEN s.array[k[2]]
                       ELSE IF p = -1 THEN Nil ELSE s.node[p].val
  <2>1. CASE k[1] = "int"
    <3>1. k = IntKey(k[2])
      BY <1>1, <2>1 DEF IntKey
    <3>2. LuaH_get(s, k) = LuaH_getint(s, k[2])
      BY <1>1, <2>1 DEF LuaH_get
    <3>3. QED
      BY <3>1, <3>2, <2>1, <1>5 DEF LuaH_getint
  <2>2. CASE k[1] # "int"
    BY <2>2, <1>1, <1>5 DEF LuaH_get, GetGeneric
  <2>3. QED
    BY <2>1, <2>2
<1>7. /\ \A n \in DOMAIN s.node : KeyAt(s, n) = k => p = n
      /\ (\A n \in DOMAIN s.node : KeyAt(s, n) # k) => p = -1
  BY SearchFacts
<1>8. \A n \in DOMAIN s.node : KeyAt(s, n) = k => ~InArray(s, k)
  BY <1>2 DEF KeysUnique
<1>9. Has(s, k) <=> InArray(s, k) \/ p # -1
  BY DEF Has
<1> HIDE DEF p
<1>10. QED
  BY <1>4, <1>5, <1>6, <1>7, <1>8, <1>9

(* The tables r and s hold the same values except that r holds v at k.     *)
Stores(s, r, k, v) ==
  \A j \in NormalKeys : LuaH_get(r, j) = IF j = k THEN v ELSE LuaH_get(s, j)

SameFrame(s, r) ==
  /\ DOMAIN r.node = DOMAIN s.node /\ r.dummy = s.dummy
  /\ Sizearray(r) = Sizearray(s) /\ r.flags = s.flags

SameKeys(s, r) ==
  /\ SameFrame(s, r) /\ r.lastfree = s.lastfree
  /\ \A n \in DOMAIN s.node :
        /\ KeyAt(r, n) = KeyAt(s, n) /\ r.node[n].next = s.node[n].next
        /\ r.node[n].val = s.node[n].val \/ KeyAt(s, n) \in NormalKeys

LEMMA SameKeysChains ==
  ASSUME NEW s, NEW r, DOMAIN r.node = DOMAIN s.node, ChainInv(s),
         \A n \in DOMAIN s.node :
            /\ KeyAt(s, n) \in NodeKeys
            /\ r.node[n].next = s.node[n].next
            /\ KeyAt(r, n) = KeyAt(s, n)
            /\ r.node[n].val = s.node[n].val \/ KeyAt(s, n) \in NormalKeys
  PROVE  ChainInv(r)
<1>1. ChainShape(r) /\ Sizenode(r) = Sizenode(s)
      /\ (\A a, b : Reaches(r, a, b) <=> Reaches(s, a, b))
      /\ (\A k : MainPosition(r, k) = MainPosition(s, k))
  BY SameLinks DEF ChainInv
<1>2. FreeNodes(r)
  BY KeyFacts DEF ChainInv, FreeNodes, LinkOf
<1>3. LinksDistinct(r)
  BY DEF ChainInv, LinksDistinct, LinkOf
<1>4. HeadsOwn(r)
  <2> SUFFICES ASSUME NEW n \in DOMAIN s.node, KeyAt(r, n) # NilKey
               PROVE  LET p == MainPosition(r, KeyAt(r, n))
                      IN  KeyAt(r, p) # NilKey /\ MainPosition(r, KeyAt(r, p)) = p
    BY DEF HeadsOwn
  <2> DEFINE p == MainPosition(s, KeyAt(s, n))
  <2>1. KeyAt(s, n) # NilKey
    OBVIOUS
  <2>2. KeyAt(s, p) # NilKey /\ MainPosition(s, KeyAt(s, p)) = p
    BY <2>1 DEF ChainInv, HeadsOwn
  <2>3. p \in DOMAIN s.node
    BY MainPositionInside DEF ChainInv, ChainShape
  <2>4. KeyAt(r, p) = KeyAt(s, p) /\ MainPosition(r, KeyAt(r, n)) = p
    BY <2>3, <1>1
  <2> HIDE DEF p
  <2>5. QED
    BY <2>2, <2>4, <1>1
<1>5. Found(r)
  BY <1>1 DEF ChainInv, Found
<1>6. NewestFirst(r)
  BY <1>1 DEF ChainInv, NewestFirst
<1>7. QED
  BY <1>1, <1>2, <1>3, <1>4, <1>5, <1>6 DEF ChainInv

LEMMA SameKeysInv ==
  ASSUME NEW s, NEW r, TableInv(s), TableShape(r), SameKeys(s, r)
  PROVE  TableInv(r)
<1>1. ChainInv(r)
  BY SameKeysChains, ShapeFacts DEF TableInv, SameKeys, SameFrame
<1>2. \A k : InArray(r, k) <=> InArray(s, k)
  BY DEF SameKeys, SameFrame, InArray
<1>3. KeysUnique(r)
  BY <1>2 DEF TableInv, SameKeys, SameFrame, KeysUnique
<1>4. DeadEmpty(r)
  BY KeyFacts DEF TableInv, SameKeys, SameFrame, DeadEmpty
<1>5. LastFreeBound(r)
  <2>1. CASE s.dummy
    <3>1. s.node = [n \in 0 .. 0 |-> EmptyNode] /\ s.lastfree = 0
      BY <2>1 DEF TableInv, LastFreeBound
    <3>2. \A n \in DOMAIN s.node : KeyAt(s, n) = NilKey
      BY <3>1 DEF EmptyNode, KeyAt
    <3>3. \A n \in DOMAIN s.node :
             KeyAt(r, n) = KeyAt(s, n) /\ r.node[n].val = s.node[n].val
             /\ r.node[n].next = s.node[n].next
      BY <3>2, KeyFacts DEF SameKeys
    <3>4. DOMAIN r.node = DOMAIN s.node /\ r.node \in [DOMAIN r.node -> NodeSet]
          /\ s.node \in [DOMAIN s.node -> NodeSet]
      BY ShapeFacts DEF SameKeys, SameFrame, TableInv
    <3>5. \A n \in DOMAIN s.node : r.node[n] = s.node[n]
      BY <3>3, <3>4 DEF NodeSet, KeyAt
    <3>6. r.node = s.node
      BY <3>4, <3>5
    <3>7. QED
      BY <2>1, <3>1, <3>6 DEF LastFreeBound, SameKeys, SameFrame
  <2>2. CASE ~s.dummy
    BY <2>2 DEF LastFreeBound, TableInv, SameKeys, SameFrame
  <2>3. QED
    BY <2>1, <2>2
<1>6. QED
  BY <1>1, <1>3, <1>4, <1>5 DEF TableInv

WithSlot(s, i, v) == [s EXCEPT !.array[i] = v]
WithValue(s, n, v) == [s EXCEPT !.node[n].val = v]

(* A value stored in a slot of the array part.                             *)
LEMMA SetArrayFacts ==
  ASSUME NEW s, TableInv(s), NEW k \in NormalKeys, InArray(s, k), NEW v \in Vals, NEW r,
         NEW i, i = ArrayIndex(k), r = WithSlot(s, i, v)
  PROVE  /\ TableInv(r) /\ SameKeys(s, r) /\ Stores(s, r, k, v)
         /\ r.node = s.node /\ r.array = [s.array EXCEPT ![i] = v]
<1>1. TableShape(s)
  BY DEF TableInv
<1>2. s.array \in Seq(Vals) /\ Sizearray(s) \in Nat /\ Sizearray(s) <= 2^MAXABITS
  BY <1>1, ShapeFacts DEF TableShape
<1>3. i \in 1 .. Sizearray(s) /\ i = k[2] /\ k = IntKey(i)
  BY <1>2, InArrayFacts
<1>4. /\ r.node = s.node /\ r.dummy = s.dummy /\ r.lastfree = s.lastfree /\ r.flags = s.flags
      /\ r.array = [s.array EXCEPT ![i] = v]
  BY <1>1, <1>3 DEF TableShape, WithSlot
<1>5. r.array \in Seq(Vals) /\ Len(r.array) = Len(s.array)
  BY <1>2, <1>3, <1>4 DEF Sizearray
<1>6. Sizearray(r) = Sizearray(s) /\ Sizenode(r) = Sizenode(s)
  BY <1>4, <1>5 DEF Sizearray, Sizenode
<1>7. \A j \in 1 .. Sizearray(r) : r.array[j] = IF j = i THEN v ELSE s.array[j]
  BY <1>2, <1>3, <1>4, <1>6 DEF Sizearray
<1>8. TableShape(r)
  <2>1. r \in [array : Seq(Vals), node : NodeVectors, dummy : BOOLEAN,
               lastfree : Nat, flags : BOOLEAN]
    BY <1>1, <1>3, <1>5, <1>4 DEF TableShape, WithSlot
  <2>2. \A j \in 1 .. Sizearray(r) : r.array[j] # Nil => IntKey(j) \in NormalKeys
    BY <1>1, <1>3, <1>6, <1>7 DEF TableShape
  <2>3. QED
    BY <1>1, <1>4, <1>6, <2>1, <2>2 DEF TableShape
<1>9. SameKeys(s, r)
  BY <1>4, <1>6 DEF SameKeys, SameFrame, KeyAt
<1>10. TableInv(r)
  BY <1>8, <1>9, SameKeysInv
<1>11. ASSUME NEW j \in NormalKeys
       PROVE  LuaH_get(r, j) = IF j = k THEN v ELSE LuaH_get(s, j)
  <2>1. InArray(r, j) <=> InArray(s, j)
    BY <1>6 DEF InArray
  <2>2. \A n \in DOMAIN s.node : KeyAt(r, n) = KeyAt(s, n) /\ r.node[n].val = s.node[n].val
    BY <1>4 DEF KeyAt
  <2>3. CASE InArray(s, j)
    <3>1. ArrayIndex(j) \in 1 .. Sizearray(s) /\ j = IntKey(ArrayIndex(j))
      BY <2>3, <1>2, InArrayFacts
    <3>2. ArrayIndex(j) = i <=> j = k
      BY <3>1, <1>3
    <3>3. LuaH_get(r, j) = r.array[ArrayIndex(j)] /\ LuaH_get(s, j) = s.array[ArrayIndex(j)]
      BY <2>1, <2>3, <1>10, GetFacts
    <3>4. QED
      BY <3>1, <3>2, <3>3, <1>6, <1>7
  <2>4. CASE ~InArray(s, j)
    <3>1. j # k
      BY <2>4
    <3>2. CASE \E n \in DOMAIN s.node : KeyAt(s, n) = j
      <4>1. PICK n \in DOMAIN s.node : KeyAt(s, n) = j
        BY <3>2
      <4>2. LuaH_get(s, j) = s.node[n].val
        BY <4>1, GetFacts
      <4>3. n \in DOMAIN r.node /\ KeyAt(r, n) = j /\ j \in NormalKeys
        BY <4>1, <2>2, <1>4
      <4>3a. LuaH_get(r, j) = r.node[n].val
        BY ONLY <4>3, <1>10, GetFacts
      <4>4. QED
        BY <3>1, <4>1, <4>2, <4>3a, <2>2
    <3>3. CASE \A n \in DOMAIN s.node : KeyAt(s, n) # j
      <4>1. LuaH_get(s, j) = Nil
        BY <3>3, <2>4, GetFacts
      <4>2. ~InArray(r, j) /\ (\A n \in DOMAIN r.node : KeyAt(r, n) # j) /\ j \in NormalKeys
        BY <3>3, <2>1, <2>2, <2>4, <1>4
      <4>3. LuaH_get(r, j) = Nil
        BY ONLY <4>2, <1>10, GetFacts
      <4>4. QED
        BY <3>1, <4>1, <4>3
    <3>4. QED
      BY <3>2, <3>3
  <2>5. QED
    BY <2>3, <2>4
<1>12. QED
  BY <1>4, <1>9, <1>10, <1>11 DEF Stores

(* A value stored in the node of its key.                                  *)
LEMMA SetNodeFacts ==
  ASSUME NEW s, TableInv(s), NEW k \in NormalKeys, NEW v \in Vals, NEW r,
         NEW n \in DOMAIN s.node, KeyAt(s, n) = k,
         r = WithValue(s, n, v)
  PROVE  /\ TableInv(r) /\ SameKeys(s, r) /\ Stores(s, r, k, v)
         /\ r.array = s.array
         /\ \A x \in DOMAIN s.node : r.node[x].val = IF x = n THEN v ELSE s.node[x].val
<1>1. TableShape(s) /\ KeysUnique(s)
  BY DEF TableInv
<1>2. s.node \in [DOMAIN s.node -> NodeSet]
  BY <1>1, ShapeFacts
<1>3. /\ r.array = s.array /\ r.dummy = s.dummy /\ r.lastfree = s.lastfree /\ r.flags = s.flags
      /\ r.node = [s.node EXCEPT ![n].val = v]
  BY <1>1 DEF TableShape, WithValue
<1>4. DOMAIN r.node = DOMAIN s.node
  BY <1>3
<1>5. \A x \in DOMAIN s.node :
        /\ KeyAt(r, x) = KeyAt(s, x) /\ r.node[x].next = s.node[x].next
        /\ r.node[x].val = IF x = n THEN v ELSE s.node[x].val
  BY <1>2, <1>3 DEF NodeSet, KeyAt
<1>6. r.node \in NodeVectors
  <2>1. PICK c \in Nat \ {0} : s.node \in [0 .. c - 1 -> NodeSet]
    BY <1>1 DEF TableShape, NodeVectors
  <2>2. [s.node[n] EXCEPT !.val = v] \in NodeSet
    BY <1>2 DEF NodeSet
  <2>3. r.node \in [0 .. c - 1 -> NodeSet]
    BY <2>1, <2>2, <1>3
  <2>4. QED
    BY <2>3 DEF NodeVectors
<1>7. TableShape(r)
  <2>1. Sizearray(r) = Sizearray(s) /\ Sizenode(r) = Sizenode(s)
    BY <1>3, <1>4 DEF Sizearray, Sizenode
  <2>2. r \in [array : Seq(Vals), node : NodeVectors, dummy : BOOLEAN,
               lastfree : Nat, flags : BOOLEAN]
    BY <1>1, <1>3, <1>6 DEF TableShape, WithValue
  <2>3. QED
    BY <2>1, <2>2, <1>1, <1>3 DEF TableShape
<1>8. SameKeys(s, r)
  BY <1>3, <1>4, <1>5 DEF SameKeys, SameFrame, Sizearray
<1>9. TableInv(r)
  BY <1>7, <1>8, SameKeysInv
<1>10. ASSUME NEW j \in NormalKeys
       PROVE  LuaH_get(r, j) = IF j = k THEN v ELSE LuaH_get(s, j)
  <2>1. (InArray(r, j) <=> InArray(s, j)) /\ r.array = s.array
    BY <1>3 DEF InArray, Sizearray
  <2>2. CASE \E x \in DOMAIN s.node : KeyAt(s, x) = j
    <3>1. PICK x \in DOMAIN s.node : KeyAt(s, x) = j
      BY <2>2
    <3>2. LuaH_get(s, j) = s.node[x].val
      BY <3>1, GetFacts
    <3>3. x \in DOMAIN r.node /\ KeyAt(r, x) = j /\ j \in NormalKeys
      BY <3>1, <1>4, <1>5
    <3>3a. LuaH_get(r, j) = r.node[x].val
      BY ONLY <3>3, <1>9, GetFacts
    <3>4. x = n <=> j = k
      BY <3>1, <1>1 DEF KeysUnique
    <3>5. QED
      BY <3>2, <3>3a, <3>4, <3>1, <1>5
  <2>3. CASE \A x \in DOMAIN s.node : KeyAt(s, x) # j
    <3>1. j # k
      BY <2>3
    <3>2. CASE InArray(s, j)
      <4>1. LuaH_get(s, j) = s.array[ArrayIndex(j)]
        BY <3>2, GetFacts
      <4>2. LuaH_get(r, j) = r.array[ArrayIndex(j)]
        BY <3>2, <2>1, <1>9, GetFacts
      <4>3. QED
        BY <3>1, <4>1, <4>2, <2>1
    <3>3. CASE ~InArray(s, j)
      <4>1. LuaH_get(s, j) = Nil
        BY <3>3, <2>3, GetFacts
      <4>2. ~InArray(r, j) /\ (\A x \in DOMAIN r.node : KeyAt(r, x) # j) /\ j \in NormalKeys
        BY <3>3, <2>1, <2>3, <1>4, <1>5
      <4>3. LuaH_get(r, j) = Nil
        BY ONLY <4>2, <1>9, GetFacts
      <4>4. QED
        BY <3>1, <4>1, <4>3
    <3>4. QED
      BY <3>2, <3>3
  <2>4. QED
    BY <2>2, <2>3
<1>11. QED
  BY <1>3, <1>5, <1>8, <1>9, <1>10 DEF Stores

LEMMA SetSlotFacts ==
  ASSUME NEW s, TableInv(s), NEW k \in NormalKeys, Has(s, k), NEW v \in Vals
  PROVE  /\ TableInv(SetSlot(s, k, v)) /\ SameKeys(s, SetSlot(s, k, v))
         /\ Stores(s, SetSlot(s, k, v), k, v)
<1> SUFFICES ASSUME NEW r, r = SetSlot(s, k, v)
             PROVE  TableInv(r) /\ SameKeys(s, r) /\ Stores(s, r, k, v)
  OBVIOUS
<1>1. CASE InArray(s, k)
  <2> DEFINE i == ArrayIndex(k)
  <2>1. r = WithSlot(s, i, v)
    BY <1>1 DEF SetSlot, WithSlot
  <2>2. i = ArrayIndex(k)
    OBVIOUS
  <2> HIDE DEF i
  <2>3. QED
    BY <2>1, <2>2, <1>1, SetArrayFacts
<1>2. CASE ~InArray(s, k)
  <2> DEFINE p == Search(s, k, {k})
  <2>1. p \in DOMAIN s.node /\ KeyAt(s, p) = k
    BY <1>2, SearchFacts DEF Has
  <2>2. r = WithValue(s, p, v)
    BY <1>2 DEF SetSlot, WithValue
  <2> HIDE DEF p
  <2>3. QED
    BY <2>1, <2>2, SetNodeFacts
<1>3. QED
  BY <1>1, <1>2

-----------------------------------------------------------------------------
(* Inserting a key: the three ways luaH_newkey finds a node.               *)

LEMMA FreePosFacts ==
  ASSUME NEW s, TableShape(s), LastFreeBound(s)
  PROVE  LET f == GetFreePos(s)
         IN  /\ f # -1 => /\ f \in DOMAIN s.node /\ KeyAt(s, f) = NilKey
                          /\ f < s.lastfree /\ ~s.dummy /\ f \in Nat
                          /\ \A n \in DOMAIN s.node : n > f => KeyAt(s, n) # NilKey
             /\ f = -1 /\ ~s.dummy => \A n \in DOMAIN s.node : KeyAt(s, n) # NilKey
<1> DEFINE free == {n \in 0 .. s.lastfree - 1 : s.node[n].key = NilKey}
           f == GetFreePos(s)
<1>1. /\ s.lastfree \in Nat /\ s.lastfree <= Sizenode(s) /\ Sizenode(s) \in Nat
      /\ DOMAIN s.node = 0 .. Sizenode(s) - 1
  BY ShapeFacts DEF TableShape
<1>2. CASE free = {}
  <2>1. f = -1
    BY <1>2 DEF GetFreePos
  <2>2. ASSUME ~s.dummy, NEW n \in DOMAIN s.node PROVE KeyAt(s, n) # NilKey
    <3>1. CASE n >= s.lastfree
      BY <2>2, <3>1 DEF LastFreeBound
    <3>2. CASE ~(n >= s.lastfree)
      <4>1. n \in 0 .. s.lastfree - 1
        BY <3>2, <1>1
      <4>2. QED
        BY <4>1, <1>2 DEF KeyAt
    <3>3. QED
      BY <3>1, <3>2
  <2>3. QED
    BY <2>1, <2>2 DEF f
<1>3. CASE free # {}
  <2>1. free \in SUBSET Nat /\ \A k \in free : k <= s.lastfree
    BY <1>1
  <2>2. f = Max(free)
    BY <1>3 DEF GetFreePos
  <2> HIDE DEF f, free
  <2>3. f \in free /\ \A k \in free : k <= f
    BY <2>1, <2>2, <1>1, <1>3, MaxFacts
  <2>4. f \in 0 .. s.lastfree - 1 /\ KeyAt(s, f) = NilKey
    BY <2>3 DEF free, KeyAt
  <2>5. f \in DOMAIN s.node /\ f < s.lastfree /\ f \in Nat /\ f # -1
    BY <2>4, <1>1
  <2>6. ~s.dummy
    BY <2>5 DEF LastFreeBound
  <2>7. ASSUME NEW n \in DOMAIN s.node, n > f PROVE KeyAt(s, n) # NilKey
    <3>1. CASE n >= s.lastfree
      BY <2>6, <3>1 DEF LastFreeBound
    <3>2. CASE ~(n >= s.lastfree)
      <4>1. n \in 0 .. s.lastfree - 1
        BY <3>2, <1>1
      <4>2. n \notin free
        BY <2>3, <2>5, <2>7, <1>1
      <4>3. QED
        BY <4>1, <4>2 DEF KeyAt, free
    <3>3. QED
      BY <3>1, <3>2
  <2>8. QED
    BY <2>4, <2>5, <2>6, <2>7 DEF f
<1>4. QED
  BY <1>2, <1>3

(* A dead key has the main position it had alive.                          *)
LEMMA DeadMainPosition ==
  ASSUME NEW s, NEW k \in PtrKeys
  PROVE  MainPosition(s, DeadKey(k)) = MainPosition(s, k) /\ DeadKey(k) \in DeadKeys
<1>1. k[1] = "ptr" /\ DeadKey(k) = <<"dead", k[2]>>
  BY DEF PtrKeys, DeadKey
<1>2. DeadKey(k)[1] = "dead" /\ DeadKey(k)[2] = k[2]
  BY <1>1
<1>3. QED
  BY <1>1, <1>2 DEF MainPosition, DeadKeys

(* The table s with other nodes g and another lastfree.                    *)
WithNodes(s, l, g) == [s EXCEPT !.lastfree = l, !.node = g]

LEMMA WithNodesFacts ==
  ASSUME NEW s, TableShape(s), NEW l \in Nat, l <= Sizenode(s),
         NEW g \in [DOMAIN s.node -> NodeSet], NEW r, r = WithNodes(s, l, g)
  PROVE  /\ TableShape(r) /\ SameFrame(s, r)
         /\ r.node = g /\ r.lastfree = l /\ r.array = s.array
         /\ DOMAIN r.node = DOMAIN s.node
<1>1. /\ r.node = g /\ r.lastfree = l /\ r.array = s.array
      /\ r.dummy = s.dummy /\ r.flags = s.flags
  BY DEF TableShape, WithNodes
<1>2. DOMAIN r.node = DOMAIN s.node
  BY <1>1
<1>3. Sizenode(r) = Sizenode(s) /\ Sizearray(r) = Sizearray(s)
  BY <1>1, <1>2 DEF Sizenode, Sizearray
<1>4. g \in NodeVectors
  <2>1. PICK c \in Nat \ {0} : s.node \in [0 .. c - 1 -> NodeSet]
    BY DEF TableShape, NodeVectors
  <2>2. g \in [0 .. c - 1 -> NodeSet]
    BY <2>1
  <2>3. QED
    BY <2>2 DEF NodeVectors
<1>5. r \in [array : Seq(Vals), node : NodeVectors, dummy : BOOLEAN,
             lastfree : Nat, flags : BOOLEAN]
  BY <1>4 DEF TableShape, WithNodes
<1>6. QED
  BY <1>1, <1>2, <1>3, <1>5 DEF TableShape, SameFrame

(* Where a new key is in a node and every other value is still in one.     *)
Keeps(s, r, k, v) ==
  /\ \E p \in DOMAIN r.node : KeyAt(r, p) = k /\ r.node[p].val = v
  /\ \A n \in DOMAIN s.node : KeyAt(s, n) \in NormalKeys /\ s.node[n].val # Nil =>
        \E m \in DOMAIN r.node : KeyAt(r, m) = KeyAt(s, n) /\ r.node[m].val = s.node[n].val
  /\ \A m \in DOMAIN r.node : KeyAt(r, m) \in NormalKeys /\ KeyAt(r, m) # k =>
        \E n \in DOMAIN s.node : KeyAt(s, n) = KeyAt(r, m) /\ s.node[n].val = r.node[m].val

LEMMA KeepsStores ==
  ASSUME NEW s, TableInv(s), NEW r, TableInv(r), SameFrame(s, r), r.array = s.array,
         NEW k \in NormalKeys, NEW v, Keeps(s, r, k, v)
  PROVE  Stores(s, r, k, v)
<1> SUFFICES ASSUME NEW j \in NormalKeys
             PROVE  LuaH_get(r, j) = IF j = k THEN v ELSE LuaH_get(s, j)
  BY DEF Stores
<1>1. CASE j = k
  <2>1. PICK p \in DOMAIN r.node : KeyAt(r, p) = k /\ r.node[p].val = v
    BY DEF Keeps
  <2>2. LuaH_get(r, k) = r.node[p].val
    BY <2>1, GetFacts
  <2>3. QED
    BY <1>1, <2>1, <2>2
<1>2. CASE j # k /\ InArray(s, j)
  <2>1. InArray(r, j)
    BY <1>2 DEF InArray, SameFrame
  <2>2. LuaH_get(s, j) = s.array[ArrayIndex(j)]
    BY <1>2, GetFacts
  <2>3. LuaH_get(r, j) = r.array[ArrayIndex(j)]
    BY <2>1, GetFacts
  <2>4. QED
    BY <1>2, <2>2, <2>3
<1>3. CASE j # k /\ ~InArray(s, j)
  <2>1. ~InArray(r, j)
    BY <1>3 DEF InArray, SameFrame
  <2>2. CASE \E m \in DOMAIN r.node : KeyAt(r, m) = j
    <3>1. PICK m \in DOMAIN r.node : KeyAt(r, m) = j
      BY <2>2
    <3>2. PICK n \in DOMAIN s.node : KeyAt(s, n) = j /\ s.node[n].val = r.node[m].val
      BY <3>1, <1>3 DEF Keeps
    <3>3. LuaH_get(r, j) = r.node[m].val
      BY <3>1, GetFacts
    <3>4. LuaH_get(s, j) = s.node[n].val
      BY <3>2, GetFacts
    <3>5. QED
      BY <3>2, <3>3, <3>4, <1>3
  <2>3. CASE \A m \in DOMAIN r.node : KeyAt(r, m) # j
    <3>1. LuaH_get(r, j) = Nil
      BY <2>1, <2>3, GetFacts
    <3>2. LuaH_get(s, j) = Nil
      <4>1. CASE \E n \in DOMAIN s.node : KeyAt(s, n) = j
        <5>1. PICK n \in DOMAIN s.node : KeyAt(s, n) = j
          BY <4>1
        <5>2. LuaH_get(s, j) = s.node[n].val
          BY <5>1, GetFacts
        <5>3. s.node[n].val = Nil
          BY <5>1, <2>3 DEF Keeps
        <5>4. QED
          BY <5>2, <5>3
      <4>2. CASE \A n \in DOMAIN s.node : KeyAt(s, n) # j
        BY <4>2, <1>3, GetFacts
      <4>3. QED
        BY <4>1, <4>2
    <3>3. QED
      BY <3>1, <3>2, <1>3
  <2>4. QED
    BY <2>2, <2>3
<1>4. QED
  BY <1>1, <1>2, <1>3

(* What an insertion of k with value v does to s.                          *)
Inserted(s, r, k, v) ==
  /\ TableInv(r) /\ SameFrame(s, r) /\ Stores(s, r, k, v)
  /\ \A n \in DOMAIN r.node :
        KeyAt(r, n) \in {k, NilKey} \cup {KeyAt(s, m) : m \in DOMAIN s.node}

NewKey(s, k) ==
  ~InArray(s, k) /\ \A n \in DOMAIN s.node : KeyAt(s, n) # k

(* The main position has no value: its node is taken over where it is.     *)
LEMMA TakeOver ==
  ASSUME NEW s, TableInv(s), NEW k \in NormalKeys, NewKey(s, k), NEW v \in Vals,
         NEW mp, mp = MainPosition(s, k), s.node[mp].val = Nil, ~s.dummy, NEW r,
         NEW g, g = [s.node EXCEPT ![mp] = [key |-> k, val |-> v, next |-> s.node[mp].next]],
         r = WithNodes(s, s.lastfree, g)
  PROVE  Inserted(s, r, k, v)
<1> DEFINE N == DOMAIN s.node
<1>1. /\ TableShape(s) /\ ChainInv(s) /\ KeysUnique(s) /\ DeadEmpty(s) /\ LastFreeBound(s)
      /\ k \in NodeKeys /\ k # NilKey /\ k \notin DeadKeys
  BY KeyFacts DEF TableInv, NodeKeys
<1>2. mp \in N
  BY <1>1, MainPositionInside DEF ChainInv, ChainShape
<1>3. s.node \in [N -> NodeSet]
  BY <1>1, ShapeFacts
<1>4. g \in [N -> NodeSet]
  <2>1. [key |-> k, val |-> v, next |-> s.node[mp].next] \in NodeSet
    BY <1>1, <1>2, <1>3 DEF NodeSet
  <2>2. QED
    BY <2>1, <1>3
<1>5. /\ TableShape(r) /\ SameFrame(s, r) /\ r.node = g
      /\ r.lastfree = s.lastfree /\ r.array = s.array
  <2>1. s.lastfree \in Nat /\ s.lastfree <= Sizenode(s)
    BY <1>1 DEF TableShape
  <2>2. QED
    BY <2>1, <1>1, <1>4, WithNodesFacts
<1>6. DOMAIN r.node = N
  BY <1>5 DEF SameFrame
<1>7. /\ KeyAt(r, mp) = k /\ r.node[mp].val = v
      /\ \A n \in N : n # mp => KeyAt(r, n) = KeyAt(s, n) /\ r.node[n].val = s.node[n].val
      /\ \A n \in N : r.node[n].next = s.node[n].next
  BY <1>2, <1>3, <1>5 DEF KeyAt
<1>8. /\ \A a, b : Reaches(r, a, b) <=> Reaches(s, a, b)
      /\ ChainShape(r) /\ Sizenode(r) = Sizenode(s)
      /\ \A j : MainPosition(r, j) = MainPosition(s, j)
  <2>1. ChainShape(s)
    BY ONLY <1>1 DEF ChainInv
  <2>2. DOMAIN r.node = DOMAIN s.node /\ \A n \in DOMAIN s.node : r.node[n].next = s.node[n].next
    BY ONLY <1>6, <1>7
  <2> HIDE DEF N
  <2>3. QED
    BY ONLY <2>1, <2>2, SameLinks
<1>9. \A n \in N : KeyAt(s, n) \in NodeKeys
  BY <1>1, ShapeFacts
<1>10. FreeNodes(r)
  BY <1>1, <1>6, <1>7 DEF ChainInv, FreeNodes, LinkOf
<1>11. LinksDistinct(r)
  BY <1>1, <1>6, <1>7, SMTT(30) DEF ChainInv, LinksDistinct, LinkOf
<1>12. HeadsOwn(r)
  <2> SUFFICES ASSUME NEW n \in N, KeyAt(r, n) # NilKey, NEW p, p = MainPosition(s, KeyAt(r, n))
               PROVE  KeyAt(r, p) # NilKey /\ MainPosition(s, KeyAt(r, p)) = p
    BY <1>6, <1>8 DEF HeadsOwn
  <2>1. CASE p = mp
    BY <2>1, <1>1, <1>7
  <2>2. CASE p # mp
    <3>1. n # mp
      BY <2>2, <1>7
    <3>2. KeyAt(r, n) = KeyAt(s, n) /\ p \in N
      BY <3>1, <1>1, <1>7, <1>9, MainPositionInside DEF ChainInv, ChainShape
    <3>3. QED
      BY <3>2, <2>2, <1>1, <1>7 DEF ChainInv, HeadsOwn
  <2>3. QED
    BY <2>1, <2>2
<1>13. Found(r)
  <2> SUFFICES ASSUME NEW n \in N, KeyAt(r, n) # NilKey
               PROVE  Reaches(s, MainPosition(s, KeyAt(r, n)), n)
    BY <1>6, <1>8 DEF Found
  <2>1. CASE n = mp
    BY <2>1, <1>7 DEF Reaches
  <2>2. CASE n # mp
    BY <2>2, <1>1, <1>7 DEF ChainInv, Found
  <2>3. QED
    BY <2>1, <2>2
<1>14. NewestFirst(r)
  <2> SUFFICES ASSUME NEW n \in N, NEW m \in N, KeyAt(r, n) \in PtrKeys,
                      KeyAt(r, m) = DeadKey(KeyAt(r, n))
               PROVE  Reaches(s, n, m)
    BY <1>6, <1>8 DEF NewestFirst
  <2>1. MainPosition(s, KeyAt(r, m)) = MainPosition(s, KeyAt(r, n)) /\ KeyAt(r, m) \in DeadKeys
    BY DeadMainPosition
  <2>2. m # mp /\ KeyAt(r, m) = KeyAt(s, m) /\ KeyAt(s, m) # NilKey
    BY <2>1, <1>1, <1>7, KeyFacts
  <2>3. CASE n = mp
    BY <2>1, <2>2, <2>3, <1>1, <1>7 DEF ChainInv, Found
  <2>4. CASE n # mp
    BY <2>2, <2>4, <1>1, <1>7 DEF ChainInv, NewestFirst
  <2>5. QED
    BY <2>3, <2>4
<1>15. KeysUnique(r)
  <2>1. \A j : InArray(r, j) <=> InArray(s, j)
    BY <1>5 DEF InArray, SameFrame
  <2>2. QED
    BY <2>1, <1>1, <1>6, <1>7 DEF KeysUnique, NewKey
<1>16. DeadEmpty(r)
  BY <1>1, <1>6, <1>7 DEF DeadEmpty
<1>17. LastFreeBound(r)
  BY <1>1, <1>5, <1>6, <1>7 DEF LastFreeBound, SameFrame
<1>18. TableInv(r)
  BY <1>5, <1>8, <1>10, <1>11, <1>12, <1>13, <1>14, <1>15, <1>16, <1>17 DEF TableInv, ChainInv
<1>19. Keeps(s, r, k, v)
  BY <1>2, <1>6, <1>7 DEF Keeps
<1>20. QED
  BY <1>1, <1>5, <1>6, <1>7, <1>18, <1>19, KeepsStores DEF Inserted

(* The first free node from the end, where getfreepos stops.               *)
FreeFor(s, f) ==
  /\ f \in DOMAIN s.node /\ KeyAt(s, f) = NilKey
  /\ f < s.lastfree /\ ~s.dummy /\ f \in Nat
  /\ \A n \in DOMAIN s.node : n > f => KeyAt(s, n) # NilKey

(* The colliding node mp is at home: the key goes to the free node f and   *)
(* comes second in the chain.                                              *)
Behind(s, r, mp, f, k, v) ==
  /\ TableShape(r) /\ SameFrame(s, r) /\ r.lastfree = f /\ r.array = s.array
  /\ KeyAt(r, f) = k /\ r.node[f].val = v
  /\ r.node[f].next = IF s.node[mp].next = 0 THEN 0 ELSE (mp + s.node[mp].next) - f
  /\ r.node[mp].next = f - mp
  /\ \A n \in DOMAIN s.node : n # f =>
        KeyAt(r, n) = KeyAt(s, n) /\ r.node[n].val = s.node[n].val
  /\ \A n \in DOMAIN s.node : n # f /\ n # mp => r.node[n].next = s.node[n].next

LEMMA BehindInserts ==
  ASSUME NEW s, TableInv(s), NEW k \in NormalKeys, NewKey(s, k), NEW v,
         NEW mp, mp = MainPosition(s, k), s.node[mp].val # Nil,
         NEW f, FreeFor(s, f), MainPosition(s, KeyAt(s, mp)) = mp,
         NEW r, Behind(s, r, mp, f, k, v)
  PROVE  Inserted(s, r, k, v)
<1> DEFINE N == DOMAIN s.node
<1>1. /\ TableShape(s) /\ ChainInv(s) /\ KeysUnique(s) /\ DeadEmpty(s) /\ LastFreeBound(s)
      /\ k \in NodeKeys /\ k # NilKey /\ k \notin DeadKeys
  BY KeyFacts DEF TableInv, NodeKeys
<1>2. mp \in N
  BY <1>1, MainPositionInside DEF ChainInv, ChainShape
<1>3. s.node \in [N -> NodeSet] /\ N = 0 .. Sizenode(s) - 1 /\ Sizenode(s) \in Nat
  BY <1>1, ShapeFacts
<1>4. /\ f \in N /\ KeyAt(s, f) = NilKey /\ f < s.lastfree /\ ~s.dummy /\ f \in Nat
      /\ \A n \in N : n > f => KeyAt(s, n) # NilKey
  BY DEF FreeFor
<1>5. /\ s.node[f].val = Nil /\ s.node[f].next = 0
      /\ \A n \in N : LinkOf(s, n) = f => n = f
  BY <1>1, <1>4 DEF ChainInv, FreeNodes
<1>6. mp # f /\ KeyAt(s, mp) # NilKey /\ KeyAt(s, mp) \notin DeadKeys
  BY <1>1, <1>2, <1>5 DEF ChainInv, FreeNodes, DeadEmpty
<1>7. LinkOf(s, mp) \in N /\ LinkOf(s, mp) # f /\ s.node[mp].next \in Int /\ mp \in Int
  BY <1>1, <1>2, <1>3, <1>5, <1>6 DEF ChainInv, ChainShape, LinksInside
<1>8. TableShape(r) /\ SameFrame(s, r) /\ r.lastfree = f /\ r.array = s.array
  BY DEF Behind
<1>9. r.node \in [DOMAIN r.node -> NodeSet]
  BY <1>8, ShapeFacts
<1>10. DOMAIN r.node = N
  BY <1>8 DEF SameFrame
<1>14. /\ KeyAt(r, f) = k /\ r.node[f].val = v
       /\ \A n \in N : n # f => KeyAt(r, n) = KeyAt(s, n) /\ r.node[n].val = s.node[n].val
  BY DEF Behind
<1>15. /\ s.node[mp].next = 0 => r.node[f].next = 0
       /\ s.node[mp].next # 0 => r.node[f].next = (mp + s.node[mp].next) - f
       /\ r.node[mp].next = f - mp
       /\ \A n \in N : n # f /\ n # mp => r.node[n].next = s.node[n].next
  BY DEF Behind
<1>16. /\ LinkOf(r, mp) = f /\ r.node[mp].next # 0
       /\ s.node[mp].next = 0 => r.node[f].next = 0 /\ LinkOf(r, f) = f
       /\ s.node[mp].next # 0 => r.node[f].next # 0 /\ LinkOf(r, f) = LinkOf(s, mp)
       /\ \A n \in N : n # f /\ n # mp => LinkOf(r, n) = LinkOf(s, n)
  BY <1>4, <1>6, <1>7, <1>15 DEF LinkOf
<1>17. s.node[mp].next = 0 => LinkOf(s, mp) = mp
  BY <1>7 DEF LinkOf
<1>18. \A j : MainPosition(r, j) = MainPosition(s, j)
  BY <1>10 DEF MainPosition, HashPow2, HashMod, Sizenode
<1>19. ASSUME NEW C \in SUBSET N, Closed(r, C)
       PROVE  Closed(s, C \ {f}) /\ (f \in C => Closed(s, (C \ {f}) \cup {mp}))
  BY <1>2, <1>5, <1>6, <1>7, <1>16, <1>17, <1>19 DEF Closed
<1>20. ASSUME NEW a \in N, NEW b, Reaches(s, a, b), a # f PROVE Reaches(r, a, b)
  BY <1>10, <1>19, <1>20 DEF Reaches
<1>21. ASSUME NEW b, Reaches(s, mp, b), b # mp PROVE Reaches(r, f, b)
  BY <1>2, <1>10, <1>19, <1>21 DEF Reaches
<1>22. Reaches(r, mp, f)
  BY <1>16 DEF Reaches, Closed
<1>23. ChainShape(r)
  <2>1. Sized(r)
    BY <1>1, <1>10 DEF ChainInv, ChainShape, Sized
  <2>2. LinksInside(r)
    <3>1. \A n \in N : r.node[n].next \in Int
      BY <1>8, <1>10, ShapeFacts
    <3>2. \A n \in N : LinkOf(r, n) \in N
      BY <1>1, <1>4, <1>7, <1>16 DEF ChainInv, ChainShape, LinksInside
    <3>3. QED
      BY <3>1, <3>2, <1>10 DEF LinksInside
  <2>3. ChainsEnd(r)
    <3> SUFFICES ASSUME NEW C \in SUBSET N, C # {}, Closed(r, C)
                 PROVE  \E x \in C : r.node[x].next = 0
      BY <1>10 DEF ChainsEnd
    <3>1. Closed(s, C \ {f}) /\ C \ {f} \in SUBSET N
      BY <1>19
    <3>2. CASE C \ {f} = {}
      <4>1. LinkOf(r, f) = f /\ f \in C
        BY <3>2 DEF Closed
      <4>2. QED
        BY <4>1, <1>16, <1>17, <1>5, <1>6, <1>2
    <3>3. CASE C \ {f} # {}
      <4>1. PICK x \in C \ {f} : s.node[x].next = 0
        BY <3>1, <3>3, <1>1 DEF ChainInv, ChainShape, ChainsEnd
      <4>2. CASE x = mp
        <5>1. f \in C
          BY <4>1, <4>2, <1>16 DEF Closed
        <5>2. QED
          BY <4>1, <4>2, <5>1, <1>16
      <4>3. CASE x # mp
        BY <4>1, <4>3, <1>15
      <4>4. QED
        BY <4>2, <4>3
    <3>4. QED
      BY <3>2, <3>3
  <2>4. QED
    BY <2>1, <2>2, <2>3 DEF ChainShape
<1>24. \A n \in N : KeyAt(s, n) \in NodeKeys
  BY <1>1, ShapeFacts
<1>25. FreeNodes(r)
  <2> SUFFICES ASSUME NEW n \in N, KeyAt(r, n) = NilKey
               PROVE  /\ r.node[n].val = Nil /\ r.node[n].next = 0
                      /\ \A m \in N : LinkOf(r, m) = n => m = n
    BY <1>10 DEF FreeNodes
  <2>1. n # f /\ n # mp /\ KeyAt(s, n) = NilKey
    BY <1>1, <1>6, <1>14
  <2>2. s.node[n].val = Nil /\ s.node[n].next = 0 /\ \A m \in N : LinkOf(s, m) = n => m = n
    BY <2>1, <1>1 DEF ChainInv, FreeNodes
  <2>3. QED
    BY <2>1, <2>2, <1>2, <1>14, <1>15, <1>16
<1>26. LinksDistinct(r)
  <2> SUFFICES ASSUME NEW n \in N, NEW m \in N, r.node[n].next # 0, r.node[m].next # 0,
                      LinkOf(r, n) = LinkOf(r, m), n # m
               PROVE  FALSE
    BY <1>10 DEF LinksDistinct
  <2>1. \A x, y \in N : s.node[x].next # 0 /\ s.node[y].next # 0 /\ LinkOf(s, x) = LinkOf(s, y)
           => x = y
    BY <1>1 DEF ChainInv, LinksDistinct
  <2>2. n # mp /\ m # mp
    BY <1>5, <1>6, <1>7, <1>16
  <2>3. QED
    BY <2>1, <2>2, <1>2, <1>15, <1>16
<1>27. HeadsOwn(r)
  <2> SUFFICES ASSUME NEW n \in N, KeyAt(r, n) # NilKey, NEW p, p = MainPosition(s, KeyAt(r, n))
               PROVE  KeyAt(r, p) # NilKey /\ MainPosition(s, KeyAt(r, p)) = p
    BY <1>10, <1>18 DEF HeadsOwn
  <2>1. CASE n = f
    BY <2>1, <1>2, <1>6, <1>14
  <2>2. CASE n # f
    <3>1. KeyAt(r, n) = KeyAt(s, n) /\ p \in N
      BY <2>2, <1>1, <1>14, <1>24, MainPositionInside DEF ChainInv, ChainShape
    <3>2. KeyAt(s, p) # NilKey /\ MainPosition(s, KeyAt(s, p)) = p
      BY <3>1, <1>1 DEF ChainInv, HeadsOwn
    <3>3. p # f
      BY <3>2, <1>4
    <3>4. QED
      BY <3>1, <3>2, <3>3, <1>14
  <2>3. QED
    BY <2>1, <2>2
<1>28. Found(r)
  <2> SUFFICES ASSUME NEW n \in N, KeyAt(r, n) # NilKey
               PROVE  Reaches(r, MainPosition(s, KeyAt(r, n)), n)
    BY <1>10, <1>18 DEF Found
  <2>1. CASE n = f
    BY <2>1, <1>14, <1>22
  <2>2. CASE n # f
    <3> DEFINE p == MainPosition(s, KeyAt(s, n))
    <3>1. KeyAt(r, n) = KeyAt(s, n) /\ p \in N
      BY <2>2, <1>1, <1>14, <1>24, MainPositionInside DEF ChainInv, ChainShape
    <3>2. KeyAt(s, p) # NilKey /\ Reaches(s, p, n)
      BY <3>1, <1>1 DEF ChainInv, HeadsOwn, Found
    <3>3. p # f
      BY <3>2, <1>4
    <3> HIDE DEF p
    <3>4. Reaches(r, p, n)
      BY <3>1, <3>2, <3>3, <1>20
    <3>5. QED
      BY <3>1, <3>4 DEF p
  <2>3. QED
    BY <2>1, <2>2
<1>29. NewestFirst(r)
  <2> SUFFICES ASSUME NEW n \in N, NEW m \in N, KeyAt(r, n) \in PtrKeys,
                      KeyAt(r, m) = DeadKey(KeyAt(r, n))
               PROVE  Reaches(r, n, m)
    BY <1>10 DEF NewestFirst
  <2>1. MainPosition(s, KeyAt(r, m)) = MainPosition(s, KeyAt(r, n)) /\ KeyAt(r, m) \in DeadKeys
    BY DeadMainPosition
  <2>2. m # f /\ m # mp /\ KeyAt(r, m) = KeyAt(s, m) /\ KeyAt(s, m) # NilKey
    BY <2>1, <1>1, <1>6, <1>14, KeyFacts
  <2>3. CASE n = f
    <3>1. Reaches(s, mp, m)
      BY <2>1, <2>2, <2>3, <1>1, <1>14 DEF ChainInv, Found
    <3>2. QED
      BY <3>1, <2>2, <2>3, <1>21
  <2>4. CASE n # f
    <3>1. Reaches(s, n, m)
      BY <2>2, <2>4, <1>1, <1>14 DEF ChainInv, NewestFirst
    <3>2. QED
      BY <3>1, <2>4, <1>20
  <2>5. QED
    BY <2>3, <2>4
<1>30. KeysUnique(r)
  <2>1. \A j : InArray(r, j) <=> InArray(s, j)
    BY <1>8 DEF InArray, SameFrame
  <2>2. QED
    BY <2>1, <1>1, <1>10, <1>14 DEF KeysUnique, NewKey
<1>31. DeadEmpty(r)
  BY <1>1, <1>10, <1>14 DEF DeadEmpty
<1>32. LastFreeBound(r)
  <2>1. ~r.dummy
    BY <1>4, <1>8 DEF SameFrame
  <2>2. \A n \in N : n >= f => KeyAt(r, n) # NilKey
    BY <1>1, <1>3, <1>4, <1>14
  <2>3. QED
    BY <2>1, <2>2, <1>8, <1>10 DEF LastFreeBound
<1>33. TableInv(r)
  BY <1>8, <1>23, <1>25, <1>26, <1>27, <1>28, <1>29, <1>30, <1>31, <1>32 DEF TableInv, ChainInv
<1>34. Keeps(s, r, k, v)
  <2>1. \E p \in N : KeyAt(r, p) = k /\ r.node[p].val = v
    BY <1>4, <1>14
  <2>2. \A n \in N : KeyAt(s, n) \in NormalKeys => n # f
    BY <1>4, KeyFacts
  <2>3. \A n \in N : KeyAt(s, n) \in NormalKeys =>
           \E m \in N : KeyAt(r, m) = KeyAt(s, n) /\ r.node[m].val = s.node[n].val
    BY <2>2, <1>14
  <2>4. \A m \in N : KeyAt(r, m) \in NormalKeys /\ KeyAt(r, m) # k =>
           \E n \in N : KeyAt(s, n) = KeyAt(r, m) /\ s.node[n].val = r.node[m].val
    BY <1>14
  <2>5. QED
    BY <2>1, <2>3, <2>4, <1>10 DEF Keeps
<1>35. \A n \in N : KeyAt(r, n) \in {k, NilKey} \cup {KeyAt(s, m) : m \in N}
  BY <1>14
<1>36. QED
  BY <1>8, <1>10, <1>33, <1>34, <1>35, KeepsStores DEF Inserted

(* The colliding node mp is not at home: it moves to the free node f, its  *)
(* predecessor prev is told, and the key takes its place.                  *)
Moved(s, r, mp, prev, f, k, v) ==
  /\ TableShape(r) /\ SameFrame(s, r) /\ r.lastfree = f /\ r.array = s.array
  /\ KeyAt(r, mp) = k /\ r.node[mp].val = v /\ r.node[mp].next = 0
  /\ KeyAt(r, f) = KeyAt(s, mp) /\ r.node[f].val = s.node[mp].val
  /\ r.node[f].next = IF s.node[mp].next = 0 THEN 0 ELSE s.node[mp].next + (mp - f)
  /\ r.node[prev].next = f - prev
  /\ \A n \in DOMAIN s.node : n # f /\ n # mp =>
        KeyAt(r, n) = KeyAt(s, n) /\ r.node[n].val = s.node[n].val
  /\ \A n \in DOMAIN s.node : n # f /\ n # mp /\ n # prev =>
        r.node[n].next = s.node[n].next

LEMMA MovedInserts ==
  ASSUME NEW s, TableInv(s), NEW k \in NormalKeys, NewKey(s, k), NEW v,
         NEW mp, mp = MainPosition(s, k), s.node[mp].val # Nil,
         NEW f, FreeFor(s, f), MainPosition(s, KeyAt(s, mp)) # mp,
         NEW prev \in DOMAIN s.node, LinkOf(s, prev) = mp, prev # mp,
         NEW r, Moved(s, r, mp, prev, f, k, v)
  PROVE  Inserted(s, r, k, v)
<1> DEFINE N == DOMAIN s.node
           Phi(n) == IF n = mp THEN f ELSE n
<1>1. /\ TableShape(s) /\ ChainInv(s) /\ KeysUnique(s) /\ DeadEmpty(s) /\ LastFreeBound(s)
      /\ k \in NodeKeys /\ k # NilKey /\ k \notin DeadKeys
  BY KeyFacts DEF TableInv, NodeKeys
<1>2. mp \in N
  BY <1>1, MainPositionInside DEF ChainInv, ChainShape
<1>3. s.node \in [N -> NodeSet] /\ N = 0 .. Sizenode(s) - 1 /\ Sizenode(s) \in Nat
  BY <1>1, ShapeFacts
<1>4. /\ f \in N /\ KeyAt(s, f) = NilKey /\ f < s.lastfree /\ ~s.dummy /\ f \in Nat
      /\ \A n \in N : n > f => KeyAt(s, n) # NilKey
  BY DEF FreeFor
<1>5. /\ s.node[f].val = Nil /\ s.node[f].next = 0
      /\ \A n \in N : LinkOf(s, n) = f => n = f
  BY <1>1, <1>4 DEF ChainInv, FreeNodes
<1>6. mp # f /\ KeyAt(s, mp) # NilKey /\ KeyAt(s, mp) \notin DeadKeys
  BY <1>1, <1>2, <1>5 DEF ChainInv, FreeNodes, DeadEmpty
<1>7. LinkOf(s, mp) \in N /\ LinkOf(s, mp) # f /\ s.node[mp].next \in Int /\ mp \in Int
  BY <1>1, <1>2, <1>3, <1>5, <1>6 DEF ChainInv, ChainShape, LinksInside
<1>8. TableShape(r) /\ SameFrame(s, r) /\ r.lastfree = f /\ r.array = s.array
  BY DEF Moved
<1>9. prev # f /\ s.node[prev].next # 0 /\ prev \in Int /\ s.node[prev].next \in Int
  <2>1. prev \in Int /\ s.node[prev].next \in Int
    BY <1>3 DEF NodeSet
  <2>2. prev # f
    BY <2>1, <1>4, <1>5, <1>6 DEF LinkOf
  <2>3. QED
    BY <2>1, <2>2 DEF LinkOf
<1>10. DOMAIN r.node = N
  BY <1>8 DEF SameFrame
<1>11. /\ KeyAt(r, mp) = k /\ r.node[mp].val = v
       /\ KeyAt(r, f) = KeyAt(s, mp) /\ r.node[f].val = s.node[mp].val
       /\ \A n \in N : n # f /\ n # mp =>
             KeyAt(r, n) = KeyAt(s, n) /\ r.node[n].val = s.node[n].val
  BY DEF Moved
<1>12. /\ r.node[mp].next = 0 /\ r.node[prev].next = f - prev
       /\ s.node[mp].next = 0 => r.node[f].next = 0
       /\ s.node[mp].next # 0 => r.node[f].next = s.node[mp].next + (mp - f)
       /\ \A n \in N : n # f /\ n # mp /\ n # prev => r.node[n].next = s.node[n].next
  BY DEF Moved
<1>13. /\ LinkOf(r, mp) = mp /\ LinkOf(r, prev) = f /\ r.node[prev].next # 0
       /\ s.node[mp].next = 0 => LinkOf(r, f) = f /\ LinkOf(s, mp) = mp
       /\ s.node[mp].next # 0 => /\ r.node[f].next # 0 /\ LinkOf(r, f) = LinkOf(s, mp)
                                 /\ LinkOf(s, mp) # mp
       /\ \A n \in N : n # f /\ n # mp /\ n # prev => LinkOf(r, n) = LinkOf(s, n)
  <2>1. LinkOf(r, mp) = mp /\ LinkOf(r, prev) = f /\ r.node[prev].next # 0
    BY <1>4, <1>7, <1>9, <1>12 DEF LinkOf
  <2>2. s.node[mp].next = 0 => LinkOf(r, f) = f /\ LinkOf(s, mp) = mp
    BY <1>4, <1>7, <1>12 DEF LinkOf
  <2>3. s.node[mp].next # 0 =>
           r.node[f].next # 0 /\ LinkOf(r, f) = LinkOf(s, mp) /\ LinkOf(s, mp) # mp
    <3> SUFFICES ASSUME s.node[mp].next # 0
                 PROVE  r.node[f].next # 0 /\ LinkOf(r, f) = LinkOf(s, mp) /\ LinkOf(s, mp) # mp
      OBVIOUS
    <3>1. r.node[f].next = s.node[mp].next + (mp - f)
      BY <1>12
    <3>2. LinkOf(s, mp) = mp + s.node[mp].next /\ LinkOf(r, f) = f + r.node[f].next
      BY DEF LinkOf
    <3>3. QED
      BY <3>1, <3>2, <1>4, <1>7
  <2>4. \A n \in N : n # f /\ n # mp /\ n # prev => LinkOf(r, n) = LinkOf(s, n)
    BY <1>12 DEF LinkOf
  <2>5. QED
    BY <2>1, <2>2, <2>3, <2>4
<1>14. \A n \in N : n # mp /\ n # prev => LinkOf(s, n) # mp
  <2> SUFFICES ASSUME NEW n \in N, n # mp, n # prev, LinkOf(s, n) = mp PROVE FALSE
    OBVIOUS
  <2>1. n \in Int /\ s.node[n].next \in Int
    BY <1>3 DEF NodeSet
  <2>2. s.node[n].next # 0
    BY <2>1 DEF LinkOf
  <2>3. QED
    BY <2>2, <1>1, <1>9 DEF ChainInv, LinksDistinct
<1>15. \A j : MainPosition(r, j) = MainPosition(s, j)
  BY <1>10 DEF MainPosition, HashPow2, HashMod, Sizenode
<1> DEFINE D(C) == (C \ {f, mp}) \cup (IF f \in C THEN {mp} ELSE {})
<1>16. ASSUME NEW C \in SUBSET N, Closed(r, C)
       PROVE  Closed(s, D(C)) /\ D(C) \in SUBSET N
  <2>1. D(C) \in SUBSET N
    BY <1>2
  <2> SUFFICES ASSUME NEW x \in D(C) PROVE LinkOf(s, x) \in D(C)
    BY <2>1 DEF Closed
  <2>2. CASE x = mp
    <3>1. f \in C /\ LinkOf(r, f) \in C
      BY <2>2, <1>16 DEF Closed
    <3>2. QED
      BY <3>1, <2>2, <1>7, <1>13
  <2>3. CASE x = prev
    <3>1. f \in C
      BY <2>3, <1>9, <1>13, <1>16 DEF Closed
    <3>2. QED
      BY <3>1, <2>3
  <2>4. CASE x # mp /\ x # prev
    <3>1. x \in C /\ x # f /\ x \in N
      BY <2>4
    <3>2. LinkOf(s, x) \in C
      BY <3>1, <2>4, <1>13, <1>16 DEF Closed
    <3>3. LinkOf(s, x) # f /\ LinkOf(s, x) # mp
      BY <3>1, <2>4, <1>5, <1>14
    <3>4. QED
      BY <3>2, <3>3
  <2>5. QED
    BY <2>2, <2>3, <2>4
<1>17. ASSUME NEW a \in N, NEW b, Reaches(s, a, b), a # f PROVE Reaches(r, Phi(a), Phi(b))
  <2> SUFFICES ASSUME NEW C \in SUBSET N, Phi(a) \in C, Closed(r, C) PROVE Phi(b) \in C
    BY <1>10 DEF Reaches
  <2>1. a \in D(C)
    BY <1>17
  <2>2. b \in D(C)
    BY <2>1, <1>16, <1>17 DEF Reaches
  <2>3. QED
    BY <2>2
<1>18. ChainShape(r)
  <2>1. Sized(r)
    BY <1>1, <1>10 DEF ChainInv, ChainShape, Sized
  <2>2. LinksInside(r)
    <3>1. \A n \in N : r.node[n].next \in Int
      BY <1>8, <1>10, ShapeFacts
    <3>2. \A n \in N : LinkOf(s, n) \in N
      BY <1>1 DEF ChainInv, ChainShape, LinksInside
    <3>3. \A n \in N : LinkOf(r, n) \in N
      BY <3>2, <1>2, <1>4, <1>13
    <3>4. QED
      BY <3>1, <3>3, <1>10 DEF LinksInside
  <2>3. ChainsEnd(r)
    <3> SUFFICES ASSUME NEW C \in SUBSET N, C # {}, Closed(r, C)
                 PROVE  \E x \in C : r.node[x].next = 0
      BY <1>10 DEF ChainsEnd
    <3>1. CASE mp \in C
      BY <3>1, <1>12
    <3>2. CASE mp \notin C
      <4>1. Closed(s, D(C)) /\ D(C) \in SUBSET N /\ D(C) # {}
        BY <3>2, <1>16
      <4>2. PICK x \in D(C) : s.node[x].next = 0
        <5> HIDE DEF D
        <5>1. QED
          BY <4>1, <1>1 DEF ChainInv, ChainShape, ChainsEnd
      <4>3. CASE x = mp
        BY <4>2, <4>3, <1>12
      <4>4. CASE x # mp
        <5>1. x \in C /\ x # f /\ x # prev /\ x \in N
          BY <4>2, <4>4, <1>9
        <5>2. QED
          BY <5>1, <4>2, <4>4, <1>12
      <4>5. QED
        BY <4>3, <4>4
    <3>3. QED
      BY <3>1, <3>2
  <2>4. QED
    BY <2>1, <2>2, <2>3 DEF ChainShape
<1> HIDE DEF D
<1>19. \A n \in N : KeyAt(s, n) \in NodeKeys
  BY <1>1, ShapeFacts
<1>20. FreeNodes(r)
  <2> SUFFICES ASSUME NEW n \in N, KeyAt(r, n) = NilKey
               PROVE  /\ r.node[n].val = Nil /\ r.node[n].next = 0
                      /\ \A m \in N : LinkOf(r, m) = n => m = n
    BY <1>10 DEF FreeNodes
  <2>1. n # f /\ n # mp /\ KeyAt(s, n) = NilKey
    BY <1>1, <1>6, <1>11
  <2>2. s.node[n].val = Nil /\ s.node[n].next = 0 /\ \A m \in N : LinkOf(s, m) = n => m = n
    BY <2>1, <1>1 DEF ChainInv, FreeNodes
  <2>3. n # prev
    BY <2>2, <1>9
  <2>4. \A m \in N : LinkOf(r, m) = n => m = n
    BY <2>1, <2>2, <1>2, <1>13
  <2>5. QED
    BY <2>1, <2>2, <2>3, <2>4, <1>11, <1>12
<1>21. LinksDistinct(r)
  <2>1. \A x, y \in N : s.node[x].next # 0 /\ s.node[y].next # 0 /\ LinkOf(s, x) = LinkOf(s, y)
           => x = y
    BY <1>1 DEF ChainInv, LinksDistinct
  <2>2. ASSUME NEW n \in N, NEW m \in N, r.node[n].next # 0, r.node[m].next # 0,
               LinkOf(r, n) = LinkOf(r, m), n # m
        PROVE  FALSE
    <3>1. n # mp /\ m # mp
      BY <2>2, <1>12
    <3>2. n # prev /\ m # prev
      BY <2>2, <3>1, <1>4, <1>5, <1>7, <1>12, <1>13
    <3>3. \A x \in N : x # f /\ x # mp /\ x # prev /\ r.node[x].next # 0 =>
             s.node[x].next # 0 /\ LinkOf(r, x) = LinkOf(s, x)
      BY <1>12, <1>13
    <3>4. r.node[f].next # 0 => s.node[mp].next # 0 /\ LinkOf(r, f) = LinkOf(s, mp)
      BY <1>12, <1>13
    <3>5. QED
      BY <2>1, <2>2, <3>1, <3>2, <3>3, <3>4, <1>2
  <2>3. QED
    BY <2>2, <1>10 DEF LinksDistinct
<1>22. \A n \in N : KeyAt(s, n) # NilKey =>
         LET p == MainPosition(s, KeyAt(s, n))
         IN  /\ p \in N /\ p # f /\ p # mp /\ KeyAt(s, p) # NilKey
             /\ MainPosition(s, KeyAt(s, p)) = p /\ Reaches(s, p, n)
  <2> SUFFICES ASSUME NEW n \in N, KeyAt(s, n) # NilKey,
                      NEW p, p = MainPosition(s, KeyAt(s, n))
               PROVE  /\ p \in N /\ p # f /\ p # mp /\ KeyAt(s, p) # NilKey
                      /\ MainPosition(s, KeyAt(s, p)) = p /\ Reaches(s, p, n)
    OBVIOUS
  <2>1. p \in N
    BY <1>1, <1>19, MainPositionInside DEF ChainInv, ChainShape
  <2>2. KeyAt(s, p) # NilKey /\ MainPosition(s, KeyAt(s, p)) = p /\ Reaches(s, p, n)
    BY <1>1 DEF ChainInv, HeadsOwn, Found
  <2>3. QED
    BY <2>1, <2>2, <1>4
<1>23. HeadsOwn(r)
  <2> SUFFICES ASSUME NEW n \in N, KeyAt(r, n) # NilKey, NEW p, p = MainPosition(s, KeyAt(r, n))
               PROVE  KeyAt(r, p) # NilKey /\ MainPosition(s, KeyAt(r, p)) = p
    BY <1>10, <1>15 DEF HeadsOwn
  <2>1. CASE n = mp
    BY <2>1, <1>1, <1>11
  <2>2. CASE n # mp
    <3>1. PICK m \in N : KeyAt(r, n) = KeyAt(s, m)
      BY <2>2, <1>2, <1>11
    <3>2. p \in N /\ p # f /\ p # mp /\ KeyAt(s, p) # NilKey /\ MainPosition(s, KeyAt(s, p)) = p
      BY <3>1, <1>22
    <3>3. QED
      BY <3>2, <1>11
  <2>3. QED
    BY <2>1, <2>2
<1>24. Found(r)
  <2> SUFFICES ASSUME NEW n \in N, KeyAt(r, n) # NilKey, NEW p, p = MainPosition(s, KeyAt(r, n))
               PROVE  Reaches(r, p, n)
    BY <1>10, <1>15 DEF Found
  <2>1. CASE n = mp
    BY <2>1, <1>11 DEF Reaches
  <2>2. CASE n # mp
    <3>1. PICK m \in N : KeyAt(r, n) = KeyAt(s, m) /\ n = Phi(m)
      BY <2>2, <1>2, <1>11
    <3>2. p \in N /\ p # f /\ p # mp /\ Reaches(s, p, m)
      BY <3>1, <1>22
    <3>3. Reaches(r, Phi(p), Phi(m))
      BY <3>2, <1>17
    <3>4. Phi(p) = p
      BY <3>2
    <3>5. QED
      BY <3>1, <3>3, <3>4
  <2>3. QED
    BY <2>1, <2>2
<1>25. NewestFirst(r)
  <2> SUFFICES ASSUME NEW n \in N, NEW m \in N, KeyAt(r, n) \in PtrKeys,
                      KeyAt(r, m) = DeadKey(KeyAt(r, n))
               PROVE  Reaches(r, n, m)
    BY <1>10 DEF NewestFirst
  <2>1. MainPosition(s, KeyAt(r, m)) = MainPosition(s, KeyAt(r, n)) /\ KeyAt(r, m) \in DeadKeys
    BY DeadMainPosition
  <2>2. m # f /\ m # mp /\ KeyAt(r, m) = KeyAt(s, m) /\ KeyAt(s, m) # NilKey
    BY <2>1, <1>1, <1>6, <1>11, KeyFacts
  <2>3. n # mp
    BY <2>1, <2>2, <1>11, <1>22
  <2>4. PICK x \in N : KeyAt(r, n) = KeyAt(s, x) /\ n = Phi(x) /\ x # f
    BY <2>3, <1>2, <1>6, <1>11
  <2>5. Reaches(s, x, m)
    BY <2>2, <2>4, <1>1 DEF ChainInv, NewestFirst
  <2>6. Reaches(r, Phi(x), Phi(m))
    BY <2>4, <2>5, <1>17
  <2>7. QED
    BY <2>2, <2>4, <2>6
<1>26. KeysUnique(r)
  <2>1. \A j : InArray(r, j) <=> InArray(s, j)
    BY <1>8 DEF InArray, SameFrame
  <2>2. QED
    BY <2>1, <1>1, <1>2, <1>10, <1>11 DEF KeysUnique, NewKey
<1>27. DeadEmpty(r)
  BY <1>1, <1>2, <1>10, <1>11 DEF DeadEmpty
<1>28. LastFreeBound(r)
  <2>1. ~r.dummy
    BY <1>4, <1>8 DEF SameFrame
  <2>2. \A n \in N : n >= f => KeyAt(r, n) # NilKey
    BY <1>1, <1>3, <1>4, <1>6, <1>11
  <2>3. QED
    BY <2>1, <2>2, <1>8, <1>10 DEF LastFreeBound
<1>29. TableInv(r)
  BY <1>8, <1>18, <1>20, <1>21, <1>23, <1>24, <1>25, <1>26, <1>27, <1>28 DEF TableInv, ChainInv
<1>30. Keeps(s, r, k, v)
  <2>1. \E p \in N : KeyAt(r, p) = k /\ r.node[p].val = v
    BY <1>2, <1>11
  <2>2. \A n \in N : KeyAt(s, n) \in NormalKeys => n # f
    BY <1>4, KeyFacts
  <2>3. \A n \in N : KeyAt(s, n) \in NormalKeys =>
           \E m \in N : KeyAt(r, m) = KeyAt(s, n) /\ r.node[m].val = s.node[n].val
    BY <2>2, <1>4, <1>11
  <2>4. \A m \in N : KeyAt(r, m) \in NormalKeys /\ KeyAt(r, m) # k =>
           \E n \in N : KeyAt(s, n) = KeyAt(r, m) /\ s.node[n].val = r.node[m].val
    BY <1>2, <1>11
  <2>5. QED
    BY <2>1, <2>3, <2>4, <1>10 DEF Keeps
<1>31. \A n \in N : KeyAt(r, n) \in {k, NilKey} \cup {KeyAt(s, m) : m \in N}
  BY <1>2, <1>11
<1>32. QED
  BY <1>8, <1>10, <1>29, <1>30, <1>31, KeepsStores DEF Inserted

LEMMA BehindNodes ==
  ASSUME NEW s, TableShape(s), NEW mp \in DOMAIN s.node, NEW f \in DOMAIN s.node, f # mp,
         NEW k \in NodeKeys, NEW v \in Vals, NEW nx \in Int, NEW off \in Int, NEW g,
         g = [s.node EXCEPT ![f] = [key |-> k, val |-> v, next |-> nx], ![mp].next = off]
  PROVE  /\ g \in [DOMAIN s.node -> NodeSet]
         /\ g[f] = [key |-> k, val |-> v, next |-> nx]
         /\ g[mp].key = s.node[mp].key /\ g[mp].val = s.node[mp].val /\ g[mp].next = off
         /\ \A n \in DOMAIN s.node : n # f /\ n # mp => g[n] = s.node[n]
<1>1. s.node \in [DOMAIN s.node -> NodeSet]
  BY ShapeFacts
<1>2. [key |-> k, val |-> v, next |-> nx] \in NodeSet
  BY DEF NodeSet
<1>3. [s.node[mp] EXCEPT !.next = off] \in NodeSet
  BY <1>1 DEF NodeSet
<1>4. g[mp] = [s.node[mp] EXCEPT !.next = off]
  BY <1>1
<1>5. g[f] = [key |-> k, val |-> v, next |-> nx]
  BY <1>1
<1>6. \A n \in DOMAIN s.node : n # f /\ n # mp => g[n] = s.node[n]
  BY <1>1
<1>7. g \in [DOMAIN s.node -> NodeSet]
  <2>1. DOMAIN g = DOMAIN s.node
    OBVIOUS
  <2>2. \A n \in DOMAIN s.node : g[n] \in NodeSet
    BY <1>1, <1>2, <1>3, <1>4, <1>5, <1>6
  <2>3. QED
    BY <2>1, <2>2
<1>8. s.node[mp] \in NodeSet
  BY <1>1
<1>9. g[mp].key = s.node[mp].key /\ g[mp].val = s.node[mp].val /\ g[mp].next = off
  BY ONLY <1>4, <1>8 DEF NodeSet
<1>10. QED
  BY <1>5, <1>6, <1>7, <1>9

MovedVector(s, mp, prev, f, k, v, nx, off) ==
  [s.node EXCEPT ![prev].next = off,
                 ![f] = [s.node[mp] EXCEPT !.next = nx],
                 ![mp] = [key |-> k, val |-> v, next |-> 0]]

LEMMA MovedNodes ==
  ASSUME NEW s, TableShape(s), NEW mp \in DOMAIN s.node, NEW f \in DOMAIN s.node, f # mp,
         NEW prev \in DOMAIN s.node, prev # mp, prev # f,
         NEW k \in NodeKeys, NEW v \in Vals, NEW nx \in Int, NEW off \in Int, NEW g,
         g = MovedVector(s, mp, prev, f, k, v, nx, off)
  PROVE  /\ g \in [DOMAIN s.node -> NodeSet]
         /\ g[mp] = [key |-> k, val |-> v, next |-> 0]
         /\ g[f].key = s.node[mp].key /\ g[f].val = s.node[mp].val /\ g[f].next = nx
         /\ g[prev].key = s.node[prev].key /\ g[prev].val = s.node[prev].val /\ g[prev].next = off
         /\ \A n \in DOMAIN s.node : n # f /\ n # mp /\ n # prev => g[n] = s.node[n]
<1>1. s.node \in [DOMAIN s.node -> NodeSet]
  BY ShapeFacts
<1>2. [key |-> k, val |-> v, next |-> 0] \in NodeSet
  BY DEF NodeSet
<1>3. s.node[mp] \in NodeSet /\ s.node[prev] \in NodeSet
  BY <1>1
<1> DEFINE a == [s.node[mp] EXCEPT !.next = nx]
           b == [s.node[prev] EXCEPT !.next = off]
<1>4. a \in NodeSet /\ a.key = s.node[mp].key /\ a.val = s.node[mp].val /\ a.next = nx
  BY <1>3 DEF NodeSet
<1>5. b \in NodeSet /\ b.key = s.node[prev].key /\ b.val = s.node[prev].val /\ b.next = off
  BY <1>3 DEF NodeSet
<1>6. g = [s.node EXCEPT ![prev] = b, ![f] = a, ![mp] = [key |-> k, val |-> v, next |-> 0]]
  BY DEF MovedVector
<1> HIDE DEF a, b
<1>7. /\ g[mp] = [key |-> k, val |-> v, next |-> 0] /\ g[f] = a /\ g[prev] = b
      /\ \A n \in DOMAIN s.node : n # f /\ n # mp /\ n # prev => g[n] = s.node[n]
  BY ONLY <1>6, <1>1, mp \in DOMAIN s.node, f \in DOMAIN s.node, prev \in DOMAIN s.node,
          f # mp, prev # mp, prev # f
<1>8. g \in [DOMAIN s.node -> NodeSet]
  <2>1. DOMAIN g = DOMAIN s.node
    BY <1>6
  <2>2. \A n \in DOMAIN s.node : g[n] \in NodeSet
    BY <1>1, <1>2, <1>4, <1>5, <1>7
  <2>3. \E d : g = [n \in DOMAIN s.node |-> d[n]]
    BY <1>6, <2>1
  <2>4. QED
    BY <2>1, <2>2, <2>3
<1>9. QED
  BY <1>4, <1>5, <1>7, <1>8

LEMMA BeforeFacts ==
  ASSUME NEW s, ChainShape(s), NEW a \in DOMAIN s.node, NEW b \in DOMAIN s.node, a # b,
         Reaches(s, a, b)
  PROVE  /\ Before(s, a, b) \in DOMAIN s.node /\ LinkOf(s, Before(s, a, b)) = b
         /\ Before(s, a, b) # b
<1> DEFINE X == {p \in DOMAIN s.node : p + s.node[p].next = b}
           m == Until(s, a, X)
<1>1. StopsRight(s, a, X, m)
  <2>1. X \in SUBSET DOMAIN s.node
    OBVIOUS
  <2> HIDE DEF X
  <2>2. QED
    BY <2>1, UntilFacts
<1>2. Before(s, a, b) = m
  BY DEF Before
<1> HIDE DEF m
<1> DEFINE D == {x \in DOMAIN s.node : Reaches(s, a, x)} \ {b}
<1>3. PICK x \in D : LinkOf(s, x) = b
  <2> SUFFICES ASSUME \A x \in D : LinkOf(s, x) # b PROVE FALSE
    OBVIOUS
  <2>1. a \in D
    BY DEF Reaches
  <2>2. ASSUME NEW x \in D PROVE LinkOf(s, x) \in D
    <3>1. LinkOf(s, x) \in DOMAIN s.node
      BY DEF ChainShape, LinksInside
    <3>2. Reaches(s, a, LinkOf(s, x))
      BY ReachesLink
    <3>3. QED
      BY <3>1, <3>2
  <2>3. Closed(s, D) /\ D \in SUBSET DOMAIN s.node
    BY <2>2 DEF Closed
  <2>4. b \in D
    <3> HIDE DEF D
    <3>1. QED
      BY <2>1, <2>3 DEF Reaches
  <2>5. QED
    BY <2>4
<1>4. x \in X /\ Reaches(s, a, x) /\ x # b
  BY <1>3 DEF LinkOf
<1>5. m \in X /\ Reaches(s, m, x)
  BY <1>1, <1>4 DEF StopsRight
<1>6. m # b
  <2> SUFFICES ASSUME m = b PROVE FALSE
    OBVIOUS
  <2>1. Closed(s, {b}) /\ {b} \in SUBSET DOMAIN s.node
    BY <1>5 DEF Closed, LinkOf
  <2>2. x \in {b}
    BY <2>1, <1>5 DEF Reaches
  <2>3. QED
    BY <2>2, <1>4
<1>7. QED
  BY <1>2, <1>5, <1>6 DEF LinkOf

(* luaH_newkey in a table with room inserts the key and changes nothing else. *)
LEMMA InsertKeyFacts ==
  ASSUME NEW s, TableInv(s), NEW k \in NormalKeys, NewKey(s, k), ~Full(s, k), NEW v \in Vals
  PROVE  Inserted(s, InsertKey(s, k, v), k, v)
<1> DEFINE N == DOMAIN s.node
           mp == MainPosition(s, k)
           f == GetFreePos(s)
           othern == MainPosition(s, KeyAt(s, mp))
           prev == Before(s, othern, mp)
<1> SUFFICES ASSUME NEW r, r = InsertKey(s, k, v) PROVE Inserted(s, r, k, v)
  OBVIOUS
<1>1. /\ TableShape(s) /\ ChainInv(s) /\ ChainShape(s) /\ Sized(s) /\ DeadEmpty(s)
      /\ LastFreeBound(s) /\ k \in NodeKeys
  BY DEF TableInv, NodeKeys, ChainInv, ChainShape
<1>2. mp \in N
  BY <1>1, MainPositionInside
<1>3. \A n \in N : KeyAt(s, n) \in NodeKeys /\ s.node[n].next \in Int
  BY <1>1, ShapeFacts
<1>4. CASE ~Taken(s, k)
  <2> DEFINE g == [s.node EXCEPT ![mp] = [key |-> k, val |-> v, next |-> s.node[mp].next]]
  <2>1. r = [s EXCEPT !.node = g]
    BY <1>4 DEF InsertKey
  <2>2. r = WithNodes(s, s.lastfree, g)
    <3> HIDE DEF g
    <3>1. QED
      BY <2>1, <1>1 DEF WithNodes, TableShape
  <2>3. s.node[mp].val = Nil /\ ~s.dummy
    BY <1>4 DEF Taken
  <2>4. mp = MainPosition(s, k) /\ g = [s.node EXCEPT ![mp] = [key |-> k, val |-> v, next |-> s.node[mp].next]]
    OBVIOUS
  <2> HIDE DEF mp, g
  <2>5. QED
    BY <2>2, <2>3, <2>4, TakeOver
<1>5. CASE Taken(s, k)
  <2>1. f # -1
    BY <1>5 DEF Full
  <2>2. FreeFor(s, f)
    <3> HIDE DEF f
    <3>1. f = GetFreePos(s)
      BY DEF f
    <3>2. QED
      BY <3>1, <2>1, <1>1, FreePosFacts DEF FreeFor
  <2>3. f \in N /\ f \in Nat /\ KeyAt(s, f) = NilKey /\ ~s.dummy /\ f < s.lastfree
    BY <2>2 DEF FreeFor
  <2>4. s.node[mp].val # Nil
    BY <1>5, <2>3 DEF Taken
  <2>5. KeyAt(s, mp) # NilKey /\ f # mp
    BY <2>3, <2>4, <1>1, <1>2 DEF ChainInv, FreeNodes
  <2>6. mp \in Int /\ s.node[mp].next \in Int /\ f <= Sizenode(s)
    BY <2>3, <1>1, <1>2, <1>3, ShapeFacts
  <2>7. mp = MainPosition(s, k) /\ othern = MainPosition(s, KeyAt(s, mp))
    OBVIOUS
  <2>8. othern = MainPosition(s, s.node[mp].key)
    BY DEF KeyAt
  <2>9. CASE othern = mp
    <3> DEFINE nx == IF s.node[mp].next = 0 THEN s.node[f].next ELSE (mp + s.node[mp].next) - f
               off == f - mp
               g == [s.node EXCEPT ![f] = [key |-> k, val |-> v, next |-> nx], ![mp].next = off]
    <3>1. r = [s EXCEPT !.lastfree = f,
                        !.node[f] = [key |-> k, val |-> v,
                                     next |-> IF s.node[mp].next = 0 THEN @.next
                                              ELSE (mp + s.node[mp].next) - f],
                        !.node[mp].next = f - mp]
      BY <1>5, <2>1, <2>8, <2>9 DEF InsertKey
    <3>2. r = WithNodes(s, f, g)
      BY <3>1, <1>1 DEF WithNodes, TableShape
    <3>3. nx \in Int /\ off \in Int /\ off = f - mp
      BY <2>3, <2>6, <1>3
    <3>4. nx = IF s.node[mp].next = 0 THEN 0 ELSE (mp + s.node[mp].next) - f
      BY <2>3, <1>1 DEF ChainInv, FreeNodes
    <3>5. g = [s.node EXCEPT ![f] = [key |-> k, val |-> v, next |-> nx], ![mp].next = off]
      OBVIOUS
    <3> HIDE DEF mp, f, othern, nx, off, g
    <3>6. /\ g \in [N -> NodeSet]
          /\ g[f] = [key |-> k, val |-> v, next |-> nx]
          /\ g[mp].key = s.node[mp].key /\ g[mp].val = s.node[mp].val /\ g[mp].next = off
          /\ \A n \in N : n # f /\ n # mp => g[n] = s.node[n]
      BY <3>3, <3>5, <2>3, <2>5, <1>1, <1>2, BehindNodes
    <3>7. TableShape(r) /\ SameFrame(s, r) /\ r.node = g /\ r.lastfree = f /\ r.array = s.array
      BY ONLY <3>2, <3>6, <2>3, <2>6, <1>1, WithNodesFacts
    <3>8. /\ KeyAt(r, f) = k /\ r.node[f].val = v /\ r.node[f].next = nx
          /\ r.node[mp].next = off
          /\ KeyAt(r, mp) = KeyAt(s, mp) /\ r.node[mp].val = s.node[mp].val
          /\ \A n \in N : n # f /\ n # mp => r.node[n] = s.node[n]
      BY ONLY <3>6, <3>7 DEF KeyAt
    <3>9. /\ \A n \in N : n # f => KeyAt(r, n) = KeyAt(s, n) /\ r.node[n].val = s.node[n].val
          /\ \A n \in N : n # f /\ n # mp => r.node[n].next = s.node[n].next
      BY ONLY <3>8 DEF KeyAt
    <3>10. Behind(s, r, mp, f, k, v)
      BY ONLY <3>3, <3>4, <3>7, <3>8, <3>9 DEF Behind
    <3>11. QED
      BY <3>10, <2>2, <2>4, <2>7, <2>9, BehindInserts
  <2>10. CASE othern # mp
    <3> DEFINE nx == IF s.node[mp].next = 0 THEN 0 ELSE s.node[mp].next + (mp - f)
               off == f - prev
               g == [s.node EXCEPT ![prev].next = off,
                                   ![f] = [s.node[mp] EXCEPT !.next = nx],
                                   ![mp] = [key |-> k, val |-> v, next |-> 0]]
    <3>1. othern \in N /\ Reaches(s, othern, mp)
      BY <2>5, <1>1, <1>2, <1>3, MainPositionInside DEF ChainInv, Found
    <3>2. prev \in N /\ LinkOf(s, prev) = mp /\ prev # mp
      <4> HIDE DEF mp, othern
      <4>1. QED
        BY <3>1, <2>10, <1>1, <1>2, BeforeFacts
    <3>3. prev \in Int /\ s.node[prev].next \in Int
      BY <3>2, <1>1, <1>3, ShapeFacts
    <3>4. prev # f
      BY <3>2, <3>3, <2>3, <2>5, <1>1 DEF ChainInv, FreeNodes, LinkOf
    <3>5. s.node[mp].val # Nil /\ Taken(s, k) /\ othern # mp /\ f # -1
      BY <1>5, <2>1, <2>4, <2>10
    <3>6. r = [s EXCEPT !.lastfree = f,
                        !.node[prev].next = f - prev,
                        !.node[f] = [s.node[mp] EXCEPT !.next = IF @ = 0 THEN 0 ELSE @ + (mp - f)],
                        !.node[mp] = [key |-> k, val |-> v, next |-> 0]]
      BY <3>5, <2>8 DEF InsertKey
    <3>7. r = WithNodes(s, f, g)
      BY <3>6, <1>1 DEF WithNodes, TableShape
    <3>8. nx \in Int /\ off \in Int /\ off = f - prev
      BY <3>3, <2>3, <2>6
    <3>9. nx = IF s.node[mp].next = 0 THEN 0 ELSE s.node[mp].next + (mp - f)
      OBVIOUS
    <3>10. g = MovedVector(s, mp, prev, f, k, v, nx, off)
      BY DEF MovedVector
    <3> HIDE DEF mp, f, othern, prev, nx, off, g
    <3>11. /\ g \in [N -> NodeSet]
           /\ g[mp] = [key |-> k, val |-> v, next |-> 0]
           /\ g[f].key = s.node[mp].key /\ g[f].val = s.node[mp].val /\ g[f].next = nx
           /\ g[prev].key = s.node[prev].key /\ g[prev].val = s.node[prev].val
           /\ g[prev].next = off
           /\ \A n \in N : n # f /\ n # mp /\ n # prev => g[n] = s.node[n]
      BY <3>2, <3>4, <3>8, <3>10, <2>3, <2>5, <1>1, <1>2, MovedNodes
    <3>12. TableShape(r) /\ SameFrame(s, r) /\ r.node = g /\ r.lastfree = f /\ r.array = s.array
      BY ONLY <3>7, <3>11, <2>3, <2>6, <1>1, WithNodesFacts
    <3>13. /\ KeyAt(r, mp) = k /\ r.node[mp].val = v /\ r.node[mp].next = 0
           /\ KeyAt(r, f) = KeyAt(s, mp) /\ r.node[f].val = s.node[mp].val
           /\ r.node[f].next = nx
           /\ KeyAt(r, prev) = KeyAt(s, prev) /\ r.node[prev].val = s.node[prev].val
           /\ r.node[prev].next = off
           /\ \A n \in N : n # f /\ n # mp /\ n # prev => r.node[n] = s.node[n]
      BY ONLY <3>11, <3>12 DEF KeyAt
    <3>14. /\ \A n \in N : n # f /\ n # mp =>
                 KeyAt(r, n) = KeyAt(s, n) /\ r.node[n].val = s.node[n].val
           /\ \A n \in N : n # f /\ n # mp /\ n # prev => r.node[n].next = s.node[n].next
      BY ONLY <3>13 DEF KeyAt
    <3>15. Moved(s, r, mp, prev, f, k, v)
      BY ONLY <3>8, <3>9, <3>12, <3>13, <3>14 DEF Moved
    <3>16. QED
      BY <3>2, <3>15, <2>2, <2>4, <2>7, <2>10, MovedInserts
  <2>11. QED
    BY <2>9, <2>10
<1>6. QED
  BY <1>4, <1>5

-----------------------------------------------------------------------------
(* Storing a value in a table with room, and emptied tables.               *)

LEMMA NewKeyHas ==
  ASSUME NEW s, TableInv(s), NEW k \in NormalKeys
  PROVE  Has(s, k) <=> ~NewKey(s, k)
BY GetFacts DEF NewKey

LEMMA PutFacts ==
  ASSUME NEW s, TableInv(s), NEW k \in NormalKeys, NEW v \in Vals,
         NewKey(s, k) => ~Full(s, k)
  PROVE  Inserted(s, Put(s, k, v), k, v)
<1>1. CASE Has(s, k)
  <2> DEFINE r == SetSlot(s, k, v)
  <2>1. Put(s, k, v) = r
    BY <1>1 DEF Put
  <2>2. TableInv(r) /\ SameKeys(s, r) /\ Stores(s, r, k, v)
    BY <1>1, SetSlotFacts
  <2> HIDE DEF r
  <2>3. \A n \in DOMAIN r.node : KeyAt(r, n) \in {KeyAt(s, m) : m \in DOMAIN s.node}
    BY <2>2 DEF SameKeys, SameFrame
  <2>4. QED
    BY <2>1, <2>2, <2>3 DEF Inserted, SameKeys
<1>2. CASE ~Has(s, k)
  <2>1. NewKey(s, k)
    BY <1>2, NewKeyHas
  <2>2. Inserted(s, InsertKey(s, k, v), k, v)
    BY <2>1, InsertKeyFacts
  <2>3. QED
    BY <1>2, <2>2 DEF Put
<1>3. QED
  BY <1>1, <1>2

(* A table whose nodes hold only keys of a set that fits has room for      *)
(* another key of that set.                                                *)
LEMMA RoomLeft ==
  ASSUME NEW s, TableInv(s), NEW H, IsFiniteSet(H), NEW k \in H, H \subseteq NormalKeys,
         NewKey(s, k), ~s.dummy, Cardinality(H) <= Sizenode(s),
         \A n \in DOMAIN s.node : KeyAt(s, n) \in H \cup {NilKey}
  PROVE  ~Full(s, k)
<1> DEFINE N == DOMAIN s.node
<1>1. TableShape(s) /\ LastFreeBound(s) /\ KeysUnique(s) /\ Sized(s)
  BY DEF TableInv, ChainInv, ChainShape
<1>2. PICK n \in N : KeyAt(s, n) = NilKey
  <2> SUFFICES ASSUME \A n \in N : KeyAt(s, n) # NilKey PROVE FALSE
    OBVIOUS
  <2> DEFINE h == [n \in N |-> KeyAt(s, n)]
             T == H \ {k}
  <2>1. h \in [N -> T]
    BY DEF NewKey
  <2>2. IsFiniteSet(T) /\ Cardinality(T) = Cardinality(H) - 1
    BY FS_RemoveElement
  <2>3. IsFiniteSet(N) /\ Cardinality(N) = Sizenode(s) /\ Sizenode(s) \in Nat
    BY <1>1, SizeFacts
  <2>4. Cardinality(H) \in Nat
    BY FS_CardinalityType
  <2>5. Cardinality(T) < Cardinality(N)
    BY <2>2, <2>3, <2>4
  <2>6. \E x, y \in N : x # y /\ h[x] = h[y]
    <3> HIDE DEF h, T
    <3>1. QED
      BY <2>1, <2>2, <2>3, <2>5, FS_PigeonHole
  <2>7. QED
    BY <2>6, <1>1 DEF KeysUnique
<1>3. GetFreePos(s) # -1
  BY <1>1, <1>2, FreePosFacts
<1>4. QED
  BY <1>3 DEF Full

LEMMA FreshInv ==
  ASSUME NEW r, NEW K \in Nat, K # 0, r.node = [n \in 0 .. K - 1 |-> EmptyNode], TableShape(r),
         r.dummy => K = 1 /\ r.lastfree = 0, ~r.dummy => r.lastfree = K
  PROVE  TableInv(r) /\ \A n \in DOMAIN r.node : KeyAt(r, n) = NilKey
<1>1. DOMAIN r.node = 0 .. K - 1
  OBVIOUS
<1>2. \A n \in DOMAIN r.node : /\ KeyAt(r, n) = NilKey /\ r.node[n].val = Nil
                               /\ r.node[n].next = 0 /\ LinkOf(r, n) = n
  BY DEF EmptyNode, KeyAt, LinkOf
<1>3. ChainShape(r)
  <2>1. Sized(r)
    BY <1>1 DEF Sized
  <2>2. LinksInside(r)
    BY <1>2 DEF LinksInside
  <2>3. ChainsEnd(r)
    BY <1>2 DEF ChainsEnd
  <2>4. QED
    BY <2>1, <2>2, <2>3 DEF ChainShape
<1>4. FreeNodes(r) /\ LinksDistinct(r) /\ HeadsOwn(r) /\ Found(r)
  BY <1>2 DEF FreeNodes, LinksDistinct, HeadsOwn, Found
<1>5. NewestFirst(r) /\ KeysUnique(r) /\ DeadEmpty(r)
  BY <1>2, KeyFacts DEF NewestFirst, KeysUnique, DeadEmpty, PtrKeys
<1>6. LastFreeBound(r)
  <2>1. CASE r.dummy
    <3>1. K - 1 = 0
      BY <2>1
    <3>2. QED
      BY <2>1, <3>1 DEF LastFreeBound
  <2>2. CASE ~r.dummy
    <3>1. \A n \in DOMAIN r.node : ~(n >= r.lastfree)
      BY <2>2, <1>1
    <3>2. QED
      BY <2>2, <3>1 DEF LastFreeBound
  <2>3. QED
    BY <2>1, <2>2
<1>7. QED
  BY <1>2, <1>3, <1>4, <1>5, <1>6 DEF TableInv, ChainInv

(* What setnodevector leaves of a table with a new array part.             *)
LEMMA SetNodeVectorFacts ==
  ASSUME NEW s, NEW size \in Nat, s.array \in Seq(Vals), s.flags \in BOOLEAN,
         s \in [array : Seq(Vals), node : NodeVectors \cup {<<>>}, dummy : BOOLEAN,
                lastfree : Nat, flags : BOOLEAN],
         Sizearray(s) <= 2^MAXABITS,
         \A i \in 1 .. Sizearray(s) : s.array[i] # Nil => IntKey(i) \in NormalKeys,
         NEW r, r = SetNodeVector(s, size)
  PROVE  /\ TableInv(r) /\ r.array = s.array /\ r.flags = s.flags
         /\ r.dummy <=> size = 0
         /\ size <= Sizenode(r)
         /\ \A n \in DOMAIN r.node : KeyAt(r, n) = NilKey
<1> DEFINE K == IF size = 0 THEN 1 ELSE 2^CeilLog2(size)
<1>1. K \in Nat /\ K # 0 /\ size <= K
  <2>1. CeilLog2(size) \in Nat /\ size <= 2^CeilLog2(size)
    BY CeilLog2Facts
  <2>2. 2^CeilLog2(size) \in Nat
    BY <2>1, PowerSet
  <2> DEFINE P == 2^CeilLog2(size)
  <2>3. P \in Nat /\ size <= P /\ K = IF size = 0 THEN 1 ELSE P
    BY <2>1, <2>2
  <2> HIDE DEF P, K
  <2>4. QED
    BY <2>3
<1>2. r = [s EXCEPT !.node = [n \in 0 .. K - 1 |-> EmptyNode], !.dummy = (size = 0),
                    !.lastfree = IF size = 0 THEN 0 ELSE K]
  <2>1. CASE size = 0
    <3>1. K = 1 /\ 0 .. K - 1 = 0 .. 0 /\ (size = 0) = TRUE
      BY <2>1
    <3>2. QED
      BY <2>1, <3>1 DEF SetNodeVector
  <2>2. CASE size # 0
    <3>1. (size = 0) = FALSE /\ K = 2^CeilLog2(size)
      BY <2>2
    <3>2. QED
      BY <2>2, <3>1 DEF SetNodeVector
  <2>3. QED
    BY <2>1, <2>2
<1> HIDE DEF K
<1>3. /\ r.node = [n \in 0 .. K - 1 |-> EmptyNode] /\ r.dummy = (size = 0)
      /\ r.lastfree = (IF size = 0 THEN 0 ELSE K)
      /\ r.array = s.array /\ r.flags = s.flags
  BY <1>2
<1>4. EmptyNode \in NodeSet
  BY DEF EmptyNode, NodeSet, NodeKeys, Vals
<1>5. r.node \in NodeVectors
  <2>1. r.node \in [0 .. K - 1 -> NodeSet]
    BY <1>3, <1>4
  <2>2. K \in Nat \ {0}
    BY <1>1
  <2>3. QED
    BY <2>1, <2>2 DEF NodeVectors
<1>6. Sizenode(r) = K
  <2>1. DOMAIN r.node = 0 .. K - 1
    BY <1>3
  <2>2. 0 \in Int /\ K - 1 \in Int
    BY <1>1
  <2>3. Cardinality(0 .. K - 1) = IF 0 > K - 1 THEN 0 ELSE (K - 1) - 0 + 1
    BY <2>2, FS_Interval
  <2>4. QED
    BY <2>1, <2>3, <1>1 DEF Sizenode
<1>7. TableShape(r)
  <2>1. r \in [array : Seq(Vals), node : NodeVectors, dummy : BOOLEAN,
               lastfree : Nat, flags : BOOLEAN]
    <3>1. r.lastfree \in Nat /\ r.dummy \in BOOLEAN /\ r.array \in Seq(Vals) /\ r.flags \in BOOLEAN
      BY <1>1, <1>3
    <3>2. r = [array |-> r.array, node |-> r.node, dummy |-> r.dummy,
               lastfree |-> r.lastfree, flags |-> r.flags]
      BY <1>2
    <3>3. QED
      BY ONLY <3>1, <3>2, <1>5
  <2>2. r.lastfree <= Sizenode(r)
    BY <1>1, <1>3, <1>6
  <2>3. Sizearray(r) = Sizearray(s)
    BY <1>3 DEF Sizearray
  <2>4. QED
    BY <2>1, <2>2, <2>3, <1>3 DEF TableShape
<1>8. /\ r.dummy => K = 1 /\ r.lastfree = 0
      /\ ~r.dummy => r.lastfree = K
  BY <1>3 DEF K
<1>9. TableInv(r) /\ \A n \in DOMAIN r.node : KeyAt(r, n) = NilKey
  BY <1>1, <1>3, <1>7, <1>8, FreshInv
<1>10. QED
  BY <1>1, <1>3, <1>6, <1>9

-----------------------------------------------------------------------------
(* luaH_resize.                                                            *)

NewArray(s, nasize) == [i \in 1 .. nasize |-> IF i <= Sizearray(s) THEN s.array[i] ELSE Nil]
WithArray(s, a) == [s EXCEPT !.array = a]

LEMMA WithArrayFacts ==
  ASSUME NEW s, TableInv(s), NEW a \in Seq(Vals), NEW q, q = WithArray(s, a)
  PROVE  /\ q.array = a /\ q.flags = s.flags
         /\ q \in [array : Seq(Vals), node : NodeVectors \cup {<<>>}, dummy : BOOLEAN,
                   lastfree : Nat, flags : BOOLEAN]
BY DEF TableInv, TableShape, WithArray

(* The array part is cut or filled up with nil, the nodes are empty.       *)
LEMMA EmptiedFacts ==
  ASSUME NEW s, TableInv(s), NEW nasize \in Nat, nasize <= 2^MAXABITS, NEW nhsize \in Nat,
         NEW r, r = Emptied(s, nasize, nhsize)
  PROVE  /\ TableInv(r) /\ r.flags = s.flags /\ Sizearray(r) = nasize
         /\ r.dummy <=> nhsize = 0
         /\ nhsize <= Sizenode(r)
         /\ \A n \in DOMAIN r.node : KeyAt(r, n) = NilKey
         /\ \A k \in NormalKeys :
               LuaH_get(r, k) = IF InArray(r, k) /\ InArray(s, k) THEN LuaH_get(s, k) ELSE Nil
<1> DEFINE a == NewArray(s, nasize)
           q == WithArray(s, a)
<1>1. TableShape(s)
  BY DEF TableInv
<1>2. s.array \in Seq(Vals) /\ Sizearray(s) \in Nat
  BY <1>1, ShapeFacts
<1>3. a \in Seq(Vals) /\ Len(a) = nasize
  <2>1. \A i \in 1 .. nasize : (IF i <= Sizearray(s) THEN s.array[i] ELSE Nil) \in Vals
    BY <1>2 DEF Sizearray, Vals
  <2>2. a \in [1 .. nasize -> Vals]
    BY <2>1 DEF NewArray
  <2>3. QED
    BY <2>2
<1>3a. \A i \in 1 .. nasize : a[i] = IF i <= Sizearray(s) THEN s.array[i] ELSE Nil
  BY DEF NewArray
<1>4. r = SetNodeVector(q, nhsize)
  BY DEF Emptied, SetArrayVector, NewArray, WithArray
<1> HIDE DEF a, q
<1>4a. q = WithArray(s, a)
  BY DEF q
<1>5. /\ q.array = a /\ q.flags = s.flags
      /\ q \in [array : Seq(Vals), node : NodeVectors \cup {<<>>}, dummy : BOOLEAN,
                lastfree : Nat, flags : BOOLEAN]
  BY <1>3, <1>4a, WithArrayFacts
<1>6. Sizearray(q) = nasize
  BY <1>3, <1>5 DEF Sizearray
<1>7. \A i \in 1 .. Sizearray(q) : q.array[i] # Nil => IntKey(i) \in NormalKeys
  <2>1. \A i \in 1 .. Sizearray(s) : s.array[i] # Nil => IntKey(i) \in NormalKeys
    BY <1>1 DEF TableShape
  <2>2. QED
    BY <2>1, <1>2, <1>3a, <1>5, <1>6
<1>8. q.array \in Seq(Vals) /\ q.flags \in BOOLEAN /\ Sizearray(q) <= 2^MAXABITS
  <2>1. s.flags \in BOOLEAN
    BY <1>1, ShapeFacts
  <2>2. QED
    BY <1>3, <1>5, <1>6, <2>1
<1>9. /\ TableInv(r) /\ r.array = q.array /\ r.flags = q.flags
      /\ r.dummy <=> nhsize = 0
      /\ nhsize <= Sizenode(r)
      /\ \A n \in DOMAIN r.node : KeyAt(r, n) = NilKey
  BY <1>4, <1>5, <1>7, <1>8, SetNodeVectorFacts
<1>10. Sizearray(r) = nasize
  BY <1>6, <1>9 DEF Sizearray
<1>11. ASSUME NEW k \in NormalKeys
       PROVE  LuaH_get(r, k) = IF InArray(r, k) /\ InArray(s, k) THEN LuaH_get(s, k) ELSE Nil
  <2>1. CASE ~InArray(r, k)
    <3>1. \A n \in DOMAIN r.node : KeyAt(r, n) # k
      BY <1>9, KeyFacts
    <3>2. QED
      BY <2>1, <3>1, <1>9, GetFacts
  <2>2. CASE InArray(r, k)
    <3>1. LuaH_get(r, k) = r.array[ArrayIndex(k)]
      BY <2>2, <1>9, GetFacts
    <3>2. ArrayIndex(k) \in 1 .. nasize /\ k[1] = "int" /\ k[2] = ArrayIndex(k)
      <4>1. Sizearray(r) \in Nat /\ Sizearray(r) <= 2^MAXABITS
        BY <1>10
      <4>2. QED
        BY <4>1, <2>2, <1>10, InArrayFacts
    <3>3. InArray(s, k) <=> ArrayIndex(k) <= Sizearray(s)
      <4>1. Sizearray(s) <= 2^MAXABITS
        BY <1>1 DEF TableShape
      <4>2. InArray(s, k) <=> k[1] = "int" /\ k[2] \in 1 .. Sizearray(s)
        BY <4>1, <1>2, InArrayFacts
      <4>3. QED
        BY <4>2, <3>2, <1>2
    <3>4. InArray(s, k) => LuaH_get(s, k) = s.array[ArrayIndex(k)]
      BY GetFacts
    <3>5. r.array[ArrayIndex(k)]
            = IF ArrayIndex(k) <= Sizearray(s) THEN s.array[ArrayIndex(k)] ELSE Nil
      BY <3>2, <1>3a, <1>5, <1>9
    <3>6. QED
      BY <2>2, <3>1, <3>3, <3>4, <3>5
  <2>3. QED
    BY <2>1, <2>2
<1>12. QED
  BY <1>5, <1>9, <1>10, <1>11

(* A node with a value has a key that a program used.                      *)
LEMMA ValueHasKey ==
  ASSUME NEW s, TableInv(s), NEW n \in DOMAIN s.node, s.node[n].val # Nil
  PROVE  KeyAt(s, n) \in NormalKeys
<1>1. KeyAt(s, n) \in NodeKeys
  BY ShapeFacts DEF TableInv
<1>2. KeyAt(s, n) # NilKey
  BY DEF TableInv, ChainInv, FreeNodes
<1>3. KeyAt(s, n) \notin DeadKeys
  BY DEF TableInv, DeadEmpty
<1>4. QED
  BY <1>1, <1>2, <1>3 DEF NodeKeys

(* What luaH_resize inserts again are fields of the table.                 *)
LEMMA ItemFacts ==
  ASSUME NEW s, TableInv(s), NEW nasize \in Nat,
         NEW j \in 1 .. Vanishing(s, nasize) + Sizenode(s),
         Item(s, nasize, j).val # Nil
  PROVE  /\ Item(s, nasize, j).key \in NormalKeys
         /\ Item(s, nasize, j).val = LuaH_get(s, Item(s, nasize, j).key)
         /\ Item(s, nasize, j).val \in Vals
<1> DEFINE gone == Vanishing(s, nasize)
           k == Item(s, nasize, j).key
<1>1. /\ Sizearray(s) \in Nat /\ Sizenode(s) \in Nat /\ s.array \in Seq(Vals)
      /\ DOMAIN s.node = 0 .. Sizenode(s) - 1 /\ TableShape(s)
      /\ \A n \in DOMAIN s.node : s.node[n].val \in Vals
  BY ShapeFacts DEF TableInv
<1>2. gone \in Nat
  BY <1>1 DEF Vanishing
<1>3. CASE j <= gone
  <2>1. nasize + j \in 1 .. Sizearray(s)
    BY <1>1, <1>2, <1>3 DEF Vanishing
  <2>2. Item(s, nasize, j) = [key |-> IntKey(nasize + j), val |-> s.array[nasize + j]]
    BY <1>3 DEF Item
  <2>3. k = IntKey(nasize + j) /\ Item(s, nasize, j).val = s.array[nasize + j]
    BY <2>2
  <2>4. k \in NormalKeys
    BY <2>1, <2>3, <1>1 DEF TableShape
  <2>5. s.array[nasize + j] \in Vals
    BY <1>1, <2>1 DEF Sizearray
  <2>6. InArray(s, k) /\ ArrayIndex(k) = nasize + j
    <3>1. Sizearray(s) <= 2^MAXABITS
      BY <1>1 DEF TableShape
    <3>2. k[1] = "int" /\ k[2] = nasize + j
      BY <2>3 DEF IntKey
    <3>3. QED
      BY <1>1, <2>1, <2>4, <3>1, <3>2, InArrayFacts
  <2>7. LuaH_get(s, k) = s.array[nasize + j]
    BY <2>4, <2>6, GetFacts
  <2>8. QED
    BY <2>3, <2>4, <2>5, <2>7
<1>4. CASE ~(j <= gone)
  <2> DEFINE n == gone + Sizenode(s) - j
  <2>1. n \in DOMAIN s.node
    BY <1>1, <1>2, <1>4
  <2>2. Item(s, nasize, j) = [key |-> s.node[n].key, val |-> s.node[n].val]
    BY <1>4 DEF Item
  <2>3. k = KeyAt(s, n) /\ Item(s, nasize, j).val = s.node[n].val
    BY <2>2 DEF KeyAt
  <2> HIDE DEF n
  <2>4. k \in NormalKeys
    BY <2>1, <2>3, ValueHasKey
  <2>5. LuaH_get(s, k) = s.node[n].val
    <3> HIDE DEF k
    <3>1. QED
      BY <2>1, <2>3, <2>4, GetFacts
  <2>6. QED
    BY <2>1, <2>3, <2>4, <2>5, <1>1
<1>5. QED
  BY <1>3, <1>4

(* Every field outside the array part that stays is inserted again.        *)
LEMMA ItemsComplete ==
  ASSUME NEW s, TableInv(s), NEW nasize \in Nat, NEW k \in NormalKeys, LuaH_get(s, k) # Nil,
         ~(InArray(s, k) /\ k[2] <= nasize)
  PROVE  \E j \in 1 .. Vanishing(s, nasize) + Sizenode(s) :
            Item(s, nasize, j).key = k /\ Item(s, nasize, j).val = LuaH_get(s, k)
<1> DEFINE gone == Vanishing(s, nasize)
<1>1. /\ Sizearray(s) \in Nat /\ Sizenode(s) \in Nat
      /\ DOMAIN s.node = 0 .. Sizenode(s) - 1 /\ TableShape(s)
      /\ Sizearray(s) <= 2^MAXABITS
  BY ShapeFacts DEF TableInv, TableShape
<1>2. gone \in Nat
  BY <1>1 DEF Vanishing
<1>3. CASE InArray(s, k)
  <2>1. k[1] = "int" /\ k[2] \in 1 .. Sizearray(s) /\ ArrayIndex(k) = k[2] /\ k = IntKey(k[2])
    BY <1>1, <1>3, InArrayFacts
  <2>2. LuaH_get(s, k) = s.array[k[2]]
    BY <1>3, <2>1, GetFacts
  <2> DEFINE j == k[2] - nasize
  <2>3. j \in 1 .. gone /\ nasize + j = k[2]
    BY <1>1, <1>3, <2>1 DEF Vanishing
  <2>4. Item(s, nasize, j) = [key |-> IntKey(k[2]), val |-> s.array[k[2]]]
    BY <2>3, <1>2 DEF Item
  <2>5. j \in 1 .. gone + Sizenode(s)
    BY <2>3, <1>1, <1>2
  <2>6. QED
    BY <2>1, <2>2, <2>4, <2>5
<1>4. CASE ~InArray(s, k)
  <2>1. PICK n \in DOMAIN s.node : KeyAt(s, n) = k /\ LuaH_get(s, k) = s.node[n].val
    BY <1>4, GetFacts
  <2> DEFINE j == gone + Sizenode(s) - n
  <2>2. j \in 1 .. gone + Sizenode(s) /\ ~(j <= gone) /\ gone + Sizenode(s) - j = n
    BY <1>1, <1>2, <2>1
  <2>3. Item(s, nasize, j) = [key |-> s.node[n].key, val |-> s.node[n].val]
    BY <2>2 DEF Item
  <2>4. QED
    BY <2>1, <2>2, <2>3 DEF KeyAt
<1>5. QED
  BY <1>3, <1>4

ResizeStep(s, nasize, x, i) == PutItem(x, Item(s, nasize, i))
Resizing(s, nasize, a, n) ==
  LET r[i \in 0 .. n] == IF i = 0 THEN a ELSE PutItem(r[i - 1], Item(s, nasize, i)) IN r

(* The loop of luaH_resize has the values its equations state.             *)
LEMMA ResizeIterates ==
  ASSUME NEW s, NEW nasize, NEW a, NEW n \in Nat
  PROVE  /\ Resizing(s, nasize, a, n)[0] = a
         /\ \A i \in 0 .. n - 1 :
               Resizing(s, nasize, a, n)[i + 1]
                 = PutItem(Resizing(s, nasize, a, n)[i], Item(s, nasize, i + 1))
<1> DEFINE F(x, i) == ResizeStep(s, nasize, x, i)
           G(g, m) == g = [i \in 0 .. m |-> IF i = 0 THEN a ELSE F(g[i - 1], i)]
           S == {m \in Nat : \E g : G(g, m)}
           at[i \in 0 .. n] == IF i = 0 THEN a ELSE F(at[i - 1], i)
<1> HIDE DEF F
<1>1. 0 \in S
  <2>1. G([i \in 0 .. 0 |-> a], 0)
    OBVIOUS
  <2>2. QED
    BY <2>1
<1>2. ASSUME NEW m \in Nat, m \in S PROVE m + 1 \in S
  <2>1. PICK g : G(g, m)
    BY <1>2
  <2> DEFINE h == [i \in 0 .. m + 1 |-> IF i <= m THEN g[i] ELSE F(g[m], m + 1)]
  <2>2. \A i \in 0 .. m : h[i] = g[i]
    OBVIOUS
  <2>3. \A i \in 0 .. m + 1 : h[i] = IF i = 0 THEN a ELSE F(h[i - 1], i)
    <3> SUFFICES ASSUME NEW i \in 0 .. m + 1 PROVE h[i] = IF i = 0 THEN a ELSE F(h[i - 1], i)
      OBVIOUS
    <3>1. CASE i = 0
      BY <2>1, <3>1
    <3>2. CASE i # 0 /\ i <= m
      <4>1. g[i] = F(g[i - 1], i)
        BY <2>1, <3>2
      <4>2. i - 1 \in 0 .. m
        BY <3>2
      <4>3. QED
        BY <2>2, <3>2, <4>1, <4>2
    <3>3. CASE i = m + 1
      <4>1. h[i - 1] = g[m] /\ h[i] = F(g[m], m + 1)
        BY <2>2, <3>3
      <4>2. QED
        BY <4>1, <3>3
    <3>4. QED
      BY <3>1, <3>2, <3>3
  <2>4. h = [i \in 0 .. m + 1 |-> IF i = 0 THEN a ELSE F(h[i - 1], i)]
    BY <2>3
  <2>5. G(h, m + 1)
    BY <2>4
  <2>6. \E k : G(k, m + 1)
    <3> HIDE DEF G, h
    <3>1. QED
      BY <2>5
  <2>7. QED
    <3> HIDE DEF G
    <3>1. QED
      BY <2>6
<1>3. n \in S
  <2> HIDE DEF S
  <2>1. QED
    BY <1>1, <1>2, NatSet
<1>4. at = [i \in 0 .. n |-> IF i = 0 THEN a ELSE F(at[i - 1], i)]
  BY <1>3
<1>5. at[0] = a /\ \A i \in 0 .. n - 1 : at[i + 1] = F(at[i], i + 1)
  <2> HIDE DEF at
  <2>1. \A i \in 0 .. n : at[i] = IF i = 0 THEN a ELSE F(at[i - 1], i)
    BY <1>4
  <2>2. 0 \in 0 .. n /\ \A i \in 0 .. n - 1 : i + 1 \in 0 .. n /\ i + 1 # 0 /\ (i + 1) - 1 = i
    OBVIOUS
  <2>3. QED
    BY <2>1, <2>2
<1>6. at = Resizing(s, nasize, a, n)
  BY DEF Resizing, F, ResizeStep
<1>7. \A x, i : F(x, i) = PutItem(x, Item(s, nasize, i))
  BY DEF F, ResizeStep
<1> HIDE DEF at
<1>8. QED
  BY ONLY <1>5, <1>6, <1>7

(* What luaH_resize has done when the first i items are back, with H the   *)
(* keys that belong into nodes.                                            *)
Resized(s, r, nasize, nhsize, H, i) ==
  /\ TableInv(r) /\ r.flags = s.flags /\ Sizearray(r) = nasize
  /\ r.dummy <=> nhsize = 0
  /\ nhsize <= Sizenode(r)
  /\ \A n \in DOMAIN r.node : KeyAt(r, n) \in H \cup {NilKey}
  /\ \A k \in NormalKeys : LuaH_get(r, k) \in {Nil, LuaH_get(s, k)}
  /\ \A k \in NormalKeys : InArray(r, k) /\ InArray(s, k) => LuaH_get(r, k) = LuaH_get(s, k)
  /\ \A j \in 1 .. i : Item(s, nasize, j).val # Nil =>
        LuaH_get(r, Item(s, nasize, j).key) = Item(s, nasize, j).val

(* Every field has a slot of the array part or is one of H.                *)
Divided(s, nasize, H) ==
  \A k \in NormalKeys : LuaH_get(s, k) # Nil =>
     k \in H \/ (k[1] = "int" /\ k[2] \in 1 .. nasize)

LEMMA ResizeStepFacts ==
  ASSUME NEW s, TableInv(s), NEW nasize \in Nat, nasize <= 2^MAXABITS, NEW nhsize \in Nat,
         NEW H, H \subseteq NormalKeys, IsFiniteSet(H), Cardinality(H) <= nhsize,
         Divided(s, nasize, H),
         NEW count, count = Vanishing(s, nasize) + Sizenode(s), NEW i \in 0 .. count - 1,
         NEW x, Resized(s, x, nasize, nhsize, H, i)
  PROVE  Resized(s, PutItem(x, Item(s, nasize, i + 1)), nasize, nhsize, H, i + 1)
<1> DEFINE it == Item(s, nasize, i + 1)
           r == PutItem(x, it)
           k == it.key
           v == it.val
<1>0. i + 1 \in 1 .. Vanishing(s, nasize) + Sizenode(s)
  <2>1. Sizearray(s) \in Nat /\ Sizenode(s) \in Nat
    BY ShapeFacts DEF TableInv
  <2>2. Vanishing(s, nasize) \in Nat
    BY <2>1 DEF Vanishing
  <2>3. QED
    BY <2>1, <2>2
<1>1. \A j \in 1 .. i + 1 : j = i + 1 \/ j \in 1 .. i
  OBVIOUS
<1>2. CASE v = Nil
  <2>1. r = x
    BY <1>2 DEF PutItem
  <2>2. \A j \in 1 .. i + 1 : Item(s, nasize, j).val # Nil =>
           LuaH_get(x, Item(s, nasize, j).key) = Item(s, nasize, j).val
    BY <1>1, <1>2 DEF Resized
  <2>3. QED
    BY <2>1, <2>2 DEF Resized
<1>3. CASE v # Nil
  <2>1. r = Put(x, k, v)
    BY <1>3 DEF PutItem
  <2>2. k \in NormalKeys /\ v = LuaH_get(s, k) /\ v \in Vals
    BY <1>0, <1>3, ItemFacts
  <2> HIDE DEF r, k, v
  <2>3. /\ TableInv(x) /\ x.flags = s.flags /\ Sizearray(x) = nasize
        /\ x.dummy <=> nhsize = 0
        /\ nhsize <= Sizenode(x)
        /\ \A n \in DOMAIN x.node : KeyAt(x, n) \in H \cup {NilKey}
    BY DEF Resized
  <2>4. InArray(x, k) <=> k[1] = "int" /\ k[2] \in 1 .. nasize
    BY <2>2, <2>3, InArrayFacts
  <2>5. InArray(x, k) \/ k \in H
    BY <1>3, <2>2, <2>4 DEF Divided
  <2>6. NewKey(x, k) => ~Full(x, k)
    <3> SUFFICES ASSUME NewKey(x, k) PROVE ~Full(x, k)
      OBVIOUS
    <3>1. k \in H
      BY <2>5 DEF NewKey
    <3>2. Cardinality(H) # 0 /\ Cardinality(H) \in Nat
      BY <3>1, FS_EmptySet, FS_CardinalityType
    <3>3. ~x.dummy
      BY <3>2, <2>3
    <3>4. Cardinality(H) <= Sizenode(x)
      <4>1. Sizenode(x) \in Nat
        BY <2>3, ShapeFacts DEF TableInv
      <4>2. QED
        BY <4>1, <3>2, <2>3
    <3>5. QED
      BY <3>1, <3>3, <3>4, <2>3, RoomLeft
  <2>7. Inserted(x, r, k, v)
    BY <2>1, <2>2, <2>3, <2>6, PutFacts
  <2>8. /\ TableInv(r) /\ SameFrame(x, r) /\ Stores(x, r, k, v)
        /\ \A n \in DOMAIN r.node :
              KeyAt(r, n) \in {k, NilKey} \cup {KeyAt(x, m) : m \in DOMAIN x.node}
    BY <2>7 DEF Inserted
  <2>9. /\ r.flags = s.flags /\ Sizearray(r) = nasize /\ r.dummy = x.dummy
        /\ Sizenode(r) = Sizenode(x)
    BY <2>3, <2>8 DEF SameFrame, Sizenode
  <2>10. ASSUME NEW n \in DOMAIN r.node PROVE KeyAt(r, n) \in H \cup {NilKey}
    <3>1. CASE KeyAt(r, n) # k
      BY <3>1, <2>3, <2>8
    <3>2. CASE KeyAt(r, n) = k
      <4>1. ~InArray(r, k)
        BY <3>2, <2>2, <2>8 DEF TableInv, KeysUnique
      <4>2. ~InArray(x, k)
        BY <4>1, <2>3, <2>9 DEF InArray
      <4>3. QED
        BY <4>2, <3>2, <2>5
    <3>3. QED
      BY <3>1, <3>2
  <2>11. \A j \in NormalKeys : LuaH_get(r, j) = IF j = k THEN v ELSE LuaH_get(x, j)
    BY <2>8 DEF Stores
  <2>12. \A j \in NormalKeys : LuaH_get(r, j) \in {Nil, LuaH_get(s, j)}
    BY <2>2, <2>11 DEF Resized
  <2>13. \A j \in NormalKeys : InArray(r, j) /\ InArray(s, j) => LuaH_get(r, j) = LuaH_get(s, j)
    <3>1. \A j \in NormalKeys : InArray(r, j) => InArray(x, j)
      BY <2>3, <2>9 DEF InArray
    <3>2. QED
      BY <3>1, <2>2, <2>11 DEF Resized
  <2>14. ASSUME NEW j \in 1 .. i + 1, Item(s, nasize, j).val # Nil
         PROVE  LuaH_get(r, Item(s, nasize, j).key) = Item(s, nasize, j).val
    <3>1. j \in 1 .. Vanishing(s, nasize) + Sizenode(s)
      <4>1. Sizearray(s) \in Nat /\ Sizenode(s) \in Nat
        BY ShapeFacts DEF TableInv
      <4>2. Vanishing(s, nasize) \in Nat
        BY <4>1 DEF Vanishing
      <4>3. QED
        BY <4>1, <4>2
    <3>2. /\ Item(s, nasize, j).key \in NormalKeys
          /\ Item(s, nasize, j).val = LuaH_get(s, Item(s, nasize, j).key)
      BY <3>1, <2>14, ItemFacts
    <3>3. CASE Item(s, nasize, j).key = k
      BY <3>2, <3>3, <2>2, <2>11
    <3>4. CASE Item(s, nasize, j).key # k
      <4>1. j \in 1 .. i
        BY <3>4, <1>1 DEF k
      <4>2. LuaH_get(x, Item(s, nasize, j).key) = Item(s, nasize, j).val
        BY <4>1, <2>14 DEF Resized
      <4>3. QED
        BY <4>2, <3>2, <3>4, <2>11
    <3>5. QED
      BY <3>3, <3>4
  <2>15. QED
    <3>1. Resized(s, r, nasize, nhsize, H, i + 1)
      BY <2>3, <2>8, <2>9, <2>10, <2>12, <2>13, <2>14 DEF Resized
    <3>2. QED
      BY <3>1 DEF r
<1>4. QED
  BY <1>2, <1>3

(* luaH_resize keeps every field, whatever moves between array and nodes,  *)
(* and leaves room for as many keys as the new nodes were asked for.       *)
LEMMA ResizeFacts ==
  ASSUME NEW s, TableInv(s), NEW nasize \in Nat, nasize <= 2^MAXABITS, NEW nhsize \in Nat,
         NEW H, H \subseteq NormalKeys, IsFiniteSet(H), Cardinality(H) <= nhsize,
         Divided(s, nasize, H)
  PROVE  LET r == LuaH_resize(s, nasize, nhsize)
         IN  /\ TableInv(r) /\ r.flags = s.flags /\ Sizearray(r) = nasize
             /\ r.dummy <=> nhsize = 0
             /\ nhsize <= Sizenode(r)
             /\ \A n \in DOMAIN r.node : KeyAt(r, n) \in H \cup {NilKey}
             /\ \A k \in NormalKeys : LuaH_get(r, k) = LuaH_get(s, k)
<1> DEFINE count == Vanishing(s, nasize) + Sizenode(s)
           e == Emptied(s, nasize, nhsize)
           f == Resizing(s, nasize, e, count)
           S == {i \in Nat : i <= count => Resized(s, f[i], nasize, nhsize, H, i)}
           r == LuaH_resize(s, nasize, nhsize)
<1>1. count \in Nat
  <2>1. Sizearray(s) \in Nat /\ Sizenode(s) \in Nat
    BY ShapeFacts DEF TableInv
  <2>2. Vanishing(s, nasize) \in Nat
    BY <2>1 DEF Vanishing
  <2>3. QED
    BY <2>1, <2>2
<1>2. r = f[count]
  BY DEF LuaH_resize, Resizing
<1>3. /\ f[0] = e
      /\ \A i \in 0 .. count - 1 : f[i + 1] = PutItem(f[i], Item(s, nasize, i + 1))
  <2> HIDE DEF count, e
  <2>1. QED
    BY <1>1, ResizeIterates
<1> HIDE DEF f, r
<1>4. 0 \in S
  <2>1. e = Emptied(s, nasize, nhsize)
    OBVIOUS
  <2> HIDE DEF e
  <2>2. /\ TableInv(e) /\ e.flags = s.flags /\ Sizearray(e) = nasize
        /\ e.dummy <=> nhsize = 0
        /\ nhsize <= Sizenode(e)
        /\ \A n \in DOMAIN e.node : KeyAt(e, n) = NilKey
        /\ \A k \in NormalKeys :
              LuaH_get(e, k) = IF InArray(e, k) /\ InArray(s, k) THEN LuaH_get(s, k) ELSE Nil
    BY <2>1, EmptiedFacts
  <2>3. \A j \in 1 .. 0 : FALSE
    OBVIOUS
  <2>4. \A n \in DOMAIN e.node : KeyAt(e, n) \in H \cup {NilKey}
    BY <2>2
  <2>5. \A k \in NormalKeys : LuaH_get(e, k) \in {Nil, LuaH_get(s, k)}
    BY <2>2
  <2>6. \A k \in NormalKeys : InArray(e, k) /\ InArray(s, k) => LuaH_get(e, k) = LuaH_get(s, k)
    BY <2>2
  <2>7. Resized(s, e, nasize, nhsize, H, 0)
    BY <2>2, <2>3, <2>4, <2>5, <2>6 DEF Resized
  <2>8. QED
    BY <2>7, <1>3
<1>5. ASSUME NEW i \in Nat, i \in S PROVE i + 1 \in S
  <2> SUFFICES ASSUME i + 1 <= count
               PROVE  Resized(s, f[i + 1], nasize, nhsize, H, i + 1)
    OBVIOUS
  <2>0. i \in 0 .. count - 1
    BY <1>1
  <2>1. Resized(s, f[i], nasize, nhsize, H, i)
    BY <1>1, <1>5
  <2> DEFINE x == f[i]
  <2>2. count = Vanishing(s, nasize) + Sizenode(s)
    OBVIOUS
  <2>3. f[i + 1] = PutItem(x, Item(s, nasize, i + 1)) /\ Resized(s, x, nasize, nhsize, H, i)
    BY <2>0, <2>1, <1>3
  <2> HIDE DEF x, count, S
  <2>4. Resized(s, PutItem(x, Item(s, nasize, i + 1)), nasize, nhsize, H, i + 1)
    BY <2>0, <2>2, <2>3, ResizeStepFacts
  <2>5. QED
    BY <2>3, <2>4
<1>6. Resized(s, r, nasize, nhsize, H, count)
  <2>1. count \in S
    <3> HIDE DEF S, count
    <3>1. \A i \in Nat : i \in S
      BY ONLY <1>4, <1>5, NatSet
    <3>2. QED
      BY <3>1, <1>1
  <2>2. QED
    BY <2>1, <1>1, <1>2
<1>7. ASSUME NEW k \in NormalKeys PROVE LuaH_get(r, k) = LuaH_get(s, k)
  <2>1. LuaH_get(r, k) \in {Nil, LuaH_get(s, k)}
    BY <1>6 DEF Resized
  <2>2. CASE LuaH_get(s, k) = Nil
    BY <2>1, <2>2
  <2>3. CASE InArray(s, k) /\ k[2] <= nasize
    <3>1. k[1] = "int" /\ k[2] \in 1 .. nasize
      <4>1. Sizearray(s) \in Nat /\ Sizearray(s) <= 2^MAXABITS
        BY ShapeFacts DEF TableInv, TableShape
      <4>2. k[1] = "int" /\ k[2] \in 1 .. Sizearray(s)
        BY <2>3, <4>1, InArrayFacts
      <4>3. QED
        BY <2>3, <4>1, <4>2
    <3>2. Sizearray(r) = nasize
      BY <1>6 DEF Resized
    <3>3. InArray(r, k)
      BY <3>1, <3>2, InArrayFacts
    <3>4. QED
      BY <2>3, <3>3, <1>6 DEF Resized
  <2>4. CASE LuaH_get(s, k) # Nil /\ ~(InArray(s, k) /\ k[2] <= nasize)
    <3>1. PICK j \in 1 .. count : Item(s, nasize, j).key = k
                                  /\ Item(s, nasize, j).val = LuaH_get(s, k)
      BY <2>4, ItemsComplete
    <3>2. LuaH_get(r, Item(s, nasize, j).key) = Item(s, nasize, j).val
      BY <3>1, <2>4, <1>6 DEF Resized
    <3>3. QED
      BY <3>1, <3>2
  <2>5. QED
    BY <2>2, <2>3, <2>4
<1>8. /\ TableInv(r) /\ r.flags = s.flags /\ Sizearray(r) = nasize
      /\ r.dummy <=> nhsize = 0
      /\ nhsize <= Sizenode(r)
      /\ \A n \in DOMAIN r.node : KeyAt(r, n) \in H \cup {NilKey}
  BY <1>6 DEF Resized
<1>9. QED
  BY <1>7, <1>8 DEF r

-----------------------------------------------------------------------------
(* rehash.                                                                 *)

(* The fields of the table and the key about to be inserted.               *)
Demanded(s, k) == {j \in NormalKeys : LuaH_get(s, j) # Nil} \cup {k}

LEMMA ImageCardinality ==
  ASSUME NEW S, IsFiniteSet(S), NEW f, NEW T, T = {f[x] : x \in S}
  PROVE  IsFiniteSet(T) /\ Cardinality(T) <= Cardinality(S)
<1> DEFINE g == [x \in S |-> f[x]]
<1>1. g \in Surjection(S, T)
  BY DEF Surjection
<1> HIDE DEF g
<1>2. QED
  BY <1>1, FS_Surjection

(* numusearray and numusehash count at least every field.                  *)
LEMMA DemandedBound ==
  ASSUME NEW s, TableInv(s), NEW k \in NormalKeys
  PROVE  /\ IsFiniteSet(Demanded(s, k))
         /\ Cardinality(Demanded(s, k)) <= NumUseArray(s) + NumUseHash(s) + 1
         /\ NumUseArray(s) \in Nat /\ NumUseHash(s) \in Nat
<1> DEFINE UA == {i \in 1 .. Sizearray(s) : s.array[i] # Nil}
           UH == {n \in DOMAIN s.node : s.node[n].val # Nil}
           fa == [i \in UA |-> IntKey(i)]
           fh == [n \in UH |-> KeyAt(s, n)]
           A == {fa[i] : i \in UA}
           B == {fh[n] : n \in UH}
<1>1. /\ Sizearray(s) \in Nat /\ Sizenode(s) \in Nat /\ Sizearray(s) <= 2^MAXABITS
      /\ DOMAIN s.node = 0 .. Sizenode(s) - 1
  BY ShapeFacts DEF TableInv, TableShape
<1>2. IsFiniteSet(UA) /\ IsFiniteSet(UH)
  <2>1. IsFiniteSet(1 .. Sizearray(s)) /\ IsFiniteSet(DOMAIN s.node)
    <3>1. 1 \in Int /\ Sizearray(s) \in Int /\ 0 \in Int /\ Sizenode(s) - 1 \in Int
      BY <1>1
    <3>2. QED
      BY <3>1, <1>1, FS_Interval
  <2>2. UA \subseteq 1 .. Sizearray(s) /\ UH \subseteq DOMAIN s.node
    OBVIOUS
  <2> HIDE DEF UA, UH
  <2>3. QED
    BY <2>1, <2>2, FS_Subset
<1>3. NumUseArray(s) = Cardinality(UA) /\ NumUseHash(s) = Cardinality(UH)
  BY DEF NumUseArray, NumUseHash
<1>4. Demanded(s, k) \subseteq (A \cup B) \cup {k}
  <2> SUFFICES ASSUME NEW j \in NormalKeys, LuaH_get(s, j) # Nil PROVE j \in A \cup B
    BY DEF Demanded
  <2>1. CASE InArray(s, j)
    <3>1. j[2] \in 1 .. Sizearray(s) /\ ArrayIndex(j) = j[2] /\ j = IntKey(j[2])
      BY <1>1, <2>1, InArrayFacts
    <3>2. s.array[j[2]] # Nil
      BY <2>1, <3>1, GetFacts
    <3>3. QED
      BY <3>1, <3>2
  <2>2. CASE ~InArray(s, j)
    <3>1. PICK n \in DOMAIN s.node : KeyAt(s, n) = j /\ LuaH_get(s, j) = s.node[n].val
      BY <2>2, GetFacts
    <3>2. n \in UH /\ fh[n] = j
      BY <3>1
    <3>3. QED
      BY <3>2
  <2>3. QED
    BY <2>1, <2>2
<1> HIDE DEF UA, UH, fa, fh
<1>5. /\ IsFiniteSet(A) /\ Cardinality(A) <= Cardinality(UA)
      /\ IsFiniteSet(B) /\ Cardinality(B) <= Cardinality(UH)
  BY <1>2, ImageCardinality
<1> HIDE DEF A, B
<1>6. IsFiniteSet(A \cup B) /\ Cardinality(A \cup B) <= Cardinality(A) + Cardinality(B)
  <2>1. /\ IsFiniteSet(A \cup B)
        /\ Cardinality(A \cup B) = Cardinality(A) + Cardinality(B) - Cardinality(A \cap B)
    BY <1>5, FS_Union
  <2>2. IsFiniteSet(A \cap B)
    BY <1>5, FS_Intersection
  <2>3. Cardinality(A \cap B) \in Nat /\ Cardinality(A) \in Nat /\ Cardinality(B) \in Nat
    BY <1>5, <2>2, FS_CardinalityType
  <2>4. QED
    BY <2>1, <2>3
<1> DEFINE C == A \cup B
<1>7. IsFiniteSet(C \cup {k}) /\ Cardinality(C \cup {k}) <= Cardinality(C) + 1
  <2> HIDE DEF C
  <2>1. IsFiniteSet(C)
    BY <1>6 DEF C
  <2>2. IsFiniteSet(C \cup {k}) /\ Cardinality(C \cup {k}) = IF k \in C THEN Cardinality(C) ELSE Cardinality(C) + 1
    BY <2>1, FS_AddElement
  <2>3. Cardinality(C) \in Nat
    BY <2>1, FS_CardinalityType
  <2>4. QED
    BY <2>2, <2>3
<1>8. Demanded(s, k) \subseteq C \cup {k}
  BY <1>4
<1>9. IsFiniteSet(Demanded(s, k)) /\ Cardinality(Demanded(s, k)) <= Cardinality(C \cup {k})
  <2> HIDE DEF C
  <2>1. QED
    BY <1>7, <1>8, FS_Subset
<1>10. /\ Cardinality(UA) \in Nat /\ Cardinality(UH) \in Nat /\ Cardinality(A) \in Nat
       /\ Cardinality(B) \in Nat /\ Cardinality(C) \in Nat /\ Cardinality(C \cup {k}) \in Nat
       /\ Cardinality(Demanded(s, k)) \in Nat
  <2>1. IsFiniteSet(C)
    BY <1>6
  <2> HIDE DEF C
  <2>2. QED
    BY <2>1, <1>2, <1>5, <1>7, <1>9, FS_CardinalityType
<1>11. QED
  <2>1. Cardinality(C) <= Cardinality(A) + Cardinality(B)
    BY <1>6
  <2> HIDE DEF C
  <2>2. QED
    BY <2>1, <1>3, <1>5, <1>7, <1>9, <1>10

(* computesizes never asks for more than the largest array part.           *)
LEMMA ComputeSizesBound ==
  ASSUME NEW ints
  PROVE  ComputeSizes(ints) \in Nat /\ ComputeSizes(ints) <= 2^MAXABITS
<1> DEFINE good == {2^j : j \in {j \in 0 .. MAXABITS :
                     /\ Cardinality(ints) > 2^j \div 2
                     /\ {i \in ints : CeilLog2(i) = j} # {}
                     /\ Cardinality({i \in ints : i <= 2^j}) > 2^j \div 2}}
<1>1. ComputeSizes(ints) = IF good = {} THEN 0 ELSE Max(good)
  BY DEF ComputeSizes
<1>2. MAXABITS \in Nat /\ 2^MAXABITS \in Nat
  BY TableAssumption, PowerSet
<1>3. ASSUME NEW x \in good PROVE x \in Nat /\ x <= 2^MAXABITS
  <2>1. PICK j \in 0 .. MAXABITS : x = 2^j
    BY <1>3
  <2>2. j \in Nat /\ (j = MAXABITS \/ j < MAXABITS)
    BY <1>2
  <2>3. 2^j \in Nat
    BY <2>2, PowerSet
  <2>4. j < MAXABITS => 2^j < 2^MAXABITS
    BY <1>2, <2>2, PowerIncreases
  <2> DEFINE P == 2^j  Q == 2^MAXABITS
  <2>5. P \in Nat /\ Q \in Nat /\ (P < Q \/ P = Q) /\ x = P
    BY <2>1, <2>2, <2>3, <2>4, <1>2
  <2> HIDE DEF P, Q, good
  <2>6. x \in Nat /\ x <= Q
    BY ONLY <2>5
  <2>7. QED
    BY <2>6 DEF Q
<1> HIDE DEF good
<1>4. CASE good = {}
  <2>1. 0 <= 2^MAXABITS
    BY <1>2
  <2>2. QED
    BY <1>1, <1>4, <2>1
<1>5. CASE good # {}
  <2>1. good \in SUBSET Nat /\ \A k \in good : k <= 2^MAXABITS
    BY <1>3
  <2> DEFINE b == 2^MAXABITS
  <2>2. b \in Nat /\ \A k \in good : k <= b
    BY <1>2, <2>1
  <2> HIDE DEF b
  <2>3. Max(good) \in good
    BY <1>5, <2>1, <2>2, MaxFacts
  <2>4. QED
    BY <1>1, <1>3, <1>5, <2>3
<1>6. QED
  BY <1>4, <1>5

IntsOf(s, k) == IntKeysIn(s) \cup ({ArrayIndex(k)} \ {0})

(* The candidates for the array part are demanded keys.                    *)
LEMMA CandidateFacts ==
  ASSUME NEW s, TableInv(s), NEW k \in NormalKeys
  PROVE  /\ IntsOf(s, k) \subseteq 1 .. 2^MAXABITS
         /\ \A i \in IntsOf(s, k) : IntKey(i) \in Demanded(s, k)
<1>1. /\ Sizearray(s) \in Nat /\ Sizearray(s) <= 2^MAXABITS /\ 2^MAXABITS \in Nat
      /\ TableShape(s)
  BY ShapeFacts, TableAssumption, PowerSet DEF TableInv, TableShape
<1>2. \A j : ArrayIndex(j) # 0 => j[1] = "int" /\ j[2] = ArrayIndex(j)
  BY DEF ArrayIndex
<1>3. \A j \in NormalKeys : ArrayIndex(j) # 0 =>
         ArrayIndex(j) \in 1 .. 2^MAXABITS /\ IntKey(ArrayIndex(j)) = j
  <2> SUFFICES ASSUME NEW j \in NormalKeys, ArrayIndex(j) # 0
               PROVE  ArrayIndex(j) \in 1 .. 2^MAXABITS /\ IntKey(ArrayIndex(j)) = j
    OBVIOUS
  <2>1. j[2] \in Int /\ j = <<j[1], j[2]>>
    BY KeyFacts
  <2>2. j[1] = "int" /\ j[2] = ArrayIndex(j)
    BY <1>2
  <2>3. 0 < j[2] /\ j[2] <= 2^MAXABITS
    BY <2>2 DEF ArrayIndex
  <2>4. QED
    BY <2>1, <2>2, <2>3, <1>1 DEF IntKey
<1>4. ASSUME NEW i \in IntsOf(s, k)
      PROVE  i \in 1 .. 2^MAXABITS /\ IntKey(i) \in Demanded(s, k)
  <2>1. CASE i \in 1 .. Sizearray(s) /\ s.array[i] # Nil
    <3>1. IntKey(i) \in NormalKeys
      BY <2>1, <1>1 DEF TableShape
    <3>2. InArray(s, IntKey(i)) /\ ArrayIndex(IntKey(i)) = i
      <4>1. IntKey(i)[1] = "int" /\ IntKey(i)[2] = i
        BY DEF IntKey
      <4>2. QED
        BY <1>1, <2>1, <3>1, <4>1, InArrayFacts
    <3>3. LuaH_get(s, IntKey(i)) # Nil
      BY <2>1, <3>1, <3>2, GetFacts
    <3>4. i \in 1 .. 2^MAXABITS
      BY <2>1, <1>1
    <3>5. QED
      BY <3>1, <3>3, <3>4 DEF Demanded
  <2>2. CASE \E n \in DOMAIN s.node : s.node[n].val # Nil /\ ArrayIndex(s.node[n].key) # 0
                                      /\ i = ArrayIndex(s.node[n].key)
    <3>1. PICK n \in DOMAIN s.node : s.node[n].val # Nil /\ ArrayIndex(KeyAt(s, n)) # 0
                                     /\ i = ArrayIndex(KeyAt(s, n))
      BY <2>2 DEF KeyAt
    <3>2. KeyAt(s, n) \in NormalKeys
      BY <3>1, ValueHasKey
    <3>3. i \in 1 .. 2^MAXABITS /\ IntKey(i) = KeyAt(s, n)
      BY <3>1, <3>2, <1>3
    <3>4. LuaH_get(s, KeyAt(s, n)) # Nil
      BY <3>1, <3>2, GetFacts
    <3>5. QED
      BY <3>2, <3>3, <3>4 DEF Demanded
  <2>3. CASE i = ArrayIndex(k) /\ i # 0
    BY <2>3, <1>3 DEF Demanded
  <2>4. QED
    BY <2>1, <2>2, <2>3 DEF IntsOf, IntKeysIn
<1>5. QED
  BY <1>4

(* After rehash the fields are the same and there is room for the key.     *)
LEMMA RehashFacts ==
  ASSUME NEW s, TableInv(s), NEW k \in NormalKeys, NEW r, r = Rehash(s, k)
  PROVE  /\ TableInv(r) /\ r.flags = s.flags
         /\ \A j \in NormalKeys : LuaH_get(r, j) = LuaH_get(s, j)
         /\ NewKey(r, k) => ~Full(r, k)
<1> DEFINE ints == IntsOf(s, k)
           asize == ComputeSizes(ints)
           I == {i \in ints : i <= asize}
           na == Cardinality(I)
           total == NumUseArray(s) + NumUseHash(s) + 1
           D == Demanded(s, k)
           f == [i \in I |-> IntKey(i)]
           N == {f[i] : i \in I}
           H == D \ N
           nh == total - na
<1>1. r = LuaH_resize(s, asize, nh)
  BY DEF Rehash, NewArraySize, NewHashSize, IntsOf
<1>2. asize \in Nat /\ asize <= 2^MAXABITS
  BY ComputeSizesBound
<1>3. ints \subseteq 1 .. 2^MAXABITS /\ \A i \in ints : IntKey(i) \in D
  BY CandidateFacts
<1>4. /\ IsFiniteSet(D) /\ Cardinality(D) <= total /\ total \in Nat
  BY DemandedBound
<1>5. D \subseteq NormalKeys
  BY DEF Demanded
<1> HIDE DEF ints, asize, total, D
<1>6. IsFiniteSet(I)
  <2>1. 2^MAXABITS \in Nat
    BY TableAssumption, PowerSet
  <2>2. IsFiniteSet(1 .. 2^MAXABITS)
    <3> DEFINE b == 2^MAXABITS
    <3>1. b \in Int /\ 1 \in Int
      BY <2>1
    <3> HIDE DEF b
    <3>2. IsFiniteSet(1 .. b)
      BY <3>1, FS_Interval
    <3>3. QED
      BY <3>2 DEF b
  <2>3. I \subseteq 1 .. 2^MAXABITS
    BY <1>3
  <2> HIDE DEF I
  <2>4. QED
    BY <2>2, <2>3, FS_Subset
<1>7. IsFiniteSet(N) /\ Cardinality(N) = na
  <2>1. f \in Bijection(I, N)
    <3>1. \A i, j \in I : f[i] = f[j] => i = j
      BY DEF IntKey
    <3>2. f \in [I -> N]
      OBVIOUS
    <3>3. \A x \in N : \E i \in I : f[i] = x
      OBVIOUS
    <3> HIDE DEF f, N, I
    <3>4. QED
      BY <3>1, <3>2, <3>3 DEF Bijection, Injection, Surjection, IsInjective
  <2> HIDE DEF f, N, I
  <2>2. QED
    BY <2>1, <1>6, FS_Bijection DEF ExistsBijection
<1>8. N \subseteq D
  BY <1>3
<1>9. /\ IsFiniteSet(H) /\ Cardinality(H) = Cardinality(D) - na
      /\ na \in Nat /\ Cardinality(D) \in Nat /\ Cardinality(H) \in Nat
  <2> HIDE DEF N, I
  <2>1. D \cap N = N
    BY <1>8
  <2>2. IsFiniteSet(H) /\ Cardinality(H) = Cardinality(D) - Cardinality(D \cap N)
    BY <1>4, FS_Difference
  <2>3. QED
    BY <2>1, <2>2, <1>4, <1>6, <1>7, FS_CardinalityType
<1>10. nh \in Nat /\ Cardinality(H) <= nh
  <2> HIDE DEF H, I
  <2>1. QED
    BY <1>4, <1>9
<1>11. H \subseteq NormalKeys
  BY <1>5
<1>12. Divided(s, asize, H)
  <2> SUFFICES ASSUME NEW j \in NormalKeys, LuaH_get(s, j) # Nil, j \in N
               PROVE  j[1] = "int" /\ j[2] \in 1 .. asize
    BY DEF Divided, Demanded, D
  <2>1. PICK i \in I : j = IntKey(i)
    OBVIOUS
  <2>2. i \in 1 .. asize
    BY <1>2, <1>3
  <2>3. QED
    BY <2>1, <2>2 DEF IntKey
<1>13. /\ TableInv(r) /\ r.flags = s.flags /\ Sizearray(r) = asize
       /\ r.dummy <=> nh = 0
       /\ nh <= Sizenode(r)
       /\ \A n \in DOMAIN r.node : KeyAt(r, n) \in H \cup {NilKey}
       /\ \A j \in NormalKeys : LuaH_get(r, j) = LuaH_get(s, j)
  <2> HIDE DEF H, nh
  <2>1. QED
    BY <1>1, <1>2, <1>9, <1>10, <1>11, <1>12, ResizeFacts
<1>14. ASSUME NewKey(r, k) PROVE ~Full(r, k)
  <2>1. k \in D
    BY DEF D, Demanded
  <2>2. k \notin N
    <3> SUFFICES ASSUME k \in N PROVE FALSE
      OBVIOUS
    <3>1. PICK i \in I : k = IntKey(i)
      OBVIOUS
    <3>2. k[1] = "int" /\ k[2] \in 1 .. asize
      BY <3>1, <1>2, <1>3 DEF IntKey
    <3>3. InArray(r, k)
      BY <3>2, <1>2, <1>13, InArrayFacts
    <3>4. QED
      BY <3>3, <1>14 DEF NewKey
  <2>3. k \in H
    BY <2>1, <2>2
  <2> HIDE DEF H, nh
  <2>4. Cardinality(H) # 0
    BY <2>3, <1>9, FS_EmptySet
  <2>5. ~r.dummy
    BY <2>4, <1>9, <1>10, <1>13
  <2>6. Cardinality(H) <= Sizenode(r)
    <3>1. Sizenode(r) \in Nat
      BY <1>13, ShapeFacts DEF TableInv
    <3>2. QED
      BY <3>1, <1>9, <1>10, <1>13
  <2>7. QED
    BY <2>3, <2>5, <2>6, <1>9, <1>11, <1>13, <1>14, RoomLeft
<1>15. QED
  BY <1>13, <1>14

-----------------------------------------------------------------------------
(* The operations on a table.                                              *)

(* Nothing but lastfree and flags changes.                                 *)
LEMMA SameNodes ==
  ASSUME NEW s, TableInv(s), NEW r, TableShape(r), r.node = s.node, r.array = s.array,
         LastFreeBound(r)
  PROVE  /\ TableInv(r)
         /\ \A k \in NormalKeys : LuaH_get(r, k) = LuaH_get(s, k)
<1>1. DOMAIN r.node = DOMAIN s.node /\ \A n : KeyAt(r, n) = KeyAt(s, n)
  BY DEF KeyAt
<1>2. \A n \in DOMAIN s.node : KeyAt(s, n) \in NodeKeys /\ r.node[n] = s.node[n]
  BY ShapeFacts DEF TableInv
<1>3. ChainInv(r)
  BY <1>1, <1>2, SameKeysChains DEF TableInv
<1>4. \A k : InArray(r, k) <=> InArray(s, k)
  BY DEF InArray, Sizearray
<1>5. KeysUnique(r)
  BY <1>1, <1>4 DEF TableInv, KeysUnique
<1>6. DeadEmpty(r)
  BY <1>1, <1>2 DEF TableInv, DeadEmpty
<1>7. TableInv(r)
  BY <1>3, <1>5, <1>6 DEF TableInv
<1>8. ASSUME NEW k \in NormalKeys PROVE LuaH_get(r, k) = LuaH_get(s, k)
  <2>1. CASE InArray(s, k)
    BY <2>1, <1>4, <1>7, GetFacts
  <2>2. CASE \E n \in DOMAIN s.node : KeyAt(s, n) = k
    BY <2>2, <1>1, <1>2, <1>7, GetFacts
  <2>3. CASE ~InArray(s, k) /\ \A n \in DOMAIN s.node : KeyAt(s, n) # k
    <3>1. LuaH_get(s, k) = Nil
      BY <2>3, GetFacts
    <3>2. LuaH_get(r, k) = Nil
      BY <2>3, <1>1, <1>4, <1>7, GetFacts
    <3>3. QED
      BY <3>1, <3>2
  <2>4. QED
    BY <2>1, <2>2, <2>3
<1>9. QED
  BY <1>7, <1>8

WithFlags(s, b) == [s EXCEPT !.flags = b]

(* The cache of absent metamethods is no part of the contents.             *)
LEMMA WithFlagsFacts ==
  ASSUME NEW s, TableInv(s), NEW b \in BOOLEAN, NEW r, r = WithFlags(s, b)
  PROVE  /\ TableInv(r) /\ r.flags = b /\ r.node = s.node /\ r.array = s.array
         /\ \A k \in NormalKeys : LuaH_get(r, k) = LuaH_get(s, k)
<1>1. TableShape(s) /\ LastFreeBound(s)
  BY DEF TableInv
<1>2. /\ r.node = s.node /\ r.array = s.array /\ r.flags = b
      /\ r.dummy = s.dummy /\ r.lastfree = s.lastfree
      /\ r \in [array : Seq(Vals), node : NodeVectors, dummy : BOOLEAN,
                lastfree : Nat, flags : BOOLEAN]
  BY <1>1 DEF TableShape, WithFlags
<1>3. TableShape(r)
  BY <1>1, <1>2 DEF TableShape, Sizenode, Sizearray
<1>4. LastFreeBound(r)
  BY <1>1, <1>2 DEF LastFreeBound, KeyAt
<1>5. TableInv(r) /\ \A k \in NormalKeys : LuaH_get(r, k) = LuaH_get(s, k)
  BY <1>2, <1>3, <1>4, SameNodes
<1>6. QED
  BY <1>2, <1>5

WithoutFree(s) == [s EXCEPT !.lastfree = 0]

(* getfreepos has passed every node of a full table.                       *)
LEMMA WithoutFreeFacts ==
  ASSUME NEW s, TableInv(s), NEW k \in NormalKeys, Full(s, k), NEW r, r = WithoutFree(s)
  PROVE  /\ TableInv(r) /\ r.flags = s.flags
         /\ \A j \in NormalKeys : LuaH_get(r, j) = LuaH_get(s, j)
<1>1. TableShape(s) /\ LastFreeBound(s) /\ Sizenode(s) \in Nat
  BY ShapeFacts DEF TableInv
<1>2. /\ r.node = s.node /\ r.array = s.array /\ r.flags = s.flags
      /\ r.dummy = s.dummy /\ r.lastfree = 0
      /\ r \in [array : Seq(Vals), node : NodeVectors, dummy : BOOLEAN,
                lastfree : Nat, flags : BOOLEAN]
  BY <1>1 DEF TableShape, WithoutFree
<1>3. TableShape(r)
  <2>1. Sizenode(r) = Sizenode(s) /\ Sizearray(r) = Sizearray(s)
    BY <1>2 DEF Sizenode, Sizearray
  <2>2. r.lastfree <= Sizenode(r)
    BY <2>1, <1>1, <1>2
  <2>3. QED
    BY <2>1, <2>2, <1>1, <1>2 DEF TableShape
<1>4. LastFreeBound(r)
  <2>1. ~s.dummy => \A n \in DOMAIN s.node : KeyAt(s, n) # NilKey
    BY <1>1, FreePosFacts DEF Full
  <2>2. s.dummy => s.node = [n \in 0 .. 0 |-> EmptyNode]
    BY <1>1 DEF LastFreeBound
  <2>3. QED
    BY <2>1, <2>2, <1>2 DEF LastFreeBound, KeyAt
<1>5. TableInv(r) /\ \A j \in NormalKeys : LuaH_get(r, j) = LuaH_get(s, j)
  BY <1>2, <1>3, <1>4, SameNodes
<1>6. QED
  BY <1>2, <1>5

(* luaH_newkey stores the value under the key and keeps every other field. *)
LEMMA NewKeyFacts ==
  ASSUME NEW s, TableInv(s), NEW k \in NormalKeys, NewKey(s, k), NEW v \in Vals,
         NEW r, r = LuaH_newkey(s, k, v)
  PROVE  TableInv(r) /\ r.flags = s.flags /\ Stores(s, r, k, v)
<1>1. CASE ~Full(s, k)
  <2>1. r = InsertKey(s, k, v)
    BY <1>1 DEF LuaH_newkey
  <2>2. Inserted(s, r, k, v)
    BY <2>1, <1>1, InsertKeyFacts
  <2>3. QED
    BY <2>2 DEF Inserted, SameFrame
<1>2. CASE Full(s, k)
  <2> DEFINE q == WithoutFree(s)
             x == Rehash(q, k)
  <2>1. r = Put(x, k, v)
    BY <1>2 DEF LuaH_newkey, WithoutFree
  <2>2. q = WithoutFree(s)
    OBVIOUS
  <2>3. x = Rehash(q, k)
    OBVIOUS
  <2> HIDE DEF q, x
  <2>4. /\ TableInv(q) /\ q.flags = s.flags
        /\ \A j \in NormalKeys : LuaH_get(q, j) = LuaH_get(s, j)
    BY <2>2, <1>2, WithoutFreeFacts
  <2>5. /\ TableInv(x) /\ x.flags = q.flags
        /\ \A j \in NormalKeys : LuaH_get(x, j) = LuaH_get(q, j)
        /\ NewKey(x, k) => ~Full(x, k)
    BY <2>3, <2>4, RehashFacts
  <2>6. Inserted(x, r, k, v)
    BY <2>1, <2>5, PutFacts
  <2>7. QED
    BY <2>4, <2>5, <2>6 DEF Inserted, SameFrame, Stores
<1>3. QED
  BY <1>1, <1>2

LEMMA SetFacts ==
  ASSUME NEW s, TableInv(s), NEW key \in Keys, NEW v \in Vals, NEW k, k = Normal(key),
         NEW r, r = LuaH_set(s, key, v)
  PROVE  /\ TableInv(r) /\ r.flags = s.flags /\ Stores(s, r, k, v)
         /\ LuaH_get(s, k) # Nil => SameKeys(s, r)
         /\ k \in NormalKeys /\ LuaH_get(s, key) = LuaH_get(s, k)
<1>1. k \in NormalKeys /\ Normal(k) = k
  BY KeyFacts
<1>2. LuaH_get(s, key) = LuaH_get(s, k)
  BY <1>1 DEF LuaH_get
<1>3. CASE Has(s, k)
  <2>1. r = SetSlot(s, k, v)
    BY <1>3 DEF LuaH_set
  <2>2. TableInv(r) /\ SameKeys(s, r) /\ Stores(s, r, k, v)
    BY <2>1, <1>1, <1>3, SetSlotFacts
  <2>3. QED
    BY <2>2, <1>1, <1>2 DEF SameKeys, SameFrame
<1>4. CASE ~Has(s, k)
  <2>1. r = LuaH_newkey(s, k, v)
    BY <1>4 DEF LuaH_set
  <2>2. NewKey(s, k)
    BY <1>1, <1>4, NewKeyHas
  <2>3. TableInv(r) /\ r.flags = s.flags /\ Stores(s, r, k, v)
    BY <2>1, <2>2, <1>1, NewKeyFacts
  <2>4. LuaH_get(s, k) = Nil
    BY <2>2, <1>1, GetFacts DEF NewKey
  <2>5. QED
    BY <2>3, <2>4, <1>1, <1>2
<1>5. QED
  BY <1>3, <1>4

(* luaH_resizearray changes no field.                                      *)
LEMMA ResizeArrayFacts ==
  ASSUME NEW s, TableInv(s), NEW n \in 1 .. 2^MAXABITS, n > Sizearray(s),
         NEW r, r = LuaH_resize(s, n, IF s.dummy THEN 0 ELSE Sizenode(s))
  PROVE  /\ TableInv(r) /\ r.flags = s.flags
         /\ \A k \in NormalKeys : LuaH_get(r, k) = LuaH_get(s, k)
<1> DEFINE UH == {m \in DOMAIN s.node : s.node[m].val # Nil}
           f == [m \in UH |-> KeyAt(s, m)]
           H == {f[m] : m \in UH}
           nh == IF s.dummy THEN 0 ELSE Sizenode(s)
<1>1. /\ Sizearray(s) \in Nat /\ Sizenode(s) \in Nat /\ Sizearray(s) <= 2^MAXABITS
      /\ DOMAIN s.node = 0 .. Sizenode(s) - 1 /\ Sized(s)
  BY ShapeFacts DEF TableInv, TableShape, ChainInv, ChainShape
<1>2. n \in Nat /\ n <= 2^MAXABITS
  <2>1. 2^MAXABITS \in Nat
    BY TableAssumption, PowerSet
  <2>2. QED
    BY <2>1
<1>3. H \subseteq NormalKeys
  BY ValueHasKey
<1>4. /\ IsFiniteSet(UH) /\ Cardinality(UH) <= Sizenode(s)
      /\ Cardinality(UH) \in Nat
  <2>1. IsFiniteSet(DOMAIN s.node) /\ Cardinality(DOMAIN s.node) = Sizenode(s)
    BY <1>1, SizeFacts
  <2>2. UH \subseteq DOMAIN s.node
    OBVIOUS
  <2> HIDE DEF UH
  <2>3. QED
    BY <2>1, <2>2, FS_Subset, FS_CardinalityType
<1>5. s.dummy => UH = {}
  <2>1. s.dummy => s.node = [m \in 0 .. 0 |-> EmptyNode]
    BY DEF TableInv, LastFreeBound
  <2>2. s.dummy => \A m \in DOMAIN s.node : s.node[m].val = Nil
    BY <2>1 DEF EmptyNode
  <2>3. QED
    BY <2>2
<1>6. IsFiniteSet(H) /\ Cardinality(H) <= Cardinality(UH) /\ Cardinality(H) \in Nat
  <2> HIDE DEF UH, f
  <2>1. IsFiniteSet(H) /\ Cardinality(H) <= Cardinality(UH)
    BY <1>4, ImageCardinality
  <2>2. QED
    BY <2>1, FS_CardinalityType
<1>7. Cardinality(H) <= nh /\ nh \in Nat
  <2> HIDE DEF H
  <2>1. s.dummy => Cardinality(UH) = 0
    BY <1>5, FS_EmptySet
  <2> HIDE DEF UH
  <2>2. QED
    BY <2>1, <1>1, <1>4, <1>6
<1>8. Divided(s, n, H)
  <2> SUFFICES ASSUME NEW k \in NormalKeys, LuaH_get(s, k) # Nil
               PROVE  k \in H \/ (k[1] = "int" /\ k[2] \in 1 .. n)
    BY DEF Divided
  <2>1. CASE InArray(s, k)
    <3>1. k[1] = "int" /\ k[2] \in 1 .. Sizearray(s)
      BY <2>1, <1>1, InArrayFacts
    <3>2. QED
      BY <3>1, <1>1, <1>2
  <2>2. CASE ~InArray(s, k)
    <3>1. PICK m \in DOMAIN s.node : KeyAt(s, m) = k /\ LuaH_get(s, k) = s.node[m].val
      BY <2>2, GetFacts
    <3>2. m \in UH /\ f[m] = k
      BY <3>1
    <3>3. QED
      BY <3>2
  <2>3. QED
    BY <2>1, <2>2
<1>9. r = LuaH_resize(s, n, nh)
  OBVIOUS
<1> HIDE DEF H, nh
<1>10. QED
  BY <1>2, <1>3, <1>6, <1>7, <1>8, <1>9, ResizeFacts

WithKey(s, n, k) == [s EXCEPT !.node[n].key = k]

LEMMA WithKeyFacts ==
  ASSUME NEW s, TableShape(s), NEW n \in DOMAIN s.node, NEW k \in NodeKeys,
         NEW r, r = WithKey(s, n, k)
  PROVE  /\ TableShape(r) /\ SameFrame(s, r) /\ r.lastfree = s.lastfree /\ r.array = s.array
         /\ \A m \in DOMAIN s.node :
               /\ KeyAt(r, m) = IF m = n THEN k ELSE KeyAt(s, m)
               /\ r.node[m].val = s.node[m].val /\ r.node[m].next = s.node[m].next
<1> DEFINE g == [s.node EXCEPT ![n].key = k]
<1>1. /\ DOMAIN s.node = 0 .. Sizenode(s) - 1 /\ s.node \in [DOMAIN s.node -> NodeSet]
      /\ s.lastfree \in Nat
  BY ShapeFacts
<1>2. g \in [DOMAIN s.node -> NodeSet]
  BY <1>1 DEF NodeSet
<1>3. \A m \in DOMAIN s.node :
         /\ g[m].key = IF m = n THEN k ELSE s.node[m].key
         /\ g[m].val = s.node[m].val /\ g[m].next = s.node[m].next
  BY <1>1 DEF NodeSet
<1>4. r = WithNodes(s, s.lastfree, g)
  BY DEF TableShape, WithKey, WithNodes
<1> HIDE DEF g
<1>5. /\ TableShape(r) /\ SameFrame(s, r)
      /\ r.node = g /\ r.lastfree = s.lastfree /\ r.array = s.array
  <2> DEFINE l == s.lastfree
  <2>1. l \in Nat /\ l <= Sizenode(s) /\ r = WithNodes(s, l, g)
    BY <1>1, <1>4 DEF TableShape
  <2> HIDE DEF l
  <2>2. TableShape(r) /\ SameFrame(s, r) /\ r.node = g /\ r.lastfree = l /\ r.array = s.array
    BY <2>1, <1>2, WithNodesFacts
  <2>3. QED
    BY <2>2 DEF l
<1>6. QED
  BY <1>3, <1>5 DEF KeyAt

(* The collector kills the key of an empty entry: no field changes.        *)
LEMMA RemoveEntryFacts ==
  ASSUME NEW s, TableInv(s), NEW n \in DOMAIN s.node, s.node[n].val = Nil,
         s.node[n].key[1] = "ptr",
         NEW d, d = DeadKey(KeyAt(s, n)), NEW r, r = WithKey(s, n, d)
  PROVE  /\ TableInv(r) /\ r.flags = s.flags /\ r.array = s.array
         /\ \A k \in NormalKeys : LuaH_get(r, k) = LuaH_get(s, k)
         /\ DOMAIN r.node = DOMAIN s.node
         /\ \A m \in DOMAIN s.node :
               /\ KeyAt(r, m) = IF m = n THEN d ELSE KeyAt(s, m)
               /\ r.node[m].val = s.node[m].val /\ r.node[m].next = s.node[m].next
<1> DEFINE k0 == KeyAt(s, n)
<1>1. k0 \in PtrKeys
  <2>1. k0 \in NodeKeys /\ k0[1] = "ptr"
    BY ShapeFacts DEF TableInv, KeyAt
  <2>2. k0 \notin DeadKeys /\ k0 # NilKey
    BY <2>1, KeyFacts DEF NilKey
  <2>3. QED
    BY <2>1, <2>2 DEF NodeKeys, PtrKeys
<1>2. d \in DeadKeys /\ \A x : MainPosition(x, d) = MainPosition(x, k0)
  BY <1>1, DeadMainPosition
<1>2a. d \in NodeKeys /\ d \notin NormalKeys /\ d # NilKey /\ k0 # NilKey /\ k0 \in NormalKeys
  BY <1>1, <1>2, KeyFacts DEF NodeKeys, PtrKeys
<1>3. TableShape(s) /\ ChainInv(s) /\ KeysUnique(s) /\ DeadEmpty(s) /\ LastFreeBound(s)
  BY DEF TableInv
<1>4. /\ TableShape(r) /\ SameFrame(s, r) /\ r.lastfree = s.lastfree /\ r.array = s.array
      /\ \A m \in DOMAIN s.node :
            /\ KeyAt(r, m) = IF m = n THEN d ELSE KeyAt(s, m)
            /\ r.node[m].val = s.node[m].val /\ r.node[m].next = s.node[m].next
  BY <1>2a, <1>3, WithKeyFacts
<1>5. DOMAIN r.node = DOMAIN s.node /\ r.dummy = s.dummy /\ r.flags = s.flags
  BY <1>4 DEF SameFrame
<1>6. ChainShape(r) /\ Sizenode(r) = Sizenode(s)
      /\ (\A a, b : Reaches(r, a, b) <=> Reaches(s, a, b))
      /\ (\A k : MainPosition(r, k) = MainPosition(s, k))
  <2>1. ChainShape(s)
    BY ONLY <1>3 DEF ChainInv
  <2>2. DOMAIN r.node = DOMAIN s.node /\ \A m \in DOMAIN s.node : r.node[m].next = s.node[m].next
    BY ONLY <1>4, <1>5
  <2>3. QED
    BY ONLY <2>1, <2>2, SameLinks
<1>7. \A m \in DOMAIN s.node : /\ KeyAt(r, m) = NilKey <=> KeyAt(s, m) = NilKey
                               /\ MainPosition(r, KeyAt(r, m)) = MainPosition(s, KeyAt(s, m))
  BY <1>2, <1>2a, <1>4, <1>6
<1>8. FreeNodes(r)
  BY <1>3, <1>4, <1>5, <1>7 DEF ChainInv, FreeNodes, LinkOf
<1>9. LinksDistinct(r)
  BY <1>3, <1>4, <1>5 DEF ChainInv, LinksDistinct, LinkOf
<1>10. HeadsOwn(r)
  <2> SUFFICES ASSUME NEW m \in DOMAIN s.node, KeyAt(r, m) # NilKey
               PROVE  LET p == MainPosition(r, KeyAt(r, m))
                      IN  KeyAt(r, p) # NilKey /\ MainPosition(r, KeyAt(r, p)) = p
    BY <1>5 DEF HeadsOwn
  <2> DEFINE p == MainPosition(s, KeyAt(s, m))
  <2>1. KeyAt(s, p) # NilKey /\ MainPosition(s, KeyAt(s, p)) = p
    BY <1>3, <1>7 DEF ChainInv, HeadsOwn
  <2>2. p \in DOMAIN s.node
    BY <1>3, ShapeFacts, MainPositionInside DEF ChainInv, ChainShape
  <2>3. MainPosition(r, KeyAt(r, m)) = p
    BY <1>7
  <2> HIDE DEF p
  <2>4. QED
    BY <2>1, <2>2, <2>3, <1>7
<1>11. Found(r)
  BY <1>3, <1>5, <1>6, <1>7 DEF ChainInv, Found
<1>12. NewestFirst(r)
  <2> SUFFICES ASSUME NEW a \in DOMAIN s.node, NEW b \in DOMAIN s.node,
                      KeyAt(r, a) \in PtrKeys, KeyAt(r, b) = DeadKey(KeyAt(r, a))
               PROVE  Reaches(s, a, b)
    BY <1>5, <1>6 DEF NewestFirst
  <2>1. a # n /\ KeyAt(r, a) = KeyAt(s, a) /\ KeyAt(s, a) \in NormalKeys
    BY <1>2a, <1>4 DEF PtrKeys
  <2>2. CASE b # n
    BY <2>1, <2>2, <1>3, <1>4 DEF ChainInv, NewestFirst
  <2>3. CASE b = n
    <3>1. DeadKey(k0) = DeadKey(KeyAt(s, a))
      BY <2>1, <2>3, <1>4
    <3>2. k0 = KeyAt(s, a)
      <4>1. k0[2] = KeyAt(s, a)[2]
        BY <3>1 DEF DeadKey
      <4>2. k0[1] = "ptr" /\ KeyAt(s, a)[1] = "ptr"
        BY <1>1, <2>1 DEF PtrKeys
      <4>3. QED
        BY <4>1, <4>2, <1>2a, <2>1, KeyFacts
    <3>3. QED
      BY <3>2, <2>1, <1>3, <1>2a DEF KeysUnique
  <2>4. QED
    BY <2>2, <2>3
<1>13. ChainInv(r)
  BY <1>6, <1>8, <1>9, <1>10, <1>11, <1>12 DEF ChainInv
<1>14. \A k : InArray(r, k) <=> InArray(s, k)
  BY <1>4 DEF InArray, Sizearray
<1>15. KeysUnique(r)
  BY <1>2a, <1>3, <1>4, <1>5, <1>14 DEF KeysUnique
<1>16. DeadEmpty(r)
  BY <1>3, <1>4, <1>5 DEF DeadEmpty
<1>17. LastFreeBound(r)
  <2>1. ~s.dummy
    <3>1. s.dummy => s.node = [m \in 0 .. 0 |-> EmptyNode]
      BY <1>3 DEF LastFreeBound
    <3>2. s.dummy => k0 = NilKey
      BY <3>1 DEF EmptyNode, KeyAt
    <3>3. QED
      BY <3>2, <1>2a
  <2>2. QED
    BY <2>1, <1>3, <1>4, <1>5, <1>7 DEF LastFreeBound
<1>18. TableInv(r)
  BY <1>4, <1>13, <1>15, <1>16, <1>17 DEF TableInv
<1>19. ASSUME NEW k \in NormalKeys PROVE LuaH_get(r, k) = LuaH_get(s, k)
  <2>1. CASE InArray(s, k)
    BY <2>1, <1>4, <1>14, <1>18, GetFacts
  <2>2. CASE ~InArray(s, k) /\ \E m \in DOMAIN s.node : KeyAt(s, m) = k /\ m # n
    BY <2>2, <1>4, <1>5, <1>18, GetFacts
  <2>3. CASE ~InArray(s, k) /\ \A m \in DOMAIN s.node : KeyAt(s, m) = k => m = n
    <3>1. LuaH_get(s, k) = Nil
      <4>1. CASE KeyAt(s, n) = k
        BY <4>1, GetFacts
      <4>2. CASE KeyAt(s, n) # k
        <5>1. \A m \in DOMAIN s.node : KeyAt(s, m) # k
          BY <2>3, <4>2
        <5>2. QED
          BY <2>3, <5>1, GetFacts
      <4>3. QED
        BY <4>1, <4>2
    <3>2. \A m \in DOMAIN r.node : KeyAt(r, m) # k
      BY <2>3, <1>2a, <1>4, <1>5
    <3>3. LuaH_get(r, k) = Nil
      BY <2>3, <3>2, <1>14, <1>18, GetFacts
    <3>4. QED
      BY <3>1, <3>3
  <2>4. QED
    BY <2>1, <2>2, <2>3
<1>20. QED
  BY <1>4, <1>5, <1>18, <1>19

-----------------------------------------------------------------------------
(* Traversal.                                                              *)

Steps(s, X) == [m \in DOMAIN s.node |-> IF m \in X THEN m ELSE m + s.node[m].next]

LEMMA UntilIteration ==
  ASSUME NEW s, NEW n, NEW X
  PROVE  Until(s, n, X) = Iteration(n, Steps(s, X), Sizenode(s))[Sizenode(s)]
BY DEF Until, Iteration, Steps

(* A search depends on the links and on which nodes hold one of the keys.  *)
LEMMA SameSearch ==
  ASSUME NEW s, NEW r, DOMAIN r.node = DOMAIN s.node, NEW ks, NEW k,
         \A n \in DOMAIN s.node : /\ r.node[n].next = s.node[n].next
                                  /\ KeyAt(r, n) \in ks <=> KeyAt(s, n) \in ks
  PROVE  Search(r, k, ks) = Search(s, k, ks)
<1> DEFINE X == {m \in DOMAIN s.node : s.node[m].key \in ks}
           Y == {m \in DOMAIN r.node : r.node[m].key \in ks}
           p == MainPosition(s, k)
<1>1. X = Y
  BY DEF KeyAt
<1>2. Sizenode(r) = Sizenode(s) /\ MainPosition(r, k) = p
  BY SameLinks
<1>3. Steps(r, X) = Steps(s, X)
  BY DEF Steps
<1>4. Until(r, p, X) = Until(s, p, X)
  BY <1>2, <1>3, UntilIteration
<1>5. Walk(s, p, ks) = IF Until(s, p, X) \in X THEN Until(s, p, X) ELSE -1
  BY DEF Walk
<1>6. Walk(r, p, ks) = IF Until(r, p, Y) \in Y THEN Until(r, p, Y) ELSE -1
  BY DEF Walk
<1> HIDE DEF p, X, Y
<1>7. Walk(r, p, ks) = Walk(s, p, ks)
  BY <1>1, <1>4, <1>5, <1>6
<1>8. QED
  BY <1>2, <1>7 DEF Search, p

LEMMA FindIndexCases ==
  ASSUME NEW s, NEW k \in NormalKeys
  PROVE  /\ InArray(s, k) => FindIndex(s, k) = ArrayIndex(k)
         /\ ~InArray(s, k) => FindIndex(s, k) = Search(s, k, Marks(k)) + 1 + Sizearray(s)
<1>1. k # NilKey
  BY KeyFacts
<1>2. QED
  BY <1>1 DEF FindIndex, Marks

LEMMA SameFindIndex ==
  ASSUME NEW s, NEW r, DOMAIN r.node = DOMAIN s.node, Sizearray(r) = Sizearray(s),
         NEW k \in NormalKeys,
         \A n \in DOMAIN s.node : /\ r.node[n].next = s.node[n].next
                                  /\ KeyAt(r, n) \in Marks(k) <=> KeyAt(s, n) \in Marks(k)
  PROVE  FindIndex(r, k) = FindIndex(s, k)
<1>1. InArray(r, k) <=> InArray(s, k)
  BY DEF InArray
<1>2. Search(r, k, Marks(k)) = Search(s, k, Marks(k))
  BY SameSearch
<1>3. QED
  BY <1>1, <1>2, FindIndexCases

Places(s) == 1 .. Sizearray(s) + Sizenode(s)

(* luaH_next finds the entry of a field where it is.                       *)
LEMMA EntryFacts ==
  ASSUME NEW s, TableInv(s), NEW i \in Places(s), Entry(s, i).val # Nil
  PROVE  /\ Entry(s, i).key \in NormalKeys
         /\ LuaH_get(s, Entry(s, i).key) = Entry(s, i).val
         /\ FindIndex(s, Entry(s, i).key) = i
<1> DEFINE k == Entry(s, i).key
<1>1. /\ Sizearray(s) \in Nat /\ Sizenode(s) \in Nat /\ Sizearray(s) <= 2^MAXABITS
      /\ DOMAIN s.node = 0 .. Sizenode(s) - 1 /\ TableShape(s)
  BY ShapeFacts DEF TableInv, TableShape
<1>2. CASE i <= Sizearray(s)
  <2>1. k = IntKey(i) /\ Entry(s, i).val = s.array[i]
    BY <1>2 DEF Entry
  <2>2. i \in 1 .. Sizearray(s)
    BY <1>1, <1>2 DEF Places
  <2>3. k \in NormalKeys /\ k[1] = "int" /\ k[2] = i
    BY <1>1, <2>1, <2>2 DEF TableShape, IntKey
  <2> HIDE DEF k
  <2>4. InArray(s, k) /\ ArrayIndex(k) = i
    BY <1>1, <2>2, <2>3, InArrayFacts
  <2>5. LuaH_get(s, k) = s.array[i] /\ FindIndex(s, k) = i
    BY <2>3, <2>4, GetFacts, FindIndexCases
  <2>6. QED
    BY <2>1, <2>3, <2>5 DEF k
<1>3. CASE ~(i <= Sizearray(s))
  <2> DEFINE n == i - Sizearray(s) - 1
  <2>1. k = KeyAt(s, n) /\ Entry(s, i).val = s.node[n].val
    BY <1>3 DEF Entry, KeyAt
  <2>2. n \in DOMAIN s.node /\ n + 1 + Sizearray(s) = i
    BY <1>1, <1>3 DEF Places
  <2> HIDE DEF k, n
  <2>3. k \in NormalKeys
    BY <2>1, <2>2, ValueHasKey
  <2>4. LuaH_get(s, k) = s.node[n].val
    BY <2>1, <2>2, <2>3, GetFacts
  <2>5. ~InArray(s, k)
    BY <2>1, <2>2, <2>3 DEF TableInv, KeysUnique
  <2>6. Search(s, k, Marks(k)) = n
    BY <2>1, <2>2, <2>3, MarksSearch
  <2>7. FindIndex(s, k) = i
    BY <2>2, <2>3, <2>5, <2>6, FindIndexCases
  <2>8. QED
    BY <2>1, <2>3, <2>4, <2>7 DEF k
<1>4. QED
  BY <1>2, <1>3

LEMMA FieldHasEntry ==
  ASSUME NEW s, TableInv(s), NEW k \in NormalKeys, LuaH_get(s, k) # Nil
  PROVE  \E i \in Places(s) : Entry(s, i).key = k /\ Entry(s, i).val = LuaH_get(s, k)
<1>1. /\ Sizearray(s) \in Nat /\ Sizenode(s) \in Nat /\ Sizearray(s) <= 2^MAXABITS
      /\ DOMAIN s.node = 0 .. Sizenode(s) - 1
  BY ShapeFacts DEF TableInv, TableShape
<1>2. CASE InArray(s, k)
  <2>1. k[2] \in 1 .. Sizearray(s) /\ ArrayIndex(k) = k[2] /\ k = IntKey(k[2])
    BY <1>1, <1>2, InArrayFacts
  <2>2. LuaH_get(s, k) = s.array[k[2]]
    BY <1>2, <2>1, GetFacts
  <2>3. k[2] \in Places(s)
    BY <1>1, <2>1 DEF Places
  <2>4. Entry(s, k[2]) = [key |-> IntKey(k[2]), val |-> s.array[k[2]]]
    BY <2>1 DEF Entry
  <2>5. QED
    BY <2>1, <2>2, <2>3, <2>4
<1>3. CASE ~InArray(s, k)
  <2>1. PICK n \in DOMAIN s.node : KeyAt(s, n) = k /\ LuaH_get(s, k) = s.node[n].val
    BY <1>3, GetFacts
  <2> DEFINE i == n + 1 + Sizearray(s)
  <2>2. i \in Places(s) /\ ~(i <= Sizearray(s)) /\ i - Sizearray(s) - 1 = n
    BY <1>1, <2>1 DEF Places
  <2>3. Entry(s, i) = [key |-> s.node[n].key, val |-> s.node[n].val]
    BY <2>2 DEF Entry
  <2>4. QED
    BY <2>1, <2>2, <2>3 DEF KeyAt
<1>4. QED
  BY <1>2, <1>3

(* The fields up to the cursor, and no others, have been returned.         *)
Traversal(s, c, v) ==
  IF c = Off THEN v = <<>>
  ELSE /\ v \in Seq(NormalKeys)
       /\ c \in NormalKeys \cup {NilKey}
       /\ FindIndex(s, c) \in Nat
       /\ \A i \in Places(s) : Entry(s, i).val # Nil =>
             (i <= FindIndex(s, c) <=> Entry(s, i).key \in Range(v))

(* What may happen to a table during a traversal: no entry changes its     *)
(* place and no field appears.                                             *)
Steady(s, r) ==
  /\ Places(r) = Places(s)
  /\ \A k \in NormalKeys : FindIndex(r, k) = FindIndex(s, k)
  /\ \A k \in NormalKeys : LuaH_get(r, k) # Nil => LuaH_get(s, k) # Nil

LEMMA SteadyTraversal ==
  ASSUME NEW s, TableInv(s), NEW r, TableInv(r), Steady(s, r),
         NEW c, NEW v, Traversal(s, c, v)
  PROVE  Traversal(r, c, v)
<1>1. CASE c = Off
  BY <1>1 DEF Traversal
<1>2. CASE c # Off
  <2>1. /\ v \in Seq(NormalKeys) /\ c \in NormalKeys \cup {NilKey}
        /\ FindIndex(s, c) \in Nat
        /\ \A i \in Places(s) : Entry(s, i).val # Nil =>
              (i <= FindIndex(s, c) <=> Entry(s, i).key \in Range(v))
    BY <1>2 DEF Traversal
  <2>2. FindIndex(r, c) = FindIndex(s, c)
    <3>1. CASE c = NilKey
      BY <3>1 DEF FindIndex
    <3>2. CASE c # NilKey
      BY <3>2, <2>1 DEF Steady
    <3>3. QED
      BY <3>1, <3>2
  <2>3. ASSUME NEW i \in Places(r), Entry(r, i).val # Nil
        PROVE  i <= FindIndex(r, c) <=> Entry(r, i).key \in Range(v)
    <3> DEFINE k == Entry(r, i).key
    <3>1. k \in NormalKeys /\ LuaH_get(r, k) # Nil /\ FindIndex(r, k) = i
      BY <2>3, EntryFacts
    <3> HIDE DEF k
    <3>2. LuaH_get(s, k) # Nil /\ FindIndex(s, k) = i
      BY <3>1 DEF Steady
    <3>3. PICK j \in Places(s) : Entry(s, j).key = k /\ Entry(s, j).val = LuaH_get(s, k)
      BY <3>1, <3>2, FieldHasEntry
    <3>4. FindIndex(s, k) = j
      BY <3>2, <3>3, EntryFacts
    <3>5. i <= FindIndex(s, c) <=> k \in Range(v)
      BY <2>1, <3>2, <3>3, <3>4
    <3>6. QED
      BY <3>5, <2>2 DEF k
  <2>4. QED
    BY <1>2, <2>1, <2>2, <2>3 DEF Traversal
<1>3. QED
  BY <1>1, <1>2

(* An assignment to an existing field moves no entry.                      *)
LEMMA SameKeysSteady ==
  ASSUME NEW s, TableInv(s), NEW r, TableInv(r), SameKeys(s, r),
         NEW k \in NormalKeys, LuaH_get(s, k) # Nil, NEW v, Stores(s, r, k, v)
  PROVE  Steady(s, r)
<1>1. /\ DOMAIN r.node = DOMAIN s.node /\ Sizearray(r) = Sizearray(s)
      /\ \A n \in DOMAIN s.node : KeyAt(r, n) = KeyAt(s, n) /\ r.node[n].next = s.node[n].next
  BY DEF SameKeys, SameFrame
<1>2. \A j \in NormalKeys : FindIndex(r, j) = FindIndex(s, j)
  BY <1>1, SameFindIndex
<1>3. Places(r) = Places(s)
  BY <1>1 DEF Places, Sizenode
<1>4. QED
  BY <1>2, <1>3 DEF Steady, Stores

LEMMA WithFlagsSteady ==
  ASSUME NEW s, TableInv(s), NEW b \in BOOLEAN, NEW r, r = WithFlags(s, b)
  PROVE  Steady(s, r)
<1>1. /\ r.node = s.node /\ r.array = s.array
      /\ \A k \in NormalKeys : LuaH_get(r, k) = LuaH_get(s, k)
  BY WithFlagsFacts
<1>2. /\ DOMAIN r.node = DOMAIN s.node /\ Sizearray(r) = Sizearray(s)
      /\ \A n \in DOMAIN s.node : KeyAt(r, n) = KeyAt(s, n) /\ r.node[n].next = s.node[n].next
  BY <1>1 DEF KeyAt, Sizearray
<1>3. \A j \in NormalKeys : FindIndex(r, j) = FindIndex(s, j)
  BY <1>2, SameFindIndex
<1>4. Places(r) = Places(s)
  BY <1>2 DEF Places, Sizenode
<1>5. QED
  BY <1>1, <1>3, <1>4 DEF Steady

(* A dead key marks the place of its entry as the key did.                 *)
LEMMA RemoveEntrySteady ==
  ASSUME NEW s, TableInv(s), NEW n \in DOMAIN s.node, s.node[n].val = Nil,
         s.node[n].key[1] = "ptr",
         NEW d, d = DeadKey(KeyAt(s, n)), NEW r, r = WithKey(s, n, d)
  PROVE  Steady(s, r)
<1> DEFINE k0 == KeyAt(s, n)
<1>1. /\ TableInv(r) /\ r.array = s.array
      /\ \A k \in NormalKeys : LuaH_get(r, k) = LuaH_get(s, k)
      /\ DOMAIN r.node = DOMAIN s.node
      /\ \A m \in DOMAIN s.node :
            /\ KeyAt(r, m) = IF m = n THEN d ELSE KeyAt(s, m)
            /\ r.node[m].next = s.node[m].next
  BY RemoveEntryFacts
<1>2. k0 \in NormalKeys /\ k0[1] = "ptr"
  <2>1. k0 \in NodeKeys /\ k0[1] = "ptr"
    BY ShapeFacts DEF TableInv, KeyAt
  <2>2. k0 \notin DeadKeys /\ k0 # NilKey
    BY <2>1, KeyFacts DEF NilKey
  <2>3. QED
    BY <2>1, <2>2 DEF NodeKeys
<1>3. ASSUME NEW k \in NormalKeys PROVE d \in Marks(k) <=> k0 \in Marks(k)
  <2>1. d = <<"dead", k0[2]>> /\ d[1] = "dead" /\ d[2] = k0[2]
    BY DEF DeadKey
  <2>2. k = <<k[1], k[2]>> /\ k[1] # "dead" /\ k0 = <<k0[1], k0[2]>>
    BY <1>2, KeyFacts
  <2>3. DeadKey(k)[1] = "dead" /\ DeadKey(k)[2] = k[2]
    BY DEF DeadKey
  <2>4. d # k /\ k0 # DeadKey(k)
    BY <1>2, <2>1, <2>2, <2>3
  <2>5. k[1] = "ptr" /\ d = DeadKey(k) => k0 = k
    BY <1>2, <2>1, <2>2, <2>3
  <2>6. k0 = k => k[1] = "ptr" /\ d = DeadKey(k)
    BY <1>2
  <2>7. QED
    BY <2>4, <2>5, <2>6 DEF Marks
<1> HIDE DEF k0
<1>4. \A m \in DOMAIN s.node : m # n => KeyAt(r, m) = KeyAt(s, m)
  BY <1>1
<1>5. KeyAt(r, n) = d /\ KeyAt(s, n) = k0
  BY <1>1 DEF k0
<1>6. Sizearray(r) = Sizearray(s)
  BY <1>1 DEF Sizearray
<1>7. ASSUME NEW k \in NormalKeys PROVE FindIndex(r, k) = FindIndex(s, k)
  <2>1. \A m \in DOMAIN s.node : /\ r.node[m].next = s.node[m].next
                                 /\ KeyAt(r, m) \in Marks(k) <=> KeyAt(s, m) \in Marks(k)
    BY <1>1, <1>3, <1>4, <1>5
  <2>2. QED
    BY <2>1, <1>1, <1>6, SameFindIndex
<1>8. Places(r) = Places(s)
  BY <1>1, <1>6 DEF Places, Sizenode
<1>9. QED
  BY <1>1, <1>7, <1>8 DEF Steady

LEMMA RangeAppend ==
  ASSUME NEW S, NEW v \in Seq(S), NEW k \in S
  PROVE  Append(v, k) \in Seq(S) /\ Range(Append(v, k)) = Range(v) \cup {k}
<1>1. /\ Append(v, k) \in Seq(S) /\ Len(Append(v, k)) = Len(v) + 1
      /\ \A i \in 1 .. Len(v) : Append(v, k)[i] = v[i]
      /\ Append(v, k)[Len(v) + 1] = k
      /\ Len(v) \in Nat
  OBVIOUS
<1> DEFINE w == Append(v, k)
<1>2. DOMAIN v = 1 .. Len(v) /\ DOMAIN w = 1 .. Len(v) + 1
  OBVIOUS
<1> HIDE DEF w
<1>3. Range(w) = Range(v) \cup {k}
  <2>1. w[Len(v) + 1] = k /\ \A i \in 1 .. Len(v) : w[i] = v[i]
    BY <1>1 DEF w
  <2>2. Len(v) + 1 \in DOMAIN w /\ \A i \in DOMAIN v : i \in DOMAIN w
    BY <1>1, <1>2
  <2>3. \A i \in DOMAIN w : i \in DOMAIN v \/ i = Len(v) + 1
    BY <1>1, <1>2
  <2>4. QED
    BY <1>2, <2>1, <2>2, <2>3 DEF Range
<1>4. QED
  BY <1>1, <1>3 DEF w

(* luaH_next returns a field that was not returned yet, or all were.       *)
LEMMA NextFacts ==
  ASSUME NEW s, TableInv(s), NEW c, c # Off, NEW v, Traversal(s, c, v),
         NEW k, k = LuaH_next(s, c)
  PROVE  /\ k = NilKey => \A j \in NormalKeys : LuaH_get(s, j) # Nil => j \in Range(v)
         /\ k # NilKey => /\ k \in NormalKeys /\ LuaH_get(s, k) # Nil /\ k \notin Range(v)
                          /\ Traversal(s, k, Append(v, k))
<1> DEFINE f == FindIndex(s, c)
           later == {i \in f + 1 .. Sizearray(s) + Sizenode(s) : Entry(s, i).val # Nil}
<1>1. /\ v \in Seq(NormalKeys) /\ f \in Nat
      /\ \A i \in Places(s) : Entry(s, i).val # Nil =>
            (i <= f <=> Entry(s, i).key \in Range(v))
  BY DEF Traversal
<1>2. k = IF later = {} THEN NilKey ELSE Entry(s, Min(later)).key
  BY DEF LuaH_next
<1> HIDE DEF f
<1>3. Sizearray(s) + Sizenode(s) \in Nat
  BY ShapeFacts DEF TableInv
<1>4. later \in SUBSET Nat /\ later \subseteq Places(s)
  BY <1>1, <1>3 DEF Places
<1>5. \A i \in Places(s) : Entry(s, i).val # Nil => (i \in later <=> ~(i <= f))
  BY <1>1, <1>3 DEF Places
<1>6. \A i \in later : Entry(s, i).val # Nil /\ ~(i <= f)
  BY <1>1, <1>3
<1> HIDE DEF later
<1>7. CASE later = {}
  <2>1. k = NilKey
    BY <1>2, <1>7
  <2>2. ASSUME NEW j \in NormalKeys, LuaH_get(s, j) # Nil PROVE j \in Range(v)
    <3>1. PICK i \in Places(s) : Entry(s, i).key = j /\ Entry(s, i).val = LuaH_get(s, j)
      BY <2>2, FieldHasEntry
    <3>2. QED
      BY <3>1, <2>2, <1>1, <1>5, <1>7
  <2>3. QED
    BY <2>1, <2>2
<1>8. CASE later # {}
  <2> DEFINE i == Min(later)
  <2>1. i \in later /\ \A m \in later : i <= m
    BY <1>4, <1>8, MinFacts
  <2> HIDE DEF i
  <2>2. k = Entry(s, i).key
    BY <1>2, <1>8 DEF i
  <2>3. i \in Places(s) /\ i \in Nat /\ Entry(s, i).val # Nil /\ ~(i <= f)
    BY <2>1, <1>4, <1>6
  <2>4. k \in NormalKeys /\ LuaH_get(s, k) # Nil /\ FindIndex(s, k) = i
    BY <2>2, <2>3, EntryFacts
  <2>5. k \notin Range(v)
    BY <2>2, <2>3, <1>1
  <2>6. Append(v, k) \in Seq(NormalKeys) /\ Range(Append(v, k)) = Range(v) \cup {k}
    BY <1>1, <2>4, RangeAppend
  <2>7. ASSUME NEW m \in Places(s), Entry(s, m).val # Nil
        PROVE  m <= i <=> Entry(s, m).key \in Range(Append(v, k))
    <3>1. m \in Nat
      BY <1>3 DEF Places
    <3>2. Entry(s, m).key = k => m = i
      BY <2>4, <2>7, EntryFacts
    <3>3. CASE m <= f
      BY <3>1, <3>3, <1>1, <2>3, <2>6, <2>7
    <3>4. CASE ~(m <= f)
      <4>1. m \in later /\ i <= m /\ Entry(s, m).key \notin Range(v)
        BY <3>4, <2>1, <2>7, <1>1, <1>5
      <4>2. m <= i => m = i
        BY <4>1, <3>1, <2>3
      <4>3. QED
        BY <4>1, <4>2, <3>1, <3>2, <2>2, <2>3, <2>6
    <3>5. QED
      BY <3>3, <3>4
  <2>8. k # Off /\ k # NilKey
    BY <2>4, KeyFacts
  <2>9. Traversal(s, k, Append(v, k))
    BY <2>3, <2>4, <2>6, <2>7, <2>8 DEF Traversal
  <2>10. QED
    BY <2>4, <2>5, <2>8, <2>9
<1>9. QED
  BY <1>7, <1>8

-----------------------------------------------------------------------------
(* The inductive invariant of the specification.                           *)

InvOf(s, c, v) ==
  /\ TableInv(s)
  /\ s.flags => LuaH_get(s, TMName) = Nil
  /\ Traversal(s, c, v)

(* A table with shadowed keys keeps its flag; nothing else is known of it. *)
InvAll(s, c, v, b) ==
  /\ b \in BOOLEAN
  /\ ~b => InvOf(s, c, v)
  /\ s.flags => GetGeneric(s, TMName) = Nil

Inv == InvAll(t, cursor, visited, shadowed)

LEMMA TMNameFacts ==
  /\ TMName \in NormalKeys
  /\ \A s : LuaH_get(s, TMName) = GetGeneric(s, TMName)
<1>1. TMName \in Keys /\ TMName[1] = "str"
  BY TableAssumption
<1>2. Normal(TMName) = TMName
  BY <1>1 DEF Normal
<1>3. QED
  BY <1>1, <1>2 DEF NormalKeys, LuaH_get

LEMMA WholeFacts ==
  ASSUME NEW s, NEW c, NEW v, NEW b
  PROVE  /\ b = FALSE /\ InvOf(s, c, v) => InvAll(s, c, v, b)
         /\ InvAll(s, c, v, b) /\ ~b => b = FALSE /\ InvOf(s, c, v)
<1>1. InvOf(s, c, v) => (s.flags => GetGeneric(s, TMName) = Nil)
  BY TMNameFacts DEF InvOf
<1>2. QED
  BY <1>1 DEF InvAll

LEMMA FollowedInv ==
  ASSUME Inv, ~shadowed
  PROVE  shadowed = FALSE /\ InvOf(t, cursor, visited)
<1>1. shadowed \in BOOLEAN /\ (~shadowed => InvOf(t, cursor, visited))
  BY DEF Inv, InvAll
<1>2. QED
  BY <1>1

EmptyTable == SetNodeVector([array |-> <<>>, node |-> <<>>, dummy |-> TRUE,
                             lastfree |-> 0, flags |-> TRUE], 0)

(* luaH_new.                                                               *)
LEMMA InitFacts ==
  ASSUME NEW s, s = EmptyTable
  PROVE  TableInv(s) /\ \A k \in NormalKeys : LuaH_get(s, k) = Nil
<1> DEFINE q == [array |-> <<>>, node |-> <<>>, dummy |-> TRUE,
                 lastfree |-> 0, flags |-> TRUE]
<1>1. s = SetNodeVector(q, 0) /\ 0 \in Nat
  BY DEF EmptyTable
<1>2. /\ q.array \in Seq(Vals) /\ q.flags \in BOOLEAN
      /\ q \in [array : Seq(Vals), node : NodeVectors \cup {<<>>}, dummy : BOOLEAN,
                lastfree : Nat, flags : BOOLEAN]
  OBVIOUS
<1>3. Sizearray(q) = 0
  BY DEF Sizearray
<1>4. Sizearray(q) <= 2^MAXABITS
  <2>1. 2^MAXABITS \in Nat
    BY TableAssumption, PowerSet
  <2> DEFINE b == 2^MAXABITS
  <2>2. b \in Nat
    BY <2>1
  <2> HIDE DEF b, q
  <2>3. Sizearray(q) <= b
    BY <2>2, <1>3
  <2>4. QED
    BY <2>3 DEF b
<1>5. \A i \in 1 .. Sizearray(q) : q.array[i] # Nil => IntKey(i) \in NormalKeys
  BY <1>3
<1>6. q.array = <<>>
  OBVIOUS
<1> HIDE DEF q
<1>7. /\ TableInv(s) /\ s.array = q.array
      /\ \A n \in DOMAIN s.node : KeyAt(s, n) = NilKey
  BY <1>1, <1>2, <1>4, <1>5, SetNodeVectorFacts
<1>8. ASSUME NEW k \in NormalKeys PROVE LuaH_get(s, k) = Nil
  <2>1. Sizearray(s) = 0 /\ 0 <= 2^MAXABITS
    BY <1>3, <1>4, <1>6, <1>7 DEF Sizearray
  <2>2. ~InArray(s, k)
    BY <2>1, InArrayFacts
  <2>3. QED
    BY <2>2, <1>7, KeyFacts, GetFacts
<1>9. QED
  BY <1>7, <1>8

(* What an assignment does, through the virtual machine or lua_rawset.     *)
LEMMA AssignFacts ==
  ASSUME NEW s, NEW c, NEW v, InvOf(s, c, v), NEW key \in Keys, NEW w \in Vals,
         c = Off \/ LuaH_get(s, key) # Nil, NEW q, q = LuaH_set(s, key, w), NEW r,
         (r = q /\ LuaH_get(s, key) # Nil) \/ r = WithFlags(q, FALSE)
  PROVE  /\ InvOf(r, c, v)
         /\ Normal(key) \in NormalKeys /\ Stores(s, r, Normal(key), w)
         /\ LuaH_get(s, key) = LuaH_get(s, Normal(key))
<1> DEFINE k == Normal(key)
<1>1. k = Normal(key)
  OBVIOUS
<1> HIDE DEF k
<1>2. TableInv(s) /\ Traversal(s, c, v) /\ (s.flags => LuaH_get(s, TMName) = Nil)
  BY DEF InvOf
<1>3. /\ TableInv(q) /\ q.flags = s.flags /\ Stores(s, q, k, w)
      /\ LuaH_get(s, k) # Nil => SameKeys(s, q)
      /\ k \in NormalKeys /\ LuaH_get(s, key) = LuaH_get(s, k)
  BY <1>1, <1>2, SetFacts
<1>4. c = Off \/ Steady(s, q)
  BY <1>2, <1>3, SameKeysSteady
<1>5. Traversal(q, c, v)
  <2>1. CASE c = Off
    BY <2>1, <1>2 DEF Traversal
  <2>2. CASE Steady(s, q)
    BY <2>2, <1>2, <1>3, SteadyTraversal
  <2>3. QED
    BY <2>1, <2>2, <1>4
<1>6. CASE r = q /\ LuaH_get(s, key) # Nil
  <2>1. q.flags => LuaH_get(q, TMName) = Nil
    BY <1>2, <1>3, <1>6, TMNameFacts DEF Stores
  <2>2. QED
    BY <2>1, <1>1, <1>3, <1>5, <1>6 DEF InvOf
<1>7. CASE r = WithFlags(q, FALSE)
  <2> DEFINE b == FALSE
  <2>1. b \in BOOLEAN /\ r = WithFlags(q, b)
    BY <1>7
  <2> HIDE DEF b
  <2>2. /\ TableInv(r) /\ r.flags = b
        /\ \A j \in NormalKeys : LuaH_get(r, j) = LuaH_get(q, j)
    BY <2>1, <1>3, WithFlagsFacts
  <2>3. Steady(q, r)
    BY <2>1, <1>3, WithFlagsSteady
  <2>4. Traversal(r, c, v)
    BY <2>2, <2>3, <1>3, <1>5, SteadyTraversal
  <2>5. Stores(s, r, k, w)
    BY <2>2, <1>3 DEF Stores
  <2>6. QED
    BY <2>2, <2>4, <2>5, <1>1, <1>3 DEF InvOf, b
<1>8. QED
  BY <1>6, <1>7

SameContents(s, r) == \A k \in NormalKeys : LuaH_get(r, k) = LuaH_get(s, k)

(* The steps that change the table and none of its fields.                 *)
LEMMA QuietFacts ==
  ASSUME NEW s, NEW c, NEW v, InvOf(s, c, v), NEW r,
         \/ \E n \in 1 .. 2^MAXABITS :
               /\ c = Off /\ n > Sizearray(s)
               /\ r = LuaH_resize(s, n, IF s.dummy THEN 0 ELSE Sizenode(s))
         \/ \E n \in DOMAIN s.node :
               /\ s.node[n].val = Nil /\ s.node[n].key[1] = "ptr"
               /\ r = WithKey(s, n, DeadKey(KeyAt(s, n)))
         \/ GetGeneric(s, TMName) = Nil /\ r = WithFlags(s, TRUE)
  PROVE  InvOf(r, c, v) /\ SameContents(s, r)
<1>1. TableInv(s) /\ Traversal(s, c, v) /\ (s.flags => LuaH_get(s, TMName) = Nil)
  BY DEF InvOf
<1>2. CASE \E n \in 1 .. 2^MAXABITS :
               /\ c = Off /\ n > Sizearray(s)
               /\ r = LuaH_resize(s, n, IF s.dummy THEN 0 ELSE Sizenode(s))
  <2>1. PICK n \in 1 .. 2^MAXABITS :
               /\ c = Off /\ n > Sizearray(s)
               /\ r = LuaH_resize(s, n, IF s.dummy THEN 0 ELSE Sizenode(s))
    BY <1>2
  <2>2. /\ TableInv(r) /\ r.flags = s.flags
        /\ \A k \in NormalKeys : LuaH_get(r, k) = LuaH_get(s, k)
    BY <2>1, <1>1, ResizeArrayFacts
  <2>3. Traversal(r, c, v)
    BY <2>1, <1>1 DEF Traversal
  <2>4. QED
    BY <2>2, <2>3, <1>1, TMNameFacts DEF InvOf, SameContents
<1>3. CASE \E n \in DOMAIN s.node :
               /\ s.node[n].val = Nil /\ s.node[n].key[1] = "ptr"
               /\ r = WithKey(s, n, DeadKey(KeyAt(s, n)))
  <2>1. PICK n \in DOMAIN s.node :
               /\ s.node[n].val = Nil /\ s.node[n].key[1] = "ptr"
               /\ r = WithKey(s, n, DeadKey(KeyAt(s, n)))
    BY <1>3
  <2> DEFINE d == DeadKey(KeyAt(s, n))
  <2>2. d = DeadKey(KeyAt(s, n)) /\ r = WithKey(s, n, d)
    BY <2>1
  <2> HIDE DEF d
  <2>3. /\ TableInv(r) /\ r.flags = s.flags
        /\ \A k \in NormalKeys : LuaH_get(r, k) = LuaH_get(s, k)
    BY <2>1, <2>2, <1>1, RemoveEntryFacts
  <2>4. Steady(s, r)
    BY <2>1, <2>2, <1>1, RemoveEntrySteady
  <2>5. Traversal(r, c, v)
    BY <2>3, <2>4, <1>1, SteadyTraversal
  <2>6. QED
    BY <2>3, <2>5, <1>1, TMNameFacts DEF InvOf, SameContents
<1>4. CASE GetGeneric(s, TMName) = Nil /\ r = WithFlags(s, TRUE)
  <2> DEFINE b == TRUE
  <2>1. b \in BOOLEAN /\ r = WithFlags(s, b)
    BY <1>4
  <2> HIDE DEF b
  <2>2. /\ TableInv(r)
        /\ \A k \in NormalKeys : LuaH_get(r, k) = LuaH_get(s, k)
    BY <2>1, <1>1, WithFlagsFacts
  <2>3. Steady(s, r)
    BY <2>1, <1>1, WithFlagsSteady
  <2>4. Traversal(r, c, v)
    BY <2>2, <2>3, <1>1, SteadyTraversal
  <2>5. LuaH_get(r, TMName) = Nil
    BY <2>2, <1>4, TMNameFacts
  <2>6. QED
    BY <2>2, <2>4, <2>5 DEF InvOf, SameContents
<1>5. QED
  BY <1>2, <1>3, <1>4

-----------------------------------------------------------------------------
(* Every step preserves the invariant and is a step of the map.            *)

MapCursor(c) == CASE c = Off -> "off" [] c = NilKey -> "start" [] OTHER -> "at"

(* The kinds of steps, by what they do to the contents and the traversal.  *)
AssignStep(k, v) ==
  /\ cursor = Off \/ LuaH_get(t, k) # Nil
  /\ k \in NormalKeys /\ v \in Vals
  /\ Stores(t, t', k, v)
  /\ UNCHANGED <<cursor, visited, shadowed>>

QuietStep == SameContents(t, t') /\ UNCHANGED <<cursor, visited, shadowed>>

(* An error that leaves an array part in front of integer keys.            *)
Indices == {k \in NormalKeys : k[1] = "int"}

ForgetStep(ks) ==
  /\ ~shadowed /\ shadowed' = TRUE /\ cursor = Off
  /\ ks \subseteq Indices
  /\ \A k \in NormalKeys : LuaH_get(t', k) = IF k \in ks THEN Nil ELSE LuaH_get(t, k)
  /\ UNCHANGED <<cursor, visited>>

LEMMA AssignCase ==
  ASSUME Inv, NEW key \in Keys, NEW v \in Vals,
         LuaV_settable(key, v) \/ Lua_rawset(key, v)
  PROVE  Inv' /\ \E k \in NormalKeys : AssignStep(k, v)
<1> DEFINE q == LuaH_set(t, key, v)
<1>0. Inv /\ ~shadowed
  BY DEF LuaV_settable, Lua_rawset, MayAssign
<1>1. /\ InvOf(t, cursor, visited)
      /\ cursor = Off \/ LuaH_get(t, key) # Nil
      /\ (t' = q /\ LuaH_get(t, key) # Nil) \/ t' = WithFlags(q, FALSE)
      /\ cursor' = cursor /\ visited' = visited /\ shadowed' = FALSE
  <2>1. InvOf(t, cursor, visited) /\ shadowed = FALSE
    BY <1>0, FollowedInv
  <2>2. /\ cursor = Off \/ LuaH_get(t, key) # Nil
        /\ (t' = q /\ LuaH_get(t, key) # Nil) \/ t' = WithFlags(q, FALSE)
        /\ cursor' = cursor /\ visited' = visited /\ shadowed' = shadowed
    BY DEF LuaV_settable, Lua_rawset, MayAssign, WithFlags
  <2>3. QED
    BY <2>1, <2>2
<1>2. q = LuaH_set(t, key, v)
  OBVIOUS
<1> HIDE DEF q
<1>3. /\ InvOf(t', cursor, visited)
      /\ Normal(key) \in NormalKeys /\ Stores(t, t', Normal(key), v)
      /\ LuaH_get(t, key) = LuaH_get(t, Normal(key))
  BY <1>1, <1>2, AssignFacts, ZenonT(40)
<1>4. Inv'
  BY <1>1, <1>3, WholeFacts DEF Inv
<1>5. shadowed' = shadowed
  BY DEF LuaV_settable, Lua_rawset
<1>6. AssignStep(Normal(key), v)
  BY <1>1, <1>3, <1>5 DEF AssignStep
<1>7. QED
  BY <1>3, <1>4, <1>6

LEMMA QuietCase ==
  ASSUME Inv,
         \/ \E n \in 1 .. 2^MAXABITS : LuaH_resizearray(n)
         \/ \E n \in DOMAIN t.node : RemoveEntry(n)
         \/ LuaT_gettm
  PROVE  Inv' /\ QuietStep
<1>1. /\ InvOf(t, cursor, visited) /\ cursor' = cursor /\ visited' = visited
      /\ shadowed = FALSE /\ shadowed' = FALSE
  <2>1. ~shadowed /\ UNCHANGED <<cursor, visited, shadowed>>
    BY DEF LuaH_resizearray, RemoveEntry, LuaT_gettm
  <2>2. InvOf(t, cursor, visited) /\ shadowed = FALSE
    BY <2>1, FollowedInv
  <2>3. QED
    BY <2>1, <2>2
<1>2. \/ \E n \in 1 .. 2^MAXABITS :
            /\ cursor = Off /\ n > Sizearray(t)
            /\ t' = LuaH_resize(t, n, IF t.dummy THEN 0 ELSE Sizenode(t))
      \/ \E n \in DOMAIN t.node :
            /\ t.node[n].val = Nil /\ t.node[n].key[1] = "ptr"
            /\ t' = WithKey(t, n, DeadKey(KeyAt(t, n)))
      \/ GetGeneric(t, TMName) = Nil /\ t' = WithFlags(t, TRUE)
  <2>1. ASSUME NEW n \in DOMAIN t.node, RemoveEntry(n)
        PROVE  /\ t.node[n].val = Nil /\ t.node[n].key[1] = "ptr"
               /\ t' = WithKey(t, n, DeadKey(KeyAt(t, n)))
    <3>1. TableShape(t)
      BY <1>1 DEF InvOf, TableInv
    <3>2. t.node \in [DOMAIN t.node -> NodeSet]
      BY <3>1, ShapeFacts
    <3>3. [t EXCEPT !.node[n].key = DeadKey(@)] = [t EXCEPT !.node[n].key = DeadKey(t.node[n].key)]
      BY <3>1, <3>2 DEF TableShape, NodeSet
    <3>4. QED
      BY <2>1, <3>3 DEF RemoveEntry, WithKey, KeyAt
  <2>2. ASSUME NEW n \in 1 .. 2^MAXABITS, LuaH_resizearray(n)
        PROVE  /\ cursor = Off /\ n > Sizearray(t)
               /\ t' = LuaH_resize(t, n, IF t.dummy THEN 0 ELSE Sizenode(t))
    BY <2>2 DEF LuaH_resizearray
  <2>3. LuaT_gettm => GetGeneric(t, TMName) = Nil /\ t' = WithFlags(t, TRUE)
    BY DEF LuaT_gettm, WithFlags
  <2>4. QED
    BY <2>1, <2>2, <2>3
<1>3. InvOf(t', cursor, visited) /\ SameContents(t, t')
  BY <1>1, <1>2, QuietFacts
<1>4. QED
  BY <1>1, <1>3, WholeFacts DEF Inv, QuietStep

LEMMA StartCase ==
  ASSUME Inv, StartTraversal
  PROVE  Inv' /\ visited = <<>>
<1>1. /\ InvOf(t, cursor, visited) /\ cursor = Off /\ cursor' = NilKey
      /\ t' = t /\ visited' = visited /\ shadowed = FALSE /\ shadowed' = FALSE
  BY FollowedInv DEF StartTraversal
<1>2. TableInv(t) /\ (t.flags => LuaH_get(t, TMName) = Nil) /\ visited = <<>>
  BY <1>1 DEF InvOf, Traversal
<1>3. NilKey # Off /\ FindIndex(t, NilKey) = 0
  BY KeyFacts DEF FindIndex
<1>4. <<>> \in Seq(NormalKeys) /\ Range(<<>>) = {}
  BY DEF Range
<1>5. \A i \in Places(t) : ~(i <= 0)
  <2>1. Sizearray(t) + Sizenode(t) \in Nat
    BY <1>2, ShapeFacts DEF TableInv
  <2>2. QED
    BY <2>1 DEF Places
<1>6. Traversal(t, NilKey, <<>>)
  BY <1>3, <1>4, <1>5 DEF Traversal
<1>7. InvOf(t', cursor', visited')
  BY <1>1, <1>2, <1>6 DEF InvOf
<1>8. QED
  BY <1>1, <1>2, <1>7, WholeFacts DEF Inv

LEMMA NextCase ==
  ASSUME Inv, Next1
  PROVE  /\ Inv' /\ cursor # Off /\ t' = t
         /\ \/ /\ cursor' = Off /\ visited' = <<>>
               /\ \A j \in NormalKeys : LuaH_get(t, j) # Nil => j \in Range(visited)
            \/ \E k \in NormalKeys : /\ LuaH_get(t, k) # Nil /\ k \notin Range(visited)
                                     /\ cursor' = k /\ visited' = Append(visited, k)
<1> DEFINE k == LuaH_next(t, cursor)
<1>1. /\ InvOf(t, cursor, visited) /\ cursor # Off /\ t' = t
      /\ shadowed = FALSE /\ shadowed' = FALSE
      /\ IF k = NilKey THEN cursor' = Off /\ visited' = <<>>
         ELSE cursor' = k /\ visited' = Append(visited, k)
  BY FollowedInv DEF Next1
<1>1a. k = LuaH_next(t, cursor)
  OBVIOUS
<1> HIDE DEF k
<1>2. TableInv(t) /\ (t.flags => LuaH_get(t, TMName) = Nil) /\ Traversal(t, cursor, visited)
  BY <1>1 DEF InvOf
<1>3. /\ k = NilKey => \A j \in NormalKeys : LuaH_get(t, j) # Nil => j \in Range(visited)
      /\ k # NilKey => /\ k \in NormalKeys /\ LuaH_get(t, k) # Nil /\ k \notin Range(visited)
                       /\ Traversal(t, k, Append(visited, k))
  BY <1>1, <1>1a, <1>2, NextFacts
<1>4. CASE k = NilKey
  <2>1. Traversal(t, Off, <<>>)
    BY DEF Traversal
  <2>2. InvOf(t', cursor', visited')
    BY <2>1, <1>1, <1>2, <1>4 DEF InvOf
  <2>3. QED
    BY <2>2, <1>1, <1>3, <1>4, WholeFacts DEF Inv
<1>5. CASE k # NilKey
  <2>1. InvOf(t', cursor', visited')
    BY <1>1, <1>2, <1>3, <1>5 DEF InvOf
  <2>2. QED
    BY <2>1, <1>1, <1>3, <1>5, WholeFacts DEF Inv
<1>6. QED
  BY <1>4, <1>5

(* setarrayvector, with the old nodes behind the longer array part.        *)
LEMMA GrownFacts ==
  ASSUME NEW s, TableInv(s), NEW n \in Nat, n <= 2^MAXABITS, n > Sizearray(s),
         NEW r, r = SetArrayVector(s, n)
  PROVE  /\ r.flags = s.flags /\ r.node = s.node
         /\ ~Shadows(r) => TableInv(r) /\ SameContents(s, r)
         /\ \A k \in NormalKeys :
               LuaH_get(r, k) = IF InArray(r, k) /\ ~InArray(s, k) THEN Nil ELSE LuaH_get(s, k)
         /\ \A k \in NormalKeys : InArray(r, k) => k \in Indices
<1> DEFINE a == NewArray(s, n)
<1>1. /\ TableShape(s) /\ s.array \in Seq(Vals) /\ Sizearray(s) \in Nat
      /\ Sizearray(s) <= 2^MAXABITS
  BY ShapeFacts DEF TableInv, TableShape
<1>2. a \in Seq(Vals) /\ Len(a) = n
  <2>1. \A i \in 1 .. n : (IF i <= Sizearray(s) THEN s.array[i] ELSE Nil) \in Vals
    BY <1>1 DEF Sizearray, Vals
  <2>2. a \in [1 .. n -> Vals]
    BY <2>1 DEF NewArray
  <2>3. QED
    BY <2>2
<1>3. \A i \in 1 .. n : a[i] = IF i <= Sizearray(s) THEN s.array[i] ELSE Nil
  BY DEF NewArray
<1>4. r = [s EXCEPT !.array = a]
  BY DEF SetArrayVector, NewArray
<1> HIDE DEF a
<1>5. /\ r.array = a /\ r.node = s.node /\ r.flags = s.flags
      /\ r.dummy = s.dummy /\ r.lastfree = s.lastfree
      /\ r \in [array : Seq(Vals), node : NodeVectors, dummy : BOOLEAN,
                lastfree : Nat, flags : BOOLEAN]
  BY <1>1, <1>2, <1>4 DEF TableShape
<1>6. Sizearray(r) = n /\ Sizenode(r) = Sizenode(s)
  BY <1>2, <1>5 DEF Sizearray, Sizenode
<1>7. \A k, m : KeyAt(r, m) = KeyAt(s, m) /\ r.node[m] = s.node[m]
  BY <1>5 DEF KeyAt
<1>8. \A k \in NormalKeys :
         /\ InArray(s, k) <=> k[1] = "int" /\ k[2] \in 1 .. Sizearray(s)
         /\ InArray(r, k) <=> k[1] = "int" /\ k[2] \in 1 .. n
         /\ InArray(r, k) => ArrayIndex(k) = k[2]
  BY <1>1, <1>6, InArrayFacts
<1>9. \A k \in NormalKeys : Search(r, k, {k}) = Search(s, k, {k})
  BY <1>5, <1>7, SameSearch
<1>10. ASSUME NEW k \in NormalKeys
       PROVE  LuaH_get(r, k) = IF InArray(r, k) /\ ~InArray(s, k) THEN Nil ELSE LuaH_get(s, k)
  <2>1. Normal(k) = k /\ k = <<k[1], k[2]>> /\ k[2] \in Int
    BY KeyFacts
  <2>2. CASE k[1] # "int"
    <3>1. LuaH_get(r, k) = GetGeneric(r, k) /\ LuaH_get(s, k) = GetGeneric(s, k)
      BY <2>1, <2>2 DEF LuaH_get
    <3>2. GetGeneric(r, k) = GetGeneric(s, k)
      BY <1>5, <1>9 DEF GetGeneric
    <3>3. QED
      BY <3>1, <3>2, <2>2, <1>8
  <2>3. CASE k[1] = "int"
    <3>1. k = IntKey(k[2])
      BY <2>1, <2>3 DEF IntKey
    <3>2. LuaH_get(r, k) = LuaH_getint(r, k[2]) /\ LuaH_get(s, k) = LuaH_getint(s, k[2])
      BY <2>1, <2>3 DEF LuaH_get
    <3>3. CASE k[2] \in 1 .. n
      <4>1. LuaH_get(r, k) = IF k[2] <= Sizearray(s) THEN s.array[k[2]] ELSE Nil
        BY <3>2, <3>3, <1>3, <1>5, <1>6 DEF LuaH_getint
      <4>2. k[2] <= Sizearray(s) => LuaH_get(s, k) = s.array[k[2]]
        BY <3>2, <3>3, <1>1 DEF LuaH_getint
      <4>3. InArray(r, k) /\ (InArray(s, k) <=> k[2] <= Sizearray(s))
        BY <2>3, <3>3, <1>1, <1>8
      <4>4. QED
        BY <4>1, <4>2, <4>3
    <3>4. CASE k[2] \notin 1 .. n
      <4>1. ~InArray(r, k) /\ k[2] \notin 1 .. Sizearray(s)
        BY <3>4, <1>1, <1>8, <2>1
      <4>2. LuaH_getint(r, k[2]) = LuaH_getint(s, k[2])
        BY <3>1, <3>4, <4>1, <1>5, <1>6, <1>9 DEF LuaH_getint
      <4>3. QED
        BY <3>2, <4>1, <4>2
    <3>5. QED
      BY <3>3, <3>4
  <2>4. QED
    BY <2>2, <2>3
<1>11. \A k \in NormalKeys : InArray(r, k) => k \in Indices
  BY <1>8 DEF Indices
<1>12. ASSUME ~Shadows(r)
       PROVE  TableInv(r) /\ SameContents(s, r)
  <2>1. \A m \in DOMAIN s.node : ~InArray(r, KeyAt(s, m))
    BY <1>5, <1>12 DEF Shadows, KeyAt
  <2>2. TableShape(r)
    <3>1. \A i \in 1 .. Sizearray(s) : s.array[i] # Nil => IntKey(i) \in NormalKeys
      BY <1>1 DEF TableShape
    <3>2. \A i \in 1 .. Sizearray(r) : r.array[i] # Nil => IntKey(i) \in NormalKeys
      BY <3>1, <1>1, <1>3, <1>5, <1>6
    <3>3. r.lastfree <= Sizenode(r)
      BY <1>1, <1>5, <1>6 DEF TableShape
    <3>4. QED
      BY <3>2, <3>3, <1>5, <1>6 DEF TableShape
  <2>3. ChainInv(r)
    <3>1. \A m \in DOMAIN s.node : KeyAt(s, m) \in NodeKeys
      BY <1>1, ShapeFacts
    <3>2. QED
      BY <3>1, <1>5, <1>7, SameKeysChains DEF TableInv
  <2>4. KeysUnique(r) /\ DeadEmpty(r) /\ LastFreeBound(r)
    <3>1. KeysUnique(s) /\ DeadEmpty(s) /\ LastFreeBound(s)
      BY DEF TableInv
    <3>2. KeysUnique(r)
      BY <3>1, <2>1, <1>5, <1>7 DEF KeysUnique
    <3>3. DeadEmpty(r)
      BY <3>1, <1>5, <1>7 DEF DeadEmpty
    <3>4. LastFreeBound(r)
      BY <3>1, <1>5, <1>7 DEF LastFreeBound
    <3>5. QED
      BY <3>2, <3>3, <3>4
  <2>5. ASSUME NEW k \in NormalKeys, InArray(r, k), ~InArray(s, k)
        PROVE  LuaH_get(s, k) = Nil
    <3>1. \A m \in DOMAIN s.node : KeyAt(s, m) # k
      BY <2>1, <2>5
    <3>2. QED
      BY <3>1, <2>5, GetFacts
  <2>6. SameContents(s, r)
    BY <2>5, <1>10 DEF SameContents
  <2>7. QED
    BY <2>2, <2>3, <2>4, <2>6 DEF TableInv
<1>13. QED
  BY <1>5, <1>10, <1>11, <1>12

(* An assignment that fails: the fields are the same, or integer keys are  *)
(* forgotten.                                                              *)
LEMMA FailCase ==
  ASSUME Inv, NEW key \in Keys, LuaH_newkeyFails(key)
  PROVE  Inv' /\ (QuietStep \/ \E ks : ForgetStep(ks))
<1> DEFINE k == Normal(key)
           q == WithoutFree(t)
           na == NewArraySize(q, k)
           nh == NewHashSize(q, k)
           g == SetArrayVector(q, na)
<1>1. /\ InvOf(t, cursor, visited) /\ shadowed = FALSE /\ cursor = Off
      /\ cursor' = cursor /\ visited' = visited /\ shadowed' = Shadows(t')
      /\ Full(t, k) /\ t' \in ResizeFails(q, na, nh)
  BY FollowedInv DEF LuaH_newkeyFails, WithoutFree
<1>2. k \in NormalKeys
  BY KeyFacts
<1>3. na \in Nat /\ na <= 2^MAXABITS
  BY ComputeSizesBound DEF NewArraySize
<1>4. t' = q \/ (na > Sizearray(q) /\ t' = g)
  BY <1>1 DEF ResizeFails
<1>4a. q = WithoutFree(t) /\ g = SetArrayVector(q, na)
  OBVIOUS
<1> HIDE DEF k, q, na, nh, g
<1>5. TableInv(t) /\ (t.flags => LuaH_get(t, TMName) = Nil) /\ Traversal(t, cursor, visited)
  BY <1>1 DEF InvOf
<1>6. /\ TableInv(q) /\ q.flags = t.flags
      /\ \A j \in NormalKeys : LuaH_get(q, j) = LuaH_get(t, j)
  BY <1>1, <1>2, <1>4a, <1>5, WithoutFreeFacts
<1>7. \A s : Traversal(s, cursor, visited)
  BY <1>1, <1>5 DEF Traversal
<1>8. CASE t' = q
  <2>1. ~Shadows(q)
    <3>1. ASSUME NEW n \in DOMAIN q.node, InArray(q, KeyAt(q, n)) PROVE FALSE
      <4>1. KeyAt(q, n) \in NodeKeys /\ KeyAt(q, n)[1] = "int"
        BY <3>1, <1>6, ShapeFacts DEF TableInv, InArray, ArrayIndex
      <4>2. KeyAt(q, n) \in NormalKeys
        BY <4>1, KeyFacts DEF NodeKeys, NilKey
      <4>3. QED
        BY <4>2, <3>1, <1>6 DEF TableInv, KeysUnique
    <3>2. QED
      BY <3>1 DEF Shadows, KeyAt
  <2>2. shadowed' = FALSE
    BY <2>1, <1>1, <1>8 DEF Shadows
  <2>3. InvOf(t', cursor', visited')
    BY <1>1, <1>5, <1>6, <1>7, <1>8, TMNameFacts DEF InvOf
  <2>4. Inv'
    BY <2>2, <2>3, WholeFacts DEF Inv
  <2>5. QED
    BY <2>2, <2>4, <1>1, <1>6, <1>8 DEF QuietStep, SameContents
<1>9. CASE na > Sizearray(q) /\ t' = g
  <2>1. /\ g.flags = q.flags /\ g.node = q.node
        /\ ~Shadows(g) => TableInv(g) /\ SameContents(q, g)
        /\ \A j \in NormalKeys :
              LuaH_get(g, j) = IF InArray(g, j) /\ ~InArray(q, j) THEN Nil ELSE LuaH_get(q, j)
        /\ \A j \in NormalKeys : InArray(g, j) => j \in Indices
    BY <1>3, <1>4a, <1>6, <1>9, GrownFacts
  <2>2. CASE ~Shadows(g)
    <3>1. SameContents(t, g)
      BY <2>1, <2>2, <1>6 DEF SameContents
    <3>2. shadowed' = FALSE
      BY <2>2, <1>1, <1>9 DEF Shadows
    <3>3. InvOf(t', cursor', visited')
      BY <2>1, <2>2, <3>1, <1>1, <1>5, <1>6, <1>7, <1>9, TMNameFacts DEF InvOf, SameContents
    <3>4. Inv'
      BY <3>2, <3>3, WholeFacts DEF Inv
    <3>5. QED
      BY <3>1, <3>2, <3>4, <1>1, <1>9 DEF QuietStep
  <2>3. CASE Shadows(g)
    <3> DEFINE ks == {j \in Indices : InArray(g, j) /\ ~InArray(q, j)}
    <3>1. shadowed' = TRUE
      BY <2>3, <1>1, <1>9 DEF Shadows
    <3>2. \A j \in NormalKeys : LuaH_get(g, j) = IF j \in ks THEN Nil ELSE LuaH_get(t, j)
      BY <2>1, <1>6 DEF Indices
    <3>3. ForgetStep(ks)
      BY <3>1, <3>2, <1>1, <1>9 DEF ForgetStep
    <3>4. LuaH_get(t', TMName) = LuaH_get(t, TMName)
      <4>1. TMName \in NormalKeys /\ TMName \notin ks
        BY TMNameFacts, TableAssumption DEF Indices
      <4>2. QED
        BY <4>1, <3>2, <1>9
    <3>5. t'.flags => GetGeneric(t', TMName) = Nil
      BY <3>4, <2>1, <1>5, <1>6, <1>9, TMNameFacts
    <3>6. Inv'
      BY <3>1, <3>5 DEF Inv, InvAll
    <3>7. QED
      BY <3>3, <3>6
  <2>4. QED
    BY <2>2, <2>3
<1>10. QED
  BY <1>4, <1>8, <1>9

LEMMA InitInv == Init => Inv /\ \A k \in NormalKeys : LuaH_get(t, k) = Nil
<1> SUFFICES ASSUME Init PROVE Inv /\ \A k \in NormalKeys : LuaH_get(t, k) = Nil
  OBVIOUS
<1>1. t = EmptyTable /\ cursor = Off /\ visited = <<>> /\ shadowed = FALSE
  BY DEF Init, EmptyTable
<1>2. TableInv(t) /\ \A k \in NormalKeys : LuaH_get(t, k) = Nil
  BY <1>1, InitFacts
<1>3. Traversal(t, cursor, visited)
  BY <1>1 DEF Traversal
<1>4. QED
  BY <1>1, <1>2, <1>3, TMNameFacts, WholeFacts DEF Inv, InvOf

(* One step: the invariant holds again and the step is one of four kinds.  *)
LEMMA StepInv ==
  ASSUME Inv, Next
  PROVE  Inv'
<1>1. ASSUME NEW key \in Keys, NEW v \in Values \cup {Nil},
             LuaV_settable(key, v) \/ Lua_rawset(key, v)
      PROVE  Inv'
  <2>1. v \in Vals
    BY DEF Vals
  <2>2. QED
    BY <1>1, <2>1, AssignCase
<1>2. ASSUME UNCHANGED vars PROVE Inv'
  BY <1>2 DEF Inv, vars
<1>3. QED
  BY <1>1, <1>2, QuietCase, StartCase, NextCase, FailCase DEF Next, Abandoned

LEMMA StutterInv ==
  ASSUME Inv, UNCHANGED vars
  PROVE  Inv'
BY DEF Inv, vars

(* The inductive invariant holds in every reachable state: tables of any   *)
(* size are chained as luaH_newkey, rehash and the collector leave them,   *)
(* and a traversal knows its place.                                        *)
THEOREM TableInvariance == Spec => []Inv
<1>1. Init => Inv
  BY InitInv
<1>2. Inv /\ [Next]_vars => Inv'
  BY StepInv, StutterInv
<1>3. QED
  BY <1>1, <1>2, PTL DEF Spec

LEMMA InvChainsSound == Inv => ChainsSound
<1> SUFFICES ASSUME Inv, ~shadowed, NEW n \in DOMAIN t.node
             PROVE  /\ t.node[Until(t, n, {})].next = 0
                    /\ t.node[n].val # Nil =>
                          /\ Search(t, t.node[n].key, {t.node[n].key}) = n
                          /\ ~InArray(t, t.node[n].key)
  BY DEF ChainsSound
<1>1. TableInv(t)
  BY DEF Inv, InvAll, InvOf
<1>2. t.node[Until(t, n, {})].next = 0
  <2>1. {} \in SUBSET DOMAIN t.node /\ ChainShape(t)
    BY <1>1 DEF TableInv, ChainInv
  <2> DEFINE X == {}
  <2>2. X \in SUBSET DOMAIN t.node /\ \A x : x \notin X
    OBVIOUS
  <2> HIDE DEF X
  <2>3. StopsRight(t, n, X, Until(t, n, X))
    BY <2>1, <2>2, UntilFacts
  <2>4. t.node[Until(t, n, X)].next = 0
    BY <2>2, <2>3 DEF StopsRight
  <2>5. QED
    BY <2>4 DEF X
<1>3. ASSUME t.node[n].val # Nil
      PROVE  Search(t, t.node[n].key, {t.node[n].key}) = n /\ ~InArray(t, t.node[n].key)
  <2>1. KeyAt(t, n) \in NormalKeys
    BY <1>1, <1>3, ValueHasKey
  <2>2. Search(t, KeyAt(t, n), {KeyAt(t, n)}) = n
    BY <1>1, <2>1, SearchFacts
  <2>3. ~InArray(t, KeyAt(t, n))
    BY <1>1, <2>1 DEF TableInv, KeysUnique
  <2>4. QED
    BY <2>2, <2>3 DEF KeyAt
<1>4. QED
  BY <1>2, <1>3

(* Every chain ends, and every value is found from the main position of    *)
(* its key and nowhere else, whatever was inserted, moved, rehashed or     *)
(* killed, also after a resize that failed for want of memory, unless it   *)
(* left keys behind a longer array part (luaH_newkey's walk to the         *)
(* predecessor stops).                                                     *)
THEOREM ChainsAreSound == Spec => []ChainsSound
<1>1. QED
  BY InvChainsSound, TableInvariance, PTL

(* A metamethod flagged as absent is absent: no assignment that could      *)
(* bring it leaves the flag (luaV_fastset, luaT_gettm).                    *)
THEOREM AbsentAreAbsent == Spec => []AbsentMetamethods
<1>1. Inv => AbsentMetamethods
  BY DEF Inv, InvAll, AbsentMetamethods
<1>2. QED
  BY <1>1, TableInvariance, PTL

LEMMA MapInitStep == Init => Map!MapInit
<1> SUFFICES ASSUME Init PROVE Map!MapInit
  OBVIOUS
<1>1. /\ cursor = Off /\ visited = <<>> /\ shadowed = FALSE
      /\ \A k \in NormalKeys : LuaH_get(t, k) = Nil
  BY InitInv DEF Init
<1> DEFINE m == [k \in NormalKeys |-> LuaH_get(t, k)]
           c == CASE cursor = Off -> "off" [] cursor = NilKey -> "start" [] OTHER -> "at"
<1>2. m = [k \in NormalKeys |-> Nil]
  BY <1>1
<1>3. c = "off"
  BY <1>1, KeyFacts
<1>4. Map!MapInit <=> /\ m = [k \in NormalKeys |-> Nil] /\ c = "off" /\ visited = <<>>
                      /\ ~shadowed = TRUE
  BY DEF Map!MapInit
<1> HIDE DEF m, c
<1>5. QED
  BY <1>1, <1>2, <1>3, <1>4

LEMMA MapStep ==
  ASSUME Inv, Next
  PROVE  [Map!MapNext]_(Map!mvars)
<1> DEFINE m == [k \in NormalKeys |-> LuaH_get(t, k)]
<1>0. NilKey # Off
  BY KeyFacts
<1>1. ASSUME NEW key \in Keys, NEW v \in Values \cup {Nil},
             LuaV_settable(key, v) \/ Lua_rawset(key, v)
      PROVE  \E k \in NormalKeys : Map!Assign(k, v)
  <2>1. v \in Vals
    BY DEF Vals
  <2>2. PICK k \in NormalKeys : AssignStep(k, v)
    BY <1>1, <2>1, AssignCase
  <2>3. m' = [m EXCEPT ![k] = v]
    BY <2>2 DEF AssignStep, Stores
  <2>4. cursor = Off \/ k \in {j \in NormalKeys : m[j] # Nil}
    BY <2>2 DEF AssignStep
  <2>5. cursor' = cursor /\ visited' = visited /\ shadowed' = shadowed
    BY <2>2 DEF AssignStep
  <2> DEFINE c == CASE cursor = Off -> "off" [] cursor = NilKey -> "start" [] OTHER -> "at"
  <2>5a. cursor = Off => c = "off"
    BY <1>0
  <2>5b. c' = c
    BY <2>5
  <2>5c. Map!Assign(k, v) <=> /\ c = "off" \/ k \in {j \in NormalKeys : m[j] # Nil}
                              /\ m' = [m EXCEPT ![k] = v]
                              /\ c' = c /\ visited' = visited
                              /\ (~shadowed)' = ~shadowed
    BY DEF Map!Assign, Map!Fields
  <2> HIDE DEF m, c
  <2>6. Map!Assign(k, v)
    BY <2>3, <2>4, <2>5, <2>5a, <2>5b, <2>5c
  <2>7. QED
    BY <2>6
<1>2. ASSUME \/ \E n \in 1 .. 2^MAXABITS : LuaH_resizearray(n)
             \/ \E n \in DOMAIN t.node : RemoveEntry(n)
             \/ LuaT_gettm
      PROVE  UNCHANGED Map!mvars
  <2>1. QuietStep
    BY <1>2, QuietCase
  <2>2. QED
    BY <2>1 DEF QuietStep, SameContents, Map!mvars
<1>3. ASSUME StartTraversal PROVE Map!Begin
  <2>1. visited = <<>>
    BY <1>3, StartCase
  <2>2. QED
    BY <2>1, <1>0, <1>3 DEF StartTraversal, Map!Begin
<1>4. ASSUME Next1 PROVE Map!End \/ \E k \in NormalKeys : Map!Visit(k)
  <2>1. /\ cursor # Off /\ t' = t
        /\ \/ /\ cursor' = Off /\ visited' = <<>>
              /\ \A j \in NormalKeys : LuaH_get(t, j) # Nil => j \in Range(visited)
           \/ \E k \in NormalKeys : /\ LuaH_get(t, k) # Nil /\ k \notin Range(visited)
                                    /\ cursor' = k /\ visited' = Append(visited, k)
    BY <1>4, NextCase
  <2>2. Range(visited) = Map!Range(visited)
    BY DEF Range, Map!Range
  <2>3. MapCursor(cursor) # "off"
    BY <2>1 DEF MapCursor
  <2>4. m' = m
    BY <2>1
  <2>4a. (~shadowed)' = ~shadowed
    BY <1>4 DEF Next1
  <2>5. CASE /\ cursor' = Off /\ visited' = <<>>
             /\ \A j \in NormalKeys : LuaH_get(t, j) # Nil => j \in Range(visited)
    <3>0. MapCursor(cursor)' = "off"
      BY <1>0, <2>5 DEF MapCursor
    <3>1. {j \in NormalKeys : m[j] # Nil} \subseteq Map!Range(visited)
      BY <2>2, <2>5
    <3>3. Map!End <=> /\ MapCursor(cursor) # "off"
                      /\ {j \in NormalKeys : m[j] # Nil} \subseteq Map!Range(visited)
                      /\ MapCursor(cursor)' = "off" /\ visited' = <<>> /\ m' = m
                      /\ (~shadowed)' = ~shadowed
      BY DEF Map!End, Map!Fields, MapCursor
    <3>4. Map!End
      BY <2>3, <2>4, <2>4a, <2>5, <3>0, <3>1, <3>3
    <3>2. QED
      BY <3>4
  <2>6. ASSUME NEW k \in NormalKeys, LuaH_get(t, k) # Nil, k \notin Range(visited),
               cursor' = k, visited' = Append(visited, k)
        PROVE  Map!Visit(k)
    <3>1. k # Off /\ k # NilKey
      BY KeyFacts
    <3>2. MapCursor(cursor)' = "at"
      BY <3>1, <2>6 DEF MapCursor
    <3>3. k \in {j \in NormalKeys : m[j] # Nil} \ Map!Range(visited)
      BY <2>2, <2>6
    <3>4. QED
      BY <2>3, <2>4, <2>4a, <2>6, <3>2, <3>3 DEF Map!Visit, Map!Fields, MapCursor
  <2>7. QED
    BY <2>1, <2>5, <2>6
<1>5. ASSUME NEW key \in Keys, LuaH_newkeyFails(key)
      PROVE  UNCHANGED Map!mvars \/ \E ks \in SUBSET Indices : Map!Forget(ks)
  <2>1. CASE QuietStep
    BY <2>1 DEF QuietStep, SameContents, Map!mvars
  <2>2. ASSUME NEW ks, ForgetStep(ks)
        PROVE  ks \in SUBSET Indices /\ Map!Forget(ks)
    <3>1. MapCursor(cursor) = "off" /\ MapCursor(cursor)' = "off"
      BY <1>0, <2>2 DEF ForgetStep, MapCursor
    <3>2. m' = [k \in NormalKeys |-> IF k \in ks THEN Nil ELSE m[k]]
      BY <2>2 DEF ForgetStep
    <3>3. Map!Forget(ks) <=>
            /\ MapCursor(cursor) = "off"
            /\ m' = [k \in NormalKeys |-> IF k \in ks THEN Nil ELSE m[k]]
            /\ (~shadowed)' = FALSE
            /\ MapCursor(cursor)' = MapCursor(cursor) /\ visited' = visited
      BY DEF Map!Forget, MapCursor
    <3> HIDE DEF m
    <3>4. QED
      BY <3>1, <3>2, <3>3, <2>2 DEF ForgetStep
  <2>3. QED
    BY <1>5, <2>1, <2>2, FailCase
<1>6. ASSUME Abandoned PROVE UNCHANGED Map!mvars
  BY <1>6 DEF Abandoned, vars, Map!mvars
<1>7. QED
  BY <1>1, <1>2, <1>3, <1>4, <1>5, <1>6 DEF Next, Map!MapNext, Indices

(* A table is the map the language promises: an assignment changes one     *)
(* field, whatever it chains, moves or rehashes, and next returns every    *)
(* field once, also when fields are cleared and the collector kills their  *)
(* keys on the way (luaH_set, rehash, luaH_next).  An assignment for which *)
(* there is no memory changes none, except that luaH_resize may throw with *)
(* the array part grown and the nodes not: then the integer fields behind  *)
(* it are lost, no other field, and the theorem says no more of the table. *)
THEOREM TableIsMap == Spec => ImplementsMap
<1>1. Init => Map!MapInit
  BY MapInitStep
<1>2. Inv /\ [Next]_vars => [Map!MapNext]_(Map!mvars)
  <2>1. ASSUME Inv, Next PROVE [Map!MapNext]_(Map!mvars)
    BY <2>1, MapStep
  <2>2. ASSUME UNCHANGED vars PROVE UNCHANGED Map!mvars
    BY <2>2 DEF vars, Map!mvars
  <2>3. QED
    BY <2>1, <2>2
<1>3. QED
  BY <1>1, <1>2, TableInvariance, PTL DEF Spec, ImplementsMap, Map!MapSpec

-----------------------------------------------------------------------------
(* The border that # returns.                                              *)

Halving(s, a, n) ==
  LET b[i \in 0 .. n] == IF i = 0 THEN a ELSE Halve(s, b[i - 1]) IN b

(* The loop of the binary search has the values its equations state.       *)
LEMMA HalvingIterates ==
  ASSUME NEW s, NEW a, NEW n \in Nat
  PROVE  /\ Halving(s, a, n)[0] = a
         /\ \A i \in 0 .. n - 1 : Halving(s, a, n)[i + 1] = Halve(s, Halving(s, a, n)[i])
<1> DEFINE F(x) == Halve(s, x)
           G(g, m) == g = [i \in 0 .. m |-> IF i = 0 THEN a ELSE F(g[i - 1])]
           S == {m \in Nat : \E g : G(g, m)}
           at[i \in 0 .. n] == IF i = 0 THEN a ELSE F(at[i - 1])
<1> HIDE DEF F
<1>1. 0 \in S
  <2>1. G([i \in 0 .. 0 |-> a], 0)
    OBVIOUS
  <2>2. QED
    BY <2>1
<1>2. ASSUME NEW m \in Nat, m \in S PROVE m + 1 \in S
  <2>1. PICK g : G(g, m)
    BY <1>2
  <2> DEFINE h == [i \in 0 .. m + 1 |-> IF i <= m THEN g[i] ELSE F(g[m])]
  <2>2. \A i \in 0 .. m : h[i] = g[i]
    OBVIOUS
  <2>3. \A i \in 0 .. m + 1 : h[i] = IF i = 0 THEN a ELSE F(h[i - 1])
    <3> SUFFICES ASSUME NEW i \in 0 .. m + 1 PROVE h[i] = IF i = 0 THEN a ELSE F(h[i - 1])
      OBVIOUS
    <3>1. CASE i = 0
      BY <2>1, <3>1
    <3>2. CASE i # 0 /\ i <= m
      <4>1. g[i] = F(g[i - 1])
        BY <2>1, <3>2
      <4>2. i - 1 \in 0 .. m
        BY <3>2
      <4>3. QED
        BY <2>2, <3>2, <4>1, <4>2
    <3>3. CASE i = m + 1
      BY <2>2, <3>3
    <3>4. QED
      BY <3>1, <3>2, <3>3
  <2>4. h = [i \in 0 .. m + 1 |-> IF i = 0 THEN a ELSE F(h[i - 1])]
    BY <2>3
  <2>5. G(h, m + 1)
    BY <2>4
  <2>6. \E k : G(k, m + 1)
    <3> HIDE DEF G, h
    <3>1. QED
      BY <2>5
  <2>7. QED
    <3> HIDE DEF G
    <3>1. QED
      BY <2>6
<1>3. n \in S
  <2> HIDE DEF S
  <2>1. QED
    BY <1>1, <1>2, NatSet
<1>4. at = [i \in 0 .. n |-> IF i = 0 THEN a ELSE F(at[i - 1])]
  BY <1>3
<1>5. at[0] = a /\ \A i \in 0 .. n - 1 : at[i + 1] = F(at[i])
  <2> HIDE DEF at
  <2>1. \A i \in 0 .. n : at[i] = IF i = 0 THEN a ELSE F(at[i - 1])
    BY <1>4
  <2>2. 0 \in 0 .. n /\ \A i \in 0 .. n - 1 : i + 1 \in 0 .. n /\ i + 1 # 0 /\ (i + 1) - 1 = i
    OBVIOUS
  <2>3. QED
    BY <2>1, <2>2
<1>6. at = Halving(s, a, n)
  BY DEF Halving, F
<1>7. \A x : F(x) = Halve(s, x)
  BY DEF F
<1> HIDE DEF at
<1>8. QED
  BY ONLY <1>5, <1>6, <1>7

(* n is zero or present and n + 1 is absent.                               *)
Present(s, n) == n = 0 \/ LuaH_getint(s, n) # Nil
Border(s, n) == Present(s, n) /\ LuaH_getint(s, n + 1) = Nil

(* The first of p is present, the second is absent and at most w away.     *)
Bracket(s, p, w) ==
  /\ p = <<p[1], p[2]>> /\ p[1] \in Nat /\ p[2] \in Nat
  /\ p[1] < p[2] /\ (p[2] - p[1] <= w \/ p[2] - p[1] = 1)
  /\ Present(s, p[1]) /\ LuaH_getint(s, p[2]) = Nil

LEMMA HalveFacts ==
  ASSUME NEW s, NEW p, NEW w \in Int, Bracket(s, p, w)
  PROVE  Bracket(s, Halve(s, p), w - 1)
<1> DEFINE m == (p[1] + p[2]) \div 2
<1>1. /\ p = <<p[1], p[2]>> /\ p[1] \in Nat /\ p[2] \in Nat
      /\ p[1] < p[2] /\ (p[2] - p[1] <= w \/ p[2] - p[1] = 1)
      /\ Present(s, p[1]) /\ LuaH_getint(s, p[2]) = Nil
  BY DEF Bracket
<1>2. CASE p[2] - p[1] <= 1
  <2>1. Halve(s, p) = p
    BY <1>1, <1>2 DEF Halve
  <2>2. p[2] - p[1] = 1
    BY <1>1, <1>2
  <2>3. QED
    BY <2>1, <2>2, <1>1 DEF Bracket
<1>3. CASE p[2] - p[1] > 1
  <2>1. m \in Nat /\ p[1] < m /\ m < p[2]
    <3> DEFINE x == p[1]  y == p[2]
    <3>1. x \in Nat /\ y \in Nat /\ y - x > 1
      BY <1>1, <1>3
    <3> HIDE DEF x, y
    <3>2. (x + y) \div 2 \in Nat /\ x < (x + y) \div 2 /\ (x + y) \div 2 < y
      BY <3>1
    <3>3. QED
      BY <3>2 DEF x, y
  <2>2. m - p[1] <= w - 1 /\ p[2] - m <= w - 1
    BY <2>1, <1>1, <1>3
  <2>3. CASE LuaH_getint(s, m) = Nil
    <3>1. Halve(s, p) = <<p[1], m>>
      BY <1>1, <1>3, <2>3 DEF Halve
    <3> HIDE DEF m
    <3>2. <<p[1], m>>[1] = p[1] /\ <<p[1], m>>[2] = m
      OBVIOUS
    <3>3. QED
      BY <3>1, <3>2, <2>1, <2>2, <2>3, <1>1 DEF Bracket
  <2>4. CASE LuaH_getint(s, m) # Nil
    <3>1. Halve(s, p) = <<m, p[2]>>
      BY <1>1, <1>3, <2>4 DEF Halve
    <3> HIDE DEF m
    <3>2. <<m, p[2]>>[1] = m /\ <<m, p[2]>>[2] = p[2]
      OBVIOUS
    <3>3. Present(s, m)
      BY <2>4 DEF Present
    <3>4. QED
      BY <3>1, <3>2, <3>3, <2>1, <2>2, <1>1 DEF Bracket
  <2>5. QED
    BY <2>3, <2>4
<1>4. QED
  BY <1>1, <1>2, <1>3

LEMMA BinSearchFacts ==
  ASSUME NEW s, NEW i \in Nat, NEW j \in Nat, i < j, Present(s, i), LuaH_getint(s, j) = Nil
  PROVE  BinSearch(s, i, j) \in Nat /\ Border(s, BinSearch(s, i, j))
<1> DEFINE n == j - i
           a == <<i, j>>
           b == Halving(s, a, n)
           S == {k \in Nat : k <= n => Bracket(s, b[k], n - k)}
<1>1. n \in Nat /\ n # 0
  OBVIOUS
<1>2. BinSearch(s, i, j) = b[n][1]
  BY DEF BinSearch, Halving
<1>3. Bracket(s, a, n)
  <2>1. a[1] = i /\ a[2] = j
    OBVIOUS
  <2>2. a = <<a[1], a[2]>>
    OBVIOUS
  <2> HIDE DEF a
  <2>3. QED
    BY <2>1, <2>2 DEF Bracket
<1> HIDE DEF a, n
<1>4. b[0] = a /\ \A k \in 0 .. n - 1 : b[k + 1] = Halve(s, b[k])
  BY <1>1, HalvingIterates
<1> HIDE DEF b
<1>5. 0 \in S
  <2>1. n - 0 = n
    BY <1>1
  <2>2. QED
    BY <2>1, <1>3, <1>4
<1>6. ASSUME NEW k \in Nat, k \in S PROVE k + 1 \in S
  <2> SUFFICES ASSUME k + 1 <= n PROVE Bracket(s, b[k + 1], n - (k + 1))
    OBVIOUS
  <2>1. k \in 0 .. n - 1 /\ k <= n
    BY <1>1
  <2>2. Bracket(s, b[k], n - k) /\ b[k + 1] = Halve(s, b[k])
    BY <2>1, <1>4, <1>6
  <2>3. n - k \in Int /\ (n - k) - 1 = n - (k + 1)
    BY <1>1
  <2>4. Bracket(s, Halve(s, b[k]), (n - k) - 1)
    BY <2>2, <2>3, HalveFacts
  <2>5. QED
    BY <2>2, <2>3, <2>4
<1>7. n \in S
  <2> HIDE DEF S
  <2>1. QED
    BY <1>1, <1>5, <1>6, NatSet
<1>8. Bracket(s, b[n], n - n)
  BY <1>1, <1>7
<1> DEFINE p == b[n]
<1>9. /\ p[1] \in Nat /\ p[2] = p[1] + 1
      /\ Present(s, p[1]) /\ LuaH_getint(s, p[2]) = Nil
  BY <1>1, <1>8 DEF Bracket
<1>10. QED
  BY <1>2, <1>9 DEF Border

(* An index that is present is in the array part or in a node of its own.  *)
LEMMA GetIntFacts ==
  ASSUME NEW s, TableInv(s), NEW i \in Nat
  PROVE  /\ i \in 1 .. Sizearray(s) => LuaH_getint(s, i) = s.array[i]
         /\ i \notin 1 .. Sizearray(s) /\ LuaH_getint(s, i) # Nil =>
               \E n \in DOMAIN s.node : KeyAt(s, n) = IntKey(i)
<1> DEFINE ks == {IntKey(i)}
           p == MainPosition(s, IntKey(i))
           X == {m \in DOMAIN s.node : s.node[m].key \in ks}
<1>1. Walk(s, p, ks) = IF Until(s, p, X) \in X THEN Until(s, p, X) ELSE -1
  BY DEF Walk
<1>2. X = {} => Search(s, IntKey(i), {IntKey(i)}) = -1
  BY <1>1 DEF Search
<1>3. X # {} => \E n \in DOMAIN s.node : KeyAt(s, n) = IntKey(i)
  BY DEF KeyAt
<1> HIDE DEF X
<1>4. QED
  BY <1>2, <1>3 DEF LuaH_getint

(* More indices than slots and nodes cannot all be present.                *)
LEMMA SomeAbsent ==
  ASSUME NEW s, TableInv(s)
  PROVE  \E i \in 1 .. Sizearray(s) + Sizenode(s) + 1 : LuaH_getint(s, i) = Nil
<1> DEFINE A == Sizearray(s)
           K == Sizenode(s)
           D == 1 .. A + K + 1
           P == 1 .. A + K
           h == [i \in D |-> IF i <= A THEN i
                             ELSE A + 1 + (CHOOSE n \in DOMAIN s.node : KeyAt(s, n) = IntKey(i))]
<1>1. A \in Nat /\ K \in Nat /\ DOMAIN s.node = 0 .. K - 1
  BY ShapeFacts DEF TableInv
<1> SUFFICES ASSUME \A i \in D : LuaH_getint(s, i) # Nil PROVE FALSE
  OBVIOUS
<1> HIDE DEF A, K
<1>2. ASSUME NEW i \in D, ~(i <= A)
      PROVE  /\ h[i] - A - 1 \in DOMAIN s.node /\ KeyAt(s, h[i] - A - 1) = IntKey(i)
             /\ h[i] \in P /\ ~(h[i] <= A)
  <2> DEFINE n == CHOOSE n \in DOMAIN s.node : KeyAt(s, n) = IntKey(i)
  <2>1. i \in Nat /\ i \notin 1 .. Sizearray(s)
    BY <1>1, <1>2 DEF A
  <2>2. \E m \in DOMAIN s.node : KeyAt(s, m) = IntKey(i)
    BY <2>1, GetIntFacts
  <2>3. n \in DOMAIN s.node /\ KeyAt(s, n) = IntKey(i)
    BY <2>2
  <2>4. h[i] = A + 1 + n
    BY <1>2
  <2> HIDE DEF n, h
  <2>5. n \in 0 .. K - 1 /\ h[i] - A - 1 = n
    BY <2>3, <2>4, <1>1
  <2>6. QED
    BY <2>3, <2>4, <2>5, <1>1
<1>3. ASSUME NEW i \in D, i <= A PROVE h[i] = i /\ h[i] \in P
  BY <1>1, <1>3
<1>4. h \in [D -> P]
  <2>1. \A i \in D : h[i] \in P
    BY <1>2, <1>3
  <2>2. h = [i \in D |-> h[i]]
    OBVIOUS
  <2> HIDE DEF h, P, D
  <2>3. QED
    BY <2>1, <2>2
<1>5. ASSUME NEW i \in D, NEW j \in D, h[i] = h[j] PROVE i = j
  <2>1. CASE i <= A /\ j <= A
    BY <2>1, <1>3, <1>5
  <2>2. CASE ~(i <= A) /\ ~(j <= A)
    <3>1. IntKey(i) = IntKey(j)
      BY <2>2, <1>2, <1>5
    <3>2. QED
      BY <3>1 DEF IntKey
  <2>3. CASE i <= A /\ ~(j <= A)
    BY <2>3, <1>2, <1>3, <1>5
  <2>4. CASE ~(i <= A) /\ j <= A
    BY <2>4, <1>2, <1>3, <1>5
  <2>5. QED
    BY <2>1, <2>2, <2>3, <2>4
<1> HIDE DEF h
<1>6. /\ IsFiniteSet(D) /\ Cardinality(D) = A + K + 1
      /\ IsFiniteSet(P) /\ Cardinality(P) = A + K
  <2>1. 1 \in Int /\ A + K \in Int /\ A + K + 1 \in Int
    BY <1>1
  <2>2. /\ IsFiniteSet(1 .. A + K + 1)
        /\ Cardinality(1 .. A + K + 1) = IF 1 > A + K + 1 THEN 0 ELSE (A + K + 1) - 1 + 1
    BY <2>1, FS_Interval
  <2>3. IsFiniteSet(1 .. A + K) /\ Cardinality(1 .. A + K) = IF 1 > A + K THEN 0 ELSE (A + K) - 1 + 1
    BY <2>1, FS_Interval
  <2>4. QED
    BY <2>2, <2>3, <1>1
<1>7. Cardinality(P) < Cardinality(D)
  BY <1>1, <1>6
<1> HIDE DEF D, P
<1>8. \E x, y \in D : x # y /\ h[x] = h[y]
  BY <1>4, <1>6, <1>7, FS_PigeonHole
<1>9. QED
  BY <1>5, <1>8

LEMMA ProductIncreases ==
  ASSUME NEW x \in Nat, x > 0, NEW y \in Nat, NEW z \in Nat, y < z
  PROVE  x * y \in Nat /\ x * z \in Nat /\ x * y < x * z /\ y <= x * y
OBVIOUS

(* Doubling from the end of the array part, and the search that follows.   *)
LEMMA UnboundFacts ==
  ASSUME NEW s, TableInv(s), NEW j \in Nat, Present(s, j)
  PROVE  Border(s, Unbound_search(s, j))
<1> DEFINE J(m) == (j + 1) * 2^m
           S == {m \in 0 .. MAXINT : LuaH_getint(s, J(m)) = Nil \/ J(m) > MAXINT \div 2}
           n == Min(S)
           absent == {i \in 1 .. Sizearray(s) + Sizenode(s) + 1 : LuaH_getint(s, i) = Nil}
<1>1. Unbound_search(s, j) =
        CASE LuaH_getint(s, J(n)) # Nil -> Min(absent) - 1
          [] LuaH_getint(s, J(n)) = Nil /\ n = 0 -> j
          [] OTHER -> BinSearch(s, J(n - 1), J(n))
  BY DEF Unbound_search
<1>2. MAXINT \in Nat
  BY TableAssumption
<1>3. \A m \in Nat : 2^m \in Nat /\ m < 2^m
  BY PowerBounds
<1>4. \A m \in Nat : J(m) \in Nat /\ 2^m <= J(m)
  <2> SUFFICES ASSUME NEW m \in Nat PROVE J(m) \in Nat /\ 2^m <= J(m)
    OBVIOUS
  <2> DEFINE y == 2^m  x == j + 1
  <2>1. y \in Nat /\ x \in Nat /\ x > 0 /\ y < y + 1 /\ y + 1 \in Nat
    BY <1>3
  <2> HIDE DEF x, y
  <2>2. x * y \in Nat /\ y <= x * y
    BY <2>1, ProductIncreases
  <2>3. QED
    BY <2>2 DEF x, y
<1>5. J(0) = j + 1
  <2>1. 2^0 = 1
    OBVIOUS
  <2>2. QED
    BY <2>1
<1>6. \A m \in Nat : m # 0 => J(m - 1) < J(m)
  <2> SUFFICES ASSUME NEW m \in Nat, m # 0 PROVE J(m - 1) < J(m)
    OBVIOUS
  <2> DEFINE y == 2^(m - 1)  z == 2^m  x == j + 1
  <2>1. m - 1 \in Nat /\ m - 1 < m
    OBVIOUS
  <2>2. y < z
    BY <2>1, PowerIncreases
  <2>3. x \in Nat /\ x > 0 /\ y \in Nat /\ z \in Nat
    BY <2>1, <1>3
  <2> HIDE DEF x, y, z
  <2>4. x * y < x * z
    BY <2>2, <2>3, ProductIncreases
  <2>5. QED
    BY <2>4 DEF x, y, z
<1>7. MAXINT \in S
  <2>1. MAXINT < J(MAXINT)
    BY <1>2, <1>3, <1>4
  <2>2. MAXINT \div 2 <= MAXINT
    BY <1>2
  <2> DEFINE x == J(MAXINT)
  <2>3. x \in Nat /\ MAXINT < x
    BY <2>1, <1>2, <1>4
  <2> HIDE DEF x
  <2>4. x > MAXINT \div 2
    BY <2>2, <2>3, <1>2
  <2>5. MAXINT \in 0 .. MAXINT
    BY <1>2
  <2>6. QED
    BY <2>4, <2>5 DEF x
<1>8. S \in SUBSET Nat
  BY <1>2
<1> HIDE DEF J
<1>9. n \in S /\ \A m \in S : n <= m
  <2> HIDE DEF S
  <2>1. QED
    BY <1>7, <1>8, MinFacts
<1> HIDE DEF n
<1>10. n \in 0 .. MAXINT /\ n \in Nat
  BY <1>2, <1>9
<1>11. n # 0 => LuaH_getint(s, J(n - 1)) # Nil
  <2> SUFFICES ASSUME n # 0, LuaH_getint(s, J(n - 1)) = Nil PROVE FALSE
    OBVIOUS
  <2>1. n - 1 \in 0 .. MAXINT
    BY <1>2, <1>10
  <2>2. n - 1 \in S
    BY <2>1
  <2>3. n <= n - 1
    BY <2>2, <1>9
  <2>4. QED
    BY <2>3, <1>10
<1> HIDE DEF S
<1>12. CASE LuaH_getint(s, J(n)) # Nil
  <2>1. \E i \in 1 .. Sizearray(s) + Sizenode(s) + 1 : LuaH_getint(s, i) = Nil
    BY SomeAbsent
  <2>2. absent # {}
    BY <2>1
  <2>3. Sizearray(s) + Sizenode(s) + 1 \in Nat
    BY ShapeFacts DEF TableInv
  <2>4. absent \in SUBSET Nat
    BY <2>3
  <2> DEFINE a == Min(absent)
  <2>5. a \in absent /\ \A i \in absent : a <= i
    <3> HIDE DEF absent
    <3>1. QED
      BY <2>2, <2>4, MinFacts
  <2>6. Unbound_search(s, j) = a - 1
    BY <1>1, <1>12
  <2> HIDE DEF a
  <2>7. a \in 1 .. Sizearray(s) + Sizenode(s) + 1 /\ LuaH_getint(s, a) = Nil
    BY <2>5
  <2>8. a - 1 = 0 \/ LuaH_getint(s, a - 1) # Nil
    <3> SUFFICES ASSUME a - 1 # 0, LuaH_getint(s, a - 1) = Nil PROVE FALSE
      OBVIOUS
    <3>1. a - 1 \in 1 .. Sizearray(s) + Sizenode(s) + 1
      BY <2>3, <2>7
    <3>2. a - 1 \in absent
      BY <3>1
    <3>3. a <= a - 1
      BY <3>2, <2>5
    <3>4. QED
      BY <3>3, <2>3, <2>7
  <2>9. (a - 1) + 1 = a
    BY <2>3, <2>7
  <2>10. QED
    BY <2>6, <2>7, <2>8, <2>9 DEF Border, Present
<1>13. CASE LuaH_getint(s, J(n)) = Nil /\ n = 0
  <2>1. Unbound_search(s, j) = j
    BY <1>1, <1>13
  <2>2. QED
    BY <2>1, <1>5, <1>13 DEF Border
<1>14. CASE LuaH_getint(s, J(n)) = Nil /\ n # 0
  <2> DEFINE x == J(n - 1)  y == J(n)
  <2>1. Unbound_search(s, j) = BinSearch(s, x, y)
    BY <1>1, <1>14
  <2>2. x \in Nat /\ y \in Nat /\ x < y
    BY <1>4, <1>6, <1>10, <1>14
  <2>3. Present(s, x) /\ LuaH_getint(s, y) = Nil
    BY <1>11, <1>14 DEF Present
  <2> HIDE DEF x, y
  <2>4. Border(s, BinSearch(s, x, y))
    BY <2>2, <2>3, BinSearchFacts
  <2>5. QED
    BY <2>1, <2>4
<1>15. QED
  BY <1>12, <1>13, <1>14

LEMMA GetnFacts ==
  ASSUME NEW s, TableInv(s)
  PROVE  Border(s, LuaH_getn(s))
<1> DEFINE j == Sizearray(s)
<1>1. j \in Nat
  BY ShapeFacts DEF TableInv
<1>2. j > 0 => LuaH_getint(s, j) = s.array[j]
  BY <1>1, GetIntFacts
<1>3. CASE j > 0 /\ s.array[j] = Nil
  <2>1. LuaH_getn(s) = BinSearch(s, 0, j)
    BY <1>3 DEF LuaH_getn
  <2> HIDE DEF j
  <2>2. Present(s, 0) /\ LuaH_getint(s, j) = Nil /\ 0 < j /\ 0 \in Nat
    BY <1>1, <1>2, <1>3 DEF Present
  <2>3. QED
    BY <2>1, <2>2, <1>1, BinSearchFacts
<1>4. CASE ~(j > 0 /\ s.array[j] = Nil)
  <2>1. Present(s, j)
    BY <1>1, <1>2, <1>4 DEF Present
  <2>2. CASE s.dummy
    <3>1. LuaH_getn(s) = j
      BY <1>1, <1>4, <2>2 DEF LuaH_getn
    <3>2. s.node = [n \in 0 .. 0 |-> EmptyNode]
      BY <2>2 DEF TableInv, LastFreeBound
    <3>3. \A n \in DOMAIN s.node : KeyAt(s, n) # IntKey(j + 1)
      BY <3>2 DEF KeyAt, EmptyNode, NilKey, IntKey
    <3>4. LuaH_getint(s, j + 1) = Nil
      <4>1. j + 1 \in Nat /\ j + 1 \notin 1 .. Sizearray(s)
        BY <1>1
      <4> DEFINE i == j + 1
      <4>2. i \in Nat /\ i \notin 1 .. Sizearray(s) /\ \A n \in DOMAIN s.node : KeyAt(s, n) # IntKey(i)
        BY <4>1, <3>3
      <4> HIDE DEF i
      <4>3. LuaH_getint(s, i) = Nil
        BY <4>2, GetIntFacts
      <4>4. QED
        BY <4>3 DEF i
    <3>5. QED
      BY <3>1, <3>4, <2>1 DEF Border
  <2>3. CASE ~s.dummy
    <3>1. LuaH_getn(s) = Unbound_search(s, j)
      BY <1>1, <1>4, <2>3 DEF LuaH_getn
    <3> HIDE DEF j
    <3>2. QED
      BY <3>1, <2>1, <1>1, UnboundFacts
  <2>4. QED
    BY <2>2, <2>3
<1>5. QED
  BY <1>3, <1>4

(* What # returns is a border, whatever holes the table has and wherever   *)
(* the search goes (luaH_getn, unbound_search).                            *)
THEOREM LengthBorder == Spec => []LengthIsBorder
<1>1. Inv => LengthIsBorder
  <2> SUFFICES ASSUME Inv, ~shadowed PROVE LengthIsBorder
    BY DEF LengthIsBorder
  <2>1. Border(t, LuaH_getn(t))
    BY GetnFacts DEF Inv, InvAll, InvOf
  <2>2. QED
    BY <2>1 DEF Border, Present, LengthIsBorder
<1>2. QED
  BY <1>1, TableInvariance, PTL
=============================================================================
