--------------------------- MODULE LuaCalls_proofs ---------------------------
(***************************************************************************)
(* Proofs about LuaCalls: the counters nny and nCcalls and the jump        *)
(* buffers of every thread are those of the calls on the C stack, for any  *)
(* threads, any limits and any nesting of calls, errors, yields, resumes   *)
(* and recoveries.                                                         *)
(*                                                                         *)
(* The invariant says what each frame has saved (FrameAt), in terms of the *)
(* frames below it only, so that it survives whatever happens above, and   *)
(* what the fields of each thread are in terms of all frames.  A lemma     *)
(* states for each way of pushing, popping and cutting the C stack that    *)
(* the invariant is kept; the actions are compositions of them.            *)
(***************************************************************************)
EXTENDS LuaCalls, FiniteSetTheorems, WellFoundedInduction, TLAPS

----------------------------------------------------------------------------
(* The first n frames of a C stack c. *)

(* Those that run under luaD_rawrunprotected for thread t. *)
Raws(c, t, n) == {j \in 1 .. n : c[j].fn = "raw" /\ c[j].L = t}

(* j is the innermost of them, or 0. *)
Innermost(c, t, n, j) ==
    (j = 0 \/ j \in Raws(c, t, n)) /\ \A m \in Raws(c, t, n) : m <= j

(* The activations of t that have begun, its calls that may not yield, and *)
(* the nny they add up to.                                                 *)
Resumes(c, t, n) == {j \in 1 .. n : c[j].fn = "resume" /\ c[j].L = t}
Held(c, t, n) == {j \in 1 .. n : /\ c[j].fn \in {"noyield", "parser"} /\ c[j].L = t
                                 /\ \A m \in Resumes(c, t, n) : m < j}
Nny(c, t, n) == (IF Resumes(c, t, n) = {} THEN 1 ELSE 0) + Cardinality(Held(c, t, n))

(* The calls that count for nCcalls. *)
Calls(c, n) == {j \in 1 .. n : c[j].fn \in {"call", "resume"}}
Nesting(c, n) == Cardinality(Calls(c, n))

(* What a frame is, given those below it: threads alternate by lua_resume, *)
(* a resumed thread runs under a luaD_rawrunprotected of its own, and the  *)
(* saved fields are the ones to restore.                                   *)
FrameAt(c, i) ==
    /\ i = 1 => c[i].fn = "cfun"
    /\ \A k \in 1 .. i - 1 : c[k].L # c[i].L => \E m \in k + 1 .. i : c[m].fn = "resume"
    /\ \A k \in 1 .. i - 1 : c[k].fn = "resume" /\ c[i].fn # "resume" =>
          \E r \in k + 1 .. i : c[r].fn = "raw" /\ c[r].L = c[i].L
    /\ c[i].fn = "raw" => /\ i > 1 /\ c[i - 1].fn \in {"pcall", "resume"}
                          /\ c[i - 1].L = c[i].L
                          /\ Innermost(c, c[i].L, i - 1, c[i].jmp)
                          /\ Nesting(c, i) <= c[i].nC
    /\ c[i].fn \in {"pcall", "resume"} => c[i].nny = Nny(c, c[i].L, i - 1)
    /\ c[i].fn = "resume" => i > 1 /\ c[i - 1].fn = "cfun"

StackOK(c) == \A i \in 1 .. Len(c) : FrameAt(c, i)

----------------------------------------------------------------------------
(* Well-formed states s = [th, cs, panic].  Levels and what Lua code       *)
(* computes are left open.                                                 *)

IsThread(r) ==
    /\ r = [ci |-> r.ci, status |-> r.status, nny |-> r.nny, nC |-> r.nC,
            errfunc |-> r.errfunc, jmp |-> r.jmp, up |-> r.up, big |-> r.big]
    /\ r.nny \in Int /\ r.nC \in Int /\ r.jmp \in Nat

IsFrame(f) ==
    /\ f = [fn |-> f.fn, L |-> f.L, ci |-> f.ci, nny |-> f.nny, nC |-> f.nC,
            err |-> f.err, jmp |-> f.jmp, status |-> f.status]
    /\ f.L \in Threads /\ f.nny \in Int /\ f.nC \in Int /\ f.jmp \in Nat
    /\ f.status \in Statuses

IsSequence(c) == c \in Seq({c[i] : i \in DOMAIN c})

Shaped(s) ==
    /\ s = [th |-> s.th, cs |-> s.cs, panic |-> s.panic]
    /\ s.th = [t \in Threads |-> s.th[t]]
    /\ \A t \in Threads : IsThread(s.th[t])
    /\ IsSequence(s.cs) /\ Len(s.cs) > 0
    /\ \A i \in 1 .. Len(s.cs) : IsFrame(s.cs[i])
    /\ s.panic \in BOOLEAN

TopOf(s) == s.cs[Len(s.cs)]

(* A status other than LUA_OK is on its way down at the top of the C       *)
(* stack, or was left in a lua_resume that has recovered.                  *)
StatusesOK(c) ==
    \A i \in 1 .. Len(c) :
        /\ c[i].status # OK => c[i].fn = "resume" \/ (i = Len(c) /\ c[i].fn \in {"raw", "pcall"})
        /\ c[i].fn = "raw" /\ c[i].status = RESUME_ERROR => c[i - 1].fn = "resume"

JumpsOK(s) == \A t \in Threads : Innermost(s.cs, t, Len(s.cs), s.th[t].jmp)

CountsOK(s) ==
    \A t \in Threads : \/ TopOf(s).L = t /\ TopOf(s).status # OK
                       \/ s.th[t].nny = Nny(s.cs, t, Len(s.cs))

NestingOK(s) == \A i \in 1 .. Len(s.cs) : Nesting(s.cs, i) <= s.th[s.cs[i].L].nC

(* The limit on nCcalls.  It is exceeded by one while an overflow or a     *)
(* refused resume is being reported.                                       *)
Limit == MAXCCALLS + ExtraCalls - 1

Reporting(f) == \/ f.fn = "raw" /\ f.status # OK
                \/ f.fn = "resume" /\ f.status = RESUME_ERROR

ThreadsBounded(s) ==
    \A t \in Threads : s.th[t].nC <= Limit + (IF TopOf(s).L = t /\ Reporting(TopOf(s)) THEN 1 ELSE 0)

SavedBounded(c) ==
    \A i \in 1 .. Len(c) : c[i].fn = "raw" =>
        c[i].nC <= Limit + (IF i = Len(c) /\ c[i].status = RESUME_ERROR THEN 1 ELSE 0)

Sound(s) ==
    /\ Shaped(s) /\ StackOK(s.cs) /\ StatusesOK(s.cs)
    /\ JumpsOK(s) /\ CountsOK(s) /\ NestingOK(s)

Bounded(s) == ThreadsBounded(s) /\ SavedBounded(s.cs)

Good(s) == Sound(s) /\ (s.panic \/ Bounded(s))

(* The inductive invariant. *)
CallsInv == Good(State)
----------------------------------------------------------------------------
(* Counting. *)

(* A set of positions is finite, so that its elements can be counted.      *)
LEMMA Countable ==
  ASSUME NEW n \in Nat, NEW A \in SUBSET (1 .. n)
  PROVE  IsFiniteSet(A) /\ Cardinality(A) \in Nat
  <1>1. IsFiniteSet(1 .. n)
    BY FS_Interval
  <1>2. IsFiniteSet(A)
    BY <1>1, FS_Subset
  <1>3. QED
    BY <1>2, FS_CardinalityType

(* One more position is one more element. *)
LEMMA CountOneMore ==
  ASSUME NEW n \in Nat, NEW A \in SUBSET (1 .. n)
  PROVE  Cardinality(A \cup {n + 1}) = Cardinality(A) + 1
  <1>1. IsFiniteSet(A)
    BY Countable
  <1>2. n + 1 \notin A
    OBVIOUS
  <1>3. QED
    BY <1>1, <1>2, FS_AddElement

(* The counts are numbers. *)
LEMMA NnyType ==
  ASSUME NEW c, NEW t, NEW n \in Nat
  PROVE  Nny(c, t, n) \in Nat
  <1>1. Held(c, t, n) \in SUBSET (1 .. n)
    BY DEF Held
  <1>2. Cardinality(Held(c, t, n)) \in Nat
    BY <1>1, Countable
  <1>3. QED
    BY <1>2 DEF Nny

LEMMA NestingType ==
  ASSUME NEW c, NEW n \in Nat
  PROVE  Nesting(c, n) \in Nat
  <1>1. Calls(c, n) \in SUBSET (1 .. n)
    BY DEF Calls
  <1>2. QED
    BY <1>1, Countable DEF Nesting

(* One more frame: a call or resume counts for nCcalls. *)
LEMMA NestingStep ==
  ASSUME NEW c, NEW n \in Nat
  PROVE  Nesting(c, n + 1) = IF c[n + 1].fn \in {"call", "resume"} THEN Nesting(c, n) + 1
                             ELSE Nesting(c, n)
  <1>1. Calls(c, n) \in SUBSET (1 .. n)
    BY DEF Calls
  <1>2. 1 .. n + 1 = (1 .. n) \cup {n + 1}
    OBVIOUS
  <1>3. CASE c[n + 1].fn \in {"call", "resume"}
    <2>1. Calls(c, n + 1) = Calls(c, n) \cup {n + 1}
      BY <1>2, <1>3 DEF Calls
    <2>2. QED
      BY <1>1, <1>3, <2>1, CountOneMore DEF Nesting
  <1>4. CASE c[n + 1].fn \notin {"call", "resume"}
    <2>1. Calls(c, n + 1) = Calls(c, n)
      BY <1>2, <1>4 DEF Calls
    <2>2. QED
      BY <1>4, <2>1 DEF Nesting
  <1>5. QED
    BY <1>3, <1>4

(* Counts grow with the number of frames. *)
LEMMA NestingMonotone ==
  ASSUME NEW c, NEW n \in Nat, NEW m \in 0 .. n
  PROVE  Nesting(c, m) <= Nesting(c, n)
  <1>1. IsFiniteSet(Calls(c, n))
    <2>1. Calls(c, n) \in SUBSET (1 .. n)
      BY DEF Calls
    <2>2. QED
      BY <2>1, Countable
  <1>2. Calls(c, m) \in SUBSET Calls(c, n)
    BY DEF Calls
  <1>3. QED
    BY <1>1, <1>2, FS_Subset DEF Nesting

(* One more frame: a resume of t begins a new count, a call that may not   *)
(* yield adds to it, and all other frames leave it.                        *)
LEMMA NnyResume ==
  ASSUME NEW c, NEW t, NEW n \in Nat, c[n + 1].fn = "resume", c[n + 1].L = t
  PROVE  Nny(c, t, n + 1) = 0
  <1>1. n + 1 \in Resumes(c, t, n + 1)
    BY DEF Resumes
  <1>2. Held(c, t, n + 1) = {}
    <2>1. ASSUME NEW j \in Held(c, t, n + 1)
          PROVE  FALSE
      <3>1. j \in 1 .. n + 1 /\ n + 1 < j
        BY <1>1, <2>1 DEF Held
      <3>2. QED
        BY <3>1
    <2>2. QED
      BY <2>1
  <1>3. QED
    BY <1>1, <1>2, FS_EmptySet DEF Nny

LEMMA NnyHeld ==
  ASSUME NEW c, NEW t, NEW n \in Nat,
         c[n + 1].fn \in {"noyield", "parser"}, c[n + 1].L = t
  PROVE  Nny(c, t, n + 1) = Nny(c, t, n) + 1
  <1>1. 1 .. n + 1 = (1 .. n) \cup {n + 1}
    OBVIOUS
  <1>2. Resumes(c, t, n + 1) = Resumes(c, t, n)
    BY <1>1 DEF Resumes
  <1>3. \A m \in Resumes(c, t, n) : m < n + 1
    BY DEF Resumes
  <1>4. Held(c, t, n + 1) = Held(c, t, n) \cup {n + 1}
    BY <1>1, <1>2, <1>3 DEF Held
  <1>5. Held(c, t, n) \in SUBSET (1 .. n)
    BY DEF Held
  <1>6. Cardinality(Held(c, t, n)) \in Nat
    BY <1>5, Countable
  <1>7. Cardinality(Held(c, t, n + 1)) = Cardinality(Held(c, t, n)) + 1
    BY <1>4, <1>5, CountOneMore
  <1>8. QED
    BY <1>2, <1>6, <1>7 DEF Nny

LEMMA NnyPlain ==
  ASSUME NEW c, NEW t, NEW n \in Nat,
         c[n + 1].fn \notin {"noyield", "parser", "resume"} \/ c[n + 1].L # t
  PROVE  Nny(c, t, n + 1) = Nny(c, t, n)
  <1>1. 1 .. n + 1 = (1 .. n) \cup {n + 1}
    OBVIOUS
  <1>2. Resumes(c, t, n + 1) = Resumes(c, t, n)
    BY <1>1 DEF Resumes
  <1>3. Held(c, t, n + 1) = Held(c, t, n)
    BY <1>1, <1>2 DEF Held
  <1>4. QED
    BY <1>2, <1>3 DEF Nny

(* Frames of other threads leave the count of t and its innermost          *)
(* luaD_rawrunprotected.                                                   *)
LEMMA OthersFrames ==
  ASSUME NEW c, NEW t, NEW n \in Nat, NEW m \in 0 .. n,
         \A i \in m + 1 .. n : c[i].L # t
  PROVE  /\ Nny(c, t, n) = Nny(c, t, m)
         /\ Raws(c, t, n) = Raws(c, t, m)
  <1>1. 1 .. n = (1 .. m) \cup (m + 1 .. n)
    OBVIOUS
  <1>2. Resumes(c, t, n) = Resumes(c, t, m)
    BY <1>1 DEF Resumes
  <1>3. Held(c, t, n) = Held(c, t, m)
    BY <1>1, <1>2 DEF Held
  <1>4. Raws(c, t, n) = Raws(c, t, m)
    BY <1>1 DEF Raws
  <1>5. QED
    BY <1>2, <1>3, <1>4 DEF Nny

----------------------------------------------------------------------------
(* Two C stacks that agree up to frame n in what the calls below are. *)

Agree(c, d, n) ==
    \A i \in 1 .. n : /\ c[i].fn = d[i].fn /\ c[i].L = d[i].L /\ c[i].nny = d[i].nny
                      /\ c[i].nC = d[i].nC /\ c[i].jmp = d[i].jmp

LEMMA AgreeCounts ==
  ASSUME NEW c, NEW d, NEW n \in Nat, Agree(c, d, n), NEW m \in 0 .. n, NEW t
  PROVE  /\ Raws(c, t, m) = Raws(d, t, m)
         /\ Nny(c, t, m) = Nny(d, t, m)
  <1>1. \A i \in 1 .. m : c[i].fn = d[i].fn /\ c[i].L = d[i].L
    BY DEF Agree
  <1>2. Resumes(c, t, m) = Resumes(d, t, m)
    BY <1>1 DEF Resumes
  <1>3. Held(c, t, m) = Held(d, t, m)
    BY <1>1, <1>2 DEF Held
  <1>4. Raws(c, t, m) = Raws(d, t, m)
    BY <1>1 DEF Raws
  <1>5. QED
    BY <1>2, <1>3, <1>4 DEF Nny

LEMMA AgreeNesting ==
  ASSUME NEW c, NEW d, NEW n \in Nat, Agree(c, d, n), NEW m \in 0 .. n
  PROVE  Nesting(c, m) = Nesting(d, m)
  <1>1. Calls(c, m) = Calls(d, m)
    BY DEF Agree, Calls
  <1>2. QED
    BY <1>1 DEF Nesting

LEMMA AgreeFrame ==
  ASSUME NEW c, NEW d, NEW n \in Nat, Agree(c, d, n), NEW i \in 1 .. n, FrameAt(c, i)
  PROVE  FrameAt(d, i)
  <1>1. \A j \in 1 .. i : /\ c[j].fn = d[j].fn /\ c[j].L = d[j].L /\ c[j].nny = d[j].nny
                         /\ c[j].nC = d[j].nC /\ c[j].jmp = d[j].jmp
    BY DEF Agree
  <1>2. Nny(c, c[i].L, i - 1) = Nny(d, d[i].L, i - 1) /\ Nesting(c, i) = Nesting(d, i)
    BY <1>1, AgreeCounts, AgreeNesting
  <1>3. Innermost(c, c[i].L, i - 1, c[i].jmp) => Innermost(d, d[i].L, i - 1, d[i].jmp)
    BY <1>1, AgreeCounts DEF Innermost
  <1>4. i \in 1 .. i /\ (i > 1 => i - 1 \in 1 .. i)
    OBVIOUS
  <1>5. \A k \in 1 .. i - 1 : d[k].L # d[i].L => \E m \in k + 1 .. i : d[m].fn = "resume"
    BY <1>1 DEF FrameAt
  <1>6. \A k \in 1 .. i - 1 : d[k].fn = "resume" /\ d[i].fn # "resume" =>
          \E r \in k + 1 .. i : d[r].fn = "raw" /\ d[r].L = d[i].L
    BY <1>1 DEF FrameAt
  <1>7. QED
    BY <1>1, <1>2, <1>3, <1>4, <1>5, <1>6 DEF FrameAt

----------------------------------------------------------------------------
(* Sequences and states. *)

(* Pushing, cutting and changing one element. *)
LEMMA Appended ==
  ASSUME NEW c, IsSequence(c), NEW f
  PROVE  /\ IsSequence(Append(c, f)) /\ Len(Append(c, f)) = Len(c) + 1
         /\ Append(c, f)[Len(c) + 1] = f
         /\ \A i \in 1 .. Len(c) : Append(c, f)[i] = c[i]
  <1> DEFINE S == {c[i] : i \in DOMAIN c}
             d == Append(c, f)
  <1>1. c \in Seq(S \cup {f}) /\ f \in S \cup {f}
    BY DEF IsSequence
  <1> HIDE DEF S
  <1>2. d \in Seq(S \cup {f}) /\ Len(d) = Len(c) + 1 /\ d[Len(c) + 1] = f
        /\ \A i \in 1 .. Len(c) : d[i] = c[i]
    BY <1>1
  <1> HIDE DEF d
  <1>3. d \in Seq({d[i] : i \in DOMAIN d})
    BY <1>2
  <1>4. QED
    BY <1>2, <1>3 DEF IsSequence, d

LEMMA CutOff ==
  ASSUME NEW c, IsSequence(c), NEW j \in 1 .. Len(c)
  PROVE  /\ IsSequence(SubSeq(c, 1, j)) /\ Len(SubSeq(c, 1, j)) = j
         /\ \A i \in 1 .. j : SubSeq(c, 1, j)[i] = c[i]
  <1> DEFINE S == {c[i] : i \in DOMAIN c}
             d == SubSeq(c, 1, j)
  <1>1. c \in Seq(S)
    BY DEF IsSequence
  <1> HIDE DEF S
  <1>2. d \in Seq(S) /\ Len(d) = j /\ \A i \in 1 .. j : d[i] = c[i]
    BY <1>1
  <1> HIDE DEF d
  <1>3. d \in Seq({d[i] : i \in DOMAIN d})
    BY <1>2
  <1>4. QED
    BY <1>2, <1>3 DEF IsSequence, d

LEMMA Altered ==
  ASSUME NEW c, IsSequence(c), NEW j \in 1 .. Len(c), NEW v
  PROVE  /\ IsSequence([c EXCEPT ![j] = v]) /\ Len([c EXCEPT ![j] = v]) = Len(c)
         /\ [c EXCEPT ![j] = v][j] = v
         /\ \A i \in 1 .. Len(c) : i # j => [c EXCEPT ![j] = v][i] = c[i]
  <1> DEFINE S == {c[i] : i \in DOMAIN c}
             d == [c EXCEPT ![j] = v]
  <1>1. c \in Seq(S \cup {v}) /\ v \in S \cup {v}
    BY DEF IsSequence
  <1> HIDE DEF S
  <1>2. d \in Seq(S \cup {v}) /\ Len(d) = Len(c) /\ d[j] = v
        /\ \A i \in 1 .. Len(c) : i # j => d[i] = c[i]
    BY <1>1
  <1> HIDE DEF d
  <1>3. d \in Seq({d[i] : i \in DOMAIN d})
    BY <1>2
  <1>4. QED
    BY <1>2, <1>3 DEF IsSequence, d

(* A frame that has been given a status. *)
LEMMA Marked ==
  ASSUME NEW f, IsFrame(f), NEW v \in Statuses
  PROVE  LET g == [f EXCEPT !.status = v]
         IN  /\ IsFrame(g) /\ g.status = v /\ g.fn = f.fn /\ g.L = f.L
             /\ g.nny = f.nny /\ g.nC = f.nC /\ g.jmp = f.jmp
  BY DEF IsFrame

(* The types that arithmetic needs. *)
LEMMA Types ==
  ASSUME NEW s, Shaped(s)
  PROVE  /\ Len(s.cs) \in Nat \ {0}
         /\ IsFrame(TopOf(s)) /\ TopOf(s).L \in Threads
         /\ \A t \in Threads : IsThread(s.th[t]) /\ s.th[t].nny \in Int
                             /\ s.th[t].nC \in Int /\ s.th[t].jmp \in Nat
         /\ \A i \in 1 .. Len(s.cs) : s.cs[i].L \in Threads /\ s.cs[i].nC \in Int
                                     /\ s.cs[i].nny \in Int /\ s.cs[i].jmp \in Nat
  <1>1. Len(s.cs) \in Nat \ {0}
    BY DEF Shaped, IsSequence
  <1>2. \A i \in 1 .. Len(s.cs) : IsFrame(s.cs[i])
    BY DEF Shaped
  <1>3. \A i \in 1 .. Len(s.cs) : s.cs[i].L \in Threads /\ s.cs[i].nC \in Int
                                  /\ s.cs[i].nny \in Int /\ s.cs[i].jmp \in Nat
    BY <1>2 DEF IsFrame
  <1>4. \A t \in Threads : IsThread(s.th[t])
    BY DEF Shaped
  <1>5. \A t \in Threads : s.th[t].nny \in Int /\ s.th[t].nC \in Int /\ s.th[t].jmp \in Nat
    BY <1>4 DEF IsThread
  <1>6. IsFrame(TopOf(s)) /\ TopOf(s).L \in Threads
    BY <1>1, <1>2, <1>3 DEF TopOf
  <1>7. QED
    BY <1>1, <1>3, <1>4, <1>5, <1>6

LEMMA LimitType == Limit \in Int /\ MAXCCALLS <= Limit
  BY CallsAssumption DEF Limit

(* New fields of thread L. *)
With(s, L, r) == [s EXCEPT !.th[L] = r]

LEMMA WithShaped ==
  ASSUME NEW s, Shaped(s), NEW L \in Threads, NEW r, IsThread(r)
  PROVE  /\ Shaped(With(s, L, r)) /\ With(s, L, r).th[L] = r
         /\ \A t \in Threads : t # L => With(s, L, r).th[t] = s.th[t]
         /\ With(s, L, r).cs = s.cs /\ With(s, L, r).panic = s.panic
  <1>1. /\ s = [th |-> s.th, cs |-> s.cs, panic |-> s.panic]
        /\ s.th = [t \in Threads |-> s.th[t]]
    BY DEF Shaped
  <1>2. With(s, L, r) = [th |-> [s.th EXCEPT ![L] = r], cs |-> s.cs, panic |-> s.panic]
    BY <1>1 DEF With
  <1>3. /\ [s.th EXCEPT ![L] = r][L] = r
        /\ \A t \in Threads : t # L => [s.th EXCEPT ![L] = r][t] = s.th[t]
        /\ [s.th EXCEPT ![L] = r] = [t \in Threads |-> [s.th EXCEPT ![L] = r][t]]
    BY <1>1
  <1> DEFINE th2 == [s.th EXCEPT ![L] = r]
  <1> HIDE DEF th2
  <1>4. QED
    BY <1>2, <1>3 DEF Shaped, th2

LEMMA PushShaped ==
  ASSUME NEW s, Shaped(s), NEW f, IsFrame(f)
  PROVE  /\ Shaped(Push(s, f)) /\ Len(Push(s, f).cs) = Len(s.cs) + 1
         /\ TopOf(Push(s, f)) = f /\ Push(s, f).cs[Len(s.cs) + 1] = f
         /\ \A i \in 1 .. Len(s.cs) : Push(s, f).cs[i] = s.cs[i]
         /\ Push(s, f).th = s.th /\ Push(s, f).panic = s.panic
  <1>1. s = [th |-> s.th, cs |-> s.cs, panic |-> s.panic]
    BY DEF Shaped
  <1> DEFINE d == Append(s.cs, f)
  <1>2. Push(s, f) = [th |-> s.th, cs |-> d, panic |-> s.panic]
    BY <1>1 DEF Push
  <1>3. /\ IsSequence(d) /\ Len(d) = Len(s.cs) + 1 /\ d[Len(s.cs) + 1] = f
        /\ \A i \in 1 .. Len(s.cs) : d[i] = s.cs[i]
    BY Appended DEF Shaped
  <1>4. Len(s.cs) \in Nat /\ Len(s.cs) > 0
    BY DEF Shaped, IsSequence
  <1> HIDE DEF d
  <1>5. \A i \in 1 .. Len(d) : IsFrame(d[i])
    BY <1>3, <1>4 DEF Shaped
  <1>6. QED
    BY <1>2, <1>3, <1>4, <1>5 DEF Shaped, TopOf

LEMMA PopShaped ==
  ASSUME NEW s, Shaped(s), Len(s.cs) > 1
  PROVE  /\ Shaped(Pop(s)) /\ Len(Pop(s).cs) = Len(s.cs) - 1
         /\ \A i \in 1 .. Len(s.cs) - 1 : Pop(s).cs[i] = s.cs[i]
         /\ TopOf(Pop(s)) = s.cs[Len(s.cs) - 1]
         /\ Pop(s).th = s.th /\ Pop(s).panic = s.panic
  <1>1. s = [th |-> s.th, cs |-> s.cs, panic |-> s.panic]
    BY DEF Shaped
  <1> DEFINE d == SubSeq(s.cs, 1, Len(s.cs) - 1)
  <1>2. Pop(s) = [th |-> s.th, cs |-> d, panic |-> s.panic]
    BY <1>1 DEF Pop
  <1>3. Len(s.cs) \in Nat /\ Len(s.cs) - 1 \in 1 .. Len(s.cs)
    BY DEF Shaped, IsSequence
  <1>4. /\ IsSequence(d) /\ Len(d) = Len(s.cs) - 1
        /\ \A i \in 1 .. Len(s.cs) - 1 : d[i] = s.cs[i]
    BY <1>3, CutOff DEF Shaped
  <1> HIDE DEF d
  <1>5. \A i \in 1 .. Len(d) : IsFrame(d[i])
    BY <1>3, <1>4 DEF Shaped
  <1>6. QED
    BY <1>2, <1>3, <1>4, <1>5 DEF Shaped, TopOf

Mark(s, j, v) == [s EXCEPT !.cs[j].status = v]

LEMMA MarkShaped ==
  ASSUME NEW s, Shaped(s), NEW j \in 1 .. Len(s.cs), NEW v \in Statuses
  PROVE  /\ Shaped(Mark(s, j, v)) /\ Len(Mark(s, j, v).cs) = Len(s.cs)
         /\ Mark(s, j, v).cs[j].status = v
         /\ \A i \in 1 .. Len(s.cs) : i # j => Mark(s, j, v).cs[i] = s.cs[i]
         /\ Agree(s.cs, Mark(s, j, v).cs, Len(s.cs))
         /\ Mark(s, j, v).th = s.th /\ Mark(s, j, v).panic = s.panic
  <1>1. s = [th |-> s.th, cs |-> s.cs, panic |-> s.panic]
    BY DEF Shaped
  <1> DEFINE g == [s.cs[j] EXCEPT !.status = v]
             d == [s.cs EXCEPT ![j] = g]
  <1>2. Mark(s, j, v) = [th |-> s.th, cs |-> d, panic |-> s.panic]
    <2>1. Mark(s, j, v) = [s EXCEPT !.cs = d]
      BY DEF Mark
    <2> HIDE DEF d
    <2>2. QED
      BY <1>1, <2>1
  <1>3. /\ IsFrame(g) /\ g.status = v /\ g.fn = s.cs[j].fn /\ g.L = s.cs[j].L
        /\ g.nny = s.cs[j].nny /\ g.nC = s.cs[j].nC /\ g.jmp = s.cs[j].jmp
    BY Marked DEF Shaped
  <1> HIDE DEF g
  <1>4. /\ IsSequence(d) /\ Len(d) = Len(s.cs) /\ d[j] = g
        /\ \A i \in 1 .. Len(s.cs) : i # j => d[i] = s.cs[i]
    BY Altered DEF Shaped
  <1> HIDE DEF d
  <1>5. \A i \in 1 .. Len(d) : IsFrame(d[i])
    BY <1>3, <1>4 DEF Shaped
  <1>6. Agree(s.cs, d, Len(s.cs))
    BY <1>3, <1>4 DEF Agree
  <1>7. QED
    BY <1>2, <1>3, <1>4, <1>5, <1>6 DEF Shaped

----------------------------------------------------------------------------
(* Fields that no count depends on. *)

(* The innermost frame belongs to L, which goes on running. *)
Active(s, L) ==
    /\ Good(s) /\ ~s.panic
    /\ TopOf(s).L = L /\ TopOf(s).status = OK /\ TopOf(s).fn # "resume"

SameCounts(r, q) == r.nny = q.nny /\ r.nC = q.nC /\ r.jmp = q.jmp

LEMMA Inessential ==
  ASSUME NEW s, Good(s), NEW L \in Threads, NEW r, IsThread(r), SameCounts(r, s.th[L])
  PROVE  /\ Good(With(s, L, r))
         /\ With(s, L, r).cs = s.cs /\ With(s, L, r).panic = s.panic
         /\ \A t \in Threads : SameCounts(With(s, L, r).th[t], s.th[t])
         /\ \A t : Active(s, t) => Active(With(s, L, r), t)
  <1> DEFINE w == With(s, L, r)
  <1>1. /\ Shaped(w) /\ w.th[L] = r /\ \A t \in Threads : t # L => w.th[t] = s.th[t]
        /\ w.cs = s.cs /\ w.panic = s.panic
    BY WithShaped DEF Good, Sound
  <1> HIDE DEF w
  <1>2. \A t \in Threads : w.th[t].nny = s.th[t].nny /\ w.th[t].nC = s.th[t].nC
                           /\ w.th[t].jmp = s.th[t].jmp
    BY <1>1 DEF SameCounts
  <1>3. \A i \in 1 .. Len(s.cs) : s.cs[i].L \in Threads
    BY DEF Good, Sound, Shaped, IsFrame
  <1>4. TopOf(w) = TopOf(s)
    BY <1>1 DEF TopOf
  <1>5. Sound(w)
    BY <1>1, <1>2, <1>3, <1>4 DEF Good, Sound, JumpsOK, CountsOK, NestingOK
  <1>6. w.panic \/ Bounded(w)
    BY <1>1, <1>2, <1>4 DEF Good, Bounded, ThreadsBounded
  <1>7. Good(w) /\ w.cs = s.cs /\ w.panic = s.panic
        /\ \A t \in Threads : SameCounts(w.th[t], s.th[t])
    BY <1>1, <1>2, <1>5, <1>6 DEF Good, SameCounts
  <1>8. QED
    BY <1>4, <1>7 DEF Active, w

----------------------------------------------------------------------------
(* The C stack grows. *)

(* The invariant of the C stack needs to be checked for a new frame only.  *)
LEMMA StackGrows ==
  ASSUME NEW c, NEW d, Len(c) \in Nat, StackOK(c), Agree(c, d, Len(c)),
         Len(d) = Len(c) + 1, FrameAt(d, Len(c) + 1)
  PROVE  StackOK(d)
  <1>1. \A i \in 1 .. Len(c) : FrameAt(d, i)
    BY AgreeFrame DEF StackOK
  <1>2. QED
    BY <1>1 DEF StackOK

LEMMA StackShrinks ==
  ASSUME NEW c, NEW d, Len(c) \in Nat, StackOK(c), Len(d) \in 0 .. Len(c), Agree(c, d, Len(d))
  PROVE  StackOK(d)
  <1>1. \A i \in 1 .. Len(d) : FrameAt(c, i)
    BY DEF StackOK
  <1>2. \A i \in 1 .. Len(d) : FrameAt(d, i)
    BY <1>1, AgreeFrame
  <1>3. QED
    BY <1>2 DEF StackOK

(* A new frame has no status yet. *)
LEMMA StatusesGrow ==
  ASSUME NEW d, NEW n \in Nat, Len(d) = n + 1, d[n + 1].status = OK,
         \A i \in 1 .. n : d[i].status # OK => d[i].fn = "resume"
  PROVE  StatusesOK(d)
  <1>1. \A i \in 1 .. n + 1 : d[i].status # OK => d[i].fn = "resume"
    OBVIOUS
  <1>2. OK # RESUME_ERROR
    BY DEF OK, RESUME_ERROR
  <1>3. QED
    BY <1>1, <1>2 DEF StatusesOK

(* A frame of the running thread on top of one that is no lua_resume. *)
LEMMA FrameFits ==
  ASSUME NEW d, NEW n \in Nat \ {0}, FrameAt(d, n),
         d[n].fn # "resume", d[n + 1].L = d[n].L, d[n + 1].fn \notin {"raw", "resume"},
         d[n + 1].fn = "pcall" => d[n + 1].nny = Nny(d, d[n + 1].L, n)
  PROVE  FrameAt(d, n + 1)
  <1>1. ASSUME NEW k \in 1 .. n, d[k].L # d[n + 1].L
        PROVE  \E m \in k + 1 .. n + 1 : d[m].fn = "resume"
    <2>1. k \in 1 .. n - 1
      BY <1>1
    <2>2. PICK m \in k + 1 .. n : d[m].fn = "resume"
      BY <1>1, <2>1 DEF FrameAt
    <2>3. QED
      BY <2>2
  <1>2. ASSUME NEW k \in 1 .. n, d[k].fn = "resume"
        PROVE  \E r \in k + 1 .. n + 1 : d[r].fn = "raw" /\ d[r].L = d[n + 1].L
    <2>1. k \in 1 .. n - 1
      BY <1>2
    <2>2. PICK m \in k + 1 .. n : d[m].fn = "raw" /\ d[m].L = d[n].L
      BY <1>2, <2>1 DEF FrameAt
    <2>3. QED
      BY <2>2
  <1>3. (n + 1) - 1 = n /\ n + 1 # 1
    OBVIOUS
  <1>4. QED
    BY <1>1, <1>2, <1>3 DEF FrameAt

(* Every frame but those of luaD_rawrunprotected and lua_resume.           *)
LEMMA PushFrame ==
  ASSUME NEW s, NEW L, Active(s, L),
         NEW f, IsFrame(f), f.L = L, f.status = OK, f.fn \notin {"raw", "resume"},
         NEW r, IsThread(r), r.jmp = s.th[L].jmp,
         r.nny = s.th[L].nny + (IF f.fn \in {"noyield", "parser"} THEN 1 ELSE 0),
         r.nC = s.th[L].nC + (IF f.fn = "call" THEN 1 ELSE 0),
         r.nC <= Limit,
         f.fn = "pcall" => f.nny = s.th[L].nny
  PROVE  Active(Push(With(s, L, r), f), L)
  <1> DEFINE n == Len(s.cs)
             u == Push(With(s, L, r), f)
             d == u.cs
  <1>1. Shaped(s) /\ n \in Nat \ {0} /\ L \in Threads /\ IsThread(s.th[L])
    BY DEF Active, Good, Sound, Shaped, IsSequence, IsFrame
  <1>2. /\ Shaped(With(s, L, r)) /\ With(s, L, r).th[L] = r
        /\ \A t \in Threads : t # L => With(s, L, r).th[t] = s.th[t]
        /\ With(s, L, r).cs = s.cs /\ With(s, L, r).panic = s.panic
    BY <1>1, WithShaped
  <1>3. /\ Shaped(u) /\ u.th[L] = r /\ ~u.panic /\ Len(d) = n + 1 /\ TopOf(u) = f /\ d[n + 1] = f
        /\ \A t \in Threads : t # L => u.th[t] = s.th[t]
        /\ \A i \in 1 .. n : d[i] = s.cs[i]
    BY <1>2, PushShaped DEF Active
  <1> HIDE DEF u
  <1>4. Agree(s.cs, d, n)
    BY <1>3 DEF Agree
  <1>5. /\ StackOK(s.cs) /\ StatusesOK(s.cs) /\ JumpsOK(s) /\ CountsOK(s) /\ NestingOK(s)
        /\ ThreadsBounded(s) /\ SavedBounded(s.cs)
        /\ s.cs[n].L = L /\ s.cs[n].status = OK /\ s.cs[n].fn # "resume" /\ TopOf(s) = s.cs[n]
    BY DEF Active, Good, Sound, Bounded, TopOf
  <1>6. \A t \in Threads : Nny(d, t, n) = Nny(s.cs, t, n) /\ Nny(d, t, n) \in Nat
    BY <1>1, <1>4, AgreeCounts, NnyType
  <1>7. \A i \in 1 .. n : Nesting(d, i) = Nesting(s.cs, i)
    BY <1>1, <1>4, AgreeNesting
  <1>8. \A t \in Threads : s.th[t].nny = Nny(d, t, n)
    BY <1>5, <1>6 DEF CountsOK
  <1>9. StackOK(d)
    <2>1. FrameAt(s.cs, n)
      BY <1>1, <1>5 DEF StackOK
    <2>2. FrameAt(d, n)
      BY <1>1, <1>4, <2>1, AgreeFrame
    <2>3. d[n].L = L /\ d[n].fn # "resume"
      BY <1>1, <1>3, <1>5
    <2>4. FrameAt(d, n + 1)
      BY <1>1, <1>3, <1>8, <2>2, <2>3, FrameFits
    <2>5. QED
      BY <1>1, <1>3, <1>4, <1>5, <2>4, StackGrows
  <1>10. StatusesOK(d)
    <2>1. ASSUME NEW i \in 1 .. n
          PROVE  d[i].status # OK => d[i].fn = "resume"
      BY <1>1, <1>3, <1>5 DEF StatusesOK
    <2>2. d[n + 1].status = OK
      BY <1>3
    <2>3. OK # RESUME_ERROR
      BY DEF OK, RESUME_ERROR
    <2>4. QED
      BY <1>1, <1>3, <2>1, <2>2, <2>3 DEF StatusesOK
  <1>11. JumpsOK(u)
    <2>1. \A t \in Threads : Raws(d, t, n) = Raws(s.cs, t, n)
      BY <1>1, <1>4, AgreeCounts
    <2>2. \A t \in Threads : Raws(d, t, n + 1) = Raws(d, t, n)
      BY <1>1, <1>3 DEF Raws
    <2>3. \A t \in Threads : u.th[t].jmp = s.th[t].jmp
      BY <1>3
    <2>4. QED
      BY <1>3, <1>5, <2>1, <2>2, <2>3 DEF JumpsOK, Innermost
  <1>12. CountsOK(u)
    <2>1. ASSUME NEW t \in Threads
          PROVE  u.th[t].nny = Nny(d, t, n + 1)
      <3>1. CASE t = L /\ f.fn \in {"noyield", "parser"}
        <4>1. Nny(d, L, n + 1) = Nny(d, L, n) + 1
          <5>1. n \in Nat /\ d[n + 1].fn \in {"noyield", "parser"} /\ d[n + 1].L = L
            BY <1>1, <1>3, <3>1
          <5>2. QED
            BY <5>1, NnyHeld
        <4>2. r.nny = Nny(d, L, n) + 1
          BY <1>1, <1>8, <3>1
        <4>3. QED
          BY <1>3, <3>1, <4>1, <4>2
      <3>2. CASE ~(t = L /\ f.fn \in {"noyield", "parser"})
        <4>1. Nny(d, t, n + 1) = Nny(d, t, n)
          BY <1>1, <1>3, <3>2, NnyPlain
        <4>2. s.th[t].nny \in Int
          BY <1>1 DEF Shaped, IsThread
        <4>3. u.th[t].nny = s.th[t].nny
          BY <1>3, <3>2, <4>2
        <4>4. QED
          BY <1>8, <4>1, <4>3
      <3>3. QED
        BY <3>1, <3>2
    <2>2. QED
      BY <1>3, <2>1 DEF CountsOK
  <1>13. NestingOK(u)
    <2>1. Nesting(d, n) <= s.th[L].nC /\ s.th[L].nC \in Int /\ Nesting(d, n) \in Nat
      BY <1>1, <1>5, <1>7, NestingType DEF NestingOK, IsThread
    <2>2. Nesting(d, n + 1) <= r.nC
      BY <1>1, <1>3, <2>1, NestingStep
    <2>3. ASSUME NEW i \in 1 .. n
          PROVE  Nesting(d, i) <= u.th[d[i].L].nC
      <3>1. Nesting(d, i) <= s.th[s.cs[i].L].nC /\ Nesting(d, i) \in Nat
        BY <1>5, <1>7, NestingType DEF NestingOK
      <3>2. s.cs[i].L \in Threads /\ d[i] = s.cs[i]
        BY <1>1, <1>3 DEF Shaped, IsFrame
      <3>3. \A t \in Threads : s.th[t].nC \in Int /\ u.th[t].nC \in Int
        BY <1>1, <1>3 DEF Shaped, IsThread
      <3>4. \A t \in Threads : s.th[t].nC <= u.th[t].nC
        BY <1>1, <1>3, <3>3
      <3> DEFINE t == s.cs[i].L
                 k == Nesting(d, i)
                 old == s.th[t].nC
                 new == u.th[t].nC
      <3>5. k \in Nat /\ k <= old /\ old \in Int /\ new \in Int /\ old <= new
        BY <3>1, <3>2, <3>3, <3>4
      <3>6. d[i].L = t
        BY <3>2
      <3> HIDE DEF k, old
      <3>7. k <= new
        BY <3>5
      <3>8. QED
        BY <3>6, <3>7 DEF k
    <2>4. QED
      BY <1>1, <1>3, <2>2, <2>3 DEF NestingOK
  <1>14. Bounded(u)
    <2>1. \A t \in Threads : s.th[t].nC <= Limit
      <3>1. ~Reporting(TopOf(s)) /\ Limit \in Int
        BY <1>5, CallsAssumption DEF Reporting, Limit
      <3>2. \A t \in Threads : s.th[t].nC \in Int
        BY <1>1 DEF Shaped, IsThread
      <3>3. QED
        BY <1>5, <3>1, <3>2 DEF ThreadsBounded
    <2>2. \A t \in Threads : u.th[t].nC <= Limit
      BY <1>3, <2>1
    <2>3. \A t \in Threads : u.th[t].nC \in Int
      BY <1>3 DEF Shaped, IsThread
    <2>4. Limit \in Int
      BY CallsAssumption DEF Limit
    <2>5. ThreadsBounded(u)
      BY <2>2, <2>3, <2>4 DEF ThreadsBounded
    <2>6. ASSUME NEW i \in 1 .. Len(d), d[i].fn = "raw"
          PROVE  d[i].nC <= Limit
      <3>1. i \in 1 .. n /\ d[i] = s.cs[i]
        BY <1>1, <1>3, <2>6
      <3>2. d[i].nC \in Int
        BY <1>1, <3>1 DEF Shaped, IsFrame
      <3>3. ~(i = n /\ s.cs[i].status = RESUME_ERROR)
        BY <1>5 DEF OK, RESUME_ERROR
      <3>4. QED
        BY <1>5, <2>4, <2>6, <3>1, <3>2, <3>3 DEF SavedBounded
    <2>7. \A i \in 1 .. Len(d) : d[i].nC \in Int
      BY <1>3 DEF Shaped, IsFrame
    <2>8. SavedBounded(d)
      BY <2>4, <2>6, <2>7 DEF SavedBounded
    <2>9. QED
      BY <2>5, <2>8 DEF Bounded
  <1>15. Sound(u)
    BY <1>3, <1>9, <1>10, <1>11, <1>12, <1>13 DEF Sound
  <1>16. Active(u, L)
    BY <1>3, <1>14, <1>15 DEF Active, Good
  <1>17. QED
    BY <1>16 DEF u

----------------------------------------------------------------------------
(* Errors and yields: the C stack is cut. *)

LEMMA CutShaped ==
  ASSUME NEW s, Shaped(s), NEW j \in 1 .. Len(s.cs)
  PROVE  LET m == [s EXCEPT !.cs = SubSeq(@, 1, j)]
         IN  /\ Shaped(m) /\ Len(m.cs) = j /\ \A i \in 1 .. j : m.cs[i] = s.cs[i]
             /\ m.th = s.th /\ m.panic = s.panic
  <1>1. s = [th |-> s.th, cs |-> s.cs, panic |-> s.panic]
    BY DEF Shaped
  <1> DEFINE d == SubSeq(s.cs, 1, j)
  <1>2. [s EXCEPT !.cs = SubSeq(@, 1, j)] = [th |-> s.th, cs |-> d, panic |-> s.panic]
    <2>1. [s EXCEPT !.cs = SubSeq(@, 1, j)] = [s EXCEPT !.cs = d]
      OBVIOUS
    <2> HIDE DEF d
    <2>2. QED
      BY <1>1, <2>1
  <1>3. IsSequence(d) /\ Len(d) = j /\ \A i \in 1 .. j : d[i] = s.cs[i]
    BY CutOff DEF Shaped
  <1> HIDE DEF d
  <1>4. \A i \in 1 .. Len(d) : IsFrame(d[i])
    BY <1>3 DEF Shaped
  <1> DEFINE m == [s EXCEPT !.cs = SubSeq(@, 1, j)]
  <1>5. m = [th |-> s.th, cs |-> d, panic |-> s.panic]
    BY <1>2
  <1> HIDE DEF m
  <1>6. Shaped(m)
    BY <1>3, <1>4, <1>5 DEF Shaped
  <1>7. Shaped(m) /\ Len(m.cs) = j /\ (\A i \in 1 .. j : m.cs[i] = s.cs[i])
        /\ m.th = s.th /\ m.panic = s.panic
    BY <1>3, <1>5, <1>6
  <1>8. QED
    BY <1>7 DEF m

(* All frames above the one a thread jumps to are its own: a coroutine it  *)
(* had resumed runs under a luaD_rawrunprotected of its own and is over.   *)
LEMMA OwnFramesAbove ==
  ASSUME NEW c, NEW n \in Nat \ {0}, FrameAt(c, n), c[n].fn # "resume",
         NEW j \in 1 .. n, Innermost(c, c[n].L, n, j)
  PROVE  \A i \in j + 1 .. n : c[i].L = c[n].L
  <1>1. ASSUME NEW i \in j + 1 .. n, c[i].L # c[n].L
        PROVE  FALSE
    <2>1. i \in 1 .. n - 1
      BY <1>1
    <2>2. PICK m \in i + 1 .. n : c[m].fn = "resume"
      BY <1>1, <2>1 DEF FrameAt
    <2>3. m \in 1 .. n - 1
      BY <2>2
    <2>4. PICK r \in m + 1 .. n : c[r].fn = "raw" /\ c[r].L = c[n].L
      BY <2>2, <2>3 DEF FrameAt
    <2>5. r \in Raws(c, c[n].L, n)
      BY <2>4 DEF Raws
    <2>6. QED
      BY <2>5 DEF Innermost
  <1>2. QED
    BY <1>1

(* luaD_throw, with nCcalls already counting the call that failed.         *)
LEMMA Throw ==
  ASSUME NEW s, Sound(s), ~s.panic, NEW L, TopOf(s).L = L,
         TopOf(s).status = OK, TopOf(s).fn # "resume",
         NEW e \in Statuses \ {OK},
         e = RESUME_ERROR => s.cs[s.th[L].jmp - 1].fn = "resume",
         \A t \in Threads : s.th[t].nC <= Limit + (IF t = L THEN 1 ELSE 0),
         \A i \in 1 .. Len(s.cs) : s.cs[i].fn = "raw" =>
             s.cs[i].nC <= Limit + (IF i = s.th[L].jmp /\ e = RESUME_ERROR THEN 1 ELSE 0)
  PROVE  Good(LuaD_throw(s, L, e))
  <1> DEFINE n == Len(s.cs)
             j == s.th[L].jmp
             u == LuaD_throw(s, L, e)
  <1>1. /\ Shaped(s) /\ n \in Nat \ {0} /\ L \in Threads /\ IsThread(s.th[L])
        /\ StackOK(s.cs) /\ StatusesOK(s.cs) /\ JumpsOK(s) /\ CountsOK(s) /\ NestingOK(s)
        /\ s.cs[n].L = L /\ s.cs[n].status = OK /\ s.cs[n].fn # "resume"
    <2>1. TopOf(s) = s.cs[n]
      BY DEF TopOf
    <2>2. Shaped(s)
      BY DEF Sound
    <2>3. n \in Nat \ {0} /\ L \in Threads /\ IsThread(s.th[L])
      BY <2>2, Types
    <2>4. QED
      BY <2>1, <2>2, <2>3 DEF Sound
  <1>2. j \in Nat /\ Innermost(s.cs, L, n, j)
    BY <1>1 DEF IsThread, JumpsOK
  <1>3. CASE j = 0
    <2> DEFINE w == [s.th[L] EXCEPT !.status = e]
    <2>1. IsThread(w) /\ SameCounts(w, s.th[L])
      BY <1>1 DEF IsThread, SameCounts
    <2> HIDE DEF w
    <2>2. /\ Shaped(With(s, L, w)) /\ With(s, L, w).th[L] = w
          /\ \A t \in Threads : t # L => With(s, L, w).th[t] = s.th[t]
          /\ With(s, L, w).cs = s.cs
      BY <1>1, <2>1, WithShaped
    <2>3. u = [With(s, L, w) EXCEPT !.panic = TRUE]
      BY <1>1, <1>3 DEF LuaD_throw, With, w, Shaped
    <2>4. /\ Shaped(u) /\ u.cs = s.cs /\ u.panic /\ u.th[L] = w
          /\ \A t \in Threads : t # L => u.th[t] = s.th[t]
      BY <2>2, <2>3 DEF Shaped
    <2> HIDE DEF u
    <2>5. \A t \in Threads : u.th[t].nny = s.th[t].nny /\ u.th[t].nC = s.th[t].nC
                             /\ u.th[t].jmp = s.th[t].jmp
      BY <2>1, <2>4 DEF SameCounts
    <2>6. \A i \in 1 .. n : s.cs[i].L \in Threads
      BY <1>1 DEF Shaped, IsFrame
    <2>7. JumpsOK(u) /\ NestingOK(u)
      BY <1>1, <2>4, <2>5, <2>6 DEF JumpsOK, NestingOK
    <2>8. CountsOK(u)
      BY <1>1, <2>4, <2>5 DEF CountsOK, TopOf
    <2>9. QED
      BY <1>1, <2>4, <2>7, <2>8 DEF Good, Sound, u
  <1>4. CASE j # 0
    <2>1. j \in 1 .. n /\ s.cs[j].fn = "raw" /\ s.cs[j].L = L
      BY <1>2, <1>4 DEF Innermost, Raws
    <2> DEFINE s1 == [s EXCEPT !.cs = SubSeq(@, 1, j)]
    <2>2. /\ Shaped(s1) /\ Len(s1.cs) = j /\ \A i \in 1 .. j : s1.cs[i] = s.cs[i]
          /\ s1.th = s.th /\ s1.panic = s.panic
      BY <1>1, <2>1, CutShaped
    <2>3. u = [s1 EXCEPT !.cs[j].status = e]
      BY <1>1, <1>4 DEF LuaD_throw, Shaped
    <2> HIDE DEF s1
    <2>4. /\ Shaped(u) /\ Len(u.cs) = j /\ u.cs[j].status = e
          /\ \A i \in 1 .. j : i # j => u.cs[i] = s1.cs[i]
          /\ Agree(s1.cs, u.cs, j)
          /\ u.th = s.th /\ ~u.panic
      <3>1. j \in 1 .. Len(s1.cs) /\ e \in Statuses
        BY <2>1, <2>2
      <3> DEFINE m == Mark(s1, j, e)
      <3>2. /\ Shaped(m) /\ Len(m.cs) = Len(s1.cs) /\ m.cs[j].status = e
            /\ \A i \in 1 .. Len(s1.cs) : i # j => m.cs[i] = s1.cs[i]
            /\ Agree(s1.cs, m.cs, Len(s1.cs))
            /\ m.th = s1.th /\ m.panic = s1.panic
        <4>1. Shaped(s1)
          BY <2>2
        <4> HIDE DEF u
        <4>2. QED
          BY <3>1, <4>1, MarkShaped
      <3> HIDE DEF m
      <3>3. u = m
        BY <2>3 DEF m, Mark
      <3> HIDE DEF u
      <3>4. QED
        BY <2>2, <3>2, <3>3
    <2> DEFINE d == u.cs
    <2>5. \A i \in 1 .. j - 1 : d[i] = s.cs[i]
      BY <2>1, <2>2, <2>4
    <2>6. Agree(s.cs, d, j)
      BY <2>2, <2>4 DEF Agree
    <2>7. d[j].fn = "raw" /\ d[j].L = L /\ d[j].status = e /\ d[j].nC = s.cs[j].nC
          /\ TopOf(u) = d[j]
      BY <2>1, <2>4, <2>6 DEF Agree, TopOf
    <2> HIDE DEF u
    <2>8. \A i \in j + 1 .. n : s.cs[i].L = L
      <3>1. FrameAt(s.cs, n)
        BY <1>1 DEF StackOK
      <3>2. QED
        BY <1>1, <1>2, <2>1, <3>1, OwnFramesAbove
    <2>9. \A t \in Threads : t # L => /\ Nny(d, t, j) = Nny(s.cs, t, n)
                                      /\ Raws(d, t, j) = Raws(s.cs, t, n)
      <3>1. \A t \in Threads : t # L => \A i \in j + 1 .. n : s.cs[i].L # t
        BY <2>8
      <3>2. \A t \in Threads : Nny(d, t, j) = Nny(s.cs, t, j) /\ Raws(d, t, j) = Raws(s.cs, t, j)
        BY <2>1, <2>6, AgreeCounts
      <3>3. ASSUME NEW t \in Threads, t # L
            PROVE  Nny(s.cs, t, n) = Nny(s.cs, t, j) /\ Raws(s.cs, t, n) = Raws(s.cs, t, j)
        <4>1. n \in Nat /\ j \in 0 .. n /\ \A i \in j + 1 .. n : s.cs[i].L # t
          BY <1>1, <2>1, <3>1, <3>3
        <4>2. QED
          BY <4>1, OthersFrames
      <3>4. QED
        BY <3>2, <3>3
    <2>10. StackOK(d)
      BY <1>1, <2>1, <2>4, <2>6, StackShrinks
    <2>11. StatusesOK(d)
      <3>1. ASSUME NEW i \in 1 .. j - 1
            PROVE  d[i].status # OK => d[i].fn = "resume"
        BY <1>1, <2>1, <2>5 DEF StatusesOK
      <3>2. d[j].status = RESUME_ERROR => d[j - 1].fn = "resume"
        <4>1. SUFFICES ASSUME e = RESUME_ERROR
                       PROVE  d[j - 1].fn = "resume"
          BY <2>7
        <4>2. j > 1
          <5>1. FrameAt(d, j)
            BY <2>1, <2>4, <2>10 DEF StackOK
          <5>2. QED
            BY <2>7, <5>1 DEF FrameAt
        <4>3. QED
          BY <2>1, <2>5, <4>1, <4>2
      <3>3. OK # RESUME_ERROR
        BY DEF OK, RESUME_ERROR
      <3>4. QED
        BY <2>1, <2>4, <2>7, <3>1, <3>2, <3>3 DEF StatusesOK
    <2>12. JumpsOK(u)
      <3>1. Raws(d, L, j) = Raws(s.cs, L, j)
        BY <2>1, <2>6, AgreeCounts
      <3>2. j \in Raws(s.cs, L, j) /\ \A m \in Raws(s.cs, L, j) : m <= j
        BY <2>1 DEF Raws
      <3>3. \A t \in Threads : Innermost(s.cs, t, n, s.th[t].jmp)
        BY <1>1 DEF JumpsOK
      <3>4. QED
        BY <2>4, <2>9, <3>1, <3>2, <3>3 DEF JumpsOK, Innermost
    <2>13. CountsOK(u)
      <3>1. \A t \in Threads : s.th[t].nny = Nny(s.cs, t, n)
        BY <1>1 DEF CountsOK, TopOf
      <3>2. QED
        BY <2>4, <2>7, <2>9, <3>1 DEF CountsOK
    <2>14. NestingOK(u)
      <3>1. ASSUME NEW i \in 1 .. j
            PROVE  Nesting(d, i) <= u.th[d[i].L].nC
        <4>1. Nesting(d, i) = Nesting(s.cs, i)
          BY <2>1, <2>6, AgreeNesting
        <4>2. d[i].L = s.cs[i].L
          BY <2>6 DEF Agree
        <4>3. QED
          BY <1>1, <2>1, <2>4, <4>1, <4>2 DEF NestingOK
      <3>2. QED
        BY <2>4, <3>1 DEF NestingOK
    <2>15. Bounded(u)
      <3>1. Reporting(TopOf(u)) /\ TopOf(u).L = L
        BY <2>7 DEF Reporting
      <3>2. ThreadsBounded(u)
        BY <2>4, <3>1 DEF ThreadsBounded
      <3>3. \A i \in 1 .. j : d[i].fn = s.cs[i].fn /\ d[i].nC = s.cs[i].nC
        BY <2>6 DEF Agree
      <3>4. Limit \in Int /\ \A i \in 1 .. n : s.cs[i].nC \in Int
        BY <1>1, Types, LimitType
      <3>5. ASSUME NEW i \in 1 .. j, d[i].fn = "raw"
            PROVE  d[i].nC <= Limit + (IF i = j /\ d[i].status = RESUME_ERROR THEN 1 ELSE 0)
        <4>1. s.cs[i].nC <= Limit + (IF i = j /\ e = RESUME_ERROR THEN 1 ELSE 0)
          BY <2>1, <3>3, <3>5
        <4>2. s.cs[i].nC \in Int /\ d[i].nC = s.cs[i].nC
          BY <2>1, <3>3, <3>4
        <4>3. CASE i = j
          BY <2>7, <4>1, <4>2, <4>3
        <4>4. CASE i # j
          BY <4>1, <4>2, <4>4
        <4>5. QED
          BY <4>3, <4>4
      <3>6. SavedBounded(d)
        BY <2>4, <3>5 DEF SavedBounded
      <3>7. QED
        BY <3>2, <3>6 DEF Bounded
    <2>16. QED
      BY <2>4, <2>10, <2>11, <2>12, <2>13, <2>14, <2>15 DEF Good, Sound, u
  <1>5. QED
    BY <1>3, <1>4

----------------------------------------------------------------------------
(* Returns. *)

(* Below a frame that is neither raw nor resume lies one of its thread     *)
(* that is no lua_resume, and its status is LUA_OK.                        *)
LEMMA BelowFrame ==
  ASSUME NEW c, Len(c) \in Nat, Len(c) > 1, StackOK(c), StatusesOK(c),
         c[Len(c)].fn \notin {"raw", "resume"}
  PROVE  /\ c[Len(c) - 1].fn # "resume" /\ c[Len(c) - 1].L = c[Len(c)].L
         /\ c[Len(c) - 1].status = OK
  <1> DEFINE n == Len(c)
  <1>1. FrameAt(c, n) /\ n - 1 \in 1 .. n - 1
    BY DEF StackOK
  <1>2. c[n - 1].fn # "resume"
    <2>1. SUFFICES ASSUME c[n - 1].fn = "resume"
                   PROVE  FALSE
      OBVIOUS
    <2>2. PICK r \in (n - 1) + 1 .. n : c[r].fn = "raw"
      BY <1>1, <2>1 DEF FrameAt
    <2>3. r = n
      BY <2>2
    <2>4. QED
      BY <2>2, <2>3
  <1>3. c[n - 1].L = c[n].L
    <2>1. SUFFICES ASSUME c[n - 1].L # c[n].L
                   PROVE  FALSE
      OBVIOUS
    <2>2. PICK r \in (n - 1) + 1 .. n : c[r].fn = "resume"
      BY <1>1, <2>1 DEF FrameAt
    <2>3. r = n
      BY <2>2
    <2>4. QED
      BY <2>2, <2>3
  <1>4. c[n - 1].status = OK
    BY <1>1, <1>2 DEF StatusesOK
  <1>5. QED
    BY <1>2, <1>3, <1>4

(* What the invariant says of the stack without its top. *)
LEMMA Popped ==
  ASSUME NEW s, Sound(s), Len(s.cs) > 1,
         NEW d, Len(d) = Len(s.cs) - 1, Agree(s.cs, d, Len(s.cs) - 1)
  PROVE  /\ StackOK(d)
         /\ \A t : Nny(d, t, Len(d)) = Nny(s.cs, t, Len(d))
         /\ \A t : Raws(d, t, Len(d)) = Raws(s.cs, t, Len(d))
         /\ \A i \in 1 .. Len(d) : /\ d[i].L = s.cs[i].L
                                   /\ Nesting(d, i) <= s.th[s.cs[i].L].nC
                                   /\ Nesting(d, i) <= Nesting(s.cs, Len(d))
  <1> DEFINE m == Len(s.cs) - 1
  <1>1. Shaped(s) /\ StackOK(s.cs) /\ NestingOK(s)
    BY DEF Sound
  <1>2. Len(s.cs) \in Nat /\ m \in Nat /\ m \in 0 .. Len(s.cs) /\ m <= Len(s.cs)
    BY <1>1, Types
  <1> HIDE DEF m
  <1>3. Len(d) = m /\ Agree(s.cs, d, m)
    BY DEF m
  <1>4. StackOK(d)
    BY <1>1, <1>2, <1>3, StackShrinks
  <1>5. ASSUME NEW t
        PROVE  Nny(d, t, m) = Nny(s.cs, t, m) /\ Raws(d, t, m) = Raws(s.cs, t, m)
    BY <1>2, <1>3, AgreeCounts
  <1>6. ASSUME NEW i \in 1 .. m
        PROVE  /\ d[i].L = s.cs[i].L
               /\ Nesting(d, i) <= s.th[s.cs[i].L].nC
               /\ Nesting(d, i) <= Nesting(s.cs, m)
    <2>1. Nesting(d, i) = Nesting(s.cs, i)
      BY <1>2, <1>3, AgreeNesting
    <2>2. Nesting(s.cs, i) <= Nesting(s.cs, m)
      BY <1>2, NestingMonotone
    <2>3. Nesting(s.cs, i) <= s.th[s.cs[i].L].nC
      BY <1>1, <1>2 DEF NestingOK
    <2>4. d[i].L = s.cs[i].L
      BY <1>3 DEF Agree
    <2>5. QED
      BY <2>1, <2>2, <2>3, <2>4
  <1>7. QED
    BY <1>3, <1>4, <1>5, <1>6

(* A frame returns that is neither raw nor resume. *)
LEMMA PopFrame ==
  ASSUME NEW s, Good(s), ~s.panic, Len(s.cs) > 1,
         NEW L, TopOf(s).L = L, TopOf(s).fn \notin {"raw", "resume"},
         NEW r, IsThread(r), r.jmp = s.th[L].jmp,
         r.nny = Nny(s.cs, L, Len(s.cs) - 1),
         Nesting(s.cs, Len(s.cs) - 1) <= r.nC, r.nC <= Limit
  PROVE  Active(Pop(With(s, L, r)), L)
  <1> DEFINE n == Len(s.cs)
             m == n - 1
             u == Pop(With(s, L, r))
             d == u.cs
  <1>1. /\ Sound(s) /\ Shaped(s) /\ StackOK(s.cs) /\ StatusesOK(s.cs) /\ JumpsOK(s) /\ CountsOK(s)
        /\ ThreadsBounded(s) /\ SavedBounded(s.cs) /\ TopOf(s) = s.cs[n]
    BY DEF Good, Sound, Bounded, TopOf
  <1>2. n \in Nat \ {0} /\ L \in Threads /\ m \in Nat \ {0} /\ n = m + 1
    BY <1>1, Types
  <1>3. /\ Shaped(With(s, L, r)) /\ With(s, L, r).th[L] = r
        /\ \A t \in Threads : t # L => With(s, L, r).th[t] = s.th[t]
        /\ With(s, L, r).cs = s.cs /\ With(s, L, r).panic = s.panic
    BY <1>1, <1>2, WithShaped
  <1>4. /\ Shaped(u) /\ u.th[L] = r /\ ~u.panic /\ Len(d) = m /\ TopOf(u) = s.cs[m]
        /\ \A t \in Threads : t # L => u.th[t] = s.th[t]
        /\ \A i \in 1 .. m : d[i] = s.cs[i]
    BY <1>3, PopShaped
  <1> HIDE DEF u
  <1>5. Agree(s.cs, d, m)
    BY <1>4 DEF Agree
  <1> HIDE DEF m
  <1>6. /\ StackOK(d)
        /\ \A t : Nny(d, t, m) = Nny(s.cs, t, m)
        /\ \A t : Raws(d, t, m) = Raws(s.cs, t, m)
        /\ \A i \in 1 .. m : /\ d[i].L = s.cs[i].L
                             /\ Nesting(d, i) <= s.th[s.cs[i].L].nC
                             /\ Nesting(d, i) <= Nesting(s.cs, m)
    <2>1. Len(d) = Len(s.cs) - 1 /\ Agree(s.cs, d, Len(s.cs) - 1)
      BY <1>4, <1>5 DEF m
    <2>2. Sound(s) /\ Len(s.cs) > 1 /\ Len(d) = m
      BY <1>1, <1>4
    <2> HIDE DEF d
    <2>3. QED
      BY <2>1, <2>2, Popped
  <1>7. s.cs[m].fn # "resume" /\ s.cs[m].L = L /\ s.cs[m].status = OK
    BY <1>1, <1>2, BelowFrame DEF m
  <1>8. StatusesOK(d)
    <2>1. \A i \in 1 .. m : s.cs[i].status # OK => s.cs[i].fn = "resume"
      BY <1>1, <1>2 DEF StatusesOK
    <2>2. OK # RESUME_ERROR
      BY DEF OK, RESUME_ERROR
    <2>3. QED
      BY <1>4, <2>1, <2>2 DEF StatusesOK
  <1>9. JumpsOK(u)
    <2>1. \A t \in Threads : Raws(s.cs, t, n) = Raws(s.cs, t, m)
      BY <1>1, <1>2 DEF Raws
    <2>2. \A t \in Threads : u.th[t].jmp = s.th[t].jmp
      BY <1>4
    <2>3. QED
      BY <1>1, <1>4, <1>6, <2>1, <2>2 DEF JumpsOK, Innermost
  <1>10. CountsOK(u)
    <2>1. ASSUME NEW t \in Threads, t # L
          PROVE  u.th[t].nny = Nny(d, t, m)
      <3>1. s.th[t].nny = Nny(s.cs, t, n)
        BY <1>1, <2>1 DEF CountsOK
      <3>2. Nny(s.cs, t, n) = Nny(s.cs, t, m)
        BY <1>1, <1>2, <2>1, NnyPlain
      <3>3. QED
        BY <1>4, <1>6, <2>1, <3>1, <3>2
    <2>2. u.th[L].nny = Nny(d, L, m)
      BY <1>4, <1>6 DEF m
    <2>3. QED
      BY <1>4, <2>1, <2>2 DEF CountsOK
  <1>11. NestingOK(u)
    <2>1. ASSUME NEW i \in 1 .. m
          PROVE  Nesting(d, i) <= u.th[d[i].L].nC
      <3>1. CASE d[i].L = L
        <4>1. /\ Nesting(d, i) <= Nesting(s.cs, m) /\ Nesting(d, i) \in Nat
              /\ Nesting(s.cs, m) \in Nat /\ r.nC \in Int /\ Nesting(s.cs, m) <= r.nC
          BY <1>2, <1>6, NestingType DEF IsThread, m
        <4>2. u.th[d[i].L].nC = r.nC
          BY <1>4, <3>1
        <4>3. QED
          BY <4>1, <4>2
      <3>2. CASE d[i].L # L
        <4>1. d[i].L \in Threads
          BY <1>4, Types
        <4>2. QED
          BY <1>4, <1>6, <3>2, <4>1
      <3>3. QED
        BY <3>1, <3>2
    <2>2. QED
      BY <1>4, <2>1 DEF NestingOK
  <1>12. Bounded(u)
    <2>1. Limit \in Int /\ \A t \in Threads : u.th[t].nC \in Int /\ s.th[t].nC \in Int
      BY <1>1, <1>4, Types, LimitType
    <2>2. \A t \in Threads : u.th[t].nC <= Limit
      BY <1>1, <1>4, <2>1 DEF ThreadsBounded, Reporting
    <2>3. \A i \in 1 .. m : d[i].nC \in Int
      BY <1>4, Types
    <2>4. \A i \in 1 .. m : d[i].fn = "raw" => d[i].nC <= Limit
      BY <1>1, <1>2, <1>4, <2>1, <2>3 DEF SavedBounded
    <2>5. ThreadsBounded(u)
      BY <2>1, <2>2 DEF ThreadsBounded
    <2>6. SavedBounded(d)
      BY <1>4, <2>1, <2>3, <2>4 DEF SavedBounded
    <2>7. QED
      BY <2>5, <2>6 DEF Bounded
  <1>13. Sound(u)
    BY <1>4, <1>6, <1>8, <1>9, <1>10, <1>11 DEF Sound
  <1>14. Active(u, L)
    BY <1>4, <1>7, <1>12, <1>13 DEF Active, Good
  <1>15. QED
    BY <1>14 DEF u

(* luaD_rawrunprotected returns, restores what it has saved and hands the  *)
(* status to its caller.                                                   *)
LEMMA PopRaw ==
  ASSUME NEW s, Good(s), ~s.panic, NEW L, TopOf(s).L = L, TopOf(s).fn = "raw",
         NEW r, IsThread(r), r.jmp = TopOf(s).jmp, r.nC = TopOf(s).nC,
         r.nny = s.th[L].nny
  PROVE  Good([Pop(With(s, L, r)) EXCEPT !.cs[Len(s.cs) - 1].status = TopOf(s).status])
  <1> DEFINE n == Len(s.cs)
             m == n - 1
             v == Pop(With(s, L, r))
             u == [v EXCEPT !.cs[m].status = TopOf(s).status]
             d == u.cs
  <1>1. /\ Sound(s) /\ Shaped(s) /\ StackOK(s.cs) /\ StatusesOK(s.cs) /\ JumpsOK(s) /\ CountsOK(s)
        /\ ThreadsBounded(s) /\ SavedBounded(s.cs) /\ TopOf(s) = s.cs[n]
    BY DEF Good, Sound, Bounded, TopOf
  <1>2. n \in Nat \ {0} /\ L \in Threads /\ IsFrame(s.cs[n])
    BY <1>1, Types
  <1>3. FrameAt(s.cs, n) /\ n > 1
    <2>1. FrameAt(s.cs, n)
      BY <1>1, <1>2 DEF StackOK
    <2>2. QED
      BY <1>1, <2>1 DEF FrameAt
  <1>4. m \in Nat \ {0} /\ n = m + 1
    BY <1>2, <1>3
  <1>5. /\ s.cs[m].fn \in {"pcall", "resume"} /\ s.cs[m].L = L
        /\ Innermost(s.cs, L, m, r.jmp) /\ Nesting(s.cs, n) <= r.nC
    BY <1>1, <1>3 DEF FrameAt
  <1>6. /\ Shaped(With(s, L, r)) /\ With(s, L, r).th[L] = r
        /\ \A t \in Threads : t # L => With(s, L, r).th[t] = s.th[t]
        /\ With(s, L, r).cs = s.cs /\ With(s, L, r).panic = s.panic
    BY <1>1, <1>2, WithShaped
  <1>7. /\ Shaped(v) /\ v.th[L] = r /\ ~v.panic /\ Len(v.cs) = m
        /\ \A t \in Threads : t # L => v.th[t] = s.th[t]
        /\ \A i \in 1 .. m : v.cs[i] = s.cs[i]
    BY <1>3, <1>6, PopShaped
  <1> HIDE DEF v, m
  <1>8. /\ Shaped(u) /\ u.th[L] = r /\ ~u.panic /\ Len(d) = m /\ d[m].status = TopOf(s).status
        /\ \A t \in Threads : t # L => u.th[t] = s.th[t]
        /\ \A i \in 1 .. m : i # m => d[i] = s.cs[i]
        /\ Agree(v.cs, d, m)
    <2>1. m \in 1 .. Len(v.cs)
      BY <1>4, <1>7
    <2> DEFINE st == TopOf(s).status
    <2>2. st \in Statuses
      BY <1>1, <1>2 DEF IsFrame
    <2> HIDE DEF st
    <2> DEFINE w == Mark(v, m, st)
    <2>3. /\ Shaped(w) /\ Len(w.cs) = Len(v.cs) /\ w.cs[m].status = st
          /\ \A i \in 1 .. Len(v.cs) : i # m => w.cs[i] = v.cs[i]
          /\ Agree(v.cs, w.cs, Len(v.cs)) /\ w.th = v.th /\ w.panic = v.panic
      BY <1>7, <2>1, <2>2, MarkShaped
    <2>4. u = w
      BY DEF st, Mark
    <2> HIDE DEF u, w
    <2>5. QED
      BY <1>7, <2>3, <2>4 DEF st
  <1> HIDE DEF u
  <1>9. Agree(s.cs, d, m)
    BY <1>7, <1>8 DEF Agree
  <1>10. d[m].fn = s.cs[m].fn /\ d[m].L = L /\ d[m].nC = s.cs[m].nC /\ TopOf(u) = d[m]
    <2>1. m \in 1 .. m
      BY <1>4
    <2>2. d[m].fn = s.cs[m].fn /\ d[m].L = s.cs[m].L /\ d[m].nC = s.cs[m].nC
      BY <1>9, <2>1 DEF Agree
    <2>3. QED
      BY <1>5, <1>8, <2>2 DEF TopOf
  <1>11. /\ StackOK(d)
         /\ \A t : Nny(d, t, m) = Nny(s.cs, t, m)
         /\ \A t : Raws(d, t, m) = Raws(s.cs, t, m)
         /\ \A i \in 1 .. m : /\ d[i].L = s.cs[i].L
                              /\ Nesting(d, i) <= s.th[s.cs[i].L].nC
                              /\ Nesting(d, i) <= Nesting(s.cs, m)
    <2>1. Len(d) = Len(s.cs) - 1 /\ Agree(s.cs, d, Len(s.cs) - 1)
      BY <1>8, <1>9 DEF m
    <2>2. Sound(s) /\ Len(s.cs) > 1 /\ Len(d) = m
      BY <1>1, <1>3, <1>8
    <2> HIDE DEF d
    <2>3. QED
      BY <2>1, <2>2, Popped
  <1>12. \A t \in Threads : t # L => Raws(s.cs, t, n) = Raws(s.cs, t, m)
    BY <1>1, <1>4 DEF Raws
  <1>13. OK # RESUME_ERROR
    BY DEF OK, RESUME_ERROR
  <1>14. s.cs[n].status = RESUME_ERROR => s.cs[m].fn = "resume"
    BY <1>1, <1>2 DEF StatusesOK, m
  <1>15. StatusesOK(d)
    <2>1. \A i \in 1 .. m : s.cs[i].status # OK => s.cs[i].fn = "resume"
      BY <1>1, <1>4 DEF StatusesOK
    <2>2. QED
      BY <1>1, <1>5, <1>8, <1>10, <1>13, <1>14, <2>1 DEF StatusesOK
  <1>16. JumpsOK(u)
    <2>1. Innermost(d, L, m, r.jmp)
      BY <1>5, <1>11 DEF Innermost
    <2>2. ASSUME NEW t \in Threads, t # L
          PROVE  Innermost(d, t, m, s.th[t].jmp)
      <3>1. Innermost(s.cs, t, n, s.th[t].jmp)
        BY <1>1 DEF JumpsOK
      <3>2. QED
        BY <1>11, <1>12, <2>2, <3>1 DEF Innermost
    <2>3. QED
      BY <1>8, <2>1, <2>2 DEF JumpsOK
  <1>17. CountsOK(u)
    <2>1. ASSUME NEW t \in Threads
          PROVE  Nny(s.cs, t, n) = Nny(d, t, m)
      <3>1. Nny(s.cs, t, n) = Nny(s.cs, t, m)
        BY <1>1, <1>4, NnyPlain
      <3>2. QED
        BY <1>11, <3>1
    <2>2. \A t \in Threads : u.th[t].nny = s.th[t].nny
      BY <1>8
    <2>3. QED
      BY <1>1, <1>8, <1>10, <2>1, <2>2 DEF CountsOK
  <1>18. NestingOK(u)
    <2>1. ASSUME NEW i \in 1 .. m
          PROVE  Nesting(d, i) <= u.th[d[i].L].nC
      <3>1. CASE d[i].L = L
        <4>1. Nesting(s.cs, m) <= Nesting(s.cs, n)
          BY <1>4, NestingMonotone
        <4>2. /\ Nesting(d, i) \in Nat /\ Nesting(s.cs, m) \in Nat /\ Nesting(s.cs, n) \in Nat
              /\ r.nC \in Int
          BY <1>2, <1>4, NestingType DEF IsThread
        <4>3. u.th[d[i].L].nC = r.nC
          BY <1>8, <3>1
        <4>4. QED
          BY <1>5, <1>11, <4>1, <4>2, <4>3
      <3>2. CASE d[i].L # L
        <4>1. d[i].L \in Threads
          BY <1>8, Types
        <4>2. QED
          BY <1>8, <1>11, <3>2, <4>1
      <3>3. QED
        BY <3>1, <3>2
    <2>2. QED
      BY <1>8, <2>1 DEF NestingOK
  <1>19. Bounded(u)
    <2>1. /\ Limit \in Int /\ \A t \in Threads : u.th[t].nC \in Int /\ s.th[t].nC \in Int
          /\ \A i \in 1 .. n : s.cs[i].nC \in Int
      BY <1>1, <1>8, Types, LimitType
    <2>2. \A t \in Threads : t # L => u.th[t].nC <= Limit
      BY <1>1, <1>8, <2>1 DEF ThreadsBounded
    <2>3. r.nC <= Limit + (IF s.cs[n].status = RESUME_ERROR THEN 1 ELSE 0)
      BY <1>1, <1>2 DEF SavedBounded
    <2>4. s.cs[n].status = RESUME_ERROR => Reporting(TopOf(u))
      BY <1>1, <1>8, <1>10, <1>14 DEF Reporting
    <2>5. u.th[L].nC <= Limit + (IF Reporting(TopOf(u)) THEN 1 ELSE 0)
      <3>1. r.nC \in Int
        BY DEF IsThread
      <3>2. QED
        BY <1>8, <2>1, <2>3, <2>4, <3>1
    <2>6. ThreadsBounded(u)
      BY <1>8, <1>10, <2>1, <2>2, <2>5 DEF ThreadsBounded
    <2>7. \A i \in 1 .. m : s.cs[i].fn = "raw" => s.cs[i].nC <= Limit
      BY <1>1, <1>4, <2>1 DEF SavedBounded
    <2>8. \A i \in 1 .. m : d[i].fn = s.cs[i].fn /\ d[i].nC = s.cs[i].nC
      BY <1>9 DEF Agree
    <2>9. SavedBounded(d)
      BY <1>4, <1>8, <2>1, <2>7, <2>8 DEF SavedBounded
    <2>10. QED
      BY <2>6, <2>9 DEF Bounded
  <1>20. Good(u)
    BY <1>8, <1>11, <1>15, <1>16, <1>17, <1>18, <1>19 DEF Good, Sound
  <1>21. QED
    BY <1>20 DEF u, v, m

(* lua_resume returns to the C function of the thread that called it.      *)
LEMMA PopResume ==
  ASSUME NEW s, Good(s), ~s.panic, NEW L, TopOf(s).L = L, TopOf(s).fn = "resume",
         NEW r, IsThread(r), r.jmp = s.th[L].jmp, r.nny = TopOf(s).nny,
         r.nC = s.th[L].nC - 1
  PROVE  Good(Pop(With(s, L, r)))
  <1> DEFINE n == Len(s.cs)
             m == n - 1
             u == Pop(With(s, L, r))
             d == u.cs
  <1>1. /\ Sound(s) /\ Shaped(s) /\ StackOK(s.cs) /\ StatusesOK(s.cs) /\ JumpsOK(s) /\ CountsOK(s)
        /\ NestingOK(s) /\ ThreadsBounded(s) /\ SavedBounded(s.cs) /\ TopOf(s) = s.cs[n]
    BY DEF Good, Sound, Bounded, TopOf
  <1>2. n \in Nat \ {0} /\ L \in Threads /\ IsFrame(s.cs[n])
    BY <1>1, Types
  <1>3. FrameAt(s.cs, n) /\ n > 1
    <2>1. FrameAt(s.cs, n)
      BY <1>1, <1>2 DEF StackOK
    <2>2. QED
      BY <1>1, <2>1 DEF FrameAt
  <1>4. m \in Nat \ {0} /\ n = m + 1
    BY <1>2, <1>3
  <1>5. s.cs[m].fn = "cfun" /\ s.cs[n].nny = Nny(s.cs, L, m)
    BY <1>1, <1>3 DEF FrameAt
  <1>6. /\ Shaped(With(s, L, r)) /\ With(s, L, r).th[L] = r
        /\ \A t \in Threads : t # L => With(s, L, r).th[t] = s.th[t]
        /\ With(s, L, r).cs = s.cs /\ With(s, L, r).panic = s.panic
    BY <1>1, <1>2, WithShaped
  <1>7. /\ Shaped(u) /\ u.th[L] = r /\ ~u.panic /\ Len(d) = m /\ TopOf(u) = s.cs[m]
        /\ \A t \in Threads : t # L => u.th[t] = s.th[t]
        /\ \A i \in 1 .. m : d[i] = s.cs[i]
    BY <1>3, <1>6, PopShaped
  <1> HIDE DEF u
  <1>8. Agree(s.cs, d, m)
    BY <1>7 DEF Agree
  <1>9. /\ StackOK(d)
        /\ \A t : Nny(d, t, m) = Nny(s.cs, t, m)
        /\ \A t : Raws(d, t, m) = Raws(s.cs, t, m)
        /\ \A i \in 1 .. m : /\ d[i].L = s.cs[i].L
                             /\ Nesting(d, i) <= s.th[s.cs[i].L].nC
                             /\ Nesting(d, i) <= Nesting(s.cs, m)
    <2>1. Len(d) = Len(s.cs) - 1 /\ Agree(s.cs, d, Len(s.cs) - 1)
      BY <1>7, <1>8
    <2> HIDE DEF m
    <2>2. QED
      BY <1>1, <1>3, <1>7, <2>1, Popped
  <1> HIDE DEF m
  <1>10. StatusesOK(d)
    <2>1. \A i \in 1 .. m : s.cs[i].status # OK => s.cs[i].fn = "resume"
      BY <1>1, <1>4 DEF StatusesOK
    <2>2. OK # RESUME_ERROR
      BY DEF OK, RESUME_ERROR
    <2>3. QED
      BY <1>7, <2>1, <2>2 DEF StatusesOK
  <1>11. JumpsOK(u)
    <2>1. \A t \in Threads : Raws(s.cs, t, n) = Raws(s.cs, t, m)
      BY <1>1, <1>4 DEF Raws
    <2>2. \A t \in Threads : u.th[t].jmp = s.th[t].jmp
      BY <1>7
    <2>3. QED
      BY <1>1, <1>7, <1>9, <2>1, <2>2 DEF JumpsOK, Innermost
  <1>12. CountsOK(u)
    <2>1. ASSUME NEW t \in Threads, t # L
          PROVE  u.th[t].nny = Nny(d, t, m)
      <3>1. s.th[t].nny = Nny(s.cs, t, n)
        BY <1>1, <2>1 DEF CountsOK
      <3>2. Nny(s.cs, t, n) = Nny(s.cs, t, m)
        BY <1>1, <1>4, <2>1, NnyPlain
      <3>3. QED
        BY <1>7, <1>9, <2>1, <3>1, <3>2
    <2>2. u.th[L].nny = Nny(d, L, m)
      BY <1>1, <1>5, <1>7, <1>9
    <2>3. QED
      BY <1>7, <2>1, <2>2 DEF CountsOK
  <1>13. NestingOK(u)
    <2>1. Nesting(s.cs, n) = Nesting(s.cs, m) + 1
      BY <1>1, <1>4, NestingStep
    <2>2. Nesting(s.cs, n) <= s.th[L].nC
      BY <1>1, <1>2 DEF NestingOK
    <2>3. Nesting(s.cs, m) \in Nat /\ s.th[L].nC \in Int
      BY <1>1, <1>2, <1>4, NestingType, Types
    <2>4. Nesting(s.cs, m) <= r.nC /\ r.nC \in Int
      BY <2>1, <2>2, <2>3
    <2>5. ASSUME NEW i \in 1 .. m
          PROVE  Nesting(d, i) <= u.th[d[i].L].nC
      <3>1. CASE d[i].L = L
        <4>1. Nesting(d, i) <= Nesting(s.cs, m) /\ Nesting(d, i) \in Nat
          BY <1>9, NestingType
        <4>2. u.th[d[i].L].nC = r.nC
          BY <1>7, <3>1
        <4>3. QED
          BY <2>3, <2>4, <4>1, <4>2
      <3>2. CASE d[i].L # L
        <4>1. d[i].L \in Threads
          BY <1>7, Types
        <4>2. QED
          BY <1>7, <1>9, <3>2, <4>1
      <3>3. QED
        BY <3>1, <3>2
    <2>6. QED
      BY <1>7, <2>5 DEF NestingOK
  <1>14. Bounded(u)
    <2>1. /\ Limit \in Int /\ \A t \in Threads : u.th[t].nC \in Int /\ s.th[t].nC \in Int
          /\ \A i \in 1 .. n : s.cs[i].nC \in Int
      BY <1>1, <1>7, Types, LimitType
    <2>2. \A t \in Threads : t # L => s.th[t].nC <= Limit
      BY <1>1, <2>1 DEF ThreadsBounded
    <2>3. s.th[L].nC <= Limit + 1
      BY <1>1, <1>2, <2>1 DEF ThreadsBounded
    <2>4. \A t \in Threads : u.th[t].nC <= Limit
      BY <1>7, <2>1, <2>2, <2>3
    <2>5. ThreadsBounded(u)
      BY <2>1, <2>4 DEF ThreadsBounded
    <2>6. \A i \in 1 .. m : s.cs[i].fn = "raw" => s.cs[i].nC <= Limit
      BY <1>1, <1>4, <2>1 DEF SavedBounded
    <2>7. SavedBounded(d)
      BY <1>4, <1>7, <2>1, <2>6 DEF SavedBounded
    <2>8. QED
      BY <2>5, <2>7 DEF Bounded
  <1>15. Good(u)
    BY <1>7, <1>9, <1>10, <1>11, <1>12, <1>13, <1>14 DEF Good, Sound
  <1>16. QED
    BY <1>15 DEF u

----------------------------------------------------------------------------
(* Protected calls and resumes begin. *)

LEMMA NewFrame ==
  ASSUME NEW fn, NEW L \in Threads
  PROVE  IsFrame(Frame(fn, L)) /\ Frame(fn, L).fn = fn /\ Frame(fn, L).L = L
         /\ Frame(fn, L).status = OK
  BY DEF IsFrame, Frame, Statuses, OK

(* luaD_rawrunprotected begins, for luaD_pcall or lua_resume.              *)
LEMMA PushRaw ==
  ASSUME NEW s, Sound(s), ~s.panic, NEW L, TopOf(s).L = L,
         TopOf(s).fn \in {"pcall", "resume"}, TopOf(s).fn = "pcall" => TopOf(s).status = OK,
         s.th[L].nny = Nny(s.cs, L, Len(s.cs)),
         NEW u, u = LuaD_rawrunprotected(s, L)
  PROVE  /\ Sound(u) /\ ~u.panic /\ Len(u.cs) = Len(s.cs) + 1
         /\ TopOf(u).fn = "raw" /\ TopOf(u).L = L /\ TopOf(u).status = OK
         /\ TopOf(u).nC = s.th[L].nC
         /\ \A i \in 1 .. Len(s.cs) : u.cs[i] = s.cs[i]
         /\ u.th[L] = [s.th[L] EXCEPT !.jmp = Len(s.cs) + 1]
         /\ \A t \in Threads : t # L => u.th[t] = s.th[t]
  <1> DEFINE n == Len(s.cs)
             r == [s.th[L] EXCEPT !.jmp = n + 1]
             f == [Frame("raw", L) EXCEPT !.nC = s.th[L].nC, !.jmp = s.th[L].jmp]
             d == u.cs
  <1>1. /\ Shaped(s) /\ StackOK(s.cs) /\ StatusesOK(s.cs) /\ JumpsOK(s) /\ CountsOK(s)
        /\ NestingOK(s) /\ TopOf(s) = s.cs[n]
    BY DEF Sound, TopOf
  <1>2. n \in Nat \ {0} /\ L \in Threads /\ IsThread(s.th[L])
    BY <1>1, Types
  <1>3. /\ IsThread(r) /\ r.jmp = n + 1 /\ r.nny = s.th[L].nny /\ r.nC = s.th[L].nC
    BY <1>2 DEF IsThread
  <1>4. /\ IsFrame(f) /\ f.fn = "raw" /\ f.L = L /\ f.status = OK
        /\ f.nC = s.th[L].nC /\ f.jmp = s.th[L].jmp
    <2>1. s.th[L].nC \in Int /\ s.th[L].jmp \in Nat
      BY <1>2 DEF IsThread
    <2>2. f = [fn |-> "raw", L |-> L, ci |-> 0, nny |-> 0, nC |-> s.th[L].nC, err |-> 0,
               jmp |-> s.th[L].jmp, status |-> OK]
      <3> DEFINE g == [Frame("raw", L) EXCEPT !.nC = s.th[L].nC]
      <3>1. g = [fn |-> "raw", L |-> L, ci |-> 0, nny |-> 0, nC |-> s.th[L].nC, err |-> 0,
                 jmp |-> 0, status |-> OK]
        BY DEF Frame
      <3>2. f = [g EXCEPT !.jmp = s.th[L].jmp]
        OBVIOUS
      <3> HIDE DEF f, g
      <3>3. QED
        BY <3>1, <3>2
    <2> HIDE DEF f
    <2>3. OK \in Statuses
      BY DEF Statuses
    <2>4. QED
      BY <1>2, <2>1, <2>2, <2>3 DEF IsFrame
  <1>5. u = Push(With(s, L, r), f)
    BY <1>1 DEF LuaD_rawrunprotected, With, Push, Shaped
  <1>6. [s.th[L] EXCEPT !.jmp = Len(s.cs) + 1] = r
    OBVIOUS
  <1> HIDE DEF r, f
  <1>7. /\ Shaped(With(s, L, r)) /\ With(s, L, r).th[L] = r
        /\ \A t \in Threads : t # L => With(s, L, r).th[t] = s.th[t]
        /\ With(s, L, r).cs = s.cs /\ With(s, L, r).panic = s.panic
    BY <1>1, <1>2, <1>3, WithShaped
  <1>8. /\ Shaped(u) /\ u.th[L] = r /\ ~u.panic /\ Len(d) = n + 1 /\ TopOf(u) = f /\ d[n + 1] = f
        /\ \A t \in Threads : t # L => u.th[t] = s.th[t]
        /\ \A i \in 1 .. n : d[i] = s.cs[i]
    BY <1>4, <1>5, <1>7, PushShaped, SMTT(30)
  <1>9. Agree(s.cs, d, n)
    BY <1>8 DEF Agree
  <1>10. /\ s.cs[n].L = L /\ s.cs[n].fn \in {"pcall", "resume"} /\ d[n] = s.cs[n]
         /\ \A i \in 1 .. n : s.cs[i].status # OK => s.cs[i].fn = "resume"
    BY <1>1, <1>2, <1>8 DEF StatusesOK
  <1>11. /\ \A t \in Threads : Nny(d, t, n) = Nny(s.cs, t, n)
         /\ \A t \in Threads : Raws(d, t, n) = Raws(s.cs, t, n)
         /\ \A i \in 1 .. n : Nesting(d, i) = Nesting(s.cs, i)
    BY <1>2, <1>9, AgreeCounts, AgreeNesting
  <1>12. Nesting(d, n + 1) <= s.th[L].nC
    <2>1. Nesting(d, n + 1) = Nesting(d, n)
      BY <1>2, <1>4, <1>8, NestingStep
    <2>2. Nesting(s.cs, n) <= s.th[L].nC
      BY <1>1, <1>2, <1>10 DEF NestingOK
    <2>3. QED
      BY <1>2, <1>11, <2>1, <2>2
  <1>13. StackOK(d)
    <2>1. FrameAt(d, n)
      BY <1>1, <1>2, <1>9, AgreeFrame DEF StackOK
    <2>2. ASSUME NEW k \in 1 .. n, d[k].L # d[n + 1].L
          PROVE  \E m \in k + 1 .. n + 1 : d[m].fn = "resume"
      <3>1. k \in 1 .. n - 1 /\ d[k].L # d[n].L
        BY <1>2, <1>4, <1>8, <1>10, <2>2
      <3>2. PICK m \in k + 1 .. n : d[m].fn = "resume"
        BY <2>1, <3>1 DEF FrameAt
      <3>3. QED
        BY <1>2, <3>2
    <2>3. Innermost(d, L, n, f.jmp)
      BY <1>1, <1>2, <1>4, <1>11 DEF JumpsOK, Innermost
    <2>4. (n + 1) - 1 = n /\ n + 1 # 1 /\ n + 1 > 1
      BY <1>2
    <2>5. \A k \in 1 .. n : n + 1 \in k + 1 .. n + 1
      BY <1>2
    <2>6. FrameAt(d, n + 1)
      BY <1>4, <1>8, <1>10, <1>12, <2>2, <2>3, <2>4, <2>5 DEF FrameAt
    <2>7. QED
      BY <1>1, <1>2, <1>8, <1>9, <2>6, StackGrows
  <1>14. StatusesOK(d)
    <2>1. \A i \in 1 .. n : d[i].status # OK => d[i].fn = "resume"
      BY <1>8, <1>10
    <2>2. Len(d) = n + 1 /\ d[n + 1].status = OK
      BY <1>4, <1>8
    <2>3. QED
      BY <1>2, <2>1, <2>2, StatusesGrow
  <1>15. JumpsOK(u)
    <2>1. n + 1 \in Raws(d, L, n + 1) /\ \A m \in Raws(d, L, n + 1) : m <= n + 1
      BY <1>2, <1>4, <1>8 DEF Raws
    <2>2. \A t \in Threads : t # L => Raws(d, t, n + 1) = Raws(d, t, n)
      BY <1>2, <1>4, <1>8 DEF Raws
    <2>3. Innermost(d, L, n + 1, r.jmp)
      BY <1>3, <2>1 DEF Innermost
    <2>4. ASSUME NEW t \in Threads, t # L
          PROVE  Innermost(d, t, n + 1, s.th[t].jmp)
      <3>1. Innermost(s.cs, t, n, s.th[t].jmp)
        BY <1>1 DEF JumpsOK
      <3>2. QED
        BY <1>11, <2>2, <2>4, <3>1 DEF Innermost
    <2>5. QED
      BY <1>8, <2>3, <2>4 DEF JumpsOK
  <1>16. CountsOK(u)
    <2>1. ASSUME NEW t \in Threads
          PROVE  u.th[t].nny = Nny(d, t, n + 1)
      <3>1. Nny(d, t, n + 1) = Nny(d, t, n)
        BY <1>2, <1>4, <1>8, NnyPlain
      <3>2. s.th[t].nny = Nny(s.cs, t, n)
        BY <1>1 DEF CountsOK
      <3>3. u.th[t].nny = s.th[t].nny
        BY <1>3, <1>8
      <3>4. QED
        BY <1>11, <3>1, <3>2, <3>3
    <2>2. QED
      BY <1>8, <2>1 DEF CountsOK
  <1>17. NestingOK(u)
    <2>1. \A t \in Threads : u.th[t].nC = s.th[t].nC
      BY <1>3, <1>8
    <2>2. \A i \in 1 .. n : d[i].L \in Threads /\ d[i].L = s.cs[i].L
      BY <1>1, <1>8, Types
    <2>3. ASSUME NEW i \in 1 .. n
          PROVE  Nesting(d, i) <= u.th[d[i].L].nC
      BY <1>1, <1>11, <2>1, <2>2 DEF NestingOK
    <2>4. Nesting(d, n + 1) <= u.th[d[n + 1].L].nC
      BY <1>2, <1>4, <1>8, <1>12, <2>1
    <2>5. Len(d) = n + 1 /\ 1 .. n + 1 = (1 .. n) \cup {n + 1}
      BY <1>2, <1>8
    <2>6. QED
      BY <2>3, <2>4, <2>5 DEF NestingOK
  <1>18. QED
    BY <1>4, <1>6, <1>8, <1>13, <1>14, <1>15, <1>16, <1>17 DEF Sound

(* lua_resume begins in a C function of L, for any thread co: its nny      *)
(* starts again and its nCcalls covers the calls of its resumer.           *)
LEMMA PushResume ==
  ASSUME NEW s, NEW L, Active(s, L), TopOf(s).fn = "cfun", NEW co \in Threads,
         NEW f, IsFrame(f), f.fn = "resume", f.L = co, f.status = OK, f.nny = s.th[co].nny,
         NEW r, IsThread(r), r.jmp = s.th[co].jmp, r.nny = 0, r.nC = s.th[L].nC + 1,
         NEW u, u = Push(With(s, co, r), f)
  PROVE  /\ Sound(u) /\ ~u.panic /\ Len(u.cs) = Len(s.cs) + 1 /\ TopOf(u) = f
         /\ \A i \in 1 .. Len(s.cs) : u.cs[i] = s.cs[i]
         /\ u.th[co] = r /\ u.th[co].nny = Nny(u.cs, co, Len(u.cs))
         /\ \A t \in Threads : t # co => u.th[t] = s.th[t]
  <1> DEFINE n == Len(s.cs)
             d == u.cs
  <1>1. /\ Shaped(s) /\ StackOK(s.cs) /\ StatusesOK(s.cs) /\ JumpsOK(s) /\ CountsOK(s)
        /\ NestingOK(s) /\ TopOf(s) = s.cs[n] /\ s.cs[n].L = L /\ s.cs[n].status = OK
        /\ s.cs[n].fn = "cfun" /\ ~s.panic
    BY DEF Active, Good, Sound, TopOf
  <1>2. n \in Nat \ {0} /\ L \in Threads
    BY <1>1, Types
  <1>3. /\ Shaped(With(s, co, r)) /\ With(s, co, r).th[co] = r
        /\ \A t \in Threads : t # co => With(s, co, r).th[t] = s.th[t]
        /\ With(s, co, r).cs = s.cs /\ With(s, co, r).panic = s.panic
    BY <1>1, WithShaped
  <1>4. /\ Shaped(u) /\ u.th[co] = r /\ ~u.panic /\ Len(d) = n + 1 /\ TopOf(u) = f
        /\ d[n + 1] = f
        /\ \A t \in Threads : t # co => u.th[t] = s.th[t]
        /\ \A i \in 1 .. n : d[i] = s.cs[i]
    BY <1>1, <1>3, PushShaped
  <1>5. Agree(s.cs, d, n)
    BY <1>4 DEF Agree
  <1>6. \A i \in 1 .. n : s.cs[i].status # OK => s.cs[i].fn = "resume"
    BY <1>1, <1>2 DEF StatusesOK
  <1>7. /\ \A t \in Threads : Nny(d, t, n) = Nny(s.cs, t, n)
        /\ \A t \in Threads : Raws(d, t, n) = Raws(s.cs, t, n)
        /\ \A i \in 1 .. n : Nesting(d, i) = Nesting(s.cs, i)
    BY <1>2, <1>5, AgreeCounts, AgreeNesting
  <1>8. \A t \in Threads : s.th[t].nny = Nny(d, t, n)
    BY <1>1, <1>7 DEF CountsOK
  <1>9. StackOK(d)
    <2>1. (n + 1) - 1 = n /\ n + 1 # 1 /\ n + 1 > 1
      BY <1>2
    <2>2. \A k \in 1 .. n : n + 1 \in k + 1 .. n + 1
      BY <1>2
    <2>3. d[n].fn = "cfun"
      BY <1>1, <1>2, <1>4
    <2>4. FrameAt(d, n + 1)
      BY <1>4, <1>8, <2>1, <2>2, <2>3 DEF FrameAt
    <2>5. QED
      BY <1>1, <1>2, <1>4, <1>5, <2>4, StackGrows
  <1>10. StatusesOK(d)
    <2>1. \A i \in 1 .. n : d[i].status # OK => d[i].fn = "resume"
      BY <1>4, <1>6
    <2>2. Len(d) = n + 1 /\ d[n + 1].status = OK
      BY <1>4
    <2>3. QED
      BY <1>2, <2>1, <2>2, StatusesGrow
  <1>11. JumpsOK(u)
    <2>1. \A t \in Threads : Raws(d, t, n + 1) = Raws(d, t, n)
      BY <1>2, <1>4 DEF Raws
    <2>2. \A t \in Threads : u.th[t].jmp = s.th[t].jmp
      BY <1>4
    <2>3. QED
      BY <1>1, <1>4, <1>7, <2>1, <2>2 DEF JumpsOK, Innermost
  <1>12. u.th[co].nny = Nny(d, co, n + 1)
    BY <1>2, <1>4, NnyResume
  <1>13. CountsOK(u)
    <2>1. ASSUME NEW t \in Threads, t # co
          PROVE  u.th[t].nny = Nny(d, t, n + 1)
      <3>1. Nny(d, t, n + 1) = Nny(d, t, n)
        BY <1>2, <1>4, <2>1, NnyPlain
      <3>2. QED
        BY <1>4, <1>8, <2>1, <3>1
    <2>2. QED
      BY <1>4, <1>12, <2>1 DEF CountsOK
  <1>14. NestingOK(u)
    <2>1. Nesting(d, n) <= s.th[L].nC /\ Nesting(d, n) \in Nat /\ s.th[L].nC \in Int
      BY <1>1, <1>2, <1>7, NestingType, Types DEF NestingOK
    <2>2. Nesting(d, n + 1) = Nesting(d, n) + 1
      <3>1. n \in Nat /\ d[n + 1].fn \in {"call", "resume"}
        BY <1>2, <1>4
      <3>2. QED
        BY <3>1, NestingStep
    <2>3. Nesting(d, n + 1) <= u.th[co].nC
      BY <1>4, <2>1, <2>2
    <2>4. ASSUME NEW i \in 1 .. n
          PROVE  Nesting(d, i) <= u.th[d[i].L].nC
      <3>1. CASE d[i].L = co
        <4>1. Nesting(d, i) <= Nesting(d, n) /\ Nesting(d, i) \in Nat
          BY <1>2, NestingMonotone, NestingType
        <4>2. QED
          BY <1>4, <2>1, <3>1, <4>1
      <3>2. CASE d[i].L # co
        <4>1. d[i].L \in Threads /\ d[i].L = s.cs[i].L
          BY <1>1, <1>4, Types
        <4>2. QED
          BY <1>1, <1>4, <1>7, <3>2, <4>1 DEF NestingOK
      <3>3. QED
        BY <3>1, <3>2
    <2>5. QED
      BY <1>2, <1>4, <2>3, <2>4 DEF NestingOK
  <1>15. QED
    BY <1>4, <1>9, <1>10, <1>11, <1>12, <1>13, <1>14 DEF Sound

----------------------------------------------------------------------------
(* Changes of the fields of one thread. *)

Local(s, u, L) == u = With(s, L, u.th[L]) /\ IsThread(u.th[L])

LEMMA LocalSelf ==
  ASSUME NEW s, Shaped(s), NEW L \in Threads
  PROVE  Local(s, s, L)
  <1>1. s = [th |-> s.th, cs |-> s.cs, panic |-> s.panic] /\ s.th = [t \in Threads |-> s.th[t]]
    BY DEF Shaped
  <1>2. [s.th EXCEPT ![L] = s.th[L]] = s.th
    BY <1>1
  <1>3. With(s, L, s.th[L]) = [th |-> [s.th EXCEPT ![L] = s.th[L]], cs |-> s.cs,
                               panic |-> s.panic]
    BY <1>1 DEF With
  <1>4. QED
    BY <1>1, <1>2, <1>3, Types DEF Local

(* Giving thread L new fields replaces those it was given before.          *)
LEMMA LocalAgain ==
  ASSUME NEW s, Shaped(s), NEW L \in Threads, NEW u, Local(s, u, L), NEW r, IsThread(r)
  PROVE  Local(s, With(u, L, r), L) /\ With(u, L, r).th[L] = r
  <1> DEFINE q == u.th[L]
  <1>1. u = With(s, L, q) /\ IsThread(q)
    BY DEF Local
  <1> HIDE DEF q
  <1>2. s = [th |-> s.th, cs |-> s.cs, panic |-> s.panic] /\ s.th = [t \in Threads |-> s.th[t]]
    BY DEF Shaped
  <1>3. u = [th |-> [s.th EXCEPT ![L] = q], cs |-> s.cs, panic |-> s.panic]
    BY <1>1, <1>2 DEF With
  <1>4. With(u, L, r) = [th |-> [[s.th EXCEPT ![L] = q] EXCEPT ![L] = r], cs |-> s.cs,
                         panic |-> s.panic]
    BY <1>3 DEF With
  <1>5. [[s.th EXCEPT ![L] = q] EXCEPT ![L] = r] = [s.th EXCEPT ![L] = r]
    BY <1>2
  <1>6. With(s, L, r) = [th |-> [s.th EXCEPT ![L] = r], cs |-> s.cs, panic |-> s.panic]
    BY <1>2 DEF With
  <1>7. With(u, L, r) = With(s, L, r)
    BY <1>4, <1>5, <1>6
  <1>8. With(s, L, r).th[L] = r
    BY WithShaped
  <1>9. QED
    BY <1>7, <1>8 DEF Local

(* The fields no count depends on. *)
LEMMA LocalFields ==
  ASSUME NEW s, Shaped(s), NEW L \in Threads, NEW u, Local(s, u, L), NEW x,
         NEW w, \/ w = [u EXCEPT !.th[L].ci = x] \/ w = [u EXCEPT !.th[L].up = x]
                \/ w = [u EXCEPT !.th[L].errfunc = x] \/ w = [u EXCEPT !.th[L].status = x]
                \/ w = [u EXCEPT !.th[L].big = x]
  PROVE  Local(s, w, L) /\ SameCounts(w.th[L], u.th[L])
  <1> DEFINE q == u.th[L]
  <1>1. IsThread(q)
    BY DEF Local
  <1>2. ASSUME NEW r, w = With(u, L, r), IsThread(r), SameCounts(r, q)
        PROVE  Local(s, w, L) /\ SameCounts(w.th[L], u.th[L])
    BY <1>2, LocalAgain
  <1>3. CASE w = [u EXCEPT !.th[L].ci = x]
    <2>1. w = With(u, L, [q EXCEPT !.ci = x])
      BY <1>3 DEF With
    <2>2. IsThread([q EXCEPT !.ci = x]) /\ SameCounts([q EXCEPT !.ci = x], q)
      BY <1>1 DEF IsThread, SameCounts
    <2>3. QED
      BY <1>2, <2>1, <2>2
  <1>4. CASE w = [u EXCEPT !.th[L].up = x]
    <2>1. w = With(u, L, [q EXCEPT !.up = x])
      BY <1>4 DEF With
    <2>2. IsThread([q EXCEPT !.up = x]) /\ SameCounts([q EXCEPT !.up = x], q)
      BY <1>1 DEF IsThread, SameCounts
    <2>3. QED
      BY <1>2, <2>1, <2>2
  <1>5. CASE w = [u EXCEPT !.th[L].errfunc = x]
    <2>1. w = With(u, L, [q EXCEPT !.errfunc = x])
      BY <1>5 DEF With
    <2>2. IsThread([q EXCEPT !.errfunc = x]) /\ SameCounts([q EXCEPT !.errfunc = x], q)
      BY <1>1 DEF IsThread, SameCounts
    <2>3. QED
      BY <1>2, <2>1, <2>2
  <1>6. CASE w = [u EXCEPT !.th[L].status = x]
    <2>1. w = With(u, L, [q EXCEPT !.status = x])
      BY <1>6 DEF With
    <2>2. IsThread([q EXCEPT !.status = x]) /\ SameCounts([q EXCEPT !.status = x], q)
      BY <1>1 DEF IsThread, SameCounts
    <2>3. QED
      BY <1>2, <2>1, <2>2
  <1>7. CASE w = [u EXCEPT !.th[L].big = x]
    <2>1. w = With(u, L, [q EXCEPT !.big = x])
      BY <1>7 DEF With
    <2>2. IsThread([q EXCEPT !.big = x]) /\ SameCounts([q EXCEPT !.big = x], q)
      BY <1>1 DEF IsThread, SameCounts
    <2>3. QED
      BY <1>2, <2>1, <2>2
  <1>8. QED
    BY <1>3, <1>4, <1>5, <1>6, <1>7

(* The counters. *)
LEMMA LocalNny ==
  ASSUME NEW s, Shaped(s), NEW L \in Threads, NEW u, Local(s, u, L), NEW x \in Int,
         NEW w, w = [u EXCEPT !.th[L].nny = x]
  PROVE  Local(s, w, L) /\ w.th[L].nny = x /\ w.th[L].nC = u.th[L].nC
         /\ w.th[L].jmp = u.th[L].jmp
  <1> DEFINE q == u.th[L]
             r == [q EXCEPT !.nny = x]
  <1>1. w = With(u, L, r)
    BY DEF With
  <1>2. IsThread(r) /\ r.nny = x /\ r.nC = q.nC /\ r.jmp = q.jmp
    BY DEF IsThread, Local
  <1> HIDE DEF q, r
  <1>3. Local(s, With(u, L, r), L) /\ With(u, L, r).th[L] = r
    BY <1>2, LocalAgain
  <1>4. QED
    BY <1>1, <1>2, <1>3 DEF q

LEMMA LocalNC ==
  ASSUME NEW s, Shaped(s), NEW L \in Threads, NEW u, Local(s, u, L), NEW x \in Int,
         NEW w, w = [u EXCEPT !.th[L].nC = x]
  PROVE  Local(s, w, L) /\ w.th[L].nC = x /\ w.th[L].nny = u.th[L].nny
         /\ w.th[L].jmp = u.th[L].jmp
  <1> DEFINE q == u.th[L]
             r == [q EXCEPT !.nC = x]
  <1>1. w = With(u, L, r)
    BY DEF With
  <1>2. IsThread(r) /\ r.nC = x /\ r.nny = q.nny /\ r.jmp = q.jmp
    BY DEF IsThread, Local
  <1> HIDE DEF q, r
  <1>3. Local(s, With(u, L, r), L) /\ With(u, L, r).th[L] = r
    BY <1>2, LocalAgain
  <1>4. QED
    BY <1>1, <1>2, <1>3 DEF q

LEMMA LocalJmp ==
  ASSUME NEW s, Shaped(s), NEW L \in Threads, NEW u, Local(s, u, L), NEW x \in Nat,
         NEW w, w = [u EXCEPT !.th[L].jmp = x]
  PROVE  Local(s, w, L) /\ w.th[L].jmp = x /\ w.th[L].nny = u.th[L].nny
         /\ w.th[L].nC = u.th[L].nC
  <1> DEFINE q == u.th[L]
             r == [q EXCEPT !.jmp = x]
  <1>1. w = With(u, L, r)
    BY DEF With
  <1>2. IsThread(r) /\ r.jmp = x /\ r.nny = q.nny /\ r.nC = q.nC
    BY DEF IsThread, Local
  <1> HIDE DEF q, r
  <1>3. Local(s, With(u, L, r), L) /\ With(u, L, r).th[L] = r
    BY <1>2, LocalAgain
  <1>4. QED
    BY <1>1, <1>2, <1>3 DEF q

(* What an active state offers to the lemmas above. *)
LEMMA ActiveFacts ==
  ASSUME NEW s, NEW L, Active(s, L)
  PROVE  /\ Good(s) /\ Sound(s) /\ Shaped(s) /\ L \in Threads /\ IsThread(s.th[L])
         /\ \A t \in Threads : s.th[t].nC \in Int /\ s.th[t].nC <= Limit
                               /\ s.th[t].nny = Nny(s.cs, t, Len(s.cs))
         /\ s.th[L].nny \in Int
         /\ \A i \in 1 .. Len(s.cs) : s.cs[i].fn = "raw" => s.cs[i].nC <= Limit
  <1>1. Good(s) /\ Sound(s) /\ Shaped(s) /\ Bounded(s) /\ CountsOK(s)
        /\ TopOf(s).status = OK /\ TopOf(s).fn # "resume"
    BY DEF Active, Good, Sound
  <1>2. L \in Threads /\ \A t \in Threads : IsThread(s.th[t]) /\ s.th[t].nC \in Int
                                            /\ s.th[t].nny \in Int
    BY <1>1, Types DEF Active
  <1>3. \A t \in Threads : s.th[t].nC <= Limit
    BY <1>1, <1>2, LimitType DEF Bounded, ThreadsBounded, Reporting
  <1>4. \A t \in Threads : s.th[t].nny = Nny(s.cs, t, Len(s.cs))
    BY <1>1 DEF CountsOK
  <1>5. ASSUME NEW i \in 1 .. Len(s.cs), s.cs[i].fn = "raw"
        PROVE  s.cs[i].nC <= Limit
    <2>1. ~(i = Len(s.cs) /\ s.cs[i].status = RESUME_ERROR)
      BY <1>1 DEF TopOf, OK, RESUME_ERROR
    <2>2. s.cs[i].nC \in Int
      BY <1>1, Types
    <2>3. QED
      BY <1>1, <1>5, <2>1, <2>2, LimitType DEF Bounded, SavedBounded
  <1>6. QED
    BY <1>1, <1>2, <1>3, <1>4, <1>5

LEMMA ActiveLocal ==
  ASSUME NEW s, NEW L, Active(s, L), NEW u, Local(s, u, L), SameCounts(u.th[L], s.th[L])
  PROVE  Active(u, L) /\ u.cs = s.cs
  <1>1. Good(s) /\ L \in Threads
    BY ActiveFacts
  <1> DEFINE r == u.th[L]
  <1>2. u = With(s, L, r) /\ IsThread(r)
    BY DEF Local
  <1> HIDE DEF r
  <1>3. SameCounts(r, s.th[L])
    BY DEF r
  <1>4. QED
    BY <1>1, <1>2, <1>3, Inessential

----------------------------------------------------------------------------
(* The functions of ldo.c, called by the thread that runs. *)

LEMMA PushPlain ==
  ASSUME NEW s, NEW L, Active(s, L),
         NEW fn, fn \notin {"raw", "resume", "noyield", "parser", "call", "pcall"}
  PROVE  Active(Push(s, Frame(fn, L)), L)
  <1> DEFINE f == Frame(fn, L)
             r == s.th[L]
  <1>1. Shaped(s) /\ L \in Threads /\ IsThread(r) /\ r.nC \in Int /\ r.nC <= Limit
        /\ r.nny \in Int
    BY ActiveFacts
  <1>2. IsFrame(f) /\ f.fn = fn /\ f.L = L /\ f.status = OK
    BY <1>1, NewFrame
  <1>3. s = With(s, L, r)
    BY <1>1, LocalSelf DEF Local
  <1> HIDE DEF f
  <1>4. /\ r.nny = s.th[L].nny + (IF f.fn \in {"noyield", "parser"} THEN 1 ELSE 0)
        /\ r.nC = s.th[L].nC + (IF f.fn = "call" THEN 1 ELSE 0)
        /\ r.jmp = s.th[L].jmp
    BY <1>1, <1>2
  <1>5. f.fn \notin {"raw", "resume"} /\ f.fn # "pcall"
    BY <1>2
  <1> HIDE DEF r
  <1>6. Active(Push(With(s, L, r), f), L)
    BY <1>1, <1>2, <1>4, <1>5, PushFrame
  <1>7. QED
    BY <1>3, <1>6 DEF f

LEMMA ActiveThrow ==
  ASSUME NEW s, NEW L, Active(s, L), NEW e \in Statuses \ {OK, RESUME_ERROR}
  PROVE  Good(LuaD_throw(s, L, e))
  <1>1. /\ Sound(s) /\ ~s.panic /\ TopOf(s).L = L /\ TopOf(s).status = OK
        /\ TopOf(s).fn # "resume"
    BY ActiveFacts DEF Active
  <1>2. \A t \in Threads : s.th[t].nC <= Limit + (IF t = L THEN 1 ELSE 0)
    BY ActiveFacts, LimitType
  <1>3. \A i \in 1 .. Len(s.cs) : s.cs[i].fn = "raw" =>
             s.cs[i].nC <= Limit + (IF i = s.th[L].jmp /\ e = RESUME_ERROR THEN 1 ELSE 0)
    BY ActiveFacts, LimitType
  <1>4. e \in Statuses \ {OK} /\ e # RESUME_ERROR
    OBVIOUS
  <1>5. QED
    BY <1>1, <1>2, <1>3, <1>4, Throw

LEMMA ErrorStatuses ==
  /\ YIELD \in Statuses \ {OK, RESUME_ERROR} /\ ERRRUN \in Statuses \ {OK, RESUME_ERROR}
  /\ ERRSYNTAX \in Statuses \ {OK, RESUME_ERROR} /\ ERRMEM \in Statuses \ {OK, RESUME_ERROR}
  /\ ERRERR \in Statuses \ {OK, RESUME_ERROR} /\ RESUME_ERROR \in Statuses \ {OK}
  BY DEF Statuses, OK, YIELD, ERRRUN, ERRSYNTAX, ERRMEM, ERRERR, RESUME_ERROR

(* Fields of the running thread that no count depends on.                  *)
LEMMA ActiveFields ==
  ASSUME NEW s, NEW L, Active(s, L), NEW x,
         NEW w, \/ w = [s EXCEPT !.th[L].ci = x] \/ w = [s EXCEPT !.th[L].up = x]
                \/ w = [s EXCEPT !.th[L].errfunc = x] \/ w = [s EXCEPT !.th[L].status = x]
                \/ w = [s EXCEPT !.th[L].big = x]
  PROVE  Active(w, L) /\ Local(s, w, L) /\ SameCounts(w.th[L], s.th[L])
  <1>1. Shaped(s) /\ L \in Threads /\ Local(s, s, L)
    BY ActiveFacts, LocalSelf
  <1>2. Local(s, w, L) /\ SameCounts(w.th[L], s.th[L])
    BY <1>1, LocalFields
  <1>3. QED
    BY <1>2, ActiveLocal

LEMMA Growstack ==
  ASSUME NEW s, NEW L, Active(s, L)
  PROVE  Good(LuaD_growstack(s, L))
  <1>1. Active([s EXCEPT !.th[L].big = TRUE], L)
    BY ActiveFields
  <1>2. Active(Push([s EXCEPT !.th[L].big = TRUE], Frame("error", L)), L)
    BY <1>1, PushPlain
  <1>3. Good(LuaD_throw(s, L, ERRERR))
    BY ActiveThrow, ErrorStatuses
  <1>4. QED
    BY <1>2, <1>3 DEF LuaD_growstack, Active

LEMMA Precall ==
  ASSUME NEW s, NEW L, Active(s, L), NEW lua \in BOOLEAN
  PROVE  /\ Good(LuaD_precall(s, L, lua))
         /\ StackFits(s, L) => Active(LuaD_precall(s, L, lua), L)
  <1> DEFINE c == Append(s.th[L].ci, CI(lua))
             entered == [s EXCEPT !.th[L].ci = c]
  <1>1. Active(entered, L)
    BY ActiveFields
  <1>2. LuaD_precall(s, L, lua) =
          IF ~StackFits(s, L) THEN LuaD_growstack(s, L)
          ELSE IF lua THEN entered ELSE Push(entered, Frame("cfun", L))
    BY DEF LuaD_precall
  <1> HIDE DEF entered
  <1>3. Active(Push(entered, Frame("cfun", L)), L)
    BY <1>1, PushPlain
  <1>4. QED
    BY <1>1, <1>2, <1>3, Growstack DEF Active

LEMMA Execute ==
  ASSUME NEW s, NEW L, Active(s, L)
  PROVE  Active(LuaV_execute(s, L), L)
  <1> DEFINE d == Depth(s, L)
             c == [s.th[L].ci EXCEPT ![d].fresh = TRUE]
             e == [s EXCEPT !.th[L].ci = c]
  <1>1. Active(e, L)
    BY ActiveFields
  <1>2. e = [s EXCEPT !.th[L].ci[d].fresh = TRUE]
    OBVIOUS
  <1> HIDE DEF e
  <1>3. Active(Push(e, Frame("execute", L)), L)
    BY <1>1, PushPlain
  <1>4. QED
    BY <1>2, <1>3 DEF LuaV_execute

LEMMA PrecallExecute ==
  ASSUME NEW s, NEW L, Active(s, L), NEW lua \in BOOLEAN
  PROVE  Good(PrecallAndExecute(s, L, lua))
  <1> DEFINE t == LuaD_precall(s, L, lua)
  <1>1. Good(t) /\ (StackFits(s, L) => Active(t, L))
    BY Precall
  <1>2. PrecallAndExecute(s, L, lua) =
          IF lua /\ StackFits(s, L) THEN LuaV_execute(t, L) ELSE t
    BY DEF PrecallAndExecute
  <1> HIDE DEF t
  <1>3. CASE lua /\ StackFits(s, L)
    <2>1. Active(LuaV_execute(t, L), L)
      BY <1>1, <1>3, Execute
    <2>2. QED
      BY <1>2, <1>3, <2>1 DEF Active
  <1>4. CASE ~(lua /\ StackFits(s, L))
    BY <1>1, <1>2, <1>4
  <1>5. QED
    BY <1>3, <1>4

(* luaD_call has counted a call without a frame for it yet. *)
LEMMA Counted ==
  ASSUME NEW s, NEW L, Active(s, L), NEW r, IsThread(r),
         r.nny = s.th[L].nny, r.nC = s.th[L].nC + 1, r.jmp = s.th[L].jmp,
         NEW u, u = With(s, L, r)
  PROVE  /\ Sound(u) /\ ~u.panic /\ u.cs = s.cs
         /\ u.th[L] = r /\ \A t \in Threads : t # L => u.th[t] = s.th[t]
         /\ r.nC <= Limit => Active(u, L)
  <1>1. /\ Sound(s) /\ Shaped(s) /\ L \in Threads
        /\ \A t \in Threads : s.th[t].nC \in Int /\ s.th[t].nC <= Limit
        /\ \A i \in 1 .. Len(s.cs) : s.cs[i].fn = "raw" => s.cs[i].nC <= Limit
        /\ \A i \in 1 .. Len(s.cs) : s.cs[i].L \in Threads /\ s.cs[i].nC \in Int
    BY ActiveFacts, Types
  <1>2. /\ Shaped(u) /\ u.th[L] = r /\ \A t \in Threads : t # L => u.th[t] = s.th[t]
        /\ u.cs = s.cs /\ u.panic = s.panic
    BY <1>1, WithShaped
  <1>3. \A t \in Threads : u.th[t].nny = s.th[t].nny /\ u.th[t].jmp = s.th[t].jmp
    BY <1>2
  <1>4. JumpsOK(u) /\ CountsOK(u)
    BY <1>1, <1>2, <1>3 DEF Sound, JumpsOK, CountsOK, TopOf
  <1>5. NestingOK(u)
    <2>1. ASSUME NEW i \in 1 .. Len(s.cs)
          PROVE  Nesting(s.cs, i) <= u.th[s.cs[i].L].nC
      <3>1. Nesting(s.cs, i) <= s.th[s.cs[i].L].nC
        BY <1>1 DEF Sound, NestingOK
      <3>2. Nesting(s.cs, i) \in Nat
        BY NestingType
      <3>3. CASE s.cs[i].L = L
        BY <1>1, <1>2, <3>1, <3>2, <3>3
      <3>4. CASE s.cs[i].L # L
        BY <1>1, <1>2, <3>1, <3>4
      <3>5. QED
        BY <3>3, <3>4
    <2>2. QED
      BY <1>2, <2>1 DEF NestingOK
  <1>6. Sound(u) /\ ~u.panic
    BY <1>1, <1>2, <1>4, <1>5 DEF Sound, Active
  <1>7. ASSUME r.nC <= Limit
        PROVE  Active(u, L)
    <2>1. \A t \in Threads : u.th[t].nC <= Limit /\ u.th[t].nC \in Int
      BY <1>1, <1>2, <1>7, Types
    <2>2. ThreadsBounded(u)
      BY <2>1, LimitType DEF ThreadsBounded
    <2>3. SavedBounded(u.cs)
      BY <1>1, <1>2, LimitType DEF SavedBounded
    <2>4. TopOf(u) = TopOf(s)
      BY <1>2 DEF TopOf
    <2>5. QED
      BY <1>6, <2>2, <2>3, <2>4 DEF Active, Good, Bounded
  <1>8. QED
    BY <1>2, <1>6, <1>7

(* luaD_call: an error is raised once at the limit, thrown beyond the      *)
(* space left to handle it, and nCcalls never passes that.                 *)
LEMMA Call ==
  ASSUME NEW s, NEW L, Active(s, L), NEW lua \in BOOLEAN
  PROVE  Good(LuaD_call(s, L, lua))
  <1> DEFINE n == s.th[L].nC + 1
             r == [s.th[L] EXCEPT !.nC = n]
             counted == With(s, L, r)
             f == Frame("call", L)
  <1>1. /\ Shaped(s) /\ L \in Threads /\ IsThread(s.th[L])
        /\ \A t \in Threads : s.th[t].nC \in Int /\ s.th[t].nC <= Limit
        /\ \A i \in 1 .. Len(s.cs) : s.cs[i].fn = "raw" => s.cs[i].nC <= Limit
        /\ s.th[L].nny \in Int
    BY ActiveFacts
  <1>2. IsThread(r) /\ r.nny = s.th[L].nny /\ r.nC = n /\ r.jmp = s.th[L].jmp
    BY <1>1 DEF IsThread
  <1>3. [s EXCEPT !.th[L].nC = n] = counted
    BY DEF With
  <1>4. LuaD_call(s, L, lua) =
          CASE n = MAXCCALLS -> Push(counted, Frame("error", L))
            [] n # MAXCCALLS /\ n >= MAXCCALLS + ExtraCalls -> LuaD_throw(counted, L, ERRERR)
            [] OTHER -> PrecallAndExecute(Push(counted, f), L, lua)
    BY <1>3 DEF LuaD_call
  <1>5. n \in Int /\ n <= Limit + 1
    BY <1>1, LimitType
  <1> HIDE DEF n, r, f
  <1>6. n = s.th[L].nC + 1
    BY DEF n
  <1> DEFINE v == counted
  <1>7. /\ Sound(v) /\ ~v.panic /\ v.cs = s.cs /\ v.th[L] = r
        /\ \A t \in Threads : t # L => v.th[t] = s.th[t]
        /\ r.nC <= Limit => Active(v, L)
    BY <1>2, <1>6, Counted
  <1> HIDE DEF counted
  <1>8. CASE n = MAXCCALLS
    <2>1. Active(Push(v, Frame("error", L)), L)
      BY <1>2, <1>7, <1>8, LimitType, PushPlain
    <2>2. QED
      BY <1>4, <1>8, <2>1 DEF Active
  <1>9. CASE n # MAXCCALLS /\ n >= MAXCCALLS + ExtraCalls
    <2>1. \A t \in Threads : v.th[t].nC <= Limit + (IF t = L THEN 1 ELSE 0)
      BY <1>1, <1>2, <1>5, <1>7, LimitType
    <2>2. \A i \in 1 .. Len(v.cs) : v.cs[i].fn = "raw" =>
             v.cs[i].nC <= Limit + (IF i = v.th[L].jmp /\ ERRERR = RESUME_ERROR THEN 1 ELSE 0)
      BY <1>1, <1>7, LimitType, ErrorStatuses
    <2>3. TopOf(v).L = L /\ TopOf(v).status = OK /\ TopOf(v).fn # "resume"
      BY <1>7 DEF Active, TopOf
    <2>4. ERRERR \in Statuses \ {OK} /\ ERRERR # RESUME_ERROR
      BY ErrorStatuses
    <2>5. Good(LuaD_throw(v, L, ERRERR))
      BY <1>7, <2>1, <2>2, <2>3, <2>4, Throw
    <2>6. QED
      BY <1>4, <1>9, <2>5
  <1>10. CASE n # MAXCCALLS /\ ~(n >= MAXCCALLS + ExtraCalls)
    <2>1. n <= Limit
      BY <1>5, <1>10, CallsAssumption DEF Limit
    <2>2. IsFrame(f) /\ f.fn = "call" /\ f.L = L /\ f.status = OK
      BY <1>1, NewFrame DEF f
    <2>3. /\ f.fn \notin {"raw", "resume"} /\ f.fn # "pcall"
          /\ r.nny = s.th[L].nny + (IF f.fn \in {"noyield", "parser"} THEN 1 ELSE 0)
          /\ r.nC = s.th[L].nC + (IF f.fn = "call" THEN 1 ELSE 0)
          /\ r.nC <= Limit
      BY <1>1, <1>2, <1>6, <2>1, <2>2
    <2>4. Active(Push(With(s, L, r), f), L)
      BY <1>2, <2>2, <2>3, PushFrame
    <2>5. Good(PrecallAndExecute(Push(counted, f), L, lua))
      BY <2>4, PrecallExecute DEF counted
    <2>6. QED
      BY <1>4, <1>10, <2>5
  <1>11. QED
    BY <1>8, <1>9, <1>10

(* One more call that may not yield. *)
LEMMA PushHeld ==
  ASSUME NEW s, NEW L, Active(s, L), NEW fn \in {"noyield", "parser"}
  PROVE  Active(Push([s EXCEPT !.th[L].nny = @ + 1], Frame(fn, L)), L)
  <1> DEFINE f == Frame(fn, L)
             r == [s.th[L] EXCEPT !.nny = @ + 1]
  <1>1. /\ Shaped(s) /\ L \in Threads /\ IsThread(s.th[L]) /\ s.th[L].nny \in Int
        /\ s.th[L].nC \in Int /\ s.th[L].nC <= Limit
    BY ActiveFacts
  <1>2. IsThread(r) /\ r.nny = s.th[L].nny + 1 /\ r.nC = s.th[L].nC /\ r.jmp = s.th[L].jmp
    BY <1>1 DEF IsThread
  <1>3. [s EXCEPT !.th[L].nny = @ + 1] = With(s, L, r)
    BY DEF With
  <1>4. IsFrame(f) /\ f.fn = fn /\ f.L = L /\ f.status = OK
    BY <1>1, NewFrame
  <1> HIDE DEF f, r
  <1>5. /\ f.fn \notin {"raw", "resume"} /\ f.fn # "pcall"
        /\ r.nny = s.th[L].nny + (IF f.fn \in {"noyield", "parser"} THEN 1 ELSE 0)
        /\ r.nC = s.th[L].nC + (IF f.fn = "call" THEN 1 ELSE 0)
        /\ r.nC <= Limit
    BY <1>1, <1>2, <1>4
  <1>6. Active(Push(With(s, L, r), f), L)
    BY <1>2, <1>4, <1>5, PushFrame
  <1>7. QED
    BY <1>3, <1>6 DEF f

LEMMA CallNoyield ==
  ASSUME NEW s, NEW L, Active(s, L), NEW lua \in BOOLEAN
  PROVE  Good(LuaD_callnoyield(s, L, lua))
  <1> DEFINE t == Push([s EXCEPT !.th[L].nny = @ + 1], Frame("noyield", L))
  <1>1. Active(t, L)
    BY PushHeld
  <1>2. LuaD_callnoyield(s, L, lua) = LuaD_call(t, L, lua)
    BY DEF LuaD_callnoyield
  <1> HIDE DEF t
  <1>3. QED
    BY <1>1, <1>2, Call


----------------------------------------------------------------------------
(* What an action leaves. *)

LEMMA Becomes ==
  ASSUME NEW s, Good(s), Become(s)
  PROVE  CallsInv'
  <1>1. s = [th |-> s.th, cs |-> s.cs, panic |-> s.panic]
    BY DEF Good, Sound, Shaped
  <1>2. State' = s
    BY <1>1 DEF Become, State
  <1>3. QED
    BY <1>2 DEF CallsInv

(* The innermost frame belongs to L and is not one to which a status has   *)
(* come.                                                                   *)
LEMMA Runs ==
  ASSUME NEW L, CallsInv, ~panic, Top.L = L, Top.fn \notin {"raw", "pcall", "resume"}
  PROVE  Active(State, L)
  <1>1. TopOf(State) = Top /\ State.cs = cs /\ ~State.panic /\ Good(State)
    BY DEF TopOf, State, Top, CallsInv
  <1>2. Len(cs) \in Nat \ {0} /\ StatusesOK(cs)
    BY <1>1, Types DEF Good, Sound
  <1>3. Top.status = OK
    BY <1>2 DEF StatusesOK, Top
  <1>4. QED
    BY <1>1, <1>3 DEF Active

----------------------------------------------------------------------------
(* Lua code. *)

LEMMA CallKeeps ==
  ASSUME NEW L, CallsInv, OP_CALL(L)
  PROVE  CallsInv'
  <1>1. Active(State, L)
    BY Runs DEF OP_CALL, Running
  <1>2. PICK lua \in BOOLEAN : Become(LuaD_precall(State, L, lua))
    BY DEF OP_CALL
  <1>3. Good(LuaD_precall(State, L, lua))
    BY <1>1, Precall
  <1>4. QED
    BY <1>2, <1>3, Becomes

(* A frame other than that of a C function is not the only one. *)
LEMMA NotAlone ==
  ASSUME NEW s, Sound(s), TopOf(s).fn # "cfun"
  PROVE  Len(s.cs) > 1
  <1>1. Len(s.cs) \in Nat \ {0} /\ StackOK(s.cs)
    BY Types DEF Sound
  <1>2. FrameAt(s.cs, Len(s.cs))
    BY <1>1 DEF StackOK
  <1> DEFINE n == Len(s.cs)
  <1>3. n = 1 => s.cs[n].fn = "cfun"
    BY <1>2 DEF FrameAt
  <1>4. s.cs[n].fn # "cfun"
    BY DEF TopOf
  <1>5. n # 1
    BY <1>3, <1>4
  <1>6. n \in Nat \ {0}
    BY <1>1
  <1> HIDE DEF n
  <1>7. n > 1
    BY <1>5, <1>6
  <1>8. QED
    BY <1>7 DEF n

(* Frames that nothing is counted for. *)
LEMMA PopPlain ==
  ASSUME NEW s, NEW L, Active(s, L), Len(s.cs) > 1,
         TopOf(s).fn \notin {"raw", "resume", "noyield", "parser", "call", "pcall"}
  PROVE  Active(Pop(s), L)
  <1> DEFINE n == Len(s.cs)
             m == n - 1
             r == s.th[L]
  <1>1. /\ Shaped(s) /\ Sound(s) /\ Good(s) /\ L \in Threads /\ IsThread(r) /\ r.nC \in Int
        /\ r.nC <= Limit /\ r.nny = Nny(s.cs, L, n) /\ ~s.panic /\ TopOf(s).L = L
        /\ TopOf(s) = s.cs[n]
    BY ActiveFacts DEF Active, TopOf
  <1>2. n \in Nat \ {0} /\ n = m + 1 /\ m \in Nat
    BY <1>1, Types
  <1> HIDE DEF m
  <1>3. Nny(s.cs, L, m) = Nny(s.cs, L, n)
    BY <1>1, <1>2, NnyPlain
  <1>4. Nesting(s.cs, m) = Nesting(s.cs, n)
    <2>1. s.cs[m + 1].fn \notin {"call", "resume"}
      BY <1>1, <1>2
    <2>2. QED
      BY <1>2, <2>1, NestingStep
  <1>5. Nesting(s.cs, n) <= r.nC
    BY <1>1, <1>2 DEF Sound, NestingOK
  <1>6. s = With(s, L, r)
    BY <1>1, LocalSelf DEF Local
  <1> HIDE DEF r
  <1>7. r.jmp = s.th[L].jmp
    BY DEF r
  <1>8. Active(Pop(With(s, L, r)), L)
    BY <1>1, <1>3, <1>4, <1>5, <1>7, PopFrame DEF m
  <1>9. QED
    BY <1>6, <1>8

LEMMA Close ==
  ASSUME NEW s, NEW L, Active(s, L), NEW level
  PROVE  Active(LuaF_close(s, L, level), L)
  <1> DEFINE x == {u \in s.th[L].up : u < level}
  <1>1. LuaF_close(s, L, level) = [s EXCEPT !.th[L].up = x]
    BY DEF LuaF_close
  <1> HIDE DEF x
  <1>2. QED
    BY <1>1, ActiveFields

LEMMA Poscall ==
  ASSUME NEW s, NEW L, Active(s, L)
  PROVE  Active(LuaD_poscall(s, L), L)
  <1> DEFINE x == SubSeq(s.th[L].ci, 1, Len(s.th[L].ci) - 1)
  <1>1. LuaD_poscall(s, L) = [s EXCEPT !.th[L].ci = x]
    BY DEF LuaD_poscall
  <1> HIDE DEF x
  <1>2. QED
    BY <1>1, ActiveFields

(* The stacks and the frame of State. *)
LEMMA Fields == State.th = th /\ State.cs = cs /\ State.panic = panic /\ TopOf(State) = Top
  BY DEF State, TopOf, Top

LEMMA TailcallKeeps ==
  ASSUME NEW L, CallsInv, OP_TAILCALL(L)
  PROVE  CallsInv'
  <1> DEFINE t == LuaD_precall(State, L, TRUE)
             u == LuaF_close(LuaD_poscall(t, L), L, Depth(State, L))
  <1>1. Active(State, L)
    BY Runs DEF OP_TAILCALL, Running
  <1>2. Good(t) /\ (StackFits(State, L) => Active(t, L))
    BY <1>1, Precall
  <1>3. Become(IF StackFits(State, L) THEN u ELSE t)
    BY DEF OP_TAILCALL
  <1> HIDE DEF t
  <1>4. StackFits(State, L) => Active(u, L)
    BY <1>2, Poscall, Close
  <1> HIDE DEF u
  <1>5. QED
    BY <1>2, <1>3, <1>4, Becomes DEF Active

LEMMA ReturnKeeps ==
  ASSUME NEW L, CallsInv, OP_RETURN(L)
  PROVE  CallsInv'
  <1> DEFINE c == LuaF_close(State, L, Depth(State, L))
             t == LuaD_poscall(c, L)
             fresh == CurrentCI(State, L).fresh
  <1>1. Active(State, L) /\ Top.fn = "execute"
    BY Runs DEF OP_RETURN, Running
  <1>2. Active(c, L) /\ c.cs = cs
    <2>1. Active(c, L)
      BY <1>1, Close
    <2>2. QED
      BY <2>1, Fields DEF LuaF_close
  <1> HIDE DEF c
  <1>3. Active(t, L) /\ t.cs = cs
    <2>1. Active(t, L)
      BY <1>2, Poscall
    <2>2. QED
      BY <1>2, <2>1 DEF LuaD_poscall
  <1>4. Become(IF fresh THEN Pop(t) ELSE t)
    BY DEF OP_RETURN, c
  <1> HIDE DEF t, fresh
  <1>5. Active(Pop(t), L)
    <2>1. TopOf(t).fn = "execute"
      BY <1>1, <1>3 DEF TopOf, Top
    <2>2. Len(t.cs) > 1
      BY <1>3, <2>1, NotAlone, ActiveFacts
    <2>3. QED
      BY <1>3, <2>1, <2>2, PopPlain
  <1>6. QED
    BY <1>3, <1>4, <1>5, Becomes DEF Active

LEMMA ClosureKeeps ==
  ASSUME NEW L, CallsInv, OP_CLOSURE(L)
  PROVE  CallsInv'
  <1> DEFINE x == State.th[L].up \cup {Depth(State, L)}
             u == [State EXCEPT !.th[L].up = x]
  <1>1. Active(State, L)
    BY Runs DEF OP_CLOSURE, Running
  <1>2. Become(u)
    BY DEF OP_CLOSURE
  <1> HIDE DEF x
  <1>3. Active(u, L)
    BY <1>1, ActiveFields
  <1> HIDE DEF u
  <1>4. QED
    BY <1>2, <1>3, Becomes DEF Active

LEMMA JmpKeeps ==
  ASSUME NEW L, CallsInv, OP_JMP(L)
  PROVE  CallsInv'
  <1>1. Active(State, L)
    BY Runs DEF OP_JMP, Running
  <1>2. Active(LuaF_close(State, L, Depth(State, L)), L)
    BY <1>1, Close
  <1>3. QED
    BY <1>2, Becomes DEF Active, OP_JMP

LEMMA CallTMKeeps ==
  ASSUME NEW L, CallsInv, LuaT_callTM(L)
  PROVE  CallsInv'
  <1>1. Active(State, L)
    BY Runs DEF LuaT_callTM
  <1>2. PICK lua \in BOOLEAN :
          Become(IF CurrentCI(State, L).lua THEN LuaD_call(State, L, lua)
                 ELSE LuaD_callnoyield(State, L, lua))
    BY DEF LuaT_callTM
  <1>3. Good(LuaD_call(State, L, lua)) /\ Good(LuaD_callnoyield(State, L, lua))
    BY <1>1, Call, CallNoyield
  <1>4. QED
    BY <1>2, <1>3, Becomes

LEMMA RunerrorKeeps ==
  ASSUME NEW L, CallsInv, LuaG_runerror(L)
  PROVE  CallsInv'
  <1>1. Active(State, L)
    BY Runs DEF LuaG_runerror
  <1>2. Active(Push(State, Frame("error", L)), L)
    BY <1>1, PushPlain
  <1>3. QED
    BY <1>2, Becomes DEF Active, LuaG_runerror

LEMMA MemoryErrorKeeps ==
  ASSUME NEW L, CallsInv, MemoryError(L)
  PROVE  CallsInv'
  <1>1. Active(State, L)
    BY Runs DEF MemoryError
  <1>2. Good(LuaD_throw(State, L, ERRMEM))
    BY <1>1, ActiveThrow, ErrorStatuses
  <1>3. QED
    BY <1>2, Becomes DEF MemoryError

LEMMA ErrormsgKeeps ==
  ASSUME NEW L, CallsInv, LuaG_errormsg(L)
  PROVE  CallsInv'
  <1> DEFINE t == Push(Pop(State), Frame("errormsg", L))
  <1>1. Active(State, L) /\ TopOf(State).fn = "error"
    BY Runs, Fields DEF LuaG_errormsg, Running
  <1>2. Good(LuaD_throw(State, L, ERRRUN))
    BY <1>1, ActiveThrow, ErrorStatuses
  <1>3. Active(t, L)
    <2>1. Len(State.cs) > 1
      BY <1>1, NotAlone, ActiveFacts
    <2>2. Active(Pop(State), L)
      BY <1>1, <2>1, PopPlain
    <2>3. QED
      BY <2>2, PushPlain
  <1>4. PICK lua \in BOOLEAN :
          Become(IF th[L].errfunc = 0 THEN LuaD_throw(State, L, ERRRUN)
                 ELSE LuaD_callnoyield(t, L, lua))
    BY DEF LuaG_errormsg
  <1> HIDE DEF t
  <1>5. Good(LuaD_callnoyield(t, L, lua))
    BY <1>3, CallNoyield
  <1>6. QED
    BY <1>2, <1>4, <1>5, Becomes

LEMMA ErrormsgThrowsKeeps ==
  ASSUME NEW L, CallsInv, ErrormsgThrows(L)
  PROVE  CallsInv'
  <1>1. Active(State, L)
    BY Runs DEF ErrormsgThrows, Running
  <1>2. Good(LuaD_throw(State, L, ERRRUN))
    BY <1>1, ActiveThrow, ErrorStatuses
  <1>3. QED
    BY <1>2, Becomes DEF ErrormsgThrows

----------------------------------------------------------------------------
(* C functions. *)

LEMMA CallkKeeps ==
  ASSUME NEW L, NEW k \in BOOLEAN, CallsInv, Lua_callk(L, k)
  PROVE  CallsInv'
  <1> DEFINE d == Depth(State, L)
             x == [State.th[L].ci EXCEPT ![d].k = TRUE]
             kept == [State EXCEPT !.th[L].ci = x]
  <1>1. Active(State, L)
    BY Runs DEF Lua_callk, Running
  <1>2. kept = [State EXCEPT !.th[L].ci[d].k = TRUE]
    OBVIOUS
  <1> HIDE DEF x
  <1>3. Active(kept, L)
    BY <1>1, ActiveFields
  <1> HIDE DEF kept
  <1>4. PICK lua \in BOOLEAN : Become(IF k /\ th[L].nny = 0 THEN LuaD_call(kept, L, lua)
                                      ELSE LuaD_callnoyield(State, L, lua))
    BY <1>2 DEF Lua_callk
  <1>5. Good(LuaD_call(kept, L, lua)) /\ Good(LuaD_callnoyield(State, L, lua))
    BY <1>1, <1>3, Call, CallNoyield
  <1>6. QED
    BY <1>4, <1>5, Becomes

(* luaD_pcall saves the state of its thread and runs protected.            *)
LEMMA Pcall ==
  ASSUME NEW s, NEW L, Active(s, L), NEW ef
  PROVE  Active(LuaD_pcall(s, L, ef), L)
  <1> DEFINE e == [s EXCEPT !.th[L].errfunc = ef]
             f == [fn |-> "pcall", L |-> L, ci |-> Depth(s, L), nny |-> s.th[L].nny, nC |-> 0,
                   err |-> s.th[L].errfunc, jmp |-> 0, status |-> OK]
             p == Push(e, f)
             u == LuaD_rawrunprotected(p, L)
  <1>1. Shaped(s) /\ L \in Threads /\ s.th[L].nny \in Int /\ ~s.panic
    BY ActiveFacts DEF Active
  <1>2. [Frame("pcall", L) EXCEPT !.ci = Depth(s, L), !.nny = s.th[L].nny,
                                  !.err = s.th[L].errfunc] = f
    <2> DEFINE g == [Frame("pcall", L) EXCEPT !.ci = Depth(s, L)]
               h == [g EXCEPT !.nny = s.th[L].nny]
    <2>1. g = [fn |-> "pcall", L |-> L, ci |-> Depth(s, L), nny |-> 0, nC |-> 0, err |-> 0,
               jmp |-> 0, status |-> OK]
      BY DEF Frame
    <2> HIDE DEF g
    <2>2. h = [fn |-> "pcall", L |-> L, ci |-> Depth(s, L), nny |-> s.th[L].nny, nC |-> 0,
               err |-> 0, jmp |-> 0, status |-> OK]
      BY <2>1
    <2> HIDE DEF h
    <2>3. [h EXCEPT !.err = s.th[L].errfunc] = f
      BY <2>2
    <2>4. QED
      BY <2>3 DEF g, h
  <1>3. LuaD_pcall(s, L, ef) = u
    BY <1>2 DEF LuaD_pcall
  <1>4. IsFrame(f) /\ f.L = L /\ f.status = OK /\ f.fn = "pcall" /\ f.nny = s.th[L].nny
    BY <1>1 DEF IsFrame, Statuses
  <1>5. Active(e, L) /\ e.th[L].nny = s.th[L].nny
    BY ActiveFields DEF SameCounts
  <1> HIDE DEF e, f
  <1>6. Active(p, L) /\ TopOf(p) = f
    <2> DEFINE r == e.th[L]
    <2>1. /\ Shaped(e) /\ IsThread(r) /\ r.nC \in Int /\ r.nC <= Limit /\ r.nny \in Int
          /\ e = With(e, L, r)
      BY <1>5, ActiveFacts, LocalSelf DEF Local
    <2> HIDE DEF r
    <2>2. /\ r.nny = e.th[L].nny + (IF f.fn \in {"noyield", "parser"} THEN 1 ELSE 0)
          /\ r.nC = e.th[L].nC + (IF f.fn = "call" THEN 1 ELSE 0)
          /\ r.jmp = e.th[L].jmp
      BY <1>4, <2>1 DEF r
    <2>3. f.fn \notin {"raw", "resume"} /\ (f.fn = "pcall" => f.nny = e.th[L].nny)
      BY <1>4, <1>5
    <2>4. Active(Push(With(e, L, r), f), L)
      BY <1>4, <1>5, <2>1, <2>2, <2>3, PushFrame
    <2>5. TopOf(p) = f
      BY <1>4, <2>1, PushShaped
    <2>6. QED
      BY <2>1, <2>4, <2>5
  <1> HIDE DEF p
  <1>7. /\ Sound(p) /\ ~p.panic /\ p.th[L].nny = Nny(p.cs, L, Len(p.cs))
        /\ \A t \in Threads : p.th[t].nC \in Int /\ p.th[t].nC <= Limit
        /\ \A i \in 1 .. Len(p.cs) : p.cs[i].fn = "raw" => p.cs[i].nC <= Limit
        /\ Len(p.cs) \in Nat /\ Shaped(p) /\ IsThread(p.th[L])
    <2>1. Shaped(p)
      BY <1>6, ActiveFacts
    <2>2. Len(p.cs) \in Nat
      BY <2>1, Types
    <2>3. QED
      BY <1>1, <1>6, <2>1, <2>2, ActiveFacts DEF Active
  <1>8. /\ Sound(u) /\ ~u.panic /\ Len(u.cs) = Len(p.cs) + 1
        /\ TopOf(u).fn = "raw" /\ TopOf(u).L = L /\ TopOf(u).status = OK
        /\ TopOf(u).nC = p.th[L].nC
        /\ \A i \in 1 .. Len(p.cs) : u.cs[i] = p.cs[i]
        /\ u.th[L] = [p.th[L] EXCEPT !.jmp = Len(p.cs) + 1]
        /\ \A t \in Threads : t # L => u.th[t] = p.th[t]
    BY <1>4, <1>6, <1>7, PushRaw
  <1> HIDE DEF u
  <1>9. \A t \in Threads : u.th[t].nC = p.th[t].nC
    BY <1>7, <1>8 DEF IsThread
  <1>10. ThreadsBounded(u)
    BY <1>7, <1>9, LimitType DEF ThreadsBounded
  <1>11. SavedBounded(u.cs)
    <2>1. ASSUME NEW i \in 1 .. Len(u.cs), u.cs[i].fn = "raw"
          PROVE  u.cs[i].nC \in Int /\ u.cs[i].nC <= Limit
      <3>1. CASE i = Len(u.cs)
        BY <1>1, <1>7, <1>8, <3>1 DEF TopOf
      <3>2. CASE i # Len(u.cs)
        <4>1. i \in 1 .. Len(p.cs)
          BY <1>7, <1>8, <3>2
        <4>2. QED
          BY <1>7, <1>8, <2>1, <4>1, Types
      <3>3. QED
        BY <3>1, <3>2
    <2>2. QED
      BY <2>1, LimitType DEF SavedBounded
  <1>12. QED
    BY <1>3, <1>8, <1>10, <1>11 DEF Active, Good, Bounded

LEMMA PcallkKeeps ==
  ASSUME NEW L, NEW k \in BOOLEAN, NEW ef \in BOOLEAN, CallsInv, Lua_pcallk(L, k, ef)
  PROVE  CallsInv'
  <1> DEFINE d == Depth(State, L)
             func == IF ef THEN d ELSE 0
             x == [State.th[L].ci EXCEPT ![d] = [@ EXCEPT !.k = TRUE, !.yp = TRUE,
                                                          !.olderr = th[L].errfunc]]
             a == [State EXCEPT !.th[L].ci = x]
             kept == [a EXCEPT !.th[L].errfunc = func]
             y == Push(kept, Frame("ypcall", L))
             p == LuaD_pcall(State, L, func)
  <1>1. Active(State, L)
    BY Runs DEF Lua_pcallk, Running
  <1>2. [State EXCEPT !.th[L].ci[d] = [@ EXCEPT !.k = TRUE, !.yp = TRUE,
                                                !.olderr = th[L].errfunc],
                      !.th[L].errfunc = func] = kept
    OBVIOUS
  <1> HIDE DEF x
  <1>3. Active(a, L)
    BY <1>1, ActiveFields
  <1> HIDE DEF a
  <1>4. Active(kept, L)
    BY <1>3, ActiveFields
  <1>5. PICK lua \in BOOLEAN :
             Become(IF k /\ th[L].nny = 0 THEN LuaD_call(y, L, lua)
                    ELSE LuaD_callnoyield(p, L, lua))
    BY <1>2 DEF Lua_pcallk
  <1> HIDE DEF kept
  <1>6. Active(y, L) /\ Active(p, L)
    BY <1>1, <1>4, PushPlain, Pcall
  <1> HIDE DEF y, p
  <1>7. Good(LuaD_call(y, L, lua)) /\ Good(LuaD_callnoyield(p, L, lua))
    BY <1>6, Call, CallNoyield
  <1>8. QED
    BY <1>5, <1>7, Becomes

LEMMA ParserKeeps ==
  ASSUME NEW L, CallsInv, LuaD_protectedparser(L)
  PROVE  CallsInv'
  <1> DEFINE s == Push([State EXCEPT !.th[L].nny = @ + 1], Frame("parser", L))
             p == LuaD_pcall(s, L, th[L].errfunc)
  <1>1. Active(State, L)
    BY Runs DEF LuaD_protectedparser, Running
  <1>2. Active(s, L)
    BY <1>1, PushHeld
  <1>3. Become(Push(p, Frame("fparser", L)))
    BY DEF LuaD_protectedparser
  <1> HIDE DEF s
  <1>4. Active(p, L)
    BY <1>2, Pcall
  <1> HIDE DEF p
  <1>5. Active(Push(p, Frame("fparser", L)), L)
    BY <1>4, PushPlain
  <1>6. QED
    BY <1>3, <1>5, Becomes DEF Active

LEMMA ReaderKeeps ==
  ASSUME NEW L, CallsInv, GenericReader(L)
  PROVE  CallsInv'
  <1>1. Active(State, L)
    BY Runs DEF GenericReader, Running
  <1>2. PICK lua \in BOOLEAN : Become(LuaD_callnoyield(State, L, lua))
    BY DEF GenericReader
  <1>3. Good(LuaD_callnoyield(State, L, lua))
    BY <1>1, CallNoyield
  <1>4. QED
    BY <1>2, <1>3, Becomes

LEMMA SyntaxErrorKeeps ==
  ASSUME NEW L, CallsInv, SyntaxError(L)
  PROVE  CallsInv'
  <1>1. Active(State, L)
    BY Runs DEF SyntaxError, Running
  <1>2. Good(LuaD_throw(State, L, ERRSYNTAX))
    BY <1>1, ActiveThrow, ErrorStatuses
  <1>3. QED
    BY <1>2, Becomes DEF SyntaxError

LEMMA ParserDoneKeeps ==
  ASSUME NEW L, CallsInv, ParserDone(L)
  PROVE  CallsInv'
  <1>1. Active(State, L) /\ TopOf(State).fn = "fparser"
    BY Runs, Fields DEF ParserDone, Running
  <1>2. Len(State.cs) > 1
    BY <1>1, NotAlone, ActiveFacts
  <1>3. Active(Pop(State), L)
    BY <1>1, <1>2, PopPlain
  <1>4. QED
    BY <1>3, Becomes DEF ParserDone, Active

LEMMA YieldkKeeps ==
  ASSUME NEW L, NEW k \in BOOLEAN, CallsInv, Lua_yieldk(L, k)
  PROVE  CallsInv'
  <1> DEFINE a == [State EXCEPT !.th[L].status = YIELD]
             d == Depth(State, L)
             x == [a.th[L].ci EXCEPT ![d].k = k]
             b == [a EXCEPT !.th[L].ci = x]
  <1>1. Active(State, L)
    BY Runs DEF Lua_yieldk, Running
  <1>2. [State EXCEPT !.th[L].status = YIELD, !.th[L].ci[d].k = k] = b
    OBVIOUS
  <1>3. Become(IF th[L].nny > 0 THEN Push(State, Frame("error", L)) ELSE LuaD_throw(b, L, YIELD))
    BY <1>2 DEF Lua_yieldk
  <1> HIDE DEF x
  <1>4. Active(a, L)
    BY <1>1, ActiveFields
  <1> HIDE DEF a
  <1>5. Active(b, L)
    BY <1>4, ActiveFields
  <1> HIDE DEF b
  <1>6. Good(LuaD_throw(b, L, YIELD))
    BY <1>5, ActiveThrow, ErrorStatuses
  <1>7. Active(Push(State, Frame("error", L)), L)
    BY <1>1, PushPlain
  <1>8. QED
    BY <1>3, <1>6, <1>7, Becomes DEF Active

LEMMA CFunctionKeeps ==
  ASSUME NEW L, CallsInv, CFunctionReturns(L)
  PROVE  CallsInv'
  <1> DEFINE t == LuaD_poscall(State, L)
  <1>1. Active(State, L) /\ Top.fn = "cfun" /\ Len(cs) > 1
    BY Runs DEF CFunctionReturns, Running
  <1>2. Active(t, L) /\ t.cs = cs
    <2>1. Active(t, L)
      BY <1>1, Poscall
    <2>2. QED
      BY <2>1, Fields DEF LuaD_poscall
  <1>3. TopOf(t).fn = "cfun"
    BY <1>1, <1>2 DEF TopOf, Top
  <1>4. Become(Pop(t))
    BY DEF CFunctionReturns
  <1> HIDE DEF t
  <1>5. Active(Pop(t), L)
    BY <1>1, <1>2, <1>3, PopPlain
  <1>6. QED
    BY <1>4, <1>5, Becomes DEF Active

----------------------------------------------------------------------------
(* Returns. *)

LEMMA CallReturnKeeps ==
  ASSUME NEW L, CallsInv, CallReturns(L)
  PROVE  CallsInv'
  <1> DEFINE s == State
             n == Len(s.cs)
             m == n - 1
             r == [s.th[L] EXCEPT !.nC = @ - 1]
  <1>1. Active(s, L) /\ TopOf(s).fn = "call"
    BY Runs, Fields DEF CallReturns, Running
  <1>2. Become(Pop(With(s, L, r)))
    BY DEF CallReturns, With
  <1> HIDE DEF s
  <1>3. /\ Shaped(s) /\ Sound(s) /\ Good(s) /\ L \in Threads /\ IsThread(s.th[L])
        /\ s.th[L].nC \in Int /\ s.th[L].nC <= Limit /\ s.th[L].nny = Nny(s.cs, L, n)
        /\ ~s.panic /\ TopOf(s).L = L /\ TopOf(s) = s.cs[n]
    BY <1>1, ActiveFacts DEF Active, TopOf
  <1>4. n \in Nat \ {0} /\ n = m + 1 /\ m \in Nat /\ n > 1
    BY <1>1, <1>3, Types, NotAlone
  <1>5. IsThread(r) /\ r.nny = s.th[L].nny /\ r.nC = s.th[L].nC - 1 /\ r.jmp = s.th[L].jmp
    BY <1>3 DEF IsThread
  <1> HIDE DEF m, r
  <1>6. Nny(s.cs, L, m) = Nny(s.cs, L, n)
    BY <1>1, <1>3, <1>4, NnyPlain
  <1>7. Nesting(s.cs, n) = Nesting(s.cs, m) + 1
    BY <1>1, <1>3, <1>4, NestingStep
  <1>8. Nesting(s.cs, n) <= s.th[L].nC
    BY <1>3, <1>4 DEF Sound, NestingOK
  <1>9. Nesting(s.cs, m) <= r.nC /\ r.nC <= Limit
    BY <1>3, <1>4, <1>5, <1>7, <1>8, NestingType, LimitType
  <1>10. Active(Pop(With(s, L, r)), L)
    BY <1>1, <1>3, <1>4, <1>5, <1>6, <1>9, PopFrame DEF m
  <1>11. QED
    BY <1>2, <1>10, Becomes DEF Active

LEMMA NoyieldReturnKeeps ==
  ASSUME NEW L, CallsInv, NoyieldReturns(L)
  PROVE  CallsInv'
  <1> DEFINE s == State
             n == Len(s.cs)
             m == n - 1
             r == [s.th[L] EXCEPT !.nny = @ - 1]
  <1>1. Active(s, L) /\ TopOf(s).fn \in {"noyield", "parser"}
    BY Runs, Fields DEF NoyieldReturns
  <1>2. Become(Pop(With(s, L, r)))
    BY DEF NoyieldReturns, With
  <1> HIDE DEF s
  <1>3. /\ Shaped(s) /\ Sound(s) /\ Good(s) /\ L \in Threads /\ IsThread(s.th[L])
        /\ s.th[L].nC \in Int /\ s.th[L].nC <= Limit /\ s.th[L].nny = Nny(s.cs, L, n)
        /\ s.th[L].nny \in Int /\ ~s.panic /\ TopOf(s).L = L /\ TopOf(s) = s.cs[n]
    BY <1>1, ActiveFacts DEF Active, TopOf
  <1>4. n \in Nat \ {0} /\ n = m + 1 /\ m \in Nat /\ n > 1
    BY <1>1, <1>3, Types, NotAlone
  <1>5. IsThread(r) /\ r.nny = s.th[L].nny - 1 /\ r.nC = s.th[L].nC /\ r.jmp = s.th[L].jmp
    BY <1>3 DEF IsThread
  <1> HIDE DEF m, r
  <1>6. Nny(s.cs, L, n) = Nny(s.cs, L, m) + 1
    BY <1>1, <1>3, <1>4, NnyHeld
  <1>7. r.nny = Nny(s.cs, L, m)
    BY <1>3, <1>4, <1>5, <1>6, NnyType
  <1>8. Nesting(s.cs, n) = Nesting(s.cs, m)
    BY <1>1, <1>3, <1>4, NestingStep
  <1>9. Nesting(s.cs, n) <= s.th[L].nC
    BY <1>3, <1>4 DEF Sound, NestingOK
  <1>10. Nesting(s.cs, m) <= r.nC /\ r.nC <= Limit
    BY <1>3, <1>5, <1>8, <1>9
  <1>11. Active(Pop(With(s, L, r)), L)
    BY <1>1, <1>3, <1>4, <1>5, <1>7, <1>10, PopFrame DEF m
  <1>12. QED
    BY <1>2, <1>11, Becomes DEF Active

LEMMA RawReturnKeeps ==
  ASSUME NEW L, CallsInv, RawReturns(L)
  PROVE  CallsInv'
  <1> DEFINE s == State
             q == [s.th[L] EXCEPT !.jmp = Top.jmp]
             r == [q EXCEPT !.nC = Top.nC]
  <1>1. Good(s) /\ ~s.panic /\ TopOf(s).L = L /\ TopOf(s).fn = "raw" /\ s.cs = cs /\ TopOf(s) = Top
    BY Fields DEF RawReturns, Running, CallsInv
  <1>2. [s EXCEPT !.th[L].jmp = Top.jmp, !.th[L].nC = Top.nC] = With(s, L, r)
    <2>1. [s EXCEPT !.th[L].jmp = Top.jmp, !.th[L].nC = Top.nC]
            = [[s EXCEPT !.th[L].jmp = Top.jmp] EXCEPT !.th[L].nC = Top.nC]
      OBVIOUS
    <2>2. [s EXCEPT !.th[L].jmp = Top.jmp] = With(s, L, q)
      BY DEF With
    <2>3. Shaped(s) /\ L \in Threads /\ IsThread(s.th[L]) /\ Top.jmp \in Nat /\ Top.nC \in Int
      BY <1>1, Types DEF Good, Sound, IsFrame
    <2>4. IsThread(q)
      BY <2>3 DEF IsThread
    <2> HIDE DEF q
    <2>5. Local(s, With(s, L, q), L) /\ With(s, L, q).th[L] = q
      BY <2>3, <2>4, LocalSelf, LocalAgain
    <2> DEFINE v == With(s, L, q)
    <2>6. [v EXCEPT !.th[L].nC = Top.nC] = With(v, L, r)
      BY <2>5 DEF With
    <2> HIDE DEF v
    <2>7. Local(s, v, L)
      BY <2>5 DEF v
    <2>8. IsThread(r)
      BY <2>3, <2>4 DEF IsThread
    <2> HIDE DEF r
    <2>9. Local(s, With(v, L, r), L) /\ With(v, L, r).th[L] = r
      BY <2>3, <2>7, <2>8, LocalAgain
    <2>10. With(v, L, r) = With(s, L, r)
      BY <2>9 DEF Local
    <2>11. QED
      BY <2>1, <2>2, <2>6, <2>10 DEF v
  <1>3. IsThread(r) /\ r.jmp = TopOf(s).jmp /\ r.nC = TopOf(s).nC /\ r.nny = s.th[L].nny
    <2>1. Shaped(s) /\ L \in Threads /\ IsThread(s.th[L]) /\ Top.jmp \in Nat /\ Top.nC \in Int
      BY <1>1, Types DEF Good, Sound, IsFrame
    <2>2. IsThread(q) /\ q.jmp = TopOf(s).jmp /\ q.nny = s.th[L].nny
      BY <1>1, <2>1 DEF IsThread
    <2> HIDE DEF q
    <2>3. QED
      BY <1>1, <2>1, <2>2 DEF IsThread
  <1> DEFINE u == [Pop(With(s, L, r)) EXCEPT !.cs[Len(s.cs) - 1].status = TopOf(s).status]
  <1>4. Become(u)
    <2>1. Become([Pop([s EXCEPT !.th[L].jmp = Top.jmp, !.th[L].nC = Top.nC])
                 EXCEPT !.cs[Len(cs) - 1].status = Top.status])
      BY DEF RawReturns
    <2>2. QED
      BY <1>1, <1>2, <2>1
  <1> HIDE DEF s, r
  <1>5. Good(u)
    BY <1>1, <1>3, PopRaw
  <1> HIDE DEF u
  <1>6. QED
    BY <1>4, <1>5, Becomes

(* luaD_shrinkstack touches no count. *)
LEMMA Shrink ==
  ASSUME NEW s, Shaped(s), NEW L \in Threads, NEW u, Local(s, u, L)
  PROVE  /\ Local(s, LuaD_shrinkstack(u, L), L)
         /\ SameCounts(LuaD_shrinkstack(u, L).th[L], u.th[L])
  <1>1. Local(s, [u EXCEPT !.th[L].big = FALSE], L)
        /\ SameCounts([u EXCEPT !.th[L].big = FALSE].th[L], u.th[L])
    BY LocalFields
  <1>2. SameCounts(u.th[L], u.th[L])
    BY DEF SameCounts
  <1>3. QED
    BY <1>1, <1>2 DEF LuaD_shrinkstack

LEMMA Undoes ==
  ASSUME NEW s, Shaped(s), NEW L \in Threads, NEW f, f.nny \in Int
  PROVE  /\ Local(s, Undo(s, L, f), L) /\ Undo(s, L, f).th[L].nny = f.nny
         /\ Undo(s, L, f).th[L].nC = s.th[L].nC /\ Undo(s, L, f).th[L].jmp = s.th[L].jmp
  <1> DEFINE up == {u \in s.th[L].up : u < f.ci + 1}
             a == [s EXCEPT !.th[L].up = up]
             ci == SubSeq(a.th[L].ci, 1, f.ci)
             b == [a EXCEPT !.th[L].ci = ci]
             x == f.nny
             c == [b EXCEPT !.th[L].nny = x]
  <1>1. Undo(s, L, f) = LuaD_shrinkstack(c, L)
    <2>1. LuaF_close(s, L, f.ci + 1) = a
      BY DEF LuaF_close
    <2> HIDE DEF a
    <2>2. [a EXCEPT !.th[L].ci = SubSeq(@, 1, f.ci), !.th[L].nny = f.nny] = c
      OBVIOUS
    <2> HIDE DEF c
    <2>3. QED
      BY <2>1, <2>2 DEF Undo
  <1>2. Local(s, s, L) /\ x \in Int
    BY LocalSelf
  <1> HIDE DEF up, x
  <1>3. Local(s, a, L) /\ SameCounts(a.th[L], s.th[L])
    BY <1>2, LocalFields
  <1> HIDE DEF a, ci
  <1>4. Local(s, b, L) /\ SameCounts(b.th[L], a.th[L])
    BY <1>3, LocalFields
  <1> HIDE DEF b
  <1>5. Local(s, c, L) /\ c.th[L].nny = x /\ c.th[L].nC = b.th[L].nC
         /\ c.th[L].jmp = b.th[L].jmp
    <2>1. c = [b EXCEPT !.th[L].nny = x]
      OBVIOUS
    <2>2. Shaped(s) /\ Local(s, b, L)
      BY <1>4
    <2> HIDE DEF c
    <2>3. QED
      BY <1>2, <2>1, <2>2, LocalNny
  <1> HIDE DEF c
  <1>6. Local(s, LuaD_shrinkstack(c, L), L)
        /\ SameCounts(LuaD_shrinkstack(c, L).th[L], c.th[L])
    BY <1>5, Shrink
  <1>7. QED
    BY <1>1, <1>3, <1>4, <1>5, <1>6 DEF SameCounts, x

(* luaD_pcall puts back nny and errfunc of its thread.                     *)
LEMMA PcallReturnKeeps ==
  ASSUME NEW L, CallsInv, PcallReturns(L)
  PROVE  CallsInv'
  <1> DEFINE s == State
             n == Len(s.cs)
             m == n - 1
             f == Top
             v == IF f.status = OK THEN s ELSE Undo(s, L, f)
             w == [v EXCEPT !.th[L].errfunc = f.err]
  <1>1. Good(s) /\ ~s.panic /\ f.L = L /\ f.fn = "pcall" /\ f = TopOf(s)
    BY Fields DEF PcallReturns, Running, CallsInv
  <1>2. Become(Pop(w))
    BY DEF PcallReturns
  <1> HIDE DEF s, f
  <1>3. /\ Sound(s) /\ Shaped(s) /\ StackOK(s.cs) /\ StatusesOK(s.cs) /\ CountsOK(s) /\ NestingOK(s)
        /\ ThreadsBounded(s) /\ f = s.cs[n]
    BY <1>1 DEF Good, Sound, Bounded, TopOf
  <1>4. n \in Nat \ {0} /\ n = m + 1 /\ m \in Nat /\ n > 1 /\ L \in Threads /\ IsThread(s.th[L])
        /\ s.th[L].nC \in Int /\ f.nny \in Int
    <2>1. n \in Nat \ {0} /\ L \in Threads /\ IsThread(s.th[L]) /\ s.th[L].nC \in Int
      BY <1>1, <1>3, Types
    <2>2. f.nny \in Int
      BY <1>1, <1>3, Types DEF IsFrame
    <2>3. n > 1
      BY <1>1, <1>3, NotAlone
    <2>4. QED
      BY <2>1, <2>2, <2>3
  <1> HIDE DEF m
  <1>5. f.nny = Nny(s.cs, L, m)
    <2>1. FrameAt(s.cs, n)
      BY <1>3, <1>4 DEF StackOK
    <2>2. QED
      BY <1>1, <1>3, <2>1 DEF FrameAt, m
  <1>6. f.status = OK => s.th[L].nny = Nny(s.cs, L, m)
    <2>1. Nny(s.cs, L, m) = Nny(s.cs, L, n)
      BY <1>1, <1>3, <1>4, NnyPlain
    <2>2. QED
      BY <1>1, <1>3, <1>4, <2>1 DEF CountsOK
  <1>7. Nesting(s.cs, m) <= s.th[L].nC
    <2>1. Nesting(s.cs, m) = Nesting(s.cs, n)
      BY <1>1, <1>3, <1>4, NestingStep
    <2>2. QED
      BY <1>1, <1>3, <1>4, <2>1 DEF NestingOK
  <1>8. s.th[L].nC <= Limit
    BY <1>1, <1>3, <1>4, LimitType DEF ThreadsBounded, Reporting
  <1>9. /\ Local(s, v, L) /\ v.th[L].nny = Nny(s.cs, L, m)
        /\ v.th[L].nC = s.th[L].nC /\ v.th[L].jmp = s.th[L].jmp
    <2>1. Local(s, s, L)
      BY <1>3, <1>4, LocalSelf
    <2>2. /\ Local(s, Undo(s, L, f), L) /\ Undo(s, L, f).th[L].nny = f.nny
          /\ Undo(s, L, f).th[L].nC = s.th[L].nC /\ Undo(s, L, f).th[L].jmp = s.th[L].jmp
      BY <1>3, <1>4, Undoes
    <2>3. QED
      BY <1>5, <1>6, <2>1, <2>2
  <1> DEFINE e == f.err
  <1> HIDE DEF v, e
  <1>10. Local(s, w, L) /\ SameCounts(w.th[L], v.th[L])
    <2>1. w = [v EXCEPT !.th[L].errfunc = e]
      BY DEF e
    <2> HIDE DEF w
    <2>2. QED
      BY <1>3, <1>4, <1>9, <2>1, LocalFields
  <1> DEFINE r == w.th[L]
  <1>11. w = With(s, L, r) /\ IsThread(r)
    BY <1>10 DEF Local
  <1>12. r.nny = Nny(s.cs, L, m) /\ r.nC = s.th[L].nC /\ r.jmp = s.th[L].jmp
    BY <1>9, <1>10 DEF SameCounts
  <1> HIDE DEF w, r
  <1>13. Active(Pop(With(s, L, r)), L)
    <2>1. TopOf(s).L = L /\ TopOf(s).fn \notin {"raw", "resume"}
      BY <1>1
    <2>2. Len(s.cs) > 1 /\ r.nny = Nny(s.cs, L, Len(s.cs) - 1)
          /\ Nesting(s.cs, Len(s.cs) - 1) <= r.nC /\ r.nC <= Limit
      BY <1>4, <1>7, <1>8, <1>12 DEF m
    <2>3. QED
      BY <1>1, <1>11, <1>12, <2>1, <2>2, PopFrame
  <1>14. QED
    BY <1>2, <1>11, <1>13, Becomes DEF Active

LEMMA YpcallReturnKeeps ==
  ASSUME NEW L, CallsInv, YpcallReturns(L)
  PROVE  CallsInv'
  <1> DEFINE d == Depth(State, L)
             x == [State.th[L].ci EXCEPT ![d].yp = FALSE]
             a == [State EXCEPT !.th[L].ci = x]
             ef == CurrentCI(State, L).olderr
             b == [a EXCEPT !.th[L].errfunc = ef]
  <1>1. Active(State, L) /\ Top.fn = "ypcall"
    BY Runs DEF YpcallReturns, Running
  <1>2. [State EXCEPT !.th[L].ci[d].yp = FALSE, !.th[L].errfunc = ef] = b
    OBVIOUS
  <1>3. Become(Pop(b))
    BY <1>2 DEF YpcallReturns
  <1>4. b.cs = cs
    BY Fields
  <1> HIDE DEF x, ef
  <1>5. Active(a, L)
    BY <1>1, ActiveFields
  <1> HIDE DEF a
  <1>6. Active(b, L)
    BY <1>5, ActiveFields
  <1> HIDE DEF b
  <1>7. TopOf(b).fn = "ypcall"
    BY <1>1, <1>4 DEF TopOf, Top
  <1>8. Len(b.cs) > 1
    BY <1>6, <1>7, NotAlone, ActiveFacts
  <1>9. Active(Pop(b), L)
    BY <1>6, <1>7, <1>8, PopPlain
  <1>10. QED
    BY <1>3, <1>9, Becomes DEF Active

LEMMA Finish ==
  ASSUME NEW s, NEW L, Active(s, L)
  PROVE  Active(FinishCcall(s, L), L)
  <1> DEFINE ci == CurrentCI(s, L)
             x == [s.th[L].ci EXCEPT ![Depth(s, L)].yp = FALSE]
             a == [s EXCEPT !.th[L].ci = x]
             ef == ci.olderr
             b == [a EXCEPT !.th[L].errfunc = ef]
             t == IF ci.yp THEN b ELSE s
  <1>1. [s EXCEPT !.th[L].ci[Depth(s, L)].yp = FALSE, !.th[L].errfunc = ci.olderr] = b
    OBVIOUS
  <1>2. FinishCcall(s, L) = Push(t, Frame("cfun", L))
    BY <1>1 DEF FinishCcall
  <1> HIDE DEF x, ef
  <1>3. Active(a, L)
    BY ActiveFields
  <1> HIDE DEF a
  <1>4. Active(b, L)
    BY <1>3, ActiveFields
  <1> HIDE DEF b
  <1>5. Active(t, L)
    BY <1>4
  <1> HIDE DEF t
  <1>6. QED
    BY <1>2, <1>5, PushPlain

LEMMA UnrollKeeps ==
  ASSUME NEW L, CallsInv, Unroll(L)
  PROVE  CallsInv'
  <1>1. Active(State, L) /\ TopOf(State).fn = "unroll"
    BY Runs, Fields DEF Unroll, Running
  <1>2. Good(Pop(State))
    <2>1. Len(State.cs) > 1
      BY <1>1, NotAlone, ActiveFacts
    <2>2. Active(Pop(State), L)
      BY <1>1, <2>1, PopPlain
    <2>3. QED
      BY <2>2 DEF Active
  <1>3. Good(FinishCcall(State, L)) /\ Good(LuaV_execute(State, L))
    BY <1>1, Finish, Execute DEF Active
  <1>4. Become(CASE Depth(State, L) = 1 -> Pop(State)
                 [] Depth(State, L) # 1 /\ ~CurrentCI(State, L).lua -> FinishCcall(State, L)
                 [] Depth(State, L) # 1 /\ CurrentCI(State, L).lua -> LuaV_execute(State, L))
    BY DEF Unroll
  <1>5. CASE Depth(State, L) = 1
    BY <1>2, <1>4, <1>5, Becomes
  <1>6. CASE Depth(State, L) # 1 /\ ~CurrentCI(State, L).lua
    BY <1>3, <1>4, <1>6, Becomes
  <1>7. CASE Depth(State, L) # 1 /\ CurrentCI(State, L).lua
    BY <1>3, <1>4, <1>7, Becomes
  <1>8. QED
    BY <1>5, <1>6, <1>7

----------------------------------------------------------------------------
(* Coroutines. *)

LEMMA Recovers ==
  ASSUME NEW s, Shaped(s), NEW L \in Threads, NEW level
  PROVE  /\ Local(s, Recover(s, L, level), L) /\ Recover(s, L, level).th[L].nny = 0
         /\ Recover(s, L, level).th[L].nC = s.th[L].nC
         /\ Recover(s, L, level).th[L].jmp = s.th[L].jmp
  <1> DEFINE up == {u \in s.th[L].up : u < level + 1}
             a == [s EXCEPT !.th[L].up = up]
             ci == SubSeq(a.th[L].ci, 1, level)
             b == [a EXCEPT !.th[L].ci = ci]
             c == [b EXCEPT !.th[L].nny = 0]
             ef == s.th[L].ci[level].olderr
             e == [c EXCEPT !.th[L].errfunc = ef]
  <1>1. Recover(s, L, level) = LuaD_shrinkstack(e, L)
    <2>1. LuaF_close(s, L, level + 1) = a
      BY DEF LuaF_close
    <2> HIDE DEF a
    <2>2. [a EXCEPT !.th[L].ci = SubSeq(@, 1, level), !.th[L].nny = 0,
                    !.th[L].errfunc = s.th[L].ci[level].olderr] = e
      OBVIOUS
    <2> HIDE DEF e
    <2>3. QED
      BY <2>1, <2>2 DEF Recover
  <1>2. Local(s, s, L)
    BY LocalSelf
  <1> HIDE DEF up, ef
  <1>3. Local(s, a, L) /\ SameCounts(a.th[L], s.th[L])
    BY <1>2, LocalFields
  <1> HIDE DEF a, ci
  <1>4. Local(s, b, L) /\ SameCounts(b.th[L], a.th[L])
    BY <1>3, LocalFields
  <1> HIDE DEF b
  <1>5. Local(s, c, L) /\ c.th[L].nny = 0 /\ c.th[L].nC = b.th[L].nC
         /\ c.th[L].jmp = b.th[L].jmp
    <2>1. c = [b EXCEPT !.th[L].nny = 0]
      OBVIOUS
    <2>2. Shaped(s) /\ Local(s, b, L)
      BY <1>4
    <2> HIDE DEF c
    <2>3. QED
      BY <1>2, <2>1, <2>2, LocalNny
  <1> HIDE DEF c
  <1>6. Local(s, e, L) /\ SameCounts(e.th[L], c.th[L])
    BY <1>5, LocalFields
  <1> HIDE DEF e
  <1>7. Local(s, LuaD_shrinkstack(e, L), L)
        /\ SameCounts(LuaD_shrinkstack(e, L).th[L], e.th[L])
    BY <1>6, Shrink
  <1>8. QED
    BY <1>1, <1>3, <1>4, <1>5, <1>6, <1>7 DEF SameCounts

(* The count of the thread on top is put right. *)
LEMMA Restored ==
  ASSUME NEW s, Sound(s), NEW L, TopOf(s).L = L, NEW r, IsThread(r),
         r.jmp = s.th[L].jmp, r.nC = s.th[L].nC, r.nny = Nny(s.cs, L, Len(s.cs))
  PROVE  Sound(With(s, L, r))
  <1> DEFINE w == With(s, L, r)
  <1>1. Shaped(s) /\ L \in Threads /\ Len(s.cs) \in Nat
    BY Types DEF Sound
  <1>2. /\ Shaped(w) /\ w.th[L] = r /\ \A t \in Threads : t # L => w.th[t] = s.th[t]
        /\ w.cs = s.cs /\ w.panic = s.panic
    BY <1>1, WithShaped
  <1> HIDE DEF w
  <1>3. \A t \in Threads : w.th[t].nC = s.th[t].nC /\ w.th[t].jmp = s.th[t].jmp
    BY <1>2
  <1>4. \A i \in 1 .. Len(s.cs) : s.cs[i].L \in Threads
    BY <1>1, Types
  <1>5. CountsOK(w)
    <2>1. ASSUME NEW t \in Threads
          PROVE  (TopOf(w).L = t /\ TopOf(w).status # OK) \/ w.th[t].nny = Nny(w.cs, t, Len(w.cs))
      <3>1. CASE t = L
        BY <1>2, <3>1
      <3>2. CASE t # L
        BY <1>2, <3>2 DEF Sound, CountsOK, TopOf
      <3>3. QED
        BY <3>1, <3>2
    <2>2. QED
      BY <2>1 DEF CountsOK
  <1>6. QED
    BY <1>2, <1>3, <1>4, <1>5 DEF Sound, JumpsOK, NestingOK, w

(* luaD_rawrunprotected on L, called in state w, which s became.            *)
Protected(s, L, w, u) ==
  /\ Active(u, L) /\ Len(u.cs) = Len(s.cs) + 1
  /\ TopOf(u).fn = "raw" /\ TopOf(u).L = L /\ TopOf(u).status = OK
  /\ \A i \in 1 .. Len(s.cs) : u.cs[i] = s.cs[i]
  /\ u.th[L] = [w.th[L] EXCEPT !.jmp = Len(s.cs) + 1]
  /\ \A t \in Threads : t # L => u.th[t] = s.th[t]

(* lua_resume goes on after an error: nny is 0 again, and the saved        *)
(* nCcalls stays below the limit.                                          *)
LEMMA Recovered ==
  ASSUME NEW s, Good(s), ~s.panic, NEW L, TopOf(s).L = L, TopOf(s).fn = "resume",
         ErrorStatus(TopOf(s).status), NEW level,
         NEW w, w = Recover(s, L, level), NEW u, u = LuaD_rawrunprotected(w, L)
  PROVE  Protected(s, L, w, u)
  <1> DEFINE n == Len(s.cs)
  <1>1. /\ Good(s) /\ ~s.panic /\ TopOf(s).L = L /\ TopOf(s).fn = "resume"
        /\ ErrorStatus(TopOf(s).status)
    OBVIOUS
  <1>3. /\ Sound(s) /\ Shaped(s) /\ StackOK(s.cs) /\ ThreadsBounded(s) /\ SavedBounded(s.cs)
        /\ TopOf(s) = s.cs[n]
    BY <1>1 DEF Good, Sound, Bounded, TopOf
  <1>4. n \in Nat \ {0} /\ L \in Threads /\ n = (n - 1) + 1 /\ n - 1 \in Nat
    BY <1>1, <1>3, Types
  <1>5. Nny(s.cs, L, n) = 0
    <2> DEFINE m == n - 1
    <2>1. m \in Nat /\ n = m + 1
      BY <1>4
    <2> HIDE DEF m
    <2>2. Nny(s.cs, L, m + 1) = 0
      BY <1>1, <1>3, <2>1, NnyResume
    <2>3. QED
      BY <2>1, <2>2
  <1> DEFINE r == w.th[L]
  <1>6. /\ w = With(s, L, r) /\ IsThread(r) /\ r.nny = 0 /\ r.nC = s.th[L].nC
        /\ r.jmp = s.th[L].jmp
    BY <1>3, <1>4, Recovers DEF Local
  <1>7. /\ Shaped(w) /\ \A t \in Threads : t # L => w.th[t] = s.th[t]
        /\ w.cs = s.cs /\ w.panic = s.panic
    <2> HIDE DEF r
    <2>1. QED
      BY <1>3, <1>4, <1>6, WithShaped
  <1>8. Sound(w)
    <2> HIDE DEF r
    <2>1. r.nny = Nny(s.cs, L, Len(s.cs))
      BY <1>5, <1>6
    <2>2. Sound(With(s, L, r))
      BY <1>1, <1>3, <1>6, <2>1, Restored
    <2>3. QED
      BY <1>6, <2>2
  <1>9. /\ Sound(u) /\ ~u.panic /\ Len(u.cs) = Len(w.cs) + 1
        /\ TopOf(u).fn = "raw" /\ TopOf(u).L = L /\ TopOf(u).status = OK
        /\ TopOf(u).nC = w.th[L].nC
        /\ \A i \in 1 .. Len(w.cs) : u.cs[i] = w.cs[i]
        /\ u.th[L] = [w.th[L] EXCEPT !.jmp = Len(w.cs) + 1]
        /\ \A t \in Threads : t # L => u.th[t] = w.th[t]
    <2>1. TopOf(w) = TopOf(s)
      BY <1>7 DEF TopOf
    <2>2. w.th[L].nny = Nny(w.cs, L, Len(w.cs))
      BY <1>5, <1>6, <1>7
    <2>3. ~w.panic /\ TopOf(w).L = L /\ TopOf(w).fn = "resume"
      BY <1>1, <1>7, <2>1
    <2>4. TopOf(w).fn \in {"pcall", "resume"} /\ TopOf(w).fn # "pcall"
      BY <2>3
    <2> HIDE DEF r
    <2>5. u = LuaD_rawrunprotected(w, L)
      OBVIOUS
    <2>6. QED
      BY <1>8, <2>2, <2>3, <2>4, <2>5, PushRaw
  <1>10. \A t \in Threads : s.th[t].nC \in Int /\ s.th[t].nC <= Limit
    <2>1. ~Reporting(TopOf(s))
      BY <1>1 DEF Reporting, ErrorStatus, YIELD, RESUME_ERROR
    <2>2. QED
      BY <1>3, <2>1, Types, LimitType DEF ThreadsBounded
  <1>11. ThreadsBounded(u)
    <2>1. ASSUME NEW t \in Threads
          PROVE  u.th[t].nC = s.th[t].nC
      <3>1. CASE t = L
        BY <1>6, <1>9, <3>1 DEF IsThread
      <3>2. CASE t # L
        BY <1>7, <1>9, <3>2
      <3>3. QED
        BY <3>1, <3>2
    <2>2. QED
      BY <1>10, <2>1, LimitType DEF ThreadsBounded
  <1>12. SavedBounded(u.cs)
    <2>1. ASSUME NEW i \in 1 .. Len(u.cs), u.cs[i].fn = "raw"
          PROVE  u.cs[i].nC \in Int /\ u.cs[i].nC <= Limit
      <3>1. CASE i = Len(u.cs)
        BY <1>4, <1>6, <1>9, <1>10, <3>1 DEF TopOf
      <3>2. CASE i # Len(u.cs)
        <4>1. i \in 1 .. n /\ u.cs[i] = s.cs[i]
          BY <1>4, <1>7, <1>9, <3>2
        <4>2. i # n
          BY <1>1, <1>3, <2>1, <4>1
        <4>3. s.cs[i].nC \in Int
          BY <1>3, <4>1, Types
        <4>4. QED
          BY <1>3, <2>1, <4>1, <4>2, <4>3, LimitType DEF SavedBounded
      <3>3. QED
        BY <3>1, <3>2
    <2>2. QED
      BY <2>1, LimitType DEF SavedBounded
  <1>13. Active(u, L)
    BY <1>9, <1>11, <1>12 DEF Active, Good, Bounded
  <1>14. QED
    BY <1>7, <1>9, <1>13 DEF Protected

LEMMA RecoveryKeeps ==
  ASSUME NEW L, CallsInv, ResumeRecovers(L)
  PROVE  CallsInv'
  <1> DEFINE s == State
             level == Findpcall(L)
             w == Recover(s, L, level)
             u == LuaD_rawrunprotected(w, L)
             v == Push(u, Frame("unroll", L))
  <1>1. /\ Good(s) /\ ~s.panic /\ TopOf(s).L = L /\ TopOf(s).fn = "resume"
        /\ ErrorStatus(TopOf(s).status)
    BY Fields DEF ResumeRecovers, Running, CallsInv
  <1>2. Become(FinishCcall(v, L))
    BY DEF ResumeRecovers
  <1>3. w = Recover(s, L, level) /\ u = LuaD_rawrunprotected(w, L)
    OBVIOUS
  <1> HIDE DEF s, level, w, u
  <1>4. Protected(s, L, w, u)
    BY ONLY <1>1, <1>3, Recovered
  <1>5. Active(v, L)
    BY <1>4, PushPlain DEF Protected
  <1> HIDE DEF v
  <1>6. Active(FinishCcall(v, L), L)
    BY <1>5, Finish
  <1>7. QED
    BY <1>2, <1>6, Becomes DEF Active

LEMMA ResumeReturnKeeps ==
  ASSUME NEW L, CallsInv, ResumeReturns(L)
  PROVE  CallsInv'
  <1> DEFINE s == State
             x == IF ErrorStatus(Top.status) THEN Top.status ELSE s.th[L].status
             a == [s EXCEPT !.th[L].status = x]
             nny == Top.nny
             b == [a EXCEPT !.th[L].nny = nny]
             nC == s.th[L].nC - 1
             c == [b EXCEPT !.th[L].nC = @ - 1]
             d == [b EXCEPT !.th[L].nC = nC]
  <1>1. /\ Good(s) /\ ~s.panic /\ TopOf(s).L = L /\ TopOf(s).fn = "resume" /\ nny = TopOf(s).nny
    BY Fields DEF ResumeReturns, Running, CallsInv
  <1>2. Become(Pop(c))
    <2>1. [s EXCEPT !.th[L].status = x, !.th[L].nny = nny, !.th[L].nC = @ - 1] = c
      <3> HIDE DEF s, x, nny
      <3>1. QED
        BY ZenonT(40)
    <2>2. [s EXCEPT !.th[L].status = IF ErrorStatus(Top.status) THEN Top.status ELSE @,
                    !.th[L].nny = nny, !.th[L].nC = @ - 1]
          = [s EXCEPT !.th[L].status = x, !.th[L].nny = nny, !.th[L].nC = @ - 1]
      OBVIOUS
    <2> HIDE DEF c
    <2>3. QED
      BY <2>1, <2>2 DEF ResumeReturns
  <1> HIDE DEF s, x, nny
  <1>3. Shaped(s) /\ L \in Threads /\ s.th[L].nC \in Int /\ IsFrame(TopOf(s)) /\ Local(s, s, L)
    BY <1>1, Types, LocalSelf DEF Good, Sound
  <1>4. nny \in Int /\ nC \in Int
    BY <1>1, <1>3 DEF IsFrame
  <1>5. Local(s, a, L) /\ SameCounts(a.th[L], s.th[L])
    BY <1>3, LocalFields
  <1> HIDE DEF a
  <1>6. Local(s, b, L) /\ b.th[L].nny = nny /\ b.th[L].nC = a.th[L].nC
         /\ b.th[L].jmp = a.th[L].jmp
    <2>1. b = [a EXCEPT !.th[L].nny = nny]
      OBVIOUS
    <2> HIDE DEF b
    <2>2. QED
      BY <1>3, <1>4, <1>5, <2>1, LocalNny
  <1> HIDE DEF b
  <1>7. c = d
    <2>1. b.th[L].nC = s.th[L].nC
      BY <1>5, <1>6 DEF SameCounts
    <2>2. QED
      BY <2>1
  <1>8. Local(s, d, L) /\ d.th[L].nC = nC /\ d.th[L].nny = b.th[L].nny
         /\ d.th[L].jmp = b.th[L].jmp
    <2>1. d = [b EXCEPT !.th[L].nC = nC]
      OBVIOUS
    <2> HIDE DEF d
    <2>2. Shaped(s) /\ L \in Threads /\ nC \in Int
      BY <1>3, <1>4
    <2>3. Local(s, b, L)
      BY <1>6
    <2> HIDE DEF c, nC
    <2>4. QED
      BY <2>1, <2>2, <2>3, LocalNC, SMTT(30)
  <1> HIDE DEF c, d
  <1> DEFINE r == d.th[L]
  <1>9. d = With(s, L, r) /\ IsThread(r)
    BY <1>8 DEF Local
  <1>10. r.jmp = s.th[L].jmp /\ r.nny = TopOf(s).nny /\ r.nC = s.th[L].nC - 1
    BY <1>1, <1>5, <1>6, <1>8 DEF SameCounts
  <1> HIDE DEF r
  <1>11. Good(Pop(With(s, L, r)))
    BY <1>1, <1>9, <1>10, PopResume
  <1>12. QED
    BY <1>2, <1>7, <1>9, <1>11, Becomes

(* A new activation f of co that luaD_rawrunprotected protects: from s and  *)
(* its changes w to u.                                                      *)
Activated(s, co, w, f, u) ==
    /\ Refused(u, co) => Good(LuaD_throw(u, co, RESUME_ERROR))
    /\ ~Refused(u, co) => Active(u, co)
    /\ Sound(u) /\ ~u.panic /\ TopOf(u).fn = "raw" /\ TopOf(u).L = co /\ TopOf(u).status = OK
    /\ Len(u.cs) = Len(s.cs) + 2 /\ u.cs[Len(s.cs) + 1] = f
    /\ \A i \in 1 .. Len(s.cs) : u.cs[i] = s.cs[i]
    /\ u.th[co] = [w.th[co] EXCEPT !.jmp = Len(s.cs) + 2]
    /\ \A t \in Threads : t # co => u.th[t] = s.th[t]

LEMMA Resumed ==
  ASSUME NEW s, NEW L, Active(s, L), TopOf(s).fn = "cfun", NEW co \in Threads,
         NEW w, Local(s, w, co), w.th[co].nny = 0, w.th[co].nC = s.th[L].nC + 1,
         w.th[co].jmp = s.th[co].jmp,
         NEW f, IsFrame(f), f.fn = "resume", f.L = co, f.status = OK, f.nny = s.th[co].nny,
         NEW p, p = Push(w, f), NEW u, u = LuaD_rawrunprotected(p, co)
  PROVE  Activated(s, co, w, f, u)
  <1> DEFINE D == s.th[L].nC + 1
             n == Len(s.cs)
             r == w.th[co]
  <1>1. /\ Shaped(s) /\ L \in Threads /\ ~s.panic /\ n \in Nat
        /\ \A t \in Threads : s.th[t].nC \in Int /\ s.th[t].nC <= Limit
        /\ \A i \in 1 .. n : s.cs[i].nC \in Int
        /\ \A i \in 1 .. n : s.cs[i].fn = "raw" => s.cs[i].nC <= Limit
    BY ActiveFacts, Types DEF Active
  <1>2. D \in Int /\ D <= Limit + 1
    BY <1>1, LimitType
  <1>3. /\ w = With(s, co, r) /\ IsThread(r) /\ r.nny = 0 /\ r.nC = D
        /\ r.jmp = s.th[co].jmp
    BY DEF Local
  <1> HIDE DEF r
  <1>4. p = Push(With(s, co, r), f)
    BY <1>3
  <1>5. /\ Sound(p) /\ ~p.panic /\ Len(p.cs) = n + 1 /\ TopOf(p) = f
        /\ \A i \in 1 .. n : p.cs[i] = s.cs[i]
        /\ p.th[co] = r /\ p.th[co].nny = Nny(p.cs, co, Len(p.cs))
        /\ \A t \in Threads : t # co => p.th[t] = s.th[t]
    BY <1>3, <1>4, PushResume
  <1>6. /\ Sound(u) /\ ~u.panic /\ Len(u.cs) = Len(p.cs) + 1
        /\ TopOf(u).fn = "raw" /\ TopOf(u).L = co /\ TopOf(u).status = OK
        /\ TopOf(u).nC = p.th[co].nC
        /\ \A i \in 1 .. Len(p.cs) : u.cs[i] = p.cs[i]
        /\ u.th[co] = [p.th[co] EXCEPT !.jmp = Len(p.cs) + 1]
        /\ \A t \in Threads : t # co => u.th[t] = p.th[t]
    <2>1. TopOf(p).fn \in {"pcall", "resume"} /\ TopOf(p).fn # "pcall" /\ TopOf(p).L = co
      BY <1>5
    <2>2. QED
      BY <1>5, <2>1, PushRaw
  <1> HIDE DEF D, n
  <1>13. u.th[co] = [r EXCEPT !.jmp = n + 2]
    BY <1>1, <1>5, <1>6 DEF n
  <1>7. u.th[co].nC = D /\ u.th[co].jmp = n + 2 /\ \A t \in Threads : t # co => u.th[t] = s.th[t]
    <2>2. [r EXCEPT !.jmp = n + 2].nC = r.nC /\ [r EXCEPT !.jmp = n + 2].jmp = n + 2
      BY <1>3 DEF IsThread
    <2>3. ASSUME NEW t \in Threads, t # co
          PROVE  u.th[t] = s.th[t]
      BY <1>5, <1>6, <2>3
    <2>4. QED
      BY <1>3, <1>13, <2>2, <2>3
  <1>14. u.cs[n + 1] = f
    <2>1. n + 1 \in 1 .. Len(p.cs)
      BY <1>1, <1>5 DEF n
    <2>2. u.cs[n + 1] = p.cs[n + 1]
      BY <1>6, <2>1
    <2>3. p.cs[n + 1] = f
      BY <1>5 DEF TopOf, n
    <2>4. QED
      BY <2>2, <2>3
  <1>8. /\ Len(u.cs) = n + 2 /\ u.cs[n + 2].nC = D /\ u.cs[n + 1].fn = "resume"
        /\ \A i \in 1 .. n : u.cs[i] = s.cs[i]
    <2>1. Len(u.cs) = n + 2 /\ u.cs[n + 2].nC = D
      BY <1>1, <1>3, <1>5, <1>6 DEF TopOf
    <2>2. u.cs[n + 1].fn = "resume"
      BY <1>14
    <2>3. ASSUME NEW i \in 1 .. n
          PROVE  u.cs[i] = s.cs[i]
      <3>1. i \in 1 .. Len(p.cs)
        BY <1>1, <1>5
      <3>2. u.cs[i] = p.cs[i] /\ p.cs[i] = s.cs[i]
        BY <1>5, <1>6, <3>1
      <3>3. QED
        BY <3>2
    <2>4. QED
      BY <2>1, <2>2, <2>3
  <1>9. ASSUME NEW i \in 1 .. Len(u.cs), u.cs[i].fn = "raw"
        PROVE  u.cs[i].nC \in Int /\ (i # n + 2 => u.cs[i].nC <= Limit)
    <2>1. CASE i = n + 2
      BY <1>2, <1>8, <2>1
    <2>2. CASE i # n + 2
      <3>1. i # n + 1
        BY <1>8, <1>9
      <3>2. i \in 1 .. n
        BY <1>1, <1>8, <2>2, <3>1
      <3>3. QED
        BY <1>1, <1>8, <1>9, <3>2 DEF n
    <2>3. QED
      BY <2>1, <2>2
  <1>10. ASSUME Refused(u, co)
         PROVE  Good(LuaD_throw(u, co, RESUME_ERROR))
    <2> DEFINE e == RESUME_ERROR
    <2>1. \A t \in Threads : u.th[t].nC <= Limit + (IF t = co THEN 1 ELSE 0)
      BY <1>1, <1>2, <1>7, LimitType
    <2>2. ASSUME NEW i \in 1 .. Len(u.cs), u.cs[i].fn = "raw"
          PROVE  u.cs[i].nC <= Limit + (IF i = u.th[co].jmp /\ e = RESUME_ERROR
                                        THEN 1 ELSE 0)
      <3>1. CASE i = n + 2
        BY <1>2, <1>7, <1>8, <3>1, LimitType
      <3>2. CASE i # n + 2
        BY <1>7, <1>9, <2>2, <3>2, LimitType
      <3>3. QED
        BY <3>1, <3>2
    <2>3. u.cs[u.th[co].jmp - 1].fn = "resume"
      <3>1. (n + 2) - 1 = n + 1
        BY <1>1
      <3>2. QED
        BY <1>7, <1>8, <3>1
    <2>4. TopOf(u).fn # "resume" /\ e \in Statuses \ {OK}
      BY <1>6, ErrorStatuses
    <2>5. Sound(u) /\ ~u.panic /\ TopOf(u).L = co /\ TopOf(u).status = OK
      BY <1>6
    <2> HIDE DEF e
    <2>6. Good(LuaD_throw(u, co, e))
      <3>1. co \in Threads
        OBVIOUS
      <3>2. QED
        BY ONLY <2>1, <2>2, <2>3, <2>4, <2>5, <3>1, Throw
    <2>7. QED
      BY <2>6 DEF e
  <1>11. ASSUME ~Refused(u, co)
         PROVE  Active(u, co)
    <2>1. D <= Limit
      <3>1. ~(D >= MAXCCALLS)
        BY <1>7, <1>11 DEF Refused
      <3>2. QED
        BY <1>2, <3>1, LimitType, CallsAssumption
    <2>2. ThreadsBounded(u)
      BY <1>1, <1>2, <1>7, <2>1, LimitType DEF ThreadsBounded
    <2>3. ASSUME NEW i \in 1 .. Len(u.cs), u.cs[i].fn = "raw"
          PROVE  u.cs[i].nC \in Int /\ u.cs[i].nC <= Limit
      BY <1>2, <1>8, <1>9, <2>1, <2>3
    <2>4. SavedBounded(u.cs)
      BY <2>3, LimitType DEF SavedBounded
    <2>5. TopOf(u).fn # "resume"
      BY <1>6
    <2>6. QED
      BY <1>6, <2>2, <2>4, <2>5 DEF Active, Good, Bounded
  <1>12. QED
    <2>1. w.th[co] = r
      BY DEF r
    <2>2. u.th[co] = [w.th[co] EXCEPT !.jmp = n + 2]
      BY <1>13, <2>1
    <2>3. QED
      BY <1>6, <1>7, <1>8, <1>10, <1>11, <1>14, <2>2 DEF n, Activated

(* lua_resume up to the checks of resume. *)
Resuming(s, L, co) ==
    LuaD_rawrunprotected(
        Push([s EXCEPT !.th[co].nC = s.th[L].nC + 1, !.th[co].nny = 0],
             [Frame("resume", co) EXCEPT !.nny = s.th[co].nny]), co)

LEMMA ResumeBegun ==
  ASSUME NEW s, NEW L, Active(s, L), TopOf(s).fn = "cfun", NEW co \in Threads,
         NEW r, r = Resuming(s, L, co)
  PROVE  /\ Refused(r, co) => Good(LuaD_throw(r, co, RESUME_ERROR))
         /\ ~Refused(r, co) => Active(r, co)
         /\ Sound(r) /\ ~r.panic /\ TopOf(r).fn = "raw" /\ TopOf(r).L = co /\ TopOf(r).status = OK
         /\ Len(r.cs) = Len(s.cs) + 2 /\ r.cs[Len(s.cs) + 1].fn = "resume"
         /\ r.cs[Len(s.cs) + 1].L = co
         /\ \A i \in 1 .. Len(s.cs) : r.cs[i] = s.cs[i]
         /\ \E w : /\ Local(s, w, co) /\ r.th[co] = [w.th[co] EXCEPT !.jmp = Len(s.cs) + 2]
                  /\ w.th[co].ci = s.th[co].ci /\ w.th[co].up = s.th[co].up
                  /\ w.th[co].errfunc = s.th[co].errfunc /\ w.th[co].status = s.th[co].status
         /\ \A t \in Threads : t # co => r.th[t] = s.th[t]
  <1> DEFINE D == s.th[L].nC + 1
             nny == s.th[co].nny
             a == [s EXCEPT !.th[co].nC = D]
             w == [a EXCEPT !.th[co].nny = 0]
             f == [Frame("resume", co) EXCEPT !.nny = nny]
             p == Push(w, f)
  <1>1. w = [a EXCEPT !.th[co].nny = 0] /\ p = Push(w, f) /\ r = LuaD_rawrunprotected(p, co)
    BY DEF Resuming
  <1>9. /\ w.th[co].ci = s.th[co].ci /\ w.th[co].up = s.th[co].up
        /\ w.th[co].errfunc = s.th[co].errfunc /\ w.th[co].status = s.th[co].status
    <2>1. IsThread(s.th[co]) /\ s.th = [t \in Threads |-> s.th[t]]
          /\ s = [th |-> s.th, cs |-> s.cs, panic |-> s.panic]
      BY ActiveFacts DEF Shaped
    <2>2. QED
      BY <2>1 DEF IsThread
  <1> HIDE DEF w, p
  <1>2. Shaped(s) /\ Local(s, s, co) /\ D \in Int /\ nny \in Int
    BY ActiveFacts, Types, LocalSelf
  <1>3. IsFrame(f) /\ f.fn = "resume" /\ f.L = co /\ f.status = OK /\ f.nny = nny
    <2>1. f = [fn |-> "resume", L |-> co, ci |-> 0, nny |-> nny, nC |-> 0, err |-> 0,
               jmp |-> 0, status |-> OK]
      BY DEF Frame
    <2>2. QED
      BY <1>2, <2>1 DEF IsFrame, Statuses
  <1>4. Local(s, a, co) /\ a.th[co].nC = D /\ a.th[co].jmp = s.th[co].jmp
    <2>1. a = [s EXCEPT !.th[co].nC = D]
      OBVIOUS
    <2> HIDE DEF a, D
    <2>2. QED
      BY ONLY <1>2, <2>1, co \in Threads, LocalNC
  <1> HIDE DEF a, f
  <1>5. Local(s, w, co) /\ w.th[co].nny = 0 /\ w.th[co].nC = a.th[co].nC
        /\ w.th[co].jmp = a.th[co].jmp
    <2> DEFINE x == 0
    <2>1. w = [a EXCEPT !.th[co].nny = x]
      BY <1>1
    <2>2. Shaped(s) /\ Local(s, a, co) /\ x \in Int
      BY <1>2, <1>4
    <2> HIDE DEF D, nny, x
    <2>3. Local(s, w, co) /\ w.th[co].nny = x /\ w.th[co].nC = a.th[co].nC
          /\ w.th[co].jmp = a.th[co].jmp
      BY ONLY <2>1, <2>2, co \in Threads, LocalNny
    <2>4. QED
      BY <2>3 DEF x
  <1>6. w.th[co].nC = s.th[L].nC + 1 /\ w.th[co].jmp = s.th[co].jmp /\ f.nny = s.th[co].nny
    BY <1>3, <1>4, <1>5
  <1>7. Activated(s, co, w, f, r)
    <2> HIDE DEF D, nny
    <2>1. Active(s, L) /\ TopOf(s).fn = "cfun" /\ co \in Threads
      OBVIOUS
    <2>2. Local(s, w, co) /\ w.th[co].nny = 0
      BY <1>5
    <2>3. p = Push(w, f) /\ r = LuaD_rawrunprotected(p, co)
      BY <1>1
    <2>4. QED
      BY ONLY <1>3, <1>6, <2>1, <2>2, <2>3, Resumed
  <1>8. QED
    BY <1>3, <1>5, <1>7, <1>9 DEF Activated

LEMMA ResumeKeeps ==
  ASSUME NEW L, NEW co \in Threads, CallsInv, Lua_resume(L, co)
  PROVE  CallsInv'
  <1> DEFINE w == [State EXCEPT !.th[co].nC = State.th[L].nC + 1, !.th[co].nny = 0]
             p == Push(w, [Frame("resume", co) EXCEPT !.nny = State.th[co].nny])
             r == LuaD_rawrunprotected(p, co)
             st == [r EXCEPT !.th[co].status = OK]
             go == Push(st, Frame("unroll", co))
  <1>1. Active(State, L) /\ TopOf(State).fn = "cfun"
    BY Runs, Fields DEF Lua_resume, Running
  <1>2. \/ Refused(r, co) /\ Become(LuaD_throw(r, co, RESUME_ERROR))
        \/ ~Refused(r, co) /\ \E lua \in BOOLEAN : Become(PrecallAndExecute(r, co, lua))
        \/ ~Refused(r, co) /\ Become(Push(go, Frame("cfun", co)))
        \/ ~Refused(r, co) /\ Become(LuaD_poscall(go, co))
    <2>1. State.th = th
      BY Fields
    <2> HIDE DEF w, p, r, st, go
    <2>2. w = [State EXCEPT !.th[co].nC = ResumeDepth(L, co), !.th[co].nny = 0]
      BY <2>1 DEF w, ResumeDepth
    <2>3. p = Push(w, [Frame("resume", co) EXCEPT !.nny = th[co].nny])
      BY <2>1 DEF p
    <2>4. CASE Refused(r, co)
      BY <2>2, <2>3, <2>4 DEF Lua_resume, r
    <2>5. CASE ~Refused(r, co) /\ th[co].status = OK
      BY <2>2, <2>3, <2>5 DEF Lua_resume, r
    <2>6. CASE ~Refused(r, co) /\ th[co].status # OK
      BY <2>2, <2>3, <2>6 DEF Lua_resume, r, st, go
    <2>7. QED
      BY <2>4, <2>5, <2>6
  <1>3. /\ Refused(r, co) => Good(LuaD_throw(r, co, RESUME_ERROR))
        /\ ~Refused(r, co) => Active(r, co)
    <2>1. r = Resuming(State, L, co)
      BY DEF Resuming
    <2> HIDE DEF r, w, p
    <2>2. QED
      BY <1>1, <2>1, ResumeBegun
  <1> HIDE DEF r
  <1>4. CASE Refused(r, co)
    BY <1>2, <1>3, <1>4, Becomes
  <1>5. CASE ~Refused(r, co)
    <2>1. Active(r, co)
      BY <1>3, <1>5
    <2>2. Active(st, co)
      BY <2>1, ActiveFields
    <2> HIDE DEF st
    <2>3. Active(go, co)
      BY <2>2, PushPlain
    <2> HIDE DEF go
    <2>4. Good(Push(go, Frame("cfun", co))) /\ Good(LuaD_poscall(go, co))
      BY <2>3, PushPlain, Poscall DEF Active
    <2>5. \A lua \in BOOLEAN : Good(PrecallAndExecute(r, co, lua))
      BY <2>1, PrecallExecute
    <2>6. QED
      BY <1>2, <1>5, <2>4, <2>5, Becomes
  <1>6. QED
    BY <1>4, <1>5

----------------------------------------------------------------------------
(* The invariant is inductive. *)

LEMMA CallsInitial == Init => CallsInv
  <1> SUFFICES ASSUME Init
               PROVE  CallsInv
    OBVIOUS
  <1> DEFINE s == State
             f == Frame("cfun", Main)
  <1>1. /\ s = [th |-> s.th, cs |-> s.cs, panic |-> s.panic] /\ s.panic = FALSE
        /\ s.th = [t \in Threads |-> NewThread] /\ s.cs = <<f>>
    BY DEF Init, State
  <1> HIDE DEF s
  <1>2. IsFrame(f) /\ f.fn = "cfun" /\ f.status = OK /\ f.L = Main
    BY NewFrame, CallsAssumption
  <1> HIDE DEF f
  <1>3. IsThread(NewThread) /\ NewThread.nny = 1 /\ NewThread.nC = 0 /\ NewThread.jmp = 0
    BY DEF IsThread, NewThread
  <1>4. \A t \in Threads : s.th[t].nny = 1 /\ s.th[t].nC = 0 /\ s.th[t].jmp = 0
    BY <1>1, <1>3
  <1>5. Len(s.cs) = 1 /\ s.cs[1] = f /\ IsSequence(s.cs)
    BY <1>1 DEF IsSequence
  <1>6. Shaped(s)
    <2>1. s.th = [t \in Threads |-> s.th[t]]
      BY <1>1
    <2>2. \A t \in Threads : IsThread(s.th[t])
      BY <1>1, <1>3
    <2>3. \A i \in 1 .. Len(s.cs) : IsFrame(s.cs[i])
      BY <1>2, <1>5
    <2>4. s = [th |-> s.th, cs |-> s.cs, panic |-> s.panic] /\ s.panic \in BOOLEAN
      BY <1>1
    <2>5. Len(s.cs) > 0
      BY <1>5
    <2>6. QED
      BY <1>5, <2>1, <2>2, <2>3, <2>4, <2>5 DEF Shaped
  <1>7. FrameAt(s.cs, 1)
    BY <1>2, <1>5 DEF FrameAt
  <1>8. StackOK(s.cs) /\ StatusesOK(s.cs)
    BY <1>2, <1>5, <1>7 DEF StackOK, StatusesOK
  <1>9. ASSUME NEW t \in Threads
        PROVE  Nny(s.cs, t, 1) = 1 /\ Raws(s.cs, t, 1) = {}
    <2>1. Nny(s.cs, t, 0 + 1) = Nny(s.cs, t, 0)
      BY <1>2, <1>5, NnyPlain
    <2>2. Resumes(s.cs, t, 0) = {} /\ Held(s.cs, t, 0) = {}
      BY DEF Resumes, Held
    <2>3. Nny(s.cs, t, 0) = 1
      BY <2>2, FS_EmptySet DEF Nny
    <2>4. Raws(s.cs, t, 1) = {}
      BY <1>2, <1>5 DEF Raws
    <2>5. QED
      BY <2>1, <2>3, <2>4
  <1>10. JumpsOK(s) /\ CountsOK(s)
    BY <1>4, <1>5, <1>9 DEF JumpsOK, CountsOK, Innermost
  <1>11. NestingOK(s)
    <2>1. Calls(s.cs, 1) = {}
      BY <1>2, <1>5 DEF Calls
    <2>2. Nesting(s.cs, 1) = 0
      BY <2>1, FS_EmptySet DEF Nesting
    <2>3. QED
      BY <1>2, <1>4, <1>5, <2>2, CallsAssumption DEF NestingOK
  <1>12. 0 <= Limit
    BY LimitType, CallsAssumption
  <1>13. ThreadsBounded(s) /\ SavedBounded(s.cs)
    BY <1>2, <1>4, <1>5, <1>12, LimitType DEF ThreadsBounded, SavedBounded
  <1>14. QED
    BY <1>6, <1>8, <1>10, <1>11, <1>13 DEF CallsInv, Good, Sound, Bounded, s

(* Every action keeps the invariant. *)
LEMMA CallsStep == CallsInv /\ [Next]_vars => CallsInv'
  <1> SUFFICES ASSUME CallsInv, [Next]_vars
               PROVE  CallsInv'
    OBVIOUS
  <1>1. CASE UNCHANGED vars
    BY <1>1 DEF vars, CallsInv, State
  <1>2. CASE Aborted
    BY <1>2 DEF Aborted, vars, CallsInv, State
  <1>3. ASSUME NEW L \in Threads, LuaStep(L)
        PROVE  CallsInv'
    BY <1>3, CallKeeps, TailcallKeeps, ReturnKeeps, ClosureKeeps, JmpKeeps, CallTMKeeps,
       RunerrorKeeps, MemoryErrorKeeps DEF LuaStep
  <1>4. ASSUME NEW L \in Threads, CStep(L)
        PROVE  CallsInv'
    <2>1. CASE \E k \in BOOLEAN : Lua_callk(L, k) \/ Lua_yieldk(L, k)
      BY <2>1, CallkKeeps, YieldkKeeps
    <2>2. CASE \E k, ef \in BOOLEAN : Lua_pcallk(L, k, ef)
      BY <2>2, PcallkKeeps
    <2>3. CASE \E co \in Threads \ {Main} : Lua_resume(L, co)
      BY <2>3, ResumeKeeps
    <2>4. CASE \/ LuaD_protectedparser(L) \/ GenericReader(L) \/ SyntaxError(L)
               \/ ParserDone(L) \/ CFunctionReturns(L)
      BY <2>4, ParserKeeps, ReaderKeeps, SyntaxErrorKeeps, ParserDoneKeeps, CFunctionKeeps
    <2>5. QED
      BY <1>4, <2>1, <2>2, <2>3, <2>4 DEF CStep
  <1>5. ASSUME NEW L \in Threads, ReturnStep(L)
        PROVE  CallsInv'
    BY <1>5, CallReturnKeeps, NoyieldReturnKeeps, RawReturnKeeps, PcallReturnKeeps,
       YpcallReturnKeeps, UnrollKeeps, RecoveryKeeps, ResumeReturnKeeps, ErrormsgKeeps,
       ErrormsgThrowsKeeps DEF ReturnStep
  <1>6. QED
    BY <1>1, <1>2, <1>3, <1>4, <1>5 DEF Next

(* The C stack and the fields of the threads agree at all times: what each *)
(* frame has saved is what its thread had below it, and nny, nCcalls and   *)
(* errorJmp of every thread are those of its frames, whatever calls,       *)
(* errors, yields, resumes and recoveries came before.                     *)
THEOREM CallsInvariance == Spec => []CallsInv
  <1>1. QED
    BY CallsInitial, CallsStep, PTL DEF Spec

----------------------------------------------------------------------------
(* The properties. *)

(* errorJmp of every thread is its innermost luaD_rawrunprotected that is  *)
(* still active, so that luaD_throw never jumps into a frame that is gone: *)
(* whoever leaves a luaD_rawrunprotected, by return, error or yield, has   *)
(* put back the errorJmp of the one below.                                 *)
THEOREM LiveJumps == Spec => []JumpsIntoLiveFrames
  <1>1. ASSUME CallsInv, NEW t \in Threads
        PROVE  LET raws == FramesOf(t, {"raw"}, 1)
               IN  th[t].jmp \in raws \cup {0} /\ \A j \in raws : j <= th[t].jmp
    <2>1. Innermost(cs, t, Len(cs), th[t].jmp)
      BY <1>1, Fields DEF CallsInv, Good, Sound, JumpsOK
    <2>2. FramesOf(t, {"raw"}, 1) = Raws(cs, t, Len(cs))
      BY DEF FramesOf, Raws
    <2>3. QED
      BY <2>1, <2>2 DEF Innermost
  <1>2. CallsInv => JumpsIntoLiveFrames
    BY <1>1 DEF JumpsIntoLiveFrames
  <1>3. QED
    BY <1>2, CallsInvariance, PTL

(* nCcalls of the running thread covers all nested calls and resumes and   *)
(* never exceeds LUAI_MAXCCALLS and an eighth, through errors and yields   *)
(* that skip its decrements and resumes that start from their caller's.    *)
THEOREM BoundedCStack == Spec => []CStackBounded
  <1>1. ASSUME CallsInv, ~panic
        PROVE  Cardinality({j \in DOMAIN cs : cs[j].fn \in {"call", "resume"}}) <= th[Top.L].nC
               /\ th[Top.L].nC <= MAXCCALLS + ExtraCalls
    <2>1. /\ Shaped(State) /\ NestingOK(State) /\ ThreadsBounded(State)
      BY <1>1, Fields DEF CallsInv, Good, Sound, Bounded
    <2>2. Len(cs) \in Nat \ {0} /\ Top.L \in Threads /\ th[Top.L].nC \in Int
      BY <2>1, Fields, Types
    <2>3. {j \in DOMAIN cs : cs[j].fn \in {"call", "resume"}} = Calls(cs, Len(cs))
      <3>1. DOMAIN cs = 1 .. Len(cs)
        BY <2>1, Fields DEF Shaped, IsSequence
      <3>2. QED
        BY <3>1 DEF Calls
    <2>4. Nesting(cs, Len(cs)) <= th[Top.L].nC
      BY <2>1, <2>2, Fields DEF NestingOK, Top
    <2>5. th[Top.L].nC <= Limit + 1
      BY <2>1, <2>2, Fields, LimitType DEF ThreadsBounded
    <2>6. Cardinality({j \in DOMAIN cs : cs[j].fn \in {"call", "resume"}}) = Nesting(cs, Len(cs))
      BY <2>3 DEF Nesting
    <2>7. Limit + 1 = MAXCCALLS + ExtraCalls
      BY CallsAssumption DEF Limit
    <2>8. QED
      BY <2>4, <2>5, <2>6, <2>7
  <1>2. CallsInv => CStackBounded
    BY <1>1 DEF CStackBounded
  <1>3. QED
    BY <1>2, CallsInvariance, PTL

(* A set of positions that is not empty has a last element. *)
LEMMA LastOne ==
  ASSUME NEW n \in Nat, NEW A \in SUBSET (1 .. n), A # {}
  PROVE  \E i \in A : \A j \in A : j <= i
  <1> DEFINE T == {n - j : j \in A}
             R == OpToRel(<, Nat)
  <1>1. \A j \in A : j \in Nat /\ n - j \in Nat
    OBVIOUS
  <1>2. T \subseteq Nat /\ T # {}
    BY <1>1
  <1>3. IsWellFoundedOn(R, Nat)
    BY NatLessThanWellFounded
  <1>4. \A x, y \in Nat : x < y => <<x, y>> \in R
    BY DEF OpToRel
  <1> HIDE DEF R
  <1>5. PICK x \in T : \A y \in T : ~ (<<y, x>> \in R)
    <2> HIDE DEF T
    <2>1. QED
      BY <1>2, <1>3, WFMin
  <1>6. \A y \in T : ~ (y < x)
    BY <1>2, <1>4, <1>5
  <1>7. PICK i \in A : x = n - i
    OBVIOUS
  <1>8. ASSUME NEW j \in A
        PROVE  j <= i
    <2>1. n - j \in T
      OBVIOUS
    <2>2. ~ (n - j < n - i)
      BY <1>6, <1>7, <2>1
    <2>3. i \in Nat /\ j \in Nat
      BY <1>1
    <2>4. QED
      BY <2>2, <2>3
  <1>9. QED
    BY <1>8

(* nny of every thread counts the calls on the C stack since its last      *)
(* resume that may not be interrupted, so that lua_yieldk and lua_pcallk   *)
(* decide by the true nesting: also after errors have skipped decrements,  *)
(* and after recoveries inside a coroutine.                                *)
THEOREM CountedNny == Spec => []NnyCounts
  <1>1. ASSUME CallsInv, NEW t \in Threads, ~(Top.L = t /\ Top.status # OK)
        PROVE  th[t].nny = (IF LastResume(t) = 0 THEN 1 ELSE 0)
                             + Cardinality(FramesOf(t, {"noyield", "parser"}, LastResume(t) + 1))
    <2> DEFINE n == Len(cs)
               rs == Resumes(cs, t, n)
    <2>1. n \in Nat
      BY <1>1, Fields, Types DEF CallsInv, Good, Sound
    <2>2. th[t].nny = Nny(cs, t, n)
      BY <1>1, Fields DEF CallsInv, Good, Sound, CountsOK
    <2>3. FramesOf(t, {"resume"}, 1) = rs
      BY DEF FramesOf, Resumes
    <2>4. CASE rs = {}
      <3>1. LastResume(t) = 0
        BY <2>3, <2>4 DEF LastResume
      <3>2. FramesOf(t, {"noyield", "parser"}, LastResume(t) + 1) = Held(cs, t, n)
        BY <2>4, <3>1 DEF FramesOf, Held
      <3>3. QED
        BY <2>2, <2>4, <3>1, <3>2 DEF Nny
    <2>5. CASE rs # {}
      <3>1. rs \in SUBSET (1 .. n)
        BY DEF Resumes
      <3> HIDE DEF rs
      <3>2. \E i \in rs : \A j \in rs : j <= i
        <4> HIDE DEF n
        <4>1. QED
          BY <2>1, <2>5, <3>1, LastOne
      <3> DEFINE l == CHOOSE i \in rs : \A j \in rs : j <= i
      <3>3. LastResume(t) = l
        BY <2>3, <2>5 DEF LastResume
      <3>4. l \in rs /\ \A j \in rs : j <= l
        BY <3>2
      <3> HIDE DEF l
      <3>5. l \in 1 .. n
        BY <3>1, <3>4
      <3>6. \A j \in 1 .. n : (\A m \in rs : m < j) <=> l + 1 <= j
        BY <2>1, <3>1, <3>4, <3>5
      <3>7. FramesOf(t, {"noyield", "parser"}, l + 1) = Held(cs, t, n)
        BY <2>1, <3>5, <3>6 DEF FramesOf, Held, rs
      <3>8. Cardinality(Held(cs, t, n)) \in Nat
        <4>1. Held(cs, t, n) \in SUBSET (1 .. n)
          BY DEF Held
        <4> HIDE DEF n
        <4>2. QED
          BY <2>1, <4>1, Countable
      <3>9. QED
        BY <2>2, <2>5, <3>3, <3>5, <3>7, <3>8 DEF Nny, rs
    <2>6. QED
      BY <2>4, <2>5
  <1>2. CallsInv => NnyCounts
    BY <1>1 DEF NnyCounts
  <1>3. QED
    BY <1>2, CallsInvariance, PTL

=============================================================================
