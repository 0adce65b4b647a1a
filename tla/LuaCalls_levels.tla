--------------------------- MODULE LuaCalls_levels ---------------------------
(***************************************************************************)
(* Proofs about LuaCalls: what refers to a level of a thread's CallInfo    *)
(* chain refers to a function that is still active, and what a yield or an *)
(* error has interrupted can go on.                                        *)
(*                                                                         *)
(* Every frame of the C stack stands at a level of its thread's chain.     *)
(* The invariant says that there are such levels, lev: LevelAt relates     *)
(* the level of a frame to that of the frame below it, so that what a      *)
(* frame rests on is not touched by what happens above, and ThreadOK says  *)
(* what the chain of a thread looks like, suspended threads included.      *)
(***************************************************************************)
EXTENDS LuaCalls_proofs

(* Frames at whose level no C function without a continuation waits,       *)
(* unless yields are forbidden, and those that luaD_precall is called by.  *)
Keeping == {"call", "ypcall", "execute", "unroll"}
Callers == {"call", "raw", "unroll", "execute"}

(* The C functions of chain c from level 2 to x have continuations. *)
Continued(c, x) == \A l \in 2 .. x : c[l].lua \/ c[l].k

(* A frame of function f at level x lies on one of p at level b, both of   *)
(* the thread with the chain c.                                            *)
Above(c, p, b, f, x) ==
    /\ f = "cfun" => x = b + 1 /\ ~c[x].lua /\ p \in Callers
    /\ f = "execute" => /\ x > b /\ p \in Callers
                        /\ \A l \in b + 1 .. x : c[l].lua /\ (c[l].fresh <=> l = b + 1)
    /\ f = "unroll" => p = "raw"
    /\ f \notin {"cfun", "execute", "unroll"} => x = b
    /\ f = "pcall" => ~c[x].lua
    /\ f = "ypcall" => p = "cfun" /\ c[x].yp
    /\ p = "pcall" => f = "raw"
    /\ p = "cfun" /\ f # "ypcall" => ~c[b].yp

(* The message handler at level e belongs to a protected call: one of t    *)
(* that is suspended or is among the first n frames of d.                  *)
Pcalls(d, t, n, e) == {j \in 1 .. n : d[j].fn = "pcall" /\ d[j].L = t /\ d[j].ci = e}

Justified(c, d, t, n, e) ==
    e = 0 \/ (e \in 1 .. Len(c) /\ c[e].yp) \/ Pcalls(d, t, n, e) # {}

(* lua_resume: its thread has no other activation, and its caller, a C     *)
(* function, is the current one of its own thread.                         *)
Resumer(h, d, lev, i) ==
    LET p == d[i - 1].L
    IN  /\ lev[i] = 1 /\ \A k \in 1 .. i - 1 : d[k].L # d[i].L
        /\ Len(h[p].ci) = lev[i - 1] /\ ~h[p].ci[lev[i - 1]].yp /\ h[p].status = OK

Saved(c, d, lev, i) ==
    d[i].ci = lev[i] /\ d[i].err < d[i].ci /\ Justified(c, d, d[i].L, i - 1, d[i].err)

(* What frame i of d is, given those below it; h are the threads. *)
LevelAt(h, d, lev, i) ==
    LET t == d[i].L
        c == h[t].ci
        f == d[i].fn
    IN  /\ lev[i] \in 1 .. Len(c)
        /\ Nny(d, t, i) = 0 => Continued(c, IF f \in Keeping THEN lev[i] ELSE lev[i] - 1)
        /\ i = 1 => lev[i] = 1 /\ t = Main
        /\ i > 1 /\ f # "resume" => Above(c, d[i - 1].fn, lev[i - 1], f, lev[i])
        /\ f = "resume" => Resumer(h, d, lev, i)
        /\ f = "unroll" => i > 2 /\ d[i - 2].fn = "resume"
        /\ f = "pcall" => Saved(c, d, lev, i)
        /\ i > 3 /\ d[i - 1].fn = "raw" /\ d[i - 2].fn = "pcall" =>
              f = "noyield" \/ d[i - 3].fn = "parser"

(* The innermost frame m: without a status on its way down its level is    *)
(* that of the current function.  A yield goes to lua_resume.              *)
TopLevel(h, d, lev, m) ==
    LET t == d[m].L
        c == h[t].ci
    IN  /\ d[m].status = OK => Len(c) = lev[m] /\ (d[m].fn = "cfun" => ~c[lev[m]].yp)
        /\ d[m].status = YIELD => d[m].fn = "resume" \/ (m > 1 /\ d[m - 1].fn = "resume")
        /\ h[t].status = (IF d[m].status = YIELD THEN YIELD ELSE OK)

(* The frames of d without those of a resume that was refused. *)
LiveLen(d) ==
    LET n == Len(d)
    IN  CASE d[n].status = RESUME_ERROR /\ d[n].fn = "raw" -> n - 2
          [] d[n].status = RESUME_ERROR /\ d[n].fn = "resume" -> n - 1
          [] OTHER -> n

IsCI(r) == r = [lua |-> r.lua, fresh |-> r.fresh, yp |-> r.yp, k |-> r.k, olderr |-> r.olderr]

(* The chain of a thread: a suspended protected call can be resumed, and   *)
(* the handler to restore is that of another one.                          *)
ChainOK(c) ==
    /\ IsSequence(c) /\ Len(c) > 0 /\ ~c[1].lua
    /\ \A l \in 1 .. Len(c) : IsCI(c[l])
    /\ \A l \in 1 .. Len(c) : c[l].yp =>
          /\ l > 1 /\ ~c[l].lua /\ Continued(c, l)
          /\ c[l].olderr = 0 \/ (c[l].olderr \in 1 .. l - 1 /\ c[c[l].olderr].yp)

(* A thread that has yielded did so in a C function that can go on.        *)
Suspended(c) == Len(c) > 1 /\ ~c[Len(c)].lua /\ ~c[Len(c)].yp /\ Continued(c, Len(c) - 1)

UpOK(c, up) == \A u \in up : u \in 1 .. Len(c) /\ c[u].lua

ThreadOK(h, d, t, m) ==
    /\ ChainOK(h[t].ci) /\ UpOK(h[t].ci, h[t].up)
    /\ Justified(h[t].ci, d, t, m, h[t].errfunc)
    /\ h[t].status = YIELD => Suspended(h[t].ci)

LevelsOK(h, d, lev, m) == (\A i \in 1 .. m : LevelAt(h, d, lev, i)) /\ TopLevel(h, d, lev, m)

ThreadsOK(h, d, m) == \A t \in Threads : ThreadOK(h, d, t, m)

Leveled(h, d, m) ==
    (\E lev \in [1 .. m -> Nat] : LevelsOK(h, d, lev, m)) /\ ThreadsOK(h, d, m)

(* What remains when abort has been called. *)
RefsOK(h) ==
    \A t \in Threads :
        /\ UpOK(h[t].ci, h[t].up)
        /\ h[t].errfunc = 0 \/ (h[t].errfunc \in 1 .. Len(h[t].ci) /\ ~h[t].ci[h[t].errfunc].lua)
        /\ Len(h[t].ci) \in Nat /\ DOMAIN h[t].ci = 1 .. Len(h[t].ci)

Placed(s) == RefsOK(s.th) /\ (s.panic \/ Leveled(s.th, s.cs, LiveLen(s.cs)))

(* The inductive invariant, next to CallsInv. *)
LevelsInv == Placed(State)

----------------------------------------------------------------------------
(* The frames of one activation. *)

(* L has the frames from a to m, and none below. *)
Span(d, L, a, m) ==
    /\ a \in 1 .. m + 1
    /\ \A k \in 1 .. a - 1 : d[k].L # L
    /\ \A k \in a .. m : d[k].L = L
    /\ \A k \in a + 1 .. m : d[k].fn # "resume"

(* The thread of the innermost frame was resumed once, at a, if it is not  *)
(* the main thread.                                                        *)
LEMMA Activation ==
  ASSUME NEW h, NEW d, NEW lev, NEW m \in Nat \ {0},
         \A i \in 1 .. m : FrameAt(d, i), \A i \in 1 .. m : LevelAt(h, d, lev, i)
  PROVE  \E a \in 1 .. m : Span(d, d[m].L, a, m) /\ (a = 1 \/ d[a].fn = "resume")
  <1> DEFINE A == {i \in 1 .. m : d[i].fn = "resume"}
             L == d[m].L
  <1>1. \A k \in 1 .. m : d[k].L # L => \E i \in k + 1 .. m : d[i].fn = "resume"
    <2>1. m \in 1 .. m /\ FrameAt(d, m)
      OBVIOUS
    <2>2. \A k \in 1 .. m : k # m => k \in 1 .. m - 1
      OBVIOUS
    <2>3. QED
      BY <2>1, <2>2 DEF FrameAt
  <1> HIDE DEF L
  <1>2. CASE A = {}
    <2>1. Span(d, L, 1, m)
      BY <1>1, <1>2 DEF Span
    <2>2. QED
      BY <2>1 DEF L
  <1>3. CASE A # {}
    <2>1. A \in SUBSET (1 .. m)
      OBVIOUS
    <2>2. PICK a \in A : \A j \in A : j <= a
      <3> HIDE DEF A
      <3>1. QED
        BY <1>3, <2>1, LastOne
    <2>3. a \in 1 .. m /\ d[a].fn = "resume" /\ \A k \in a + 1 .. m : d[k].fn # "resume"
      BY <2>2
    <2> HIDE DEF A
    <2>4. \A k \in a .. m : d[k].L = L
      BY <1>1, <2>3
    <2>5. \A k \in 1 .. a - 1 : d[k].L # d[a].L
      BY <2>3 DEF LevelAt, Resumer
    <2>6. a \in a .. m
      BY <2>3
    <2>7. Span(d, L, a, m)
      BY <2>3, <2>4, <2>5, <2>6 DEF Span
    <2>8. QED
      BY <2>3, <2>7 DEF L
  <1>4. QED
    BY <1>2, <1>3

(* Within an activation the levels do not go down. *)
LEMMA LevelsRise ==
  ASSUME NEW h, NEW d, NEW lev, NEW m \in Nat, \A i \in 1 .. m : LevelAt(h, d, lev, i),
         NEW L, NEW a, Span(d, L, a, m), NEW i \in a .. m, NEW j \in i .. m
  PROVE  lev[i] \in Nat \ {0} /\ lev[j] \in Nat \ {0} /\ lev[i] <= lev[j]
  <1>1. a \in Nat \ {0} /\ i \in 1 .. m /\ j \in 1 .. m
    BY DEF Span
  <1>2. \A k \in 1 .. m : lev[k] \in Nat \ {0}
    BY DEF LevelAt
  <1> DEFINE A == {k \in i .. j : lev[i] <= lev[k]}
  <1>3. A \in SUBSET (1 .. m) /\ i \in A
    BY <1>1, <1>2
  <1>4. PICK k \in A : \A l \in A : l <= k
    <2> HIDE DEF A
    <2>1. QED
      BY <1>3, LastOne
  <1>5. k \in i .. j /\ lev[i] <= lev[k]
    BY <1>4
  <1>6. ASSUME k # j
        PROVE  FALSE
    <2> DEFINE l == k + 1
    <2>1. l \in i .. j /\ l \in 1 .. m /\ l \in a + 1 .. m /\ l > 1 /\ l - 1 = k /\ l > k
      BY <1>1, <1>5, <1>6
    <2>2. l \notin A
      BY <1>4, <1>5, <2>1
    <2> HIDE DEF l, A
    <2>3. d[l].fn # "resume" /\ LevelAt(h, d, lev, l)
      BY <2>1 DEF Span
    <2>4. Above(h[d[l].L].ci, d[k].fn, lev[k], d[l].fn, lev[l])
      BY <2>1, <2>3 DEF LevelAt
    <2>5. lev[k] <= lev[l]
      <3>1. k \in 1 .. m /\ lev[k] \in Nat \ {0} /\ lev[l] \in Nat \ {0}
        BY <1>1, <1>2, <1>5, <2>1
      <3>2. CASE d[l].fn = "unroll"
        <4>1. d[k].fn = "raw" /\ l > 2 /\ d[l - 2].fn = "resume"
          BY <2>1, <2>3, <2>4, <3>2 DEF Above, LevelAt
        <4> DEFINE r == l - 2
        <4>2. r \in 1 .. m /\ k \in 1 .. m /\ k - 1 = r /\ k > 1
          BY <2>1, <4>1
        <4>3. d[r].fn = "resume"
          BY <4>1
        <4> HIDE DEF r
        <4>4. LevelAt(h, d, lev, r) /\ LevelAt(h, d, lev, k)
          BY <4>2
        <4>5. lev[r] = 1
          BY <4>3, <4>4 DEF LevelAt, Resumer
        <4>6. lev[k] = lev[r]
          <5>1. Above(h[d[k].L].ci, d[r].fn, lev[r], d[k].fn, lev[k])
            BY <4>1, <4>2, <4>4 DEF LevelAt
          <5>2. QED
            BY <4>1, <5>1 DEF Above
        <4>7. QED
          BY <3>1, <4>5, <4>6
      <3>3. CASE d[l].fn # "unroll"
        BY <2>4, <3>1, <3>3 DEF Above
      <3>4. QED
        BY <3>2, <3>3
    <2>6. lev[i] <= lev[l]
      BY <1>1, <1>2, <1>5, <2>1, <2>5
    <2>7. QED
      BY <2>1, <2>2, <2>6 DEF A
  <1>7. QED
    BY <1>1, <1>2, <1>5, <1>6

----------------------------------------------------------------------------
(* What a step leaves as it is. *)

SameRows(d, d2, j) ==
    \A i \in 1 .. j : /\ d2[i].fn = d[i].fn /\ d2[i].L = d[i].L
                      /\ d2[i].ci = d[i].ci /\ d2[i].err = d[i].err

SameThread(r, q) ==
    r.ci = q.ci /\ r.up = q.up /\ r.errfunc = q.errfunc /\ r.status = q.status

(* Chain c2 is c up to level x, but for continuations set. *)
Extends(c, c2, x) ==
    /\ Len(c2) \in Nat /\ x <= Len(c2)
    /\ \A l \in 1 .. x : /\ c2[l].lua = c[l].lua /\ c2[l].fresh = c[l].fresh
                         /\ c2[l].yp = c[l].yp /\ (c[l].k => c2[l].k)

Frames(h, d, lev, m) ==
    \A i \in 1 .. m : FrameAt(d, i) /\ d[i].L \in Threads /\ LevelAt(h, d, lev, i)

(* Thread L has the frames of d from a to m.  Of these and the ones below  *)
(* the first j are left, and the chain of L below them.                    *)
Keeps(h, d, lev, L, a, j, h2, d2, lev2) ==
    /\ SameRows(d, d2, j) /\ \A i \in 1 .. j : lev2[i] = lev[i]
    /\ \A t \in Threads : t # L => SameThread(h2[t], h[t])
    /\ j >= a => Extends(h[L].ci, h2[L].ci, lev[j])

LEMMA FrameKept ==
  ASSUME NEW h, NEW d, NEW lev, NEW m \in Nat, Frames(h, d, lev, m),
         \A t \in Threads : Len(h[t].ci) \in Nat,
         NEW L, NEW a, Span(d, L, a, m), NEW j \in a - 1 .. m,
         NEW h2, NEW d2, NEW lev2, Keeps(h, d, lev, L, a, j, h2, d2, lev2), NEW i \in 1 .. j
  PROVE  LevelAt(h2, d2, lev2, i)
  <1> DEFINE t == d[i].L
             c == h[t].ci
             c2 == h2[t].ci
             f == d[i].fn
             x == lev[i]
  <1>1. /\ i \in 1 .. m /\ i \in Nat /\ j \in Nat /\ a \in Nat \ {0} /\ m \in Nat
        /\ t \in Threads /\ FrameAt(d, i) /\ LevelAt(h, d, lev, i)
    BY DEF Span, Frames
  <1>2. d2[i].fn = f /\ d2[i].L = t /\ d2[i].ci = d[i].ci /\ d2[i].err = d[i].err /\ lev2[i] = x
    BY DEF Keeps, SameRows
  <1>3. x \in 1 .. Len(c) /\ x \in Nat \ {0} /\ Len(c) \in Nat
    BY <1>1 DEF LevelAt
  <1>4. Extends(c, c2, x)
    <2>1. CASE t = L
      <3>1. i >= a
        BY <1>1, <2>1 DEF Span
      <3>2. j \in a .. m /\ i \in a .. m /\ j \in i .. m
        BY <1>1, <3>1
      <3>3. \A k \in 1 .. m : LevelAt(h, d, lev, k)
        BY DEF Frames
      <3>4. lev[j] \in Nat \ {0} /\ x <= lev[j]
        BY <3>2, <3>3, LevelsRise
      <3>5. Extends(c, c2, lev[j])
        BY <2>1, <3>2 DEF Keeps
      <3>6. Len(c2) \in Nat /\ \A l \in 1 .. x : l \in 1 .. lev[j]
        BY <1>3, <3>4, <3>5 DEF Extends
      <3>7. Len(c2) \in Nat /\ x \in Nat /\ x <= lev[j] /\ lev[j] \in Nat /\ lev[j] <= Len(c2)
        BY <1>3, <3>4, <3>5 DEF Extends
      <3> HIDE DEF c, c2, x
      <3>8. x <= Len(c2)
        BY ONLY <3>7
      <3>9. QED
        BY ONLY <3>5, <3>6, <3>8 DEF Extends
    <2>2. CASE t # L
      <3>1. c2 = c
        BY <1>1, <2>2 DEF Keeps, SameThread
      <3> HIDE DEF c, c2
      <3>2. QED
        BY <1>3, <3>1 DEF Extends
    <2>3. QED
      BY <2>1, <2>2
  <1>5. x \in 1 .. Len(c2)
    BY <1>3, <1>4 DEF Extends
  <1>6. Nny(d2, t, i) = Nny(d, t, i)
    <2>1. \A k \in 1 .. i : d2[k].fn = d[k].fn /\ d2[k].L = d[k].L
      BY <1>1 DEF Keeps, SameRows
    <2>2. Resumes(d2, t, i) = Resumes(d, t, i)
      BY <2>1 DEF Resumes
    <2>3. Held(d2, t, i) = Held(d, t, i)
      BY <2>1, <2>2 DEF Held
    <2>4. QED
      BY <2>2, <2>3 DEF Nny
  <1>7. \A y \in {x, x - 1} : Continued(c, y) => Continued(c2, y)
    <2> HIDE DEF c, c2, x
    <2>1. \A y \in {x, x - 1} : \A l \in 2 .. y : l \in 1 .. x
      BY <1>3
    <2>2. \A l \in 1 .. x : c[l].lua \/ c[l].k => c2[l].lua \/ c2[l].k
      BY <1>4 DEF Extends
    <2>3. QED
      BY <2>1, <2>2 DEF Continued
  <1>8. \A k \in 1 .. i - 1 : /\ d2[k].fn = d[k].fn /\ d2[k].L = d[k].L /\ lev2[k] = lev[k]
                              /\ d2[k].ci = d[k].ci
    BY <1>1 DEF Keeps, SameRows
  <1>9. (i > 1 => i - 1 \in 1 .. i - 1) /\ (i > 2 => i - 2 \in 1 .. i - 1)
        /\ (i > 3 => i - 3 \in 1 .. i - 1)
    BY <1>1
  <1> HIDE DEF c, c2, f, x
  <1>10. ASSUME i > 1, f # "resume"
         PROVE  Above(c2, d2[i - 1].fn, lev2[i - 1], f, x)
    <2> DEFINE p == d[i - 1].fn
               b == lev[i - 1]
    <2>1. Above(c, p, b, f, x) /\ (f = "unroll" => p = "raw")
      BY <1>1, <1>10 DEF LevelAt, Above, c, f, x, t
    <2>2. d2[i - 1].fn = p /\ lev2[i - 1] = b
      BY <1>8, <1>9, <1>10
    <2>3. b \in Nat \ {0}
      <3>1. i - 1 \in 1 .. m
        BY <1>1, <1>10
      <3>2. LevelAt(h, d, lev, i - 1)
        BY <3>1 DEF Frames
      <3>3. QED
        BY <3>2 DEF LevelAt
    <2> HIDE DEF p, b
    <2>4. \A l \in b + 1 .. x : l \in 1 .. x
      BY <1>3, <2>3
    <2>5. f = "execute" => /\ x > b /\ p \in Callers
                           /\ \A l \in b + 1 .. x : c2[l].lua /\ (c2[l].fresh <=> l = b + 1)
      BY <1>3, <1>4, <2>1, <2>4 DEF Above, Extends
    <2>6. f = "cfun" => x = b + 1 /\ ~c2[x].lua /\ p \in Callers
      BY <1>3, <1>4, <2>1 DEF Above, Extends
    <2>7. (f = "pcall" => ~c2[x].lua) /\ (f = "ypcall" => p = "cfun" /\ c2[x].yp)
      BY <1>3, <1>4, <2>1 DEF Above, Extends
    <2>8. p = "cfun" /\ f # "ypcall" => ~c2[b].yp
      <3>1. ASSUME p = "cfun", f # "ypcall"
            PROVE  b = x /\ ~c[b].yp
        BY <2>1, <3>1 DEF Above, Callers
      <3>2. QED
        BY <1>3, <1>4, <3>1 DEF Extends
    <2>9. Above(c2, p, b, f, x)
      BY <2>1, <2>5, <2>6, <2>7, <2>8 DEF Above
    <2>10. QED
      BY <2>2, <2>9
  <1>11. ASSUME f = "resume"
         PROVE  Resumer(h2, d2, lev2, i)
    <2> DEFINE r == i - 1
               p == d[r].L
    <2>1. i > 1 /\ Resumer(h, d, lev, i)
      BY <1>1, <1>11 DEF FrameAt, LevelAt, f
    <2>2. r \in 1 .. a - 1 /\ r \in 1 .. i - 1
      BY <1>1, <1>11, <2>1 DEF Span, f
    <2>3. p # L /\ p \in Threads /\ d2[r].L = p /\ lev2[r] = lev[r]
      BY <1>1, <1>8, <2>2 DEF Span, Frames
    <2>4. SameThread(h2[p], h[p])
      BY <2>3 DEF Keeps
    <2>5. lev2[i] = 1 /\ \A k \in 1 .. r : d2[k].L # d2[i].L
      BY <1>2, <1>8, <2>1 DEF Resumer, x
    <2>6. Len(h[p].ci) = lev[r] /\ ~h[p].ci[lev[r]].yp /\ h[p].status = OK
      BY <2>1 DEF Resumer
    <2> HIDE DEF p, r
    <2>7. Len(h2[p].ci) = lev2[r] /\ ~h2[p].ci[lev2[r]].yp /\ h2[p].status = OK
      BY <2>3, <2>4, <2>6 DEF SameThread
    <2>8. QED
      BY <2>3, <2>5, <2>7 DEF Resumer, p, r
  <1>12. ASSUME f = "pcall"
         PROVE  Saved(c2, d2, lev2, i)
    <2> DEFINE e == d[i].err
               ci == d[i].ci
    <2>1. ci = x /\ e < ci /\ Justified(c, d, t, i - 1, e)
      BY <1>1, <1>12 DEF LevelAt, Saved, c, f, x
    <2> HIDE DEF e, ci
    <2>2. Pcalls(d2, t, i - 1, e) = Pcalls(d, t, i - 1, e)
      BY <1>8 DEF Pcalls
    <2>3. Justified(c2, d2, t, i - 1, e)
      <3>1. CASE e \in 1 .. Len(c) /\ c[e].yp
        <4>1. e \in 1 .. x /\ e \in 1 .. Len(c2)
          BY <1>3, <1>5, <2>1, <3>1
        <4>2. QED
          BY <1>4, <3>1, <4>1 DEF Extends, Justified
      <3>2. CASE ~(e \in 1 .. Len(c) /\ c[e].yp)
        BY <2>1, <2>2, <3>2 DEF Justified
      <3>3. QED
        BY <3>1, <3>2
    <2>4. QED
      BY <1>2, <2>1, <2>3 DEF Saved, e, ci
  <1>13. i > 3 /\ d2[i - 1].fn = "raw" /\ d2[i - 2].fn = "pcall" =>
              f = "noyield" \/ d2[i - 3].fn = "parser"
    BY <1>1, <1>8, <1>9 DEF LevelAt, f
  <1>14. f = "unroll" => i > 2 /\ d2[i - 2].fn = "resume"
    BY <1>1, <1>8, <1>9 DEF LevelAt, f
  <1>15. Nny(d2, t, i) = 0 => Continued(c2, IF f \in Keeping THEN x ELSE x - 1)
    <2>1. Nny(d, t, i) = 0 => Continued(c, IF f \in Keeping THEN x ELSE x - 1)
      BY <1>1 DEF LevelAt, c, f, x
    <2>2. QED
      BY <1>6, <1>7, <2>1
  <1>16. i = 1 => x = 1 /\ t = Main
    BY <1>1 DEF LevelAt, x
  <1> HIDE DEF t
  <1>17. d2[i].L = t /\ h2[t].ci = c2 /\ d2[i].fn = f /\ lev2[i] = x
    BY <1>2 DEF c2
  <1>18. QED
    BY <1>5, <1>10, <1>11, <1>12, <1>13, <1>14, <1>15, <1>16, <1>17 DEF LevelAt

(* Levels for m2 frames: the first j have lev, the last y, any others x.   *)
Placing(lev, j, m2, x, y) ==
    [i \in 1 .. m2 |-> IF i <= j THEN lev[i] ELSE IF i = m2 THEN y ELSE x]

(* What remains to be shown for a step that changes thread L and the       *)
(* frames from j + 1 on: the new frames, the innermost one and L itself.   *)
LEMMA Rebuilt ==
  ASSUME NEW h, NEW d, NEW lev, NEW m \in Nat, Frames(h, d, lev, m), ThreadsOK(h, d, m),
         NEW L \in Threads, NEW a, Span(d, L, a, m), NEW j \in a - 1 .. m,
         NEW h2, NEW d2, Keeps(h, d, lev, L, a, j, h2, d2, lev),
         NEW m2 \in Nat, j <= m2, NEW x \in Nat, NEW y \in Nat,
         NEW lev2, lev2 = Placing(lev, j, m2, x, y),
         \A i \in j + 1 .. m2 : LevelAt(h2, d2, lev2, i),
         TopLevel(h2, d2, lev2, m2), ThreadOK(h2, d2, L, m2)
  PROVE  Leveled(h2, d2, m2)
  <1>1. a \in Nat \ {0} /\ j \in Nat /\ a - 1 <= j /\ j <= m
    BY DEF Span
  <1>2. \A i \in 1 .. j : lev2[i] = lev[i]
    BY <1>1 DEF Placing
  <1>3. Keeps(h, d, lev, L, a, j, h2, d2, lev2)
    BY <1>2 DEF Keeps
  <1>4. \A t \in Threads : Len(h[t].ci) \in Nat
    <2>1. \A t \in Threads : IsSequence(h[t].ci)
      BY DEF ThreadsOK, ThreadOK, ChainOK
    <2>2. QED
      BY <2>1 DEF IsSequence
  <1>5. \A i \in 1 .. m2 : LevelAt(h2, d2, lev2, i)
    <2>1. ASSUME NEW i \in 1 .. j
          PROVE  LevelAt(h2, d2, lev2, i)
      BY <1>3, <1>4, FrameKept
    <2>2. \A i \in 1 .. m2 : i \in 1 .. j \/ i \in j + 1 .. m2
      BY <1>1
    <2>3. QED
      BY <2>1, <2>2
  <1>6. lev2 \in [1 .. m2 -> Nat]
    <2>1. \A i \in 1 .. j : lev[i] \in Nat
      BY <1>1 DEF Frames, LevelAt
    <2>2. QED
      BY <1>1, <2>1 DEF Placing
  <1>7. ASSUME NEW t \in Threads
        PROVE  ThreadOK(h2, d2, t, m2)
    <2>1. CASE t = L
      BY <2>1
    <2>2. CASE t # L
      <3>1. SameThread(h2[t], h[t]) /\ ThreadOK(h, d, t, m)
        BY <2>2 DEF Keeps, ThreadsOK
      <3>2. \A e : Pcalls(d, t, m, e) \subseteq Pcalls(d2, t, m2, e)
        <4>1. ASSUME NEW e, NEW k \in Pcalls(d, t, m, e)
              PROVE  k \in Pcalls(d2, t, m2, e)
          <5>1. k \in 1 .. m /\ d[k].fn = "pcall" /\ d[k].L = t /\ d[k].ci = e
            BY <4>1 DEF Pcalls
          <5>2. k \in 1 .. j
            BY <1>1, <2>2, <5>1 DEF Span
          <5>3. k \in 1 .. m2
            BY <1>1, <5>2
          <5>4. QED
            BY <5>1, <5>2, <5>3 DEF Keeps, SameRows, Pcalls
        <4>2. QED
          BY <4>1
      <3>3. \A e : Justified(h[t].ci, d, t, m, e) => Justified(h[t].ci, d2, t, m2, e)
        BY <3>2 DEF Justified
      <3>4. QED
        BY <3>1, <3>3 DEF ThreadOK, SameThread
    <2>3. QED
      BY <2>1, <2>2
  <1>8. QED
    BY <1>5, <1>6, <1>7 DEF Leveled, LevelsOK, ThreadsOK

----------------------------------------------------------------------------
(* Chains of CallInfo. *)

LEMMA ChainFacts ==
  ASSUME NEW c, ChainOK(c)
  PROVE  /\ IsSequence(c) /\ Len(c) \in Nat \ {0} /\ DOMAIN c = 1 .. Len(c)
         /\ ~c[1].lua /\ ~c[1].yp
  <1>1. IsSequence(c) /\ Len(c) > 0
    BY DEF ChainOK
  <1>2. Len(c) \in Nat \ {0} /\ DOMAIN c = 1 .. Len(c)
    BY <1>1 DEF IsSequence
  <1>3. QED
    BY <1>1, <1>2 DEF ChainOK

(* A return, an error or a recovery cuts the chain. *)
LEMMA ChainCut ==
  ASSUME NEW c, ChainOK(c), NEW x \in 1 .. Len(c), NEW c2, c2 = SubSeq(c, 1, x)
  PROVE  /\ ChainOK(c2) /\ Len(c2) = x /\ Extends(c, c2, x)
         /\ \A l \in 1 .. x : c2[l] = c[l]
  <1>1. IsSequence(c) /\ Len(c) \in Nat
    BY ChainFacts
  <1>2. IsSequence(c2) /\ Len(c2) = x /\ \A l \in 1 .. x : c2[l] = c[l]
    BY <1>1, CutOff
  <1>3. \A l \in 1 .. x : l \in 1 .. Len(c) /\ l \in Nat /\ x \in Nat \ {0}
    BY <1>1
  <1>4. ASSUME NEW l \in 1 .. x, c2[l].yp
        PROVE  /\ l > 1 /\ ~c2[l].lua /\ Continued(c2, l)
               /\ c2[l].olderr = 0 \/ (c2[l].olderr \in 1 .. l - 1 /\ c2[c2[l].olderr].yp)
    <2>1. /\ l > 1 /\ ~c[l].lua /\ Continued(c, l)
          /\ c[l].olderr = 0 \/ (c[l].olderr \in 1 .. l - 1 /\ c[c[l].olderr].yp)
      BY <1>2, <1>3, <1>4 DEF ChainOK
    <2>2. Continued(c2, l)
      <3>1. \A k \in 2 .. l : k \in 1 .. x
        BY <1>3
      <3>2. QED
        BY <1>2, <2>1, <3>1 DEF Continued
    <2>3. \A k \in 1 .. l - 1 : k \in 1 .. x
      BY <1>3
    <2>4. QED
      BY <1>2, <2>1, <2>2, <2>3
  <1>5. 1 \in 1 .. x
    BY <1>3
  <1>6. ChainOK(c2)
    BY <1>2, <1>3, <1>4, <1>5 DEF ChainOK
  <1>7. QED
    BY <1>2, <1>3, <1>6 DEF Extends

(* A function is entered. *)
LEMMA ChainMore ==
  ASSUME NEW c, ChainOK(c), NEW r, IsCI(r), ~r.yp, NEW c2, IsSequence(c2),
         Len(c2) = Len(c) + 1, c2[Len(c) + 1] = r, \A l \in 1 .. Len(c) : c2[l] = c[l]
  PROVE  ChainOK(c2) /\ Extends(c, c2, Len(c))
  <1> DEFINE n == Len(c)
  <1>1. IsSequence(c) /\ n \in Nat \ {0}
    BY ChainFacts
  <1>2. IsSequence(c2) /\ Len(c2) = n + 1 /\ c2[n + 1] = r /\ \A l \in 1 .. n : c2[l] = c[l]
    OBVIOUS
  <1> HIDE DEF n
  <1>3. \A l \in 1 .. n + 1 : l \in 1 .. n \/ l = n + 1
    BY <1>1
  <1>4. ASSUME NEW l \in 1 .. n, c2[l].yp
        PROVE  /\ l > 1 /\ ~c2[l].lua /\ Continued(c2, l)
               /\ c2[l].olderr = 0 \/ (c2[l].olderr \in 1 .. l - 1 /\ c2[c2[l].olderr].yp)
    <2>1. /\ l > 1 /\ ~c[l].lua /\ Continued(c, l)
          /\ c[l].olderr = 0 \/ (c[l].olderr \in 1 .. l - 1 /\ c[c[l].olderr].yp)
      BY <1>2, <1>4 DEF ChainOK, n
    <2>2. Continued(c2, l)
      <3>1. \A k \in 2 .. l : k \in 1 .. n
        BY <1>1
      <3>2. QED
        BY <1>2, <2>1, <3>1 DEF Continued
    <2>3. \A k \in 1 .. l - 1 : k \in 1 .. n
      BY <1>1
    <2>4. QED
      BY <1>2, <2>1, <2>2, <2>3
  <1>5. 1 \in 1 .. n /\ Len(c2) > 0
    BY <1>1, <1>2
  <1>6. \A l \in 1 .. n : IsCI(c[l]) /\ ~c[1].lua
    BY DEF ChainOK, n
  <1>7. ChainOK(c2)
    BY <1>2, <1>3, <1>4, <1>5, <1>6 DEF ChainOK
  <1>8. n <= Len(c2) /\ Len(c2) \in Nat
    BY <1>1, <1>2
  <1>9. QED
    BY <1>2, <1>7, <1>8 DEF Extends, n

(* The current function is marked. *)
LEMMA ChainMark ==
  ASSUME NEW c, ChainOK(c), NEW r, IsCI(r), r.lua = c[Len(c)].lua,
         r.yp => /\ Len(c) > 1 /\ ~r.lua /\ r.k /\ Continued(c, Len(c) - 1)
                 /\ r.olderr = 0 \/ (r.olderr \in 1 .. Len(c) - 1 /\ c[r.olderr].yp),
         NEW c2, IsSequence(c2), Len(c2) = Len(c), c2[Len(c)] = r,
         \A l \in 1 .. Len(c) : l # Len(c) => c2[l] = c[l]
  PROVE  /\ ChainOK(c2) /\ \A l \in 1 .. Len(c) - 1 : c2[l] = c[l]
         /\ \A x \in 0 .. Len(c) - 1 : Extends(c, c2, x)
  <1> DEFINE n == Len(c)
  <1>1. IsSequence(c) /\ n \in Nat \ {0}
    BY ChainFacts
  <1>2. IsSequence(c2) /\ Len(c2) = n /\ c2[n] = r /\ \A l \in 1 .. n : l # n => c2[l] = c[l]
    OBVIOUS
  <1>3. \A l \in 1 .. n - 1 : l \in 1 .. n /\ l # n
    BY <1>1
  <1>4. \A l \in 1 .. n : l \in 1 .. n - 1 \/ l = n
    BY <1>1
  <1>5. \A l \in 1 .. n : IsCI(c2[l]) /\ c2[l].lua = c[l].lua
    BY <1>2 DEF ChainOK
  <1>6. \A x \in 0 .. n - 1 : Continued(c, x) => Continued(c2, x)
    <2>1. \A x \in 0 .. n - 1 : \A l \in 2 .. x : l \in 1 .. n /\ l # n
      BY <1>1
    <2>2. QED
      BY <1>2, <2>1 DEF Continued
  <1>7. ASSUME NEW l \in 1 .. n - 1, c2[l].yp
        PROVE  /\ l > 1 /\ ~c2[l].lua /\ Continued(c2, l)
               /\ c2[l].olderr = 0 \/ (c2[l].olderr \in 1 .. l - 1 /\ c2[c2[l].olderr].yp)
    <2>1. /\ l > 1 /\ ~c[l].lua /\ Continued(c, l)
          /\ c[l].olderr = 0 \/ (c[l].olderr \in 1 .. l - 1 /\ c[c[l].olderr].yp)
      BY <1>2, <1>3, <1>7 DEF ChainOK
    <2>2. Continued(c2, l)
      <3>1. l \in 0 .. n - 1
        BY <1>1
      <3>2. QED
        BY <1>6, <2>1, <3>1
    <2>3. \A k \in 1 .. l - 1 : k \in 1 .. n /\ k # n
      BY <1>1
    <2>4. QED
      BY <1>2, <1>3, <2>1, <2>2, <2>3
  <1>8. ASSUME c2[n].yp
        PROVE  /\ n > 1 /\ ~c2[n].lua /\ Continued(c2, n)
               /\ c2[n].olderr = 0 \/ (c2[n].olderr \in 1 .. n - 1 /\ c2[c2[n].olderr].yp)
    <2>1. /\ n > 1 /\ ~r.lua /\ r.k /\ Continued(c, n - 1)
          /\ r.olderr = 0 \/ (r.olderr \in 1 .. n - 1 /\ c[r.olderr].yp)
      BY <1>2, <1>8
    <2>2. Continued(c2, n - 1)
      <3>1. n - 1 \in 0 .. n - 1
        BY <1>1
      <3>2. QED
        BY <1>6, <2>1, <3>1
    <2>3. \A l \in 2 .. n : l \in 2 .. n - 1 \/ l = n
      BY <1>1
    <2>4. Continued(c2, n)
      BY <1>2, <2>1, <2>2, <2>3 DEF Continued
    <2>5. QED
      BY <1>2, <1>3, <2>1, <2>4
  <1> HIDE DEF n
  <1>9. ~c[1].lua /\ 1 \in 1 .. n /\ n > 0
    BY <1>1, ChainFacts
  <1>10. ChainOK(c2)
    <2>1. ASSUME NEW l \in 1 .. n, c2[l].yp
          PROVE  /\ l > 1 /\ ~c2[l].lua /\ Continued(c2, l)
                 /\ c2[l].olderr = 0 \/ (c2[l].olderr \in 1 .. l - 1 /\ c2[c2[l].olderr].yp)
      BY <1>4, <1>7, <1>8, <2>1
    <2>2. QED
      BY <1>2, <1>5, <1>9, <2>1 DEF ChainOK
  <1>11. \A x \in 0 .. n - 1 : Extends(c, c2, x)
    <2>1. \A x \in 0 .. n - 1 : \A l \in 1 .. x : l \in 1 .. n /\ l # n
      BY <1>1
    <2>2. \A x \in 0 .. n - 1 : x <= n /\ n \in Nat
      BY <1>1
    <2>3. QED
      BY <1>2, <2>1, <2>2 DEF Extends
  <1>12. QED
    BY <1>2, <1>3, <1>10, <1>11 DEF n

----------------------------------------------------------------------------
(* States. *)

(* Thread L, that of the innermost frame, stands at the levels lev.        *)
Standing(s, L, lev, a) ==
    LET n == Len(s.cs)
    IN  /\ n \in Nat \ {0} /\ L \in Threads /\ L = s.cs[n].L
        /\ Frames(s.th, s.cs, lev, n) /\ ThreadsOK(s.th, s.cs, n)
        /\ TopLevel(s.th, s.cs, lev, n)
        /\ a \in 1 .. n /\ Span(s.cs, L, a, n) /\ (a = 1 \/ s.cs[a].fn = "resume")

(* Nothing is on its way down the C stack. *)
Ready(s, L) == Active(s, L) /\ Leveled(s.th, s.cs, Len(s.cs))

LEMMA Stands ==
  ASSUME NEW s, Sound(s), Leveled(s.th, s.cs, Len(s.cs))
  PROVE  \E lev, a : Standing(s, TopOf(s).L, lev, a)
  <1> DEFINE n == Len(s.cs)
             L == TopOf(s).L
  <1>1. n \in Nat \ {0} /\ L \in Threads /\ L = s.cs[n].L /\ StackOK(s.cs)
        /\ \A i \in 1 .. n : s.cs[i].L \in Threads
    BY Types DEF Sound, TopOf
  <1>2. PICK lev \in [1 .. n -> Nat] : LevelsOK(s.th, s.cs, lev, n)
    BY DEF Leveled
  <1>3. (\A i \in 1 .. n : LevelAt(s.th, s.cs, lev, i)) /\ TopLevel(s.th, s.cs, lev, n)
        /\ ThreadsOK(s.th, s.cs, n)
    BY <1>2 DEF LevelsOK, Leveled
  <1>4. \A i \in 1 .. n : FrameAt(s.cs, i)
    BY <1>1 DEF StackOK
  <1>5. Frames(s.th, s.cs, lev, n)
    BY <1>1, <1>3, <1>4 DEF Frames
  <1>6. PICK a \in 1 .. n : Span(s.cs, s.cs[n].L, a, n) /\ (a = 1 \/ s.cs[a].fn = "resume")
    <2> HIDE DEF n
    <2>1. QED
      BY <1>1, <1>3, <1>4, Activation
  <1>7. Standing(s, L, lev, a)
    BY <1>1, <1>3, <1>5, <1>6 DEF Standing
  <1>8. QED
    BY <1>7

LEMMA ReadyStands ==
  ASSUME NEW s, NEW L, Ready(s, L)
  PROVE  /\ \E lev, a : Standing(s, L, lev, a)
         /\ TopOf(s).L = L /\ TopOf(s).status = OK /\ TopOf(s).fn # "resume" /\ Shaped(s)
         /\ TopOf(s) = s.cs[Len(s.cs)]
  <1>1. Sound(s) /\ Shaped(s) /\ TopOf(s).L = L /\ TopOf(s).status = OK /\ TopOf(s).fn # "resume"
    BY ActiveFacts DEF Ready, Active
  <1>2. QED
    BY <1>1, Stands DEF Ready, TopOf

(* The current function of L, and what it is to the innermost frame. *)
LEMMA StandsAt ==
  ASSUME NEW s, NEW L, NEW lev, NEW a, Standing(s, L, lev, a)
  PROVE  LET n == Len(s.cs)
             c == s.th[L].ci
         IN  /\ n \in Nat \ {0} /\ L \in Threads /\ s.cs[n].L = L /\ LevelAt(s.th, s.cs, lev, n)
             /\ lev[n] \in Nat \ {0} /\ lev[n] \in 1 .. Len(c)
             /\ s.cs[n].status = OK => lev[n] = Len(c) /\ (s.cs[n].fn = "cfun" => ~c[lev[n]].yp)
             /\ ChainOK(c) /\ IsSequence(c) /\ Len(c) \in Nat \ {0} /\ DOMAIN c = 1 .. Len(c)
             /\ UpOK(c, s.th[L].up) /\ Justified(c, s.cs, L, n, s.th[L].errfunc)
             /\ ThreadsOK(s.th, s.cs, n)
             /\ s.th[L].status = (IF s.cs[n].status = YIELD THEN YIELD ELSE OK)
  <1> DEFINE n == Len(s.cs)
             c == s.th[L].ci
  <1>1. n \in Nat \ {0} /\ L \in Threads /\ s.cs[n].L = L /\ n \in 1 .. n
        /\ TopLevel(s.th, s.cs, lev, n) /\ Frames(s.th, s.cs, lev, n)
        /\ ThreadOK(s.th, s.cs, L, n) /\ ThreadsOK(s.th, s.cs, n)
    BY DEF Standing, ThreadsOK
  <1> HIDE DEF n
  <1>2. LevelAt(s.th, s.cs, lev, n)
    BY <1>1 DEF Frames
  <1>3. ChainOK(c) /\ UpOK(c, s.th[L].up) /\ Justified(c, s.cs, L, n, s.th[L].errfunc)
    BY <1>1 DEF ThreadOK
  <1>4. IsSequence(c) /\ Len(c) \in Nat \ {0} /\ DOMAIN c = 1 .. Len(c)
    BY <1>3, ChainFacts
  <1>5. lev[n] \in 1 .. Len(c)
    BY <1>1, <1>2 DEF LevelAt
  <1>6. lev[n] \in Nat \ {0}
    BY <1>4, <1>5
  <1>7. /\ s.cs[n].status = OK => lev[n] = Len(c) /\ (s.cs[n].fn = "cfun" => ~c[lev[n]].yp)
        /\ s.th[L].status = (IF s.cs[n].status = YIELD THEN YIELD ELSE OK)
    BY <1>1 DEF TopLevel
  <1>8. QED
    BY <1>1, <1>2, <1>3, <1>4, <1>5, <1>6, <1>7 DEF n

(* u has the threads of s but for the chain, the open upvalues, the        *)
(* message handler and the status of L.                                    *)
Edit(s, u, L, c, up, ef, st) ==
    /\ \A t \in Threads : t # L => SameThread(u.th[t], s.th[t])
    /\ u.th[L].ci = c /\ u.th[L].up = up /\ u.th[L].errfunc = ef /\ u.th[L].status = st

(* u has one more frame, f. *)
Grown(s, u, f) ==
    /\ Len(u.cs) = Len(s.cs) + 1 /\ u.cs[Len(s.cs) + 1] = f
    /\ \A i \in 1 .. Len(s.cs) : u.cs[i] = s.cs[i]

(* Frame f above the first n frames of d, at the innermost level of the    *)
(* chain c; the frame below it stands at level b.                          *)
Fits(c, d, n, b, f) ==
    /\ Nny(d, f.L, n + 1) = 0 => Continued(c, IF f.fn \in Keeping THEN Len(c) ELSE Len(c) - 1)
    /\ Above(c, d[n].fn, b, f.fn, Len(c))
    /\ f.fn = "unroll" => n > 1 /\ d[n - 1].fn = "resume"
    /\ f.fn = "pcall" => /\ f.ci = Len(c) /\ f.err < f.ci
                         /\ Justified(c, d, f.L, n, f.err)
    /\ n > 2 /\ d[n].fn = "raw" /\ d[n - 1].fn = "pcall" =>
          f.fn = "noyield" \/ d[n - 2].fn = "parser"

LEMMA FramePushed ==
  ASSUME NEW s, NEW L, NEW lev, NEW a, Standing(s, L, lev, a), s.cs[Len(s.cs)].status = OK,
         NEW u, NEW f, Grown(s, u, f), f.L = L, f.status = OK, f.fn # "resume",
         NEW c2, NEW p2, NEW e2, Edit(s, u, L, c2, p2, e2, OK),
         ChainOK(c2), Extends(s.th[L].ci, c2, Len(s.th[L].ci)), UpOK(c2, p2),
         Justified(c2, u.cs, L, Len(s.cs) + 1, e2), f.fn = "cfun" => ~c2[Len(c2)].yp,
         Fits(c2, u.cs, Len(s.cs), Len(s.th[L].ci), f)
  PROVE  Leveled(u.th, u.cs, Len(u.cs))
  <1> DEFINE n == Len(s.cs)
             c == s.th[L].ci
             y == Len(c2)
             m == n + 1
             lev2 == Placing(lev, n, m, 0, y)
  <1>1. /\ n \in Nat \ {0} /\ L \in Threads /\ s.cs[n].L = L /\ lev[n] = Len(c)
        /\ lev[n] \in Nat \ {0} /\ ThreadsOK(s.th, s.cs, n) /\ Frames(s.th, s.cs, lev, n)
        /\ a \in 1 .. n /\ Span(s.cs, L, a, n)
    <2>1. /\ n \in Nat \ {0} /\ L \in Threads /\ s.cs[n].L = L
          /\ lev[n] \in Nat \ {0} /\ ThreadsOK(s.th, s.cs, n)
          /\ (s.cs[n].status = OK => lev[n] = Len(c))
      BY ONLY Standing(s, L, lev, a), StandsAt
    <2>2. Frames(s.th, s.cs, lev, n) /\ a \in 1 .. n /\ Span(s.cs, L, a, n)
      BY DEF Standing
    <2>3. QED
      BY <2>1, <2>2
  <1>2. y \in Nat \ {0}
    BY ChainFacts
  <1>3. Len(u.cs) = m /\ u.cs[m] = f /\ \A i \in 1 .. n : u.cs[i] = s.cs[i]
    BY DEF Grown
  <1>4. u.th[L].ci = c2 /\ u.th[L].status = OK /\ u.th[L].up = p2 /\ u.th[L].errfunc = e2
    BY DEF Edit
  <1>5. Keeps(s.th, s.cs, lev, L, a, n, u.th, u.cs, lev)
    BY <1>1, <1>3, <1>4 DEF Keeps, SameRows, Edit
  <1>6. /\ lev2[m] = y /\ lev2[n] = lev[n] /\ m - 1 = n /\ m > 1 /\ m \in Nat
    BY <1>1, <1>2 DEF Placing
  <1>7. Fits(c2, u.cs, n, lev[n], f) /\ Justified(c2, u.cs, L, m, e2)
    BY <1>1
  <1>8. TopLevel(u.th, u.cs, lev2, m)
    BY <1>3, <1>4, <1>6 DEF TopLevel, OK, YIELD
  <1>9. ThreadOK(u.th, u.cs, L, m)
    BY <1>4, <1>7 DEF ThreadOK, OK, YIELD
  <1> HIDE DEF lev2, c
  <1>10. LevelAt(u.th, u.cs, lev2, m)
    <2>1. lev2[m] \in 1 .. Len(c2)
      BY <1>2, <1>6
    <2>2. m > 3 => n > 2
      BY <1>1
    <2>3. m - 2 = n - 1 /\ m - 3 = n - 2 /\ (m > 2 <=> n > 1)
      BY <1>1
    <2> HIDE DEF m, n, y
    <2>4. f.fn = "pcall" => Saved(c2, u.cs, lev2, m)
      BY <1>3, <1>6, <1>7 DEF Fits, Saved, y
    <2>5. Nny(u.cs, L, m) = 0 => Continued(c2, IF f.fn \in Keeping THEN lev2[m] ELSE lev2[m] - 1)
      BY <1>6, <1>7 DEF Fits, y, m
    <2>6. Above(c2, u.cs[m - 1].fn, lev2[m - 1], f.fn, lev2[m])
      BY <1>6, <1>7 DEF Fits, y
    <2>7. (f.fn = "unroll" => m > 2 /\ u.cs[m - 2].fn = "resume")
      BY <1>7, <2>3 DEF Fits
    <2>8. m > 3 /\ u.cs[m - 1].fn = "raw" /\ u.cs[m - 2].fn = "pcall" =>
              f.fn = "noyield" \/ u.cs[m - 3].fn = "parser"
      BY <1>6, <1>7, <2>2, <2>3 DEF Fits
    <2>9. u.cs[m].L = L /\ u.th[L].ci = c2 /\ u.cs[m].fn = f.fn /\ m # 1
      BY <1>3, <1>4, <1>6
    <2>10. QED
      BY <2>1, <2>4, <2>5, <2>6, <2>7, <2>8, <2>9 DEF LevelAt
  <1>11. \A i \in n + 1 .. m : LevelAt(u.th, u.cs, lev2, i)
    <2>1. \A i \in n + 1 .. m : i = m
      BY <1>1
    <2>2. QED
      BY <1>10, <2>1
  <1>12. Leveled(u.th, u.cs, m)
    <2>1. n \in Nat /\ m \in Nat /\ n <= m /\ n \in a - 1 .. n /\ y \in Nat /\ 0 \in Nat
      BY <1>1, <1>2
    <2>2. lev2 = Placing(lev, n, m, 0, y)
      BY DEF lev2
    <2> HIDE DEF n, m, y
    <2>3. QED
      BY <1>1, <1>5, <1>8, <1>9, <1>11, <2>1, <2>2, Rebuilt
  <1>13. QED
    BY <1>3, <1>12

(* u has one frame less. *)
Shrunk(s, u) ==
    Len(u.cs) = Len(s.cs) - 1 /\ SameRows(s.cs, u.cs, Len(s.cs) - 1)

(* The innermost frame is left.  Its place is taken by the one below it,   *)
(* of the same activation.                                                 *)
LEMMA FramePopped ==
  ASSUME NEW s, NEW L, NEW lev, NEW a, Standing(s, L, lev, a), a < Len(s.cs),
         NEW u, Shrunk(s, u), NEW c2, NEW p2, NEW e2, NEW st, Edit(s, u, L, c2, p2, e2, st),
         ChainOK(c2), Extends(s.th[L].ci, c2, lev[Len(s.cs) - 1]), UpOK(c2, p2),
         Justified(c2, u.cs, L, Len(s.cs) - 1, e2), st = YIELD => Suspended(c2),
         TopLevel(u.th, u.cs, lev, Len(s.cs) - 1)
  PROVE  Leveled(u.th, u.cs, Len(u.cs))
  <1> DEFINE n == Len(s.cs)
             m == n - 1
             lev2 == Placing(lev, m, m, 0, 0)
  <1>1. /\ n \in Nat \ {0} /\ L \in Threads /\ ThreadsOK(s.th, s.cs, n)
        /\ Frames(s.th, s.cs, lev, n) /\ a \in 1 .. n /\ Span(s.cs, L, a, n)
    BY StandsAt DEF Standing
  <1>2. m \in Nat \ {0} /\ m \in a .. n /\ a - 1 <= m /\ Len(u.cs) = m
    <2>1. a < n /\ Len(u.cs) = m
      BY DEF Shrunk
    <2> HIDE DEF n
    <2>2. QED
      BY <1>1, <2>1
  <1>3. u.th[L].ci = c2 /\ u.th[L].status = st /\ u.th[L].up = p2 /\ u.th[L].errfunc = e2
    BY DEF Edit
  <1>4. Keeps(s.th, s.cs, lev, L, a, m, u.th, u.cs, lev)
    BY <1>1, <1>3 DEF Keeps, Edit, Shrunk
  <1>5. lev2[m] = lev[m]
    BY <1>1, <1>2 DEF Placing
  <1> HIDE DEF lev2
  <1>6. TopLevel(u.th, u.cs, lev2, m)
    BY <1>5 DEF TopLevel
  <1>7. ThreadOK(u.th, u.cs, L, m)
    BY <1>3 DEF ThreadOK
  <1>8. Leveled(u.th, u.cs, m)
    <2>1. n \in Nat /\ m \in Nat /\ m <= m /\ m \in a - 1 .. n /\ 0 \in Nat
      BY <1>1, <1>2
    <2>2. lev2 = Placing(lev, m, m, 0, 0)
      BY DEF lev2
    <2>3. \A i \in m + 1 .. m : LevelAt(u.th, u.cs, lev2, i)
      BY <1>2
    <2> HIDE DEF m, n
    <2>4. QED
      BY <1>1, <1>4, <1>6, <1>7, <2>1, <2>2, <2>3, Rebuilt
  <1>9. QED
    BY <1>2, <1>8

----------------------------------------------------------------------------
(* Fields of thread L. *)

LEMMA Edits ==
  ASSUME NEW s, Shaped(s), NEW L \in Threads, NEW x, NEW w
  PROVE  LET r == s.th[L]
         IN  /\ w = [s EXCEPT !.th[L].ci = x] =>
                   w.cs = s.cs /\ Edit(s, w, L, x, r.up, r.errfunc, r.status)
             /\ w = [s EXCEPT !.th[L].up = x] =>
                   w.cs = s.cs /\ Edit(s, w, L, r.ci, x, r.errfunc, r.status)
             /\ w = [s EXCEPT !.th[L].errfunc = x] =>
                   w.cs = s.cs /\ Edit(s, w, L, r.ci, r.up, x, r.status)
             /\ w = [s EXCEPT !.th[L].status = x] =>
                   w.cs = s.cs /\ Edit(s, w, L, r.ci, r.up, r.errfunc, x)
             /\ (\/ w = [s EXCEPT !.th[L].nny = x] \/ w = [s EXCEPT !.th[L].nC = x]
                 \/ w = [s EXCEPT !.th[L].jmp = x] \/ w = [s EXCEPT !.th[L].big = x]) =>
                   w.cs = s.cs /\ Edit(s, w, L, r.ci, r.up, r.errfunc, r.status)
  <1> DEFINE r == s.th[L]
  <1>1. IsThread(r)
    BY DEF Shaped
  <1>2. ASSUME NEW q
        PROVE  LET v == With(s, L, q)
               IN  v.cs = s.cs /\ v.th[L] = q /\ \A t \in Threads : t # L => v.th[t] = s.th[t]
    BY DEF Shaped, With
  <1>3. w = [s EXCEPT !.th[L].ci = x] => w = With(s, L, [r EXCEPT !.ci = x])
    BY DEF With
  <1>4. w = [s EXCEPT !.th[L].up = x] => w = With(s, L, [r EXCEPT !.up = x])
    BY DEF With
  <1>5. w = [s EXCEPT !.th[L].errfunc = x] => w = With(s, L, [r EXCEPT !.errfunc = x])
    BY DEF With
  <1>6. w = [s EXCEPT !.th[L].status = x] => w = With(s, L, [r EXCEPT !.status = x])
    BY DEF With
  <1>7. /\ w = [s EXCEPT !.th[L].nny = x] => w = With(s, L, [r EXCEPT !.nny = x])
        /\ w = [s EXCEPT !.th[L].nC = x] => w = With(s, L, [r EXCEPT !.nC = x])
        /\ w = [s EXCEPT !.th[L].jmp = x] => w = With(s, L, [r EXCEPT !.jmp = x])
        /\ w = [s EXCEPT !.th[L].big = x] => w = With(s, L, [r EXCEPT !.big = x])
    BY DEF With
  <1>8. /\ LET q == [r EXCEPT !.ci = x] IN q.ci = x /\ q.up = r.up /\ q.errfunc = r.errfunc
                                           /\ q.status = r.status
        /\ LET q == [r EXCEPT !.up = x] IN q.ci = r.ci /\ q.up = x /\ q.errfunc = r.errfunc
                                           /\ q.status = r.status
        /\ LET q == [r EXCEPT !.errfunc = x] IN q.ci = r.ci /\ q.up = r.up /\ q.errfunc = x
                                                /\ q.status = r.status
        /\ LET q == [r EXCEPT !.status = x] IN q.ci = r.ci /\ q.up = r.up
                                               /\ q.errfunc = r.errfunc /\ q.status = x
    BY <1>1 DEF IsThread
  <1>9. /\ SameThread([r EXCEPT !.nny = x], r) /\ SameThread([r EXCEPT !.nC = x], r)
        /\ SameThread([r EXCEPT !.jmp = x], r) /\ SameThread([r EXCEPT !.big = x], r)
    BY <1>1 DEF IsThread, SameThread
  <1> HIDE DEF r
  <1>10. \A t \in Threads : SameThread(s.th[t], s.th[t])
    BY DEF SameThread
  <1>11. ASSUME NEW q, w = With(s, L, q)
         PROVE  w.cs = s.cs /\ Edit(s, w, L, q.ci, q.up, q.errfunc, q.status)
    <2>1. w.cs = s.cs /\ w.th[L] = q /\ \A t \in Threads : t # L => w.th[t] = s.th[t]
      BY <1>2, <1>11
    <2>2. QED
      BY <1>10, <2>1 DEF Edit
  <1>12. QED
    <2>1. w = [s EXCEPT !.th[L].ci = x] =>
                   w.cs = s.cs /\ Edit(s, w, L, x, r.up, r.errfunc, r.status)
      BY <1>3, <1>8, <1>11
    <2>2. w = [s EXCEPT !.th[L].up = x] =>
                   w.cs = s.cs /\ Edit(s, w, L, r.ci, x, r.errfunc, r.status)
      BY <1>4, <1>8, <1>11
    <2>3. w = [s EXCEPT !.th[L].errfunc = x] =>
                   w.cs = s.cs /\ Edit(s, w, L, r.ci, r.up, x, r.status)
      BY <1>5, <1>8, <1>11
    <2>4. w = [s EXCEPT !.th[L].status = x] =>
                   w.cs = s.cs /\ Edit(s, w, L, r.ci, r.up, r.errfunc, x)
      BY <1>6, <1>8, <1>11
    <2>5. (\/ w = [s EXCEPT !.th[L].nny = x] \/ w = [s EXCEPT !.th[L].nC = x]
           \/ w = [s EXCEPT !.th[L].jmp = x] \/ w = [s EXCEPT !.th[L].big = x]) =>
                   w.cs = s.cs /\ Edit(s, w, L, r.ci, r.up, r.errfunc, r.status)
      BY <1>7, <1>9, <1>11 DEF SameThread
    <2>6. QED
      BY <2>1, <2>2, <2>3, <2>4, <2>5 DEF r

LEMMA EditCi ==
  ASSUME NEW s, Shaped(s), NEW L \in Threads, NEW x, NEW w, w = [s EXCEPT !.th[L].ci = x]
  PROVE  w.cs = s.cs /\ Edit(s, w, L, x, s.th[L].up, s.th[L].errfunc, s.th[L].status)
  BY Edits

LEMMA EditErrfunc ==
  ASSUME NEW s, Shaped(s), NEW L \in Threads, NEW x, NEW w, w = [s EXCEPT !.th[L].errfunc = x]
  PROVE  w.cs = s.cs /\ Edit(s, w, L, s.th[L].ci, s.th[L].up, x, s.th[L].status)
  BY Edits

LEMMA EditUp ==
  ASSUME NEW s, Shaped(s), NEW L \in Threads, NEW x, NEW w, w = [s EXCEPT !.th[L].up = x]
  PROVE  w.cs = s.cs /\ Edit(s, w, L, s.th[L].ci, x, s.th[L].errfunc, s.th[L].status)
  BY Edits

LEMMA EditStatus ==
  ASSUME NEW s, Shaped(s), NEW L \in Threads, NEW x, NEW w, w = [s EXCEPT !.th[L].status = x]
  PROVE  w.cs = s.cs /\ Edit(s, w, L, s.th[L].ci, s.th[L].up, s.th[L].errfunc, x)
  BY Edits

LEMMA EditCounts ==
  ASSUME NEW s, Shaped(s), NEW L \in Threads, NEW x, NEW w,
         \/ w = [s EXCEPT !.th[L].nny = x] \/ w = [s EXCEPT !.th[L].nC = x]
         \/ w = [s EXCEPT !.th[L].jmp = x] \/ w = [s EXCEPT !.th[L].big = x]
  PROVE  /\ w.cs = s.cs
         /\ Edit(s, w, L, s.th[L].ci, s.th[L].up, s.th[L].errfunc, s.th[L].status)
  BY Edits

----------------------------------------------------------------------------
(* Steps that leave the C stack. *)

(* Only a C function and lua_resume begin an activation. *)
LEMMA Within ==
  ASSUME NEW s, NEW L, NEW lev, NEW a, Standing(s, L, lev, a),
         s.cs[Len(s.cs)].fn \notin {"cfun", "resume"}
  PROVE  LET n == Len(s.cs)
         IN  /\ a < n /\ n > 1 /\ n - 1 \in a .. n /\ n - 1 \in Nat \ {0} /\ s.cs[n - 1].L = L
             /\ lev[n - 1] \in Nat \ {0} /\ lev[n - 1] <= lev[n]
             /\ Above(s.th[L].ci, s.cs[n - 1].fn, lev[n - 1], s.cs[n].fn, lev[n])
             /\ LevelAt(s.th, s.cs, lev, n - 1)
  <1> DEFINE n == Len(s.cs)
             m == n - 1
  <1>1. /\ n \in Nat \ {0} /\ L = s.cs[n].L /\ Frames(s.th, s.cs, lev, n)
        /\ a \in 1 .. n /\ Span(s.cs, L, a, n) /\ (a = 1 \/ s.cs[a].fn = "resume")
    BY DEF Standing
  <1>2. FrameAt(s.cs, n) /\ LevelAt(s.th, s.cs, lev, n) /\ \A i \in 1 .. n : LevelAt(s.th, s.cs, lev, i)
    BY <1>1 DEF Frames
  <1> HIDE DEF n
  <1>3. n # 1 /\ a # n
    BY <1>1, <1>2 DEF FrameAt, n
  <1>4. a < n /\ n > 1 /\ m \in a .. n /\ m \in Nat \ {0} /\ n \in m .. n /\ m \in 1 .. n
    BY <1>1, <1>3
  <1>5. s.cs[m].L = L
    BY <1>1, <1>4 DEF Span
  <1>6. lev[m] \in Nat \ {0} /\ lev[m] <= lev[n]
    <2>1. n \in Nat
      BY <1>1
    <2> HIDE DEF m
    <2>2. QED
      BY <1>1, <1>2, <1>4, <2>1, LevelsRise
  <1>7. Above(s.th[L].ci, s.cs[m].fn, lev[m], s.cs[n].fn, lev[n])
    BY <1>1, <1>2, <1>4 DEF LevelAt, n
  <1>8. LevelAt(s.th, s.cs, lev, m)
    BY <1>2, <1>4
  <1>9. QED
    BY <1>4, <1>5, <1>6, <1>7, <1>8 DEF n

(* The innermost frame of a state in which L runs. *)
LEMMA SameChain ==
  ASSUME NEW s, NEW L, Ready(s, L)
  PROVE  LET c == s.th[L].ci
         IN  /\ ChainOK(c) /\ Extends(c, c, Len(c)) /\ IsSequence(c) /\ Len(c) \in Nat \ {0}
             /\ DOMAIN c = 1 .. Len(c) /\ UpOK(c, s.th[L].up) /\ s.th[L].status = OK
             /\ TopOf(s) = s.cs[Len(s.cs)] /\ Len(s.cs) \in Nat \ {0}
             /\ L \in Threads /\ Shaped(s) /\ IsThread(s.th[L])
             /\ TopOf(s).fn = "cfun" => ~c[Len(c)].yp
  <1> DEFINE c == s.th[L].ci
  <1>1. PICK lev, a : Standing(s, L, lev, a)
    BY ReadyStands
  <1>2. TopOf(s).status = OK /\ TopOf(s) = s.cs[Len(s.cs)] /\ Shaped(s)
    BY ReadyStands
  <1>3. /\ ChainOK(c) /\ IsSequence(c) /\ Len(c) \in Nat \ {0} /\ UpOK(c, s.th[L].up)
        /\ DOMAIN c = 1 .. Len(c) /\ L \in Threads /\ Len(s.cs) \in Nat \ {0}
        /\ s.th[L].status = OK /\ (TopOf(s).fn = "cfun" => ~c[Len(c)].yp)
    BY <1>1, <1>2, StandsAt DEF OK, YIELD
  <1>4. Extends(c, c, Len(c))
    BY <1>3 DEF Extends
  <1>5. IsThread(s.th[L])
    BY <1>2, <1>3 DEF Shaped
  <1>6. QED
    BY <1>2, <1>3, <1>4, <1>5

(* Upvalues are opened or closed, a continuation is set, or fields change  *)
(* that are not looked at.                                                 *)
LEMMA Stays ==
  ASSUME NEW s, NEW L, Ready(s, L), NEW u, u.cs = s.cs, NEW c2, NEW p2,
         ChainOK(c2), Len(c2) = Len(s.th[L].ci), Extends(s.th[L].ci, c2, Len(s.th[L].ci)),
         UpOK(c2, p2), Edit(s, u, L, c2, p2, s.th[L].errfunc, s.th[L].status)
  PROVE  /\ Leveled(u.th, u.cs, Len(u.cs))
         /\ Active(u, L) => Ready(u, L)
  <1> DEFINE n == Len(s.cs)
             c == s.th[L].ci
             ef == s.th[L].errfunc
             lev2(lev) == Placing(lev, n, n, 0, 0)
  <1>1. PICK lev, a : Standing(s, L, lev, a)
    BY ReadyStands
  <1>2. /\ n \in Nat \ {0} /\ L \in Threads /\ s.cs[n].L = L
        /\ Frames(s.th, s.cs, lev, n) /\ ThreadsOK(s.th, s.cs, n)
        /\ TopLevel(s.th, s.cs, lev, n) /\ a \in 1 .. n /\ Span(s.cs, L, a, n)
    BY <1>1 DEF Standing
  <1>3. /\ lev[n] = Len(c) /\ Len(c) \in Nat \ {0} /\ Justified(c, s.cs, L, n, ef)
        /\ s.th[L].status = OK /\ s.cs[n].status = OK
        /\ (s.cs[n].fn = "cfun" => ~c[Len(c)].yp)
    BY <1>1, ReadyStands, StandsAt DEF OK, YIELD
  <1>4. u.th[L].ci = c2 /\ u.th[L].status = OK /\ u.th[L].errfunc = ef /\ u.th[L].up = p2
    BY <1>3 DEF Edit
  <1>5. Keeps(s.th, s.cs, lev, L, a, n, u.th, u.cs, lev)
    BY <1>3, <1>4 DEF Keeps, SameRows, Edit
  <1>6. \A l \in 1 .. Len(c) : c2[l].yp = c[l].yp
    BY DEF Extends
  <1>7. ThreadOK(u.th, u.cs, L, n)
    <2>1. Justified(c2, u.cs, L, n, ef)
      BY <1>3, <1>6 DEF Justified
    <2>2. QED
      BY <1>4, <2>1 DEF ThreadOK, OK, YIELD
  <1>8. TopLevel(u.th, u.cs, lev2(lev), n)
    <2>1. lev2(lev)[n] = lev[n] /\ Len(c) \in 1 .. Len(c)
      BY <1>2, <1>3 DEF Placing
    <2> HIDE DEF lev2
    <2>2. QED
      BY <1>2, <1>3, <1>4, <1>6, <2>1 DEF TopLevel, OK, YIELD
  <1>9. Leveled(u.th, u.cs, n)
    <2> DEFINE w == lev2(lev)
    <2>1. w = Placing(lev, n, n, 0, 0)
      OBVIOUS
    <2> HIDE DEF w
    <2>2. n \in Nat /\ n <= n /\ n \in a - 1 .. n /\ 0 \in Nat
          /\ \A i \in n + 1 .. n : LevelAt(u.th, u.cs, w, i)
      BY <1>2
    <2>3. TopLevel(u.th, u.cs, w, n)
      BY <1>8 DEF w
    <2> HIDE DEF n
    <2>4. QED
      BY <1>2, <1>5, <1>7, <2>1, <2>2, <2>3, Rebuilt
  <1>10. QED
    BY <1>9 DEF Ready

(* luaV_execute or unroll goes on in another function of the chain. *)
LEMMA FrameMoved ==
  ASSUME NEW s, NEW L, NEW lev, NEW a, Standing(s, L, lev, a), s.cs[Len(s.cs)].status = OK,
         s.cs[Len(s.cs)].fn \in {"execute", "unroll"},
         NEW u, u.cs = s.cs, NEW c2, NEW p2, NEW e2, Edit(s, u, L, c2, p2, e2, OK),
         ChainOK(c2), UpOK(c2, p2), Justified(c2, s.cs, L, Len(s.cs), e2),
         Extends(s.th[L].ci, c2, lev[Len(s.cs) - 1]),
         Nny(s.cs, L, Len(s.cs)) = 0 => Continued(c2, Len(c2)),
         s.cs[Len(s.cs)].fn = "execute" =>
            /\ Len(c2) > lev[Len(s.cs) - 1]
            /\ \A l \in lev[Len(s.cs) - 1] + 1 .. Len(c2) :
                  c2[l].lua /\ (c2[l].fresh <=> l = lev[Len(s.cs) - 1] + 1)
  PROVE  Leveled(u.th, u.cs, Len(u.cs))
  <1> DEFINE n == Len(s.cs)
             m == n - 1
             f == s.cs[n].fn
             b == lev[m]
             y == Len(c2)
             lev2 == Placing(lev, m, n, 0, y)
  <1>1. /\ n \in Nat \ {0} /\ L \in Threads /\ s.cs[n].L = L
        /\ Frames(s.th, s.cs, lev, n) /\ ThreadsOK(s.th, s.cs, n)
        /\ a \in 1 .. n /\ Span(s.cs, L, a, n) /\ s.cs[n].status = OK
    BY DEF Standing
  <1>2. /\ m \in a .. n /\ m \in Nat \ {0} /\ n > 1
        /\ Above(s.th[L].ci, s.cs[m].fn, b, f, lev[n])
    BY Within
  <1>3. LevelAt(s.th, s.cs, lev, n)
    BY StandsAt
  <1>4. y \in Nat \ {0}
    BY ChainFacts
  <1>5. u.th[L].ci = c2 /\ u.th[L].status = OK /\ u.th[L].up = p2 /\ u.th[L].errfunc = e2
    BY DEF Edit
  <1>6. Keeps(s.th, s.cs, lev, L, a, m, u.th, u.cs, lev)
    BY <1>1, <1>5 DEF Keeps, SameRows, Edit
  <1>7. lev2[n] = y /\ lev2[m] = b /\ m < n
    BY <1>1, <1>2, <1>4 DEF Placing
  <1>8. f \in {"execute", "unroll"}
    OBVIOUS
  <1> HIDE DEF lev2
  <1>9. TopLevel(u.th, u.cs, lev2, n)
    BY <1>1, <1>5, <1>7, <1>8 DEF TopLevel, OK, YIELD
  <1>10. ThreadOK(u.th, u.cs, L, n)
    BY <1>5 DEF ThreadOK, OK, YIELD
  <1>11. LevelAt(u.th, u.cs, lev2, n)
    <2>1. f = "execute" => y > b /\ \A l \in b + 1 .. y : c2[l].lua /\ (c2[l].fresh <=> l = b + 1)
      OBVIOUS
    <2>2. Nny(s.cs, L, n) = 0 => Continued(c2, y)
      OBVIOUS
    <2>3. /\ f = "unroll" => n > 2 /\ s.cs[n - 2].fn = "resume"
          /\ n > 3 /\ s.cs[n - 1].fn = "raw" /\ s.cs[n - 2].fn = "pcall" =>
                f = "noyield" \/ s.cs[n - 3].fn = "parser"
      BY <1>3 DEF LevelAt
    <2>4. Above(c2, s.cs[m].fn, b, f, y)
      <3>1. /\ f = "execute" => s.cs[m].fn \in Callers
            /\ f = "unroll" => s.cs[m].fn = "raw"
        BY <1>2 DEF Above
      <3> HIDE DEF y, b, m, n, f
      <3>2. QED
        BY <1>8, <2>1, <3>1 DEF Above, Callers
    <2>5. y \in 1 .. Len(c2)
      BY <1>4
    <2> HIDE DEF y, b, f
    <2>6. QED
      BY <1>1, <1>2, <1>5, <1>7, <1>8, <2>2, <2>3, <2>4, <2>5 DEF LevelAt, Keeping, f
  <1>12. Leveled(u.th, u.cs, n)
    <2>1. n \in Nat /\ m <= n /\ m \in a - 1 .. n /\ y \in Nat /\ 0 \in Nat
      BY <1>1, <1>2, <1>4
    <2>2. lev2 = Placing(lev, m, n, 0, y)
      BY DEF lev2
    <2>3. \A i \in m + 1 .. n : LevelAt(u.th, u.cs, lev2, i)
      <3>1. \A i \in m + 1 .. n : i = n
        BY <1>1
      <3>2. QED
        BY <1>11, <3>1
    <2> HIDE DEF n, m, y
    <2>4. QED
      BY <1>1, <1>6, <1>9, <1>10, <2>1, <2>2, <2>3, Rebuilt
  <1>13. QED
    BY <1>12

----------------------------------------------------------------------------
(* Frames at the level of their caller. *)

LEMMA GrownCounts ==
  ASSUME NEW s, NEW u, NEW f, Grown(s, u, f), Len(s.cs) \in Nat, NEW t
  PROVE  /\ Nny(u.cs, t, Len(s.cs)) = Nny(s.cs, t, Len(s.cs)) /\ Nny(s.cs, t, Len(s.cs)) \in Nat
         /\ f.L # t \/ f.fn \notin {"noyield", "parser", "resume"} =>
               Nny(u.cs, t, Len(s.cs) + 1) = Nny(s.cs, t, Len(s.cs))
         /\ f.L = t /\ f.fn \in {"noyield", "parser"} =>
               Nny(u.cs, t, Len(s.cs) + 1) = Nny(s.cs, t, Len(s.cs)) + 1
         /\ f.L = t /\ f.fn = "resume" => Nny(u.cs, t, Len(s.cs) + 1) = 0
         /\ \A e : Pcalls(s.cs, t, Len(s.cs), e) \subseteq Pcalls(u.cs, t, Len(s.cs) + 1, e)
         /\ \A e : Pcalls(s.cs, t, Len(s.cs), e) = Pcalls(u.cs, t, Len(s.cs), e)
  <1> DEFINE n == Len(s.cs)
  <1>1. n \in Nat /\ u.cs[n + 1] = f /\ \A i \in 1 .. n : u.cs[i] = s.cs[i]
    BY DEF Grown
  <1> HIDE DEF n
  <1>2. Nny(u.cs, t, n) = Nny(s.cs, t, n)
    <2>1. Agree(u.cs, s.cs, n) /\ n \in 0 .. n
      BY <1>1 DEF Agree
    <2>2. QED
      BY <1>1, <2>1, AgreeCounts
  <1>3. Nny(s.cs, t, n) \in Nat
    BY <1>1, NnyType
  <1>4. \A e : Pcalls(s.cs, t, n, e) = Pcalls(u.cs, t, n, e)
    BY <1>1 DEF Pcalls
  <1>5. \A e : Pcalls(s.cs, t, n, e) \subseteq Pcalls(u.cs, t, n + 1, e)
    <2>1. \A i \in 1 .. n : i \in 1 .. n + 1
      BY <1>1
    <2>2. QED
      BY <1>1, <2>1 DEF Pcalls
  <1>6. f.L # t \/ f.fn \notin {"noyield", "parser", "resume"} =>
          Nny(u.cs, t, n + 1) = Nny(u.cs, t, n)
    BY <1>1, NnyPlain
  <1>7. f.L = t /\ f.fn \in {"noyield", "parser"} =>
          Nny(u.cs, t, n + 1) = Nny(u.cs, t, n) + 1
    BY <1>1, NnyHeld
  <1>8. f.L = t /\ f.fn = "resume" => Nny(u.cs, t, n + 1) = 0
    BY <1>1, NnyResume
  <1>9. QED
    BY <1>2, <1>3, <1>4, <1>5, <1>6, <1>7, <1>8 DEF n

LEMMA PushSame ==
  ASSUME NEW s, NEW L, Ready(s, L), NEW u, Active(u, L), NEW f, Grown(s, u, f), f.L = L,
         f.fn \in {"call", "noyield", "parser", "fparser", "error", "errormsg", "raw"},
         f.status = OK,
         NEW c2, ChainOK(c2), Len(c2) = Len(s.th[L].ci),
         Extends(s.th[L].ci, c2, Len(s.th[L].ci)),
         Edit(s, u, L, c2, s.th[L].up, s.th[L].errfunc, s.th[L].status),
         TopOf(s).fn = "pcall" => f.fn = "raw",
         f.fn = "call" => (Nny(s.cs, L, Len(s.cs)) = 0 => Continued(c2, Len(c2))),
         Len(s.cs) > 2 /\ TopOf(s).fn = "raw" /\ s.cs[Len(s.cs) - 1].fn = "pcall" =>
            f.fn = "noyield" \/ s.cs[Len(s.cs) - 2].fn = "parser"
  PROVE  Ready(u, L)
  <1> DEFINE n == Len(s.cs)
             c == s.th[L].ci
             p == s.cs[n].fn
             ef == s.th[L].errfunc
  <1>1. PICK lev, a : Standing(s, L, lev, a)
    BY ReadyStands
  <1>2. /\ n \in Nat \ {0} /\ L \in Threads /\ s.cs[n].status = OK
        /\ Len(c) = lev[n] /\ Len(c) \in Nat \ {0} /\ (p = "cfun" => ~c[lev[n]].yp)
        /\ UpOK(c, s.th[L].up) /\ Justified(c, s.cs, L, n, ef) /\ s.th[L].status = OK
        /\ LevelAt(s.th, s.cs, lev, n) /\ s.cs[n].L = L
    BY <1>1, StandsAt, ReadyStands DEF OK, YIELD
  <1>3. /\ u.cs[n + 1] = f /\ \A i \in 1 .. n : u.cs[i] = s.cs[i]
        /\ TopOf(s) = s.cs[n]
    BY DEF Grown, TopOf
  <1>4. /\ Nny(u.cs, L, n + 1) = Nny(s.cs, L, n) + (IF f.fn \in {"noyield", "parser"} THEN 1 ELSE 0)
        /\ Nny(s.cs, L, n) \in Nat
        /\ \A e : Pcalls(s.cs, L, n, e) \subseteq Pcalls(u.cs, L, n + 1, e)
    <2>1. n \in Nat /\ f.L = L /\ f.fn # "resume"
      BY <1>2
    <2>2. /\ Nny(s.cs, L, n) \in Nat
          /\ f.fn \notin {"noyield", "parser", "resume"} =>
                Nny(u.cs, L, n + 1) = Nny(s.cs, L, n)
          /\ f.fn \in {"noyield", "parser"} => Nny(u.cs, L, n + 1) = Nny(s.cs, L, n) + 1
          /\ \A e : Pcalls(s.cs, L, n, e) \subseteq Pcalls(u.cs, L, n + 1, e)
      BY <2>1, GrownCounts
    <2>3. QED
      BY <2>1, <2>2
  <1>5. \A l \in 1 .. Len(c) : /\ c2[l].lua = c[l].lua /\ c2[l].yp = c[l].yp
                               /\ (c[l].k => c2[l].k)
    BY DEF Extends
  <1>6. UpOK(c2, s.th[L].up)
    BY <1>2, <1>5 DEF UpOK
  <1>7. Justified(c2, u.cs, L, n + 1, ef)
    BY <1>2, <1>4, <1>5 DEF Justified
  <1>8. Nny(u.cs, f.L, n + 1) = 0 => Continued(c2, IF f.fn \in Keeping THEN Len(c2) ELSE Len(c2) - 1)
    <2>1. CASE f.fn \in {"noyield", "parser"}
      BY <1>4, <2>1
    <2>2. CASE f.fn \notin {"noyield", "parser"}
      <3>1. SUFFICES ASSUME Nny(s.cs, L, n) = 0
                     PROVE  Continued(c2, IF f.fn \in Keeping THEN Len(c2) ELSE Len(c2) - 1)
        BY <1>4, <2>2
      <3>2. f.fn \in Keeping <=> f.fn = "call"
        BY DEF Keeping
      <3>3. CASE f.fn = "call"
        BY <3>1, <3>2, <3>3
      <3>4. CASE f.fn # "call"
        <4>1. Continued(c, Len(c)) \/ Continued(c, Len(c) - 1)
          BY <1>2, <3>1 DEF LevelAt
        <4>2. \A l \in 2 .. Len(c) - 1 : l \in 2 .. Len(c) /\ l \in 1 .. Len(c)
          BY <1>2
        <4>3. Continued(c2, Len(c) - 1)
          BY <1>5, <4>1, <4>2 DEF Continued
        <4>4. QED
          BY <3>2, <3>4, <4>3
      <3>5. QED
        BY <3>3, <3>4
    <2>3. QED
      BY <2>1, <2>2
  <1>9. Above(c2, u.cs[n].fn, Len(c), f.fn, Len(c2))
    <2>1. u.cs[n].fn = p /\ (p = "pcall" => f.fn = "raw")
      BY <1>2, <1>3
    <2>2. p = "cfun" => ~c2[Len(c)].yp
      BY <1>2, <1>5
    <2> HIDE DEF p, c
    <2>3. QED
      BY <2>1, <2>2 DEF Above, c
  <1>10. n > 2 /\ u.cs[n].fn = "raw" /\ u.cs[n - 1].fn = "pcall" =>
          f.fn = "noyield" \/ u.cs[n - 2].fn = "parser"
    <2>1. n > 2 => n - 1 \in 1 .. n /\ n - 2 \in 1 .. n /\ n \in 1 .. n
      BY <1>2
    <2>2. QED
      BY <1>3, <2>1
  <1>11. Fits(c2, u.cs, n, Len(c), f)
    BY <1>8, <1>9, <1>10 DEF Fits
  <1>12. Edit(s, u, L, c2, s.th[L].up, ef, OK)
    BY <1>2
  <1>13. Leveled(u.th, u.cs, Len(u.cs))
    <2>1. f.fn # "resume" /\ (f.fn = "cfun" => ~c2[Len(c2)].yp)
      OBVIOUS
    <2>2. QED
      BY <1>1, <1>2, <1>6, <1>7, <1>11, <1>12, <2>1, FramePushed
  <1>14. QED
    BY <1>13 DEF Ready

(* A function is entered: a C function, or a Lua function by luaV_execute. *)
LEMMA Entered ==
  ASSUME NEW s, NEW L, NEW lev, NEW a, Standing(s, L, lev, a), s.cs[Len(s.cs)].status = OK,
         \/ s.cs[Len(s.cs)].fn \in {"call", "execute", "unroll"}
         \/ s.cs[Len(s.cs)].fn = "raw" /\ s.cs[Len(s.cs) - 1].fn = "resume",
         NEW r, IsCI(r), ~r.yp, NEW f, f.L = L, f.status = OK,
         \/ f.fn = "cfun" /\ ~r.lua
         \/ f.fn = "execute" /\ r.lua /\ r.fresh,
         NEW c2, ChainOK(c2), Len(c2) = Len(s.th[L].ci) + 1, c2[Len(c2)] = r,
         Extends(s.th[L].ci, c2, Len(s.th[L].ci)),
         NEW u, Grown(s, u, f), NEW p2, UpOK(c2, p2), NEW e2, e2 = s.th[L].errfunc,
         Edit(s, u, L, c2, p2, e2, OK)
  PROVE  Leveled(u.th, u.cs, Len(u.cs))
  <1> DEFINE n == Len(s.cs)
             c == s.th[L].ci
             p == s.cs[n].fn
  <1>1. /\ n \in Nat \ {0} /\ L \in Threads /\ lev[n] = Len(c) /\ lev[n] \in Nat \ {0}
        /\ Justified(c, s.cs, L, n, e2) /\ LevelAt(s.th, s.cs, lev, n) /\ s.cs[n].L = L
    BY StandsAt
  <1>2. /\ u.cs[n + 1] = f /\ \A i \in 1 .. n : u.cs[i] = s.cs[i]
    BY DEF Grown
  <1>3. /\ Nny(u.cs, L, n + 1) = Nny(s.cs, L, n)
        /\ \A e : Pcalls(s.cs, L, n, e) \subseteq Pcalls(u.cs, L, n + 1, e)
    <2>1. n \in Nat /\ f.fn \notin {"noyield", "parser", "resume"}
      BY <1>1
    <2>2. QED
      BY <2>1, GrownCounts
  <1>4. \A l \in 1 .. Len(c) : /\ c2[l].lua = c[l].lua /\ c2[l].yp = c[l].yp
                               /\ (c[l].k => c2[l].k)
    BY DEF Extends
  <1>5. Justified(c2, u.cs, L, n + 1, e2)
    <2>1. \A i \in 1 .. Len(c) : i \in 1 .. Len(c2)
      BY <1>1
    <2>2. QED
      BY <1>1, <1>3, <1>4, <2>1 DEF Justified
  <1>6. ASSUME Nny(s.cs, L, n) = 0
        PROVE  Continued(c2, Len(c))
    <2>1. CASE p \in {"call", "execute", "unroll"}
      <3>1. Continued(c, Len(c))
        BY <1>1, <1>6, <2>1 DEF LevelAt, Keeping
      <3>2. \A l \in 2 .. Len(c) : l \in 1 .. Len(c)
        BY <1>1
      <3>3. QED
        BY <1>4, <3>1, <3>2 DEF Continued
    <2>2. CASE p = "raw" /\ s.cs[n - 1].fn = "resume"
      <3>1. n - 1 \in 1 .. n /\ Above(c, s.cs[n - 1].fn, lev[n - 1], p, lev[n])
        BY <2>2, Within
      <3>2. LevelAt(s.th, s.cs, lev, n - 1)
        BY <2>2, Within
      <3>3. lev[n - 1] = 1
        BY <2>2, <3>2 DEF LevelAt, Resumer
      <3>4. Len(c) = 1
        BY <1>1, <2>2, <3>1, <3>3 DEF Above
      <3>5. \A l \in 2 .. 1 : FALSE
        OBVIOUS
      <3>6. QED
        BY <3>4, <3>5 DEF Continued
    <2>3. QED
      BY <2>1, <2>2
  <1>7. Nny(u.cs, f.L, n + 1) = 0 => Continued(c2, IF f.fn \in Keeping THEN Len(c2) ELSE Len(c2) - 1)
    <2>1. SUFFICES ASSUME Nny(s.cs, L, n) = 0
                   PROVE  Continued(c2, IF f.fn \in Keeping THEN Len(c2) ELSE Len(c2) - 1)
      BY <1>3
    <2>2. Continued(c2, Len(c)) /\ Len(c2) - 1 = Len(c)
      BY <1>1, <1>6, <2>1
    <2>3. CASE f.fn = "cfun"
      BY <2>2, <2>3 DEF Keeping
    <2>4. CASE f.fn = "execute" /\ r.lua
      <3>1. \A l \in 2 .. Len(c2) : l \in 2 .. Len(c) \/ l = Len(c2)
        BY <1>1
      <3>2. Continued(c2, Len(c2))
        BY <2>2, <2>4, <3>1 DEF Continued
      <3>3. QED
        BY <2>4, <3>2 DEF Keeping
    <2>5. QED
      BY <2>3, <2>4
  <1>8. Above(c2, u.cs[n].fn, Len(c), f.fn, Len(c2))
    <2>1. u.cs[n].fn = p /\ p \in Callers /\ p \notin {"pcall", "cfun"}
      BY <1>1, <1>2 DEF Callers
    <2>2. Len(c2) = Len(c) + 1 /\ Len(c) \in Nat /\ Len(c2) > Len(c)
      BY <1>1, SMTT(20)
    <2>3. \A l \in Len(c) + 1 .. Len(c2) : l = Len(c2) /\ l = Len(c) + 1
      BY <2>2
    <2> HIDE DEF p, c
    <2>4. QED
      BY <2>1, <2>2, <2>3 DEF Above
  <1>9. n > 2 /\ u.cs[n].fn = "raw" /\ u.cs[n - 1].fn = "pcall" =>
          f.fn = "noyield" \/ u.cs[n - 2].fn = "parser"
    <2>1. n > 2 => n - 1 \in 1 .. n /\ n \in 1 .. n
      BY <1>1
    <2>2. QED
      BY <1>2, <2>1
  <1>10. Fits(c2, u.cs, n, Len(c), f)
    BY <1>7, <1>8, <1>9 DEF Fits
  <1>11. f.fn # "resume" /\ (f.fn = "cfun" => ~c2[Len(c2)].yp)
    OBVIOUS
  <1>12. QED
    BY <1>5, <1>10, <1>11, FramePushed

----------------------------------------------------------------------------
(* Protected calls and what may yield. *)

(* While L may yield it is in no luaD_pcall, and the only                  *)
(* luaD_rawrunprotected it runs under is that of its lua_resume.           *)
LEMMA NoPcall ==
  ASSUME NEW s, NEW L, NEW lev, NEW a, Standing(s, L, lev, a),
         Nny(s.cs, L, Len(s.cs)) = 0, s.cs[Len(s.cs)].fn = "cfun"
  PROVE  /\ s.cs[a].fn = "resume" /\ a > 1
         /\ \A i \in 1 .. Len(s.cs) : s.cs[i].L = L =>
               /\ s.cs[i].fn # "pcall"
               /\ s.cs[i].fn = "raw" => i = a + 1
  <1> DEFINE d == s.cs
             n == Len(d)
  <1>1. /\ n \in Nat \ {0} /\ Frames(s.th, d, lev, n) /\ a \in 1 .. n /\ Span(d, L, a, n)
        /\ (a = 1 \/ d[a].fn = "resume")
    BY DEF Standing
  <1>2. \A i \in 1 .. n : FrameAt(d, i) /\ LevelAt(s.th, d, lev, i)
    BY <1>1 DEF Frames
  <1>3. /\ Nny(d, L, n) = 0 /\ d[n].fn = "cfun"
        /\ \A k \in 1 .. a - 1 : d[k].L # L
        /\ \A k \in a .. n : d[k].L = L
        /\ \A k \in a + 1 .. n : d[k].fn # "resume"
    BY <1>1 DEF Span
  <1> HIDE DEF d, n
  <1>4. Held(d, L, n) = {} /\ Resumes(d, L, n) # {}
    <2>1. Held(d, L, n) \in SUBSET (1 .. n) /\ n \in Nat
      BY <1>1 DEF Held
    <2>2. IsFiniteSet(Held(d, L, n)) /\ Cardinality(Held(d, L, n)) \in Nat
      BY <2>1, Countable
    <2>3. Cardinality(Held(d, L, n)) = 0 /\ Resumes(d, L, n) # {}
      BY <1>3, <2>2 DEF Nny
    <2>4. QED
      BY <2>2, <2>3, FS_EmptySet
  <1>5. d[a].fn = "resume" /\ a > 1
    <2>1. PICK k \in Resumes(d, L, n) : TRUE
      BY <1>4
    <2>2. k \in 1 .. n /\ d[k].fn = "resume" /\ d[k].L = L
      BY <2>1 DEF Resumes
    <2>3. k = a
      BY <1>1, <1>3, <2>2
    <2>4. a # 1
      BY <1>1, <1>2, <2>2, <2>3 DEF FrameAt
    <2>5. QED
      BY <1>1, <2>2, <2>3, <2>4
  <1>6. \A k \in a + 1 .. n : d[k].fn \notin {"noyield", "parser"}
    <2>1. ASSUME NEW k \in a + 1 .. n, d[k].fn \in {"noyield", "parser"}
          PROVE  FALSE
      <3>1. k \in 1 .. n /\ d[k].L = L
        BY <1>1, <1>3
      <3>2. \A m \in Resumes(d, L, n) : m < k
        BY <1>1, <1>3 DEF Resumes
      <3>3. k \in Held(d, L, n)
        BY <2>1, <3>1, <3>2 DEF Held
      <3>4. QED
        BY <1>4, <3>3
    <2>2. QED
      BY <2>1
  <1>7. ASSUME NEW i \in a .. n, d[i].fn = "pcall"
        PROVE  FALSE
    <2> DEFINE j == i + 1
               k == i + 2
    <2>1. i \in a + 1 .. n /\ i # n /\ i > 1
      BY <1>1, <1>3, <1>5, <1>7
    <2>2. j \in a + 1 .. n /\ j \in 1 .. n /\ j > 1 /\ j - 1 = i /\ i \in 1 .. n
      BY <1>1, <2>1
    <2>3. LevelAt(s.th, d, lev, j) /\ d[j].fn # "resume"
      BY <1>2, <1>3, <2>2
    <2>4. d[j].fn = "raw"
      <3> HIDE DEF j
      <3>1. Above(s.th[d[j].L].ci, d[i].fn, lev[i], d[j].fn, lev[j])
        BY <2>2, <2>3 DEF LevelAt
      <3>2. QED
        BY <1>7, <3>1 DEF Above
    <2>5. j # n
      BY <1>3, <2>4
    <2>6. k \in a + 1 .. n /\ k \in 1 .. n /\ k > 3 /\ k - 1 = j /\ k - 2 = i /\ k - 3 = i - 1
      <3>1. i # 2 \/ a = 1
        BY <1>1, <2>1
      <3>2. i > 2
        BY <1>1, <1>5, <2>1
      <3>3. QED
        BY <1>1, <2>1, <2>2, <2>5, <3>2
    <2>7. LevelAt(s.th, d, lev, k)
      BY <1>2, <2>6
    <2>8. d[k].fn = "noyield" \/ d[i - 1].fn = "parser"
      <3> HIDE DEF j, k
      <3>1. QED
        BY <1>7, <2>4, <2>6, <2>7 DEF LevelAt
    <2>9. d[k].fn # "noyield"
      BY <1>6, <2>6
    <2>10. d[i - 1].fn # "parser"
      <3>1. i - 1 = a \/ i - 1 \in a + 1 .. n
        BY <1>1, <2>1
      <3>2. QED
        BY <1>5, <1>6, <3>1
    <2>11. QED
      BY <2>8, <2>9, <2>10
  <1>8. ASSUME NEW i \in a .. n, d[i].fn = "raw"
        PROVE  i = a + 1
    <2>1. FrameAt(d, i) /\ i \in 1 .. n /\ i # a
      BY <1>1, <1>2, <1>5, <1>8
    <2>2. d[i - 1].fn \in {"pcall", "resume"} /\ i - 1 \in a .. n
      BY <1>1, <1>8, <2>1 DEF FrameAt
    <2>3. d[i - 1].fn # "pcall"
      BY <1>7, <2>2
    <2>4. i - 1 = a
      BY <1>1, <1>3, <2>2, <2>3
    <2>5. QED
      BY <1>1, <2>1, <2>4
  <1>9. \A i \in 1 .. n : d[i].L = L => i \in a .. n
    BY <1>1, <1>3
  <1>10. QED
    BY <1>5, <1>7, <1>8, <1>9 DEF d, n

(* The message handler of a C function was there before it.                *)
LEMMA HandlerBelow ==
  ASSUME NEW s, NEW L, NEW lev, NEW a, Standing(s, L, lev, a),
         s.cs[Len(s.cs)].status = OK, s.cs[Len(s.cs)].fn = "cfun"
  PROVE  s.th[L].errfunc \in 0 .. Len(s.th[L].ci) - 1
  <1> DEFINE d == s.cs
             n == Len(d)
             c == s.th[L].ci
             e == s.th[L].errfunc
  <1>1. /\ n \in Nat \ {0} /\ Len(c) \in Nat \ {0} /\ lev[n] = Len(c) /\ ~c[lev[n]].yp
        /\ Justified(c, d, L, n, e) /\ LevelAt(s.th, d, lev, n) /\ d[n].L = L
    BY StandsAt
  <1>2. /\ \A i \in 1 .. n : LevelAt(s.th, d, lev, i)
        /\ a \in 1 .. n /\ Span(d, L, a, n)
    BY DEF Standing, Frames
  <1>3. d[n].fn = "cfun"
    OBVIOUS
  <1> HIDE DEF d, n, c, e
  <1>4. ASSUME NEW j \in Pcalls(d, L, n, e)
        PROVE  e \in 0 .. Len(c) - 1
    <2> DEFINE m == n - 1
    <2>1. j \in 1 .. n /\ d[j].fn = "pcall" /\ d[j].L = L /\ d[j].ci = e
      BY DEF Pcalls
    <2>2. j # n /\ j \in a .. n
      BY <1>1, <1>2, <1>3, <2>1 DEF Span
    <2>3. n > 1 /\ m \in a .. n /\ m \in j .. n /\ m \in 1 .. n /\ j \in a .. m
      BY <1>1, <1>2, <2>2
    <2>4. m \in j .. n /\ n \in Nat
      BY <1>1, <2>3
    <2>5. lev[j] \in Nat \ {0} /\ lev[m] \in Nat \ {0} /\ lev[j] <= lev[m]
      <3> HIDE DEF m
      <3>1. QED
        BY <1>2, <2>2, <2>4, LevelsRise
    <2>6. lev[n] = lev[m] + 1
      <3>1. Above(s.th[L].ci, d[m].fn, lev[m], d[n].fn, lev[n])
        BY <1>1, <1>3, <2>3 DEF LevelAt
      <3>2. QED
        BY <1>3, <3>1 DEF Above
    <2>7. d[j].ci = lev[j]
      BY <1>2, <2>1 DEF LevelAt, Saved
    <2> HIDE DEF m
    <2>8. QED
      BY <1>1, <2>1, <2>5, <2>6, <2>7
  <1>5. e = 0 => e \in 0 .. Len(c) - 1
    BY <1>1
  <1>6. e \in 1 .. Len(c) /\ c[e].yp => e \in 0 .. Len(c) - 1
    BY <1>1
  <1>7. e \in 0 .. Len(c) - 1
    BY <1>1, <1>4, <1>5, <1>6 DEF Justified
  <1>8. QED
    BY <1>7 DEF e, c

(* luaD_pcall has saved what it restores. *)
LEMMA PushPcall ==
  ASSUME NEW s, NEW L, Ready(s, L), NEW u, Active(u, L), NEW f, Grown(s, u, f), f.L = L,
         f.fn = "pcall", f.status = OK, f.ci = Len(s.th[L].ci), f.err = s.th[L].errfunc,
         TopOf(s).fn \in {"cfun", "parser"}, ~s.th[L].ci[Len(s.th[L].ci)].lua,
         s.th[L].errfunc \in 0 .. Len(s.th[L].ci) - 1,
         NEW e2 \in {0, Len(s.th[L].ci), s.th[L].errfunc},
         Edit(s, u, L, s.th[L].ci, s.th[L].up, e2, s.th[L].status)
  PROVE  Ready(u, L)
  <1> DEFINE n == Len(s.cs)
             c == s.th[L].ci
             p == s.cs[n].fn
             ef == s.th[L].errfunc
  <1>1. PICK lev, a : Standing(s, L, lev, a)
    BY ReadyStands
  <1>2. /\ n \in Nat \ {0} /\ L \in Threads /\ s.cs[n].status = OK
        /\ Len(c) = lev[n] /\ Len(c) \in Nat \ {0} /\ (p = "cfun" => ~c[lev[n]].yp)
        /\ UpOK(c, s.th[L].up) /\ Justified(c, s.cs, L, n, ef) /\ s.th[L].status = OK
        /\ LevelAt(s.th, s.cs, lev, n) /\ s.cs[n].L = L /\ ChainOK(c)
    BY <1>1, StandsAt, ReadyStands DEF OK, YIELD
  <1>3. /\ u.cs[n + 1] = f /\ (\A i \in 1 .. n : u.cs[i] = s.cs[i])
        /\ TopOf(s) = s.cs[n] /\ p \in {"cfun", "parser"}
    BY DEF Grown, TopOf
  <1>4. /\ Nny(u.cs, L, n + 1) = Nny(s.cs, L, n)
        /\ \A e : Pcalls(s.cs, L, n, e) \subseteq Pcalls(u.cs, L, n + 1, e)
        /\ \A e : Pcalls(s.cs, L, n, e) = Pcalls(u.cs, L, n, e)
    <2>1. n \in Nat /\ f.fn \notin {"noyield", "parser", "resume"}
      BY <1>2
    <2>2. /\ Nny(u.cs, L, n + 1) = Nny(s.cs, L, n)
          /\ \A e : Pcalls(s.cs, L, n, e) \subseteq Pcalls(u.cs, L, n + 1, e)
      BY <2>1, GrownCounts
    <2>3. \A e : Pcalls(s.cs, L, n, e) = Pcalls(u.cs, L, n, e)
      BY <1>3 DEF Pcalls
    <2>4. QED
      BY <2>2, <2>3
  <1>5. Justified(c, u.cs, L, n, ef)
    BY <1>2, <1>4 DEF Justified
  <1>6. Justified(c, u.cs, L, n + 1, e2)
    <2>1. CASE e2 = 0
      BY <2>1 DEF Justified
    <2>2. CASE e2 = Len(c)
      <3>1. n + 1 \in 1 .. n + 1
        BY <1>2
      <3>2. n + 1 \in Pcalls(u.cs, L, n + 1, e2)
        BY <1>3, <2>2, <3>1 DEF Pcalls
      <3>3. QED
        BY <3>2 DEF Justified
    <2>3. CASE e2 = ef
      BY <1>2, <1>4, <2>3 DEF Justified
    <2>4. QED
      BY <2>1, <2>2, <2>3
  <1>7. Nny(u.cs, f.L, n + 1) = 0 => Continued(c, IF f.fn \in Keeping THEN Len(c) ELSE Len(c) - 1)
    <2>1. p \notin Keeping /\ f.fn \notin Keeping
      BY <1>3 DEF Keeping
    <2>2. QED
      BY <1>2, <1>4, <2>1 DEF LevelAt
  <1>8. Above(c, u.cs[n].fn, Len(c), f.fn, Len(c))
    <2>1. u.cs[n].fn = p /\ (p = "cfun" => ~c[Len(c)].yp) /\ ~c[Len(c)].lua
      BY <1>2, <1>3
    <2> HIDE DEF p, c
    <2>2. QED
      BY <1>3, <2>1 DEF Above
  <1>9. u.cs[n].fn # "raw"
    BY <1>2, <1>3
  <1>10. f.err < f.ci
    BY <1>2
  <1>11. Fits(c, u.cs, n, Len(c), f)
    <2> HIDE DEF c, n
    <2>1. f.ci = Len(c) /\ f.err = ef /\ Justified(c, u.cs, f.L, n, f.err)
      BY <1>5 DEF c
    <2>2. QED
      BY <1>7, <1>8, <1>9, <1>10, <2>1 DEF Fits
  <1>12. Edit(s, u, L, c, s.th[L].up, e2, OK)
    BY <1>2
  <1>13. Extends(c, c, Len(c))
    BY <1>2 DEF Extends
  <1>14. Leveled(u.th, u.cs, Len(u.cs))
    <2>1. f.fn # "resume" /\ (f.fn = "cfun" => ~c[Len(c)].yp)
      OBVIOUS
    <2>2. QED
      BY <1>1, <1>2, <1>6, <1>11, <1>12, <1>13, <2>1, FramePushed
  <1>15. QED
    BY <1>14 DEF Ready

----------------------------------------------------------------------------
(* What follows from the levels. *)

LEMMA Refs ==
  ASSUME NEW s, Sound(s), NEW m \in 1 .. Len(s.cs), Leveled(s.th, s.cs, m)
  PROVE  RefsOK(s.th)
  <1> DEFINE d == s.cs
  <1>1. PICK lev \in [1 .. m -> Nat] : LevelsOK(s.th, d, lev, m)
    BY DEF Leveled
  <1>2. Len(d) \in Nat \ {0} /\ \A i \in 1 .. m : LevelAt(s.th, d, lev, i) /\ FrameAt(d, i)
    <2>1. Len(d) \in Nat \ {0} /\ StackOK(d)
      BY Types DEF Sound
    <2>2. \A i \in 1 .. m : i \in 1 .. Len(d)
      BY <2>1
    <2>3. QED
      BY <1>1, <2>1, <2>2 DEF StackOK, LevelsOK
  <1>3. ASSUME NEW t \in Threads
        PROVE  /\ UpOK(s.th[t].ci, s.th[t].up)
               /\ s.th[t].errfunc = 0 \/ (/\ s.th[t].errfunc \in 1 .. Len(s.th[t].ci)
                                          /\ ~s.th[t].ci[s.th[t].errfunc].lua)
               /\ Len(s.th[t].ci) \in Nat /\ DOMAIN s.th[t].ci = 1 .. Len(s.th[t].ci)
    <2> DEFINE c == s.th[t].ci
               e == s.th[t].errfunc
    <2>1. ChainOK(c) /\ UpOK(c, s.th[t].up) /\ Justified(c, d, t, m, e)
      BY DEF Leveled, ThreadsOK, ThreadOK
    <2>2. Len(c) \in Nat \ {0} /\ DOMAIN c = 1 .. Len(c)
      BY <2>1, ChainFacts
    <2> HIDE DEF c, e, d
    <2>3. e \in 1 .. Len(c) /\ c[e].yp => ~c[e].lua
      BY <2>1 DEF ChainOK
    <2>4. ASSUME NEW j \in Pcalls(d, t, m, e)
          PROVE  e \in 1 .. Len(c) /\ ~c[e].lua
      <3>1. j \in 1 .. m /\ d[j].fn = "pcall" /\ d[j].L = t /\ d[j].ci = e
        BY DEF Pcalls
      <3>2. LevelAt(s.th, d, lev, j) /\ FrameAt(d, j)
        BY <1>2, <3>1
      <3>3. j > 1 /\ e = lev[j] /\ e \in 1 .. Len(c)
        BY <3>1, <3>2 DEF LevelAt, FrameAt, Saved, c
      <3>4. Above(c, d[j - 1].fn, lev[j - 1], "pcall", e)
        BY <3>1, <3>2, <3>3 DEF LevelAt, c
      <3>5. QED
        BY <3>3, <3>4 DEF Above
    <2>5. e = 0 \/ (e \in 1 .. Len(c) /\ ~c[e].lua)
      BY <2>1, <2>3, <2>4 DEF Justified
    <2>6. QED
      BY <2>1, <2>2, <2>5 DEF c, e
  <1>4. QED
    BY <1>3 DEF RefsOK

LEMMA Settled ==
  ASSUME NEW s, Sound(s), TopOf(s).status # RESUME_ERROR, Leveled(s.th, s.cs, Len(s.cs))
  PROVE  Placed(s)
  <1>1. Len(s.cs) \in Nat \ {0} /\ Len(s.cs) \in 1 .. Len(s.cs)
    BY Types DEF Sound
  <1>2. RefsOK(s.th)
    BY <1>1, Refs
  <1>3. LiveLen(s.cs) = Len(s.cs)
    BY DEF LiveLen, TopOf
  <1>4. QED
    BY <1>2, <1>3 DEF Placed

(* A state in which L runs and may fail. *)
Calm(s, L) ==
    /\ Sound(s) /\ ~s.panic /\ TopOf(s).L = L
    /\ TopOf(s).status = OK /\ TopOf(s).fn \notin {"resume", "pcall"}
    /\ Leveled(s.th, s.cs, Len(s.cs))

LEMMA ReadyCalm ==
  ASSUME NEW s, NEW L, Ready(s, L), TopOf(s).fn # "pcall"
  PROVE  Calm(s, L)
  BY ActiveFacts DEF Ready, Active, Calm

LEMMA CalmPlaced ==
  ASSUME NEW s, NEW L, Calm(s, L)
  PROVE  Placed(s)
  BY Settled, ErrorStatuses DEF Calm, OK, RESUME_ERROR

----------------------------------------------------------------------------
(* Errors and yields. *)

(* The frames above a luaD_rawrunprotected are given up. *)
LEMMA Thrown ==
  ASSUME NEW s, Sound(s), NEW L, NEW lev, NEW a, Standing(s, L, lev, a),
         s.cs[Len(s.cs)].fn \notin {"resume", "pcall"},
         NEW j \in Raws(s.cs, L, Len(s.cs)), Innermost(s.cs, L, Len(s.cs), j),
         NEW u, Len(u.cs) = j, SameRows(s.cs, u.cs, j), u.cs[j].status # OK,
         NEW c2, ChainOK(c2), Len(c2) = Len(s.th[L].ci),
         \A l \in 1 .. Len(c2) : /\ c2[l].lua = s.th[L].ci[l].lua
                                 /\ c2[l].yp = s.th[L].ci[l].yp,
         Extends(s.th[L].ci, c2, lev[j]),
         NEW st, Edit(s, u, L, c2, s.th[L].up, s.th[L].errfunc, st),
         st = (IF u.cs[j].status = YIELD THEN YIELD ELSE OK),
         u.cs[j].status = YIELD => Suspended(c2) /\ j > 1 /\ s.cs[j - 1].fn = "resume"
  PROVE  Leveled(u.th, u.cs, Len(u.cs))
  <1> DEFINE n == Len(s.cs)
             c == s.th[L].ci
             e == s.th[L].errfunc
             lev2 == Placing(lev, j, j, 0, 0)
  <1>1. /\ n \in Nat \ {0} /\ L \in Threads /\ s.cs[n].L = L /\ Len(c) \in Nat \ {0}
        /\ ThreadsOK(s.th, s.cs, n) /\ Frames(s.th, s.cs, lev, n)
        /\ a \in 1 .. n /\ Span(s.cs, L, a, n)
        /\ UpOK(c, s.th[L].up) /\ Justified(c, s.cs, L, n, e)
    BY StandsAt DEF Standing
  <1>2. j \in 1 .. n /\ s.cs[j].fn = "raw" /\ s.cs[j].L = L
    BY DEF Raws
  <1>3. j \in a .. n /\ j \in Nat \ {0} /\ j \in a - 1 .. n /\ j \in 1 .. j
    BY <1>1, <1>2 DEF Span
  <1>4. /\ u.th[L].ci = c2 /\ u.th[L].status = st /\ u.th[L].up = s.th[L].up
        /\ u.th[L].errfunc = e
    BY DEF Edit
  <1>5. Keeps(s.th, s.cs, lev, L, a, j, u.th, u.cs, lev)
    BY <1>3, <1>4 DEF Keeps, Edit
  <1>6. u.cs[j].L = L /\ u.cs[j].fn = "raw" /\ \A i \in 1 .. j : u.cs[i].fn = s.cs[i].fn
    BY <1>2, <1>3 DEF SameRows
  <1>7. TopLevel(u.th, u.cs, lev2, j)
    <2>1. j > 1 => j - 1 \in 1 .. j
      BY <1>3
    <2>2. u.cs[j].status = YIELD => j > 1 /\ u.cs[j - 1].fn = "resume"
      BY <1>6, <2>1
    <2> HIDE DEF lev2
    <2>3. QED
      BY <1>4, <1>6, <2>2 DEF TopLevel
  <1>8. Pcalls(s.cs, L, n, e) \subseteq Pcalls(u.cs, L, j, e)
    <2>1. ASSUME NEW k \in Pcalls(s.cs, L, n, e)
          PROVE  k \in 1 .. j
      <3>1. k \in 1 .. n /\ s.cs[k].fn = "pcall" /\ s.cs[k].L = L
        BY DEF Pcalls
      <3>2. k # n /\ k \in a .. n
        BY <1>1, <3>1 DEF Span
      <3> DEFINE r == k + 1
      <3>3. r \in 1 .. n /\ r \in a + 1 .. n /\ r > 1 /\ r - 1 = k /\ r \in a .. n
        BY <1>1, <3>1, <3>2
      <3> HIDE DEF r
      <3>4. LevelAt(s.th, s.cs, lev, r) /\ s.cs[r].fn # "resume" /\ s.cs[r].L = L
        BY <1>1, <3>3 DEF Frames, Span
      <3>5. s.cs[r].fn = "raw"
        <4>1. Above(s.th[s.cs[r].L].ci, s.cs[k].fn, lev[k], s.cs[r].fn, lev[r])
          BY <3>3, <3>4 DEF LevelAt
        <4>2. QED
          BY <3>1, <4>1 DEF Above
      <3>6. r <= j
        BY <3>3, <3>4, <3>5 DEF Innermost, Raws
      <3>7. QED
        BY <1>2, <3>1, <3>3, <3>6
    <2>2. QED
      BY <2>1 DEF Pcalls, SameRows
  <1>9. Justified(c2, u.cs, L, j, e)
    BY <1>1, <1>8 DEF Justified
  <1>10. UpOK(c2, s.th[L].up)
    BY <1>1 DEF UpOK
  <1>11. ThreadOK(u.th, u.cs, L, j)
    <2>1. st = YIELD => Suspended(c2)
      BY DEF OK, YIELD
    <2>2. QED
      BY <1>4, <1>9, <1>10, <2>1 DEF ThreadOK
  <1>12. Leveled(u.th, u.cs, j)
    <2>1. n \in Nat /\ j \in Nat /\ j <= j /\ 0 \in Nat
      BY <1>1, <1>3
    <2>2. lev2 = Placing(lev, j, j, 0, 0)
      BY DEF lev2
    <2>3. \A i \in j + 1 .. j : LevelAt(u.th, u.cs, lev2, i)
      BY <1>3
    <2> HIDE DEF n, lev2
    <2>4. QED
      BY <1>1, <1>3, <1>5, <1>7, <1>11, <2>1, <2>2, <2>3, Rebuilt
  <1>13. QED
    BY <1>12

LEMMA Raised ==
  ASSUME NEW s, NEW L, Calm(s, L), NEW e \in {ERRRUN, ERRSYNTAX, ERRMEM, ERRERR}
  PROVE  Placed(LuaD_throw(s, L, e))
  <1> DEFINE j == s.th[L].jmp
             n == Len(s.cs)
             c == s.th[L].ci
             u == LuaD_throw(s, L, e)
  <1>1. PICK lev, a : Standing(s, L, lev, a)
    BY Stands DEF Calm
  <1>2. /\ Shaped(s) /\ Sound(s) /\ n \in Nat \ {0} /\ L \in Threads /\ IsThread(s.th[L])
        /\ TopOf(s) = s.cs[n] /\ s.cs[n].fn \notin {"resume", "pcall"} /\ s.cs[n].status = OK
    <2>1. Shaped(s) /\ Sound(s) /\ TopOf(s).L = L
      BY DEF Calm, Sound
    <2>2. QED
      BY <2>1, Types DEF Calm, TopOf
  <1>3. e \in Statuses /\ e # OK /\ e # YIELD /\ e # RESUME_ERROR
    BY DEF Statuses, ERRRUN, ERRSYNTAX, ERRMEM, ERRERR, OK, YIELD, RESUME_ERROR
  <1>4. Innermost(s.cs, L, n, j)
    BY <1>2 DEF Sound, JumpsOK
  <1>5. RefsOK(s.th)
    BY CalmPlaced DEF Placed
  <1>6. CASE j = 0
    <2> DEFINE w == [s EXCEPT !.th[L].status = e]
    <2>1. u = [w EXCEPT !.panic = TRUE]
      BY <1>6 DEF LuaD_throw
    <2> DEFINE r == [s.th[L] EXCEPT !.status = e]
    <2>2. w = With(s, L, r)
      BY DEF With
    <2>3. IsThread(r) /\ r.ci = c /\ r.up = s.th[L].up /\ r.errfunc = s.th[L].errfunc
      BY <1>2 DEF IsThread
    <2> HIDE DEF r, w
    <2>4. /\ Shaped(w) /\ w.th[L] = r /\ \A t \in Threads : t # L => w.th[t] = s.th[t]
      BY <1>2, <2>2, <2>3, WithShaped
    <2>5. u.th = w.th /\ u.panic
      BY <2>1, <2>4 DEF Shaped
    <2>6. \A t \in Threads : /\ u.th[t].ci = s.th[t].ci /\ u.th[t].up = s.th[t].up
                             /\ u.th[t].errfunc = s.th[t].errfunc
      BY <2>3, <2>4, <2>5
    <2>7. RefsOK(u.th)
      BY <1>5, <2>6 DEF RefsOK
    <2>8. QED
      BY <2>5, <2>7 DEF Placed
  <1>7. CASE j # 0
    <2> DEFINE w == [s EXCEPT !.cs = SubSeq(@, 1, j)]
    <2>1. j \in Raws(s.cs, L, n) /\ j \in 1 .. n
      BY <1>4, <1>7 DEF Innermost, Raws
    <2>2. /\ Shaped(w) /\ Len(w.cs) = j /\ \A i \in 1 .. j : w.cs[i] = s.cs[i]
          /\ w.th = s.th /\ w.panic = s.panic
      BY <1>2, <2>1, CutShaped
    <2>3. u = Mark(w, j, e)
      <3>1. w.cs = SubSeq(s.cs, 1, j) /\ w.th = s.th
        BY <1>2 DEF Shaped
      <3>2. u = [s EXCEPT !.cs = [SubSeq(@, 1, j) EXCEPT ![j].status = e]]
        BY <1>7 DEF LuaD_throw
      <3>3. QED
        BY <1>2, <3>1, <3>2 DEF Shaped, Mark
    <2> HIDE DEF w, u, j
    <2>4. j \in 1 .. Len(w.cs)
      BY <2>1, <2>2
    <2>5. /\ Len(u.cs) = j /\ u.cs[j].status = e /\ Agree(w.cs, u.cs, j) /\ u.th = s.th
      BY <1>3, <2>2, <2>3, <2>4, MarkShaped
    <2>6. SameRows(s.cs, u.cs, j)
      <3>1. \A i \in 1 .. j : i # j => u.cs[i] = s.cs[i]
        BY <1>3, <2>2, <2>3, <2>4, MarkShaped
      <3>2. IsFrame(w.cs[j]) /\ u.cs[j] = [w.cs[j] EXCEPT !.status = e] /\ w.cs[j] = s.cs[j]
        BY <2>2, <2>3, <2>4 DEF Shaped, Mark
      <3>3. /\ u.cs[j].fn = s.cs[j].fn /\ u.cs[j].L = s.cs[j].L
            /\ u.cs[j].ci = s.cs[j].ci /\ u.cs[j].err = s.cs[j].err
        BY <3>2 DEF IsFrame
      <3>4. QED
        BY <3>1, <3>3 DEF SameRows
    <2>7. /\ ChainOK(c) /\ lev[j] <= Len(c) /\ Len(c) \in Nat
          /\ s.th[L].status = OK
      <3>1. LevelAt(s.th, s.cs, lev, j)
        BY <1>1, <2>1 DEF Standing, Frames
      <3>2. s.cs[j].L = L
        BY <2>1 DEF Raws
      <3>3. ChainOK(c) /\ Len(c) \in Nat \ {0} /\ s.th[L].status = OK
        BY <1>1, <1>2, StandsAt DEF OK, YIELD
      <3>4. lev[j] \in 1 .. Len(c)
        BY <3>1, <3>2 DEF LevelAt
      <3>5. QED
        BY <3>3, <3>4
    <2>8. Extends(c, c, lev[j])
      BY <2>7 DEF Extends
    <2>9. Edit(s, u, L, c, s.th[L].up, s.th[L].errfunc, OK)
      BY <2>5, <2>7 DEF Edit, SameThread
    <2>10. OK = (IF u.cs[j].status = YIELD THEN YIELD ELSE OK) /\ u.cs[j].status # YIELD
           /\ u.cs[j].status # OK
      BY <1>3, <2>5
    <2>11. Leveled(u.th, u.cs, Len(u.cs))
      <3> HIDE DEF c
      <3>1. Len(c) = Len(s.th[L].ci) /\ \A l \in 1 .. Len(c) : c[l].lua = s.th[L].ci[l].lua
                                           /\ c[l].yp = s.th[L].ci[l].yp
        BY DEF c
      <3>2. Extends(s.th[L].ci, c, lev[j])
        BY <2>8 DEF c
      <3>3. QED
        BY <1>1, <1>2, <1>4, <2>1, <2>5, <2>6, <2>7, <2>9, <2>10, <3>1, <3>2, Thrown
    <2>12. LiveLen(u.cs) = Len(u.cs)
      BY <1>3, <2>5 DEF LiveLen
    <2>13. QED
      BY <1>5, <2>5, <2>11, <2>12 DEF Placed, u
  <1>8. QED
    BY <1>6, <1>7

----------------------------------------------------------------------------
(* The functions of ldo.c that enter a function. *)

LEMMA EditAgain ==
  ASSUME NEW s, NEW u, NEW w, NEW L, NEW c, NEW up, NEW ef, NEW st, NEW c2, NEW p2, NEW e2,
         NEW st2, Edit(s, u, L, c, up, ef, st), Edit(u, w, L, c2, p2, e2, st2)
  PROVE  Edit(s, w, L, c2, p2, e2, st2)
  BY DEF Edit, SameThread

LEMMA PushedEdit ==
  ASSUME NEW s, NEW b, Shaped(b), b.cs = s.cs, NEW f, IsFrame(f), NEW u, u = Push(b, f),
         NEW L, NEW c, NEW up, NEW ef, NEW st, Edit(s, b, L, c, up, ef, st)
  PROVE  Grown(s, u, f) /\ Edit(s, u, L, c, up, ef, st) /\ Shaped(u)
  <1>1. /\ Len(u.cs) = Len(b.cs) + 1 /\ u.cs[Len(b.cs) + 1] = f /\ u.th = b.th /\ Shaped(u)
        /\ \A i \in 1 .. Len(b.cs) : u.cs[i] = b.cs[i]
    BY PushShaped
  <1>2. QED
    BY <1>1 DEF Grown, Edit

(* A frame fn may lie on the innermost one of s. *)
Free(s, fn) ==
    /\ TopOf(s).fn # "pcall"
    /\ Len(s.cs) > 2 /\ TopOf(s).fn = "raw" /\ s.cs[Len(s.cs) - 1].fn = "pcall" =>
          fn = "noyield" \/ s.cs[Len(s.cs) - 2].fn = "parser"

LEMMA Pushes ==
  ASSUME NEW s, NEW L, Ready(s, L),
         NEW fn \in {"call", "noyield", "parser", "fparser", "error", "errormsg"}, Free(s, fn),
         NEW b, Shaped(b), b.cs = s.cs,
         Edit(s, b, L, s.th[L].ci, s.th[L].up, s.th[L].errfunc, s.th[L].status),
         NEW u, u = Push(b, Frame(fn, L)), Active(u, L),
         fn = "call" => (Nny(s.cs, L, Len(s.cs)) = 0 => Continued(s.th[L].ci, Len(s.th[L].ci)))
  PROVE  /\ Ready(u, L) /\ Grown(s, u, Frame(fn, L)) /\ TopOf(u).fn = fn
         /\ Edit(s, u, L, s.th[L].ci, s.th[L].up, s.th[L].errfunc, s.th[L].status)
  <1> DEFINE c == s.th[L].ci
             f == Frame(fn, L)
  <1>1. ChainOK(c) /\ Extends(c, c, Len(c)) /\ L \in Threads /\ Len(s.cs) \in Nat \ {0}
    BY SameChain
  <1>2. IsFrame(f) /\ f.fn = fn /\ f.L = L /\ f.status = OK
    BY <1>1, NewFrame
  <1>3. u = Push(b, f)
    OBVIOUS
  <1> HIDE DEF f
  <1>4. Grown(s, u, f) /\ Edit(s, u, L, c, s.th[L].up, s.th[L].errfunc, s.th[L].status)
    BY <1>2, <1>3, PushedEdit
  <1>5. Ready(u, L)
    <2> HIDE DEF c
    <2>1. /\ Len(c) = Len(s.th[L].ci) /\ Extends(s.th[L].ci, c, Len(s.th[L].ci))
          /\ TopOf(s).fn # "pcall"
          /\ (f.fn = "call" => (Nny(s.cs, L, Len(s.cs)) = 0 => Continued(c, Len(c))))
      BY <1>1, <1>2 DEF c, Free
    <2>2. Len(s.cs) > 2 /\ TopOf(s).fn = "raw" /\ s.cs[Len(s.cs) - 1].fn = "pcall" =>
            f.fn = "noyield" \/ s.cs[Len(s.cs) - 2].fn = "parser"
      BY <1>2 DEF Free
    <2>3. f.fn \in {"call", "noyield", "parser", "fparser", "error", "errormsg", "raw"}
      BY <1>2
    <2>4. QED
      BY <1>1, <1>2, <1>4, <2>1, <2>2, <2>3, PushSame
  <1>6. TopOf(u).fn = fn
    BY <1>2, <1>4 DEF Grown, TopOf
  <1>7. QED
    BY <1>4, <1>5, <1>6 DEF f

(* Frames that luaD_precall is called by, but for unroll. *)
Enters(s) ==
    \/ s.cs[Len(s.cs)].fn \in {"call", "execute"}
    \/ s.cs[Len(s.cs)].fn = "raw" /\ s.cs[Len(s.cs) - 1].fn = "resume"

LEMMA Grows ==
  ASSUME NEW s, NEW L, Ready(s, L), Enters(s)
  PROVE  Placed(LuaD_growstack(s, L))
  <1> DEFINE b == [s EXCEPT !.th[L].big = TRUE]
             u == Push(b, Frame("error", L))
  <1>1. /\ TopOf(s) = s.cs[Len(s.cs)] /\ Shaped(s) /\ L \in Threads
    BY SameChain
  <1>2. Free(s, "error") /\ TopOf(s).fn # "pcall"
    BY <1>1 DEF Free, Enters
  <1>3. CASE s.th[L].big
    <2>1. Placed(LuaD_throw(s, L, ERRERR))
      BY <1>2, ReadyCalm, Raised
    <2>2. QED
      BY <1>3, <2>1 DEF LuaD_growstack
  <1>4. CASE ~s.th[L].big
    <2>1. Active(b, L)
      BY ActiveFields DEF Ready
    <2>2. Active(u, L)
      BY <2>1, PushPlain
    <2>3. Shaped(b)
      BY <2>1, ActiveFacts
    <2>4. b.cs = s.cs /\ Edit(s, b, L, s.th[L].ci, s.th[L].up, s.th[L].errfunc, s.th[L].status)
      BY <1>1, Edits
    <2>5. LuaD_growstack(s, L) = u
      BY <1>4 DEF LuaD_growstack
    <2>6. u = Push(b, Frame("error", L))
      OBVIOUS
    <2> HIDE DEF b, u
    <2>7. Ready(u, L) /\ TopOf(u).fn = "error"
      BY <1>2, <2>2, <2>3, <2>4, <2>6, Pushes
    <2>8. QED
      BY <2>5, <2>7, ReadyCalm, CalmPlaced
  <1>5. QED
    BY <1>3, <1>4

LEMMA Freshened ==
  ASSUME NEW a, NEW b, NEW d, NEW e, NEW f, NEW g
  PROVE  [[lua |-> a, fresh |-> b, yp |-> d, k |-> e, olderr |-> f] EXCEPT !.fresh = g]
            = [lua |-> a, fresh |-> g, yp |-> d, k |-> e, olderr |-> f]
  OBVIOUS

LEMMA NewCI ==
  ASSUME NEW lua \in BOOLEAN
  PROVE  /\ IsCI(CI(lua)) /\ ~CI(lua).yp /\ CI(lua).lua = lua /\ ~CI(lua).fresh
         /\ LET q == [CI(lua) EXCEPT !.fresh = TRUE]
            IN  IsCI(q) /\ ~q.yp /\ q.lua = lua /\ q.fresh
  <1> DEFINE no == FALSE
             yes == TRUE
             r == [lua |-> lua, fresh |-> no, yp |-> no, k |-> no, olderr |-> 0]
             q == [lua |-> lua, fresh |-> yes, yp |-> no, k |-> no, olderr |-> 0]
  <1>1. CI(lua) = r
    BY DEF CI
  <1> HIDE DEF no, yes
  <1>2. [r EXCEPT !.fresh = yes] = q
    BY Freshened
  <1>3. /\ IsCI(r) /\ r.yp = no /\ r.lua = lua /\ r.fresh = no
        /\ IsCI(q) /\ q.yp = no /\ q.lua = lua /\ q.fresh = yes
    BY DEF IsCI
  <1> HIDE DEF q, r
  <1>4. [CI(lua) EXCEPT !.fresh = TRUE] = q
    BY <1>1, <1>2 DEF yes
  <1>5. QED
    BY <1>1, <1>3, <1>4 DEF no, yes

(* CIST_FRESH is set. *)
LEMMA SetFresh ==
  ASSUME NEW c, IsSequence(c), NEW j \in 1 .. Len(c)
  PROVE  LET c2 == [c EXCEPT ![j].fresh = TRUE]
         IN  /\ IsSequence(c2) /\ Len(c2) = Len(c) /\ c2[j] = [c[j] EXCEPT !.fresh = TRUE]
             /\ \A l \in 1 .. Len(c) : l # j => c2[l] = c[l]
  <1> DEFINE v == [c[j] EXCEPT !.fresh = TRUE]
  <1>1. [c EXCEPT ![j].fresh = TRUE] = [c EXCEPT ![j] = v]
    OBVIOUS
  <1> HIDE DEF v
  <1>2. LET c2 == [c EXCEPT ![j] = v]
        IN  /\ IsSequence(c2) /\ Len(c2) = Len(c) /\ c2[j] = v
            /\ \A l \in 1 .. Len(c) : l # j => c2[l] = c[l]
    BY Altered
  <1>3. QED
    BY <1>1, <1>2 DEF v

(* luaD_precall for a Lua function, and luaV_execute.                      *)
LEMMA FreshChain ==
  ASSUME NEW c, ChainOK(c)
  PROVE  LET c2 == [Append(c, CI(TRUE)) EXCEPT ![Len(c) + 1].fresh = TRUE]
         IN  /\ ChainOK(c2) /\ Len(c2) = Len(c) + 1 /\ Extends(c, c2, Len(c))
             /\ IsCI(c2[Len(c2)]) /\ ~c2[Len(c2)].yp /\ c2[Len(c2)].lua /\ c2[Len(c2)].fresh
  <1> DEFINE r == CI(TRUE)
             q == [r EXCEPT !.fresh = TRUE]
             c1 == Append(c, r)
             n == Len(c) + 1
             c2 == [c1 EXCEPT ![n].fresh = TRUE]
  <1>1. IsCI(q) /\ ~q.yp /\ q.lua /\ q.fresh
    BY NewCI
  <1> HIDE DEF r
  <1>2. IsSequence(c) /\ Len(c) \in Nat \ {0}
    BY ChainFacts
  <1>3. /\ IsSequence(c1) /\ Len(c1) = Len(c) + 1 /\ c1[Len(c) + 1] = r
        /\ \A l \in 1 .. Len(c) : c1[l] = c[l]
    BY <1>2, Appended
  <1> HIDE DEF c1
  <1>4. n \in 1 .. Len(c1) /\ \A l \in 1 .. Len(c) : l \in 1 .. Len(c1) /\ l # n
    BY <1>2, <1>3
  <1>5. /\ IsSequence(c2) /\ Len(c2) = Len(c1) /\ c2[n] = [c1[n] EXCEPT !.fresh = TRUE]
        /\ \A l \in 1 .. Len(c1) : l # n => c2[l] = c1[l]
    <2> HIDE DEF n
    <2>1. QED
      BY <1>3, <1>4, SetFresh
  <1>6. [c1[n] EXCEPT !.fresh = TRUE] = q
    BY <1>3
  <1> HIDE DEF q, c2
  <1>7. IsSequence(c2) /\ Len(c2) = Len(c) + 1 /\ c2[Len(c) + 1] = q
        /\ \A l \in 1 .. Len(c) : c2[l] = c[l]
    BY <1>3, <1>4, <1>5, <1>6
  <1>8. ChainOK(c2) /\ Extends(c, c2, Len(c))
    BY <1>1, <1>7, ChainMore
  <1>9. QED
    BY <1>1, <1>7, <1>8 DEF c2, c1, n, r

LEMMA Precalls ==
  ASSUME NEW s, NEW L, Ready(s, L), Enters(s), NEW lua \in BOOLEAN
  PROVE  Placed(PrecallAndExecute(s, L, lua))
  <1> DEFINE n == Len(s.cs)
             c == s.th[L].ci
             ef == s.th[L].errfunc
             u == PrecallAndExecute(s, L, lua)
             e == [s EXCEPT !.th[L].ci = Append(c, CI(lua))]
  <1>1. /\ ChainOK(c) /\ IsSequence(c) /\ Len(c) \in Nat \ {0} /\ UpOK(c, s.th[L].up)
        /\ s.th[L].status = OK /\ L \in Threads /\ Shaped(s) /\ TopOf(s) = s.cs[n]
        /\ n \in Nat \ {0}
    BY SameChain
  <1>2. PICK lev, a : Standing(s, L, lev, a)
    BY ReadyStands
  <1>3. s.cs[n].status = OK
    BY <1>1, ReadyStands
  <1>4. \/ s.cs[n].fn \in {"call", "execute", "unroll"}
        \/ s.cs[n].fn = "raw" /\ s.cs[n - 1].fn = "resume"
    BY DEF Enters
  <1>5. Good(u) /\ Sound(u)
    BY PrecallExecute DEF Ready, Good
  <1>6. e.cs = s.cs /\ Edit(s, e, L, Append(c, CI(lua)), s.th[L].up, ef, OK)
    <2> DEFINE x == Append(c, CI(lua))
    <2>1. e = [s EXCEPT !.th[L].ci = x]
      OBVIOUS
    <2> HIDE DEF x, e, c, ef
    <2>2. e.cs = s.cs /\ Edit(s, e, L, x, s.th[L].up, s.th[L].errfunc, s.th[L].status)
      BY <1>1, <2>1, EditCi
    <2>3. QED
      BY <1>1, <2>2 DEF x, ef
  <1>7. Active(e, L) /\ Shaped(e)
    BY ActiveFields, ActiveFacts DEF Ready
  <1>8. ASSUME NEW c2, ChainOK(c2), Len(c2) = Len(c) + 1, Extends(c, c2, Len(c))
        PROVE  UpOK(c2, s.th[L].up)
    <2>1. \A l \in 1 .. Len(c) : l \in 1 .. Len(c2) /\ c2[l].lua = c[l].lua
      BY <1>1, <1>8 DEF Extends
    <2>2. QED
      BY <1>1, <2>1 DEF UpOK
  <1>9. ASSUME NEW w, Shaped(w), w.cs = s.cs, NEW c2, ChainOK(c2), Len(c2) = Len(c) + 1,
               Extends(c, c2, Len(c)), IsCI(c2[Len(c2)]), ~c2[Len(c2)].yp,
               Edit(s, w, L, c2, s.th[L].up, ef, OK),
               NEW f, IsFrame(f), f.L = L, f.status = OK, u = Push(w, f),
               \/ f.fn = "cfun" /\ ~c2[Len(c2)].lua
               \/ f.fn = "execute" /\ c2[Len(c2)].lua /\ c2[Len(c2)].fresh
        PROVE  Placed(u)
    <2> HIDE DEF u, c, n, ef
    <2>1. Grown(s, u, f) /\ Edit(s, u, L, c2, s.th[L].up, ef, OK)
      BY <1>9, PushedEdit
    <2>2. Leveled(u.th, u.cs, Len(u.cs))
      <3> DEFINE r == c2[Len(c2)]
                 p2 == s.th[L].up
      <3>1. /\ IsCI(r) /\ ~r.yp /\ c2[Len(c2)] = r
            /\ (\/ f.fn = "cfun" /\ ~r.lua
                \/ f.fn = "execute" /\ r.lua /\ r.fresh)
        BY <1>9
      <3>2. UpOK(c2, p2) /\ Edit(s, u, L, c2, p2, ef, OK)
        BY <1>8, <1>9, <2>1
      <3> HIDE DEF r, p2
      <3>3. Len(c2) = Len(s.th[L].ci) + 1 /\ Extends(s.th[L].ci, c2, Len(s.th[L].ci))
            /\ ef = s.th[L].errfunc
        BY <1>9 DEF c, ef
      <3>4. /\ s.cs[Len(s.cs)].status = OK
            /\ (\/ s.cs[Len(s.cs)].fn \in {"call", "execute", "unroll"}
                \/ s.cs[Len(s.cs)].fn = "raw" /\ s.cs[Len(s.cs) - 1].fn = "resume")
        BY <1>3, <1>4 DEF n
      <3>5. QED
        BY <1>2, <1>9, <2>1, <3>1, <3>2, <3>3, <3>4, Entered
    <2>3. TopOf(u) = f
      BY <2>1 DEF Grown, TopOf
    <2>4. QED
      BY <1>5, <1>9, <2>2, <2>3, Settled DEF OK, RESUME_ERROR
  <1>10. CASE ~StackFits(s, L)
    <2>1. u = LuaD_growstack(s, L)
      BY <1>10 DEF PrecallAndExecute, LuaD_precall
    <2>2. QED
      BY <2>1, Grows
  <1>11. CASE StackFits(s, L) /\ ~lua
    <2> DEFINE f == Frame("cfun", L)
               r == CI(FALSE)
               c2 == Append(c, r)
    <2>1. lua = FALSE
      BY <1>11
    <2>2. u = Push(e, f)
      BY <1>11 DEF PrecallAndExecute, LuaD_precall
    <2>3. IsFrame(f) /\ f.fn = "cfun" /\ f.L = L /\ f.status = OK
      BY <1>1, NewFrame
    <2>4. IsCI(r) /\ ~r.yp /\ ~r.lua
      BY NewCI
    <2> HIDE DEF f, r
    <2>5. IsSequence(c2) /\ Len(c2) = Len(c) + 1 /\ c2[Len(c) + 1] = r
          /\ \A l \in 1 .. Len(c) : c2[l] = c[l]
      BY <1>1, Appended
    <2>6. Edit(s, e, L, c2, s.th[L].up, ef, OK)
      BY <1>6, <2>1 DEF r
    <2> HIDE DEF c2, u, e
    <2>7. ChainOK(c2) /\ Extends(c, c2, Len(c))
      <3> HIDE DEF c
      <3>1. QED
        BY <1>1, <2>4, <2>5, ChainMore
    <2>8. IsCI(c2[Len(c2)]) /\ ~c2[Len(c2)].yp
          /\ (\/ f.fn = "cfun" /\ ~c2[Len(c2)].lua
              \/ f.fn = "execute" /\ c2[Len(c2)].lua /\ c2[Len(c2)].fresh)
      BY <2>3, <2>4, <2>5
    <2> HIDE DEF c, ef
    <2>9. Placed(u)
      BY <1>6, <1>7, <1>9, <2>2, <2>3, <2>5, <2>6, <2>7, <2>8
    <2>10. QED
      BY <2>9 DEF u
  <1>12. CASE StackFits(s, L) /\ lua
    <2> DEFINE f == Frame("execute", L)
               c1 == Append(c, CI(TRUE))
               c2 == [c1 EXCEPT ![Len(c) + 1].fresh = TRUE]
               w == [e EXCEPT !.th[L].ci = c2]
    <2>1. lua = TRUE
      BY <1>12
    <2>2. IsFrame(f) /\ f.fn = "execute" /\ f.L = L /\ f.status = OK
      BY <1>1, NewFrame
    <2>3. /\ ChainOK(c2) /\ Len(c2) = Len(c) + 1 /\ Extends(c, c2, Len(c))
          /\ IsCI(c2[Len(c2)]) /\ ~c2[Len(c2)].yp /\ c2[Len(c2)].lua /\ c2[Len(c2)].fresh
      BY <1>1, FreshChain
    <2>4. Edit(s, e, L, c1, s.th[L].up, ef, OK) /\ e.th[L].ci = c1
      BY <1>6, <2>1 DEF Edit
    <2>5. Depth(e, L) = Len(c) + 1
      <3>1. Len(c1) = Len(c) + 1
        BY <1>1, Appended
      <3>2. QED
        BY <2>4, <3>1 DEF Depth
    <2>6. u = Push(w, f)
      <3>1. u = LuaV_execute(e, L)
        BY <1>12 DEF PrecallAndExecute, LuaD_precall
      <3> HIDE DEF e, c1, u
      <3>2. [e EXCEPT !.th[L].ci[Depth(e, L)].fresh = TRUE] = w
        BY <2>4, <2>5
      <3>3. QED
        BY <3>1, <3>2 DEF LuaV_execute
    <2>7. w.cs = e.cs /\ Edit(e, w, L, c2, e.th[L].up, e.th[L].errfunc, e.th[L].status)
      <3>1. w = [e EXCEPT !.th[L].ci = c2]
        OBVIOUS
      <3> HIDE DEF e, c2, w
      <3>2. Shaped(e) /\ L \in Threads
        BY <1>1, <1>7
      <3>3. QED
        BY <3>1, <3>2, EditCi
    <2>8. Shaped(w)
      <3>1. w = [e EXCEPT !.th[L].ci = c2]
        OBVIOUS
      <3> HIDE DEF e, c2, w
      <3>2. Active(w, L)
        BY <1>7, <3>1, ActiveFields
      <3>3. QED
        BY <3>2, ActiveFacts
    <2> HIDE DEF e, c1, c2, w, u, f, c, ef
    <2>9. e.th[L].up = s.th[L].up /\ e.th[L].errfunc = ef /\ e.th[L].status = OK
      BY <2>4 DEF Edit
    <2>10. Edit(s, w, L, c2, s.th[L].up, ef, OK)
      BY <2>4, <2>7, <2>9, EditAgain
    <2>11. w.cs = s.cs
      BY <1>6, <2>7
    <2>12. \/ f.fn = "cfun" /\ ~c2[Len(c2)].lua
           \/ f.fn = "execute" /\ c2[Len(c2)].lua /\ c2[Len(c2)].fresh
      BY <2>2, <2>3
    <2>13. Placed(u)
      BY <1>9, <2>2, <2>3, <2>6, <2>8, <2>10, <2>11, <2>12
    <2>14. QED
      BY <2>13 DEF u
  <1>13. QED
    BY <1>10, <1>11, <1>12

LEMMA Called ==
  ASSUME NEW s, NEW L, Ready(s, L), TopOf(s).fn \notin {"raw", "pcall"}, NEW lua \in BOOLEAN,
         Nny(s.cs, L, Len(s.cs)) = 0 => Continued(s.th[L].ci, Len(s.th[L].ci))
  PROVE  Placed(LuaD_call(s, L, lua))
  <1> DEFINE n == s.th[L].nC + 1
             r == [s.th[L] EXCEPT !.nC = n]
             v == [s EXCEPT !.th[L].nC = n]
             f == Frame("call", L)
             same(u) == Edit(s, u, L, s.th[L].ci, s.th[L].up, s.th[L].errfunc, s.th[L].status)
  <1>1. /\ Shaped(s) /\ L \in Threads /\ IsThread(s.th[L]) /\ Active(s, L)
        /\ s.th[L].nC \in Int /\ s.th[L].nC <= Limit
    BY ActiveFacts DEF Ready
  <1>2. IsThread(r) /\ r.nny = s.th[L].nny /\ r.nC = n /\ r.jmp = s.th[L].jmp
    BY <1>1 DEF IsThread
  <1>3. v = With(s, L, r)
    BY DEF With
  <1>4. LuaD_call(s, L, lua) =
          CASE n = MAXCCALLS -> Push(v, Frame("error", L))
            [] n # MAXCCALLS /\ n >= MAXCCALLS + ExtraCalls -> LuaD_throw(v, L, ERRERR)
            [] OTHER -> PrecallAndExecute(Push(v, f), L, lua)
    BY DEF LuaD_call
  <1>5. v.cs = s.cs /\ same(v)
    <2>1. v = [s EXCEPT !.th[L].nC = n]
      OBVIOUS
    <2> HIDE DEF v, n, r, f
    <2>2. Shaped(s) /\ L \in Threads
      BY <1>1
    <2>3. \/ v = [s EXCEPT !.th[L].nny = n] \/ v = [s EXCEPT !.th[L].nC = n]
          \/ v = [s EXCEPT !.th[L].jmp = n] \/ v = [s EXCEPT !.th[L].big = n]
      BY <2>1
    <2>4. /\ v.cs = s.cs
          /\ Edit(s, v, L, s.th[L].ci, s.th[L].up, s.th[L].errfunc, s.th[L].status)
      BY <2>2, <2>3, EditCounts
    <2>5. QED
      BY <2>4
  <1>6. n \in Int /\ n <= Limit + 1 /\ n = s.th[L].nC + 1
    BY <1>1, LimitType
  <1> HIDE DEF n, r, f, v
  <1>7. /\ Sound(v) /\ ~v.panic /\ Shaped(v)
        /\ r.nC <= Limit => Active(v, L)
    BY <1>1, <1>2, <1>3, <1>6, Counted DEF Sound
  <1>8. Free(s, "error") /\ Free(s, "call")
    BY DEF Free
  <1>9. CASE n = MAXCCALLS
    <2> DEFINE u == Push(v, Frame("error", L))
    <2>1. Active(u, L)
      BY <1>2, <1>7, <1>9, LimitType, PushPlain
    <2>2. u = Push(v, Frame("error", L))
      OBVIOUS
    <2> HIDE DEF u
    <2>3. Ready(u, L) /\ TopOf(u).fn = "error"
      BY <1>5, <1>7, <1>8, <2>1, <2>2, Pushes
    <2>4. Placed(u)
      BY <2>3, ReadyCalm, CalmPlaced
    <2>5. QED
      BY <1>4, <1>9, <2>2, <2>4
  <1>10. CASE n # MAXCCALLS /\ n >= MAXCCALLS + ExtraCalls
    <2>1. Leveled(v.th, v.cs, Len(v.cs))
      <3> DEFINE c == s.th[L].ci
                 p == s.th[L].up
      <3>1. ChainOK(c) /\ Extends(c, c, Len(c)) /\ UpOK(c, p)
        BY SameChain
      <3>2. QED
        BY <1>5, <3>1, Stays
    <2>2. TopOf(s).L = L /\ TopOf(s).status = OK /\ TopOf(s).fn # "resume" /\ TopOf(v) = TopOf(s)
      BY <1>5, ReadyStands DEF TopOf
    <2>3. Calm(v, L)
      BY <1>7, <2>1, <2>2 DEF Calm
    <2>4. Placed(LuaD_throw(v, L, ERRERR))
      BY <2>3, Raised
    <2>5. QED
      BY <1>4, <1>10, <2>4
  <1>11. CASE n # MAXCCALLS /\ ~(n >= MAXCCALLS + ExtraCalls)
    <2> DEFINE u == Push(v, f)
    <2>1. n <= Limit
      BY <1>6, <1>11, CallsAssumption DEF Limit
    <2>2. IsFrame(f) /\ f.fn = "call" /\ f.L = L /\ f.status = OK
      BY <1>1, NewFrame DEF f
    <2>3. /\ f.fn \notin {"raw", "resume"} /\ f.fn # "pcall"
          /\ r.nny = s.th[L].nny + (IF f.fn \in {"noyield", "parser"} THEN 1 ELSE 0)
          /\ r.nC = s.th[L].nC + (IF f.fn = "call" THEN 1 ELSE 0)
          /\ r.nC <= Limit
      <3>1. s.th[L].nny \in Int
        BY <1>1 DEF IsThread
      <3>2. QED
        BY <1>1, <1>2, <1>6, <2>1, <2>2, <3>1
    <2>4. Active(u, L)
      BY <1>1, <1>2, <1>3, <2>2, <2>3, PushFrame
    <2>5. u = Push(v, Frame("call", L))
      BY DEF f
    <2> HIDE DEF u
    <2>6. Ready(u, L) /\ TopOf(u).fn = "call"
      BY <1>5, <1>7, <1>8, <2>4, <2>5, Pushes
    <2>7. Enters(u)
      BY <2>6 DEF Enters, TopOf
    <2>8. Placed(PrecallAndExecute(u, L, lua))
      BY <2>6, <2>7, Precalls
    <2>9. QED
      BY <1>4, <1>11, <2>5, <2>8 DEF f
  <1>12. QED
    BY <1>9, <1>10, <1>11

LEMMA CalledNoyield ==
  ASSUME NEW s, NEW L, Ready(s, L), TopOf(s).fn # "pcall", NEW lua \in BOOLEAN
  PROVE  Placed(LuaD_callnoyield(s, L, lua))
  <1> DEFINE x == s.th[L].nny + 1
             v == [s EXCEPT !.th[L].nny = x]
             u == Push(v, Frame("noyield", L))
  <1>1. /\ Shaped(s) /\ L \in Threads /\ Active(s, L) /\ s.th[L].nny \in Int
    BY ActiveFacts DEF Ready
  <1>2. [s EXCEPT !.th[L].nny = @ + 1] = v
    OBVIOUS
  <1>3. Active(u, L)
    BY <1>1, <1>2, PushHeld
  <1>4. /\ v.cs = s.cs
        /\ Edit(s, v, L, s.th[L].ci, s.th[L].up, s.th[L].errfunc, s.th[L].status)
    <2>1. v = [s EXCEPT !.th[L].nny = x]
      OBVIOUS
    <2> HIDE DEF v, x
    <2>2. QED
      BY <1>1, <2>1, EditCounts
  <1>5. Shaped(v)
    <2>1. v = [s EXCEPT !.th[L].nny = x] /\ x \in Int /\ Local(s, s, L)
      BY <1>1, LocalSelf
    <2> HIDE DEF v, x
    <2>2. Local(s, v, L)
      BY <1>1, <2>1, LocalNny
    <2>3. QED
      BY <1>1, <2>2, WithShaped DEF Local
  <1>6. LuaD_callnoyield(s, L, lua) = LuaD_call(u, L, lua)
    BY <1>2 DEF LuaD_callnoyield
  <1>7. u = Push(v, Frame("noyield", L)) /\ Free(s, "noyield")
    BY DEF Free
  <1> HIDE DEF u, v
  <1>8. /\ Ready(u, L) /\ TopOf(u).fn = "noyield" /\ Grown(s, u, Frame("noyield", L))
    BY <1>3, <1>4, <1>5, <1>7, Pushes
  <1>9. Nny(u.cs, L, Len(u.cs)) # 0
    <2> DEFINE f == Frame("noyield", L)
    <2>1. f.L = L /\ f.fn = "noyield" /\ Len(s.cs) \in Nat /\ Len(u.cs) = Len(s.cs) + 1
      BY <1>1, <1>8, NewFrame, Types DEF Grown
    <2>2. Grown(s, u, f)
      BY <1>8
    <2> HIDE DEF f
    <2>3. /\ Nny(s.cs, L, Len(s.cs)) \in Nat
          /\ f.L = L /\ f.fn \in {"noyield", "parser"} =>
               Nny(u.cs, L, Len(s.cs) + 1) = Nny(s.cs, L, Len(s.cs)) + 1
      BY <2>1, <2>2, GrownCounts
    <2>4. QED
      BY <2>1, <2>3
  <1>10. QED
    BY <1>6, <1>8, <1>9, Called

(* A C function runs. *)
LEMMA CFunction ==
  ASSUME NEW s, NEW L, Ready(s, L), TopOf(s).fn = "cfun"
  PROVE  LET c == s.th[L].ci
         IN  /\ ~c[Len(c)].lua /\ ~c[Len(c)].yp /\ s.th[L].errfunc \in 0 .. Len(c) - 1
             /\ Nny(s.cs, L, Len(s.cs)) = 0 => Len(c) > 1 /\ Continued(c, Len(c) - 1)
  <1> DEFINE c == s.th[L].ci
             d == s.cs
             n == Len(d)
  <1>1. PICK lev, a : Standing(s, L, lev, a)
    BY ReadyStands
  <1>2. /\ n \in Nat \ {0} /\ d[n].fn = "cfun" /\ d[n].status = OK /\ L \in Threads
        /\ LevelAt(s.th, d, lev, n) /\ lev[n] = Len(c) /\ Len(c) \in Nat \ {0} /\ d[n].L = L
        /\ ChainOK(c) /\ ~c[Len(c)].yp
    BY <1>1, ReadyStands, StandsAt
  <1>3. s.th[L].errfunc \in 0 .. Len(c) - 1
    BY <1>1, <1>2, HandlerBelow
  <1> HIDE DEF n, d
  <1>4. ~c[Len(c)].lua
    <2>1. CASE n = 1
      BY <1>2, <2>1 DEF LevelAt, ChainOK
    <2>2. CASE n > 1
      <3>1. Above(c, d[n - 1].fn, lev[n - 1], "cfun", Len(c))
        BY <1>2, <2>2 DEF LevelAt
      <3>2. QED
        BY <3>1 DEF Above
    <2>3. QED
      BY <1>2, <2>1, <2>2
  <1>5. ASSUME Nny(d, L, n) = 0
        PROVE  Len(c) > 1 /\ Continued(c, Len(c) - 1)
    <2>1. Continued(c, Len(c) - 1)
      BY <1>2, <1>5 DEF LevelAt, Keeping
    <2>2. n > 1
      <3>1. d[a].fn = "resume" /\ a > 1 /\ a \in 1 .. n
        <4>1. Nny(s.cs, L, Len(s.cs)) = 0 /\ s.cs[Len(s.cs)].fn = "cfun"
          BY <1>2, <1>5 DEF n, d
        <4>2. s.cs[a].fn = "resume" /\ a > 1
          BY <1>1, <4>1, NoPcall
        <4>3. a \in 1 .. Len(s.cs)
          BY <1>1 DEF Standing
        <4>4. QED
          BY <4>2, <4>3 DEF n, d
      <3>2. QED
        BY <1>2, <3>1
    <2>3. Above(c, d[n - 1].fn, lev[n - 1], "cfun", Len(c))
      BY <1>2, <2>2 DEF LevelAt
    <2>4. lev[n - 1] \in Nat \ {0}
      <3>1. n - 1 \in 1 .. n
        BY <1>2, <2>2
      <3>2. LevelAt(s.th, d, lev, n - 1)
        BY <1>1, <3>1 DEF Standing, Frames, d, n
      <3>3. QED
        BY <3>2 DEF LevelAt
    <2>5. Len(c) = lev[n - 1] + 1
      BY <2>3 DEF Above
    <2>6. QED
      BY <2>1, <2>4, <2>5
  <1>6. QED
    BY <1>2, <1>3, <1>4, <1>5 DEF n, d

(* luaD_pcall. *)
LEMMA PcallReady ==
  ASSUME NEW s, NEW L, Ready(s, L), TopOf(s).fn \in {"cfun", "parser"},
         ~s.th[L].ci[Len(s.th[L].ci)].lua, s.th[L].errfunc \in 0 .. Len(s.th[L].ci) - 1,
         NEW ef, ef = 0 \/ ef = Len(s.th[L].ci) \/ ef = s.th[L].errfunc,
         NEW v, v = LuaD_pcall(s, L, ef)
  PROVE  /\ Ready(v, L) /\ Len(v.cs) = Len(s.cs) + 2 /\ TopOf(v).fn = "raw"
         /\ v.cs[Len(s.cs) + 1].fn = "pcall" /\ v.cs[Len(s.cs)].fn = TopOf(s).fn
  <1> DEFINE e == [s EXCEPT !.th[L].errfunc = ef]
             f == [fn |-> "pcall", L |-> L, ci |-> Depth(s, L), nny |-> s.th[L].nny, nC |-> 0,
                   err |-> s.th[L].errfunc, jmp |-> 0, status |-> OK]
             p == Push(e, f)
             u == LuaD_rawrunprotected(p, L)
             c == s.th[L].ci
             up == s.th[L].up
             n == Len(s.cs)
  <1>1. /\ Shaped(s) /\ L \in Threads /\ s.th[L].nny \in Int /\ Active(s, L)
    BY ActiveFacts DEF Ready
  <1>2. [Frame("pcall", L) EXCEPT !.ci = Depth(s, L), !.nny = s.th[L].nny,
                                  !.err = s.th[L].errfunc] = f
    <2> DEFINE g == [Frame("pcall", L) EXCEPT !.ci = Depth(s, L)]
               h == [g EXCEPT !.nny = s.th[L].nny]
    <2>1. g = [fn |-> "pcall", L |-> L, ci |-> Depth(s, L), nny |-> 0, nC |-> 0, err |-> 0,
               jmp |-> 0, status |-> OK]
      BY DEF Frame
    <2> HIDE DEF g
    <2>2. h = [fn |-> "pcall", L |-> L, ci |-> Depth(s, L), nny |-> s.th[L].nny, nC |-> 0,
               err |-> 0, jmp |-> 0, status |-> OK]
      BY <2>1
    <2> HIDE DEF h
    <2>3. [h EXCEPT !.err = s.th[L].errfunc] = f
      BY <2>2
    <2>4. QED
      BY <2>3 DEF g, h
  <1>3. LuaD_pcall(s, L, ef) = u
    BY <1>2 DEF LuaD_pcall
  <1>4. /\ IsFrame(f) /\ f.L = L /\ f.status = OK /\ f.fn = "pcall" /\ f.nny = s.th[L].nny
        /\ f.ci = Len(c) /\ f.err = s.th[L].errfunc
    BY <1>1 DEF IsFrame, Statuses, Depth
  <1>5. /\ Active(e, L) /\ e.th[L].nny = s.th[L].nny /\ Shaped(e)
        /\ e.cs = s.cs /\ Edit(s, e, L, c, up, ef, s.th[L].status)
    <2>2. e = [s EXCEPT !.th[L].errfunc = ef]
      OBVIOUS
    <2> HIDE DEF e, f
    <2>1. Active(e, L) /\ e.th[L].nny = s.th[L].nny
      <3>1. Active(s, L)
        BY <1>1
      <3>2. \/ e = [s EXCEPT !.th[L].ci = ef] \/ e = [s EXCEPT !.th[L].up = ef]
            \/ e = [s EXCEPT !.th[L].errfunc = ef] \/ e = [s EXCEPT !.th[L].status = ef]
            \/ e = [s EXCEPT !.th[L].big = ef]
        BY <2>2
      <3>3. Active(e, L) /\ Local(s, e, L) /\ SameCounts(e.th[L], s.th[L])
        BY <3>1, <3>2, ActiveFields
      <3>4. QED
        BY <3>3 DEF SameCounts
    <2>3. Shaped(e)
      BY <2>1, ActiveFacts
    <2>4. e.cs = s.cs /\ Edit(s, e, L, s.th[L].ci, s.th[L].up, ef, s.th[L].status)
      <3>1. Shaped(s) /\ L \in Threads
        BY <1>1
      <3>2. QED
        BY ONLY <2>2, <3>1, EditErrfunc
    <2>5. QED
      BY <2>1, <2>3, <2>4
  <1> HIDE DEF e, f
  <1>6. Active(p, L) /\ Grown(s, p, f) /\ Edit(s, p, L, c, up, ef, s.th[L].status)
    <2> DEFINE r == e.th[L]
    <2>1. /\ IsThread(r) /\ r.nC \in Int /\ r.nC <= Limit /\ r.nny \in Int
          /\ e = With(e, L, r)
      BY <1>5, ActiveFacts, LocalSelf DEF Local
    <2> HIDE DEF r
    <2>2. /\ r.nny = e.th[L].nny + (IF f.fn \in {"noyield", "parser"} THEN 1 ELSE 0)
          /\ r.nC = e.th[L].nC + (IF f.fn = "call" THEN 1 ELSE 0)
          /\ r.jmp = e.th[L].jmp
      BY <1>4, <2>1 DEF r
    <2>3. f.fn \notin {"raw", "resume"} /\ (f.fn = "pcall" => f.nny = e.th[L].nny)
      BY <1>4, <1>5
    <2>4. Active(Push(With(e, L, r), f), L)
      BY <1>4, <1>5, <2>1, <2>2, <2>3, PushFrame
    <2>5. Active(p, L)
      BY <2>1, <2>4
    <2>6. p = Push(e, f)
      OBVIOUS
    <2> HIDE DEF p, c, up
    <2>7. Grown(s, p, f) /\ Edit(s, p, L, c, up, ef, s.th[L].status)
      BY <1>4, <1>5, <2>6, PushedEdit
    <2>8. QED
      BY <2>5, <2>7
  <1> HIDE DEF p
  <1>7. Ready(p, L)
    <2>1. f.ci = Len(s.th[L].ci) /\ Edit(s, p, L, s.th[L].ci, s.th[L].up, ef, s.th[L].status)
          /\ ef \in {0, Len(s.th[L].ci), s.th[L].errfunc}
      BY <1>4, <1>6
    <2>2. QED
      BY <1>4, <1>6, <2>1, PushPcall
  <1>8. TopOf(p) = f /\ Sound(p) /\ ~p.panic /\ p.th[L].nny = Nny(p.cs, L, Len(p.cs))
        /\ Len(p.cs) = n + 1 /\ p.cs[n] = TopOf(s) /\ n \in Nat \ {0} /\ L \in Threads
    <2>1. n \in Nat \ {0} /\ TopOf(s) = s.cs[n]
      BY SameChain
    <2>2. Sound(p) /\ ~p.panic /\ p.th[L].nny = Nny(p.cs, L, Len(p.cs))
      BY <1>1, <1>6, ActiveFacts DEF Active
    <2>3. Len(p.cs) = n + 1 /\ p.cs[n + 1] = f /\ p.cs[n] = s.cs[n]
      <3>1. n \in 1 .. Len(s.cs)
        BY <2>1
      <3>2. Grown(s, p, f)
        BY <1>6
      <3>3. QED
        BY ONLY <3>1, <3>2 DEF Grown
    <2>4. TopOf(p) = f
      BY <2>3 DEF TopOf
    <2>5. QED
      BY <1>1, <2>1, <2>2, <2>3, <2>4
  <1>9. /\ Sound(u) /\ ~u.panic /\ Len(u.cs) = Len(p.cs) + 1
        /\ TopOf(u).fn = "raw" /\ TopOf(u).L = L /\ TopOf(u).status = OK
        /\ \A i \in 1 .. Len(p.cs) : u.cs[i] = p.cs[i]
        /\ u.th[L] = [p.th[L] EXCEPT !.jmp = Len(p.cs) + 1]
        /\ \A t \in Threads : t # L => u.th[t] = p.th[t]
    <2>1. u = LuaD_rawrunprotected(p, L)
      OBVIOUS
    <2> HIDE DEF u
    <2>2. /\ TopOf(p).L = L /\ TopOf(p).fn \in {"pcall", "resume"}
          /\ TopOf(p).fn = "pcall" => TopOf(p).status = OK
          /\ p.th[L].nny = Nny(p.cs, L, Len(p.cs)) /\ Sound(p) /\ ~p.panic
      BY <1>4, <1>8
    <2>3. QED
      BY <2>1, <2>2, PushRaw
  <1>10. Active(u, L)
    BY <1>1, <1>3, Pcall
  <1> HIDE DEF u
  <1>11. Grown(p, u, TopOf(u))
    BY <1>9 DEF Grown, TopOf
  <1>12. Edit(p, u, L, p.th[L].ci, p.th[L].up, p.th[L].errfunc, p.th[L].status)
    <2>1. IsThread(p.th[L])
      BY <1>7, SameChain
    <2>2. SameThread(u.th[L], p.th[L])
      BY <1>9, <2>1 DEF IsThread, SameThread
    <2>3. QED
      BY <1>9, <2>2 DEF Edit, SameThread
  <1>13. Ready(u, L)
    <2> DEFINE g == TopOf(u)
               c2 == p.th[L].ci
    <2>1. ChainOK(c2) /\ Len(c2) = Len(p.th[L].ci) /\ Extends(p.th[L].ci, c2, Len(p.th[L].ci))
      BY <1>7, SameChain
    <2>2. /\ Grown(p, u, g) /\ g.L = L /\ g.fn = "raw" /\ g.status = OK
      BY <1>9, <1>11
    <2>3. Edit(p, u, L, c2, p.th[L].up, p.th[L].errfunc, p.th[L].status)
      BY <1>12
    <2>4. TopOf(p).fn = "pcall"
      BY <1>4, <1>8
    <2> HIDE DEF g, c2
    <2>5. QED
      BY <1>7, <1>10, <2>1, <2>2, <2>3, <2>4, PushSame
  <1>14. u.cs[n + 1] = f /\ u.cs[n] = TopOf(s) /\ Len(u.cs) = n + 2
    <2>1. p.cs[n + 1] = f
      BY <1>8 DEF TopOf
    <2>2. n \in 1 .. Len(p.cs) /\ n + 1 \in 1 .. Len(p.cs)
      BY <1>8
    <2>3. QED
      BY <1>8, <1>9, <2>1, <2>2, SMTT(20)
  <1>15. v = u
    BY <1>3
  <1> HIDE DEF f, n
  <1>16. QED
    BY <1>4, <1>8, <1>9, <1>13, <1>14, <1>15 DEF n

----------------------------------------------------------------------------
(* Returns to the caller. *)

(* Nothing has changed that the levels of the first m frames depend on. *)
LEMMA LevelsSame ==
  ASSUME NEW s, Sound(s), NEW m \in 1 .. Len(s.cs), Leveled(s.th, s.cs, m),
         NEW h2, \A t \in Threads : SameThread(h2[t], s.th[t]),
         NEW d2, SameRows(s.cs, d2, m), d2[m].status = s.cs[m].status
  PROVE  Leveled(h2, d2, m)
  <1> DEFINE d == s.cs
             L == d[m].L
             c == s.th[L].ci
  <1>1. Len(d) \in Nat \ {0} /\ StackOK(d) /\ \A i \in 1 .. Len(d) : d[i].L \in Threads
    BY Types DEF Sound
  <1>2. m \in Nat \ {0} /\ L \in Threads /\ m \in 1 .. m /\ \A i \in 1 .. m : i \in 1 .. Len(d)
    BY <1>1
  <1>3. PICK lev \in [1 .. m -> Nat] : LevelsOK(s.th, d, lev, m)
    BY DEF Leveled
  <1>4. (\A i \in 1 .. m : LevelAt(s.th, d, lev, i)) /\ TopLevel(s.th, d, lev, m)
        /\ ThreadsOK(s.th, d, m)
    BY <1>3 DEF LevelsOK, Leveled
  <1>5. \A i \in 1 .. m : FrameAt(d, i) /\ d[i].L \in Threads
    BY <1>1, <1>2 DEF StackOK
  <1>6. Frames(s.th, d, lev, m)
    BY <1>4, <1>5 DEF Frames
  <1>7. PICK a \in 1 .. m : Span(d, L, a, m)
    BY <1>2, <1>4, <1>5, Activation
  <1>8. ThreadOK(s.th, d, L, m)
    BY <1>2, <1>4 DEF ThreadsOK
  <1>9. h2[L].ci = c /\ h2[L].up = s.th[L].up /\ h2[L].errfunc = s.th[L].errfunc
        /\ h2[L].status = s.th[L].status
    BY <1>2 DEF SameThread
  <1>10. Len(c) \in Nat \ {0} /\ lev[m] \in 1 .. Len(c)
    <2>1. ThreadOK(s.th, d, L, m)
      BY <1>8
    <2>2. LevelAt(s.th, d, lev, m)
      BY <1>2, <1>4
    <2>3. lev[m] \in 1 .. Len(c)
      BY <2>2 DEF LevelAt
    <2> HIDE DEF L
    <2>4. ChainOK(c)
      BY <2>1 DEF ThreadOK
    <2> HIDE DEF c
    <2>5. Len(c) \in Nat \ {0}
      BY <2>4, ChainFacts
    <2>6. QED
      BY <2>3, <2>5
  <1>11. \A i \in 1 .. m : d2[i].fn = d[i].fn /\ d2[i].L = d[i].L /\ d2[i].ci = d[i].ci
    BY DEF SameRows
  <1>12. d2[m].status = d[m].status
    OBVIOUS
  <1> HIDE DEF d
  <1>13. Keeps(s.th, d, lev, L, a, m, h2, d2, lev)
    <2>1. Extends(c, h2[L].ci, lev[m])
      <3>1. h2[L].ci = c
        BY <1>9
      <3> HIDE DEF c, L
      <3>2. QED
        BY <1>10, <3>1 DEF Extends
    <2>2. SameRows(d, d2, m)
      BY DEF d
    <2>3. QED
      BY <2>1, <2>2 DEF Keeps
  <1>14. \A e : Pcalls(d2, L, m, e) = Pcalls(d, L, m, e)
    BY <1>11 DEF Pcalls
  <1>15. ThreadOK(h2, d2, L, m)
    <2> HIDE DEF L
    <2>1. QED
      BY <1>8, <1>9, <1>14 DEF ThreadOK, Justified
  <1> DEFINE lev2 == Placing(lev, m, m, 0, 0)
  <1>16. lev2[m] = lev[m]
    BY <1>2 DEF Placing
  <1>17. lev2 = Placing(lev, m, m, 0, 0)
    OBVIOUS
  <1> HIDE DEF lev2
  <1>18. TopLevel(h2, d2, lev2, m)
    <2>1. d2[m].L = L /\ d2[m].fn = d[m].fn /\ (m > 1 => d2[m - 1].fn = d[m - 1].fn)
      BY <1>2, <1>11
    <2>2. TopLevel(s.th, d, lev, m)
      BY <1>4
    <2>3. QED
      BY <1>9, <1>12, <1>16, <2>1, <2>2 DEF TopLevel
  <1>19. m \in Nat /\ m <= m /\ m \in a - 1 .. m /\ 0 \in Nat
         /\ \A i \in m + 1 .. m : LevelAt(h2, d2, lev2, i)
    BY <1>2
  <1> HIDE DEF L
  <1>20. QED
    BY <1>2, <1>4, <1>6, <1>7, <1>13, <1>15, <1>17, <1>18, <1>19, Rebuilt DEF d

(* A message handler stays justified by the frames below. *)
LEMMA StillJustified ==
  ASSUME NEW s, NEW u, Shrunk(s, u), Len(s.cs) \in Nat \ {0},
         NEW L, NEW e, s.cs[Len(s.cs)].fn # "pcall" \/ s.cs[Len(s.cs)].ci # e,
         NEW c, Justified(c, s.cs, L, Len(s.cs), e),
         NEW c2, e \in 1 .. Len(c) /\ c[e].yp => e \in 1 .. Len(c2) /\ c2[e].yp
  PROVE  Justified(c2, u.cs, L, Len(s.cs) - 1, e)
  <1> DEFINE n == Len(s.cs)
  <1>1. ASSUME NEW j \in Pcalls(s.cs, L, n, e)
        PROVE  j \in Pcalls(u.cs, L, n - 1, e)
    <2>1. j \in 1 .. n /\ s.cs[j].fn = "pcall" /\ s.cs[j].L = L /\ s.cs[j].ci = e
      BY DEF Pcalls
    <2>2. j \in 1 .. n - 1
      BY <2>1
    <2>3. u.cs[j].fn = "pcall" /\ u.cs[j].L = L /\ u.cs[j].ci = e
      BY <2>1, <2>2 DEF Shrunk, SameRows
    <2>4. QED
      BY <2>2, <2>3 DEF Pcalls
  <1>2. QED
    BY <1>1 DEF Justified

(* A frame at the level of its caller returns. *)
LEMMA PopSame ==
  ASSUME NEW s, NEW L, Ready(s, L),
         \/ TopOf(s).fn \in {"call", "noyield", "parser", "fparser", "error"}
         \/ TopOf(s).fn = "unroll" /\ Len(s.th[L].ci) = 1,
         NEW u, Shrunk(s, u), Active(u, L),
         Edit(s, u, L, s.th[L].ci, s.th[L].up, s.th[L].errfunc, s.th[L].status)
  PROVE  Ready(u, L)
  <1> DEFINE n == Len(s.cs)
             m == n - 1
             c == s.th[L].ci
             ef == s.th[L].errfunc
  <1>1. PICK lev, a : Standing(s, L, lev, a)
    BY ReadyStands
  <1>2. /\ n \in Nat \ {0} /\ L \in Threads /\ TopOf(s) = s.cs[n] /\ s.th[L].status = OK
        /\ ChainOK(c) /\ UpOK(c, s.th[L].up) /\ Extends(c, c, Len(c))
    BY SameChain
  <1>3. lev[n] = Len(c) /\ Justified(c, s.cs, L, n, ef)
    BY <1>1, ReadyStands, StandsAt
  <1>4. s.cs[n].fn \notin {"cfun", "resume", "execute", "ypcall", "pcall"}
    BY <1>2
  <1>5. /\ a < n /\ m \in Nat \ {0} /\ s.cs[m].L = L /\ lev[m] \in Nat \ {0} /\ lev[m] <= lev[n]
        /\ Above(c, s.cs[m].fn, lev[m], s.cs[n].fn, lev[n])
    BY <1>1, <1>4, Within
  <1>6. lev[m] = Len(c)
    <2>1. s.cs[n].fn = "unroll" => Len(c) = 1
      BY <1>2
    <2>2. s.cs[n].fn # "unroll" => lev[n] = lev[m]
      BY <1>4, <1>5 DEF Above
    <2>3. lev[m] \in Nat \ {0} /\ lev[m] <= lev[n] /\ lev[n] = Len(c) /\ Len(c) \in Nat
      BY <1>2, <1>3, <1>5, ChainFacts
    <2> HIDE DEF c, m, n
    <2>4. Len(c) = 1 => lev[m] = Len(c)
      BY <2>3
    <2>5. QED
      BY <2>1, <2>2, <2>3, <2>4
  <1>7. Justified(c, u.cs, L, m, ef)
    <2>1. \A e : e \in 1 .. Len(c) /\ c[e].yp => e \in 1 .. Len(c) /\ c[e].yp
      OBVIOUS
    <2>2. Len(s.cs) \in Nat \ {0} /\ s.cs[Len(s.cs)].fn # "pcall"
          /\ Justified(c, s.cs, L, Len(s.cs), ef)
      BY <1>2, <1>3, <1>4
    <2> HIDE DEF c, ef
    <2>3. Justified(c, u.cs, L, Len(s.cs) - 1, ef)
      BY <2>1, <2>2, StillJustified
    <2>4. QED
      BY <2>3
  <1>8. Len(u.cs) = m /\ u.cs[m].fn = s.cs[m].fn /\ u.cs[m].L = L
    <2>1. Len(u.cs) = m /\ SameRows(s.cs, u.cs, m)
      BY DEF Shrunk
    <2> HIDE DEF m
    <2>2. m \in 1 .. m
      BY <1>5
    <2>3. QED
      BY <1>5, <2>1, <2>2 DEF SameRows
  <1>9. u.cs[m].status = OK
    BY <1>8 DEF Active, TopOf
  <1>10. TopLevel(u.th, u.cs, lev, m)
    <2>1. u.th[L].ci = c /\ u.th[L].status = OK
      BY <1>2 DEF Edit
    <2>2. s.cs[m].fn = "cfun" => ~c[lev[m]].yp
      BY <1>4, <1>5 DEF Above
    <2>3. QED
      BY <1>6, <1>8, <1>9, <2>1, <2>2 DEF TopLevel, OK, YIELD
  <1>11. Leveled(u.th, u.cs, Len(u.cs))
    <2>1. Extends(s.th[L].ci, c, lev[Len(s.cs) - 1]) /\ (s.th[L].status = YIELD => Suspended(c))
      BY <1>2, <1>6 DEF OK, YIELD
    <2> HIDE DEF c, ef
    <2>2. Edit(s, u, L, c, s.th[L].up, ef, s.th[L].status)
      BY DEF c, ef
    <2>3. QED
      BY <1>1, <1>2, <1>5, <1>7, <1>10, <2>1, <2>2, FramePopped
  <1>12. QED
    BY <1>11 DEF Ready

LEMMA ReadyPlaced ==
  ASSUME NEW s, NEW L, Ready(s, L)
  PROVE  Placed(s) /\ Good(s)
  <1>1. Sound(s) /\ Good(s) /\ TopOf(s).status = OK /\ Leveled(s.th, s.cs, Len(s.cs))
    BY DEF Ready, Active, Good
  <1>2. OK # RESUME_ERROR
    BY DEF OK, RESUME_ERROR
  <1>3. QED
    BY <1>1, <1>2, Settled

LEMMA PopShrinks ==
  ASSUME NEW s, NEW b, Shaped(b), b.cs = s.cs, Len(s.cs) > 1, NEW u, u = Pop(b)
  PROVE  Shrunk(s, u) /\ u.th = b.th /\ u.panic = b.panic
  <1>1. /\ Len(u.cs) = Len(s.cs) - 1 /\ u.th = b.th /\ u.panic = b.panic
        /\ \A i \in 1 .. Len(s.cs) - 1 : u.cs[i] = s.cs[i]
    BY PopShaped
  <1>2. QED
    BY <1>1 DEF Shrunk, SameRows

(* Two activations of one thread that lie on each other. *)
LEMMA Caller ==
  ASSUME NEW s, NEW L, NEW lev, NEW a, Standing(s, L, lev, a),
         s.cs[Len(s.cs)].fn # "resume", Len(s.cs) > 1
  PROVE  LET n == Len(s.cs)
         IN  /\ a < n /\ n - 1 \in a .. n /\ n - 1 \in Nat \ {0} /\ s.cs[n - 1].L = L
             /\ lev[n - 1] \in Nat \ {0} /\ lev[n - 1] <= lev[n]
             /\ Above(s.th[L].ci, s.cs[n - 1].fn, lev[n - 1], s.cs[n].fn, lev[n])
  <1> DEFINE n == Len(s.cs)
             m == n - 1
  <1>1. /\ n \in Nat \ {0} /\ L = s.cs[n].L /\ Frames(s.th, s.cs, lev, n) /\ n > 1
        /\ a \in 1 .. n /\ Span(s.cs, L, a, n) /\ (a = 1 \/ s.cs[a].fn = "resume")
        /\ s.cs[n].fn # "resume"
    BY DEF Standing
  <1>2. LevelAt(s.th, s.cs, lev, n) /\ \A i \in 1 .. n : LevelAt(s.th, s.cs, lev, i)
    BY <1>1 DEF Frames
  <1> HIDE DEF n
  <1>3. a < n /\ m \in a .. n /\ m \in Nat \ {0} /\ n \in m .. n /\ n \in Nat
    <2>1. a # n
      BY <1>1
    <2>2. QED
      BY <1>1, <2>1
  <1>4. s.cs[m].L = L
    BY <1>1, <1>3 DEF Span
  <1>5. Above(s.th[L].ci, s.cs[m].fn, lev[m], s.cs[n].fn, lev[n])
    BY <1>1, <1>2 DEF LevelAt
  <1>6. lev[m] \in Nat \ {0} /\ lev[m] <= lev[n]
    <2> HIDE DEF m
    <2>1. QED
      BY <1>1, <1>2, <1>3, LevelsRise
  <1>7. QED
    BY <1>3, <1>4, <1>5, <1>6 DEF n

(* A function returns to the frame that has called it. *)
LEMMA Returned ==
  ASSUME NEW s, NEW L, Ready(s, L), Len(s.cs) > 1,
         \/ TopOf(s).fn = "cfun"
         \/ TopOf(s).fn = "execute" /\ s.th[L].ci[Len(s.th[L].ci)].fresh,
         NEW u, Shrunk(s, u), Active(u, L),
         NEW c2, c2 = SubSeq(s.th[L].ci, 1, Len(s.th[L].ci) - 1), NEW p2, UpOK(c2, p2),
         Edit(s, u, L, c2, p2, s.th[L].errfunc, s.th[L].status)
  PROVE  Ready(u, L)
  <1> DEFINE n == Len(s.cs)
             m == n - 1
             c == s.th[L].ci
             ef == s.th[L].errfunc
             x == Len(c)
  <1>1. PICK lev, a : Standing(s, L, lev, a)
    BY ReadyStands
  <1>2. /\ n \in Nat \ {0} /\ L \in Threads /\ TopOf(s) = s.cs[n] /\ s.th[L].status = OK
        /\ ChainOK(c) /\ x \in Nat \ {0} /\ (TopOf(s).fn = "cfun" => ~c[x].yp)
    BY SameChain
  <1>3. lev[n] = x /\ Justified(c, s.cs, L, n, ef)
    <2>1. TopOf(s).status = OK /\ TopOf(s) = s.cs[Len(s.cs)]
      BY ONLY Ready(s, L), ReadyStands
    <2>2. /\ s.cs[Len(s.cs)].status = OK => lev[Len(s.cs)] = Len(s.th[L].ci)
          /\ Justified(s.th[L].ci, s.cs, L, Len(s.cs), s.th[L].errfunc)
      BY ONLY <1>1, StandsAt
    <2>3. QED
      BY ONLY <2>1, <2>2
  <1>4. s.cs[n].fn \in {"cfun", "execute"}
    BY <1>2
  <1>5. /\ a < n /\ m \in Nat \ {0} /\ s.cs[m].L = L /\ lev[m] \in Nat \ {0} /\ lev[m] <= x
        /\ Above(c, s.cs[m].fn, lev[m], s.cs[n].fn, x)
    BY <1>1, <1>3, <1>4, Caller
  <1>6. x = lev[m] + 1 /\ s.cs[m].fn # "cfun" /\ (s.cs[n].fn = "execute" => c[x].lua)
    <2>1. s.cs[n].fn = "cfun" => x = lev[m] + 1
      BY <1>5 DEF Above
    <2>2. s.cs[n].fn = "execute" => x > lev[m] /\ c[x].fresh
          /\ \A l \in lev[m] + 1 .. x : c[l].lua /\ (c[l].fresh <=> l = lev[m] + 1)
      BY <1>2, <1>5 DEF Above
    <2>3. s.cs[m].fn \in Callers
      BY <1>4, <1>5 DEF Above
    <2> HIDE DEF x, c, m, n
    <2>4. s.cs[n].fn = "execute" => x \in lev[m] + 1 .. x
      BY <1>2, <1>5, <2>2
    <2>5. s.cs[m].fn # "cfun"
      BY <2>3 DEF Callers
    <2>6. QED
      BY <1>4, <2>1, <2>2, <2>4, <2>5
  <1>7. ~c[x].yp
    <2>1. x \in 1 .. Len(c)
      BY <1>2
    <2> HIDE DEF x
    <2>2. c[x].yp => ~c[x].lua
      BY <1>2, <2>1 DEF ChainOK
    <2>3. QED
      BY <1>2, <1>4, <1>6, <2>2
  <1>8. ChainOK(c2) /\ Len(c2) = lev[m] /\ Extends(c, c2, lev[m])
        /\ \A l \in 1 .. lev[m] : c2[l] = c[l]
    <2> DEFINE y == x - 1
    <2>1. y \in 1 .. Len(c) /\ y = lev[m] /\ c2 = SubSeq(c, 1, y)
      <3>1. c2 = SubSeq(c, 1, y) /\ x = Len(c)
        OBVIOUS
      <3>2. x \in Nat /\ lev[m] \in Nat \ {0} /\ x = lev[m] + 1
        BY <1>2, <1>5, <1>6
      <3> HIDE DEF x, c, m
      <3>3. QED
        BY ONLY <3>1, <3>2 DEF y
    <2> HIDE DEF y, c
    <2>2. ChainOK(c) /\ y \in 1 .. Len(c)
      BY <1>2, <2>1
    <2>3. c2 = SubSeq(c, 1, y) => /\ ChainOK(c2) /\ Len(c2) = y /\ Extends(c, c2, y)
                                  /\ \A l \in 1 .. y : c2[l] = c[l]
      BY ONLY <2>2, ChainCut
    <2>4. QED
      BY <2>1, <2>3
  <1>9. Justified(c2, u.cs, L, m, ef)
    <2>1. ASSUME ef \in 1 .. Len(c), c[ef].yp
          PROVE  ef \in 1 .. Len(c2) /\ c2[ef].yp
      <3>1. ef # x
        BY <1>7, <2>1
      <3>2. ef \in 1 .. lev[m]
        <4> HIDE DEF ef, c, m
        <4>1. QED
          BY <1>2, <1>5, <1>6, <2>1, <3>1
      <3>3. QED
        BY <1>8, <2>1, <3>2
    <2>2. Len(s.cs) \in Nat \ {0} /\ s.cs[Len(s.cs)].fn # "pcall"
          /\ Justified(c, s.cs, L, Len(s.cs), ef)
      BY <1>2, <1>3, <1>4
    <2>3. ef \in 1 .. Len(c) /\ c[ef].yp => ef \in 1 .. Len(c2) /\ c2[ef].yp
      BY <2>1
    <2> HIDE DEF c, ef
    <2>4. Justified(c2, u.cs, L, Len(s.cs) - 1, ef)
      BY <2>2, <2>3, StillJustified
    <2>5. QED
      BY <2>4
  <1>10. Len(u.cs) = m /\ SameRows(s.cs, u.cs, m)
    BY DEF Shrunk
  <1>11. u.cs[m].fn = s.cs[m].fn /\ u.cs[m].L = L
    <2> HIDE DEF m
    <2>1. m \in 1 .. m
      BY <1>5
    <2>2. QED
      BY <1>5, <1>10, <2>1 DEF SameRows
  <1>12. u.cs[m].status = OK
    BY <1>10 DEF Active, TopOf
  <1>13. TopLevel(u.th, u.cs, lev, m)
    <2>1. u.th[L].ci = c2 /\ u.th[L].status = OK
      BY <1>2 DEF Edit
    <2> HIDE DEF m
    <2>2. QED
      BY <1>6, <1>8, <1>11, <1>12, <2>1 DEF TopLevel, OK, YIELD
  <1>14. Leveled(u.th, u.cs, Len(u.cs))
    <2>1. Extends(s.th[L].ci, c2, lev[Len(s.cs) - 1]) /\ s.th[L].status # YIELD
      BY <1>2, <1>8 DEF OK, YIELD
    <2> HIDE DEF ef
    <2>2. Edit(s, u, L, c2, p2, ef, s.th[L].status)
      BY DEF ef
    <2>3. QED
      BY <1>1, <1>2, <1>5, <1>8, <1>9, <1>13, <2>1, <2>2, FramePopped
  <1>15. QED
    BY <1>14 DEF Ready

(* luaV_execute goes on in the function that has called the current one.   *)
LEMMA ReturnMoved ==
  ASSUME NEW s, NEW L, Ready(s, L), TopOf(s).fn = "execute",
         ~s.th[L].ci[Len(s.th[L].ci)].fresh, NEW u, u.cs = s.cs, Active(u, L),
         NEW c2, c2 = SubSeq(s.th[L].ci, 1, Len(s.th[L].ci) - 1), NEW p2, UpOK(c2, p2),
         Edit(s, u, L, c2, p2, s.th[L].errfunc, s.th[L].status)
  PROVE  Ready(u, L)
  <1> DEFINE n == Len(s.cs)
             m == n - 1
             c == s.th[L].ci
             ef == s.th[L].errfunc
             x == Len(c)
  <1>1. PICK lev, a : Standing(s, L, lev, a)
    BY ReadyStands
  <1>2. /\ n \in Nat \ {0} /\ L \in Threads /\ TopOf(s) = s.cs[n] /\ s.th[L].status = OK
        /\ ChainOK(c) /\ x \in Nat \ {0} /\ s.cs[n].fn = "execute"
    BY SameChain
  <1>3. /\ lev[n] = x /\ Justified(c, s.cs, L, n, ef) /\ LevelAt(s.th, s.cs, lev, n)
        /\ s.cs[n].L = L /\ s.cs[n].status = OK
    BY <1>1, <1>2, ReadyStands, StandsAt
  <1>4. /\ lev[m] \in Nat \ {0} /\ Above(c, s.cs[m].fn, lev[m], "execute", x)
    BY <1>1, <1>2, <1>3, Within
  <1>5. x > lev[m] /\ \A l \in lev[m] + 1 .. x : c[l].lua /\ (c[l].fresh <=> l = lev[m] + 1)
    BY <1>4 DEF Above
  <1>6. ~c[x].fresh
    OBVIOUS
  <1> DEFINE y == x - 1
  <1> HIDE DEF m
  <1>7. x \in lev[m] + 1 .. x /\ y > lev[m] /\ y \in 1 .. x /\ y \in Nat
        /\ \A l \in lev[m] + 1 .. y : l \in 1 .. y /\ l \in lev[m] + 1 .. x
    <2> HIDE DEF x, c
    <2>1. x \in lev[m] + 1 .. x
      BY <1>2, <1>4, <1>5
    <2>2. x # lev[m] + 1
      BY <1>5, <1>6, <2>1
    <2>3. QED
      BY <1>2, <1>4, <1>5, <2>1, <2>2
  <1>8. c[x].lua
    BY <1>5, <1>7
  <1>9. ~c[x].yp
    <2> HIDE DEF x
    <2>1. x \in 1 .. Len(c)
      BY <1>2 DEF x
    <2>2. QED
      BY <1>2, <1>8, <2>1 DEF ChainOK
  <1>10. /\ ChainOK(c2) /\ Len(c2) = y /\ Extends(c, c2, y) /\ \A l \in 1 .. y : c2[l] = c[l]
    <2>1. c2 = SubSeq(c, 1, y) /\ ChainOK(c) /\ y \in 1 .. Len(c)
      BY <1>2, <1>7
    <2> HIDE DEF y, c
    <2>2. QED
      BY ONLY <2>1, ChainCut
  <1> HIDE DEF y
  <1>11. Extends(c, c2, lev[m])
    <2>1. \A l \in 1 .. lev[m] : l \in 1 .. y
      BY <1>4, <1>7
    <2> HIDE DEF c, x
    <2>2. Len(c2) \in Nat /\ lev[m] <= Len(c2)
      BY ONLY <1>4, <1>7, <1>10
    <2>3. Extends(c, c2, y)
      BY <1>10
    <2>4. QED
      BY ONLY <2>1, <2>2, <2>3 DEF Extends
  <1>12. Justified(c2, s.cs, L, n, ef)
    <2>1. ef \in 1 .. Len(c) /\ c[ef].yp => ef \in 1 .. y
      <3>1. y = Len(c) - 1 /\ Len(c) \in Nat /\ ~c[Len(c)].yp
        BY <1>2, <1>9 DEF y
      <3> HIDE DEF c, ef
      <3>2. QED
        BY <3>1
    <2>2. ef \in 1 .. Len(c) /\ c[ef].yp => ef \in 1 .. Len(c2) /\ c2[ef].yp
      BY <1>10, <2>1
    <2> HIDE DEF c, ef
    <2>3. QED
      BY <1>3, <2>2 DEF Justified
  <1>13. Nny(s.cs, L, n) = 0 => Continued(c2, Len(c2))
    <2>1. Nny(s.cs, L, n) = 0 => Continued(c, x)
      BY <1>2, <1>3 DEF LevelAt, Keeping
    <2>2. \A l \in 2 .. y : l \in 2 .. x /\ l \in 1 .. y
      BY <1>2, <1>7
    <2> HIDE DEF c, x, n
    <2>3. Continued(c, x) => Continued(c2, Len(c2))
      BY <1>10, <2>2 DEF Continued
    <2>4. QED
      BY <2>1, <2>3
  <1>14. /\ Len(c2) > lev[m]
         /\ \A l \in lev[m] + 1 .. Len(c2) : c2[l].lua /\ (c2[l].fresh <=> l = lev[m] + 1)
    <2> HIDE DEF c, x
    <2>1. QED
      BY <1>5, <1>7, <1>10
  <1>15. Leveled(u.th, u.cs, Len(u.cs))
    <2>1. /\ Extends(s.th[L].ci, c2, lev[Len(s.cs) - 1]) /\ s.cs[Len(s.cs)].status = OK
          /\ s.cs[Len(s.cs)].fn \in {"execute", "unroll"}
          /\ Justified(c2, s.cs, L, Len(s.cs), ef)
          /\ Nny(s.cs, L, Len(s.cs)) = 0 => Continued(c2, Len(c2))
          /\ s.cs[Len(s.cs)].fn = "execute" =>
                /\ Len(c2) > lev[Len(s.cs) - 1]
                /\ \A l \in lev[Len(s.cs) - 1] + 1 .. Len(c2) :
                      c2[l].lua /\ (c2[l].fresh <=> l = lev[Len(s.cs) - 1] + 1)
      BY <1>2, <1>3, <1>11, <1>12, <1>13, <1>14 DEF m
    <2>2. Edit(s, u, L, c2, p2, ef, OK)
      BY <1>2
    <2> HIDE DEF c, ef
    <2>3. QED
      BY <1>1, <1>10, <2>1, <2>2, FrameMoved
  <1>16. QED
    BY <1>15 DEF Ready

(* luaD_poscall, after luaF_close for a Lua function. *)
LEMMA Leaves ==
  ASSUME NEW s, NEW L, Ready(s, L), NEW w,
         \/ w = LuaF_close(s, L, Depth(s, L))
         \/ w = s /\ ~s.th[L].ci[Len(s.th[L].ci)].lua,
         Len(s.th[L].ci) > 1, NEW t, t = LuaD_poscall(w, L)
  PROVE  LET c2 == SubSeq(s.th[L].ci, 1, Len(s.th[L].ci) - 1)
         IN  /\ t.cs = s.cs /\ Active(t, L)
             /\ UpOK(c2, t.th[L].up)
             /\ Edit(s, t, L, c2, t.th[L].up, s.th[L].errfunc, s.th[L].status)
  <1> DEFINE c == s.th[L].ci
             x == Len(c)
             c2 == SubSeq(c, 1, x - 1)
             up == s.th[L].up
             up2 == {v \in up : v < x}
  <1>1. /\ ChainOK(c) /\ UpOK(c, up) /\ x \in Nat \ {0} /\ L \in Threads /\ Shaped(s)
        /\ Active(s, L) /\ x > 1
    BY SameChain DEF Ready
  <1>2. Active(LuaF_close(s, L, Depth(s, L)), L)
    BY <1>1, Close
  <1>3. Active(w, L) /\ Shaped(w)
    BY <1>1, <1>2, ActiveFacts
  <1>4. Active(t, L)
    BY <1>3, Poscall
  <1>5. \A v \in up : v \in 1 .. x /\ c[v].lua
    BY <1>1 DEF UpOK
  <1>6. /\ w.cs = s.cs /\ \E p2 : /\ \A v \in p2 : v \in up /\ v # x
                                  /\ Edit(s, w, L, c, p2, s.th[L].errfunc, s.th[L].status)
    <2>1. ASSUME w = LuaF_close(s, L, Depth(s, L))
          PROVE  w.cs = s.cs /\ Edit(s, w, L, c, up2, s.th[L].errfunc, s.th[L].status)
      <3>1. w = [s EXCEPT !.th[L].up = up2]
        BY <2>1 DEF LuaF_close, Depth
      <3>2. Shaped(s) /\ L \in Threads
        BY <1>1
      <3> HIDE DEF up2
      <3>3. /\ w.cs = s.cs
            /\ Edit(s, w, L, s.th[L].ci, up2, s.th[L].errfunc, s.th[L].status)
        BY ONLY <3>1, <3>2, EditUp
      <3>4. QED
        BY <3>3
    <2>2. \A v \in up2 : v \in up /\ v # x
      <3>1. \A v \in up : v \in Nat
        BY <1>5
      <3> HIDE DEF x, up
      <3>2. QED
        BY <1>1, <3>1
    <2>3. ASSUME w = s, ~c[x].lua
          PROVE  w.cs = s.cs /\ Edit(s, w, L, c, up, s.th[L].errfunc, s.th[L].status)
                 /\ \A v \in up : v \in up /\ v # x
      BY <1>5, <2>3 DEF Edit, SameThread
    <2>4. CASE w = LuaF_close(s, L, Depth(s, L))
      <3> HIDE DEF up2, c, up, x
      <3>1. QED
        BY <2>1, <2>2, <2>4
    <2>5. CASE w = s /\ ~c[x].lua
      <3> HIDE DEF c, up, x
      <3>1. QED
        BY <2>3, <2>5
    <2>6. QED
      BY <2>4, <2>5
  <1>7. PICK p2 : /\ \A v \in p2 : v \in up /\ v # x
                  /\ Edit(s, w, L, c, p2, s.th[L].errfunc, s.th[L].status)
    BY <1>6
  <1>8. w.th[L].ci = c /\ w.th[L].up = p2 /\ w.th[L].errfunc = s.th[L].errfunc
        /\ w.th[L].status = s.th[L].status
    BY <1>7 DEF Edit
  <1>9. t.cs = w.cs /\ Edit(w, t, L, c2, w.th[L].up, w.th[L].errfunc, w.th[L].status)
    <2>1. t = [w EXCEPT !.th[L].ci = SubSeq(w.th[L].ci, 1, Len(w.th[L].ci) - 1)]
      BY DEF LuaD_poscall
    <2>2. SubSeq(w.th[L].ci, 1, Len(w.th[L].ci) - 1) = c2
      BY <1>8
    <2> HIDE DEF c2
    <2>3. t = [w EXCEPT !.th[L].ci = c2]
      BY <2>1, <2>2
    <2>4. QED
      BY <1>1, <1>3, <2>3, EditCi
  <1>10. ChainOK(c2) /\ Len(c2) = x - 1 /\ \A l \in 1 .. x - 1 : c2[l] = c[l]
    <2> DEFINE y == x - 1
    <2>1. ChainOK(c) /\ c2 = SubSeq(c, 1, y)
      BY <1>1
    <2> HIDE DEF c, c2
    <2>2. y \in 1 .. Len(c)
      BY <1>1
    <2> HIDE DEF y
    <2>3. ChainOK(c2) /\ Len(c2) = y /\ \A l \in 1 .. y : c2[l] = c[l]
      BY ONLY <2>1, <2>2, ChainCut
    <2>4. QED
      BY <2>3 DEF y
  <1> HIDE DEF c2
  <1>11. UpOK(c2, p2)
    <2>1. ASSUME NEW v \in p2
          PROVE  v \in 1 .. x - 1 /\ c[v].lua
      <3>1. v \in 1 .. x /\ v # x /\ c[v].lua
        BY <1>5, <1>7
      <3> HIDE DEF x, c
      <3>2. QED
        BY <1>1, <3>1
    <2>2. QED
      BY <1>10, <2>1 DEF UpOK
  <1>12. Edit(s, t, L, c2, p2, s.th[L].errfunc, s.th[L].status) /\ t.th[L].up = p2
    <2>1. Edit(w, t, L, c2, p2, s.th[L].errfunc, s.th[L].status)
      BY <1>8, <1>9
    <2>2. Edit(s, t, L, c2, p2, s.th[L].errfunc, s.th[L].status)
      BY <1>7, <2>1, EditAgain
    <2>3. QED
      BY <2>1, <2>2 DEF Edit
  <1>13. QED
    BY <1>4, <1>6, <1>9, <1>11, <1>12 DEF c2

(* luaV_execute runs a Lua function that something has called. *)
LEMMA Executing ==
  ASSUME NEW s, NEW L, Ready(s, L), TopOf(s).fn = "execute"
  PROVE  LET c == s.th[L].ci
         IN  /\ Len(s.cs) > 1 /\ Len(c) > 1 /\ c[Len(c)].lua
             /\ Nny(s.cs, L, Len(s.cs)) = 0 => Continued(c, Len(c))
             /\ \E lev, a : /\ Standing(s, L, lev, a) /\ lev[Len(s.cs) - 1] \in Nat \ {0}
                            /\ lev[Len(s.cs) - 1] < Len(c)
                            /\ \A l \in lev[Len(s.cs) - 1] + 1 .. Len(c) :
                                  c[l].lua /\ (c[l].fresh <=> l = lev[Len(s.cs) - 1] + 1)
  <1> DEFINE n == Len(s.cs)
             m == n - 1
             c == s.th[L].ci
             x == Len(c)
  <1>1. PICK lev, a : Standing(s, L, lev, a)
    BY ReadyStands
  <1>2. /\ n \in Nat \ {0} /\ L \in Threads /\ TopOf(s) = s.cs[n]
        /\ ChainOK(c) /\ x \in Nat \ {0} /\ s.cs[n].fn = "execute"
    BY SameChain
  <1>3. /\ lev[n] = x /\ LevelAt(s.th, s.cs, lev, n) /\ s.cs[n].L = L
    BY <1>1, <1>2, ReadyStands, StandsAt
  <1>4. /\ lev[m] \in Nat \ {0} /\ Above(c, s.cs[m].fn, lev[m], "execute", x) /\ n > 1
    BY <1>1, <1>2, <1>3, Within
  <1>5. x > lev[m] /\ \A l \in lev[m] + 1 .. x : c[l].lua /\ (c[l].fresh <=> l = lev[m] + 1)
    BY <1>4 DEF Above
  <1>6. Nny(s.cs, L, n) = 0 => Continued(c, x)
    BY <1>2, <1>3 DEF LevelAt, Keeping
  <1> HIDE DEF c, m, n, x
  <1>7. x > 1 /\ x \in lev[m] + 1 .. x
    BY <1>2, <1>4, <1>5
  <1>8. c[x].lua
    BY <1>5, <1>7
  <1>9. lev[m] < x
    BY <1>2, <1>4, <1>5
  <1>10. QED
    BY <1>1, <1>4, <1>5, <1>6, <1>7, <1>8, <1>9 DEF c, m, n, x

(* The program's own C code is the only function that nobody has called. *)
LEMMA CalledC ==
  ASSUME NEW s, NEW L, Ready(s, L), TopOf(s).fn = "cfun", Len(s.cs) > 1
  PROVE  Len(s.th[L].ci) > 1
  <1> DEFINE n == Len(s.cs)
             m == n - 1
             c == s.th[L].ci
             x == Len(c)
  <1>1. PICK lev, a : Standing(s, L, lev, a)
    BY ReadyStands
  <1>2. TopOf(s) = s.cs[n] /\ s.cs[n].fn = "cfun"
    BY SameChain
  <1>3. lev[n] = x
    BY <1>1, <1>2, ReadyStands, StandsAt
  <1>4. lev[m] \in Nat \ {0} /\ Above(c, s.cs[m].fn, lev[m], "cfun", x)
    BY <1>1, <1>2, <1>3, Caller
  <1>5. x = lev[m] + 1
    BY <1>4 DEF Above
  <1> HIDE DEF m
  <1>6. QED
    BY <1>4, <1>5

(* A Lua function called by luaV_execute runs in the same frame. *)
LEMMA CalledLua ==
  ASSUME NEW s, NEW L, Ready(s, L), TopOf(s).fn = "execute",
         NEW u, u = [s EXCEPT !.th[L].ci = Append(@, CI(TRUE))]
  PROVE  Ready(u, L)
  <1> DEFINE n == Len(s.cs)
             m == n - 1
             c == s.th[L].ci
             x == Len(c)
             ef == s.th[L].errfunc
             c2 == Append(c, CI(TRUE))
  <1>1. PICK lev, a : /\ Standing(s, L, lev, a) /\ lev[m] \in Nat \ {0} /\ lev[m] < x
                      /\ \A l \in lev[m] + 1 .. x : c[l].lua /\ (c[l].fresh <=> l = lev[m] + 1)
    BY Executing
  <1>2. Nny(s.cs, L, n) = 0 => Continued(c, x)
    BY Executing
  <1>3. /\ ChainOK(c) /\ IsSequence(c) /\ x \in Nat \ {0} /\ UpOK(c, s.th[L].up)
        /\ s.th[L].status = OK /\ L \in Threads /\ Shaped(s) /\ TopOf(s) = s.cs[n]
        /\ Active(s, L) /\ TopOf(s).status = OK
    BY SameChain DEF Ready, Active
  <1>4. Justified(c, s.cs, L, n, ef)
    BY <1>1, StandsAt
  <1>5. /\ IsSequence(c2) /\ Len(c2) = x + 1 /\ c2[x + 1] = CI(TRUE)
        /\ \A l \in 1 .. x : c2[l] = c[l]
    <2>1. IsSequence(c)
      BY <1>3
    <2> DEFINE r == CI(TRUE)
    <2> HIDE DEF c, r
    <2>2. /\ IsSequence(Append(c, r)) /\ Len(Append(c, r)) = Len(c) + 1
          /\ Append(c, r)[Len(c) + 1] = r
          /\ \A l \in 1 .. Len(c) : Append(c, r)[l] = c[l]
      BY ONLY <2>1, Appended
    <2>3. QED
      BY <2>2 DEF r
  <1>6. u = [s EXCEPT !.th[L].ci = c2]
    OBVIOUS
  <1> HIDE DEF c2
  <1>7. Active(u, L)
    <2>1. \/ u = [s EXCEPT !.th[L].ci = c2] \/ u = [s EXCEPT !.th[L].up = c2]
          \/ u = [s EXCEPT !.th[L].errfunc = c2] \/ u = [s EXCEPT !.th[L].status = c2]
          \/ u = [s EXCEPT !.th[L].big = c2]
      BY <1>6
    <2>2. QED
      BY ONLY <1>3, <2>1, ActiveFields
  <1>8. u.cs = s.cs /\ Edit(s, u, L, c2, s.th[L].up, s.th[L].errfunc, s.th[L].status)
    BY ONLY <1>3, <1>6, EditCi
  <1>9. IsCI(CI(TRUE)) /\ ~CI(TRUE).yp /\ CI(TRUE).lua /\ ~CI(TRUE).fresh
    BY NewCI
  <1>10. ChainOK(c2) /\ Extends(c, c2, x)
    BY <1>3, <1>5, <1>9, ChainMore
  <1> HIDE DEF c, m, n, ef
  <1>11. UpOK(c2, s.th[L].up) /\ Justified(c2, s.cs, L, n, ef)
    <2>1. \A l \in 1 .. Len(c) : l \in 1 .. Len(c2) /\ c2[l] = c[l]
      BY <1>3, <1>5
    <2>2. QED
      BY <1>3, <1>4, <2>1 DEF UpOK, Justified
  <1>12. Extends(c, c2, lev[m])
    <2>1. \A l \in 1 .. lev[m] : l \in 1 .. x
      BY <1>1, <1>3
    <2>2. lev[m] <= Len(c2)
      BY <1>1, <1>3, <1>5
    <2>3. QED
      BY <1>10, <2>1, <2>2 DEF Extends
  <1>13. Nny(s.cs, L, n) = 0 => Continued(c2, Len(c2))
    <2>1. ASSUME Continued(c, x), NEW l \in 2 .. x + 1
          PROVE  c2[l].lua \/ c2[l].k
      <3>1. l = x + 1 \/ l \in 2 .. x
        BY <1>3
      <3>2. \A j \in 2 .. x : j \in 1 .. x
        BY <1>3
      <3>3. QED
        BY <1>5, <1>9, <2>1, <3>1, <3>2 DEF Continued
    <2>2. QED
      BY <1>2, <1>5, <2>1 DEF Continued
  <1>14. /\ Len(c2) > lev[m]
         /\ \A l \in lev[m] + 1 .. Len(c2) : c2[l].lua /\ (c2[l].fresh <=> l = lev[m] + 1)
    <2>1. ASSUME NEW l \in lev[m] + 1 .. x + 1
          PROVE  c2[l].lua /\ (c2[l].fresh <=> l = lev[m] + 1)
      <3>1. l = x + 1 \/ l \in lev[m] + 1 .. x
        BY <1>1, <1>3
      <3>2. x + 1 # lev[m] + 1 /\ \A j \in lev[m] + 1 .. x : j \in 1 .. x
        BY <1>1, <1>3
      <3>3. QED
        BY <1>1, <1>5, <1>9, <3>1, <3>2
    <2>2. Len(c2) > lev[m]
      BY <1>1, <1>3, <1>5
    <2>3. QED
      BY <1>5, <2>1, <2>2
  <1>15. Leveled(u.th, u.cs, Len(u.cs))
    <2>1. /\ Extends(s.th[L].ci, c2, lev[Len(s.cs) - 1]) /\ s.cs[Len(s.cs)].status = OK
          /\ s.cs[Len(s.cs)].fn \in {"execute", "unroll"}
          /\ Justified(c2, s.cs, L, Len(s.cs), ef)
          /\ Nny(s.cs, L, Len(s.cs)) = 0 => Continued(c2, Len(c2))
          /\ s.cs[Len(s.cs)].fn = "execute" =>
                /\ Len(c2) > lev[Len(s.cs) - 1]
                /\ \A l \in lev[Len(s.cs) - 1] + 1 .. Len(c2) :
                      c2[l].lua /\ (c2[l].fresh <=> l = lev[Len(s.cs) - 1] + 1)
      BY <1>3, <1>11, <1>12, <1>13, <1>14 DEF m, n, c
    <2>2. Edit(s, u, L, c2, s.th[L].up, ef, OK)
      BY <1>3, <1>8 DEF ef
    <2>3. QED
      BY <1>1, <1>8, <1>10, <1>11, <2>1, <2>2, FrameMoved
  <1>16. QED
    BY <1>7, <1>15 DEF Ready

(* Upvalues are closed. *)
LEMMA Closed ==
  ASSUME NEW s, NEW L, Ready(s, L), NEW level
  PROVE  /\ Ready(LuaF_close(s, L, level), L) /\ LuaF_close(s, L, level).cs = s.cs
         /\ LuaF_close(s, L, level).th[L].ci = s.th[L].ci
  <1> DEFINE c == s.th[L].ci
             up2 == {v \in s.th[L].up : v < level}
             w == LuaF_close(s, L, level)
  <1>1. /\ ChainOK(c) /\ Extends(c, c, Len(c)) /\ UpOK(c, s.th[L].up)
        /\ L \in Threads /\ Shaped(s) /\ Active(s, L)
    BY SameChain DEF Ready
  <1>2. Active(w, L)
    BY <1>1, Close
  <1>3. w = [s EXCEPT !.th[L].up = up2]
    BY DEF LuaF_close
  <1>4. UpOK(c, up2)
    BY <1>1 DEF UpOK
  <1> HIDE DEF up2, w
  <1>5. w.cs = s.cs /\ Edit(s, w, L, s.th[L].ci, up2, s.th[L].errfunc, s.th[L].status)
    BY ONLY <1>1, <1>3, EditUp
  <1>6. Len(c) = Len(s.th[L].ci) /\ Extends(s.th[L].ci, c, Len(s.th[L].ci))
        /\ Edit(s, w, L, c, up2, s.th[L].errfunc, s.th[L].status)
    BY <1>1, <1>5
  <1> HIDE DEF c
  <1>7. Active(w, L) => Ready(w, L)
    BY <1>1, <1>4, <1>5, <1>6, Stays
  <1>8. QED
    BY <1>2, <1>5, <1>7 DEF w, Edit

----------------------------------------------------------------------------
(* What an action leaves. *)

LEMMA LevelsBecome ==
  ASSUME NEW s, Placed(s), Good(s), Become(s)
  PROVE  LevelsInv'
  <1>1. s = [th |-> s.th, cs |-> s.cs, panic |-> s.panic]
    BY DEF Good, Sound, Shaped
  <1>2. State' = s
    BY <1>1 DEF Become, State
  <1>3. QED
    BY <1>2 DEF LevelsInv

LEMMA LevelsRun ==
  ASSUME NEW L, CallsInv, LevelsInv, ~panic, Top.L = L,
         Top.fn \notin {"raw", "pcall", "resume"}
  PROVE  Ready(State, L) /\ TopOf(State) = Top
  <1>1. Active(State, L) /\ TopOf(State) = Top /\ State.panic = panic
    BY Runs, Fields
  <1>2. TopOf(State).status # RESUME_ERROR
    BY <1>1 DEF Active, OK, RESUME_ERROR
  <1>3. LiveLen(State.cs) = Len(State.cs)
    BY <1>2 DEF LiveLen, TopOf
  <1>4. Leveled(State.th, State.cs, Len(State.cs))
    BY <1>1, <1>3 DEF LevelsInv, Placed
  <1>5. QED
    BY <1>1, <1>4 DEF Ready

(* A frame that nothing is counted for, at the level of its caller. *)
LEMMA PushesPlain ==
  ASSUME NEW s, NEW L, Ready(s, L), NEW fn \in {"fparser", "error", "errormsg"}, Free(s, fn),
         NEW u, u = Push(s, Frame(fn, L))
  PROVE  Ready(u, L) /\ TopOf(u).fn = fn
  <1>1. Active(u, L) /\ Shaped(s)
    BY PushPlain, SameChain DEF Ready
  <1>2. Edit(s, s, L, s.th[L].ci, s.th[L].up, s.th[L].errfunc, s.th[L].status)
    BY DEF Edit, SameThread
  <1>3. fn # "call"
    OBVIOUS
  <1>4. QED
    BY <1>1, <1>2, <1>3, Pushes

LEMMA PushError ==
  ASSUME NEW s, NEW L, Ready(s, L), TopOf(s).fn \in {"execute", "cfun"},
         NEW u, u = Push(s, Frame("error", L))
  PROVE  Ready(u, L)
  <1>1. Free(s, "error")
    BY DEF Free
  <1>2. QED
    BY <1>1, PushesPlain

LEMMA PopsPlain ==
  ASSUME NEW s, NEW L, Ready(s, L),
         \/ TopOf(s).fn \in {"fparser", "error"}
         \/ TopOf(s).fn = "unroll" /\ Len(s.th[L].ci) = 1,
         NEW u, u = Pop(s)
  PROVE  /\ Ready(u, L) /\ Len(s.cs) > 1 /\ Len(u.cs) = Len(s.cs) - 1
         /\ \A i \in 1 .. Len(s.cs) - 1 : u.cs[i] = s.cs[i]
  <1>1. Active(s, L) /\ Shaped(s) /\ Sound(s)
    BY ActiveFacts DEF Ready
  <1>2. Len(s.cs) > 1
    BY <1>1, NotAlone
  <1>3. TopOf(s).fn \notin {"raw", "resume", "noyield", "parser", "call", "pcall"}
    OBVIOUS
  <1>4. Active(u, L)
    BY <1>1, <1>2, <1>3, PopPlain
  <1>5. /\ Shrunk(s, u) /\ u.th = s.th /\ Len(u.cs) = Len(s.cs) - 1
        /\ \A i \in 1 .. Len(s.cs) - 1 : u.cs[i] = s.cs[i]
    BY <1>1, <1>2, PopShrinks, PopShaped
  <1>6. Edit(s, u, L, s.th[L].ci, s.th[L].up, s.th[L].errfunc, s.th[L].status)
    BY <1>5 DEF Edit, SameThread
  <1>7. Ready(u, L)
    BY <1>4, <1>5, <1>6, PopSame
  <1>8. QED
    BY <1>2, <1>5, <1>7

(* The handler may run where the error was raised. *)
LEMMA PopError ==
  ASSUME NEW s, NEW L, Ready(s, L), TopOf(s).fn = "error", NEW u, u = Pop(s)
  PROVE  Ready(u, L) /\ Free(u, "errormsg")
  <1> DEFINE n == Len(s.cs)
             m == n - 1
  <1>1. /\ Ready(u, L) /\ n > 1 /\ Len(u.cs) = m
        /\ \A i \in 1 .. m : u.cs[i] = s.cs[i]
    BY PopsPlain
  <1>2. PICK lev, a : Standing(s, L, lev, a)
    BY ReadyStands
  <1>3. n \in Nat \ {0} /\ s.cs[n].fn = "error" /\ LevelAt(s.th, s.cs, lev, n)
    BY <1>2, SameChain, StandsAt
  <1> HIDE DEF n
  <1>4. m \in Nat \ {0} /\ m \in 1 .. m
    BY <1>1, <1>3
  <1>5. TopOf(u) = s.cs[m]
    BY <1>1, <1>4 DEF TopOf
  <1>6. s.cs[m].fn # "pcall"
    <2>1. Above(s.th[s.cs[n].L].ci, s.cs[m].fn, lev[m], "error", lev[n])
      BY <1>1, <1>3 DEF LevelAt
    <2>2. QED
      BY <2>1 DEF Above
  <1>7. m > 2 /\ s.cs[m].fn = "raw" /\ u.cs[m - 1].fn = "pcall" => u.cs[m - 2].fn = "parser"
    <2>1. m > 2 => /\ m - 1 \in 1 .. m /\ m - 2 \in 1 .. m /\ n > 3
                   /\ m - 1 = n - 2 /\ m - 2 = n - 3
      BY <1>3, <1>4
    <2>2. n > 3 /\ s.cs[n - 1].fn = "raw" /\ s.cs[n - 2].fn = "pcall" => s.cs[n - 3].fn = "parser"
      BY <1>3 DEF LevelAt
    <2>3. QED
      BY <1>1, <2>1, <2>2
  <1>8. QED
    BY <1>1, <1>5, <1>6, <1>7 DEF Free

----------------------------------------------------------------------------
(* Lua code. *)

LEMMA CallLevels ==
  ASSUME NEW L, CallsInv, LevelsInv, OP_CALL(L)
  PROVE  LevelsInv'
  <1> DEFINE s == State
  <1>1. Ready(s, L) /\ TopOf(s).fn = "execute" /\ TopOf(s) = s.cs[Len(s.cs)]
    BY LevelsRun, SameChain DEF OP_CALL, Running
  <1>2. PICK lua \in BOOLEAN : Become(LuaD_precall(s, L, lua))
    BY DEF OP_CALL
  <1> HIDE DEF s
  <1>3. Good(LuaD_precall(s, L, lua))
    BY <1>1, Precall DEF Ready
  <1>4. Placed(LuaD_precall(s, L, lua))
    <2>1. CASE lua /\ StackFits(s, L)
      <3> DEFINE u == [s EXCEPT !.th[L].ci = Append(@, CI(TRUE))]
      <3>1. LuaD_precall(s, L, lua) = u
        BY <2>1 DEF LuaD_precall
      <3>2. u = [s EXCEPT !.th[L].ci = Append(@, CI(TRUE))]
        OBVIOUS
      <3> HIDE DEF u
      <3>3. Ready(u, L)
        BY <1>1, <3>2, CalledLua
      <3>4. QED
        BY <3>1, <3>3, ReadyPlaced
    <2>2. CASE ~(lua /\ StackFits(s, L))
      <3>1. PrecallAndExecute(s, L, lua) = LuaD_precall(s, L, lua)
        BY <2>2 DEF PrecallAndExecute
      <3>2. Enters(s)
        BY <1>1 DEF Enters
      <3>3. Placed(PrecallAndExecute(s, L, lua))
        BY <1>1, <3>2, Precalls
      <3>4. QED
        BY <3>1, <3>3
    <2>3. QED
      BY <2>1, <2>2
  <1>5. QED
    BY <1>2, <1>3, <1>4, LevelsBecome

(* A tail call ends where it began. *)
LEMMA TailCalled ==
  ASSUME NEW s, NEW L, Ready(s, L),
         NEW t, t = [s EXCEPT !.th[L].ci = Append(@, CI(TRUE))], NEW p, p = LuaD_poscall(t, L)
  PROVE  Ready(p, L)
  <1> DEFINE c == s.th[L].ci
             c1 == Append(c, CI(TRUE))
             c2 == SubSeq(c1, 1, Len(c1) - 1)
  <1>1. /\ ChainOK(c) /\ IsSequence(c) /\ Len(c) \in Nat \ {0} /\ UpOK(c, s.th[L].up)
        /\ L \in Threads /\ Shaped(s) /\ Active(s, L)
    BY SameChain DEF Ready
  <1>2. /\ IsSequence(c1) /\ Len(c1) = Len(c) + 1 /\ c1[Len(c) + 1] = CI(TRUE)
        /\ \A l \in 1 .. Len(c) : c1[l] = c[l]
    <2>1. IsSequence(c)
      BY <1>1
    <2> DEFINE r == CI(TRUE)
    <2> HIDE DEF c, r
    <2>2. /\ IsSequence(Append(c, r)) /\ Len(Append(c, r)) = Len(c) + 1
          /\ Append(c, r)[Len(c) + 1] = r
          /\ \A l \in 1 .. Len(c) : Append(c, r)[l] = c[l]
      BY ONLY <2>1, Appended
    <2>3. QED
      BY <2>2 DEF r
  <1>3. t = [s EXCEPT !.th[L].ci = c1]
    OBVIOUS
  <1> HIDE DEF c1
  <1>4. Active(t, L) /\ Shaped(t)
    <2>1. \/ t = [s EXCEPT !.th[L].ci = c1] \/ t = [s EXCEPT !.th[L].up = c1]
          \/ t = [s EXCEPT !.th[L].errfunc = c1] \/ t = [s EXCEPT !.th[L].status = c1]
          \/ t = [s EXCEPT !.th[L].big = c1]
      BY <1>3
    <2>2. Active(t, L)
      BY ONLY <1>1, <2>1, ActiveFields
    <2>3. QED
      BY <2>2, ActiveFacts
  <1>5. Active(p, L)
    BY <1>4, Poscall
  <1>6. t.cs = s.cs /\ Edit(s, t, L, c1, s.th[L].up, s.th[L].errfunc, s.th[L].status)
    BY ONLY <1>1, <1>3, EditCi, SMTT(20)
  <1>7. t.th[L].ci = c1 /\ t.th[L].up = s.th[L].up /\ t.th[L].errfunc = s.th[L].errfunc
        /\ t.th[L].status = s.th[L].status
    BY <1>6 DEF Edit
  <1>8. p = [t EXCEPT !.th[L].ci = c2]
    BY <1>7 DEF LuaD_poscall
  <1>9. c2 = SubSeq(c1, 1, Len(c1) - 1)
    OBVIOUS
  <1> HIDE DEF c2
  <1>10. p.cs = t.cs /\ Edit(t, p, L, c2, t.th[L].up, t.th[L].errfunc, t.th[L].status)
    <2>1. Shaped(t) /\ L \in Threads
      BY <1>1, <1>4
    <2>2. QED
      BY ONLY <2>1, <1>8, EditCi
  <1> HIDE DEF c
  <1>11. IsCI(CI(TRUE)) /\ ~CI(TRUE).yp
    BY NewCI
  <1>12. ChainOK(c1) /\ Extends(c, c1, Len(c))
    BY <1>1, <1>2, <1>11, ChainMore
  <1>13. ChainOK(c2) /\ Len(c2) = Len(c) /\ \A l \in 1 .. Len(c) : c2[l] = c1[l]
    <2> DEFINE y == Len(c1) - 1
    <2>1. y = Len(c) /\ y \in 1 .. Len(c1)
      BY <1>1, <1>2
    <2>2. c2 = SubSeq(c1, 1, y)
      BY <1>9
    <2> HIDE DEF y
    <2>3. ChainOK(c2) /\ Len(c2) = y /\ \A l \in 1 .. y : c2[l] = c1[l]
      BY ONLY <1>12, <2>1, <2>2, ChainCut
    <2>4. QED
      BY <2>1, <2>3
  <1>14. Extends(c, c2, Len(c)) /\ UpOK(c2, s.th[L].up)
    BY <1>1, <1>2, <1>13 DEF Extends, UpOK
  <1>15. Edit(s, p, L, c2, s.th[L].up, s.th[L].errfunc, s.th[L].status)
    <2>1. Edit(t, p, L, c2, s.th[L].up, s.th[L].errfunc, s.th[L].status)
      BY <1>7, <1>10
    <2>2. QED
      BY <1>6, <2>1, EditAgain
  <1>16. p.cs = s.cs /\ Len(c2) = Len(s.th[L].ci) /\ Extends(s.th[L].ci, c2, Len(s.th[L].ci))
    BY <1>6, <1>10, <1>13, <1>14 DEF c
  <1>17. QED
    BY <1>5, <1>13, <1>14, <1>15, <1>16, Stays

LEMMA TailcallLevels ==
  ASSUME NEW L, CallsInv, LevelsInv, OP_TAILCALL(L)
  PROVE  LevelsInv'
  <1> DEFINE s == State
             t == LuaD_precall(s, L, TRUE)
             p == LuaD_poscall(t, L)
             u == LuaF_close(p, L, Depth(s, L))
  <1>1. Ready(s, L) /\ TopOf(s).fn = "execute"
    BY LevelsRun DEF OP_TAILCALL, Running
  <1>2. Become(IF StackFits(s, L) THEN u ELSE t)
    BY OP_TAILCALL(L), Zenon DEF OP_TAILCALL
  <1>3. Enters(s)
    BY <1>1, SameChain DEF Enters
  <1> HIDE DEF s
  <1>4. StackFits(s, L) => t = [s EXCEPT !.th[L].ci = Append(@, CI(TRUE))]
    BY DEF LuaD_precall
  <1>5. ~StackFits(s, L) => t = LuaD_growstack(s, L)
    BY DEF LuaD_precall
  <1>6. p = LuaD_poscall(t, L) /\ u = LuaF_close(p, L, Depth(s, L))
    OBVIOUS
  <1> HIDE DEF t, p, u
  <1>7. ~StackFits(s, L) => Placed(t) /\ Good(t)
    <2>1. Placed(LuaD_growstack(s, L))
      BY <1>1, <1>3, Grows
    <2>2. Good(LuaD_growstack(s, L))
      BY <1>1, Growstack DEF Ready
    <2>3. QED
      BY <1>5, <2>1, <2>2
  <1>8. StackFits(s, L) => Ready(u, L)
    <2>1. StackFits(s, L) => Ready(p, L)
      BY <1>1, <1>4, <1>6, TailCalled
    <2>2. QED
      BY <1>6, <2>1, Closed
  <1>9. Placed(IF StackFits(s, L) THEN u ELSE t) /\ Good(IF StackFits(s, L) THEN u ELSE t)
    BY <1>7, <1>8, ReadyPlaced
  <1>10. QED
    BY <1>2, <1>9, LevelsBecome

LEMMA ReturnLevels ==
  ASSUME NEW L, CallsInv, LevelsInv, OP_RETURN(L)
  PROVE  LevelsInv'
  <1> DEFINE s == State
             w == LuaF_close(s, L, Depth(s, L))
             t == LuaD_poscall(w, L)
             c == s.th[L].ci
             c2 == SubSeq(c, 1, Len(c) - 1)
             fresh == c[Len(c)].fresh
  <1>1. Ready(s, L) /\ TopOf(s).fn = "execute" /\ TopOf(s) = s.cs[Len(s.cs)]
    BY LevelsRun, SameChain DEF OP_RETURN, Running
  <1>2. Become(IF fresh THEN Pop(t) ELSE t)
    BY DEF OP_RETURN, CurrentCI, Depth
  <1> HIDE DEF s
  <1>3. Len(s.cs) > 1 /\ Len(c) > 1
    BY <1>1, Executing
  <1>4. /\ t.cs = s.cs /\ Active(t, L) /\ UpOK(c2, t.th[L].up)
        /\ Edit(s, t, L, c2, t.th[L].up, s.th[L].errfunc, s.th[L].status)
    <2> HIDE DEF w
    <2>1. w = LuaF_close(s, L, Depth(s, L)) /\ t = LuaD_poscall(w, L) /\ Len(s.th[L].ci) > 1
      BY <1>3 DEF w
    <2> HIDE DEF t
    <2>2. QED
      BY <1>1, <2>1, Leaves
  <1>5. c2 = SubSeq(s.th[L].ci, 1, Len(s.th[L].ci) - 1)
    OBVIOUS
  <1> DEFINE u == Pop(t)
  <1>6. u = Pop(t)
    OBVIOUS
  <1> HIDE DEF t, u, c2
  <1>7. /\ Shrunk(s, u) /\ u.th = t.th /\ Active(u, L)
    <2>1. Shaped(t)
      BY <1>4, ActiveFacts
    <2>2. Shrunk(s, u) /\ u.th = t.th
      BY <1>3, <1>4, <1>6, <2>1, PopShrinks
    <2>3. TopOf(t).fn = "execute" /\ Len(t.cs) > 1
      BY <1>1, <1>3, <1>4 DEF TopOf
    <2>4. Active(Pop(t), L)
      BY <1>4, <2>3, PopPlain
    <2>5. QED
      BY <1>6, <2>2, <2>4
  <1>8. Edit(s, u, L, c2, t.th[L].up, s.th[L].errfunc, s.th[L].status)
    BY <1>4, <1>7 DEF Edit
  <1>9. fresh => Ready(u, L)
    BY <1>1, <1>3, <1>4, <1>5, <1>7, <1>8, Returned
  <1>10. ~fresh => Ready(t, L)
    BY <1>1, <1>4, <1>5, ReturnMoved
  <1> HIDE DEF fresh
  <1>11. Become(IF fresh THEN u ELSE t)
    BY <1>2, <1>6
  <1>12. Placed(IF fresh THEN u ELSE t) /\ Good(IF fresh THEN u ELSE t)
    BY <1>9, <1>10, ReadyPlaced
  <1>13. QED
    BY <1>11, <1>12, LevelsBecome

LEMMA ClosureLevels ==
  ASSUME NEW L, CallsInv, LevelsInv, OP_CLOSURE(L)
  PROVE  LevelsInv'
  <1> DEFINE s == State
             c == s.th[L].ci
             x == s.th[L].up \cup {Depth(s, L)}
             u == [s EXCEPT !.th[L].up = x]
  <1>1. Ready(s, L) /\ TopOf(s).fn = "execute"
    BY LevelsRun DEF OP_CLOSURE, Running
  <1>2. Become(u)
    BY DEF OP_CLOSURE
  <1>3. u = [s EXCEPT !.th[L].up = x]
    OBVIOUS
  <1> HIDE DEF s, u
  <1>4. /\ ChainOK(c) /\ Extends(c, c, Len(c)) /\ UpOK(c, s.th[L].up) /\ Len(c) \in Nat \ {0}
        /\ L \in Threads /\ Shaped(s) /\ Active(s, L) /\ c[Len(c)].lua
    BY <1>1, SameChain, Executing DEF Ready
  <1>5. UpOK(c, x)
    <2>1. Len(c) \in 1 .. Len(c) /\ Depth(s, L) = Len(c)
      BY <1>4 DEF Depth
    <2> HIDE DEF c
    <2>2. QED
      BY <1>4, <2>1 DEF UpOK
  <1> HIDE DEF x
  <1>6. Active(u, L)
    <2>1. \/ u = [s EXCEPT !.th[L].ci = x] \/ u = [s EXCEPT !.th[L].up = x]
          \/ u = [s EXCEPT !.th[L].errfunc = x] \/ u = [s EXCEPT !.th[L].status = x]
          \/ u = [s EXCEPT !.th[L].big = x]
      BY <1>3
    <2>2. QED
      BY ONLY <1>4, <2>1, ActiveFields
  <1>7. u.cs = s.cs /\ Edit(s, u, L, s.th[L].ci, x, s.th[L].errfunc, s.th[L].status)
    BY ONLY <1>3, <1>4, EditUp
  <1>8. Len(c) = Len(s.th[L].ci) /\ Extends(s.th[L].ci, c, Len(s.th[L].ci))
        /\ Edit(s, u, L, c, x, s.th[L].errfunc, s.th[L].status)
    BY <1>4, <1>7
  <1> HIDE DEF c
  <1>9. Ready(u, L)
    BY <1>1, <1>4, <1>5, <1>6, <1>7, <1>8, Stays
  <1>10. QED
    BY <1>2, <1>9, ReadyPlaced, LevelsBecome

LEMMA JmpLevels ==
  ASSUME NEW L, CallsInv, LevelsInv, OP_JMP(L)
  PROVE  LevelsInv'
  <1>1. Ready(State, L)
    BY LevelsRun DEF OP_JMP, Running
  <1>2. Ready(LuaF_close(State, L, Depth(State, L)), L)
    BY <1>1, Closed
  <1>3. QED
    BY <1>2, ReadyPlaced, LevelsBecome DEF OP_JMP

LEMMA CallTMLevels ==
  ASSUME NEW L, CallsInv, LevelsInv, LuaT_callTM(L)
  PROVE  LevelsInv'
  <1> DEFINE s == State
             c == s.th[L].ci
  <1>1. Ready(s, L) /\ TopOf(s).fn \in {"execute", "cfun"}
    BY LevelsRun DEF LuaT_callTM
  <1>2. PICK lua \in BOOLEAN :
          Become(IF c[Len(c)].lua THEN LuaD_call(s, L, lua)
                 ELSE LuaD_callnoyield(s, L, lua))
    BY DEF LuaT_callTM, CurrentCI, Depth
  <1> HIDE DEF s
  <1>3. Good(LuaD_call(s, L, lua)) /\ Good(LuaD_callnoyield(s, L, lua))
    BY <1>1, Call, CallNoyield DEF Ready
  <1>4. c[Len(c)].lua => Placed(LuaD_call(s, L, lua))
    <2>1. c[Len(c)].lua => TopOf(s).fn = "execute"
      BY <1>1, CFunction
    <2>2. TopOf(s).fn = "execute" =>
            (Nny(s.cs, L, Len(s.cs)) = 0 => Continued(s.th[L].ci, Len(s.th[L].ci)))
      BY <1>1, Executing
    <2>3. QED
      BY <1>1, <2>1, <2>2, Called
  <1>5. Placed(LuaD_callnoyield(s, L, lua))
    BY <1>1, CalledNoyield
  <1> HIDE DEF c
  <1>6. QED
    BY <1>2, <1>3, <1>4, <1>5, LevelsBecome

LEMMA RunerrorLevels ==
  ASSUME NEW L, CallsInv, LevelsInv, LuaG_runerror(L)
  PROVE  LevelsInv'
  <1> DEFINE s == State
             u == Push(s, Frame("error", L))
  <1>1. Ready(s, L) /\ TopOf(s).fn \in {"execute", "cfun"}
    BY LevelsRun DEF LuaG_runerror
  <1>2. Become(u)
    BY DEF LuaG_runerror
  <1>3. u = Push(s, Frame("error", L))
    OBVIOUS
  <1> HIDE DEF s, u
  <1>4. Ready(u, L)
    BY <1>1, <1>3, PushError
  <1>5. QED
    BY <1>2, <1>4, ReadyPlaced, LevelsBecome

LEMMA MemoryErrorLevels ==
  ASSUME NEW L, CallsInv, LevelsInv, MemoryError(L)
  PROVE  LevelsInv'
  <1>1. Ready(State, L) /\ TopOf(State).fn \in {"execute", "cfun", "fparser"}
    BY LevelsRun DEF MemoryError
  <1>2. Good(LuaD_throw(State, L, ERRMEM))
    BY <1>1, ActiveThrow, ErrorStatuses DEF Ready
  <1>3. Placed(LuaD_throw(State, L, ERRMEM))
    BY <1>1, ReadyCalm, Raised
  <1>4. QED
    BY <1>2, <1>3, LevelsBecome DEF MemoryError

(* The message handler runs where the error was raised. *)
LEMMA ErrormsgLevels ==
  ASSUME NEW L, CallsInv, LevelsInv, LuaG_errormsg(L)
  PROVE  LevelsInv'
  <1> DEFINE s == State
             p == Pop(s)
             t == Push(p, Frame("errormsg", L))
  <1>1. Ready(s, L) /\ TopOf(s).fn = "error"
    BY LevelsRun DEF LuaG_errormsg, Running
  <1>2. PICK lua \in BOOLEAN :
          Become(IF th[L].errfunc = 0 THEN LuaD_throw(s, L, ERRRUN)
                 ELSE LuaD_callnoyield(t, L, lua))
    BY DEF LuaG_errormsg
  <1> HIDE DEF s
  <1>3. Good(LuaD_throw(s, L, ERRRUN)) /\ Placed(LuaD_throw(s, L, ERRRUN))
    <2>1. Good(LuaD_throw(s, L, ERRRUN))
      BY <1>1, ActiveThrow, ErrorStatuses DEF Ready
    <2>2. Placed(LuaD_throw(s, L, ERRRUN))
      BY <1>1, ReadyCalm, Raised
    <2>3. QED
      BY <2>1, <2>2
  <1>4. Ready(p, L) /\ Free(p, "errormsg")
    BY <1>1, PopError
  <1>5. Ready(t, L) /\ TopOf(t).fn = "errormsg"
    <2>1. Active(t, L) /\ Shaped(p) /\ Active(p, L)
      BY <1>4, PushPlain, ActiveFacts DEF Ready
    <2>2. Edit(p, p, L, p.th[L].ci, p.th[L].up, p.th[L].errfunc, p.th[L].status)
      BY DEF Edit, SameThread
    <2>3. t = Push(p, Frame("errormsg", L))
      OBVIOUS
    <2> HIDE DEF t, p
    <2>4. QED
      BY <1>4, <2>1, <2>2, <2>3, Pushes
  <1> HIDE DEF t
  <1>6. Good(LuaD_callnoyield(t, L, lua)) /\ Placed(LuaD_callnoyield(t, L, lua))
    BY <1>5, CallNoyield, CalledNoyield DEF Ready
  <1>7. QED
    BY <1>2, <1>3, <1>6, LevelsBecome

LEMMA ErrormsgThrowsLevels ==
  ASSUME NEW L, CallsInv, LevelsInv, ErrormsgThrows(L)
  PROVE  LevelsInv'
  <1>1. Ready(State, L) /\ TopOf(State).fn = "errormsg"
    BY LevelsRun DEF ErrormsgThrows, Running
  <1>2. Good(LuaD_throw(State, L, ERRRUN))
    BY <1>1, ActiveThrow, ErrorStatuses DEF Ready
  <1>3. Placed(LuaD_throw(State, L, ERRRUN))
    BY <1>1, ReadyCalm, Raised
  <1>4. QED
    BY <1>2, <1>3, LevelsBecome DEF ErrormsgThrows

----------------------------------------------------------------------------
(* C functions. *)

LEMMA CFunctionLevels ==
  ASSUME NEW L, CallsInv, LevelsInv, CFunctionReturns(L)
  PROVE  LevelsInv'
  <1> DEFINE s == State
             t == LuaD_poscall(s, L)
             u == Pop(t)
             c == s.th[L].ci
             c2 == SubSeq(c, 1, Len(c) - 1)
  <1>1. Ready(s, L) /\ TopOf(s).fn = "cfun" /\ Len(s.cs) > 1
    BY LevelsRun, Fields DEF CFunctionReturns, Running
  <1>2. Become(u)
    BY DEF CFunctionReturns
  <1>3. t = LuaD_poscall(s, L) /\ u = Pop(t)
    OBVIOUS
  <1>4. c2 = SubSeq(s.th[L].ci, 1, Len(s.th[L].ci) - 1)
    OBVIOUS
  <1> HIDE DEF s, t, u
  <1>5. Len(c) > 1 /\ ~c[Len(c)].lua
    BY <1>1, CalledC, CFunction
  <1>6. /\ t.cs = s.cs /\ Active(t, L) /\ UpOK(c2, t.th[L].up)
        /\ Edit(s, t, L, c2, t.th[L].up, s.th[L].errfunc, s.th[L].status)
    <2>1. s = s /\ ~s.th[L].ci[Len(s.th[L].ci)].lua /\ Len(s.th[L].ci) > 1
      BY <1>5
    <2>2. QED
      BY <1>1, <1>3, <2>1, Leaves
  <1> HIDE DEF c2
  <1>7. /\ Shrunk(s, u) /\ u.th = t.th /\ Active(u, L)
    <2>1. Shaped(t)
      BY <1>6, ActiveFacts
    <2>2. Shrunk(s, u) /\ u.th = t.th
      BY <1>1, <1>3, <1>6, <2>1, PopShrinks
    <2>3. TopOf(t).fn = "cfun" /\ Len(t.cs) > 1
      BY <1>1, <1>6 DEF TopOf
    <2>4. Active(Pop(t), L)
      BY <1>6, <2>3, PopPlain
    <2>5. QED
      BY <1>3, <2>2, <2>4
  <1>8. Edit(s, u, L, c2, t.th[L].up, s.th[L].errfunc, s.th[L].status)
    BY <1>6, <1>7 DEF Edit
  <1>9. Ready(u, L)
    BY <1>1, <1>4, <1>6, <1>7, <1>8, Returned
  <1>10. QED
    BY <1>2, <1>9, ReadyPlaced, LevelsBecome

(* What the other invariant says of the next state. *)
LEMMA GoodNext ==
  ASSUME NEW s, s = [th |-> s.th, cs |-> s.cs, panic |-> s.panic], Become(s), CallsInv'
  PROVE  Good(s)
  <1>1. State' = s
    BY DEF Become, State
  <1>2. QED
    BY <1>1 DEF CallsInv

LEMMA PoppedActive ==
  ASSUME NEW s, NEW L, Active(s, L), TopOf(s).fn \notin {"raw", "resume"}, Len(s.cs) > 1,
         NEW u, Good(u), ~u.panic, Len(u.cs) = Len(s.cs) - 1,
         \A i \in 1 .. Len(s.cs) - 1 : u.cs[i] = s.cs[i]
  PROVE  Active(u, L)
  <1> DEFINE n == Len(s.cs)
             m == n - 1
  <1>1. n \in Nat \ {0} /\ StackOK(s.cs) /\ StatusesOK(s.cs) /\ TopOf(s) = s.cs[n]
        /\ s.cs[n].L = L
    BY ActiveFacts, Types DEF Active, Sound, TopOf
  <1>2. s.cs[m].fn # "resume" /\ s.cs[m].L = L /\ s.cs[m].status = OK
    BY <1>1, BelowFrame
  <1>3. m \in 1 .. m
    BY <1>1
  <1> HIDE DEF m
  <1>4. TopOf(u) = s.cs[m]
    BY <1>3 DEF TopOf, m
  <1>5. QED
    BY <1>2, <1>4 DEF Active

(* luaD_call and luaD_callnoyield return. *)
LEMMA PopsCounted ==
  ASSUME NEW s, NEW L, Ready(s, L), TopOf(s).fn \in {"call", "noyield", "parser"},
         NEW x \in Int, NEW w, w = [s EXCEPT !.th[L].nny = x] \/ w = [s EXCEPT !.th[L].nC = x],
         NEW u, u = Pop(w)
  PROVE  /\ Shaped(u) /\ ~u.panic
         /\ Good(u) => Ready(u, L)
  <1>1. Active(s, L) /\ Shaped(s) /\ Sound(s) /\ L \in Threads /\ ~s.panic
    BY ActiveFacts DEF Ready, Active
  <1>2. Len(s.cs) > 1
    BY <1>1, NotAlone
  <1>3. /\ w.cs = s.cs
        /\ Edit(s, w, L, s.th[L].ci, s.th[L].up, s.th[L].errfunc, s.th[L].status)
    <2>1. \/ w = [s EXCEPT !.th[L].nny = x] \/ w = [s EXCEPT !.th[L].nC = x]
          \/ w = [s EXCEPT !.th[L].jmp = x] \/ w = [s EXCEPT !.th[L].big = x]
      OBVIOUS
    <2>2. QED
      BY ONLY <1>1, <2>1, EditCounts
  <1>4. Shaped(w) /\ w.panic = s.panic
    <2>1. Local(s, s, L)
      BY <1>1, LocalSelf
    <2>2. Local(s, w, L)
      BY <1>1, <2>1, LocalNny, LocalNC
    <2>3. QED
      BY <1>1, <2>2, WithShaped DEF Local
  <1>5. /\ Shrunk(s, u) /\ u.th = w.th /\ u.panic = w.panic /\ Shaped(u)
        /\ Len(u.cs) = Len(s.cs) - 1 /\ \A i \in 1 .. Len(s.cs) - 1 : u.cs[i] = s.cs[i]
    BY <1>2, <1>3, <1>4, PopShrinks, PopShaped
  <1>6. Edit(s, u, L, s.th[L].ci, s.th[L].up, s.th[L].errfunc, s.th[L].status)
    BY <1>3, <1>5 DEF Edit
  <1>7. ASSUME Good(u)
        PROVE  Ready(u, L)
    <2>1. TopOf(s).fn \notin {"raw", "resume"} /\ ~u.panic
      BY <1>1, <1>4, <1>5
    <2>2. Active(u, L)
      BY <1>1, <1>2, <1>5, <1>7, <2>1, PoppedActive
    <2>3. QED
      BY <1>5, <1>6, <2>2, PopSame
  <1>8. QED
    BY <1>1, <1>4, <1>5, <1>7

LEMMA CallReturnLevels ==
  ASSUME NEW L, CallsInv, LevelsInv, CallReturns(L)
  PROVE  LevelsInv'
  <1> DEFINE s == State
             x == s.th[L].nC - 1
             w == [s EXCEPT !.th[L].nC = x]
             u == Pop(w)
  <1>1. Ready(s, L) /\ TopOf(s).fn = "call"
    BY LevelsRun DEF CallReturns, Running
  <1>2. Become(u)
    BY DEF CallReturns
  <1>3. CallsInv'
    BY CallReturnKeeps
  <1>4. w = [s EXCEPT !.th[L].nC = x] /\ u = Pop(w)
    OBVIOUS
  <1> HIDE DEF s, w, u
  <1>5. x \in Int
    BY <1>1, ActiveFacts DEF Ready
  <1> HIDE DEF x
  <1>6. Shaped(u) /\ (Good(u) => Ready(u, L))
    BY <1>1, <1>4, <1>5, PopsCounted
  <1>7. Good(u)
    BY <1>2, <1>3, <1>6, GoodNext DEF Shaped
  <1>8. QED
    BY <1>2, <1>6, <1>7, ReadyPlaced, LevelsBecome

LEMMA NoyieldReturnLevels ==
  ASSUME NEW L, CallsInv, LevelsInv, NoyieldReturns(L)
  PROVE  LevelsInv'
  <1> DEFINE s == State
             x == s.th[L].nny - 1
             w == [s EXCEPT !.th[L].nny = x]
             u == Pop(w)
  <1>1. Ready(s, L) /\ TopOf(s).fn \in {"noyield", "parser"}
    BY LevelsRun DEF NoyieldReturns
  <1>2. Become(u)
    BY DEF NoyieldReturns
  <1>3. CallsInv'
    BY NoyieldReturnKeeps
  <1>4. w = [s EXCEPT !.th[L].nny = x] /\ u = Pop(w)
    OBVIOUS
  <1> HIDE DEF s, w, u
  <1>5. x \in Int
    BY <1>1, ActiveFacts DEF Ready
  <1> HIDE DEF x
  <1>6. Shaped(u) /\ (Good(u) => Ready(u, L))
    BY <1>1, <1>4, <1>5, PopsCounted
  <1>7. Good(u)
    BY <1>2, <1>3, <1>6, GoodNext DEF Shaped
  <1>8. QED
    BY <1>2, <1>6, <1>7, ReadyPlaced, LevelsBecome

LEMMA ParserDoneLevels ==
  ASSUME NEW L, CallsInv, LevelsInv, ParserDone(L)
  PROVE  LevelsInv'
  <1>1. Ready(State, L) /\ TopOf(State).fn = "fparser"
    BY LevelsRun DEF ParserDone, Running
  <1>2. Ready(Pop(State), L)
    BY <1>1, PopsPlain
  <1>3. QED
    BY <1>2, ReadyPlaced, LevelsBecome DEF ParserDone

LEMMA ReaderLevels ==
  ASSUME NEW L, CallsInv, LevelsInv, GenericReader(L)
  PROVE  LevelsInv'
  <1>1. Ready(State, L) /\ TopOf(State).fn = "fparser"
    BY LevelsRun DEF GenericReader, Running
  <1>2. PICK lua \in BOOLEAN : Become(LuaD_callnoyield(State, L, lua))
    BY DEF GenericReader
  <1>3. Good(LuaD_callnoyield(State, L, lua)) /\ Placed(LuaD_callnoyield(State, L, lua))
    BY <1>1, CallNoyield, CalledNoyield DEF Ready
  <1>4. QED
    BY <1>2, <1>3, LevelsBecome

LEMMA SyntaxErrorLevels ==
  ASSUME NEW L, CallsInv, LevelsInv, SyntaxError(L)
  PROVE  LevelsInv'
  <1>1. Ready(State, L) /\ TopOf(State).fn = "fparser"
    BY LevelsRun DEF SyntaxError, Running
  <1>2. Good(LuaD_throw(State, L, ERRSYNTAX))
    BY <1>1, ActiveThrow, ErrorStatuses DEF Ready
  <1>3. Placed(LuaD_throw(State, L, ERRSYNTAX))
    BY <1>1, ReadyCalm, Raised
  <1>4. QED
    BY <1>2, <1>3, LevelsBecome DEF SyntaxError
----------------------------------------------------------------------------
(* Continuations. *)

LEMMA WithK ==
  ASSUME NEW r, IsCI(r), NEW x, NEW q, q = [r EXCEPT !.k = x]
  PROVE  IsCI(q) /\ q.lua = r.lua /\ q.fresh = r.fresh /\ q.yp = r.yp /\ q.k = x /\ q.olderr = r.olderr
  <1>1. q = [lua |-> r.lua, fresh |-> r.fresh, yp |-> r.yp, k |-> x, olderr |-> r.olderr]
    BY DEF IsCI
  <1>2. QED
    BY ONLY <1>1 DEF IsCI

LEMMA WithYp ==
  ASSUME NEW r, IsCI(r), NEW x, NEW q, q = [r EXCEPT !.yp = x]
  PROVE  IsCI(q) /\ q.lua = r.lua /\ q.fresh = r.fresh /\ q.yp = x /\ q.k = r.k /\ q.olderr = r.olderr
  <1>1. q = [lua |-> r.lua, fresh |-> r.fresh, yp |-> x, k |-> r.k, olderr |-> r.olderr]
    BY DEF IsCI
  <1>2. QED
    BY ONLY <1>1 DEF IsCI

LEMMA WithOlderr ==
  ASSUME NEW r, IsCI(r), NEW x, NEW q, q = [r EXCEPT !.olderr = x]
  PROVE  IsCI(q) /\ q.lua = r.lua /\ q.fresh = r.fresh /\ q.yp = r.yp /\ q.k = r.k /\ q.olderr = x
  <1>1. q = [lua |-> r.lua, fresh |-> r.fresh, yp |-> r.yp, k |-> r.k, olderr |-> x]
    BY DEF IsCI
  <1>2. QED
    BY ONLY <1>1 DEF IsCI

(* The current C function is given a continuation, or none. *)
Continue(s, L, k) == [s EXCEPT !.th[L].ci[Depth(s, L)].k = k]

Given(s, w, L, c, d, k) ==
    /\ w.cs = s.cs /\ Edit(s, w, L, d, s.th[L].up, s.th[L].errfunc, s.th[L].status)
    /\ Active(s, L) => Active(w, L)
    /\ w.panic = s.panic /\ Local(s, w, L) /\ SameCounts(w.th[L], s.th[L])
    /\ ChainOK(d) /\ Len(d) = Len(c) /\ d[Len(c)].k = k
    /\ d[Len(c)].lua = c[Len(c)].lua /\ ~d[Len(c)].yp /\ d[Len(c)].yp = c[Len(c)].yp
    /\ \A l \in 1 .. Len(c) - 1 : d[l] = c[l]
    /\ \A x \in 0 .. Len(c) - 1 : Extends(c, d, x)
    /\ k => Extends(c, d, Len(c))

LEMMA Marks ==
  ASSUME NEW s, Shaped(s), NEW L \in Threads, ChainOK(s.th[L].ci),
         ~s.th[L].ci[Len(s.th[L].ci)].yp, NEW k \in BOOLEAN
  PROVE  LET w == Continue(s, L, k)
         IN  Given(s, w, L, s.th[L].ci, w.th[L].ci, k)
  <1> DEFINE w == Continue(s, L, k)
             c == s.th[L].ci
             d == w.th[L].ci
  <1>15. w = Continue(s, L, k) /\ c = s.th[L].ci /\ d = w.th[L].ci
    OBVIOUS
  <1>16. ChainOK(c) /\ ~c[Len(c)].yp
    OBVIOUS
  <1> HIDE DEF w, c, d
  <1> DEFINE n == Len(c)
             r == [c[n] EXCEPT !.k = k]
             c2 == [c EXCEPT ![n] = r]
  <1>1. Depth(s, L) = n
    BY <1>15 DEF Depth
  <1>2. IsThread(s.th[L]) /\ s.th = [t \in Threads |-> s.th[t]]
        /\ s = [th |-> s.th, cs |-> s.cs, panic |-> s.panic]
    BY DEF Shaped
  <1>3. IsSequence(c) /\ n \in Nat \ {0} /\ DOMAIN c = 1 .. n /\ n \in 1 .. n
    BY <1>16, ChainFacts
  <1>4. w = [s EXCEPT !.th[L].ci = c2]
    BY <1>1, <1>2, <1>3, <1>15 DEF IsThread, Continue
  <1>5. IsCI(c[n]) /\ ~c[n].yp
    BY <1>3, <1>16 DEF ChainOK
  <1>6. r = [c[n] EXCEPT !.k = k]
    OBVIOUS
  <1> HIDE DEF r
  <1>11. IsCI(r) /\ r.lua = c[n].lua /\ r.fresh = c[n].fresh /\ r.yp = c[n].yp /\ r.k = k
    <2> DEFINE v == c[n]
    <2>1. IsCI(v) /\ r = [v EXCEPT !.k = k]
      BY <1>5, <1>6
    <2> HIDE DEF v
    <2>2. IsCI(r) /\ r.lua = v.lua /\ r.fresh = v.fresh /\ r.yp = v.yp /\ r.k = k
      BY ONLY <2>1, WithK
    <2>3. QED
      BY <2>2 DEF v
  <1>7. IsSequence(c2) /\ Len(c2) = n /\ c2[n] = r /\ \A l \in 1 .. n : l # n => c2[l] = c[l]
    <2>1. IsSequence(c) /\ n \in 1 .. Len(c)
      BY <1>3
    <2> HIDE DEF n, c2
    <2>2. /\ IsSequence(c2) /\ Len(c2) = Len(c) /\ c2[n] = r
          /\ \A l \in 1 .. Len(c) : l # n => c2[l] = c[l]
      BY ONLY <2>1, Altered DEF c2
    <2>3. QED
      BY ONLY <2>2 DEF n
  <1> HIDE DEF c2
  <1>8. /\ ChainOK(c2) /\ \A l \in 1 .. n - 1 : c2[l] = c[l]
        /\ \A x \in 0 .. n - 1 : Extends(c, c2, x)
    BY <1>5, <1>7, <1>11, <1>16, ChainMark
  <1>9. k => Extends(c, c2, n)
    <2>1. ASSUME k, NEW l \in 1 .. n
          PROVE  /\ c2[l].lua = c[l].lua /\ c2[l].fresh = c[l].fresh
                 /\ c2[l].yp = c[l].yp /\ (c[l].k => c2[l].k)
      <3>1. l \in 1 .. Len(c) /\ (l # n => c2[l] = c[l])
        BY <1>7
      <3>2. QED
        BY ONLY <1>5, <1>7, <1>11, <2>1, <3>1
    <2> HIDE DEF n
    <2>2. Len(c2) \in Nat /\ n <= Len(c2)
      <3>1. n \in Nat /\ Len(c2) = n
        BY ONLY <1>3, <1>7
      <3>2. QED
        BY ONLY <3>1
    <2>3. QED
      BY <2>1, <2>2 DEF Extends
  <1>12. /\ w.cs = s.cs /\ w.panic = s.panic
         /\ Edit(s, w, L, c2, s.th[L].up, s.th[L].errfunc, s.th[L].status)
    <2>1. Shaped(s) /\ L \in Threads
      OBVIOUS
    <2>2. w.cs = s.cs /\ Edit(s, w, L, c2, s.th[L].up, s.th[L].errfunc, s.th[L].status)
      BY ONLY <1>4, <2>1, EditCi
    <2>3. QED
      BY <1>2, <1>4, <2>2
  <1>13. Local(s, w, L) /\ SameCounts(w.th[L], s.th[L]) /\ (Active(s, L) => Active(w, L))
    <2>1. \/ w = [s EXCEPT !.th[L].ci = c2] \/ w = [s EXCEPT !.th[L].up = c2]
          \/ w = [s EXCEPT !.th[L].errfunc = c2] \/ w = [s EXCEPT !.th[L].status = c2]
          \/ w = [s EXCEPT !.th[L].big = c2]
      BY <1>4
    <2>2. Local(s, s, L) /\ Shaped(s) /\ L \in Threads
      BY LocalSelf
    <2>3. Local(s, w, L) /\ SameCounts(w.th[L], s.th[L])
      BY ONLY <2>1, <2>2, LocalFields
    <2>4. QED
      BY <2>3, ActiveLocal
  <1>14. d = c2
    BY <1>12, <1>15 DEF Edit
  <1>10. Given(s, w, L, c, d, k)
    BY <1>5, <1>7, <1>8, <1>9, <1>11, <1>12, <1>13, <1>14 DEF Given
  <1>17. QED
    BY <1>10 DEF w, c, d

LEMMA CallkLevels ==
  ASSUME NEW L, NEW k \in BOOLEAN, CallsInv, LevelsInv, Lua_callk(L, k)
  PROVE  LevelsInv'
  <1> DEFINE s == State
             c == s.th[L].ci
             w == [s EXCEPT !.th[L].ci[Depth(s, L)].k = TRUE]
  <1>1. Ready(s, L) /\ TopOf(s).fn = "cfun"
    BY LevelsRun DEF Lua_callk, Running
  <1>2. PICK lua \in BOOLEAN :
          Become(IF k /\ s.th[L].nny = 0 THEN LuaD_call(w, L, lua)
                 ELSE LuaD_callnoyield(s, L, lua))
    BY DEF Lua_callk, State
  <1>3. w = [s EXCEPT !.th[L].ci[Depth(s, L)].k = TRUE]
    OBVIOUS
  <1> HIDE DEF s, w
  <1>4. Good(LuaD_callnoyield(s, L, lua)) /\ Placed(LuaD_callnoyield(s, L, lua))
    BY <1>1, CallNoyield, CalledNoyield DEF Ready
  <1>5. s.th[L].nny = 0 => Good(LuaD_call(w, L, lua)) /\ Placed(LuaD_call(w, L, lua))
    <2>1. /\ ChainOK(c) /\ UpOK(c, s.th[L].up) /\ Len(c) \in Nat \ {0} /\ ~c[Len(c)].yp
          /\ L \in Threads /\ Shaped(s) /\ Active(s, L) /\ TRUE \in BOOLEAN
          /\ c = s.th[L].ci
      BY <1>1, SameChain DEF Ready
    <2>2. s.th[L].nny = 0 => Len(c) > 1 /\ Continued(c, Len(c) - 1)
      BY <1>1, <2>1, CFunction, ActiveFacts
    <2> HIDE DEF c
    <2> DEFINE c2 == w.th[L].ci
    <2>3. /\ w.cs = s.cs /\ Edit(s, w, L, c2, s.th[L].up, s.th[L].errfunc, s.th[L].status)
          /\ Active(w, L)
          /\ ChainOK(c2) /\ Len(c2) = Len(c) /\ c2[Len(c)].k = TRUE
          /\ c2[Len(c)].lua = c[Len(c)].lua /\ ~c2[Len(c)].yp
          /\ \A l \in 1 .. Len(c) - 1 : c2[l] = c[l]
          /\ Extends(c, c2, Len(c))
      <3> DEFINE yes == TRUE
      <3>1. ChainOK(s.th[L].ci) /\ ~s.th[L].ci[Len(s.th[L].ci)].yp /\ yes \in BOOLEAN
            /\ Shaped(s) /\ L \in Threads
        BY <2>1
      <3>2. w = Continue(s, L, yes)
        BY <1>3 DEF Continue
      <3>3. yes = TRUE
        OBVIOUS
      <3> HIDE DEF yes
      <3>4. Given(s, Continue(s, L, yes), L, s.th[L].ci, Continue(s, L, yes).th[L].ci, yes)
        BY ONLY <3>1, Marks
      <3>5. Given(s, w, L, c, c2, yes)
        BY <2>1, <3>2, <3>4
      <3>6. /\ w.cs = s.cs /\ Edit(s, w, L, c2, s.th[L].up, s.th[L].errfunc, s.th[L].status)
            /\ Active(s, L) => Active(w, L)
            /\ ChainOK(c2) /\ Len(c2) = Len(c) /\ c2[Len(c)].k = yes
            /\ c2[Len(c)].lua = c[Len(c)].lua /\ ~c2[Len(c)].yp
            /\ \A l \in 1 .. Len(c) - 1 : c2[l] = c[l]
            /\ yes => Extends(c, c2, Len(c))
        BY ONLY <3>5, Zenon DEF Given
      <3> HIDE DEF c2
      <3>7. QED
        BY ONLY <2>1, <3>3, <3>6
    <2> HIDE DEF c2
    <2>4. Active(w, L)
      BY <2>3
    <2>6. w.cs = s.cs /\ Edit(s, w, L, c2, s.th[L].up, s.th[L].errfunc, s.th[L].status)
      BY <2>3
    <2>7. UpOK(c2, s.th[L].up)
      <3>1. \A l \in 1 .. Len(c) : c2[l].lua = c[l].lua
        BY <2>3 DEF Extends
      <3>2. QED
        BY <2>1, <2>3, <3>1 DEF UpOK
    <2>8. Len(c2) = Len(s.th[L].ci) /\ Extends(s.th[L].ci, c2, Len(s.th[L].ci))
      BY <2>1, <2>3
    <2>9. Ready(w, L) /\ w.th[L].ci = c2
      <3>1. ChainOK(c2)
        BY <2>3
      <3>2. QED
        BY ONLY <1>1, <2>4, <2>6, <2>7, <2>8, <3>1, Stays DEF Edit
    <2>10. s.th[L].nny = 0 => Continued(c2, Len(c2))
      <3>1. ASSUME s.th[L].nny = 0, NEW l \in 2 .. Len(c2)
            PROVE  c2[l].lua \/ c2[l].k
        <4>1. l = Len(c) \/ (l \in 2 .. Len(c) - 1 /\ l \in 1 .. Len(c) - 1)
          BY <2>1, <2>3
        <4>2. QED
          BY <2>2, <2>3, <3>1, <4>1 DEF Continued
      <3>2. QED
        BY <3>1 DEF Continued
    <2>11. TopOf(w).fn = "cfun"
      BY <1>1, <2>6 DEF TopOf
    <2>12. s.th[L].nny = 0 =>
             (Nny(w.cs, L, Len(w.cs)) = 0 => Continued(w.th[L].ci, Len(w.th[L].ci)))
      BY <2>9, <2>10
    <2>13. Good(LuaD_call(w, L, lua))
      BY <2>4, Call
    <2>14. s.th[L].nny = 0 => Placed(LuaD_call(w, L, lua))
      BY <2>9, <2>11, <2>12, Called
    <2>15. QED
      BY <2>13, <2>14
  <1> HIDE DEF c
  <1>6. QED
    BY <1>2, <1>4, <1>5, LevelsBecome

(* luaD_protectedparser counts itself as a call that may not yield. *)
LEMMA ParserPushed ==
  ASSUME NEW s, NEW L, Ready(s, L), TopOf(s).fn = "cfun",
         NEW u, u = Push([s EXCEPT !.th[L].nny = @ + 1], Frame("parser", L))
  PROVE  /\ Ready(u, L) /\ Grown(s, u, Frame("parser", L)) /\ TopOf(u).fn = "parser"
         /\ Edit(s, u, L, s.th[L].ci, s.th[L].up, s.th[L].errfunc, s.th[L].status)
  <1> DEFINE x == s.th[L].nny + 1
             v == [s EXCEPT !.th[L].nny = x]
  <1>1. /\ Shaped(s) /\ L \in Threads /\ Active(s, L) /\ s.th[L].nny \in Int
    BY ActiveFacts DEF Ready
  <1>2. [s EXCEPT !.th[L].nny = @ + 1] = v
    OBVIOUS
  <1>3. Active(u, L)
    BY <1>1, PushHeld
  <1>4. /\ v.cs = s.cs
        /\ Edit(s, v, L, s.th[L].ci, s.th[L].up, s.th[L].errfunc, s.th[L].status)
    <2>1. /\ Shaped(s) /\ L \in Threads
          /\ \/ v = [s EXCEPT !.th[L].nny = x] \/ v = [s EXCEPT !.th[L].nC = x]
             \/ v = [s EXCEPT !.th[L].jmp = x] \/ v = [s EXCEPT !.th[L].big = x]
      BY <1>1
    <2> HIDE DEF v, x
    <2>2. QED
      BY ONLY <2>1, EditCounts
  <1>5. Shaped(v)
    <2>1. v = [s EXCEPT !.th[L].nny = x] /\ x \in Int /\ Local(s, s, L)
      BY <1>1, LocalSelf
    <2> HIDE DEF v, x
    <2>2. Local(s, v, L)
      BY <1>1, <2>1, LocalNny
    <2>3. QED
      BY <1>1, <2>2, WithShaped DEF Local
  <1>6. u = Push(v, Frame("parser", L)) /\ Free(s, "parser")
    BY <1>2 DEF Free
  <1> HIDE DEF v
  <1>7. QED
    BY <1>3, <1>4, <1>5, <1>6, Pushes

LEMMA ParserLevels ==
  ASSUME NEW L, CallsInv, LevelsInv, LuaD_protectedparser(L)
  PROVE  LevelsInv'
  <1> DEFINE s == State
             u == Push([s EXCEPT !.th[L].nny = @ + 1], Frame("parser", L))
             ef == s.th[L].errfunc
             p == LuaD_pcall(u, L, ef)
             w == Push(p, Frame("fparser", L))
  <1>1. Ready(s, L) /\ TopOf(s).fn = "cfun"
    BY LevelsRun DEF LuaD_protectedparser, Running
  <1>2. Become(w)
    BY DEF LuaD_protectedparser, State
  <1>3. u = Push([s EXCEPT !.th[L].nny = @ + 1], Frame("parser", L)) /\ p = LuaD_pcall(u, L, ef)
        /\ w = Push(p, Frame("fparser", L))
    OBVIOUS
  <1> HIDE DEF s, u, p, w
  <1>4. /\ Ready(u, L) /\ Grown(s, u, Frame("parser", L)) /\ TopOf(u).fn = "parser"
        /\ Edit(s, u, L, s.th[L].ci, s.th[L].up, s.th[L].errfunc, s.th[L].status)
    BY <1>1, <1>3, ParserPushed
  <1>5. /\ u.th[L].ci = s.th[L].ci /\ u.th[L].errfunc = ef /\ Len(u.cs) \in Nat \ {0}
        /\ Len(u.cs) = Len(s.cs) + 1 /\ Len(s.cs) \in Nat \ {0}
    BY <1>1, <1>4, SameChain DEF Edit, Grown
  <1>6. ~u.th[L].ci[Len(u.th[L].ci)].lua /\ u.th[L].errfunc \in 0 .. Len(u.th[L].ci) - 1
    BY <1>1, <1>5, CFunction
  <1>7. /\ Ready(p, L) /\ Len(p.cs) = Len(u.cs) + 2 /\ TopOf(p).fn = "raw"
        /\ p.cs[Len(u.cs) + 1].fn = "pcall" /\ p.cs[Len(u.cs)].fn = TopOf(u).fn
    <2>1. (ef = 0 \/ ef = Len(u.th[L].ci) \/ ef = u.th[L].errfunc)
          /\ TopOf(u).fn \in {"cfun", "parser"}
      BY <1>4, <1>5
    <2>2. Ready(u, L)
      BY <1>4
    <2>3. p = LuaD_pcall(u, L, ef)
      BY <1>3
    <2> HIDE DEF ef
    <2>4. QED
      BY ONLY <1>6, <2>1, <2>2, <2>3, PcallReady
  <1>8. Free(p, "fparser")
    <2>1. p.cs[Len(p.cs) - 2].fn = "parser"
      BY <1>4, <1>5, <1>7
    <2>2. QED
      BY <1>7, <2>1 DEF Free
  <1>9. Ready(w, L)
    BY <1>3, <1>7, <1>8, PushesPlain
  <1>10. QED
    BY <1>2, <1>9, ReadyPlaced, LevelsBecome

----------------------------------------------------------------------------
(* Returns from luaD_pcall and luaD_rawrunprotected. *)

LEMMA LocalEdit ==
  ASSUME NEW s, Shaped(s), NEW L \in Threads, NEW u, Local(s, u, L)
  PROVE  /\ Shaped(u) /\ u.cs = s.cs /\ u.panic = s.panic /\ IsThread(u.th[L])
         /\ Edit(s, u, L, u.th[L].ci, u.th[L].up, u.th[L].errfunc, u.th[L].status)
  <1>1. IsThread(u.th[L]) /\ u = With(s, L, u.th[L])
    BY DEF Local
  <1>2. /\ Shaped(u) /\ u.cs = s.cs /\ u.panic = s.panic
        /\ \A t \in Threads : t # L => u.th[t] = s.th[t]
    BY <1>1, WithShaped
  <1>3. QED
    BY <1>1, <1>2 DEF Edit, SameThread

LEMMA ShrinkEdits ==
  ASSUME NEW s, Shaped(s), NEW L \in Threads, NEW u, u = LuaD_shrinkstack(s, L)
  PROVE  u.cs = s.cs /\ Edit(s, u, L, s.th[L].ci, s.th[L].up, s.th[L].errfunc, s.th[L].status)
  <1>1. u = [s EXCEPT !.th[L].big = FALSE] \/ u = s
    BY DEF LuaD_shrinkstack
  <1>2. u = [s EXCEPT !.th[L].big = FALSE] =>
          u.cs = s.cs /\ Edit(s, u, L, s.th[L].ci, s.th[L].up, s.th[L].errfunc, s.th[L].status)
    BY Edits
  <1>3. QED
    BY <1>1, <1>2 DEF Edit, SameThread

(* What an error in a protected call or a coroutine undoes. *)
LEMMA UndoEdits ==
  ASSUME NEW s, Shaped(s), NEW L \in Threads, NEW f, f.nny \in Int, NEW u, u = Undo(s, L, f),
         NEW c2, c2 = SubSeq(s.th[L].ci, 1, f.ci),
         NEW p2, p2 = {i \in s.th[L].up : i < f.ci + 1}
  PROVE  /\ u.cs = s.cs /\ Local(s, u, L)
         /\ Edit(s, u, L, c2, p2, s.th[L].errfunc, s.th[L].status)
  <1> DEFINE up == {i \in s.th[L].up : i < f.ci + 1}
             a == [s EXCEPT !.th[L].up = up]
             ci == SubSeq(a.th[L].ci, 1, f.ci)
             b == [a EXCEPT !.th[L].ci = ci]
             x == f.nny
             c == [b EXCEPT !.th[L].nny = x]
  <1>1. u = LuaD_shrinkstack(c, L)
    <2>1. LuaF_close(s, L, f.ci + 1) = a
      BY DEF LuaF_close
    <2> HIDE DEF a
    <2>2. [a EXCEPT !.th[L].ci = SubSeq(@, 1, f.ci), !.th[L].nny = f.nny] = c
      OBVIOUS
    <2> HIDE DEF c
    <2>3. QED
      BY <2>1, <2>2 DEF Undo
  <1>2. /\ a = [s EXCEPT !.th[L].up = up] /\ b = [a EXCEPT !.th[L].ci = ci]
        /\ c = [b EXCEPT !.th[L].nny = x] /\ Local(s, s, L) /\ x \in Int
        /\ ci = SubSeq(a.th[L].ci, 1, f.ci)
    BY LocalSelf
  <1> HIDE DEF up, x, a, b, c, ci
  <1>3. Local(s, a, L) /\ a.cs = s.cs
        /\ Edit(s, a, L, s.th[L].ci, up, s.th[L].errfunc, s.th[L].status)
    <2>1. Local(s, a, L)
      BY <1>2, LocalFields
    <2>2. a = [s EXCEPT !.th[L].up = up]
      BY <1>2
    <2>3. a.cs = s.cs /\ Edit(s, a, L, s.th[L].ci, up, s.th[L].errfunc, s.th[L].status)
      BY <2>2, EditUp
    <2>4. QED
      BY <2>1, <2>3
  <1>4. Shaped(a) /\ a.th[L].ci = s.th[L].ci /\ a.th[L].up = up
        /\ a.th[L].errfunc = s.th[L].errfunc /\ a.th[L].status = s.th[L].status
    BY <1>3, LocalEdit DEF Edit
  <1>5. Local(s, b, L) /\ b.cs = s.cs
        /\ Edit(a, b, L, ci, a.th[L].up, a.th[L].errfunc, a.th[L].status)
    <2>1. Local(s, b, L)
      BY <1>2, <1>3, LocalFields
    <2>2. b = [a EXCEPT !.th[L].ci = ci]
      BY <1>2
    <2>3. b.cs = a.cs /\ Edit(a, b, L, ci, a.th[L].up, a.th[L].errfunc, a.th[L].status)
      BY <1>4, <2>2, EditCi
    <2>4. QED
      BY <1>3, <2>1, <2>3
  <1>6. Edit(s, b, L, ci, up, s.th[L].errfunc, s.th[L].status)
    BY <1>3, <1>4, <1>5, EditAgain
  <1>7. Shaped(b)
    BY <1>5, LocalEdit
  <1>8. Local(s, c, L) /\ c.cs = s.cs
        /\ Edit(b, c, L, b.th[L].ci, b.th[L].up, b.th[L].errfunc, b.th[L].status)
    <2>1. c = [b EXCEPT !.th[L].nny = x] /\ Shaped(s) /\ Local(s, b, L) /\ x \in Int
      BY <1>2, <1>5
    <2>2. Local(s, c, L)
      BY ONLY <2>1, LocalNny
    <2>3. \/ c = [b EXCEPT !.th[L].nny = x] \/ c = [b EXCEPT !.th[L].nC = x]
          \/ c = [b EXCEPT !.th[L].jmp = x] \/ c = [b EXCEPT !.th[L].big = x]
      BY <2>1
    <2>4. c.cs = b.cs /\ Edit(b, c, L, b.th[L].ci, b.th[L].up, b.th[L].errfunc, b.th[L].status)
      BY ONLY <1>7, <2>3, EditCounts
    <2>5. QED
      BY <1>5, <2>2, <2>4
  <1>9. Edit(s, c, L, ci, up, s.th[L].errfunc, s.th[L].status) /\ Shaped(c)
    <2>1. Edit(b, c, L, ci, up, s.th[L].errfunc, s.th[L].status)
      BY <1>6, <1>8 DEF Edit
    <2>2. QED
      BY <1>6, <1>8, <2>1, EditAgain, LocalEdit
  <1>10. u.cs = s.cs /\ Edit(c, u, L, ci, up, s.th[L].errfunc, s.th[L].status)
    <2>1. u.cs = c.cs /\ Edit(c, u, L, c.th[L].ci, c.th[L].up, c.th[L].errfunc, c.th[L].status)
      BY <1>1, <1>9, ShrinkEdits
    <2>2. QED
      BY <1>8, <1>9, <2>1 DEF Edit
  <1>11. Local(s, u, L)
    BY <1>1, <1>8, Shrink
  <1>12. Edit(s, u, L, ci, up, s.th[L].errfunc, s.th[L].status)
    BY <1>9, <1>10, EditAgain
  <1>13. ci = SubSeq(s.th[L].ci, 1, f.ci)
    BY <1>2, <1>4
  <1>14. ci = c2 /\ up = p2
    BY <1>13 DEF up
  <1>15. QED
    BY <1>10, <1>11, <1>12, <1>14

(* luaD_pcall goes back to the function that has called it, where it puts  *)
(* back the message handler.                                               *)
LEMMA PcallUndone ==
  ASSUME NEW s, Sound(s), NEW L, NEW lev, NEW a, Standing(s, L, lev, a),
         NEW f, f = s.cs[Len(s.cs)], f.fn = "pcall",
         NEW u, Shrunk(s, u), u.cs[Len(s.cs) - 1].status = s.cs[Len(s.cs) - 1].status,
         NEW c2, ChainOK(c2), Len(c2) = f.ci, Extends(s.th[L].ci, c2, f.ci),
         NEW p2, UpOK(c2, p2), Edit(s, u, L, c2, p2, f.err, s.th[L].status)
  PROVE  Leveled(u.th, u.cs, Len(u.cs)) /\ Len(u.cs) \in Nat \ {0}
  <1> DEFINE d == s.cs
             n == Len(d)
             m == n - 1
             c == s.th[L].ci
             b == lev[m]
  <1>1. /\ n \in Nat \ {0} /\ L \in Threads /\ d[n].L = L /\ LevelAt(s.th, d, lev, n)
        /\ f = d[n] /\ Len(c) \in Nat \ {0}
    BY StandsAt
  <1>2. /\ a < n /\ n > 1 /\ m \in a .. n /\ m \in Nat \ {0} /\ d[m].L = L
        /\ b \in Nat \ {0} /\ Above(c, d[m].fn, b, d[n].fn, lev[n]) /\ LevelAt(s.th, d, lev, m)
    <2>1. s.cs[Len(s.cs)].fn \notin {"cfun", "resume"}
      OBVIOUS
    <2>2. QED
      BY <2>1, Within
  <1>3. f.ci = lev[n] /\ b = lev[n] /\ f.err < f.ci /\ Justified(c, d, L, m, f.err)
        /\ (d[m].fn = "cfun" => ~c[b].yp)
    BY <1>1, <1>2 DEF LevelAt, Above, Saved
  <1>4. d[m].status = OK /\ u.cs[m].status = OK
    <2>1. d[m].status = OK
      BY <1>1, <1>2, BelowFrame DEF Sound
    <2>2. QED
      BY <2>1
  <1>5. s.th[L].status = OK
    <2>1. f.status # YIELD
      <3>1. d[n - 1].fn # "resume"
        BY <1>1, <1>2, BelowFrame DEF Sound
      <3>2. TopLevel(s.th, d, lev, n)
        BY DEF Standing
      <3>3. QED
        BY <1>1, <3>1, <3>2 DEF TopLevel
    <2>2. QED
      BY <1>1, <2>1, StandsAt
  <1>6. Extends(c, c2, b) /\ Len(c2) = b
    BY <1>3
  <1>7. Justified(c2, u.cs, L, m, f.err)
    <2>1. f.err \in 1 .. Len(c) /\ c[f.err].yp => f.err \in 1 .. Len(c2) /\ c2[f.err].yp
      <3>1. f.err \in 1 .. Len(c) => f.err \in 1 .. f.ci
        BY <1>1, <1>2, <1>3
      <3>2. QED
        BY <1>3, <3>1 DEF Extends
    <2>2. Pcalls(d, L, m, f.err) = Pcalls(u.cs, L, m, f.err)
      BY DEF Pcalls, Shrunk, SameRows
    <2>3. QED
      BY <1>3, <2>1, <2>2 DEF Justified
  <1>8. TopLevel(u.th, u.cs, lev, m)
    <2>1. /\ u.cs[m].fn = d[m].fn /\ u.cs[m].L = L /\ u.th[L].ci = c2
          /\ u.th[L].status = OK
      <3>1. m \in 1 .. m
        BY <1>2
      <3>2. QED
        BY <1>2, <1>5, <3>1 DEF Shrunk, SameRows, Edit
    <2>2. d[m].fn = "cfun" => ~c2[b].yp
      <3>1. b \in 1 .. b
        BY <1>2
      <3>2. QED
        BY <1>3, <1>6, <3>1 DEF Extends
    <2> HIDE DEF m, d
    <2>3. QED
      BY <1>4, <1>6, <2>1, <2>2 DEF TopLevel, OK, YIELD
  <1>9. a < Len(s.cs) /\ Extends(s.th[L].ci, c2, lev[Len(s.cs) - 1])
        /\ Justified(c2, u.cs, L, Len(s.cs) - 1, f.err)
        /\ TopLevel(u.th, u.cs, lev, Len(s.cs) - 1)
        /\ (s.th[L].status = YIELD => Suspended(c2))
    BY <1>2, <1>5, <1>6, <1>7, <1>8 DEF OK, YIELD
  <1>10. Len(u.cs) \in Nat \ {0}
    BY <1>2 DEF Shrunk
  <1>11. QED
    BY <1>9, <1>10, FramePopped

LEMMA PcallReturnLevels ==
  ASSUME NEW L, CallsInv, LevelsInv, PcallReturns(L)
  PROVE  LevelsInv'
  <1> DEFINE s == State
             n == Len(s.cs)
             f == Top
             c == s.th[L].ci
             v == IF f.status = OK THEN s ELSE Undo(s, L, f)
             w == [v EXCEPT !.th[L].errfunc = f.err]
             u == Pop(w)
  <1>1. Good(s) /\ ~s.panic /\ f.L = L /\ f.fn = "pcall" /\ f = TopOf(s) /\ Placed(s)
    BY Fields DEF PcallReturns, Running, CallsInv, LevelsInv
  <1>2. Become(u)
    BY DEF PcallReturns
  <1>3. CallsInv'
    BY PcallReturnKeeps
  <1>4. v = (IF f.status = OK THEN s ELSE Undo(s, L, f)) /\ u = Pop(w)
        /\ w = [v EXCEPT !.th[L].errfunc = f.err]
    OBVIOUS
  <1> HIDE DEF s, f, v, w, u
  <1>5. /\ Sound(s) /\ Shaped(s) /\ f = s.cs[n] /\ n \in Nat \ {0} /\ n > 1 /\ L \in Threads
        /\ f.nny \in Int
    <2>1. Sound(s) /\ Shaped(s) /\ f = s.cs[n]
      BY <1>1 DEF Good, Sound, TopOf
    <2>2. n \in Nat \ {0} /\ IsFrame(TopOf(s)) /\ TopOf(s).L \in Threads
      BY <2>1, Types
    <2>3. n > 1
      BY <1>1, <2>1, NotAlone
    <2>4. QED
      BY <1>1, <2>1, <2>2, <2>3 DEF IsFrame
  <1>6. Leveled(s.th, s.cs, n)
    BY <1>1, <1>5 DEF Placed, LiveLen
  <1>7. PICK lev, a : Standing(s, L, lev, a)
    BY <1>1, <1>5, <1>6, Stands
  <1>8. /\ ChainOK(c) /\ UpOK(c, s.th[L].up) /\ Len(c) \in Nat \ {0}
        /\ f.ci \in 1 .. Len(c) /\ (f.status = OK => f.ci = Len(c)) /\ Extends(c, c, Len(c))
    <2>1. /\ ChainOK(c) /\ UpOK(c, s.th[L].up) /\ Len(c) \in Nat \ {0} /\ lev[n] \in 1 .. Len(c)
          /\ LevelAt(s.th, s.cs, lev, n) /\ (s.cs[n].status = OK => lev[n] = Len(c))
          /\ s.cs[n].L = L
      BY <1>7, StandsAt
    <2>2. f.ci = lev[n]
      BY <1>1, <1>5, <2>1 DEF LevelAt, Saved
    <2>3. Extends(c, c, Len(c))
      BY <2>1 DEF Extends
    <2>4. QED
      BY <1>5, <2>1, <2>2, <2>3
  <1>9. /\ Local(s, v, L) /\ Shaped(v) /\ v.cs = s.cs
        /\ v.th[L].errfunc = s.th[L].errfunc /\ v.th[L].status = s.th[L].status
        /\ ChainOK(v.th[L].ci) /\ Len(v.th[L].ci) = f.ci /\ Extends(c, v.th[L].ci, f.ci)
        /\ UpOK(v.th[L].ci, v.th[L].up)
    <2>1. CASE f.status = OK
      <3>1. v = s
        BY <1>4, <2>1
      <3>2. QED
        BY <1>5, <1>8, <2>1, <3>1, LocalSelf
    <2>2. CASE f.status # OK
      <3> DEFINE c2 == SubSeq(c, 1, f.ci)
                 p2 == {i \in s.th[L].up : i < f.ci + 1}
      <3>1. v = Undo(s, L, f)
        BY <1>4, <2>2
      <3>2. c2 = SubSeq(s.th[L].ci, 1, f.ci) /\ p2 = {i \in s.th[L].up : i < f.ci + 1}
            /\ c2 = SubSeq(c, 1, f.ci)
        OBVIOUS
      <3> DEFINE y == f.ci
      <3>7. ChainOK(c) /\ y \in 1 .. Len(c) /\ c2 = SubSeq(c, 1, y)
        BY <1>8
      <3> HIDE DEF c2, p2, c, y
      <3>8. /\ v.cs = s.cs /\ Local(s, v, L)
            /\ Edit(s, v, L, c2, p2, s.th[L].errfunc, s.th[L].status)
        <4>1. Shaped(s) /\ L \in Threads /\ f.nny \in Int
          BY <1>5
        <4>2. QED
          BY ONLY <3>1, <3>2, <4>1, UndoEdits
      <3>9. /\ ChainOK(c2) /\ Len(c2) = y /\ Extends(c, c2, y)
            /\ \A l \in 1 .. y : c2[l] = c[l]
        BY ONLY <3>7, ChainCut
      <3>3. /\ ChainOK(c2) /\ Len(c2) = f.ci /\ Extends(c, c2, f.ci)
            /\ \A l \in 1 .. f.ci : c2[l] = c[l]
        BY <3>9 DEF y
      <3>4. UpOK(c2, p2)
        <4>1. ASSUME NEW i \in p2
              PROVE  i \in 1 .. Len(c2) /\ c2[i].lua
          <5>1. i \in 1 .. Len(c) /\ c[i].lua /\ i < f.ci + 1
            BY <1>8 DEF UpOK, p2
          <5>2. i \in 1 .. f.ci
            BY <1>8, <5>1
          <5>3. QED
            BY <3>3, <5>1, <5>2
        <4>2. QED
          BY <4>1 DEF UpOK
      <3> HIDE DEF p2
      <3>5. Shaped(v)
        BY <1>5, <3>8, LocalEdit
      <3>6. QED
        BY <3>8, <3>3, <3>4, <3>5 DEF Edit
    <2>3. QED
      BY <2>1, <2>2
  <1> DEFINE c2 == v.th[L].ci
             p2 == v.th[L].up
             ef == f.err
  <1> HIDE DEF ef
  <1>10. /\ Shaped(w) /\ w.cs = s.cs /\ Edit(s, w, L, c2, p2, ef, s.th[L].status)
    <2>1. w = [v EXCEPT !.th[L].errfunc = ef]
      BY <1>4 DEF ef
    <2>2. w.cs = v.cs /\ Edit(v, w, L, v.th[L].ci, v.th[L].up, ef, v.th[L].status)
      <3>1. Shaped(v) /\ L \in Threads
        BY <1>5, <1>9
      <3>2. QED
        BY ONLY <2>1, <3>1, EditErrfunc
    <2>3. Local(s, w, L)
      BY <1>5, <1>9, <2>1, LocalFields
    <2>4. Edit(s, v, L, c2, p2, v.th[L].errfunc, v.th[L].status)
      BY <1>5, <1>9, LocalEdit
    <2>5. Edit(s, w, L, c2, p2, ef, s.th[L].status)
      <3>1. Edit(v, w, L, c2, p2, ef, s.th[L].status)
        BY <1>9, <2>2
      <3> HIDE DEF c2, p2
      <3>2. QED
        BY <2>4, <3>1, EditAgain
    <2>6. QED
      BY <1>5, <1>9, <2>2, <2>3, <2>5, LocalEdit
  <1>11. Shrunk(s, u) /\ u.th = w.th /\ u.cs[n - 1] = s.cs[n - 1] /\ Shaped(u)
    <2>1. Shrunk(s, u) /\ u.th = w.th
      <3>1. Shaped(w) /\ w.cs = s.cs /\ Len(s.cs) > 1
        BY ONLY <1>5, <1>10
      <3>2. u = Pop(w)
        BY <1>4
      <3>3. QED
        BY ONLY <3>1, <3>2, PopShrinks
    <2>2. u.cs[n - 1] = s.cs[n - 1] /\ Shaped(u)
      <3>1. Len(w.cs) = n /\ Len(w.cs) > 1 /\ n - 1 \in 1 .. n - 1
        BY <1>5, <1>10
      <3>2. Shaped(Pop(w)) /\ \A i \in 1 .. Len(w.cs) - 1 : Pop(w).cs[i] = w.cs[i]
        BY <1>10, <3>1, PopShaped
      <3>3. QED
        BY <1>4, <1>10, <3>1, <3>2
    <2>3. QED
      BY <2>1, <2>2
  <1>12. Good(u)
    BY <1>2, <1>3, <1>11, GoodNext DEF Shaped
  <1>13. Leveled(u.th, u.cs, Len(u.cs)) /\ Len(u.cs) \in Nat \ {0}
    <2>1. /\ Extends(s.th[L].ci, c2, f.ci) /\ ChainOK(c2) /\ Len(c2) = f.ci /\ UpOK(c2, p2)
          /\ Edit(s, u, L, c2, p2, f.err, s.th[L].status)
          /\ u.cs[Len(s.cs) - 1].status = s.cs[Len(s.cs) - 1].status
          /\ f = s.cs[Len(s.cs)]
      BY <1>5, <1>9, <1>10, <1>11 DEF Edit, ef
    <2> HIDE DEF c2, p2, n
    <2>2. QED
      BY <1>1, <1>5, <1>7, <1>11, <2>1, PcallUndone
  <1>14. TopOf(u).status # RESUME_ERROR
    <2>1. s.cs[n - 1].status = OK
      BY <1>1, <1>5, BelowFrame DEF Sound
    <2>2. QED
      BY <1>11, <2>1 DEF TopOf, Shrunk, OK, RESUME_ERROR
  <1>15. QED
    BY <1>2, <1>12, <1>13, <1>14, Settled, LevelsBecome DEF Good

(* The status is handed to the caller of luaD_rawrunprotected. *)
LEMMA MarkRows ==
  ASSUME NEW s, Shaped(s), NEW j \in 1 .. Len(s.cs), NEW v \in Statuses, NEW u, u = Mark(s, j, v)
  PROVE  /\ Shaped(u) /\ Len(u.cs) = Len(s.cs) /\ u.cs[j].status = v
         /\ SameRows(s.cs, u.cs, Len(s.cs)) /\ u.th = s.th /\ u.panic = s.panic
         /\ \A i \in 1 .. Len(s.cs) : i # j => u.cs[i] = s.cs[i]
  <1>1. /\ Shaped(u) /\ Len(u.cs) = Len(s.cs) /\ u.cs[j].status = v
        /\ u.th = s.th /\ u.panic = s.panic
        /\ \A i \in 1 .. Len(s.cs) : i # j => u.cs[i] = s.cs[i]
    BY MarkShaped
  <1>2. IsFrame(s.cs[j]) /\ IsSequence(s.cs) /\ s = [th |-> s.th, cs |-> s.cs, panic |-> s.panic]
    BY DEF Shaped
  <1>3. u.cs[j] = [s.cs[j] EXCEPT !.status = v]
    <2>1. j \in DOMAIN s.cs
      BY <1>2 DEF IsSequence
    <2>2. u.cs = [s.cs EXCEPT ![j].status = v]
      BY <1>2 DEF Mark
    <2>3. QED
      BY <2>1, <2>2
  <1> DEFINE f == s.cs[j]
             g == u.cs[j]
  <1>4. g = [fn |-> f.fn, L |-> f.L, ci |-> f.ci, nny |-> f.nny, nC |-> f.nC,
             err |-> f.err, jmp |-> f.jmp, status |-> v]
    BY <1>2, <1>3 DEF IsFrame
  <1>5. g.fn = f.fn /\ g.L = f.L /\ g.ci = f.ci /\ g.err = f.err
    <2> HIDE DEF f, g
    <2>1. QED
      BY <1>4
  <1>6. SameRows(s.cs, u.cs, Len(s.cs))
    BY <1>1, <1>5 DEF SameRows
  <1>7. QED
    BY <1>1, <1>6

RawLeft(s, L, j, x) == [s EXCEPT !.th[L].jmp = j, !.th[L].nC = x]

LEMMA RawEdits ==
  ASSUME NEW s, Shaped(s), NEW L \in Threads, NEW j \in Nat, NEW x \in Int, Len(s.cs) > 1,
         NEW v \in Statuses, NEW u, u = Mark(Pop(RawLeft(s, L, j, x)), Len(s.cs) - 1, v)
  PROVE  /\ Shaped(u) /\ u.panic = s.panic /\ Shrunk(s, u)
         /\ u.cs[Len(s.cs) - 1].status = v
         /\ \A i \in 1 .. Len(s.cs) - 2 : u.cs[i] = s.cs[i]
         /\ Edit(s, u, L, s.th[L].ci, s.th[L].up, s.th[L].errfunc, s.th[L].status)
  <1> DEFINE a == [s EXCEPT !.th[L].jmp = j]
             w == RawLeft(s, L, j, x)
             n == Len(s.cs)
             m == n - 1
             r == Pop(w)
  <1>1. w = [a EXCEPT !.th[L].nC = x]
    BY DEF RawLeft
  <1>2. a = [s EXCEPT !.th[L].jmp = j] /\ Local(s, s, L) /\ n \in Nat \ {0}
    BY LocalSelf, Types
  <1>3. r = Pop(w)
    OBVIOUS
  <1>11. u = Mark(r, m, v)
    OBVIOUS
  <1> HIDE DEF a, w, r
  <1>4. Local(s, a, L)
    BY <1>2, LocalJmp
  <1>5. Local(s, w, L)
    BY <1>1, <1>4, LocalNC
  <1>6. Shaped(a) /\ Shaped(w) /\ w.cs = s.cs /\ w.panic = s.panic
    BY <1>4, <1>5, LocalEdit
  <1>7. Edit(s, a, L, s.th[L].ci, s.th[L].up, s.th[L].errfunc, s.th[L].status)
    <2>1. /\ Shaped(s) /\ L \in Threads
          /\ \/ a = [s EXCEPT !.th[L].nny = j] \/ a = [s EXCEPT !.th[L].nC = j]
             \/ a = [s EXCEPT !.th[L].jmp = j] \/ a = [s EXCEPT !.th[L].big = j]
      BY <1>2
    <2>2. QED
      BY ONLY <2>1, EditCounts
  <1>8. Edit(a, w, L, a.th[L].ci, a.th[L].up, a.th[L].errfunc, a.th[L].status)
    <2>1. /\ Shaped(a) /\ L \in Threads
          /\ \/ w = [a EXCEPT !.th[L].nny = x] \/ w = [a EXCEPT !.th[L].nC = x]
             \/ w = [a EXCEPT !.th[L].jmp = x] \/ w = [a EXCEPT !.th[L].big = x]
      BY <1>1, <1>6
    <2>2. QED
      BY ONLY <2>1, EditCounts
  <1>9. Edit(s, w, L, s.th[L].ci, s.th[L].up, s.th[L].errfunc, s.th[L].status)
    BY ONLY <1>7, <1>8 DEF Edit, SameThread
  <1>10. /\ Shrunk(s, r) /\ r.th = w.th /\ r.panic = w.panic /\ Shaped(r) /\ Len(r.cs) = m
         /\ \A i \in 1 .. m : r.cs[i] = s.cs[i]
    <2>1. /\ Shaped(Pop(w)) /\ Len(Pop(w).cs) = Len(w.cs) - 1
          /\ \A i \in 1 .. Len(w.cs) - 1 : Pop(w).cs[i] = w.cs[i]
      BY ONLY <1>6, Len(s.cs) > 1, PopShaped
    <2>2. Shrunk(s, r) /\ r.th = w.th /\ r.panic = w.panic
      BY ONLY <1>3, <1>6, Len(s.cs) > 1, PopShrinks
    <2>3. QED
      BY ONLY <1>3, <1>6, <2>1, <2>2
  <1>12. m \in 1 .. Len(r.cs) /\ m \in Nat
    BY <1>2, <1>10
  <1>13. /\ Shaped(u) /\ Len(u.cs) = Len(r.cs) /\ u.cs[m].status = v
         /\ SameRows(r.cs, u.cs, Len(r.cs)) /\ u.th = r.th /\ u.panic = r.panic
         /\ \A i \in 1 .. Len(r.cs) : i # m => u.cs[i] = r.cs[i]
    <2> HIDE DEF m
    <2>1. QED
      BY ONLY <1>10, <1>11, <1>12, v \in Statuses, MarkRows
  <1>14. Shrunk(s, u)
    BY ONLY <1>10, <1>13 DEF Shrunk, SameRows
  <1>15. Edit(s, u, L, s.th[L].ci, s.th[L].up, s.th[L].errfunc, s.th[L].status)
    BY ONLY <1>9, <1>10, <1>13 DEF Edit
  <1>16. ASSUME NEW i \in 1 .. Len(s.cs) - 2
         PROVE  u.cs[i] = s.cs[i]
    <2>1. i \in 1 .. m /\ i # m
      BY <1>2
    <2>2. QED
      BY ONLY <1>10, <1>13, <2>1
  <1>17. u.panic = s.panic /\ u.cs[Len(s.cs) - 1].status = v
    BY ONLY <1>6, <1>10, <1>13
  <1>18. QED
    BY ONLY <1>13, <1>14, <1>15, <1>16, <1>17

LEMMA RawReturned ==
  ASSUME NEW s, Sound(s), NEW L, NEW lev, NEW a, Standing(s, L, lev, a),
         s.cs[Len(s.cs)].fn = "raw", s.cs[Len(s.cs)].status # RESUME_ERROR,
         NEW u, Shrunk(s, u), u.cs[Len(s.cs) - 1].status = s.cs[Len(s.cs)].status,
         Edit(s, u, L, s.th[L].ci, s.th[L].up, s.th[L].errfunc, s.th[L].status)
  PROVE  Leveled(u.th, u.cs, Len(u.cs)) /\ Len(u.cs) \in Nat \ {0}
  <1> DEFINE d == s.cs
             n == Len(d)
             m == n - 1
             c == s.th[L].ci
             e == s.th[L].errfunc
             b == lev[m]
  <1>1. /\ n \in Nat \ {0} /\ L \in Threads /\ d[n].L = L /\ LevelAt(s.th, d, lev, n)
        /\ Len(c) \in Nat \ {0} /\ ChainOK(c) /\ UpOK(c, s.th[L].up) /\ lev[n] \in 1 .. Len(c)
        /\ Justified(c, d, L, n, e) /\ ThreadsOK(s.th, d, n)
        /\ s.th[L].status = (IF d[n].status = YIELD THEN YIELD ELSE OK)
        /\ (d[n].status = OK => lev[n] = Len(c))
    BY StandsAt
  <1>2. /\ a < n /\ n > 1 /\ m \in a .. n /\ m \in Nat \ {0} /\ d[m].L = L
        /\ b \in Nat \ {0} /\ Above(c, d[m].fn, b, d[n].fn, lev[n])
    <2>1. s.cs[Len(s.cs)].fn \notin {"cfun", "resume"}
      OBVIOUS
    <2>2. QED
      BY <2>1, Within
  <1>3. b = lev[n] /\ d[m].fn \in {"pcall", "resume"}
    <2>1. FrameAt(d, n)
      BY <1>1 DEF Sound, StackOK
    <2>2. QED
      BY <1>1, <1>2, <2>1 DEF Above, FrameAt
  <1>4. Extends(c, c, b)
    BY <1>1, <1>3 DEF Extends
  <1>5. Justified(c, u.cs, L, m, e)
    <2>1. s.cs[Len(s.cs)].fn # "pcall" /\ (e \in 1 .. Len(c) /\ c[e].yp => e \in 1 .. Len(c) /\ c[e].yp)
          /\ Justified(c, s.cs, L, Len(s.cs), e) /\ Len(s.cs) \in Nat \ {0}
      BY <1>1
    <2> HIDE DEF e, c
    <2>2. QED
      BY <2>1, StillJustified
  <1>6. s.th[L].status = YIELD => Suspended(c)
    BY <1>1 DEF ThreadsOK, ThreadOK
  <1>7. TopLevel(u.th, u.cs, lev, m)
    <2>1. /\ u.cs[m].fn = d[m].fn /\ u.cs[m].L = L /\ u.th[L].ci = c
          /\ u.th[L].status = s.th[L].status /\ u.cs[m].status = d[n].status
      <3>1. m \in 1 .. m
        BY <1>2
      <3>2. QED
        BY <1>2, <3>1 DEF Shrunk, SameRows, Edit
    <2>2. d[n].status = YIELD => d[m].fn = "resume"
      <3>1. TopLevel(s.th, d, lev, n)
        BY DEF Standing
      <3>2. QED
        BY <1>1, <1>2, <3>1 DEF TopLevel
    <2> HIDE DEF m, d
    <2>3. QED
      BY <1>1, <1>3, <2>1, <2>2 DEF TopLevel
  <1>8. /\ a < Len(s.cs) /\ Extends(s.th[L].ci, c, lev[Len(s.cs) - 1])
        /\ Justified(c, u.cs, L, Len(s.cs) - 1, e)
        /\ TopLevel(u.th, u.cs, lev, Len(s.cs) - 1) /\ ChainOK(c) /\ UpOK(c, s.th[L].up)
        /\ (s.th[L].status = YIELD => Suspended(c))
        /\ Edit(s, u, L, c, s.th[L].up, e, s.th[L].status)
    BY <1>1, <1>2, <1>4, <1>5, <1>6, <1>7
  <1>9. Len(u.cs) \in Nat \ {0}
    BY <1>2 DEF Shrunk
  <1> HIDE DEF c, e
  <1>10. QED
    BY <1>8, <1>9, FramePopped

LEMMA RawReturnLevels ==
  ASSUME NEW L, CallsInv, LevelsInv, RawReturns(L)
  PROVE  LevelsInv'
  <1> DEFINE s == State
             n == Len(s.cs)
             f == Top
             w == [s EXCEPT !.th[L].jmp = f.jmp, !.th[L].nC = f.nC]
             u == [Pop(w) EXCEPT !.cs[n - 1].status = f.status]
  <1>1. Good(s) /\ ~s.panic /\ f.L = L /\ f.fn = "raw" /\ f = TopOf(s) /\ Placed(s)
    BY Fields DEF RawReturns, Running, CallsInv, LevelsInv
  <1>2. Become(u)
    BY DEF RawReturns, State
  <1>3. CallsInv'
    BY RawReturnKeeps
  <1>4. w = [s EXCEPT !.th[L].jmp = f.jmp, !.th[L].nC = f.nC]
        /\ u = [Pop(w) EXCEPT !.cs[n - 1].status = f.status]
    OBVIOUS
  <1> HIDE DEF s, f, w, u
  <1>5. /\ Sound(s) /\ Shaped(s) /\ f = s.cs[n] /\ n \in Nat \ {0} /\ n > 1 /\ L \in Threads
        /\ f.jmp \in Nat /\ f.nC \in Int /\ f.status \in Statuses
    <2>1. Sound(s) /\ Shaped(s) /\ f = s.cs[n]
      BY <1>1 DEF Good, Sound, TopOf
    <2>2. n \in Nat \ {0} /\ IsFrame(TopOf(s)) /\ TopOf(s).L \in Threads
      BY <2>1, Types
    <2>3. n > 1
      <3>1. TopOf(s).fn # "cfun" /\ Sound(s)
        BY <1>1, <2>1
      <3>2. QED
        BY ONLY <3>1, NotAlone
    <2>4. QED
      BY <1>1, <2>1, <2>2, <2>3 DEF IsFrame
  <1>6. /\ Shaped(u) /\ u.panic = s.panic /\ Shrunk(s, u)
        /\ u.cs[n - 1].status = f.status
        /\ \A i \in 1 .. n - 2 : u.cs[i] = s.cs[i]
        /\ Edit(s, u, L, s.th[L].ci, s.th[L].up, s.th[L].errfunc, s.th[L].status)
    <2> DEFINE j == f.jmp
               x == f.nC
               v == f.status
    <2>1. u = Mark(Pop(RawLeft(s, L, j, x)), Len(s.cs) - 1, v)
      BY <1>4 DEF Mark, RawLeft
    <2>4. /\ j \in Nat /\ x \in Int /\ v \in Statuses
          /\ Shaped(s) /\ L \in Threads /\ Len(s.cs) > 1
      BY ONLY <1>5
    <2>2. v = f.status
      OBVIOUS
    <2> HIDE DEF j, x, v
    <2>3. QED
      BY ONLY <2>1, <2>2, <2>4, RawEdits
  <1>7. Good(u)
    BY <1>2, <1>3, <1>6, GoodNext DEF Shaped
  <1>8. f.status # RESUME_ERROR => Placed(u)
    <2>1. f.status # RESUME_ERROR => Leveled(s.th, s.cs, n)
      BY <1>1, <1>5 DEF Placed, LiveLen
    <2>2. f.status # RESUME_ERROR => \E lev, a : Standing(s, L, lev, a)
      BY <1>1, <1>5, <2>1, Stands
    <2>3. f.status # RESUME_ERROR => Leveled(u.th, u.cs, Len(u.cs)) /\ Len(u.cs) \in Nat \ {0}
      BY <1>1, <1>5, <1>6, <2>2, RawReturned
    <2>4. f.status # RESUME_ERROR => TopOf(u).status # RESUME_ERROR
      BY <1>6 DEF TopOf, Shrunk
    <2>5. QED
      BY <1>7, <2>3, <2>4, Settled DEF Good
  <1>9. f.status = RESUME_ERROR => Placed(u)
    <2> DEFINE m == n - 2
    <2> SUFFICES ASSUME f.status = RESUME_ERROR
                 PROVE  Placed(u)
      OBVIOUS
    <2>1. s.cs[n - 1].fn = "resume" /\ n - 1 \in 1 .. n
      BY <1>1, <1>5 DEF Sound, StatusesOK
    <2>2. m \in 1 .. n /\ m \in Nat \ {0}
      <3>1. FrameAt(s.cs, n - 1)
        BY <1>5, <2>1 DEF Sound, StackOK
      <3>2. n - 1 > 1
        BY ONLY <2>1, <3>1 DEF FrameAt
      <3>3. QED
        BY <1>5, <3>2
    <2>3. Leveled(s.th, s.cs, m)
      BY <1>1, <1>5 DEF Placed, LiveLen
    <2>4. /\ Len(u.cs) = n - 1 /\ u.cs[n - 1].fn = "resume" /\ u.cs[n - 1].status = RESUME_ERROR
          /\ SameRows(s.cs, u.cs, m)
      <3>1. n - 1 \in 1 .. Len(s.cs) - 1 /\ \A i \in 1 .. m : i \in 1 .. Len(s.cs) - 1
        BY <1>5
      <3>2. QED
        BY <1>6, <2>1, <3>1 DEF Shrunk, SameRows
    <2>5. LiveLen(u.cs) = m
      BY <1>5, <2>4 DEF LiveLen
    <2>6. \A t \in Threads : SameThread(u.th[t], s.th[t])
      BY ONLY <1>6 DEF Edit, SameThread
    <2>7. u.cs[m].status = s.cs[m].status /\ m \in 1 .. Len(u.cs)
      <3>1. m \in 1 .. n - 2 /\ m \in 1 .. n - 1
        BY ONLY <1>5, <2>2
      <3> HIDE DEF m
      <3>2. QED
        BY ONLY <1>6, <2>4, <3>1
    <2>8. Leveled(u.th, u.cs, m)
      <3>1. m \in 1 .. Len(s.cs)
        BY <2>2
      <3> HIDE DEF m
      <3>2. QED
        BY <1>5, <2>3, <2>4, <2>6, <2>7, <3>1, LevelsSame
    <2> HIDE DEF m
    <2>9. RefsOK(u.th)
      BY <1>7, <2>7, <2>8, Refs DEF Good
    <2>10. QED
      BY <2>5, <2>8, <2>9 DEF Placed
  <1>10. QED
    BY <1>2, <1>7, <1>8, <1>9, LevelsBecome

----------------------------------------------------------------------------
(* lua_pcallk with a continuation. *)

(* A C function that may yield is called by a frame one level below, and   *)
(* its message handler is that of a suspended protected call.              *)
LEMMA MayYield ==
  ASSUME NEW s, NEW L, Ready(s, L), TopOf(s).fn = "cfun", Nny(s.cs, L, Len(s.cs)) = 0,
         NEW lev, NEW a, Standing(s, L, lev, a)
  PROVE  LET c == s.th[L].ci
             n == Len(s.cs)
             ef == s.th[L].errfunc
         IN  /\ a > 1 /\ s.cs[a].fn = "resume" /\ a < n
             /\ lev[n] = Len(c) /\ lev[n - 1] = Len(c) - 1 /\ Len(c) > 1
             /\ Above(c, s.cs[n - 1].fn, Len(c) - 1, "cfun", Len(c))
             /\ Continued(c, Len(c) - 1) /\ ~c[Len(c)].lua /\ ~c[Len(c)].yp
             /\ ef = 0 \/ (ef \in 1 .. Len(c) - 1 /\ c[ef].yp)
  <1>1. /\ TopOf(s).status = OK /\ TopOf(s) = s.cs[Len(s.cs)] /\ Shaped(s)
    BY ONLY Ready(s, L), ReadyStands
  <1>2. s.cs[Len(s.cs)].status = OK /\ s.cs[Len(s.cs)].fn = "cfun"
    BY <1>1
  <1> DEFINE c == s.th[L].ci
             n == Len(s.cs)
             d == s.cs
             ef == s.th[L].errfunc
  <1>3. d[a].fn = "resume" /\ a > 1 /\ \A i \in 1 .. n : d[i].L = L => d[i].fn # "pcall"
    BY ONLY <1>2, Standing(s, L, lev, a), Nny(s.cs, L, Len(s.cs)) = 0, NoPcall
  <1>4. /\ n \in Nat \ {0} /\ lev[n] = Len(c) /\ Len(c) \in Nat \ {0}
        /\ Justified(c, d, L, n, ef)
    BY ONLY <1>2, Standing(s, L, lev, a), StandsAt
  <1>5. /\ ~c[Len(c)].lua /\ ~c[Len(c)].yp /\ ef \in 0 .. Len(c) - 1
        /\ Len(c) > 1 /\ Continued(c, Len(c) - 1)
    BY ONLY Ready(s, L), TopOf(s).fn = "cfun", Nny(s.cs, L, Len(s.cs)) = 0, CFunction
  <1>6. a \in 1 .. n
    BY ONLY Standing(s, L, lev, a) DEF Standing
  <1>7. d[n].fn # "resume" /\ n > 1 /\ a < n
    <2>1. d[n].fn # "resume"
      BY <1>2
    <2> HIDE DEF n, d, c, ef
    <2>2. a # n
      BY <1>3, <2>1
    <2>3. QED
      BY ONLY <1>3, <1>4, <1>6, <2>1, <2>2
  <1>8. /\ lev[n - 1] \in Nat \ {0}
        /\ Above(c, d[n - 1].fn, lev[n - 1], d[n].fn, lev[n])
    BY ONLY Standing(s, L, lev, a), <1>7, Caller DEF n, d, c
  <1>9. lev[n - 1] = Len(c) - 1
    <2>1. d[n].fn = "cfun"
      BY <1>2
    <2> HIDE DEF n, d, c, ef
    <2>2. lev[n] = lev[n - 1] + 1
      BY ONLY <2>1, <1>8 DEF Above
    <2>3. QED
      BY ONLY <2>2, <1>4, <1>8
  <1>10. ef = 0 \/ (ef \in 1 .. Len(c) - 1 /\ c[ef].yp)
    <2>1. Pcalls(d, L, n, ef) = {}
      <3> HIDE DEF n, d, c, ef
      <3>1. QED
        BY ONLY <1>3 DEF Pcalls
    <2> HIDE DEF n, d, c, ef
    <2>2. ef = 0 \/ (ef \in 1 .. Len(c) /\ c[ef].yp)
      BY ONLY <1>4, <2>1 DEF Justified
    <2>3. QED
      BY ONLY <1>4, <1>5, <2>2
  <1>11. Above(c, d[n - 1].fn, Len(c) - 1, "cfun", Len(c))
    <2>1. d[n].fn = "cfun"
      BY <1>2
    <2> HIDE DEF n, d, c, ef
    <2>2. QED
      BY ONLY <1>4, <1>8, <1>9, <2>1
  <1>12. QED
    BY ONLY <1>3, <1>4, <1>5, <1>7, <1>9, <1>10, <1>11

(* The C function is marked as one that can be resumed in its protected    *)
(* call.                                                                   *)
LEMMA YpcallChain ==
  ASSUME NEW c, ChainOK(c), Len(c) > 1, ~c[Len(c)].lua, Continued(c, Len(c) - 1),
         NEW c2, IsSequence(c2), Len(c2) = Len(c), IsCI(c2[Len(c)]),
         c2[Len(c)].lua = c[Len(c)].lua, c2[Len(c)].yp, c2[Len(c)].k,
         \/ c2[Len(c)].olderr = 0
         \/ c2[Len(c)].olderr \in 1 .. Len(c) - 1 /\ c[c2[Len(c)].olderr].yp,
         \A l \in 1 .. Len(c) : l # Len(c) => c2[l] = c[l]
  PROVE  /\ ChainOK(c2) /\ Continued(c2, Len(c)) /\ Continued(c2, Len(c) - 1)
         /\ ~c2[Len(c)].lua /\ c2[Len(c)].yp
         /\ \A l \in 1 .. Len(c) - 1 : c2[l] = c[l]
         /\ Extends(c, c2, Len(c) - 1)
         /\ \A up : UpOK(c, up) => UpOK(c2, up)
  <1> DEFINE r == c2[Len(c)]
  <1>1. Len(c) \in Nat \ {0}
    BY ChainFacts
  <1>2. r.yp => /\ Len(c) > 1 /\ ~r.lua /\ r.k /\ Continued(c, Len(c) - 1)
                /\ r.olderr = 0 \/ (r.olderr \in 1 .. Len(c) - 1 /\ c[r.olderr].yp)
    OBVIOUS
  <1>3. /\ ChainOK(c2) /\ \A l \in 1 .. Len(c) - 1 : c2[l] = c[l]
        /\ \A x \in 0 .. Len(c) - 1 : Extends(c, c2, x)
    <2>1. c2[Len(c)] = r /\ IsCI(r) /\ r.lua = c[Len(c)].lua
      OBVIOUS
    <2> HIDE DEF r
    <2>2. QED
      BY ONLY <1>2, <2>1, ChainOK(c), IsSequence(c2), Len(c2) = Len(c),
            \A l \in 1 .. Len(c) : l # Len(c) => c2[l] = c[l], ChainMark
  <1>4. Len(c) - 1 \in 0 .. Len(c) - 1
    BY <1>1
  <1>5. Continued(c2, Len(c) - 1)
    <2>1. \A l \in 2 .. Len(c) - 1 : c2[l] = c[l]
      BY <1>1, <1>3
    <2>2. QED
      BY ONLY <2>1, Continued(c, Len(c) - 1) DEF Continued
  <1>6. Continued(c2, Len(c))
    <2>1. \A l \in 2 .. Len(c) : l = Len(c) \/ l \in 2 .. Len(c) - 1
      BY <1>1
    <2>2. QED
      BY ONLY <2>1, <1>5, c2[Len(c)].k DEF Continued
  <1>7. \A up : UpOK(c, up) => UpOK(c2, up)
    BY ONLY ~c[Len(c)].lua, Len(c2) = Len(c), \A l \in 1 .. Len(c) : l # Len(c) => c2[l] = c[l]
       DEF UpOK
  <1>8. QED
    BY <1>3, <1>4, <1>5, <1>6, <1>7

LEMMA PushYpcall ==
  ASSUME NEW s, NEW L, Ready(s, L), TopOf(s).fn = "cfun", Nny(s.cs, L, Len(s.cs)) = 0,
         NEW r, IsCI(r), r.lua = s.th[L].ci[Len(s.th[L].ci)].lua, r.yp, r.k,
         r.olderr = s.th[L].errfunc,
         NEW c2, IsSequence(c2), Len(c2) = Len(s.th[L].ci), c2[Len(s.th[L].ci)] = r,
         \A l \in 1 .. Len(s.th[L].ci) : l # Len(s.th[L].ci) => c2[l] = s.th[L].ci[l],
         NEW f, f.fn = "ypcall", f.L = L, f.status = OK,
         NEW u, Grown(s, u, f), Active(u, L),
         NEW e2, e2 = 0 \/ e2 = Len(s.th[L].ci), Edit(s, u, L, c2, s.th[L].up, e2, OK)
  PROVE  Ready(u, L) /\ Continued(c2, Len(c2)) /\ u.th[L].ci = c2
  <1>1. PICK lev, a : Standing(s, L, lev, a)
    BY ONLY Ready(s, L), ReadyStands
  <1> DEFINE c == s.th[L].ci
             n == Len(s.cs)
             d == s.cs
             x == Len(c)
             m == n + 1
             j == n - 1
             ef == s.th[L].errfunc
  <1>2. /\ n \in Nat \ {0} /\ L \in Threads /\ d[n].L = L /\ lev[n] = x /\ x \in Nat \ {0}
        /\ ThreadsOK(s.th, d, n) /\ ChainOK(c) /\ UpOK(c, s.th[L].up)
        /\ LevelAt(s.th, d, lev, n) /\ d[n].status = OK /\ d[n].fn = "cfun"
    <2>1. TopOf(s).status = OK /\ TopOf(s) = s.cs[Len(s.cs)]
      BY ONLY Ready(s, L), ReadyStands
    <2>2. s.cs[Len(s.cs)].status = OK /\ s.cs[Len(s.cs)].fn = "cfun"
      BY <2>1
    <2>3. QED
      BY ONLY <1>1, <2>2, StandsAt
  <1>3. Frames(s.th, d, lev, n) /\ a \in 1 .. n /\ Span(d, L, a, n)
    BY ONLY <1>1 DEF Standing
  <1>4. /\ a > 1 /\ a < n /\ lev[j] = x - 1 /\ x > 1 /\ Above(c, d[j].fn, x - 1, "cfun", x)
        /\ Continued(c, x - 1) /\ ~c[x].lua
        /\ ef = 0 \/ (ef \in 1 .. x - 1 /\ c[ef].yp)
    BY ONLY <1>1, Ready(s, L), TopOf(s).fn = "cfun", Nny(s.cs, L, Len(s.cs)) = 0, MayYield
  <1>5. /\ ChainOK(c2) /\ Continued(c2, x) /\ Continued(c2, x - 1) /\ Len(c2) = x
        /\ ~c2[x].lua /\ c2[x].yp /\ \A l \in 1 .. x - 1 : c2[l] = c[l]
        /\ Extends(c, c2, x - 1) /\ UpOK(c2, s.th[L].up)
    <2> DEFINE up == s.th[L].up
    <2>1. /\ IsSequence(c2) /\ Len(c2) = x /\ IsCI(c2[x]) /\ c2[x].lua = c[x].lua
          /\ c2[x].yp /\ c2[x].k /\ c2[x].olderr = ef
          /\ \A l \in 1 .. x : l # x => c2[l] = c[l]
      OBVIOUS
    <2>2. ChainOK(c) /\ UpOK(c, up) /\ x > 1 /\ ~c[x].lua /\ Continued(c, x - 1)
          /\ (ef = 0 \/ (ef \in 1 .. x - 1 /\ c[ef].yp))
      BY <1>2, <1>4
    <2> HIDE DEF c, ef, up
    <2>3. \/ c2[x].olderr = 0
          \/ c2[x].olderr \in 1 .. x - 1 /\ c[c2[x].olderr].yp
      <3> HIDE DEF x
      <3>1. QED
        BY ONLY <2>1, <2>2
    <2>4. /\ ChainOK(c2) /\ Continued(c2, x) /\ Continued(c2, x - 1)
          /\ ~c2[x].lua /\ c2[x].yp /\ (\A l \in 1 .. x - 1 : c2[l] = c[l])
          /\ Extends(c, c2, x - 1) /\ \A p : UpOK(c, p) => UpOK(c2, p)
      BY ONLY <2>1, <2>2, <2>3, YpcallChain
    <2>5. UpOK(c2, up)
      BY ONLY <2>2, <2>4
    <2>6. QED
      BY <2>1, <2>4, <2>5 DEF up
  <1>6. Len(u.cs) = m /\ u.cs[m] = f /\ \A i \in 1 .. n : u.cs[i] = d[i]
    BY ONLY Grown(s, u, f) DEF Grown
  <1>7. /\ u.th[L].ci = c2 /\ u.th[L].status = OK /\ u.th[L].up = s.th[L].up
        /\ u.th[L].errfunc = e2 /\ \A t \in Threads : t # L => SameThread(u.th[t], s.th[t])
    BY ONLY Edit(s, u, L, c2, s.th[L].up, e2, OK) DEF Edit
  <1> DEFINE lev2 == Placing(lev, j, m, x, x)
             h == s.th
             h2 == u.th
             d2 == u.cs
             up == s.th[L].up
  <1>8. c = h[L].ci /\ h2[L].ci = c2 /\ h2[L].up = up /\ h2[L].errfunc = e2 /\ h2[L].status = OK
        /\ (\A t \in Threads : t # L => SameThread(h2[t], h[t]))
        /\ d2[m] = f /\ (\A i \in 1 .. n : d2[i] = d[i])
        /\ Len(d2) = m /\ UpOK(c2, up) /\ (e2 = 0 \/ e2 = x)
        /\ Frames(h, d, lev, n) /\ ThreadsOK(h, d, n) /\ LevelAt(h, d, lev, n)
    BY <1>2, <1>3, <1>5, <1>6, <1>7
  <1> HIDE DEF c, n, d, x, ef, h, h2, d2, up
  <1>9. /\ m \in Nat /\ j \in Nat /\ j <= m /\ j \in a - 1 .. n /\ j \in 1 .. n /\ j >= a
        /\ m - 1 = n /\ n - 1 = j /\ m > 1 /\ m # 1 /\ n # 1 /\ m - 2 = j /\ n > 1
        /\ x - 1 \in Nat /\ x - 1 <= x /\ x \in 1 .. x /\ x - 1 \in 1 .. x /\ x = (x - 1) + 1
        /\ (\A i \in 1 .. j : i \in 1 .. n) /\ (\A i \in j + 1 .. m : i = n \/ i = m)
        /\ n \in 1 .. n /\ m \notin 1 .. j /\ ~(n <= j) /\ ~(m <= j) /\ n # m
        /\ j \in 1 .. m /\ n \in 1 .. m /\ m \in 1 .. m /\ j <= j
    BY ONLY <1>2, <1>3, <1>4
  <1>10. lev2[m] = x /\ lev2[n] = x /\ lev2[j] = x - 1
    <2> HIDE DEF m, j
    <2>1. QED
      BY <1>4, <1>9 DEF Placing
  <1> HIDE DEF m, j, lev2
  <1>11. Keeps(h, d, lev, L, a, j, h2, d2, lev)
    <2>1. SameRows(d, d2, j)
      BY ONLY <1>8, <1>9 DEF SameRows
    <2>2. Extends(h[L].ci, h2[L].ci, lev[j])
      BY <1>4, <1>5, <1>8
    <2>3. QED
      BY ONLY <2>1, <2>2, <1>8 DEF Keeps
  <1>12. LevelAt(h2, d2, lev2, m)
    <2>1. d2[m].fn = "ypcall" /\ d2[m].L = L /\ d2[m - 1].fn = "cfun" /\ lev2[m - 1] = x
      BY <1>2, <1>8, <1>9, <1>10
    <2>2. Above(c2, "cfun", x, "ypcall", x)
      BY ONLY <1>5 DEF Above
    <2>3. QED
      BY ONLY <1>5, <1>8, <1>9, <1>10, <2>1, <2>2 DEF LevelAt, Keeping
  <1>13. LevelAt(h2, d2, lev2, n)
    <2>1. d2[n] = d[n] /\ d2[j] = d[j]
      BY ONLY <1>8, <1>9
    <2>2. n > 3 => d2[n - 2] = d[n - 2] /\ d2[n - 3] = d[n - 3]
      <3>1. n > 3 => n - 2 \in 1 .. n /\ n - 3 \in 1 .. n
        BY ONLY <1>2
      <3>2. QED
        BY ONLY <1>8, <3>1
    <2>3. n > 3 /\ d[n - 1].fn = "raw" /\ d[n - 2].fn = "pcall" => d[n - 3].fn = "parser"
      BY <1>2 DEF LevelAt
    <2>4. Above(c2, d[j].fn, x - 1, "cfun", x)
      <3>1. c2[x - 1] = c[x - 1]
        BY ONLY <1>4, <1>5, <1>2
      <3>2. QED
        BY ONLY <1>4, <1>5, <3>1 DEF Above
    <2>5. d2[n].L = L /\ d2[n].fn = "cfun" /\ d2[n - 1].fn = d[j].fn /\ lev2[n - 1] = x - 1
      BY <1>2, <2>1, <1>9, <1>10
    <2>6. n > 3 /\ d2[n - 1].fn = "raw" /\ d2[n - 2].fn = "pcall" => d2[n - 3].fn = "parser"
      BY ONLY <1>9, <2>1, <2>2, <2>3
    <2>7. QED
      BY ONLY <1>5, <1>8, <1>9, <1>10, <2>4, <2>5, <2>6 DEF LevelAt, Keeping
  <1>14. \A i \in j + 1 .. m : LevelAt(h2, d2, lev2, i)
    BY ONLY <1>9, <1>12, <1>13
  <1>15. TopLevel(h2, d2, lev2, m)
    BY <1>5, <1>8, <1>10 DEF TopLevel, OK, YIELD
  <1>16. ThreadOK(h2, d2, L, m)
    <2>1. Justified(c2, d2, L, m, e2)
      BY ONLY <1>5, <1>8, <1>9 DEF Justified
    <2>2. QED
      BY ONLY <1>5, <1>8, <2>1 DEF ThreadOK, OK, YIELD
  <1>17. Leveled(h2, d2, m)
    <2>1. lev2 = Placing(lev, j, m, x, x)
      BY DEF lev2
    <2>2. n \in Nat /\ L \in Threads /\ x \in Nat
      BY ONLY <1>2
    <2>3. Span(d, L, a, n)
      BY <1>3
    <2>4. QED
      BY ONLY <1>8, <1>9, <1>11, <1>14, <1>15, <1>16, <2>1, <2>2, <2>3, Rebuilt
  <1>18. Leveled(u.th, u.cs, Len(u.cs))
    BY <1>17, <1>8 DEF h2, d2
  <1>19. QED
    BY <1>5, <1>7, <1>18 DEF Ready

(* What lua_pcallk writes down before the call. *)
Protect(s, L, e) ==
    [s EXCEPT !.th[L].ci[Depth(s, L)] = [@ EXCEPT !.k = TRUE, !.yp = TRUE,
                                                  !.olderr = s.th[L].errfunc],
              !.th[L].errfunc = e]

(* The innermost frame of c can be resumed as a protected call in c2; the  *)
(* handler to restore is e.                                                *)
Guarded(c, c2, e) ==
    /\ IsSequence(c2) /\ Len(c2) = Len(c) /\ IsCI(c2[Len(c)])
    /\ c2[Len(c)].lua = c[Len(c)].lua /\ c2[Len(c)].yp /\ c2[Len(c)].k
    /\ c2[Len(c)].olderr = e
    /\ \A l \in 1 .. Len(c) : l # Len(c) => c2[l] = c[l]

LEMMA Protects ==
  ASSUME NEW s, NEW L, Active(s, L), ChainOK(s.th[L].ci), NEW e, NEW w, w = Protect(s, L, e)
  PROVE  /\ Active(w, L) /\ w.cs = s.cs /\ Shaped(w)
         /\ Edit(s, w, L, w.th[L].ci, s.th[L].up, e, s.th[L].status)
         /\ Guarded(s.th[L].ci, w.th[L].ci, s.th[L].errfunc)
  <1> DEFINE c == s.th[L].ci
             n == Len(c)
             q1 == [c[n] EXCEPT !.k = TRUE]
             q2 == [q1 EXCEPT !.yp = TRUE]
             r == [q2 EXCEPT !.olderr = s.th[L].errfunc]
             c2 == [c EXCEPT ![n] = r]
             a == [s EXCEPT !.th[L].ci = c2]
             b == [a EXCEPT !.th[L].errfunc = e]
  <1>1. /\ Shaped(s) /\ L \in Threads /\ IsThread(s.th[L])
        /\ s.th = [t \in Threads |-> s.th[t]]
        /\ s = [th |-> s.th, cs |-> s.cs, panic |-> s.panic]
    BY ActiveFacts DEF Shaped
  <1>2. IsSequence(c) /\ n \in Nat \ {0} /\ n \in 1 .. n /\ DOMAIN c = 1 .. n
    <2>1. ChainOK(c)
      OBVIOUS
    <2> HIDE DEF c
    <2>2. IsSequence(c) /\ Len(c) \in Nat \ {0} /\ DOMAIN c = 1 .. Len(c)
      BY ONLY <2>1, ChainFacts
    <2>3. QED
      BY <2>2
  <1>3. w = b
    <2>1. Depth(s, L) = n
      BY DEF Depth
    <2>2. [s EXCEPT !.th[L].ci[n] = [@ EXCEPT !.k = TRUE, !.yp = TRUE,
                                                  !.olderr = s.th[L].errfunc],
                    !.th[L].errfunc = e] = b
      BY <1>1, <1>2 DEF IsThread
    <2>3. QED
      BY <2>1, <2>2 DEF Protect
  <1>4. IsCI(c[n])
    <2>1. ChainOK(c)
      OBVIOUS
    <2> HIDE DEF c
    <2>2. QED
      BY ONLY <1>2, <2>1 DEF ChainOK
  <1>5. a = [s EXCEPT !.th[L].ci = c2] /\ b = [a EXCEPT !.th[L].errfunc = e]
    OBVIOUS
  <1>6. IsCI(r) /\ r.lua = c[n].lua /\ r.yp /\ r.k /\ r.olderr = s.th[L].errfunc
    <2> DEFINE o == c[n]
               f == s.th[L].errfunc
               yes == TRUE
    <2>1. IsCI(o) /\ q1 = [o EXCEPT !.k = yes]
      BY <1>4
    <2>2. q2 = [q1 EXCEPT !.yp = yes]
      OBVIOUS
    <2>3. r = [q2 EXCEPT !.olderr = f]
      OBVIOUS
    <2>4. yes
      OBVIOUS
    <2> HIDE DEF o, q1, q2, r, f, yes
    <2>5. IsCI(q1) /\ q1.lua = o.lua /\ q1.k = yes
      BY ONLY <2>1, WithK
    <2>6. IsCI(q2) /\ q2.lua = q1.lua /\ q2.k = q1.k /\ q2.yp = yes
      BY ONLY <2>2, <2>5, WithYp
    <2>7. IsCI(r) /\ r.lua = q2.lua /\ r.k = q2.k /\ r.yp = q2.yp /\ r.olderr = f
      BY ONLY <2>3, <2>6, WithOlderr
    <2>8. QED
      BY <2>4, <2>5, <2>6, <2>7 DEF o, f
  <1> HIDE DEF q1, q2, r
  <1>7. IsSequence(c2) /\ Len(c2) = n /\ c2[n] = r /\ \A l \in 1 .. n : l # n => c2[l] = c[l]
    <2>1. IsSequence(c) /\ n \in 1 .. Len(c)
      BY <1>2
    <2> HIDE DEF n, c2, c
    <2>2. /\ IsSequence(c2) /\ Len(c2) = Len(c) /\ c2[n] = r
          /\ \A l \in 1 .. Len(c) : l # n => c2[l] = c[l]
      BY ONLY <2>1, Altered DEF c2
    <2>3. QED
      BY ONLY <2>2 DEF n
  <1> HIDE DEF a, b, c2
  <1>8. Active(a, L)
    BY ONLY <1>5, Active(s, L), ActiveFields
  <1>9. Active(b, L) /\ Shaped(a) /\ Shaped(b)
    BY ONLY <1>5, <1>8, ActiveFields, ActiveFacts
  <1>10. a.cs = s.cs /\ Edit(s, a, L, c2, s.th[L].up, s.th[L].errfunc, s.th[L].status)
    BY ONLY <1>1, <1>5, EditCi
  <1>11. b.cs = a.cs /\ Edit(a, b, L, a.th[L].ci, a.th[L].up, e, a.th[L].status)
    BY ONLY <1>1, <1>5, <1>9, EditErrfunc
  <1>12. Edit(s, b, L, c2, s.th[L].up, e, s.th[L].status)
    <2>1. a.th[L].ci = c2 /\ a.th[L].up = s.th[L].up /\ a.th[L].status = s.th[L].status
      BY ONLY <1>10 DEF Edit
    <2>2. Edit(a, b, L, c2, s.th[L].up, e, s.th[L].status)
      BY ONLY <1>11, <2>1
    <2>3. QED
      BY ONLY <1>10, <2>2, EditAgain
  <1>13. b.th[L].ci = c2
    BY <1>12 DEF Edit
  <1>14. Guarded(c, c2, s.th[L].errfunc)
    <2>1. n = Len(c)
      OBVIOUS
    <2> HIDE DEF c, n
    <2>2. QED
      BY <1>6, <1>7, <2>1 DEF Guarded
  <1> HIDE DEF n
  <1>15. QED
    BY <1>3, <1>9, <1>10, <1>11, <1>12, <1>13, <1>14

LEMMA YpcallPushed ==
  ASSUME NEW s, NEW L, Ready(s, L), TopOf(s).fn = "cfun", Nny(s.cs, L, Len(s.cs)) = 0,
         NEW e, e = 0 \/ e = Len(s.th[L].ci),
         NEW u, u = Push(Protect(s, L, e), Frame("ypcall", L))
  PROVE  /\ Ready(u, L) /\ TopOf(u).fn = "ypcall"
         /\ Continued(u.th[L].ci, Len(u.th[L].ci))
  <1> DEFINE w == Protect(s, L, e)
             f == Frame("ypcall", L)
             c2 == w.th[L].ci
  <1>1. /\ Active(s, L) /\ ChainOK(s.th[L].ci) /\ L \in Threads /\ s.th[L].status = OK
        /\ Shaped(s)
    BY ONLY Ready(s, L), SameChain DEF Ready
  <1>2. w = Protect(s, L, e) /\ u = Push(w, f)
    OBVIOUS
  <1>3. IsFrame(f) /\ f.fn = "ypcall" /\ f.L = L /\ f.status = OK /\ f = Frame("ypcall", L)
    BY ONLY <1>1, NewFrame
  <1> HIDE DEF w, f
  <1>4. /\ Active(w, L) /\ w.cs = s.cs /\ Shaped(w)
        /\ Edit(s, w, L, c2, s.th[L].up, e, s.th[L].status)
        /\ Guarded(s.th[L].ci, c2, s.th[L].errfunc)
    <2>1. Active(s, L) /\ ChainOK(s.th[L].ci) /\ w = Protect(s, L, e)
      BY <1>1, <1>2
    <2>2. QED
      BY ONLY <2>1, Protects
  <1> HIDE DEF c2
  <1>5. Active(u, L)
    <2> DEFINE fn == "ypcall"
    <2>1. fn \notin {"raw", "resume", "noyield", "parser", "call", "pcall"} /\ f = Frame(fn, L)
      BY <1>3
    <2> HIDE DEF fn
    <2>2. Active(Push(w, Frame(fn, L)), L)
      BY ONLY <1>4, <2>1, PushPlain
    <2>3. QED
      BY <1>2, <2>1, <2>2
  <1>6. Edit(s, w, L, c2, s.th[L].up, e, OK)
    BY ONLY <1>1, <1>4
  <1>7. Grown(s, u, f) /\ Edit(s, u, L, c2, s.th[L].up, e, OK)
    <2>1. Shaped(w) /\ w.cs = s.cs
      BY <1>4
    <2>2. QED
      BY ONLY <1>2, <1>3, <1>6, <2>1, PushedEdit
  <1>8. Ready(u, L) /\ Continued(c2, Len(c2)) /\ u.th[L].ci = c2
    <2> DEFINE r == c2[Len(s.th[L].ci)]
    <2>1. /\ IsCI(r) /\ r.lua = s.th[L].ci[Len(s.th[L].ci)].lua /\ r.yp /\ r.k
          /\ r.olderr = s.th[L].errfunc /\ c2[Len(s.th[L].ci)] = r
      BY <1>4 DEF Guarded
    <2>2. /\ IsSequence(c2) /\ Len(c2) = Len(s.th[L].ci)
          /\ \A l \in 1 .. Len(s.th[L].ci) : l # Len(s.th[L].ci) => c2[l] = s.th[L].ci[l]
      BY <1>4 DEF Guarded
    <2>3. f.fn = "ypcall" /\ f.L = L /\ f.status = OK
      BY <1>3
    <2> HIDE DEF r
    <2>4. QED
      BY ONLY <1>5, <1>7, <2>1, <2>2, <2>3, Ready(s, L), TopOf(s).fn = "cfun",
              Nny(s.cs, L, Len(s.cs)) = 0, e = 0 \/ e = Len(s.th[L].ci), PushYpcall, SMTT(20)
  <1>9. TopOf(u).fn = "ypcall"
    BY <1>3, <1>7 DEF TopOf, Grown
  <1>10. QED
    BY <1>8, <1>9

LEMMA PcallkLevels ==
  ASSUME NEW L, NEW k \in BOOLEAN, NEW ef \in BOOLEAN, CallsInv, LevelsInv, Lua_pcallk(L, k, ef)
  PROVE  LevelsInv'
  <1> DEFINE s == State
             func == IF ef THEN Depth(s, L) ELSE 0
             u == Push(Protect(s, L, func), Frame("ypcall", L))
             p == LuaD_pcall(s, L, func)
  <1>1. Ready(s, L) /\ TopOf(s).fn = "cfun"
    BY LevelsRun DEF Lua_pcallk, Running
  <1>2. PICK lua \in BOOLEAN :
          Become(IF k /\ s.th[L].nny = 0 THEN LuaD_call(u, L, lua)
                 ELSE LuaD_callnoyield(p, L, lua))
    BY DEF Lua_pcallk, State, Protect
  <1>3. u = Push(Protect(s, L, func), Frame("ypcall", L)) /\ p = LuaD_pcall(s, L, func)
        /\ (func = 0 \/ func = Len(s.th[L].ci))
    BY DEF Depth
  <1> HIDE DEF s, func, u, p
  <1>4. Good(LuaD_callnoyield(p, L, lua)) /\ Placed(LuaD_callnoyield(p, L, lua))
    <2>1. ~s.th[L].ci[Len(s.th[L].ci)].lua /\ s.th[L].errfunc \in 0 .. Len(s.th[L].ci) - 1
      BY ONLY <1>1, CFunction
    <2>2. func = 0 \/ func = Len(s.th[L].ci) \/ func = s.th[L].errfunc
      BY <1>3
    <2>3. TopOf(s).fn \in {"cfun", "parser"} /\ Ready(s, L) /\ p = LuaD_pcall(s, L, func)
      BY <1>1, <1>3
    <2>4. Ready(p, L) /\ TopOf(p).fn = "raw"
      BY ONLY <2>1, <2>2, <2>3, PcallReady
    <2>5. QED
      BY <2>4, CallNoyield, CalledNoyield DEF Ready
  <1>5. s.th[L].nny = 0 => Good(LuaD_call(u, L, lua)) /\ Placed(LuaD_call(u, L, lua))
    <2> SUFFICES ASSUME s.th[L].nny = 0
                 PROVE  Good(LuaD_call(u, L, lua)) /\ Placed(LuaD_call(u, L, lua))
      OBVIOUS
    <2>1. Nny(s.cs, L, Len(s.cs)) = 0
      BY <1>1, ActiveFacts DEF Ready
    <2>2. /\ Ready(u, L) /\ TopOf(u).fn = "ypcall"
          /\ Continued(u.th[L].ci, Len(u.th[L].ci))
      BY ONLY <1>1, <1>3, <2>1, YpcallPushed
    <2>3. QED
      BY <2>2, Call, Called DEF Ready
  <1>6. QED
    BY <1>2, <1>4, <1>5, LevelsBecome

(* What comes after it, or when its function is resumed. *)
Unprotect(s, L) ==
    [s EXCEPT !.th[L].ci[Depth(s, L)].yp = FALSE, !.th[L].errfunc = CurrentCI(s, L).olderr]

Released(s, w, L, c, c2, e) ==
    /\ w.cs = s.cs /\ Edit(s, w, L, c2, s.th[L].up, e, s.th[L].status)
    /\ ChainOK(c2) /\ Len(c2) = Len(c) /\ ~c2[Len(c)].yp
    /\ c2[Len(c)].lua = c[Len(c)].lua /\ c2[Len(c)].k = c[Len(c)].k
    /\ c2[Len(c)].fresh = c[Len(c)].fresh
    /\ \A l \in 1 .. Len(c) - 1 : c2[l] = c[l]
    /\ \A x \in 0 .. Len(c) - 1 : Extends(c, c2, x)
    /\ \A l \in 1 .. Len(c) : c2[l].lua = c[l].lua /\ c2[l].k = c[l].k

LEMMA Unprotects ==
  ASSUME NEW s, NEW L, Active(s, L), ChainOK(s.th[L].ci), NEW w, w = Unprotect(s, L)
  PROVE  LET c == s.th[L].ci
         IN  /\ Active(w, L) /\ Shaped(w)
             /\ Released(s, w, L, c, w.th[L].ci, c[Len(c)].olderr)
  <1> DEFINE c == s.th[L].ci
             n == Len(c)
             r == [c[n] EXCEPT !.yp = FALSE]
             e == c[n].olderr
             c2 == [c EXCEPT ![n] = r]
             a == [s EXCEPT !.th[L].ci = c2]
             b == [a EXCEPT !.th[L].errfunc = e]
  <1>1. /\ Shaped(s) /\ L \in Threads /\ IsThread(s.th[L])
        /\ s.th = [t \in Threads |-> s.th[t]]
        /\ s = [th |-> s.th, cs |-> s.cs, panic |-> s.panic]
    BY ActiveFacts DEF Shaped
  <1>2. IsSequence(c) /\ n \in Nat \ {0} /\ n \in 1 .. n /\ DOMAIN c = 1 .. n
    <2>1. ChainOK(c)
      OBVIOUS
    <2> HIDE DEF c
    <2>2. IsSequence(c) /\ Len(c) \in Nat \ {0} /\ DOMAIN c = 1 .. Len(c)
      BY ONLY <2>1, ChainFacts
    <2>3. QED
      BY <2>2
  <1>3. w = b
    <2>1. Depth(s, L) = n /\ CurrentCI(s, L).olderr = e
      BY DEF Depth, CurrentCI
    <2>2. [s EXCEPT !.th[L].ci[n].yp = FALSE, !.th[L].errfunc = e] = b
      BY <1>1, <1>2 DEF IsThread
    <2>3. QED
      BY <2>1, <2>2 DEF Unprotect
  <1>4. IsCI(c[n])
    <2>1. ChainOK(c)
      OBVIOUS
    <2> HIDE DEF c
    <2>2. QED
      BY ONLY <1>2, <2>1 DEF ChainOK
  <1>5. a = [s EXCEPT !.th[L].ci = c2] /\ b = [a EXCEPT !.th[L].errfunc = e]
    OBVIOUS
  <1>6. IsCI(r) /\ r.lua = c[n].lua /\ ~r.yp /\ r.k = c[n].k /\ r.fresh = c[n].fresh
    <2> DEFINE o == c[n]
               no == FALSE
    <2>1. IsCI(o) /\ r = [o EXCEPT !.yp = no]
      BY <1>4
    <2>2. ~no
      OBVIOUS
    <2> HIDE DEF o, r, no
    <2>3. IsCI(r) /\ r.lua = o.lua /\ r.k = o.k /\ r.yp = no /\ r.fresh = o.fresh
      BY ONLY <2>1, WithYp
    <2>4. QED
      BY <2>2, <2>3 DEF o
  <1> HIDE DEF r
  <1>7. IsSequence(c2) /\ Len(c2) = n /\ c2[n] = r /\ \A l \in 1 .. n : l # n => c2[l] = c[l]
    <2>1. IsSequence(c) /\ n \in 1 .. Len(c)
      BY <1>2
    <2> HIDE DEF n, c2, c
    <2>2. /\ IsSequence(c2) /\ Len(c2) = Len(c) /\ c2[n] = r
          /\ \A l \in 1 .. Len(c) : l # n => c2[l] = c[l]
      BY ONLY <2>1, Altered DEF c2
    <2>3. QED
      BY ONLY <2>2 DEF n
  <1> HIDE DEF a, b, c2, e
  <1>8. Active(a, L)
    BY ONLY <1>5, Active(s, L), ActiveFields
  <1>9. Active(b, L) /\ Shaped(a) /\ Shaped(b)
    BY ONLY <1>5, <1>8, ActiveFields, ActiveFacts
  <1>10. a.cs = s.cs /\ Edit(s, a, L, c2, s.th[L].up, s.th[L].errfunc, s.th[L].status)
    BY ONLY <1>1, <1>5, EditCi
  <1>11. b.cs = a.cs /\ Edit(a, b, L, a.th[L].ci, a.th[L].up, e, a.th[L].status)
    BY ONLY <1>1, <1>5, <1>9, EditErrfunc
  <1>12. Edit(s, b, L, c2, s.th[L].up, e, s.th[L].status)
    <2>1. a.th[L].ci = c2 /\ a.th[L].up = s.th[L].up /\ a.th[L].status = s.th[L].status
      BY ONLY <1>10 DEF Edit
    <2>2. Edit(a, b, L, c2, s.th[L].up, e, s.th[L].status)
      BY ONLY <1>11, <2>1
    <2>3. QED
      BY ONLY <1>10, <2>2, EditAgain
  <1>13. b.th[L].ci = c2
    BY <1>12 DEF Edit
  <1>14. ChainOK(c)
    OBVIOUS
  <1> HIDE DEF c
  <1>15. /\ ChainOK(c2) /\ \A l \in 1 .. n - 1 : c2[l] = c[l]
         /\ \A x \in 0 .. n - 1 : Extends(c, c2, x)
    BY <1>6, <1>7, <1>14, ChainMark
  <1>16. \A l \in 1 .. n : c2[l].lua = c[l].lua /\ c2[l].k = c[l].k
    <2> HIDE DEF n
    <2>1. QED
      BY ONLY <1>6, <1>7
  <1>17. Released(s, b, L, c, c2, e)
    BY <1>6, <1>7, <1>10, <1>11, <1>12, <1>15, <1>16 DEF Released
  <1>18. QED
    BY <1>3, <1>9, <1>13, <1>17 DEF c, e, n

LEMMA Olderr ==
  ASSUME NEW c, ChainOK(c), c[Len(c)].yp, NEW c2, Len(c2) = Len(c),
         \A l \in 1 .. Len(c) - 1 : c2[l] = c[l]
  PROVE  /\ Len(c) > 1 /\ ~c[Len(c)].lua /\ Continued(c, Len(c))
         /\ \A d, t, n : Justified(c2, d, t, n, c[Len(c)].olderr)
  <1>1. Len(c) \in Nat \ {0}
    BY ChainFacts
  <1>2. Len(c) \in 1 .. Len(c)
    BY <1>1
  <1> DEFINE x == Len(c)
             e == c[x].olderr
  <1>3. /\ x > 1 /\ ~c[x].lua /\ Continued(c, x)
        /\ e = 0 \/ (e \in 1 .. x - 1 /\ c[e].yp)
    BY ONLY <1>2, ChainOK(c), c[x].yp DEF ChainOK
  <1> HIDE DEF x, e
  <1>4. e = 0 \/ (e \in 1 .. Len(c2) /\ c2[e].yp)
    <2>1. Len(c2) = x /\ x \in Nat /\ \A l \in 1 .. x - 1 : c2[l] = c[l]
      BY <1>1 DEF x
    <2>2. QED
      BY ONLY <1>3, <2>1
  <1>5. \A d, t, n : Justified(c2, d, t, n, e)
    BY ONLY <1>4 DEF Justified
  <1>6. QED
    BY <1>3, <1>5 DEF x, e

(* lua_pcallk goes back to the C function that has called it. *)
LEMMA YpcallReturned ==
  ASSUME NEW s, NEW L, Ready(s, L), TopOf(s).fn = "ypcall",
         NEW w, NEW c2, NEW e, Released(s, w, L, s.th[L].ci, c2, e),
         e = s.th[L].ci[Len(s.th[L].ci)].olderr,
         NEW u, u.th = w.th, Len(u.cs) = Len(s.cs) - 1,
         \A i \in 1 .. Len(s.cs) - 1 : u.cs[i] = s.cs[i], Active(u, L)
  PROVE  Ready(u, L)
  <1>1. PICK lev, a : Standing(s, L, lev, a)
    BY ONLY Ready(s, L), ReadyStands
  <1> DEFINE c == s.th[L].ci
             n == Len(s.cs)
             d == s.cs
             x == Len(c)
             m == n - 1
             j == n - 2
             up == s.th[L].up
  <1>2. /\ n \in Nat \ {0} /\ L \in Threads /\ d[n].L = L /\ lev[n] = x /\ x \in Nat \ {0}
        /\ ThreadsOK(s.th, d, n) /\ ChainOK(c) /\ UpOK(c, up) /\ s.th[L].status = OK
        /\ d[n].fn = "ypcall"
    <2>1. TopOf(s).status = OK /\ TopOf(s) = s.cs[Len(s.cs)]
      BY ONLY Ready(s, L), ReadyStands
    <2>2. s.cs[Len(s.cs)].status = OK /\ s.cs[Len(s.cs)].fn = "ypcall"
      BY <2>1
    <2>3. /\ Len(s.cs) \in Nat \ {0} /\ L \in Threads /\ s.cs[Len(s.cs)].L = L
          /\ lev[Len(s.cs)] = Len(s.th[L].ci) /\ Len(s.th[L].ci) \in Nat \ {0}
          /\ ThreadsOK(s.th, s.cs, Len(s.cs)) /\ ChainOK(s.th[L].ci)
          /\ UpOK(s.th[L].ci, s.th[L].up)
      BY ONLY <1>1, <2>2, StandsAt
    <2>4. s.th[L].status = OK
      BY ONLY Ready(s, L), SameChain
    <2>5. QED
      BY <2>2, <2>3, <2>4
  <1>3. Frames(s.th, d, lev, n) /\ a \in 1 .. n /\ Span(d, L, a, n)
        /\ (a = 1 \/ d[a].fn = "resume")
    BY ONLY <1>1 DEF Standing
  <1>4. /\ a < n /\ n > 1 /\ m \in a .. n /\ d[m].L = L
        /\ lev[m] \in Nat \ {0} /\ Above(c, d[m].fn, lev[m], d[n].fn, lev[n])
        /\ LevelAt(s.th, d, lev, m)
    <2>1. s.cs[Len(s.cs)].fn \notin {"cfun", "resume"}
      BY <1>2
    <2>2. QED
      BY ONLY <1>1, <2>1, Within
  <1>5. /\ w.cs = s.cs /\ Edit(s, w, L, c2, up, e, s.th[L].status)
        /\ ChainOK(c2) /\ Len(c2) = x /\ ~c2[x].yp
        /\ c2[x].lua = c[x].lua /\ c2[x].k = c[x].k
        /\ (\A l \in 1 .. x - 1 : c2[l] = c[l])
        /\ (\A y \in 0 .. x - 1 : Extends(c, c2, y))
        /\ (\A l \in 1 .. x : c2[l].lua = c[l].lua /\ c2[l].k = c[l].k)
    BY DEF Released
  <1>6. /\ u.th[L].ci = c2 /\ u.th[L].status = OK /\ u.th[L].up = up /\ u.th[L].errfunc = e
        /\ \A t \in Threads : t # L => SameThread(u.th[t], s.th[t])
    BY <1>2, <1>5 DEF Edit
  <1> DEFINE lev2 == Placing(lev, j, m, x, x)
             h == s.th
             h2 == u.th
             d2 == u.cs
  <1>7. c = h[L].ci /\ h2[L].ci = c2 /\ h2[L].up = up /\ h2[L].errfunc = e /\ h2[L].status = OK
        /\ (\A t \in Threads : t # L => SameThread(h2[t], h[t]))
        /\ (\A i \in 1 .. m : d2[i] = d[i]) /\ e = c[x].olderr
        /\ Len(d2) = m /\ Active(u, L)
        /\ Frames(h, d, lev, n) /\ ThreadsOK(h, d, n) /\ LevelAt(h, d, lev, m)
    BY <1>2, <1>3, <1>4, <1>6
  <1> HIDE DEF c, n, d, x, h, h2, d2, up
  <1>8. d[m].fn = "cfun" /\ c[x].yp /\ lev[m] = x
    BY ONLY <1>2, <1>4 DEF Above
  <1>9. x > 1 /\ ~c[x].lua /\ Continued(c, x)
        /\ Justified(c2, d2, L, m, e)
    <2>1. /\ ChainOK(c) /\ c[Len(c)].yp /\ Len(c2) = Len(c)
          /\ \A l \in 1 .. Len(c) - 1 : c2[l] = c[l]
      BY <1>2, <1>5, <1>8 DEF x
    <2>2. /\ Len(c) > 1 /\ ~c[Len(c)].lua /\ Continued(c, Len(c))
          /\ \A dd, t, nn : Justified(c2, dd, t, nn, c[Len(c)].olderr)
      BY ONLY <2>1, Olderr
    <2> HIDE DEF m
    <2>3. QED
      BY <1>7, <2>2 DEF x
  <1>10. m # 1
    <2>1. m = 1 => lev[m] = 1
      BY <1>7 DEF LevelAt
    <2>2. QED
      BY ONLY <1>8, <1>9, <2>1
  <1>11. a # m
    <2>1. d[m].fn # "resume"
      BY ONLY <1>8
    <2>2. QED
      BY ONLY <1>3, <1>10, <2>1
  <1>12. /\ m \in Nat /\ j \in Nat /\ j <= m /\ j \in a - 1 .. n /\ j \in 1 .. m /\ j >= a
        /\ m - 1 = j /\ m > 1 /\ m \in 1 .. m /\ m \notin 1 .. j /\ ~(m <= j)
        /\ x - 1 \in Nat /\ x - 1 <= x /\ x \in 1 .. x /\ x - 1 \in 1 .. x /\ x = (x - 1) + 1
        /\ x - 1 \in 1 .. x - 1 /\ x - 1 \in 0 .. x - 1
        /\ (\A i \in 1 .. j : i \in 1 .. m) /\ (\A i \in j + 1 .. m : i = m)
        /\ j <= j /\ j \in 1 .. j
    BY ONLY <1>2, <1>3, <1>4, <1>9, <1>10, <1>11
  <1>13. lev2[m] = x /\ lev2[j] = lev[j]
    <2> HIDE DEF m, j
    <2>1. QED
      BY <1>12 DEF Placing
  <1> HIDE DEF m, j, lev2
  <1>14. Above(c, d[j].fn, lev[j], "cfun", x)
    <2>1. LevelAt(h, d, lev, m) /\ d[m].L = L /\ c = h[L].ci
      BY ONLY <1>4, <1>7
    <2>2. QED
      BY ONLY <1>8, <1>12, <2>1 DEF LevelAt
  <1>15. lev[j] = x - 1
    <2>1. j \in 1 .. n
      BY <1>2, <1>12 DEF m
    <2>2. LevelAt(h, d, lev, j)
      BY ONLY <2>1, <1>7 DEF Frames
    <2>3. \E q : lev[j] \in 1 .. Len(q)
      BY ONLY <2>2 DEF LevelAt
    <2>4. lev[j] \in Int
      BY <2>3
    <2>5. x = lev[j] + 1
      BY ONLY <1>14 DEF Above
    <2>6. QED
      BY ONLY <2>4, <2>5
  <1>16. Keeps(h, d, lev, L, a, j, h2, d2, lev)
    <2>1. SameRows(d, d2, j)
      BY ONLY <1>7, <1>12 DEF SameRows
    <2>2. Extends(h[L].ci, h2[L].ci, lev[j])
      BY ONLY <1>5, <1>7, <1>12, <1>15
    <2>3. QED
      BY ONLY <2>1, <2>2, <1>7 DEF Keeps
  <1>17. LevelAt(h2, d2, lev2, m)
    <2>1. d2[m] = d[m] /\ d2[j] = d[j]
      BY ONLY <1>7, <1>12
    <2>2. m > 3 => d2[m - 2] = d[m - 2] /\ d2[m - 3] = d[m - 3]
      <3>1. m > 3 => m - 2 \in 1 .. m /\ m - 3 \in 1 .. m
        BY ONLY <1>12
      <3>2. QED
        BY ONLY <1>7, <3>1
    <2>3. m > 3 /\ d[m - 1].fn = "raw" /\ d[m - 2].fn = "pcall" => d[m - 3].fn = "parser"
      BY ONLY <1>7, <1>8 DEF LevelAt
    <2>4. Above(c2, d[j].fn, x - 1, "cfun", x)
      <3>1. c2[x - 1] = c[x - 1]
        BY ONLY <1>5, <1>12
      <3>2. ~c2[x].lua
        BY ONLY <1>5, <1>9
      <3>3. Above(c, d[j].fn, x - 1, "cfun", x)
        BY ONLY <1>14, <1>15
      <3>4. QED
        BY ONLY <3>1, <3>2, <3>3 DEF Above
    <2>5. d2[m].L = L /\ d2[m].fn = "cfun" /\ d2[m - 1].fn = d[j].fn /\ lev2[m - 1] = x - 1
      BY ONLY <1>4, <1>8, <2>1, <1>12, <1>13, <1>15
    <2>6. m > 3 /\ d2[m - 1].fn = "raw" /\ d2[m - 2].fn = "pcall" => d2[m - 3].fn = "parser"
      BY ONLY <1>12, <2>1, <2>2, <2>3
    <2>7. Continued(c2, x - 1)
      <3>1. \A l \in 2 .. x - 1 : l \in 2 .. x /\ l \in 1 .. x - 1
        BY ONLY <1>12
      <3>2. QED
        BY ONLY <3>1, <1>5, <1>9 DEF Continued
    <2>8. QED
      BY ONLY <1>5, <1>7, <1>12, <1>13, <2>4, <2>5, <2>6, <2>7 DEF LevelAt, Keeping
  <1>18. \A i \in j + 1 .. m : LevelAt(h2, d2, lev2, i)
    BY ONLY <1>12, <1>17
  <1>19. d2[m].status = OK /\ d2[m].L = L
    BY ONLY <1>7, Active(u, L), ActiveFacts DEF Active, TopOf, d2
  <1>20. TopLevel(h2, d2, lev2, m)
    BY <1>5, <1>7, <1>13, <1>19 DEF TopLevel, OK, YIELD
  <1>21. ThreadOK(h2, d2, L, m)
    <2>1. UpOK(c2, up)
      BY ONLY <1>2, <1>5 DEF UpOK, x
    <2>2. QED
      BY ONLY <1>5, <1>7, <1>9, <2>1 DEF ThreadOK, OK, YIELD
  <1>22. Leveled(h2, d2, m)
    <2>1. lev2 = Placing(lev, j, m, x, x)
      BY DEF lev2
    <2>2. n \in Nat /\ L \in Threads /\ x \in Nat
      BY ONLY <1>2
    <2>3. Span(d, L, a, n)
      BY <1>3
    <2>4. QED
      BY ONLY <1>7, <1>12, <1>16, <1>18, <1>20, <1>21, <2>1, <2>2, <2>3, Rebuilt
  <1>23. Leveled(u.th, u.cs, Len(u.cs))
    BY <1>22, <1>7 DEF h2, d2
  <1>24. QED
    BY <1>7, <1>23 DEF Ready

LEMMA YpcallReturnLevels ==
  ASSUME NEW L, CallsInv, LevelsInv, YpcallReturns(L)
  PROVE  LevelsInv'
  <1> DEFINE s == State
             w == Unprotect(s, L)
             u == Pop(w)
  <1>1. Ready(s, L) /\ TopOf(s).fn = "ypcall"
    BY LevelsRun DEF YpcallReturns, Running
  <1>2. Become(u)
    BY DEF YpcallReturns, State, Unprotect
  <1>3. CallsInv'
    BY YpcallReturnKeeps
  <1>4. w = Unprotect(s, L) /\ u = Pop(w)
    OBVIOUS
  <1> HIDE DEF s, w, u
  <1>5. Active(s, L) /\ ChainOK(s.th[L].ci) /\ Len(s.cs) \in Nat \ {0}
    BY ONLY <1>1, SameChain DEF Ready
  <1>6. /\ Active(w, L) /\ Shaped(w)
        /\ Released(s, w, L, s.th[L].ci, w.th[L].ci, s.th[L].ci[Len(s.th[L].ci)].olderr)
    BY ONLY <1>4, <1>5, Unprotects
  <1>7. Len(s.cs) > 1
    <2>1. Sound(s) /\ TopOf(s).fn # "cfun"
      BY <1>1, <1>5, ActiveFacts
    <2>2. QED
      BY ONLY <2>1, NotAlone
  <1>8. w.cs = s.cs /\ Len(w.cs) > 1 /\ TopOf(w) = TopOf(s)
    <2>1. w.cs = s.cs
      BY ONLY <1>6, Zenon DEF Released
    <2>2. QED
      BY <1>7, <2>1 DEF TopOf
  <1>9. Active(u, L)
    <2>1. TopOf(w).fn \notin {"raw", "resume", "noyield", "parser", "call", "pcall"}
      BY <1>1, <1>8
    <2>2. QED
      BY ONLY <1>4, <1>6, <1>8, <2>1, PopPlain
  <1>10. u.th = w.th /\ Len(u.cs) = Len(s.cs) - 1
         /\ \A i \in 1 .. Len(s.cs) - 1 : u.cs[i] = s.cs[i]
    <2>1. /\ Len(u.cs) = Len(w.cs) - 1 /\ u.th = w.th
          /\ \A i \in 1 .. Len(w.cs) - 1 : u.cs[i] = w.cs[i]
      BY ONLY <1>4, <1>6, <1>8, PopShaped
    <2>2. QED
      BY <1>8, <2>1
  <1>11. Ready(u, L)
    <2> DEFINE c2 == w.th[L].ci
               e == s.th[L].ci[Len(s.th[L].ci)].olderr
    <2>1. Released(s, w, L, s.th[L].ci, c2, e) /\ e = s.th[L].ci[Len(s.th[L].ci)].olderr
      BY <1>6
    <2> HIDE DEF c2, e
    <2>2. QED
      BY ONLY <1>1, <1>9, <1>10, <2>1, YpcallReturned
  <1>12. QED
    BY <1>2, <1>11, ReadyPlaced, LevelsBecome

----------------------------------------------------------------------------
(* What a coroutine was interrupted in goes on. *)

(* unroll goes on with the current function.  What it rests on stands one  *)
(* level below.                                                            *)
LEMMA Unrolled ==
  ASSUME NEW s, NEW L, Ready(s, L), TopOf(s).fn = "unroll", Len(s.th[L].ci) > 1,
         NEW f, f.L = L, f.status = OK,
         NEW c2, ChainOK(c2), Len(c2) = Len(s.th[L].ci),
         \A l \in 1 .. Len(c2) - 1 : c2[l] = s.th[L].ci[l],
         Extends(s.th[L].ci, c2, 1), ~c2[Len(c2)].yp,
         \/ f.fn = "cfun" /\ ~c2[Len(c2)].lua
         \/ f.fn = "execute" /\ c2[Len(c2)].lua /\ c2[Len(c2)].fresh,
         NEW p2, UpOK(c2, p2), NEW e2, Justified(c2, s.cs, L, Len(s.cs), e2),
         NEW u, Grown(s, u, f), Edit(s, u, L, c2, p2, e2, OK)
  PROVE  Leveled(u.th, u.cs, Len(u.cs))
  <1>1. PICK lev, a : Standing(s, L, lev, a)
    BY ONLY Ready(s, L), ReadyStands
  <1> DEFINE c == s.th[L].ci
             n == Len(s.cs)
             d == s.cs
             x == Len(c)
             m == n + 1
             j == n - 1
  <1>2. /\ n \in Nat \ {0} /\ L \in Threads /\ d[n].L = L /\ lev[n] = x /\ x \in Nat \ {0}
        /\ ThreadsOK(s.th, d, n) /\ d[n].fn = "unroll" /\ LevelAt(s.th, d, lev, n) /\ x > 1
    <2>1. TopOf(s).status = OK /\ TopOf(s) = s.cs[Len(s.cs)]
      BY ONLY Ready(s, L), ReadyStands
    <2>2. s.cs[Len(s.cs)].status = OK /\ s.cs[Len(s.cs)].fn = "unroll"
      BY <2>1
    <2>3. /\ Len(s.cs) \in Nat \ {0} /\ L \in Threads /\ s.cs[Len(s.cs)].L = L
          /\ lev[Len(s.cs)] = Len(s.th[L].ci) /\ Len(s.th[L].ci) \in Nat \ {0}
          /\ ThreadsOK(s.th, s.cs, Len(s.cs)) /\ LevelAt(s.th, s.cs, lev, Len(s.cs))
      BY ONLY <1>1, <2>2, StandsAt
    <2>4. QED
      BY <2>2, <2>3
  <1>3. Frames(s.th, d, lev, n) /\ a \in 1 .. n /\ Span(d, L, a, n)
    BY ONLY <1>1 DEF Standing
  <1>4. /\ a < n /\ n > 1 /\ j \in a .. n /\ j \in Nat \ {0} /\ d[j].L = L
        /\ Above(c, d[j].fn, lev[j], d[n].fn, lev[n]) /\ LevelAt(s.th, d, lev, j)
    <2>1. s.cs[Len(s.cs)].fn \notin {"cfun", "resume"}
      BY <1>2
    <2>2. QED
      BY ONLY <1>1, <2>1, Within
  <1>5. Len(u.cs) = m /\ u.cs[m] = f /\ \A i \in 1 .. n : u.cs[i] = d[i]
    BY ONLY Grown(s, u, f) DEF Grown
  <1>6. /\ u.th[L].ci = c2 /\ u.th[L].status = OK /\ u.th[L].up = p2
        /\ u.th[L].errfunc = e2 /\ \A t \in Threads : t # L => SameThread(u.th[t], s.th[t])
    BY ONLY Edit(s, u, L, c2, p2, e2, OK) DEF Edit
  <1>7. f.L # L \/ f.fn \notin {"noyield", "parser", "resume"}
    OBVIOUS
  <1>8. Nny(u.cs, L, m) = Nny(d, L, n) /\ Nny(u.cs, L, n) = Nny(d, L, n)
        /\ \A e : Pcalls(d, L, n, e) \subseteq Pcalls(u.cs, L, m, e)
    BY ONLY <1>2, <1>7, Grown(s, u, f), GrownCounts
  <1> DEFINE lev2 == Placing(lev, j, m, x - 1, x)
             h == s.th
             h2 == u.th
             d2 == u.cs
  <1>9. c = h[L].ci /\ h2[L].ci = c2 /\ h2[L].up = p2 /\ h2[L].errfunc = e2 /\ h2[L].status = OK
        /\ (\A t \in Threads : t # L => SameThread(h2[t], h[t]))
        /\ (\A i \in 1 .. n : d2[i] = d[i]) /\ d2[m] = f /\ f.L = L /\ f.status = OK
        /\ Len(d2) = m /\ Nny(d2, L, m) = Nny(d, L, n) /\ Nny(d2, L, n) = Nny(d, L, n)
        /\ (\A e : Pcalls(d, L, n, e) \subseteq Pcalls(d2, L, m, e))
        /\ Frames(h, d, lev, n) /\ ThreadsOK(h, d, n) /\ LevelAt(h, d, lev, n)
        /\ LevelAt(h, d, lev, j) /\ Justified(c2, d, L, n, e2) /\ Extends(c, c2, 1)
        /\ ChainOK(c2) /\ Len(c2) = x /\ ~c2[x].yp /\ UpOK(c2, p2)
        /\ (\A l \in 1 .. x - 1 : c2[l] = c[l])
    BY <1>2, <1>3, <1>4, <1>5, <1>6, <1>8
  <1>10. \/ f.fn = "cfun" /\ ~c2[x].lua
         \/ f.fn = "execute" /\ c2[x].lua /\ c2[x].fresh
    OBVIOUS
  <1> HIDE DEF c, n, d, x, h, h2, d2
  <1>11. /\ m \in Nat /\ j \in Nat /\ j <= m /\ j \in a - 1 .. n /\ j \in 1 .. n /\ j >= a
         /\ m - 1 = n /\ n - 1 = j /\ m > 1 /\ m # 1 /\ n # 1 /\ n > 1
         /\ x - 1 \in Nat /\ x - 1 < x /\ x \in 1 .. x /\ x - 1 \in 1 .. x /\ x = (x - 1) + 1
         /\ (\A i \in 1 .. j : i \in 1 .. n) /\ (\A i \in j + 1 .. m : i = n \/ i = m)
         /\ n \in 1 .. n /\ m \notin 1 .. j /\ ~(n <= j) /\ ~(m <= j) /\ n # m
         /\ j \in 1 .. m /\ n \in 1 .. m /\ m \in 1 .. m /\ j <= j
         /\ (\A l \in x .. x : l = x)
    BY ONLY <1>2, <1>3, <1>4
  <1>12. /\ d[j].fn = "raw" /\ n > 2 /\ d[n - 2].fn = "resume"
    BY ONLY <1>2, <1>4, <1>9 DEF Above, LevelAt
  <1>13. lev2[m] = x /\ lev2[n] = x - 1 /\ lev2[j] = lev[j]
    <2> HIDE DEF m, j
    <2>1. QED
      BY <1>11 DEF Placing
  <1>14. lev[j] = 1
    <2>1. j - 1 = n - 2 /\ j > 1 /\ n - 2 \in 1 .. n
      BY ONLY <1>2, <1>12
    <2>2. d[j - 1].fn = "resume" /\ lev[j - 1] = lev[n - 2]
      BY ONLY <2>1, <1>12
    <2>3. lev[n - 2] = 1
      <3>1. LevelAt(h, d, lev, n - 2)
        BY ONLY <2>1, <1>9 DEF Frames
      <3>2. QED
        BY ONLY <3>1, <1>12 DEF LevelAt, Resumer
    <2> HIDE DEF j
    <2>4. Above(c, d[j - 1].fn, lev[j - 1], d[j].fn, lev[j])
      BY ONLY <1>4, <1>9, <1>12, <2>1 DEF LevelAt
    <2>5. lev[j] = lev[j - 1]
      BY ONLY <2>4, <1>12 DEF Above
    <2>6. QED
      BY ONLY <2>2, <2>3, <2>5
  <1> HIDE DEF m, j, lev2
  <1>15. Keeps(h, d, lev, L, a, j, h2, d2, lev)
    <2>1. SameRows(d, d2, j)
      BY ONLY <1>9, <1>11 DEF SameRows
    <2>2. Extends(h[L].ci, h2[L].ci, lev[j])
      BY ONLY <1>9, <1>14
    <2>3. QED
      BY ONLY <2>1, <2>2, <1>9 DEF Keeps
  <1>16. Nny(d, L, n) = 0 => Continued(c2, x - 1)
    <2>1. Nny(d, L, n) = 0 => Continued(c, x)
      BY ONLY <1>2, <1>9 DEF LevelAt, Keeping
    <2>2. \A l \in 2 .. x - 1 : l \in 2 .. x /\ l \in 1 .. x - 1
      BY ONLY <1>2
    <2>3. QED
      BY ONLY <2>1, <2>2, <1>9 DEF Continued
  <1>17. LevelAt(h2, d2, lev2, n)
    <2>1. d2[n] = d[n] /\ d2[j] = d[j] /\ d2[n - 2] = d[n - 2]
      <3>1. n - 2 \in 1 .. n
        BY ONLY <1>2, <1>12
      <3>2. QED
        BY ONLY <1>9, <1>11, <3>1
    <2>2. Above(c2, "raw", lev[j], "unroll", x - 1)
      BY ONLY DEF Above
    <2>3. /\ d2[n].L = L /\ d2[n].fn = "unroll" /\ d2[n - 1].fn = "raw"
          /\ d2[n - 2].fn = "resume" /\ lev2[n - 1] = lev[j]
      BY ONLY <1>2, <1>12, <2>1, <1>11, <1>13
    <2>4. QED
      BY ONLY <1>9, <1>11, <1>12, <1>13, <1>16, <2>2, <2>3 DEF LevelAt, Keeping
  <1>18. LevelAt(h2, d2, lev2, m)
    <2>1. d2[m].L = L /\ d2[m].fn = f.fn /\ d2[m - 1].fn = "unroll" /\ lev2[m - 1] = x - 1
      BY ONLY <1>2, <1>9, <1>11, <1>13
    <2>2. f.fn = "cfun" => Above(c2, "unroll", x - 1, f.fn, x)
      BY ONLY <1>10, <1>11 DEF Above, Callers
    <2>3. f.fn = "execute" => Above(c2, "unroll", x - 1, f.fn, x) /\ c2[x].lua
      <3>1. f.fn = "execute" => \A l \in (x - 1) + 1 .. x : c2[l].lua /\ (c2[l].fresh <=> l = (x - 1) + 1)
        BY ONLY <1>10, <1>11
      <3>2. f.fn = "execute" => c2[x].lua
        BY ONLY <1>10
      <3>3. QED
        BY ONLY <1>11, <3>1, <3>2 DEF Above, Callers
    <2>4. Nny(d2, L, m) = 0 => Continued(c2, IF f.fn \in Keeping THEN x ELSE x - 1)
      <3>1. f.fn = "execute" /\ Continued(c2, x - 1) => Continued(c2, x)
        <4>1. \A l \in 2 .. x : l = x \/ l \in 2 .. x - 1
          BY ONLY <1>2
        <4>2. QED
          BY ONLY <4>1, <2>3 DEF Continued
      <3>2. f.fn = "cfun" => f.fn \notin Keeping
        BY DEF Keeping
      <3>3. f.fn = "execute" => f.fn \in Keeping
        BY DEF Keeping
      <3>4. QED
        BY ONLY <1>9, <1>10, <1>16, <3>1, <3>2, <3>3
    <2>5. f.fn \notin {"resume", "unroll", "pcall"} /\ Above(c2, "unroll", x - 1, f.fn, x)
      BY ONLY <1>10, <2>2, <2>3
    <2>6. QED
      BY ONLY <1>9, <1>11, <1>13, <2>1, <2>4, <2>5 DEF LevelAt
  <1>19. \A i \in j + 1 .. m : LevelAt(h2, d2, lev2, i)
    BY ONLY <1>11, <1>17, <1>18
  <1>20. TopLevel(h2, d2, lev2, m)
    BY <1>9, <1>13 DEF TopLevel, OK, YIELD
  <1>21. ThreadOK(h2, d2, L, m)
    <2>1. Justified(c2, d2, L, m, e2)
      <3>1. \A e : Pcalls(d, L, n, e) \subseteq Pcalls(d2, L, m, e)
        BY ONLY <1>9
      <3>2. Justified(c2, d, L, n, e2)
        BY ONLY <1>9
      <3>3. QED
        BY ONLY <3>1, <3>2 DEF Justified
    <2>2. QED
      BY ONLY <1>9, <2>1 DEF ThreadOK, OK, YIELD
  <1>22. Leveled(h2, d2, m)
    <2>1. lev2 = Placing(lev, j, m, x - 1, x)
      BY DEF lev2
    <2>2. n \in Nat /\ L \in Threads /\ x \in Nat
      BY ONLY <1>2
    <2>3. Span(d, L, a, n)
      BY <1>3
    <2>4. QED
      BY ONLY <1>9, <1>11, <1>15, <1>19, <1>20, <1>21, <2>1, <2>2, <2>3, Rebuilt
  <1>23. QED
    BY <1>22, <1>9 DEF h2, d2

(* finishCcall: a suspended protected call ends, and the continuation runs. *)
LEMMA Finished ==
  ASSUME NEW s, NEW L, Ready(s, L), TopOf(s).fn = "unroll", Len(s.th[L].ci) > 1,
         ~s.th[L].ci[Len(s.th[L].ci)].lua, NEW u, u = FinishCcall(s, L)
  PROVE  Ready(u, L)
  <1> DEFINE c == s.th[L].ci
             x == Len(c)
             t == IF c[x].yp THEN Unprotect(s, L) ELSE s
             f == Frame("cfun", L)
             c2 == t.th[L].ci
             e2 == t.th[L].errfunc
             up == s.th[L].up
  <1>1. u = Push(t, f)
    BY DEF FinishCcall, CurrentCI, Depth, Unprotect
  <1>2. Active(u, L)
    BY Finish DEF Ready
  <1>3. /\ ChainOK(c) /\ Extends(c, c, Len(c)) /\ x \in Nat \ {0} /\ UpOK(c, up)
        /\ s.th[L].status = OK /\ L \in Threads /\ Shaped(s) /\ Active(s, L)
    <2>1. /\ ChainOK(s.th[L].ci) /\ Extends(s.th[L].ci, s.th[L].ci, Len(s.th[L].ci))
          /\ Len(s.th[L].ci) \in Nat \ {0} /\ UpOK(s.th[L].ci, s.th[L].up)
          /\ s.th[L].status = OK /\ L \in Threads /\ Shaped(s)
      BY ONLY Ready(s, L), SameChain
    <2>2. QED
      BY <2>1 DEF Ready
  <1>4. IsFrame(f) /\ f.fn = "cfun" /\ f.L = L /\ f.status = OK
    BY ONLY <1>3, NewFrame
  <1> HIDE DEF f
  <1>5. Justified(c, s.cs, L, Len(s.cs), s.th[L].errfunc)
    <2>1. PICK lev, a : Standing(s, L, lev, a)
      BY ONLY Ready(s, L), ReadyStands
    <2>2. QED
      BY ONLY <2>1, StandsAt
  <1>6. /\ t.cs = s.cs /\ Shaped(t) /\ Edit(s, t, L, c2, up, e2, OK)
        /\ ChainOK(c2) /\ Len(c2) = x /\ ~c2[x].yp /\ ~c2[x].lua
        /\ (\A l \in 1 .. x - 1 : c2[l] = c[l]) /\ Extends(c, c2, 1) /\ UpOK(c2, up)
        /\ Justified(c2, s.cs, L, Len(s.cs), e2)
    <2>1. CASE c[x].yp
      <3> DEFINE e == c[Len(c)].olderr
      <3>1. t = Unprotect(s, L)
        BY <2>1
      <3> HIDE DEF t
      <3>2. Shaped(t) /\ Released(s, t, L, s.th[L].ci, t.th[L].ci,
                                  s.th[L].ci[Len(s.th[L].ci)].olderr)
        BY ONLY <1>3, <3>1, Unprotects
      <3>3. Released(s, t, L, c, c2, e)
        BY <3>2
      <3>4. c[Len(c)].yp
        BY <2>1
      <3>5. x > 1 /\ ~c[x].lua
        OBVIOUS
      <3> HIDE DEF c, c2, e, e2, up
      <3>6. /\ t.cs = s.cs /\ Edit(s, t, L, c2, s.th[L].up, e, s.th[L].status)
            /\ ChainOK(c2) /\ Len(c2) = Len(c) /\ ~c2[Len(c)].yp
            /\ c2[Len(c)].lua = c[Len(c)].lua
            /\ (\A l \in 1 .. Len(c) - 1 : c2[l] = c[l])
            /\ (\A y \in 0 .. Len(c) - 1 : Extends(c, c2, y))
            /\ (\A l \in 1 .. Len(c) : c2[l].lua = c[l].lua /\ c2[l].k = c[l].k)
        BY ONLY <3>3, Zenon DEF Released
      <3>7. \A d, q, n : Justified(c2, d, q, n, e)
        BY ONLY <1>3, <3>4, <3>6, Olderr DEF e
      <3>8. 1 \in 0 .. Len(c) - 1
        BY <1>3, <3>5
      <3>9. e2 = e
        BY ONLY <3>6 DEF e2, Edit
      <3>10. UpOK(c2, up)
        BY ONLY <1>3, <3>6 DEF UpOK
      <3>11. Edit(s, t, L, c2, up, e2, OK)
        BY <1>3, <3>6, <3>9 DEF up
      <3>12. Justified(c2, s.cs, L, Len(s.cs), e2)
        BY ONLY <3>7, <3>9
      <3>13. Extends(c, c2, 1)
        BY ONLY <3>6, <3>8
      <3>14. QED
        BY <3>2, <3>5, <3>6, <3>10, <3>11, <3>12, <3>13
    <2>2. CASE ~c[x].yp
      <3>1. t = s /\ c2 = c /\ e2 = s.th[L].errfunc
        BY <2>2
      <3>2. Edit(s, s, L, c, up, s.th[L].errfunc, OK)
        BY <1>3 DEF Edit, SameThread
      <3>3. x > 1 /\ ~c[x].lua
        OBVIOUS
      <3> HIDE DEF t, c, c2, e2, up
      <3>4. Extends(c, c, 1)
        <4>1. 1 <= Len(c) /\ \A l \in 1 .. 1 : l \in 1 .. Len(c)
          BY <1>3
        <4>2. QED
          BY ONLY <1>3, <4>1 DEF Extends
      <3>5. t.cs = s.cs /\ Shaped(t) /\ Edit(s, t, L, c2, up, e2, OK)
        BY ONLY <1>3, <3>1, <3>2
      <3>6. ChainOK(c2) /\ Len(c2) = x /\ ~c2[x].yp /\ ~c2[x].lua /\ UpOK(c2, up)
        BY ONLY <1>3, <2>2, <3>1, <3>3
      <3>7. Justified(c2, s.cs, L, Len(s.cs), e2)
        BY <1>5, <3>1
      <3>8. (\A l \in 1 .. x - 1 : c2[l] = c[l]) /\ Extends(c, c2, 1)
        BY ONLY <3>1, <3>4
      <3>9. QED
        BY ONLY <3>5, <3>6, <3>7, <3>8
    <2>3. QED
      BY <2>1, <2>2
  <1>7. c = s.th[L].ci /\ x > 1
    OBVIOUS
  <1> HIDE DEF t, c2, e2, c, up
  <1>8. Grown(s, u, f) /\ Edit(s, u, L, c2, up, e2, OK)
    <2>1. Shaped(t) /\ t.cs = s.cs /\ Edit(s, t, L, c2, up, e2, OK)
      BY ONLY <1>6
    <2>2. QED
      BY ONLY <1>1, <1>4, <2>1, PushedEdit
  <1>9. Leveled(u.th, u.cs, Len(u.cs))
    <2>1. /\ Len(s.th[L].ci) > 1 /\ f.L = L /\ f.status = OK
          /\ ChainOK(c2) /\ Len(c2) = Len(s.th[L].ci)
          /\ (\A l \in 1 .. Len(c2) - 1 : c2[l] = s.th[L].ci[l])
          /\ Extends(s.th[L].ci, c2, 1) /\ ~c2[Len(c2)].yp
          /\ f.fn = "cfun" /\ ~c2[Len(c2)].lua
          /\ UpOK(c2, up) /\ Justified(c2, s.cs, L, Len(s.cs), e2)
          /\ Grown(s, u, f) /\ Edit(s, u, L, c2, up, e2, OK)
      BY <1>4, <1>6, <1>7, <1>8
    <2>2. QED
      BY ONLY <2>1, Ready(s, L), TopOf(s).fn = "unroll", Unrolled
  <1>10. QED
    BY <1>2, <1>9 DEF Ready

(* finishOp is part of luaV_execute, which unroll calls for a Lua function. *)
LEMMA WithFresh ==
  ASSUME NEW r, IsCI(r), NEW x, NEW q, q = [r EXCEPT !.fresh = x]
  PROVE  IsCI(q) /\ q.lua = r.lua /\ q.fresh = x /\ q.yp = r.yp /\ q.k = r.k /\ q.olderr = r.olderr
  BY DEF IsCI

LEMMA ExecutesOn ==
  ASSUME NEW s, NEW L, Ready(s, L), TopOf(s).fn = "unroll", Len(s.th[L].ci) > 1,
         s.th[L].ci[Len(s.th[L].ci)].lua, NEW u, u = LuaV_execute(s, L)
  PROVE  Ready(u, L)
  <1> DEFINE c == s.th[L].ci
             x == Len(c)
             f == Frame("execute", L)
             r == [c[x] EXCEPT !.fresh = TRUE]
             c2 == [c EXCEPT ![x].fresh = TRUE]
             t == [s EXCEPT !.th[L].ci = c2]
             up == s.th[L].up
             ef == s.th[L].errfunc
  <1>1. Active(u, L)
    BY Execute DEF Ready
  <1>2. /\ ChainOK(c) /\ IsSequence(c) /\ Extends(c, c, Len(c)) /\ x \in Nat \ {0} /\ UpOK(c, up)
        /\ s.th[L].status = OK /\ L \in Threads /\ Shaped(s) /\ Active(s, L)
    <2>1. /\ ChainOK(s.th[L].ci) /\ Extends(s.th[L].ci, s.th[L].ci, Len(s.th[L].ci))
          /\ IsSequence(s.th[L].ci)
          /\ Len(s.th[L].ci) \in Nat \ {0} /\ UpOK(s.th[L].ci, s.th[L].up)
          /\ s.th[L].status = OK /\ L \in Threads /\ Shaped(s)
      BY ONLY Ready(s, L), SameChain
    <2>2. QED
      BY <2>1 DEF Ready
  <1>3. u = Push(t, f)
    <2>1. IsThread(s.th[L]) /\ s.th = [q \in Threads |-> s.th[q]]
          /\ s = [th |-> s.th, cs |-> s.cs, panic |-> s.panic] /\ DOMAIN c = 1 .. x
      BY <1>2, ChainFacts DEF Shaped
    <2>2. [s EXCEPT !.th[L].ci[x].fresh = TRUE] = t
      BY <1>2, <2>1 DEF IsThread
    <2>3. QED
      BY <2>2 DEF LuaV_execute, Depth
  <1>4. IsFrame(f) /\ f.fn = "execute" /\ f.L = L /\ f.status = OK
    BY ONLY <1>2, NewFrame
  <1>5. t = [s EXCEPT !.th[L].ci = c2] /\ c = s.th[L].ci /\ x > 1 /\ c[x].lua
    OBVIOUS
  <1>6. Justified(c, s.cs, L, Len(s.cs), ef)
    <2>1. PICK lev, a : Standing(s, L, lev, a)
      BY ONLY Ready(s, L), ReadyStands
    <2>2. QED
      BY ONLY <2>1, StandsAt
  <1> HIDE DEF f, t
  <1>7. IsCI(r) /\ r.lua = c[x].lua /\ r.fresh /\ r.yp = c[x].yp
    <2> DEFINE o == c[x]
               yes == TRUE
    <2>1. IsCI(o)
      <3> HIDE DEF c
      <3>1. x \in 1 .. Len(c)
        BY <1>2
      <3>2. QED
        BY ONLY <1>2, <3>1 DEF ChainOK, o
    <2>2. r = [o EXCEPT !.fresh = yes] /\ yes
      OBVIOUS
    <2> HIDE DEF o, r, yes
    <2>3. IsCI(r) /\ r.lua = o.lua /\ r.fresh = yes /\ r.yp = o.yp
      BY ONLY <2>1, <2>2, WithFresh
    <2>4. QED
      BY ONLY <2>2, <2>3 DEF o
  <1>8. IsSequence(c2) /\ Len(c2) = x /\ c2[x] = r /\ \A l \in 1 .. x : l # x => c2[l] = c[l]
    <2>1. IsSequence(c) /\ x \in 1 .. Len(c)
      BY <1>2
    <2> HIDE DEF x, c
    <2>2. /\ IsSequence(c2) /\ Len(c2) = Len(c) /\ c2[x] = [c[x] EXCEPT !.fresh = TRUE]
          /\ \A l \in 1 .. Len(c) : l # x => c2[l] = c[l]
      BY ONLY <2>1, SetFresh DEF c2
    <2>3. QED
      BY ONLY <2>2 DEF x, r
  <1> HIDE DEF r, c2, c
  <1>9. ~c[x].yp
    <2>1. x \in 1 .. Len(c)
      BY <1>2
    <2>2. QED
      BY ONLY <1>2, <1>5, <2>1 DEF ChainOK
  <1>10. /\ ChainOK(c2) /\ (\A l \in 1 .. x - 1 : c2[l] = c[l])
         /\ (\A y \in 0 .. x - 1 : Extends(c, c2, y))
    BY <1>2, <1>7, <1>8, <1>9, ChainMark
  <1>11. t.cs = s.cs /\ Edit(s, t, L, c2, up, ef, OK) /\ Shaped(t)
    <2>1. t.cs = s.cs /\ Edit(s, t, L, c2, s.th[L].up, s.th[L].errfunc, s.th[L].status)
      BY ONLY <1>2, <1>5, EditCi
    <2>2. Shaped(t)
      <3>1. Active(t, L)
        BY ONLY <1>2, <1>5, ActiveFields
      <3>2. QED
        BY ONLY <3>1, ActiveFacts
    <2>3. QED
      BY <1>2, <2>1, <2>2
  <1>12. UpOK(c2, up)
    <2>1. \A l \in 1 .. x : c2[l].lua = c[l].lua
      BY ONLY <1>7, <1>8
    <2>2. QED
      BY ONLY <1>2, <1>8, <2>1 DEF UpOK, x
  <1>13. Justified(c2, s.cs, L, Len(s.cs), ef)
    <2>1. \A l \in 1 .. x : c2[l].yp = c[l].yp
      BY ONLY <1>7, <1>8
    <2>2. ef \in 1 .. Len(c) /\ c[ef].yp => ef \in 1 .. Len(c2) /\ c2[ef].yp
      BY ONLY <1>8, <2>1 DEF x
    <2> HIDE DEF ef
    <2>3. QED
      BY ONLY <1>6, <2>2 DEF Justified
  <1>14. Extends(c, c2, 1)
    <2>1. 1 \in 0 .. x - 1
      BY <1>2, <1>5
    <2>2. QED
      BY ONLY <1>10, <2>1
  <1> HIDE DEF up, ef
  <1>15. Grown(s, u, f) /\ Edit(s, u, L, c2, up, ef, OK)
    BY ONLY <1>3, <1>4, <1>11, PushedEdit
  <1>16. Leveled(u.th, u.cs, Len(u.cs))
    <2>1. /\ Len(s.th[L].ci) > 1 /\ f.L = L /\ f.status = OK
          /\ ChainOK(c2) /\ Len(c2) = Len(s.th[L].ci)
          /\ (\A l \in 1 .. Len(c2) - 1 : c2[l] = s.th[L].ci[l])
          /\ Extends(s.th[L].ci, c2, 1) /\ ~c2[Len(c2)].yp
          /\ f.fn = "execute" /\ c2[Len(c2)].lua /\ c2[Len(c2)].fresh
          /\ UpOK(c2, up) /\ Justified(c2, s.cs, L, Len(s.cs), ef)
          /\ Grown(s, u, f) /\ Edit(s, u, L, c2, up, ef, OK)
      BY <1>4, <1>5, <1>7, <1>8, <1>9, <1>10, <1>12, <1>13, <1>14, <1>15
    <2>2. QED
      BY ONLY <2>1, Ready(s, L), TopOf(s).fn = "unroll", Unrolled
  <1>17. QED
    BY <1>1, <1>16 DEF Ready

LEMMA UnrollLevels ==
  ASSUME NEW L, CallsInv, LevelsInv, Unroll(L)
  PROVE  LevelsInv'
  <1> DEFINE s == State
             c == s.th[L].ci
             p == Pop(s)
             v == FinishCcall(s, L)
             w == LuaV_execute(s, L)
  <1>1. Ready(s, L) /\ TopOf(s).fn = "unroll"
    BY LevelsRun DEF Unroll, Running
  <1>2. \/ Len(c) = 1 /\ Become(p)
        \/ Len(c) # 1 /\ ~c[Len(c)].lua /\ Become(v)
        \/ Len(c) # 1 /\ c[Len(c)].lua /\ Become(w)
    BY DEF Unroll, State, Depth, CurrentCI
  <1>3. p = Pop(s) /\ v = FinishCcall(s, L) /\ w = LuaV_execute(s, L) /\ c = s.th[L].ci
    OBVIOUS
  <1> HIDE DEF s, p, v, w, c
  <1>4. Len(c) # 1 => Len(c) > 1
    <2>1. Len(s.th[L].ci) \in Nat \ {0}
      BY ONLY <1>1, SameChain
    <2> DEFINE x == Len(c)
    <2>2. x \in Nat \ {0}
      BY ONLY <2>1 DEF c
    <2> HIDE DEF x
    <2>3. x # 1 => x > 1
      BY ONLY <2>2
    <2>4. QED
      BY <2>3 DEF x
  <1>5. Len(c) = 1 => Ready(p, L)
    BY ONLY <1>1, <1>3, PopsPlain
  <1>6. Len(c) # 1 /\ ~c[Len(c)].lua => Ready(v, L)
    BY ONLY <1>1, <1>3, <1>4, Finished
  <1>7. Len(c) # 1 /\ c[Len(c)].lua => Ready(w, L)
    BY ONLY <1>1, <1>3, <1>4, ExecutesOn
  <1>8. QED
    BY <1>2, <1>5, <1>6, <1>7, ReadyPlaced, LevelsBecome

(* lua_resume runs thread t from frame a on, in a new activation: in       *)
(* resume itself, or in unroll if t is to go on.  The rows ...             *)
NewRows(d, d2, t, a, m) ==
    /\ m = a + 1 \/ m = a + 2
    /\ \A i \in 1 .. a - 1 : d2[i] = d[i]
    /\ d2[a].fn = "resume" /\ d2[a].L = t /\ d2[a + 1].fn = "raw" /\ d2[a + 1].L = t
    /\ d2[m].status = OK /\ (m = a + 2 => d2[m].fn = "unroll" /\ d2[m].L = t)

(* ... and the threads.                                                    *)
NewRun(h, h2, d2, t, a, m, c2) ==
    /\ \A q \in Threads : q # t => SameThread(h2[q], h[q])
    /\ h2[t].ci = c2 /\ ChainOK(c2) /\ UpOK(c2, h2[t].up) /\ h2[t].status = OK
    /\ Justified(c2, d2, t, m, h2[t].errfunc)
    /\ Continued(c2, Len(c2)) /\ (m = a + 1 => Len(c2) = 1)

(* Frame i is that of a C function, the current one of its thread.         *)
InC(h, d, lev, i) ==
    LET p == d[i].L
    IN  d[i].fn = "cfun" /\ Len(h[p].ci) = lev[i] /\ ~h[p].ci[lev[i]].yp /\ h[p].status = OK

LEMMA Begins ==
  ASSUME NEW h, NEW d, NEW lev, NEW n \in Nat, Frames(h, d, lev, n), ThreadsOK(h, d, n),
         NEW t \in Threads, NEW a \in 2 .. n + 1, Span(d, t, a, n), InC(h, d, lev, a - 1),
         NEW h2, NEW d2, NEW m, NewRows(d, d2, t, a, m), NEW c2, NewRun(h, h2, d2, t, a, m, c2)
  PROVE  Leveled(h2, d2, m)
  <1> DEFINE j == a - 1
             x == Len(c2)
             lev2 == Placing(lev, j, m, 1, x)
  <1>0. /\ m = a + 1 \/ m = a + 2
        /\ ChainOK(c2) /\ Continued(c2, Len(c2)) /\ (m = a + 1 => Len(c2) = 1)
    BY DEF NewRows, NewRun
  <1>1. x \in Nat \ {0}
    BY <1>0, ChainFacts
  <1>2. /\ a \in Nat /\ a > 1 /\ a <= n + 1 /\ j \in Nat \ {0} /\ j \in a - 1 .. n /\ m \in Nat
        /\ j <= m /\ j \in 1 .. n /\ j = a - 1 /\ ~(j >= a) /\ a # 1 /\ m # 1 /\ a + 1 # 1
        /\ a \in 1 .. m /\ a + 1 \in 1 .. m /\ m \in 1 .. m /\ ~(a <= j) /\ ~(a + 1 <= j)
        /\ ~(m <= j) /\ a # m /\ (m # a + 1 => m = a + 2) /\ j \in 1 .. j /\ j \in 1 .. m
        /\ j <= j /\ a > 1 /\ a + 1 > 1 /\ (a + 1) - 1 = a /\ m > 1
        /\ (m = a + 2 => m - 1 = a + 1 /\ m - 2 = a /\ m > 2 /\ a + 1 # m)
        /\ (\A i \in j + 1 .. m : i = a \/ i = a + 1 \/ (m = a + 2 /\ i = m))
    BY <1>0, SMTT(20)
  <1>3. /\ lev2[j] = lev[j] /\ lev2[a] = 1 /\ lev2[m] = x /\ lev2[a + 1] = 1
    <2>1. lev2[j] = lev[j] /\ lev2[a] = 1 /\ lev2[m] = x
      <3> HIDE DEF j, x
      <3>1. QED
        BY ONLY <1>2 DEF Placing
    <2>2. CASE m = a + 1
      BY ONLY <1>0, <2>1, <2>2
    <2>3. CASE m = a + 2
      <3> HIDE DEF j, x
      <3>1. lev2[a + 1] = 1
        BY ONLY <1>2, <2>3 DEF Placing
      <3>2. QED
        BY <2>1, <3>1
    <2>4. QED
      BY ONLY <1>0, <2>2, <2>3
  <1>4. Continued(c2, 1 - 1) /\ Continued(c2, x) /\ 1 \in 1 .. x /\ x \in 1 .. x
    BY <1>0, <1>1 DEF Continued
  <1>5. lev2 = Placing(lev, j, m, 1, x)
    OBVIOUS
  <1>6. /\ d2[a].fn = "resume" /\ d2[a].L = t /\ d2[a + 1].fn = "raw" /\ d2[a + 1].L = t
        /\ (m = a + 2 => d2[m].fn = "unroll" /\ d2[m].L = t) /\ d2[m].status = OK
        /\ h2[t].ci = c2 /\ ChainOK(c2) /\ UpOK(c2, h2[t].up) /\ h2[t].status = OK
        /\ Justified(c2, d2, t, m, h2[t].errfunc) /\ Len(c2) = x /\ d2[j] = d[j]
        /\ d[j].fn = "cfun" /\ Len(h[d[j].L].ci) = lev[j]
        /\ ~h[d[j].L].ci[lev[j]].yp /\ h[d[j].L].status = OK
    <2>1. /\ d2[a].fn = "resume" /\ d2[a].L = t /\ d2[a + 1].fn = "raw" /\ d2[a + 1].L = t
          /\ (m = a + 2 => d2[m].fn = "unroll" /\ d2[m].L = t) /\ d2[m].status = OK
          /\ d2[j] = d[j]
      BY <1>2 DEF NewRows
    <2>2. /\ h2[t].ci = c2 /\ ChainOK(c2) /\ UpOK(c2, h2[t].up) /\ h2[t].status = OK
          /\ Justified(c2, d2, t, m, h2[t].errfunc) /\ Len(c2) = x
      BY DEF NewRun
    <2>3. /\ d[j].fn = "cfun" /\ Len(h[d[j].L].ci) = lev[j]
          /\ ~h[d[j].L].ci[lev[j]].yp /\ h[d[j].L].status = OK
      BY DEF InC
    <2>4. QED
      BY ONLY <2>1, <2>2, <2>3
  <1>7. \A q \in Threads : q # t => SameThread(h2[q], h[q])
    BY DEF NewRun
  <1>8. \A i \in 1 .. j : d2[i] = d[i]
    BY DEF NewRows
  <1>9. \A k \in 1 .. j : d[k].L # t
    BY DEF Span
  <1>10. Frames(h, d, lev, n) /\ ThreadsOK(h, d, n) /\ Span(d, t, a, n) /\ n \in Nat /\ t \in Threads
    OBVIOUS
  <1> HIDE DEF j, x, lev2
  <1>11. Keeps(h, d, lev, t, a, j, h2, d2, lev)
    <2>1. SameRows(d, d2, j)
      BY ONLY <1>8 DEF SameRows
    <2>2. QED
      BY ONLY <2>1, <1>2, <1>7 DEF Keeps
  <1>12. LevelAt(h2, d2, lev2, a)
    <2> DEFINE p == d[j].L
    <2>1. p \in Threads /\ p # t
      BY <1>2, <1>9, <1>10 DEF Frames
    <2>2. SameThread(h2[p], h[p])
      BY ONLY <2>1, <1>7
    <2>3. Len(h2[p].ci) = lev2[j] /\ ~h2[p].ci[lev2[j]].yp /\ h2[p].status = OK
      <3>1. h2[p].ci = h[p].ci /\ h2[p].status = h[p].status
        BY ONLY <2>2 DEF SameThread
      <3>2. Len(h[p].ci) = lev[j] /\ ~h[p].ci[lev[j]].yp /\ h[p].status = OK
        BY <1>6
      <3> HIDE DEF p
      <3>3. QED
        BY ONLY <3>1, <3>2, <1>3
    <2>4. d2[a - 1].L = p /\ a - 1 = j /\ d2[a - 1].fn = "cfun"
      BY <1>2, <1>6
    <2> HIDE DEF p
    <2>5. \A k \in 1 .. a - 1 : d2[k].L # t
      BY ONLY <2>4, <1>8, <1>9
    <2>6. Resumer(h2, d2, lev2, a)
      BY ONLY <1>3, <1>6, <2>3, <2>4, <2>5 DEF Resumer
    <2>7. QED
      BY ONLY <1>2, <1>3, <1>4, <1>6, <2>4, <2>6 DEF LevelAt, Keeping
  <1>13. LevelAt(h2, d2, lev2, a + 1)
    <2>1. Above(c2, "resume", 1, "raw", 1)
      BY ONLY DEF Above
    <2>2. QED
      BY ONLY <1>2, <1>3, <1>4, <1>6, <2>1 DEF LevelAt, Keeping
  <1>14. m = a + 2 => LevelAt(h2, d2, lev2, m)
    <2> SUFFICES ASSUME m = a + 2 PROVE LevelAt(h2, d2, lev2, m)
      OBVIOUS
    <2>1. Above(c2, "raw", 1, "unroll", x)
      BY ONLY DEF Above
    <2>2. /\ d2[m - 1].fn = "raw" /\ d2[m - 2].fn = "resume" /\ lev2[m - 1] = 1 /\ m > 2
          /\ d2[m].fn = "unroll" /\ d2[m].L = t
      BY <1>2, <1>3, <1>6
    <2>3. QED
      BY ONLY <1>2, <1>3, <1>4, <1>6, <2>1, <2>2 DEF LevelAt, Keeping
  <1>15. \A i \in j + 1 .. m : LevelAt(h2, d2, lev2, i)
    BY ONLY <1>2, <1>12, <1>13, <1>14
  <1>16. TopLevel(h2, d2, lev2, m)
    <2>1. d2[m].L = t /\ d2[m].fn # "cfun"
      BY ONLY <1>0, <1>2, <1>6
    <2>2. QED
      BY ONLY <2>1, <1>3, <1>6 DEF TopLevel, OK, YIELD
  <1>17. ThreadOK(h2, d2, t, m)
    BY ONLY <1>6 DEF ThreadOK, OK, YIELD
  <1>18. QED
    <2>1. m \in Nat /\ j <= m /\ j \in a - 1 .. n /\ 1 \in Nat /\ x \in Nat
      BY <1>1, <1>2
    <2>2. QED
      BY ONLY <1>5, <1>10, <1>11, <1>15, <1>16, <1>17, <2>1, Rebuilt

(* A coroutine that resume does not refuse is not running: one that runs   *)
(* or has resumed another has called a function and is not suspended.      *)
LEMMA NotRunning ==
  ASSUME NEW s, NEW L, Ready(s, L), TopOf(s).fn = "cfun", NEW co \in Threads \ {Main},
         s.th[co].status = YIELD \/ Len(s.th[co].ci) = 1
  PROVE  \A i \in 1 .. Len(s.cs) : s.cs[i].L # co
  <1>1. PICK lev, a : Standing(s, L, lev, a)
    BY ONLY Ready(s, L), ReadyStands
  <1> DEFINE n == Len(s.cs)
             d == s.cs
             h == s.th
  <1>2. /\ n \in Nat \ {0} /\ L \in Threads /\ d[n].L = L /\ lev[n] = Len(h[L].ci)
        /\ h[L].status = OK /\ d[n].fn = "cfun"
    <2>1. TopOf(s).status = OK /\ TopOf(s) = s.cs[Len(s.cs)]
      BY ONLY Ready(s, L), ReadyStands
    <2>2. s.cs[Len(s.cs)].status = OK /\ s.cs[Len(s.cs)].fn = "cfun"
      BY <2>1
    <2>3. /\ Len(s.cs) \in Nat \ {0} /\ L \in Threads /\ s.cs[Len(s.cs)].L = L
          /\ lev[Len(s.cs)] = Len(s.th[L].ci)
      BY ONLY <1>1, <2>2, StandsAt
    <2>4. s.th[L].status = OK
      BY ONLY Ready(s, L), SameChain
    <2>5. QED
      BY <2>2, <2>3, <2>4
  <1>3. Frames(h, d, lev, n)
    BY ONLY <1>1 DEF Standing
  <1>4. h[co].status = YIELD \/ Len(h[co].ci) = 1
    OBVIOUS
  <1>5. co \in Threads /\ co # Main
    OBVIOUS
  <1> HIDE DEF n, d, h
  <1> DEFINE A == {i \in 1 .. n : d[i].L = co}
  <1>6. A = {}
    <2> SUFFICES ASSUME A # {} PROVE FALSE
      OBVIOUS
    <2>1. PICK i \in A : \A q \in A : q <= i
      <3>1. n \in Nat /\ A \in SUBSET (1 .. n) /\ A # {}
        BY <1>2
      <3> HIDE DEF A
      <3>2. QED
        BY ONLY <3>1, LastOne
    <2>2. i \in 1 .. n /\ d[i].L = co /\ \A q \in i + 1 .. n : d[q].L # co
      BY <1>2, <2>1
    <2> HIDE DEF A
    <2>3. d[i].fn = "cfun" /\ Len(h[co].ci) = lev[i] /\ h[co].status = OK
      <3>1. CASE i = n
        BY ONLY <1>2, <2>2, <3>1
      <3>2. CASE i # n
        <4>1. /\ i + 1 \in 1 .. n /\ i + 1 \in i + 1 .. n /\ i \in 1 .. (i + 1) - 1
              /\ i + 1 \in i + 1 .. i + 1 /\ (i + 1) - 1 = i
              /\ \A q \in i + 1 .. i + 1 : q = i + 1
          BY ONLY <1>2, <2>2, <3>2
        <4> DEFINE m == i + 1
        <4>2. FrameAt(d, m) /\ LevelAt(h, d, lev, m)
          BY ONLY <1>3, <4>1 DEF Frames
        <4>3. d[i].L # d[m].L
          BY ONLY <2>2, <4>1
        <4>4. i \in 1 .. m - 1 /\ m - 1 = i /\ \A q \in i + 1 .. m : q = m
          BY ONLY <4>1
        <4> HIDE DEF m
        <4>5. \E q \in i + 1 .. m : d[q].fn = "resume"
          BY ONLY <4>2, <4>3, <4>4 DEF FrameAt
        <4>6. d[m].fn = "resume"
          BY ONLY <4>4, <4>5
        <4>7. d[i].fn = "cfun"
          BY ONLY <4>2, <4>4, <4>6 DEF FrameAt
        <4>8. Len(h[co].ci) = lev[i] /\ h[co].status = OK
          BY ONLY <2>2, <4>2, <4>4, <4>6 DEF LevelAt, Resumer
        <4>9. QED
          BY ONLY <4>7, <4>8
      <3>3. QED
        BY ONLY <3>1, <3>2
    <2>4. lev[i] = 1
      BY ONLY <1>4, <2>3 DEF OK, YIELD
    <2>5. LevelAt(h, d, lev, i)
      BY ONLY <1>3, <2>2 DEF Frames
    <2>6. i # 1
      BY ONLY <1>5, <2>2, <2>5 DEF LevelAt
    <2>7. i > 1 /\ i - 1 \in 1 .. n
      BY ONLY <1>2, <2>2, <2>6
    <2>8. Above(h[co].ci, d[i - 1].fn, lev[i - 1], "cfun", lev[i])
      BY ONLY <2>2, <2>3, <2>5, <2>7 DEF LevelAt
    <2>9. lev[i] = lev[i - 1] + 1
      BY ONLY <2>8 DEF Above
    <2>10. LevelAt(h, d, lev, i - 1)
      BY ONLY <1>3, <2>7 DEF Frames
    <2> DEFINE y == i - 1
    <2>11. \E q : lev[y] \in 1 .. Len(q)
      BY ONLY <2>10 DEF LevelAt
    <2>12. lev[y] + 1 = 1
      BY ONLY <2>4, <2>9
    <2> HIDE DEF y
    <2>13. QED
      BY ONLY <2>11, <2>12
  <1>7. QED
    BY <1>6 DEF n, d


----------------------------------------------------------------------------
(* lua_resume. *)

(* A jump to luaD_rawrunprotected cuts the C stack. *)
LEMMA CutTo ==
  ASSUME NEW s, Shaped(s), NEW L, NEW j \in 1 .. Len(s.cs), s.th[L].jmp = j,
         NEW e \in Statuses, NEW u, u = LuaD_throw(s, L, e)
  PROVE  /\ Len(u.cs) = j /\ u.cs[j].status = e /\ SameRows(s.cs, u.cs, j)
         /\ \A i \in 1 .. j : i # j => u.cs[i] = s.cs[i]
         /\ u.th = s.th /\ u.panic = s.panic
  <1> DEFINE w == [s EXCEPT !.cs = SubSeq(@, 1, j)]
  <1>1. /\ Shaped(w) /\ Len(w.cs) = j /\ \A i \in 1 .. j : w.cs[i] = s.cs[i]
        /\ w.th = s.th /\ w.panic = s.panic
    BY CutShaped
  <1>2. u = Mark(w, j, e)
    <2>1. w.cs = SubSeq(s.cs, 1, j) /\ w.th = s.th /\ j # 0
      BY DEF Shaped
    <2>2. u = [s EXCEPT !.cs = [SubSeq(@, 1, j) EXCEPT ![j].status = e]]
      BY <2>1 DEF LuaD_throw
    <2>3. QED
      BY <2>1, <2>2 DEF Shaped, Mark
  <1> HIDE DEF w
  <1>3. j \in 1 .. Len(w.cs)
    BY <1>1
  <1>4. /\ Shaped(u) /\ Len(u.cs) = Len(w.cs) /\ u.cs[j].status = e
        /\ SameRows(w.cs, u.cs, Len(w.cs)) /\ u.th = w.th /\ u.panic = w.panic
        /\ \A i \in 1 .. Len(w.cs) : i # j => u.cs[i] = w.cs[i]
    BY ONLY <1>1, <1>2, <1>3, e \in Statuses, MarkRows
  <1>5. QED
    BY <1>1, <1>4 DEF SameRows

LEMMA ResumingThreads ==
  ASSUME NEW s, NEW L, Active(s, L), TopOf(s).fn = "cfun", NEW co \in Threads,
         NEW r, r = Resuming(s, L, co)
  PROVE  r.th[co].jmp = Len(s.cs) + 2 /\ \A t \in Threads : SameThread(r.th[t], s.th[t])
  <1> DEFINE n == Len(s.cs)
             x == n + 2
             q == r.th[co]
  <1>1. PICK w : /\ Local(s, w, co) /\ r.th[co] = [w.th[co] EXCEPT !.jmp = n + 2]
                 /\ w.th[co].ci = s.th[co].ci /\ w.th[co].up = s.th[co].up
                 /\ w.th[co].errfunc = s.th[co].errfunc /\ w.th[co].status = s.th[co].status
    BY ResumeBegun, SMTT(20)
  <1>2. \A t \in Threads : t # co => r.th[t] = s.th[t]
    BY ResumeBegun
  <1> DEFINE g == w.th[co]
  <1>3. IsThread(g) /\ q = [g EXCEPT !.jmp = x]
    BY <1>1 DEF Local
  <1>4. g.ci = s.th[co].ci /\ g.up = s.th[co].up
        /\ g.errfunc = s.th[co].errfunc /\ g.status = s.th[co].status
    BY <1>1
  <1> HIDE DEF g, q, x
  <1>5. q.jmp = x /\ q.ci = g.ci /\ q.up = g.up /\ q.errfunc = g.errfunc /\ q.status = g.status
    BY ONLY <1>3 DEF IsThread
  <1>6. SameThread(r.th[co], s.th[co])
    BY <1>4, <1>5 DEF SameThread, q
  <1>7. QED
    BY <1>2, <1>5, <1>6 DEF SameThread, q, x

(* A resume that is refused changes nothing that the levels depend on.     *)
LEMMA RefusedPlaced ==
  ASSUME NEW s, NEW L, Ready(s, L), TopOf(s).fn = "cfun", NEW co \in Threads,
         NEW r, r = Resuming(s, L, co), Refused(r, co),
         NEW u, u = LuaD_throw(r, co, RESUME_ERROR)
  PROVE  Placed(u) /\ Good(u)
  <1> DEFINE n == Len(s.cs)
             e == RESUME_ERROR
             j == n + 2
  <1>1. Active(s, L) /\ Sound(s) /\ Shaped(s) /\ Leveled(s.th, s.cs, n) /\ n \in Nat \ {0}
    BY ActiveFacts, Types DEF Ready
  <1>2. /\ Good(u) /\ Sound(r) /\ Shaped(r) /\ TopOf(r).fn = "raw" /\ Len(r.cs) = j
        /\ \A i \in 1 .. n : r.cs[i] = s.cs[i]
    BY <1>1, ResumeBegun DEF Sound
  <1>3. r.th[co].jmp = j /\ \A t \in Threads : SameThread(r.th[t], s.th[t])
    BY <1>1, ResumingThreads
  <1>4. e \in Statuses /\ u = LuaD_throw(r, co, e) /\ j \in 1 .. Len(r.cs)
    BY <1>1, <1>2, ErrorStatuses
  <1>5. r.cs[j].fn = "raw" /\ n \in 1 .. j /\ n \in 1 .. n /\ n # j /\ j - 2 = n
        /\ j \in 1 .. j
    BY <1>1, <1>2 DEF TopOf
  <1>6. e = RESUME_ERROR
    OBVIOUS
  <1> HIDE DEF j, e
  <1>7. /\ Len(u.cs) = j /\ u.cs[j].status = e /\ SameRows(r.cs, u.cs, j)
        /\ \A i \in 1 .. j : i # j => u.cs[i] = r.cs[i]
        /\ u.th = r.th
    BY ONLY <1>2, <1>3, <1>4, CutTo
  <1>8. LiveLen(u.cs) = n
    <2>1. u.cs[j].fn = "raw" /\ u.cs[j].status = RESUME_ERROR
      BY <1>5, <1>6, <1>7 DEF SameRows
    <2>2. QED
      BY <1>5, <1>7, <2>1 DEF LiveLen
  <1>9. SameRows(s.cs, u.cs, n) /\ u.cs[n].status = s.cs[n].status
    <2>1. ASSUME NEW i \in 1 .. n
          PROVE  u.cs[i] = s.cs[i]
      <3>1. i \in 1 .. j /\ i # j
        BY <1>1 DEF j
      <3>2. QED
        BY <1>2, <1>7, <3>1
    <2>2. QED
      BY <1>5, <2>1 DEF SameRows
  <1>10. Leveled(u.th, u.cs, n)
    <2>1. \A t \in Threads : SameThread(u.th[t], s.th[t])
      BY <1>3, <1>7
    <2>2. n \in 1 .. Len(s.cs)
      BY <1>5
    <2> HIDE DEF n
    <2>3. QED
      BY ONLY <1>1, <1>9, <2>1, <2>2, LevelsSame
  <1>11. RefsOK(u.th)
    <2>1. Sound(u) /\ n \in 1 .. Len(u.cs)
      BY <1>2, <1>5, <1>7 DEF Good
    <2> HIDE DEF n
    <2>2. QED
      BY ONLY <1>10, <2>1, Refs
  <1>12. QED
    BY <1>2, <1>8, <1>10, <1>11 DEF Placed

(* A coroutine that resume does not refuse. *)
LEMMA Resumable ==
  ASSUME NEW s, NEW L, Ready(s, L), TopOf(s).fn = "cfun", NEW co \in Threads \ {Main},
         s.th[co].status = YIELD \/ Len(s.th[co].ci) = 1
  PROVE  LET c == s.th[co].ci
             e == s.th[co].errfunc
         IN  /\ ChainOK(c) /\ UpOK(c, s.th[co].up)
             /\ e = 0 \/ (e \in 1 .. Len(c) /\ c[e].yp)
             /\ s.th[co].status = YIELD => Suspended(c)
             /\ Span(s.cs, co, Len(s.cs) + 1, Len(s.cs))
  <1> DEFINE n == Len(s.cs)
             c == s.th[co].ci
             e == s.th[co].errfunc
  <1>1. n \in Nat \ {0}
    BY ONLY Ready(s, L), SameChain
  <1>2. ThreadOK(s.th, s.cs, co, n)
    BY DEF Ready, Leveled, ThreadsOK
  <1>3. \A i \in 1 .. n : s.cs[i].L # co
    BY NotRunning
  <1>4. Span(s.cs, co, n + 1, n)
    BY <1>1, <1>3 DEF Span
  <1>5. Pcalls(s.cs, co, n, e) = {}
    BY <1>3 DEF Pcalls
  <1>6. e = 0 \/ (e \in 1 .. Len(c) /\ c[e].yp)
    BY <1>2, <1>5 DEF ThreadOK, Justified
  <1>7. QED
    BY <1>2, <1>4, <1>6 DEF ThreadOK

(* Its frames, and what it has been made to be, lie on those of its        *)
(* resumer.                                                                *)
LEMMA BeginsAbove ==
  ASSUME NEW s, NEW L, Ready(s, L), TopOf(s).fn = "cfun", NEW co \in Threads \ {Main},
         s.th[co].status = YIELD \/ Len(s.th[co].ci) = 1,
         NEW h2, NEW d2, NEW m, m = Len(s.cs) + 2 \/ m = Len(s.cs) + 3,
         \A i \in 1 .. Len(s.cs) : d2[i] = s.cs[i],
         \A q \in Threads : q # co => SameThread(h2[q], s.th[q]),
         d2[Len(s.cs) + 1].fn = "resume", d2[Len(s.cs) + 1].L = co,
         d2[Len(s.cs) + 2].fn = "raw", d2[Len(s.cs) + 2].L = co, d2[m].status = OK,
         m = Len(s.cs) + 3 => d2[m].fn = "unroll" /\ d2[m].L = co,
         NEW c2, h2[co].ci = c2, ChainOK(c2), UpOK(c2, h2[co].up), h2[co].status = OK,
         h2[co].errfunc = 0 \/ (h2[co].errfunc \in 1 .. Len(c2) /\ c2[h2[co].errfunc].yp),
         Continued(c2, Len(c2)), m = Len(s.cs) + 2 => Len(c2) = 1
  PROVE  Leveled(h2, d2, m)
  <1> DEFINE h == s.th
             d == s.cs
             n == Len(s.cs)
             a == n + 1
  <1>1. PICK lev, b : Standing(s, L, lev, b)
    BY ReadyStands
  <1>2. TopOf(s).L = L /\ TopOf(s).status = OK /\ TopOf(s) = s.cs[Len(s.cs)]
    BY ReadyStands
  <1>3. /\ n \in Nat \ {0} /\ s.cs[n].L = L /\ lev[n] = Len(s.th[L].ci)
        /\ ~s.th[L].ci[lev[n]].yp /\ s.th[L].status = OK
    BY <1>1, <1>2, StandsAt DEF OK, YIELD
  <1>4. /\ n \in Nat /\ Frames(h, d, lev, n) /\ ThreadsOK(h, d, n) /\ co \in Threads
        /\ a \in 2 .. n + 1
    BY <1>1, <1>3 DEF Standing
  <1>5. Span(d, co, a, n)
    BY Resumable
  <1>6. InC(h, d, lev, a - 1)
    <2>1. InC(s.th, s.cs, lev, Len(s.cs))
      BY ONLY <1>2, <1>3, TopOf(s).fn = "cfun" DEF n, InC
    <2>2. a - 1 = Len(s.cs)
      <3>1. n \in Nat /\ n = Len(s.cs)
        BY ONLY <1>3 DEF n
      <3> HIDE DEF n
      <3>2. QED
        BY ONLY <3>1 DEF a
    <2>3. QED
      BY ONLY <2>1, <2>2 DEF h, d
  <1>7. NewRows(d, d2, co, a, m)
    BY <1>3 DEF NewRows
  <1>8. NewRun(h, h2, d2, co, a, m, c2)
    BY <1>3 DEF NewRun, Justified
  <1> HIDE DEF h, d, n, a
  <1>9. QED
    BY ONLY <1>4, <1>5, <1>6, <1>7, <1>8, Begins

(* The coroutine starts with its function. *)
LEMMA Starts ==
  ASSUME NEW s, NEW L, Ready(s, L), TopOf(s).fn = "cfun", NEW co \in Threads \ {Main},
         NEW r, r = Resuming(s, L, co), ~Refused(r, co), s.th[co].status = OK
  PROVE  Ready(r, co) /\ Enters(r)
  <1> DEFINE n == Len(s.cs)
             m == n + 2
             c == s.th[co].ci
  <1>1. Active(s, L) /\ co \in Threads /\ n \in Nat \ {0}
    BY SameChain DEF Ready
  <1>2. /\ Active(r, co) /\ TopOf(r).fn = "raw" /\ TopOf(r).L = co /\ TopOf(r).status = OK
        /\ Len(r.cs) = n + 2 /\ r.cs[n + 1].fn = "resume" /\ r.cs[n + 1].L = co
        /\ \A i \in 1 .. n : r.cs[i] = s.cs[i]
    BY <1>1, ResumeBegun
  <1>3. \A t \in Threads : SameThread(r.th[t], s.th[t])
    BY <1>1, ResumingThreads
  <1>4. /\ r.th[co].ci = c /\ r.th[co].up = s.th[co].up /\ r.th[co].status = OK
        /\ r.th[co].errfunc = s.th[co].errfunc
    BY <1>1, <1>3 DEF SameThread
  <1>5. Len(c) = 1
    BY <1>4 DEF Refused, Depth
  <1>6. /\ ChainOK(c) /\ UpOK(c, s.th[co].up)
        /\ s.th[co].errfunc = 0 \/ (s.th[co].errfunc \in 1 .. Len(c) /\ c[s.th[co].errfunc].yp)
    BY <1>5, Resumable
  <1>7. Continued(c, Len(c))
    BY <1>5 DEF Continued
  <1>8. /\ m = Len(s.cs) + 2 \/ m = Len(s.cs) + 3
        /\ \A i \in 1 .. Len(s.cs) : r.cs[i] = s.cs[i]
        /\ \A q \in Threads : q # co => SameThread(r.th[q], s.th[q])
        /\ r.cs[Len(s.cs) + 1].fn = "resume" /\ r.cs[Len(s.cs) + 1].L = co
        /\ r.cs[Len(s.cs) + 2].fn = "raw" /\ r.cs[Len(s.cs) + 2].L = co /\ r.cs[m].status = OK
        /\ m = Len(s.cs) + 3 => r.cs[m].fn = "unroll" /\ r.cs[m].L = co
        /\ m = Len(s.cs) + 2 => Len(c) = 1
    BY <1>1, <1>2, <1>3, <1>5 DEF TopOf
  <1>9. /\ r.th[co].ci = c /\ ChainOK(c) /\ UpOK(c, r.th[co].up) /\ r.th[co].status = OK
        /\ r.th[co].errfunc = 0 \/ (r.th[co].errfunc \in 1 .. Len(c) /\ c[r.th[co].errfunc].yp)
        /\ Continued(c, Len(c))
    BY <1>4, <1>6, <1>7
  <1>10. s.th[co].status = YIELD \/ Len(s.th[co].ci) = 1
    BY <1>5
  <1>11. m = Len(r.cs)
    BY <1>2
  <1>12. Enters(r)
    <2>1. m - 1 = n + 1
      BY <1>1
    <2>2. QED
      BY <1>2, <2>1 DEF Enters, TopOf
  <1> HIDE DEF m, c
  <1>13. Leveled(r.th, r.cs, m)
    BY ONLY <1>8, <1>9, <1>10, Ready(s, L), TopOf(s).fn = "cfun", co \in Threads \ {Main}, BeginsAbove
  <1>14. QED
    BY <1>2, <1>11, <1>12, <1>13 DEF Ready

(* The coroutine goes on after a yield. *)
Going(s, co, go) ==
    /\ Active(go, co) /\ Shaped(go)
    /\ Len(go.cs) = Len(s.cs) + 3 /\ \A i \in 1 .. Len(s.cs) : go.cs[i] = s.cs[i]
    /\ go.cs[Len(s.cs) + 1].fn = "resume" /\ go.cs[Len(s.cs) + 1].L = co
    /\ go.cs[Len(s.cs) + 2].fn = "raw" /\ go.cs[Len(s.cs) + 2].L = co
    /\ TopOf(go).fn = "unroll" /\ TopOf(go).L = co /\ TopOf(go).status = OK
    /\ Edit(s, go, co, s.th[co].ci, s.th[co].up, s.th[co].errfunc, OK)

LEMMA GoesOn ==
  ASSUME NEW s, NEW L, Ready(s, L), TopOf(s).fn = "cfun", NEW co \in Threads \ {Main},
         NEW r, r = Resuming(s, L, co), ~Refused(r, co),
         NEW st, st = [r EXCEPT !.th[co].status = OK],
         NEW go, go = Push(st, Frame("unroll", co))
  PROVE  Going(s, co, go)
  <1> DEFINE n == Len(s.cs)
             f == Frame("unroll", co)
             x == OK
  <1>1. Active(s, L) /\ co \in Threads /\ n \in Nat \ {0}
    BY SameChain DEF Ready
  <1>2. /\ Active(r, co) /\ TopOf(r).fn = "raw" /\ TopOf(r).L = co /\ TopOf(r).status = OK
        /\ Len(r.cs) = n + 2 /\ r.cs[n + 1].fn = "resume" /\ r.cs[n + 1].L = co
        /\ \A i \in 1 .. n : r.cs[i] = s.cs[i]
    BY <1>1, ResumeBegun
  <1>3. \A t \in Threads : SameThread(r.th[t], s.th[t])
    BY <1>1, ResumingThreads
  <1>4. Shaped(r)
    BY <1>2, ActiveFacts
  <1>5. st = [r EXCEPT !.th[co].status = x]
    OBVIOUS
  <1> HIDE DEF x
  <1>6. st.cs = r.cs /\ Edit(r, st, co, r.th[co].ci, r.th[co].up, r.th[co].errfunc, x)
    <2>1. Shaped(r) /\ co \in Threads
      BY <1>4
    <2>2. QED
      BY ONLY <1>5, <2>1, EditStatus
  <1>7. Active(st, co)
    BY ONLY <1>2, <1>5, ActiveFields
  <1>8. Shaped(st)
    BY ONLY <1>7, ActiveFacts
  <1>9. IsFrame(f) /\ f.fn = "unroll" /\ f.L = co /\ f.status = OK
    BY ONLY <1>1, NewFrame
  <1>10. Active(go, co)
    BY <1>7, PushPlain
  <1>11. go = Push(st, f)
    OBVIOUS
  <1> HIDE DEF f
  <1>12. /\ Shaped(go) /\ Len(go.cs) = Len(st.cs) + 1 /\ TopOf(go) = f
         /\ \A i \in 1 .. Len(st.cs) : go.cs[i] = st.cs[i]
         /\ go.th = st.th
    BY ONLY <1>8, <1>9, <1>11, PushShaped
  <1>13. /\ Len(go.cs) = n + 3 /\ \A i \in 1 .. n : go.cs[i] = s.cs[i]
         /\ go.cs[n + 1] = r.cs[n + 1] /\ go.cs[n + 2] = r.cs[n + 2]
    <2>1. /\ n + 1 \in 1 .. n + 2 /\ n + 2 \in 1 .. n + 2 /\ n + 2 + 1 = n + 3
          /\ \A i \in 1 .. n : i \in 1 .. n + 2
      BY <1>1
    <2>2. /\ Len(r.cs) = n + 2 /\ st.cs = r.cs /\ Len(go.cs) = Len(st.cs) + 1
          /\ \A i \in 1 .. Len(st.cs) : go.cs[i] = st.cs[i]
          /\ \A i \in 1 .. n : r.cs[i] = s.cs[i]
      BY <1>2, <1>6, <1>12
    <2>3. QED
      BY ONLY <2>1, <2>2
  <1>14. Edit(s, go, co, s.th[co].ci, s.th[co].up, s.th[co].errfunc, OK)
    <2>1. x = OK
      BY DEF x
    <2>2. QED
      BY ONLY <1>1, <1>3, <1>6, <1>12, <2>1 DEF Edit, SameThread
  <1>15. r.cs[n + 2] = TopOf(r)
    BY <1>2 DEF TopOf
  <1>16. QED
    BY ONLY <1>2, <1>9, <1>10, <1>12, <1>13, <1>14, <1>15 DEF Going, n

LEMMA GoingLevels ==
  ASSUME NEW s, NEW L, Ready(s, L), TopOf(s).fn = "cfun", NEW co \in Threads \ {Main},
         s.th[co].status = YIELD, NEW go, Going(s, co, go),
         NEW c2, ChainOK(c2), Continued(c2, Len(c2)), UpOK(c2, s.th[co].up),
         NEW e, e = s.th[co].errfunc, e = 0 \/ (e \in 1 .. Len(c2) /\ c2[e].yp),
         NEW u, u.cs = go.cs, Edit(go, u, co, c2, s.th[co].up, e, OK), Active(u, co)
  PROVE  Ready(u, co)
  <1> DEFINE n == Len(s.cs)
             m == n + 3
  <1>1. n \in Nat \ {0}
    BY ONLY Ready(s, L), SameChain
  <1>2. /\ m = Len(s.cs) + 2 \/ m = Len(s.cs) + 3
        /\ \A i \in 1 .. Len(s.cs) : u.cs[i] = s.cs[i]
        /\ u.cs[Len(s.cs) + 1].fn = "resume" /\ u.cs[Len(s.cs) + 1].L = co
        /\ u.cs[Len(s.cs) + 2].fn = "raw" /\ u.cs[Len(s.cs) + 2].L = co /\ u.cs[m].status = OK
        /\ m = Len(s.cs) + 3 => u.cs[m].fn = "unroll" /\ u.cs[m].L = co
        /\ m = Len(s.cs) + 2 => Len(c2) = 1
    <2>1. /\ Len(go.cs) = Len(s.cs) + 3 /\ \A i \in 1 .. Len(s.cs) : go.cs[i] = s.cs[i]
          /\ go.cs[Len(s.cs) + 1].fn = "resume" /\ go.cs[Len(s.cs) + 1].L = co
          /\ go.cs[Len(s.cs) + 2].fn = "raw" /\ go.cs[Len(s.cs) + 2].L = co
          /\ go.cs[m].fn = "unroll" /\ go.cs[m].L = co /\ go.cs[m].status = OK
      BY DEF Going, TopOf
    <2>2. m # Len(s.cs) + 2
      BY <1>1
    <2>3. QED
      BY <2>1, <2>2
  <1>3. \A q \in Threads : q # co => SameThread(u.th[q], s.th[q])
    BY DEF Going, Edit, SameThread
  <1>4. /\ u.th[co].ci = c2 /\ ChainOK(c2) /\ UpOK(c2, u.th[co].up) /\ u.th[co].status = OK
        /\ u.th[co].errfunc = 0 \/ (u.th[co].errfunc \in 1 .. Len(c2) /\ c2[u.th[co].errfunc].yp)
        /\ Continued(c2, Len(c2))
    BY DEF Edit
  <1>5. m = Len(u.cs)
    BY DEF Going
  <1>6. s.th[co].status = YIELD \/ Len(s.th[co].ci) = 1
    OBVIOUS
  <1> HIDE DEF m
  <1>7. Leveled(u.th, u.cs, m)
    BY ONLY <1>2, <1>3, <1>4, <1>6, Ready(s, L), TopOf(s).fn = "cfun",
            co \in Threads \ {Main}, BeginsAbove
  <1>8. QED
    BY <1>5, <1>7 DEF Ready

(* A yield whose caller waits for it: the function that yielded returns.   *)
LEMMA GoesBack ==
  ASSUME NEW s, NEW L, Ready(s, L), TopOf(s).fn = "cfun", NEW co \in Threads \ {Main},
         s.th[co].status = YIELD, NEW go, Going(s, co, go),
         NEW u, u = LuaD_poscall(go, co)
  PROVE  Ready(u, co)
  <1> DEFINE c == s.th[co].ci
             x == Len(c)
             c2 == SubSeq(c, 1, x - 1)
             e == s.th[co].errfunc
             up == s.th[co].up
  <1>1. /\ ChainOK(c) /\ UpOK(c, up) /\ Suspended(c)
        /\ e = 0 \/ (e \in 1 .. x /\ c[e].yp)
    BY Resumable
  <1>2. x \in Nat \ {0} /\ x > 1 /\ ~c[x].lua /\ ~c[x].yp /\ Continued(c, x - 1)
    BY <1>1, ChainFacts DEF Suspended
  <1>3. /\ Active(go, co) /\ Shaped(go) /\ go.th[co].ci = c /\ go.th[co].up = up
        /\ go.th[co].errfunc = e /\ go.th[co].status = OK /\ co \in Threads
    BY DEF Going, Edit
  <1>4. u = [go EXCEPT !.th[co].ci = c2]
    BY <1>3 DEF LuaD_poscall, Shaped
  <1>5. Active(u, co)
    BY <1>3, Poscall
  <1> HIDE DEF c, c2, e, up, x
  <1>6. ChainOK(c2) /\ Len(c2) = x - 1 /\ \A l \in 1 .. x - 1 : c2[l] = c[l]
    <2> DEFINE y == x - 1
    <2>1. y \in 1 .. Len(c) /\ c2 = SubSeq(c, 1, y)
      BY <1>2 DEF x, c2
    <2> HIDE DEF y
    <2>2. ChainOK(c2) /\ Len(c2) = y /\ \A l \in 1 .. y : c2[l] = c[l]
      BY ONLY <1>1, <2>1, ChainCut
    <2>3. QED
      BY <2>2 DEF y
  <1>7. Continued(c2, Len(c2))
    BY ONLY <1>2, <1>6 DEF Continued
  <1>8. UpOK(c2, up)
    <2>1. ASSUME NEW i \in up
          PROVE  i \in 1 .. Len(c2) /\ c2[i].lua
      <3>1. i \in 1 .. x /\ c[i].lua
        BY <1>1 DEF UpOK, x
      <3>2. i \in 1 .. x - 1
        BY <1>2, <3>1
      <3>3. QED
        BY <1>6, <3>1, <3>2
    <2>2. QED
      BY <2>1 DEF UpOK
  <1>9. e = 0 \/ (e \in 1 .. Len(c2) /\ c2[e].yp)
    <2>1. e # 0 => e \in 1 .. x - 1
      BY <1>1, <1>2
    <2>2. QED
      BY <1>1, <1>6, <2>1
  <1>10. u.cs = go.cs /\ Edit(go, u, co, c2, up, e, OK)
    <2>1. u.cs = go.cs /\ Edit(go, u, co, c2, go.th[co].up, go.th[co].errfunc, go.th[co].status)
      BY ONLY <1>3, <1>4, EditCi
    <2>2. QED
      BY <1>3, <2>1
  <1>11. UpOK(c2, s.th[co].up) /\ e = s.th[co].errfunc
         /\ Edit(go, u, co, c2, s.th[co].up, e, OK)
    BY <1>8, <1>10 DEF up, e
  <1>12. QED
    BY ONLY <1>5, <1>6, <1>7, <1>9, <1>10, <1>11, Ready(s, L), TopOf(s).fn = "cfun",
            co \in Threads \ {Main}, s.th[co].status = YIELD, Going(s, co, go), GoingLevels

(* Its continuation is called. *)
LEMMA GoesForward ==
  ASSUME NEW s, NEW L, Ready(s, L), TopOf(s).fn = "cfun", NEW co \in Threads \ {Main},
         s.th[co].status = YIELD, NEW go, Going(s, co, go),
         s.th[co].ci[Len(s.th[co].ci)].k,
         NEW u, u = Push(go, Frame("cfun", co))
  PROVE  Ready(u, co)
  <1> DEFINE c == s.th[co].ci
             e == s.th[co].errfunc
             up == s.th[co].up
             f == Frame("cfun", co)
  <1>1. /\ ChainOK(c) /\ UpOK(c, up) /\ Suspended(c)
        /\ e = 0 \/ (e \in 1 .. Len(c) /\ c[e].yp)
    BY Resumable
  <1>2. /\ Len(c) \in Nat \ {0} /\ Len(c) > 1 /\ ~c[Len(c)].lua /\ ~c[Len(c)].yp
        /\ Continued(c, Len(c) - 1) /\ c[Len(c)].k
    BY <1>1, ChainFacts DEF Suspended
  <1>3. /\ Active(go, co) /\ Shaped(go) /\ go.th[co].ci = c /\ go.th[co].up = up
        /\ go.th[co].errfunc = e /\ go.th[co].status = OK /\ co \in Threads
        /\ TopOf(go).fn = "unroll"
    BY DEF Going, Edit
  <1>4. Active(u, co)
    BY <1>3, PushPlain
  <1>5. IsFrame(f) /\ f.fn = "cfun" /\ f.L = co /\ f.status = OK
    BY NewFrame
  <1>6. u = Push(go, f)
    OBVIOUS
  <1>7. c = s.th[co].ci /\ e = s.th[co].errfunc /\ up = s.th[co].up
    OBVIOUS
  <1> HIDE DEF c, e, up, f
  <1>8. Continued(c, Len(c))
    <2> DEFINE x == Len(c)
    <2>1. x \in Nat \ {0} /\ Continued(c, x - 1) /\ c[x].k
      BY <1>2
    <2> HIDE DEF x
    <2>2. Continued(c, x)
      BY ONLY <2>1 DEF Continued
    <2>3. QED
      BY <2>2 DEF x
  <1>9. Edit(go, go, co, c, up, e, OK)
    BY <1>3 DEF Edit, SameThread
  <1>10. Ready(go, co)
    <2>1. /\ UpOK(c, s.th[co].up) /\ e = s.th[co].errfunc /\ go.cs = go.cs
          /\ Edit(go, go, co, c, s.th[co].up, e, OK)
      BY <1>1, <1>7, <1>9
    <2>2. QED
      BY ONLY <1>1, <1>3, <1>8, <2>1, Ready(s, L), TopOf(s).fn = "cfun",
              co \in Threads \ {Main}, s.th[co].status = YIELD, Going(s, co, go), GoingLevels
  <1>11. Grown(go, u, f) /\ Edit(go, u, co, c, up, e, OK)
    BY ONLY <1>3, <1>5, <1>6, <1>9, PushedEdit
  <1>12. Extends(c, c, 1)
    BY <1>2 DEF Extends
  <1>13. Justified(c, go.cs, co, Len(go.cs), e)
    BY <1>1 DEF Justified
  <1>14. /\ Len(go.th[co].ci) > 1 /\ Len(c) = Len(go.th[co].ci)
         /\ (\A l \in 1 .. Len(c) - 1 : c[l] = go.th[co].ci[l])
         /\ Extends(go.th[co].ci, c, 1)
    BY <1>2, <1>3, <1>12
  <1>15. Leveled(u.th, u.cs, Len(u.cs))
    BY ONLY <1>1, <1>2, <1>3, <1>5, <1>10, <1>11, <1>13, <1>14, Unrolled
  <1>16. QED
    BY <1>4, <1>15 DEF Ready

LEMMA ResumeLevels ==
  ASSUME NEW L, NEW co \in Threads \ {Main}, CallsInv, LevelsInv, Lua_resume(L, co)
  PROVE  LevelsInv'
  <1> DEFINE s == State
             r == Resuming(s, L, co)
             u == LuaD_throw(r, co, RESUME_ERROR)
             st == [r EXCEPT !.th[co].status = OK]
             go == Push(st, Frame("unroll", co))
             fw == Push(go, Frame("cfun", co))
             bk == LuaD_poscall(go, co)
  <1>1. Ready(s, L) /\ TopOf(s).fn = "cfun"
    BY LevelsRun DEF Lua_resume, Running
  <1>2. r = Resuming(s, L, co) /\ u = LuaD_throw(r, co, RESUME_ERROR)
        /\ st = [r EXCEPT !.th[co].status = OK] /\ go = Push(st, Frame("unroll", co))
        /\ fw = Push(go, Frame("cfun", co)) /\ bk = LuaD_poscall(go, co)
    OBVIOUS
  <1>3. s.th = th
    BY Fields
  <1>4. r = LuaD_rawrunprotected(
              Push([s EXCEPT !.th[co].nC = ResumeDepth(L, co), !.th[co].nny = 0],
                   [Frame("resume", co) EXCEPT !.nny = th[co].nny]), co)
    <2> HIDE DEF s
    <2>1. QED
      BY <1>3 DEF Resuming, ResumeDepth
  <1>5. \/ Refused(r, co) /\ Become(u)
        \/ ~Refused(r, co) /\ th[co].status = OK
           /\ \E lua \in BOOLEAN : Become(PrecallAndExecute(r, co, lua))
        \/ ~Refused(r, co) /\ th[co].status # OK
           /\ Become(IF CurrentCI(r, co).k THEN fw ELSE bk)
    <2> HIDE DEF r
    <2>1. CASE Refused(r, co)
      BY <1>4, <2>1 DEF Lua_resume
    <2>2. CASE ~Refused(r, co) /\ th[co].status = OK
      BY <1>4, <2>2 DEF Lua_resume
    <2>3. CASE ~Refused(r, co) /\ th[co].status # OK
      BY <1>4, <2>3 DEF Lua_resume
    <2>4. QED
      BY <2>1, <2>2, <2>3
  <1> HIDE DEF s, r, u, st, go, fw, bk
  <1>6. Refused(r, co) => Placed(u) /\ Good(u)
    BY ONLY <1>1, <1>2, co \in Threads \ {Main}, RefusedPlaced
  <1>7. ~Refused(r, co) /\ s.th[co].status = OK =>
          \A lua \in BOOLEAN : Placed(PrecallAndExecute(r, co, lua))
                               /\ Good(PrecallAndExecute(r, co, lua))
    <2> SUFFICES ASSUME ~Refused(r, co), s.th[co].status = OK, NEW lua \in BOOLEAN
                 PROVE  Placed(PrecallAndExecute(r, co, lua))
                        /\ Good(PrecallAndExecute(r, co, lua))
      OBVIOUS
    <2>1. Ready(r, co) /\ Enters(r)
      BY ONLY <1>1, <1>2, co \in Threads \ {Main}, ~Refused(r, co), s.th[co].status = OK, Starts
    <2>2. QED
      BY <2>1, Precalls, PrecallExecute DEF Ready
  <1>8. /\ \A t \in Threads : SameThread(r.th[t], s.th[t])
    BY <1>1, <1>2, ResumingThreads DEF Ready
  <1>9. ~Refused(r, co) /\ s.th[co].status # OK =>
          Ready(IF CurrentCI(r, co).k THEN fw ELSE bk, co)
    <2> SUFFICES ASSUME ~Refused(r, co), s.th[co].status # OK
                 PROVE  Ready(IF CurrentCI(r, co).k THEN fw ELSE bk, co)
      OBVIOUS
    <2>1. r.th[co].ci = s.th[co].ci /\ r.th[co].status = s.th[co].status
      BY <1>8 DEF SameThread
    <2>2. s.th[co].status = YIELD
      BY <2>1 DEF Refused
    <2>3. Going(s, co, go)
      BY ONLY <1>1, <1>2, co \in Threads \ {Main}, ~Refused(r, co), GoesOn
    <2>4. Ready(bk, co)
      BY ONLY <1>1, <1>2, <2>2, <2>3, co \in Threads \ {Main}, GoesBack
    <2>5. s.th[co].ci[Len(s.th[co].ci)].k => Ready(fw, co)
      BY ONLY <1>1, <1>2, <2>2, <2>3, co \in Threads \ {Main}, GoesForward
    <2>6. CurrentCI(r, co).k <=> s.th[co].ci[Len(s.th[co].ci)].k
      BY <2>1 DEF CurrentCI, Depth
    <2>7. CASE CurrentCI(r, co).k
      BY <2>5, <2>6, <2>7
    <2>8. CASE ~CurrentCI(r, co).k
      BY <2>4, <2>8
    <2>9. QED
      BY <2>7, <2>8
  <1>10. QED
    BY <1>3, <1>5, <1>6, <1>7, <1>9, ReadyPlaced, LevelsBecome

----------------------------------------------------------------------------
(* lua_resume after an error. *)

LEMMA RecoverEdits ==
  ASSUME NEW s, Shaped(s), NEW L \in Threads, NEW level, NEW u, u = Recover(s, L, level),
         NEW c2, c2 = SubSeq(s.th[L].ci, 1, level),
         NEW p2, p2 = {i \in s.th[L].up : i < level + 1},
         NEW e2, e2 = s.th[L].ci[level].olderr
  PROVE  /\ u.cs = s.cs /\ Local(s, u, L)
         /\ Edit(s, u, L, c2, p2, e2, s.th[L].status)
  <1> DEFINE up == {i \in s.th[L].up : i < level + 1}
             a == [s EXCEPT !.th[L].up = up]
             ci == SubSeq(a.th[L].ci, 1, level)
             b == [a EXCEPT !.th[L].ci = ci]
             x == 0
             c == [b EXCEPT !.th[L].nny = x]
             ef == s.th[L].ci[level].olderr
             d == [c EXCEPT !.th[L].errfunc = ef]
  <1>1. u = LuaD_shrinkstack(d, L)
    <2>1. LuaF_close(s, L, level + 1) = a
      BY DEF LuaF_close
    <2> HIDE DEF a
    <2>2. [a EXCEPT !.th[L].ci = SubSeq(@, 1, level), !.th[L].nny = 0,
                    !.th[L].errfunc = s.th[L].ci[level].olderr] = d
      OBVIOUS
    <2> HIDE DEF d
    <2>3. QED
      BY <2>1, <2>2 DEF Recover
  <1>2. /\ a = [s EXCEPT !.th[L].up = up] /\ b = [a EXCEPT !.th[L].ci = ci]
        /\ c = [b EXCEPT !.th[L].nny = x] /\ Local(s, s, L) /\ x \in Int
        /\ ci = SubSeq(a.th[L].ci, 1, level) /\ d = [c EXCEPT !.th[L].errfunc = ef]
    BY LocalSelf
  <1> HIDE DEF up, x, a, b, c, ci, ef, d
  <1>3. Local(s, a, L) /\ a.cs = s.cs
        /\ Edit(s, a, L, s.th[L].ci, up, s.th[L].errfunc, s.th[L].status)
    <2>1. Local(s, a, L)
      BY <1>2, LocalFields
    <2>2. a = [s EXCEPT !.th[L].up = up]
      BY <1>2
    <2>3. a.cs = s.cs /\ Edit(s, a, L, s.th[L].ci, up, s.th[L].errfunc, s.th[L].status)
      BY <2>2, EditUp
    <2>4. QED
      BY <2>1, <2>3
  <1>4. Shaped(a) /\ a.th[L].ci = s.th[L].ci /\ a.th[L].up = up
        /\ a.th[L].errfunc = s.th[L].errfunc /\ a.th[L].status = s.th[L].status
    BY <1>3, LocalEdit DEF Edit
  <1>5. Local(s, b, L) /\ b.cs = s.cs
        /\ Edit(a, b, L, ci, a.th[L].up, a.th[L].errfunc, a.th[L].status)
    <2>1. Local(s, b, L)
      BY <1>2, <1>3, LocalFields
    <2>2. b = [a EXCEPT !.th[L].ci = ci]
      BY <1>2
    <2>3. b.cs = a.cs /\ Edit(a, b, L, ci, a.th[L].up, a.th[L].errfunc, a.th[L].status)
      BY <1>4, <2>2, EditCi
    <2>4. QED
      BY <1>3, <2>1, <2>3
  <1>6. Edit(s, b, L, ci, up, s.th[L].errfunc, s.th[L].status)
    BY <1>3, <1>4, <1>5, EditAgain
  <1>7. Shaped(b)
    BY <1>5, LocalEdit
  <1>8. Local(s, c, L) /\ c.cs = s.cs
        /\ Edit(b, c, L, b.th[L].ci, b.th[L].up, b.th[L].errfunc, b.th[L].status)
    <2>1. c = [b EXCEPT !.th[L].nny = x] /\ Shaped(s) /\ Local(s, b, L) /\ x \in Int
      BY <1>2, <1>5
    <2>2. Local(s, c, L)
      BY ONLY <2>1, L \in Threads, LocalNny
    <2>3. \/ c = [b EXCEPT !.th[L].nny = x] \/ c = [b EXCEPT !.th[L].nC = x]
          \/ c = [b EXCEPT !.th[L].jmp = x] \/ c = [b EXCEPT !.th[L].big = x]
      BY <2>1
    <2>4. c.cs = b.cs /\ Edit(b, c, L, b.th[L].ci, b.th[L].up, b.th[L].errfunc, b.th[L].status)
      BY ONLY <1>7, <2>3, L \in Threads, EditCounts
    <2>5. QED
      BY <1>5, <2>2, <2>4
  <1>9. Edit(s, c, L, ci, up, s.th[L].errfunc, s.th[L].status) /\ Shaped(c)
    <2>1. Edit(b, c, L, ci, up, s.th[L].errfunc, s.th[L].status)
      BY <1>6, <1>8 DEF Edit
    <2>2. QED
      BY <1>6, <1>8, <2>1, EditAgain, LocalEdit
  <1>10. Local(s, d, L) /\ d.cs = s.cs /\ Edit(c, d, L, ci, up, ef, s.th[L].status)
    <2>1. d = [c EXCEPT !.th[L].errfunc = ef]
      BY <1>2
    <2>2. Local(s, d, L)
      BY <1>8, <2>1, LocalFields
    <2>3. d.cs = c.cs /\ Edit(c, d, L, c.th[L].ci, c.th[L].up, ef, c.th[L].status)
      BY ONLY <1>9, <2>1, L \in Threads, EditErrfunc
    <2>4. QED
      BY <1>8, <1>9, <2>2, <2>3 DEF Edit
  <1>11. Edit(s, d, L, ci, up, ef, s.th[L].status) /\ Shaped(d)
    BY <1>9, <1>10, EditAgain, LocalEdit
  <1>12. u.cs = s.cs /\ Edit(d, u, L, ci, up, ef, s.th[L].status)
    <2>1. u.cs = d.cs /\ Edit(d, u, L, d.th[L].ci, d.th[L].up, d.th[L].errfunc, d.th[L].status)
      BY ONLY <1>1, <1>11, L \in Threads, ShrinkEdits
    <2>2. QED
      BY <1>10, <1>11, <2>1 DEF Edit
  <1>13. Local(s, u, L)
    BY <1>1, <1>10, Shrink
  <1>14. Edit(s, u, L, ci, up, ef, s.th[L].status)
    BY <1>11, <1>12, EditAgain
  <1>15. ci = c2 /\ up = p2 /\ ef = e2
    BY <1>2, <1>4 DEF up, ef
  <1>16. QED
    BY <1>12, <1>13, <1>14, <1>15

(* findpcall finds a suspended protected call. *)
LEMMA Found ==
  ASSUME NEW L, IsSequence(th[L].ci), Findpcall(L) # 0
  PROVE  Findpcall(L) \in 1 .. Len(th[L].ci) /\ th[L].ci[Findpcall(L)].yp
  <1> DEFINE c == th[L].ci
             n == Len(c)
             A == {i \in DOMAIN c : c[i].yp}
  <1>1. n \in Nat /\ DOMAIN c = 1 .. n
    BY DEF IsSequence
  <1>2. A \in SUBSET (1 .. n)
    BY <1>1
  <1>3. Findpcall(L) = IF A = {} THEN 0 ELSE CHOOSE i \in A : \A j \in A : j <= i
    BY DEF Findpcall
  <1>4. \A i \in A : c[i].yp
    OBVIOUS
  <1> HIDE DEF n, A
  <1>5. A # {}
    BY <1>3
  <1>6. \E i \in A : \A j \in A : j <= i
    BY ONLY <1>1, <1>2, <1>5, LastOne
  <1>7. Findpcall(L) \in A
    BY <1>3, <1>5, <1>6
  <1>8. QED
    BY <1>2, <1>4, <1>7 DEF n

(* The levels above the protected call are given up, and unroll runs in a  *)
(* new luaD_rawrunprotected.                                               *)
LEMMA RecoveryReady ==
  ASSUME NEW s, Good(s), ~s.panic, NEW L, TopOf(s).L = L, TopOf(s).fn = "resume",
         ErrorStatus(TopOf(s).status), Leveled(s.th, s.cs, Len(s.cs)),
         NEW level \in 1 .. Len(s.th[L].ci), s.th[L].ci[level].yp,
         NEW w, w = Recover(s, L, level), NEW u, u = LuaD_rawrunprotected(w, L),
         NEW v, v = Push(u, Frame("unroll", L))
  PROVE  /\ Ready(v, L) /\ TopOf(v).fn = "unroll"
         /\ Len(v.th[L].ci) > 1 /\ ~v.th[L].ci[Len(v.th[L].ci)].lua
  <1> DEFINE h == s.th
             d == s.cs
             n == Len(s.cs)
             m == n + 2
             c == s.th[L].ci
             c2 == SubSeq(c, 1, level)
             p2 == {i \in s.th[L].up : i < level + 1}
             e2 == c[level].olderr
             f == Frame("unroll", L)
             h2 == v.th
             d2 == v.cs
  <1>1. Sound(s) /\ Shaped(s) /\ TopOf(s) = s.cs[n] /\ n \in Nat \ {0} /\ L \in Threads
    BY Types DEF Good, Sound, TopOf
  <1>2. PICK lev, a : Standing(s, L, lev, a)
    BY <1>1, Stands
  <1>3. /\ Frames(h, d, lev, n) /\ ThreadsOK(h, d, n) /\ Span(d, L, a, n) /\ a \in 1 .. n
        /\ LevelAt(h, d, lev, n) /\ FrameAt(d, n)
        /\ ChainOK(c) /\ UpOK(c, s.th[L].up) /\ s.th[L].status = OK
    <2>1. s.cs[n].status # YIELD
      BY <1>1 DEF ErrorStatus, YIELD
    <2>2. /\ Frames(h, d, lev, n) /\ ThreadsOK(h, d, n) /\ Span(d, L, a, n) /\ a \in 1 .. n
      BY <1>2 DEF Standing
    <2>3. n \in 1 .. n
      BY <1>1
    <2>4. LevelAt(h, d, lev, n) /\ FrameAt(d, n)
      BY ONLY <2>2, <2>3 DEF Frames
    <2>5. ChainOK(c) /\ UpOK(c, s.th[L].up)
          /\ s.th[L].status = (IF s.cs[n].status = YIELD THEN YIELD ELSE OK)
      BY <1>2, StandsAt
    <2>6. QED
      BY <2>1, <2>2, <2>4, <2>5
  <1>4. a = n
    <2>1. d[n].fn = "resume"
      BY <1>1
    <2>2. ~(n \in a + 1 .. n)
      BY <1>3, <2>1 DEF Span
    <2>3. QED
      BY <1>1, <1>3, <2>2
  <1>5. n > 1 /\ d[n - 1].fn = "cfun" /\ d[n].fn = "resume" /\ d[n].L = L
    BY <1>1, <1>3 DEF FrameAt
  <1>6. /\ Len(h[d[n - 1].L].ci) = lev[n - 1] /\ ~h[d[n - 1].L].ci[lev[n - 1]].yp
        /\ h[d[n - 1].L].status = OK
    BY <1>3, <1>5 DEF LevelAt, Resumer
  <1>7. /\ ChainOK(c2) /\ Len(c2) = level /\ \A l \in 1 .. level : c2[l] = c[l]
    <2>1. ChainOK(c) /\ level \in 1 .. Len(c)
      BY <1>3
    <2> HIDE DEF c
    <2>2. QED
      BY ONLY <2>1, ChainCut DEF c2
  <1>8. /\ level > 1 /\ ~c[level].lua /\ Continued(c, level)
        /\ e2 = 0 \/ (e2 \in 1 .. level - 1 /\ c[e2].yp)
    BY <1>3 DEF ChainOK
  <1>9. /\ Active(u, L) /\ Len(u.cs) = n + 1
        /\ TopOf(u).fn = "raw" /\ TopOf(u).L = L
        /\ \A i \in 1 .. n : u.cs[i] = s.cs[i]
        /\ u.th[L] = [w.th[L] EXCEPT !.jmp = n + 1]
        /\ \A t \in Threads : t # L => u.th[t] = s.th[t]
    <2>1. /\ Good(s) /\ ~s.panic /\ TopOf(s).L = L /\ TopOf(s).fn = "resume"
          /\ ErrorStatus(TopOf(s).status)
          /\ w = Recover(s, L, level) /\ u = LuaD_rawrunprotected(w, L)
      OBVIOUS
    <2> HIDE DEF n
    <2>2. Protected(s, L, w, u)
      BY ONLY <2>1, Recovered
    <2>3. QED
      BY ONLY <2>2 DEF Protected, n
  <1>10. Edit(s, w, L, c2, p2, e2, s.th[L].status) /\ IsThread(w.th[L])
    <2>1. c2 = SubSeq(s.th[L].ci, 1, level) /\ p2 = {i \in s.th[L].up : i < level + 1}
          /\ e2 = s.th[L].ci[level].olderr /\ w = Recover(s, L, level) /\ Shaped(s)
          /\ L \in Threads
      BY <1>1
    <2> HIDE DEF c2, p2, e2
    <2>2. Edit(s, w, L, c2, p2, e2, s.th[L].status) /\ Local(s, w, L)
      BY ONLY <2>1, RecoverEdits
    <2>3. QED
      BY <2>2 DEF Local
  <1>11. /\ \A t \in Threads : t # L => SameThread(u.th[t], s.th[t])
         /\ u.th[L].ci = c2 /\ u.th[L].up = p2 /\ u.th[L].errfunc = e2 /\ u.th[L].status = OK
    <2> HIDE DEF c2, p2, e2, n
    <2>1. u.th[L].ci = w.th[L].ci /\ u.th[L].up = w.th[L].up
          /\ u.th[L].errfunc = w.th[L].errfunc /\ u.th[L].status = w.th[L].status
      BY <1>9, <1>10 DEF IsThread
    <2>2. QED
      BY <1>3, <1>9, <1>10, <2>1 DEF Edit, SameThread
  <1>12. IsFrame(f) /\ f.fn = "unroll" /\ f.L = L /\ f.status = OK /\ v = Push(u, f)
    BY <1>1, NewFrame
  <1>13. Active(v, L)
    BY <1>9, PushPlain
  <1>14. Shaped(u)
    BY <1>9, ActiveFacts
  <1> HIDE DEF f
  <1>15. /\ Len(v.cs) = Len(u.cs) + 1 /\ TopOf(v) = f /\ v.cs[Len(u.cs) + 1] = f
         /\ \A i \in 1 .. Len(u.cs) : v.cs[i] = u.cs[i]
         /\ v.th = u.th
    BY ONLY <1>12, <1>14, PushShaped
  <1>16. UpOK(c2, p2)
    <2>1. ASSUME NEW i \in p2
          PROVE  i \in 1 .. Len(c2) /\ c2[i].lua
      <3>1. i \in 1 .. Len(c) /\ c[i].lua /\ i < level + 1
        BY <1>3 DEF UpOK
      <3>2. i \in 1 .. level
        BY <3>1
      <3>3. QED
        BY <1>7, <3>1, <3>2
    <2> HIDE DEF c2, p2
    <2>2. QED
      BY <2>1 DEF UpOK
  <1> HIDE DEF c, c2, p2, e2
  <1>17. Continued(c2, Len(c2)) /\ Len(c2) > 1 /\ ~c2[Len(c2)].lua
    <2>1. level \in 1 .. level
      BY <1>8
    <2>2. ASSUME NEW l \in 2 .. level
          PROVE  c2[l].lua \/ c2[l].k
      <3>1. l \in 1 .. level
        OBVIOUS
      <3>2. QED
        BY ONLY <1>7, <1>8, <2>2, <3>1 DEF Continued
    <2>3. QED
      BY <1>7, <1>8, <2>1, <2>2 DEF Continued
  <1>18. ASSUME NEW t, NEW k
         PROVE  Justified(c2, d2, t, k, e2)
    <2>1. e2 # 0 => e2 \in 1 .. level /\ e2 \in 1 .. level - 1 /\ c[e2].yp
      BY <1>8
    <2>2. e2 # 0 => e2 \in 1 .. Len(c2) /\ c2[e2].yp
      BY ONLY <1>7, <2>1
    <2>3. QED
      BY ONLY <2>2 DEF Justified
  <1>19. /\ m = n + 2 /\ n \in Nat /\ n \in 2 .. n + 1 /\ n + 1 \in 1 .. n + 1 /\ n \in 1 .. n
         /\ m = n + 1 + 1 /\ m # n + 1
         /\ \A i \in 1 .. n - 1 : i \in 1 .. n
         /\ \A i \in 1 .. n : i \in 1 .. n + 1
    <2>1. n \in Nat /\ n > 1 /\ m = n + 2
      BY <1>1, <1>5
    <2> HIDE DEF n, m
    <2>2. QED
      BY ONLY <2>1
  <1>20. /\ \A i \in 1 .. n : d2[i] = d[i]
         /\ d2[n + 1].fn = "raw" /\ d2[n + 1].L = L /\ d2[m] = f /\ Len(v.cs) = m
    <2>1. TopOf(u) = u.cs[n + 1]
      BY <1>9 DEF TopOf
    <2> HIDE DEF n, m
    <2>2. QED
      BY <1>9, <1>15, <1>19, <2>1, SMTT(20)
  <1>21. /\ \A i \in 1 .. n - 1 : d2[i] = d[i]
         /\ d2[n].fn = "resume" /\ d2[n].L = L /\ d2[m].status = OK
         /\ d2[m].fn = "unroll" /\ d2[m].L = L
    BY ONLY <1>5, <1>12, <1>19, <1>20
  <1>22. /\ \A q \in Threads : q # L => SameThread(h2[q], h[q])
         /\ h2[L].ci = c2 /\ UpOK(c2, h2[L].up) /\ h2[L].status = OK
         /\ Justified(c2, d2, L, m, h2[L].errfunc)
    BY <1>11, <1>15, <1>16, <1>18
  <1> HIDE DEF h, d, n, m, h2, d2
  <1>23. Leveled(h2, d2, m)
    <2>1. /\ n \in Nat /\ Frames(h, d, lev, n) /\ ThreadsOK(h, d, n) /\ L \in Threads
          /\ n \in 2 .. n + 1 /\ Span(d, L, n, n)
      BY <1>1, <1>3, <1>4, <1>19
    <2>2. InC(h, d, lev, n - 1)
      BY ONLY <1>5, <1>6 DEF InC
    <2>3. NewRows(d, d2, L, n, m)
      BY ONLY <1>19, <1>20, <1>21 DEF NewRows
    <2>4. m # n + 1
      BY ONLY <1>19
    <2>5. NewRun(h, h2, d2, L, n, m, c2)
      BY ONLY <1>7, <1>17, <1>22, <2>4 DEF NewRun
    <2>6. QED
      BY ONLY <2>1, <2>2, <2>3, <2>5, Begins
  <1>24. v.th[L].ci = c2
    BY <1>22 DEF h2
  <1>25. QED
    BY <1>12, <1>13, <1>15, <1>17, <1>20, <1>23, <1>24 DEF Ready, h2, d2

LEMMA RecoveryLevels ==
  ASSUME NEW L, CallsInv, LevelsInv, ResumeRecovers(L)
  PROVE  LevelsInv'
  <1> DEFINE s == State
             level == Findpcall(L)
             w == Recover(s, L, level)
             u == LuaD_rawrunprotected(w, L)
             v == Push(u, Frame("unroll", L))
             x == FinishCcall(v, L)
  <1>1. /\ Good(s) /\ ~s.panic /\ TopOf(s).L = L /\ TopOf(s).fn = "resume"
        /\ ErrorStatus(TopOf(s).status) /\ Placed(s) /\ level # 0 /\ s.th = th
    BY Fields DEF ResumeRecovers, Running, CallsInv, LevelsInv
  <1>2. Become(x)
    BY DEF ResumeRecovers
  <1>3. /\ w = Recover(s, L, level) /\ u = LuaD_rawrunprotected(w, L)
        /\ v = Push(u, Frame("unroll", L)) /\ x = FinishCcall(v, L)
    OBVIOUS
  <1> HIDE DEF s, w, u, v, x
  <1>4. Sound(s) /\ L \in Threads
    BY <1>1, Types DEF Good, Sound
  <1>5. Leveled(s.th, s.cs, Len(s.cs))
    <2>1. TopOf(s).status # RESUME_ERROR
      BY <1>1 DEF ErrorStatus, YIELD, RESUME_ERROR
    <2>2. QED
      BY <1>1, <2>1 DEF Placed, LiveLen, TopOf
  <1>6. ChainOK(s.th[L].ci)
    BY <1>4, <1>5 DEF Leveled, ThreadsOK, ThreadOK
  <1>7. level \in 1 .. Len(s.th[L].ci) /\ s.th[L].ci[level].yp
    BY <1>1, <1>6, Found DEF ChainOK
  <1> HIDE DEF level
  <1>8. /\ Ready(v, L) /\ TopOf(v).fn = "unroll"
        /\ Len(v.th[L].ci) > 1 /\ ~v.th[L].ci[Len(v.th[L].ci)].lua
    BY ONLY <1>1, <1>3, <1>5, <1>7, RecoveryReady
  <1>9. Ready(x, L)
    BY ONLY <1>3, <1>8, Finished
  <1>10. QED
    BY <1>2, <1>9, ReadyPlaced, LevelsBecome

----------------------------------------------------------------------------
(* lua_yieldk. *)

(* What a C function that may yield jumps to: the luaD_rawrunprotected of  *)
(* its lua_resume, where its thread began.                                 *)
LEMMA YieldsTo ==
  ASSUME NEW s, NEW L, Ready(s, L), TopOf(s).fn = "cfun", Nny(s.cs, L, Len(s.cs)) = 0,
         NEW lev, NEW a, Standing(s, L, lev, a), NEW j, j = s.th[L].jmp
  PROVE  /\ j = a + 1 /\ j > 1 /\ s.cs[j - 1].fn = "resume" /\ lev[j] = 1
         /\ j \in 1 .. Len(s.cs) /\ j \in Raws(s.cs, L, Len(s.cs))
         /\ Innermost(s.cs, L, Len(s.cs), j)
  <1> DEFINE n == Len(s.cs)
             d == s.cs
             c == s.th[L].ci
             i == a + 1
  <1>1. /\ TopOf(s).status = OK /\ TopOf(s) = d[n] /\ Sound(s) /\ L \in Threads
    BY ReadyStands, ActiveFacts DEF Ready
  <1>2. a > 1 /\ d[a].fn = "resume" /\ a < n
    BY ONLY Ready(s, L), TopOf(s).fn = "cfun", Nny(s.cs, L, Len(s.cs)) = 0,
            Standing(s, L, lev, a), MayYield
  <1>3. \A m \in 1 .. n : d[m].L = L => (d[m].fn = "raw" => m = a + 1)
    <2>1. s.cs[Len(s.cs)].fn = "cfun"
      BY <1>1
    <2>2. QED
      BY ONLY <2>1, Standing(s, L, lev, a), Nny(s.cs, L, Len(s.cs)) = 0, NoPcall
  <1>4. /\ n \in Nat \ {0} /\ a \in 1 .. n /\ Span(d, L, a, n) /\ Frames(s.th, d, lev, n)
    BY DEF Standing
  <1>5. Innermost(d, L, n, j)
    BY <1>1 DEF Sound, JumpsOK
  <1> HIDE DEF n, d, c
  <1>6. /\ a \in Nat /\ a \in 1 .. n /\ i \in 1 .. n /\ i \in a .. n /\ i \in a + 1 .. n
        /\ a \in 1 .. i - 1 /\ i - 1 = a /\ i > 1 /\ a + 1 .. i = {i}
    BY <1>2, <1>4
  <1>7. i = a + 1
    OBVIOUS
  <1> HIDE DEF i
  <1>8. d[i].L = L /\ d[i].fn # "resume" /\ d[a].L = L
    <2>1. a \in a .. n
      BY <1>6
    <2>2. QED
      BY <1>4, <1>6, <2>1 DEF Span
  <1>9. d[i].fn = "raw"
    <2>1. FrameAt(d, i)
      BY <1>4, <1>6 DEF Frames
    <2>2. \A k \in 1 .. i - 1 : d[k].fn = "resume" /\ d[i].fn # "resume" =>
             \E r \in k + 1 .. i : d[r].fn = "raw" /\ d[r].L = d[i].L
      BY ONLY <2>1 DEF FrameAt
    <2>3. \E r \in a + 1 .. i : d[r].fn = "raw"
      BY ONLY <1>2, <1>6, <1>8, <2>2
    <2>4. QED
      BY ONLY <1>6, <2>3
  <1>10. i \in Raws(d, L, n)
    BY ONLY <1>6, <1>8, <1>9 DEF Raws
  <1>11. j = i
    <2>1. i <= j /\ (j = 0 \/ j \in Raws(d, L, n))
      BY ONLY <1>5, <1>10 DEF Innermost
    <2>2. j # 0
      BY ONLY <1>6, <2>1
    <2>3. j \in 1 .. n /\ d[j].fn = "raw" /\ d[j].L = L
      BY ONLY <2>1, <2>2 DEF Raws
    <2>4. QED
      BY ONLY <1>3, <1>7, <2>3
  <1>12. lev[i] = 1
    <2>1. LevelAt(s.th, d, lev, a) /\ LevelAt(s.th, d, lev, i)
      BY ONLY <1>4, <1>6 DEF Frames
    <2>2. lev[a] = 1
      BY ONLY <1>2, <2>1 DEF LevelAt, Resumer
    <2>3. Above(s.th[L].ci, d[a].fn, lev[a], "raw", lev[i])
      BY ONLY <1>6, <1>8, <1>9, <2>1 DEF LevelAt
    <2>4. QED
      BY ONLY <2>2, <2>3 DEF Above
  <1>13. QED
    BY <1>2, <1>5, <1>6, <1>7, <1>10, <1>11, <1>12 DEF n, d

(* The yield unwinds to lua_resume; its function can go on from there.     *)
LEMMA Yields ==
  ASSUME NEW s, NEW L, Ready(s, L), TopOf(s).fn = "cfun", Nny(s.cs, L, Len(s.cs)) = 0,
         NEW k \in BOOLEAN, NEW w, w = [s EXCEPT !.th[L].status = YIELD],
         NEW b, b = Continue(w, L, k), NEW u, u = LuaD_throw(b, L, YIELD), Good(u)
  PROVE  Placed(u)
  <1> DEFINE c == s.th[L].ci
             c2 == b.th[L].ci
             n == Len(s.cs)
             j == s.th[L].jmp
             e == YIELD
             up == s.th[L].up
             ef == s.th[L].errfunc
  <1>1. PICK lev, a : Standing(s, L, lev, a)
    BY ReadyStands
  <1>2. /\ j > 1 /\ s.cs[j - 1].fn = "resume" /\ lev[j] = 1 /\ j \in 1 .. n
        /\ j \in Raws(s.cs, L, n) /\ Innermost(s.cs, L, n, j)
    <2>1. j = s.th[L].jmp
      OBVIOUS
    <2> HIDE DEF j
    <2>2. QED
      BY ONLY <1>1, <2>1, Ready(s, L), TopOf(s).fn = "cfun", Nny(s.cs, L, Len(s.cs)) = 0,
              YieldsTo DEF n
  <1>3. /\ Len(c) > 1 /\ Continued(c, Len(c) - 1) /\ ~c[Len(c)].lua /\ ~c[Len(c)].yp
    BY ONLY <1>1, Ready(s, L), TopOf(s).fn = "cfun", Nny(s.cs, L, Len(s.cs)) = 0, MayYield
  <1>4. /\ ChainOK(c) /\ Len(c) \in Nat \ {0} /\ Shaped(s) /\ L \in Threads
        /\ Active(s, L) /\ Sound(s) /\ TopOf(s) = s.cs[n] /\ s.th[L].status = OK
    BY SameChain, ActiveFacts DEF Ready
  <1>5. /\ Active(w, L) /\ SameCounts(w.th[L], s.th[L]) /\ Shaped(w) /\ w.cs = s.cs
        /\ Edit(s, w, L, c, up, ef, e)
    <2>1. w = [s EXCEPT !.th[L].status = e]
      OBVIOUS
    <2>2. c = s.th[L].ci /\ up = s.th[L].up /\ ef = s.th[L].errfunc
      OBVIOUS
    <2> HIDE DEF e, c, up, ef
    <2>3. \/ w = [s EXCEPT !.th[L].ci = e] \/ w = [s EXCEPT !.th[L].up = e]
          \/ w = [s EXCEPT !.th[L].errfunc = e] \/ w = [s EXCEPT !.th[L].status = e]
          \/ w = [s EXCEPT !.th[L].big = e]
      BY <2>1
    <2>4. w.cs = s.cs /\ Edit(s, w, L, s.th[L].ci, s.th[L].up, s.th[L].errfunc, e)
      BY ONLY <1>4, <2>1, EditStatus
    <2>5. Active(w, L) /\ SameCounts(w.th[L], s.th[L])
      BY ONLY <1>4, <2>3, ActiveFields
    <2>6. Shaped(w)
      BY ONLY <2>5, ActiveFacts
    <2>7. QED
      BY ONLY <2>2, <2>4, <2>5, <2>6
  <1>6. /\ w.th[L].ci = c /\ w.th[L].up = up /\ w.th[L].errfunc = ef /\ w.th[L].status = e
    BY <1>5 DEF Edit
  <1>7. e = YIELD /\ e # OK /\ e # RESUME_ERROR /\ e \in Statuses
    BY ErrorStatuses DEF YIELD, OK, RESUME_ERROR
  <1>8. j = s.th[L].jmp
    OBVIOUS
  <1> HIDE DEF e, j, c, up, ef
  <1>9. Given(w, b, L, c, c2, k)
    <2>1. Shaped(w) /\ L \in Threads /\ ChainOK(w.th[L].ci)
          /\ ~w.th[L].ci[Len(w.th[L].ci)].yp /\ k \in BOOLEAN
      BY <1>3, <1>4, <1>5, <1>6
    <2>2. Given(w, Continue(w, L, k), L, w.th[L].ci, Continue(w, L, k).th[L].ci, k)
      BY ONLY <2>1, Marks
    <2>3. b = Continue(w, L, k)
      OBVIOUS
    <2> HIDE DEF c2
    <2>4. QED
      BY ONLY <1>6, <2>2, <2>3 DEF c2
  <1> HIDE DEF c2
  <1>10. /\ b.cs = w.cs /\ Edit(w, b, L, c2, w.th[L].up, w.th[L].errfunc, w.th[L].status)
         /\ Active(w, L) => Active(b, L)
         /\ SameCounts(b.th[L], w.th[L])
         /\ ChainOK(c2) /\ Len(c2) = Len(c)
         /\ c2[Len(c)].lua = c[Len(c)].lua /\ c2[Len(c)].yp = c[Len(c)].yp
         /\ ~c2[Len(c)].yp /\ \A l \in 1 .. Len(c) - 1 : c2[l] = c[l]
         /\ \A x \in 0 .. Len(c) - 1 : Extends(c, c2, x)
    BY ONLY <1>9, Zenon DEF Given
  <1>11. Active(b, L) /\ Shaped(b) /\ b.cs = s.cs /\ b.th[L].jmp = j
    BY <1>5, <1>8, <1>10, ActiveFacts DEF SameCounts
  <1>12. Edit(s, b, L, c2, up, ef, e)
    BY ONLY <1>5, <1>6, <1>10, EditAgain
  <1>13. Suspended(c2)
    <2>1. \A l \in 2 .. Len(c) - 1 : l \in 1 .. Len(c) - 1
      BY <1>4
    <2>2. QED
      BY ONLY <1>3, <1>10, <2>1 DEF Suspended, Continued
  <1>14. \A l \in 1 .. Len(c2) : c2[l].lua = c[l].lua /\ c2[l].yp = c[l].yp
    <2>1. ASSUME NEW l \in 1 .. Len(c2)
          PROVE  c2[l].lua = c[l].lua /\ c2[l].yp = c[l].yp
      <3>1. CASE l = Len(c)
        BY <1>3, <1>10, <3>1
      <3>2. CASE l # Len(c)
        <4>1. l \in 1 .. Len(c) - 1
          BY <1>4, <1>10, <3>2
        <4>2. QED
          BY <1>10, <4>1
      <3>3. QED
        BY <3>1, <3>2
    <2>2. QED
      BY <2>1
  <1>15. Extends(c, c2, lev[j])
    <2>1. lev[j] \in 0 .. Len(c) - 1
      BY <1>2, <1>3, <1>4
    <2>2. QED
      BY <1>10, <2>1
  <1>16. /\ Len(u.cs) = j /\ u.cs[j].status = e /\ SameRows(s.cs, u.cs, j) /\ u.th = b.th
    <2>1. u = LuaD_throw(b, L, e) /\ j \in 1 .. Len(b.cs)
      BY <1>2, <1>7, <1>11
    <2>2. /\ Len(u.cs) = j /\ u.cs[j].status = e /\ SameRows(b.cs, u.cs, j) /\ u.th = b.th
      BY ONLY <1>7, <1>11, <2>1, CutTo
    <2>3. QED
      BY <1>11, <2>2
  <1>17. Edit(s, u, L, c2, up, ef, e)
    BY <1>12, <1>16 DEF Edit
  <1>18. Leveled(u.th, u.cs, Len(u.cs))
    <2>1. s.cs[Len(s.cs)].fn \notin {"resume", "pcall"} /\ Sound(s)
      BY <1>4
    <2>2. j \in Raws(s.cs, L, Len(s.cs)) /\ Innermost(s.cs, L, Len(s.cs), j)
          /\ j > 1 /\ s.cs[j - 1].fn = "resume"
      BY <1>2
    <2>3. /\ ChainOK(c2) /\ Len(c2) = Len(s.th[L].ci) /\ Extends(s.th[L].ci, c2, lev[j])
          /\ \A l \in 1 .. Len(c2) : /\ c2[l].lua = s.th[L].ci[l].lua
                                     /\ c2[l].yp = s.th[L].ci[l].yp
      BY <1>10, <1>14, <1>15 DEF c
    <2>4. u.cs[j].status # OK /\ e = (IF u.cs[j].status = YIELD THEN YIELD ELSE OK)
      BY <1>7, <1>16
    <2>5. Edit(s, u, L, c2, s.th[L].up, s.th[L].errfunc, e)
      BY <1>17 DEF up, ef
    <2>6. Len(u.cs) = j /\ SameRows(s.cs, u.cs, j)
      BY <1>16
    <2>7. QED
      BY ONLY <1>1, <1>13, <2>1, <2>2, <2>3, <2>4, <2>5, <2>6, Thrown
  <1>19. TopOf(u).status # RESUME_ERROR
    BY <1>7, <1>16 DEF TopOf
  <1>20. QED
    BY <1>18, <1>19, Settled DEF Good

LEMMA YieldkLevels ==
  ASSUME NEW L, NEW k \in BOOLEAN, CallsInv, LevelsInv, Lua_yieldk(L, k)
  PROVE  LevelsInv'
  <1> DEFINE s == State
             w == [s EXCEPT !.th[L].status = YIELD]
             b == Continue(w, L, k)
             v == Push(s, Frame("error", L))
             u == LuaD_throw(b, L, YIELD)
  <1>1. Ready(s, L) /\ TopOf(s).fn = "cfun"
    BY LevelsRun DEF Lua_yieldk, Running
  <1>2. Become(IF s.th[L].nny > 0 THEN v ELSE u)
    <2>1. Depth(s, L) = Depth(w, L)
      BY <1>1, ActiveFacts DEF Depth, Ready, Shaped
    <2>2. b = [s EXCEPT !.th[L].status = YIELD, !.th[L].ci[Depth(s, L)].k = k]
      BY <2>1 DEF Continue
    <2>3. s.th = th
      BY DEF State
    <2> HIDE DEF s, b, w
    <2>4. QED
      BY <2>2, <2>3 DEF Lua_yieldk, s
  <1>3. CallsInv'
    BY YieldkKeeps
  <1> HIDE DEF s
  <1>4. s.th[L].nny > 0 => Placed(v) /\ Good(v) /\ Become(v)
    <2>1. v = Push(s, Frame("error", L)) /\ TopOf(s).fn \in {"execute", "cfun"}
      BY <1>1
    <2>2. s.th[L].nny > 0 => Become(v)
      BY <1>2
    <2> HIDE DEF v
    <2>3. Ready(v, L)
      BY ONLY <1>1, <2>1, PushError
    <2>4. QED
      BY <2>2, <2>3, ReadyPlaced
  <1>5. ~(s.th[L].nny > 0) => Placed(u) /\ Good(u) /\ Become(u)
    <2> SUFFICES ASSUME ~(s.th[L].nny > 0)
                 PROVE  Placed(u) /\ Good(u) /\ Become(u)
      OBVIOUS
    <2>1. Become(u)
      BY <1>2
    <2>2. Nny(s.cs, L, Len(s.cs)) = 0
      <3>1. s.th[L].nny = Nny(s.cs, L, Len(s.cs)) /\ s.th[L].nny \in Nat
        BY <1>1, ActiveFacts, NnyType DEF Ready
      <3>2. QED
        BY <3>1
    <2>3. w = [s EXCEPT !.th[L].status = YIELD] /\ b = Continue(w, L, k)
          /\ u = LuaD_throw(b, L, YIELD)
      OBVIOUS
    <2>4. Good(u)
      <3>1. Active(w, L)
        BY <1>1, ActiveFields DEF Ready
      <3> HIDE DEF w
      <3>2. Active(b, L)
        BY <3>1, ActiveFields DEF Continue
      <3> HIDE DEF b
      <3>3. QED
        BY <3>2, ActiveThrow, ErrorStatuses
    <2> HIDE DEF w, b, u
    <2>5. Placed(u)
      BY ONLY <1>1, <2>2, <2>3, <2>4, k \in BOOLEAN, Yields
    <2>6. QED
      BY <2>1, <2>4, <2>5
  <1> HIDE DEF u, v
  <1>6. QED
    BY <1>4, <1>5, LevelsBecome

----------------------------------------------------------------------------
(* lua_resume returns. *)

(* The frame of lua_resume is left, and its caller runs.                   *)
LEMMA ResumeLeft ==
  ASSUME NEW s, Sound(s), NEW L, TopOf(s).L = L, TopOf(s).fn = "resume",
         Leveled(s.th, s.cs, Len(s.cs)),
         NEW u, Shrunk(s, u), u.cs[Len(s.cs) - 1].status = OK,
         u.th[L].status = YIELD => s.th[L].status = YIELD,
         Edit(s, u, L, s.th[L].ci, s.th[L].up, s.th[L].errfunc, u.th[L].status)
  PROVE  Leveled(u.th, u.cs, Len(u.cs))
  <1> DEFINE h == s.th
             d == s.cs
             n == Len(s.cs)
             m == n - 1
             h2 == u.th
             d2 == u.cs
             c == s.th[L].ci
             e == s.th[L].errfunc
             x == u.th[L].status
  <1>1. n \in Nat \ {0} /\ TopOf(s) = d[n] /\ L \in Threads
    BY Types DEF Sound, TopOf
  <1>2. PICK lev, a : Standing(s, L, lev, a)
    BY Stands
  <1>3. /\ Frames(h, d, lev, n) /\ ThreadsOK(h, d, n) /\ Span(d, L, a, n) /\ a \in 1 .. n
        /\ FrameAt(d, n) /\ LevelAt(h, d, lev, n)
    <2>1. Frames(h, d, lev, n) /\ ThreadsOK(h, d, n) /\ Span(d, L, a, n) /\ a \in 1 .. n
      BY <1>2 DEF Standing
    <2>2. n \in 1 .. n
      BY <1>1
    <2>3. QED
      BY ONLY <2>1, <2>2 DEF Frames
  <1>4. d[n].fn = "resume" /\ d[n].L = L
    BY <1>1
  <1>5. n > 1 /\ d[n - 1].fn = "cfun" /\ Resumer(h, d, lev, n)
    BY ONLY <1>3, <1>4 DEF FrameAt, LevelAt
  <1>6. a = n
    <2> HIDE DEF n, d
    <2>1. ~(n \in a + 1 .. n)
      BY <1>3, <1>4 DEF Span
    <2>2. QED
      BY ONLY <1>1, <1>3, <2>1
  <1>7. /\ Edit(s, u, L, c, h[L].up, e, x) /\ Shrunk(s, u) /\ d2[m].status = OK
        /\ Len(d2) = m /\ SameRows(d, d2, m)
    BY DEF Shrunk
  <1>8. /\ \A t \in Threads : t # L => SameThread(h2[t], h[t])
        /\ h2[L].ci = c /\ h2[L].up = h[L].up /\ h2[L].errfunc = e /\ h2[L].status = x
    BY ONLY <1>7 DEF Edit
  <1>9. /\ m \in Nat /\ m \in 1 .. n /\ m = n - 1 /\ m \in n - 1 .. n /\ m <= m /\ ~(m >= n)
        /\ m + 1 .. m = {} /\ m \in 1 .. m /\ 1 \in Nat
    BY <1>1, <1>5
  <1>10. ThreadOK(h2, d2, L, m)
    <2>1. ThreadOK(h, d, L, n)
      BY <1>1, <1>3 DEF ThreadsOK
    <2>2. ChainOK(c) /\ UpOK(c, h[L].up) /\ Justified(c, d, L, n, e)
          /\ (h[L].status = YIELD => Suspended(c))
      BY <2>1 DEF ThreadOK
    <2>3. Justified(c, s.cs, L, Len(s.cs), e) /\ Len(s.cs) \in Nat \ {0}
          /\ (s.cs[Len(s.cs)].fn # "pcall" \/ s.cs[Len(s.cs)].ci # e)
          /\ (e \in 1 .. Len(c) /\ c[e].yp => e \in 1 .. Len(c) /\ c[e].yp)
      BY <1>1, <1>4, <2>2
    <2> HIDE DEF c, e
    <2>4. Justified(c, u.cs, L, Len(s.cs) - 1, e)
      BY ONLY <1>7, <2>3, StillJustified
    <2>5. Justified(c, d2, L, m, e)
      BY <2>4
    <2>6. x = YIELD => Suspended(c)
      BY <2>2
    <2> HIDE DEF m, d2, h2
    <2>7. QED
      BY ONLY <1>8, <2>2, <2>5, <2>6 DEF ThreadOK
  <1> DEFINE lev2 == Placing(lev, m, m, 1, 1)
             p == d[m].L
  <1>11. lev2[m] = lev[m]
    BY <1>9 DEF Placing
  <1>12. /\ p \in Threads /\ p # L /\ Len(h[p].ci) = lev[m] /\ ~h[p].ci[lev[m]].yp
         /\ h[p].status = OK
    <2>1. /\ \A k \in 1 .. n - 1 : d[k].L # d[n].L
          /\ Len(h[p].ci) = lev[m] /\ ~h[p].ci[lev[m]].yp /\ h[p].status = OK
      BY <1>5 DEF Resumer
    <2>2. p \in Threads
      BY <1>3, <1>9 DEF Frames
    <2> HIDE DEF h, d, n, p, m
    <2>3. m \in 1 .. n - 1
      BY <1>9
    <2>4. QED
      BY <1>4, <2>1, <2>2, <2>3 DEF p
  <1>13. d2[m].fn = "cfun" /\ d2[m].L = p
    <2>1. d[m].fn = "cfun"
      BY <1>5
    <2> HIDE DEF d, d2, m
    <2>2. QED
      BY <1>7, <1>9, <2>1 DEF SameRows
  <1>14. Keeps(h, d, lev, L, n, m, h2, d2, lev)
    <2> HIDE DEF h, d, m, n, h2, d2
    <2>1. QED
      BY ONLY <1>7, <1>8, <1>9 DEF Keeps
  <1> HIDE DEF h, d, h2, d2, lev2, p, c, e
  <1>15. TopLevel(h2, d2, lev2, m)
    <2>1. h2[p].ci = h[p].ci /\ h2[p].status = h[p].status
      BY ONLY <1>8, <1>12 DEF SameThread
    <2>2. OK # YIELD
      BY DEF OK, YIELD
    <2> HIDE DEF m
    <2>3. QED
      BY ONLY <1>7, <1>11, <1>12, <1>13, <2>1, <2>2 DEF TopLevel
  <1>16. Leveled(h2, d2, m)
    <2>1. /\ n \in Nat /\ Frames(h, d, lev, n) /\ ThreadsOK(h, d, n) /\ L \in Threads
          /\ Span(d, L, n, n)
      BY <1>1, <1>3, <1>6
    <2> DEFINE one == 1
    <2>2. lev2 = Placing(lev, m, m, one, one) /\ one \in Nat
      BY DEF lev2
    <2>3. \A i \in m + 1 .. m : LevelAt(h2, d2, lev2, i)
      BY <1>9
    <2> HIDE DEF one, n, m
    <2>4. QED
      BY ONLY <1>9, <1>10, <1>14, <1>15, <2>1, <2>2, <2>3, Rebuilt
  <1>17. QED
    BY <1>7, <1>16 DEF h2, d2

LEMMA ResumeReturnLevels ==
  ASSUME NEW L, CallsInv, LevelsInv, ResumeReturns(L)
  PROVE  LevelsInv'
  <1> DEFINE s == State
             n == Len(s.cs)
             m == n - 1
             x == IF ErrorStatus(Top.status) THEN Top.status ELSE s.th[L].status
             nny == Top.nny
             nC == s.th[L].nC - 1
             a == [s EXCEPT !.th[L].status = x]
             b == [a EXCEPT !.th[L].nny = nny]
             d == [b EXCEPT !.th[L].nC = nC]
             u == Pop(d)
  <1>1. /\ Good(s) /\ ~s.panic /\ TopOf(s).L = L /\ TopOf(s).fn = "resume" /\ Placed(s)
        /\ Top = TopOf(s)
    BY Fields DEF ResumeReturns, Running, CallsInv, LevelsInv
  <1>2. Sound(s) /\ Shaped(s) /\ StackOK(s.cs) /\ StatusesOK(s.cs) /\ TopOf(s) = s.cs[n]
    BY <1>1 DEF Good, Sound, TopOf
  <1>3. L \in Threads /\ n \in Nat \ {0} /\ IsThread(s.th[L]) /\ IsFrame(TopOf(s))
    BY <1>1, <1>2, Types DEF Shaped
  <1>4. CallsInv'
    BY ResumeReturnKeeps
  <1>5. Become(u)
    <2>1. [s EXCEPT !.th[L].status = x, !.th[L].nny = nny, !.th[L].nC = @ - 1] = d
      <3> HIDE DEF s, x, nny
      <3>1. QED
        BY <1>2, <1>3 DEF Shaped, IsThread
    <2>2. [s EXCEPT !.th[L].status = IF ErrorStatus(Top.status) THEN Top.status ELSE @,
                    !.th[L].nny = nny, !.th[L].nC = @ - 1]
          = [s EXCEPT !.th[L].status = x, !.th[L].nny = nny, !.th[L].nC = @ - 1]
      OBVIOUS
    <2> HIDE DEF d
    <2>3. QED
      BY <2>1, <2>2 DEF ResumeReturns
  <1>6. x = (IF ErrorStatus(TopOf(s).status) THEN TopOf(s).status ELSE s.th[L].status)
    BY <1>1
  <1>7. a = [s EXCEPT !.th[L].status = x] /\ b = [a EXCEPT !.th[L].nny = nny]
        /\ d = [b EXCEPT !.th[L].nC = nC] /\ u = Pop(d)
    OBVIOUS
  <1>8. nny \in Int /\ nC \in Int
    BY <1>1, <1>3 DEF IsFrame, IsThread
  <1> HIDE DEF s, x, nny, nC, a, b, d, u
  <1>9. Shaped(a) /\ a.cs = s.cs
        /\ Edit(s, a, L, s.th[L].ci, s.th[L].up, s.th[L].errfunc, x)
    <2>1. a.cs = s.cs /\ Edit(s, a, L, s.th[L].ci, s.th[L].up, s.th[L].errfunc, x)
      BY ONLY <1>2, <1>3, <1>7, EditStatus
    <2>2. Local(s, s, L)
      BY ONLY <1>2, <1>3, LocalSelf
    <2>3. Local(s, a, L)
      BY <1>2, <1>3, <1>7, <2>2, LocalFields
    <2>4. Shaped(a)
      BY ONLY <1>2, <1>3, <2>3, LocalEdit
    <2>5. QED
      BY <2>1, <2>4
  <1>10. Shaped(b) /\ b.cs = a.cs
         /\ Edit(a, b, L, a.th[L].ci, a.th[L].up, a.th[L].errfunc, a.th[L].status)
    <2>1. \/ b = [a EXCEPT !.th[L].nny = nny] \/ b = [a EXCEPT !.th[L].nC = nny]
          \/ b = [a EXCEPT !.th[L].jmp = nny] \/ b = [a EXCEPT !.th[L].big = nny]
      BY <1>7
    <2>2. b.cs = a.cs /\ Edit(a, b, L, a.th[L].ci, a.th[L].up, a.th[L].errfunc, a.th[L].status)
      BY ONLY <1>3, <1>9, <2>1, EditCounts
    <2>3. Local(a, a, L)
      BY ONLY <1>3, <1>9, LocalSelf
    <2>4. Local(a, b, L)
      BY <1>3, <1>7, <1>8, <1>9, <2>3, LocalNny
    <2>5. Shaped(b)
      BY ONLY <1>3, <1>9, <2>4, LocalEdit
    <2>6. QED
      BY <2>2, <2>5
  <1>11. Shaped(d) /\ d.cs = b.cs
         /\ Edit(b, d, L, b.th[L].ci, b.th[L].up, b.th[L].errfunc, b.th[L].status)
    <2>1. \/ d = [b EXCEPT !.th[L].nny = nC] \/ d = [b EXCEPT !.th[L].nC = nC]
          \/ d = [b EXCEPT !.th[L].jmp = nC] \/ d = [b EXCEPT !.th[L].big = nC]
      BY <1>7
    <2>2. d.cs = b.cs /\ Edit(b, d, L, b.th[L].ci, b.th[L].up, b.th[L].errfunc, b.th[L].status)
      BY ONLY <1>3, <1>10, <2>1, EditCounts
    <2>3. Local(b, b, L)
      BY ONLY <1>3, <1>10, LocalSelf
    <2>4. Local(b, d, L)
      <3>1. d = [b EXCEPT !.th[L].nC = nC]
        BY <1>7
      <3>2. QED
        BY ONLY <1>3, <1>8, <1>10, <2>3, <3>1, LocalNC
    <2>5. Shaped(d)
      BY ONLY <1>3, <1>10, <2>4, LocalEdit
    <2>6. QED
      BY <2>2, <2>5
  <1>12. Edit(s, d, L, s.th[L].ci, s.th[L].up, s.th[L].errfunc, x)
    BY <1>9, <1>10, <1>11 DEF Edit, SameThread
  <1>13. n > 1 /\ m \in Nat \ {0} /\ m \in 1 .. n /\ s.cs[m].fn = "cfun" /\ s.cs[m].status = OK
    <2>1. FrameAt(s.cs, n)
      BY <1>2, <1>3 DEF StackOK
    <2>2. n > 1 /\ s.cs[n - 1].fn = "cfun"
      BY <1>1, <1>2, <2>1 DEF FrameAt
    <2>3. m \in Nat \ {0} /\ m \in 1 .. n
      <3>1. n \in Nat /\ n > 1 /\ m = n - 1
        BY <1>3, <2>2
      <3> HIDE DEF n, m
      <3>2. QED
        BY ONLY <3>1
    <2>4. QED
      BY <1>2, <2>2, <2>3 DEF StatusesOK
  <1>14. Shrunk(s, u) /\ u.th = d.th /\ u.panic = d.panic /\ u.cs[m] = s.cs[m]
    <2>1. Shaped(d) /\ d.cs = s.cs /\ Len(s.cs) > 1
      BY <1>9, <1>10, <1>11, <1>13
    <2>2. Shrunk(s, u) /\ u.th = d.th /\ u.panic = d.panic
      <3>1. u = Pop(d)
        BY <1>7
      <3>2. QED
        BY ONLY <2>1, <3>1, PopShrinks
    <2>3. u.cs = SubSeq(s.cs, 1, Len(s.cs) - 1)
      BY <1>7, <2>1 DEF Pop, Shaped
    <2>4. IsSequence(s.cs) /\ m \in 1 .. Len(s.cs) - 1
      BY <1>2, <1>13 DEF Shaped
    <2>5. QED
      BY <2>2, <2>3, <2>4 DEF IsSequence
  <1>15. Edit(s, u, L, s.th[L].ci, s.th[L].up, s.th[L].errfunc, x)
    BY <1>12, <1>14 DEF Edit
  <1>16. Good(u)
    <2>1. u = [th |-> u.th, cs |-> u.cs, panic |-> u.panic]
      BY <1>7, <1>11 DEF Pop, Shaped
    <2>2. QED
      BY ONLY <1>4, <1>5, <2>1, GoodNext
  <1>17. Leveled(u.th, u.cs, Len(u.cs))
    <2>1. CASE TopOf(s).status = RESUME_ERROR
      <3>1. ~ErrorStatus(TopOf(s).status)
        BY <2>1 DEF ErrorStatus, YIELD, RESUME_ERROR
      <3>2. x = s.th[L].status
        BY <1>6, <3>1
      <3>3. \A t \in Threads : SameThread(u.th[t], s.th[t])
        BY <1>15, <3>2 DEF Edit, SameThread
      <3>4. Leveled(s.th, s.cs, m)
        BY <1>1, <1>2, <2>1 DEF Placed, LiveLen
      <3>5. /\ m \in 1 .. Len(s.cs) /\ SameRows(s.cs, u.cs, m)
            /\ u.cs[m].status = s.cs[m].status /\ Len(u.cs) = m
        BY <1>13, <1>14 DEF Shrunk
      <3> HIDE DEF m
      <3>6. Leveled(u.th, u.cs, m)
        BY ONLY <1>2, <3>3, <3>4, <3>5, LevelsSame
      <3>7. QED
        BY <3>5, <3>6
    <2>2. CASE TopOf(s).status # RESUME_ERROR
      <3>1. Leveled(s.th, s.cs, Len(s.cs))
        BY <1>1, <1>2, <2>2 DEF Placed, LiveLen
      <3>2. x = s.th[L].status \/ x # YIELD
        <4>1. ErrorStatus(TopOf(s).status) => TopOf(s).status # YIELD
          BY DEF ErrorStatus, YIELD
        <4>2. QED
          BY ONLY <1>6, <4>1
      <3>3. u.cs[Len(s.cs) - 1].status = OK
        BY <1>13, <1>14
      <3>4. QED
        <4>1. TopOf(s).L = L /\ TopOf(s).fn = "resume" /\ Sound(s) /\ Shrunk(s, u)
          BY <1>1, <1>2, <1>14
        <4>2. u.th[L].status = x
          BY <1>15 DEF Edit
        <4>3. Edit(s, u, L, s.th[L].ci, s.th[L].up, s.th[L].errfunc, u.th[L].status)
          BY <1>15, <4>2
        <4>4. u.th[L].status = YIELD => s.th[L].status = YIELD
          BY <3>2, <4>2
        <4> HIDE DEF n, m
        <4>5. QED
          BY ONLY <3>1, <3>3, <4>1, <4>3, <4>4, ResumeLeft
    <2>3. QED
      BY <2>1, <2>2
  <1>18. TopOf(u).status # RESUME_ERROR
    <2>1. TopOf(u) = u.cs[m]
      BY <1>14 DEF TopOf, Shrunk
    <2>2. QED
      BY <1>13, <1>14, <2>1 DEF OK, RESUME_ERROR
  <1>19. Placed(u)
    BY <1>16, <1>17, <1>18, Settled DEF Good
  <1>20. QED
    BY <1>5, <1>16, <1>19, LevelsBecome

----------------------------------------------------------------------------
(* The inductive invariant. *)

LEMMA LevelsInitial == Init => LevelsInv
  <1> SUFFICES ASSUME Init
               PROVE  LevelsInv
    OBVIOUS
  <1> DEFINE s == State
             f == Frame("cfun", Main)
             h == s.th
             d == s.cs
             r == CI(FALSE)
             c == <<r>>
             lev == [i \in 1 .. 1 |-> 1]
  <1>1. /\ s.panic = FALSE /\ h = [t \in Threads |-> NewThread] /\ d = <<f>>
    BY DEF Init, State
  <1>2. f.fn = "cfun" /\ f.status = OK /\ f.L = Main /\ Main \in Threads
    BY CallsAssumption DEF Frame
  <1>3. Sound(s)
    BY CallsInitial DEF CallsInv, Good
  <1>4. NewThread.ci = c /\ NewThread.up = {} /\ NewThread.errfunc = 0 /\ NewThread.status = OK
    BY DEF NewThread
  <1>5. IsCI(r) /\ ~r.lua /\ ~r.yp
    BY DEF IsCI, CI
  <1> HIDE DEF s, f, r
  <1>6. Len(d) = 1 /\ d[1] = f
    BY <1>1
  <1>7. \A t \in Threads : h[t].ci = c /\ h[t].up = {} /\ h[t].errfunc = 0 /\ h[t].status = OK
    <2> HIDE DEF c, h
    <2>1. QED
      BY <1>1, <1>4
  <1>8. Len(c) = 1 /\ c[1] = r /\ IsSequence(c)
    BY DEF IsSequence
  <1> HIDE DEF h, d, c
  <1>9. ChainOK(c)
    <2>1. IsSequence(c) /\ Len(c) > 0 /\ ~c[1].lua
      BY <1>5, <1>8
    <2>2. ASSUME NEW l \in 1 .. Len(c)
          PROVE  IsCI(c[l]) /\ ~c[l].yp
      <3>1. l = 1
        BY <1>8
      <3>2. QED
        BY <1>5, <1>8, <3>1
    <2>3. QED
      BY <2>1, <2>2 DEF ChainOK
  <1>10. \A t \in Threads : ThreadOK(h, d, t, 1)
    BY <1>7, <1>9 DEF ThreadOK, UpOK, Justified, OK, YIELD
  <1>11. lev[1] = 1 /\ lev \in [1 .. 1 -> Nat]
    OBVIOUS
  <1> HIDE DEF lev
  <1>12. LevelAt(h, d, lev, 1)
    <2>1. d[1].fn = "cfun" /\ d[1].L = Main /\ h[Main].ci = c
      BY <1>2, <1>6, <1>7
    <2>2. ~(d[1].fn \in Keeping)
      BY <2>1 DEF Keeping
    <2>3. lev[1] \in 1 .. Len(c)
      BY <1>8, <1>11
    <2>4. Continued(c, lev[1] - 1)
      <3>1. lev[1] - 1 = 0
        BY <1>11
      <3>2. QED
        BY <3>1 DEF Continued
    <2>5. ~(1 > 1) /\ ~(1 > 3)
      OBVIOUS
    <2>6. Continued(c, IF d[1].fn \in Keeping THEN lev[1] ELSE lev[1] - 1)
      BY <2>2, <2>4
    <2>7. Nny(d, Main, 1) = 0 =>
             Continued(h[Main].ci, IF d[1].fn \in Keeping THEN lev[1] ELSE lev[1] - 1)
      BY <2>1, <2>6
    <2> HIDE DEF c
    <2>8. QED
      BY <1>11, <2>1, <2>3, <2>5, <2>7, Zenon DEF LevelAt
  <1>13. TopLevel(h, d, lev, 1)
    BY <1>2, <1>5, <1>6, <1>7, <1>8, <1>11 DEF TopLevel, OK, YIELD
  <1>14. \A i \in 1 .. 1 : LevelAt(h, d, lev, i)
    BY <1>12
  <1>15. Leveled(h, d, 1)
    BY <1>10, <1>11, <1>13, <1>14 DEF Leveled, LevelsOK, ThreadsOK
  <1>16. TopOf(s).status # RESUME_ERROR
    BY <1>2, <1>6 DEF TopOf, d, OK, RESUME_ERROR
  <1>17. QED
    BY <1>3, <1>6, <1>15, <1>16, Settled DEF LevelsInv, h, d, s

(* Every action keeps the invariant. *)
LEMMA LevelsStep == CallsInv /\ LevelsInv /\ [Next]_vars => LevelsInv'
  <1> SUFFICES ASSUME CallsInv, LevelsInv, [Next]_vars
               PROVE  LevelsInv'
    OBVIOUS
  <1>1. CASE UNCHANGED vars
    BY <1>1 DEF vars, LevelsInv, State
  <1>2. CASE Aborted
    BY <1>2 DEF Aborted, vars, LevelsInv, State
  <1>3. ASSUME NEW L \in Threads, LuaStep(L)
        PROVE  LevelsInv'
    BY <1>3, CallLevels, TailcallLevels, ReturnLevels, ClosureLevels, JmpLevels, CallTMLevels,
       RunerrorLevels, MemoryErrorLevels DEF LuaStep
  <1>4. ASSUME NEW L \in Threads, CStep(L)
        PROVE  LevelsInv'
    <2>1. CASE \E k \in BOOLEAN : Lua_callk(L, k) \/ Lua_yieldk(L, k)
      BY <2>1, CallkLevels, YieldkLevels
    <2>2. CASE \E k, ef \in BOOLEAN : Lua_pcallk(L, k, ef)
      BY <2>2, PcallkLevels
    <2>3. CASE \E co \in Threads \ {Main} : Lua_resume(L, co)
      BY <2>3, ResumeLevels
    <2>4. CASE \/ LuaD_protectedparser(L) \/ GenericReader(L) \/ SyntaxError(L)
               \/ ParserDone(L) \/ CFunctionReturns(L)
      BY <2>4, ParserLevels, ReaderLevels, SyntaxErrorLevels, ParserDoneLevels, CFunctionLevels
    <2>5. QED
      BY <1>4, <2>1, <2>2, <2>3, <2>4 DEF CStep
  <1>5. ASSUME NEW L \in Threads, ReturnStep(L)
        PROVE  LevelsInv'
    BY <1>5, CallReturnLevels, NoyieldReturnLevels, RawReturnLevels, PcallReturnLevels,
       YpcallReturnLevels, UnrollLevels, RecoveryLevels, ResumeReturnLevels, ErrormsgLevels,
       ErrormsgThrowsLevels DEF ReturnStep
  <1>6. QED
    BY <1>1, <1>2, <1>3, <1>4, <1>5 DEF Next

(* At all times every frame of the C stack stands at a level of its        *)
(* thread's chain of CallInfo: the function that runs in it, or has called *)
(* it, is still there, what luaD_pcall and lua_pcallk have saved are       *)
(* levels below it, and a suspended coroutine is one that unroll can       *)
(* rebuild.                                                                *)
THEOREM LevelsInvariance == Spec => []LevelsInv
  <1>1. QED
    BY CallsInitial, CallsStep, LevelsInitial, LevelsStep, PTL DEF Spec

----------------------------------------------------------------------------
(* The properties. *)

(* Open upvalues and message handlers of every thread belong to functions  *)
(* that are active, the handlers to C functions: every way out of a        *)
(* function, by return, tail call, error, yield or recovery, closes its    *)
(* upvalues and restores errfunc.                                          *)
THEOREM ReferencesLive == Spec => []StackReferencesLive
  <1>1. ASSUME LevelsInv, NEW t \in Threads
        PROVE  /\ \A u \in th[t].up : u \in DOMAIN th[t].ci /\ th[t].ci[u].lua
               /\ th[t].errfunc = 0 \/ (/\ th[t].errfunc \in DOMAIN th[t].ci
                                        /\ ~th[t].ci[th[t].errfunc].lua)
    <2>1. RefsOK(th)
      BY <1>1 DEF LevelsInv, Placed, State
    <2>2. QED
      BY <2>1 DEF RefsOK, UpOK
  <1>2. LevelsInv => StackReferencesLive
    BY <1>1 DEF StackReferencesLive
  <1>3. QED
    BY <1>2, LevelsInvariance, PTL

(* While unroll runs, right above the luaD_rawrunprotected of lua_resume,  *)
(* its thread may yield.                                                   *)
LEMMA UnrollYields ==
  ASSUME NEW s, NEW L, Ready(s, L), TopOf(s).fn = "unroll"
  PROVE  Nny(s.cs, L, Len(s.cs)) = 0 /\ Continued(s.th[L].ci, Len(s.th[L].ci))
  <1> DEFINE n == Len(s.cs)
             d == s.cs
             c == s.th[L].ci
             x == n - 1
             y == n - 2
             z == n - 3
  <1>1. PICK lev, a : Standing(s, L, lev, a)
    BY ReadyStands
  <1>2. TopOf(s) = d[n] /\ d[n].fn = "unroll" /\ d[n].status = OK
    BY ReadyStands
  <1>3. /\ x \in Nat \ {0} /\ d[x].L = L /\ x \in a .. n /\ a \in 1 .. n
        /\ Above(c, d[x].fn, lev[x], d[n].fn, lev[n])
    <2>1. s.cs[Len(s.cs)].fn \notin {"cfun", "resume"}
      BY <1>2
    <2>2. QED
      BY ONLY <1>1, <2>1, Within DEF Standing
  <1>4. /\ LevelAt(s.th, d, lev, n) /\ lev[n] = Len(c) /\ d[n].L = L /\ n \in Nat \ {0}
        /\ Frames(s.th, d, lev, n)
    <2>1. Frames(s.th, d, lev, n)
      BY <1>1 DEF Standing
    <2>2. LevelAt(s.th, d, lev, n) /\ d[n].L = L /\ n \in Nat \ {0}
          /\ (d[n].status = OK => lev[n] = Len(c))
      BY ONLY <1>1, StandsAt
    <2>3. QED
      BY <1>2, <2>1, <2>2
  <1> HIDE DEF n, d, c
  <1>5. n > 2 /\ d[n - 2].fn = "resume" /\ d[x].fn = "raw"
    <2>1. n > 2 /\ d[n - 2].fn = "resume"
      BY ONLY <1>2, <1>4 DEF LevelAt
    <2>2. d[x].fn = "raw"
      BY ONLY <1>2, <1>3 DEF Above
    <2>3. QED
      BY <2>1, <2>2
  <1>6. d[y].L = L
    <2>1. FrameAt(d, x)
      BY <1>3, <1>4 DEF Frames
    <2>2. d[x - 1].L = d[x].L
      BY ONLY <1>5, <2>1 DEF FrameAt
    <2>3. x - 1 = y
      BY <1>4
    <2>4. QED
      BY <1>3, <2>2, <2>3
  <1>7. /\ z \in Nat /\ y = z + 1 /\ y \in Nat /\ x = y + 1 /\ x \in Nat /\ n = x + 1
        /\ d[y].fn = "resume"
    BY <1>4, <1>5
  <1> HIDE DEF x, y, z
  <1>8. Nny(d, L, y) = 0
    <2>1. d[z + 1].fn = "resume" /\ d[z + 1].L = L
      BY <1>6, <1>7
    <2>2. Nny(d, L, z + 1) = 0
      BY ONLY <1>7, <2>1, NnyResume
    <2>3. QED
      BY <1>7, <2>2
  <1>9. Nny(d, L, x) = 0
    <2>1. d[y + 1].fn \notin {"noyield", "parser", "resume"} \/ d[y + 1].L # L
      BY <1>5, <1>7
    <2>2. Nny(d, L, y + 1) = Nny(d, L, y)
      BY ONLY <1>7, <2>1, NnyPlain
    <2>3. QED
      BY <1>7, <1>8, <2>2
  <1>10. Nny(d, L, n) = 0
    <2>1. d[x + 1].fn \notin {"noyield", "parser", "resume"} \/ d[x + 1].L # L
      BY <1>2, <1>7
    <2>2. Nny(d, L, x + 1) = Nny(d, L, x)
      BY ONLY <1>7, <2>1, NnyPlain
    <2>3. QED
      BY <1>7, <1>9, <2>2
  <1>11. Continued(c, lev[n])
    <2>1. Nny(d, L, n) = 0 => Continued(c, lev[n])
      BY ONLY <1>2, <1>4 DEF LevelAt, Keeping, c
    <2>2. QED
      BY <1>10, <2>1
  <1>12. QED
    BY <1>4, <1>10, <1>11 DEF n, d, c

(* finishCcall finds what it asserts: the C function that unroll goes on   *)
(* with has a continuation, and yields are allowed again.                  *)
THEOREM CallsResume == Spec => []InterruptedCallsResume
  <1>1. ASSUME CallsInv, LevelsInv, ~panic, Top.fn = "unroll", NEW L, L = Top.L,
               Depth(State, L) > 1, ~CurrentCI(State, L).lua
        PROVE  CurrentCI(State, L).k /\ th[L].nny = 0
    <2> DEFINE s == State
               c == s.th[L].ci
    <2>1. Ready(s, L) /\ TopOf(s) = Top
      BY <1>1, LevelsRun
    <2>2. Depth(s, L) = Len(c) /\ CurrentCI(s, L) = c[Len(c)] /\ th[L] = s.th[L]
      BY DEF Depth, CurrentCI, State
    <2>3. TopOf(s).fn = "unroll" /\ Len(c) > 1 /\ ~c[Len(c)].lua
      BY <1>1, <2>1, <2>2
    <2> HIDE DEF s
    <2>4. Nny(s.cs, L, Len(s.cs)) = 0 /\ Continued(s.th[L].ci, Len(s.th[L].ci))
      BY ONLY <2>1, <2>3, UnrollYields
    <2>5. s.th[L].nny = Nny(s.cs, L, Len(s.cs))
      BY <2>1, ActiveFacts DEF Ready
    <2>6. Len(c) \in Nat \ {0}
      BY ONLY <2>1, SameChain
    <2> HIDE DEF c
    <2>7. Len(c) \in 2 .. Len(c)
      BY <2>3, <2>6
    <2>8. c[Len(c)].lua \/ c[Len(c)].k
      BY <2>4, <2>7 DEF Continued, c
    <2>9. QED
      BY <2>2, <2>3, <2>4, <2>5, <2>8 DEF s
  <1>2. CallsInv /\ LevelsInv => InterruptedCallsResume
    BY <1>1 DEF InterruptedCallsResume
  <1>3. QED
    BY <1>2, CallsInvariance, LevelsInvariance, PTL
=============================================================================
