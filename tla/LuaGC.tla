------------------------------- MODULE LuaGC -------------------------------
(***************************************************************************)
(* The incremental garbage collector of the Lua core (lua/lgc.c) that the  *)
(* host program and the trusted application run their scripts on, with the *)
(* operations of the interpreter that it interleaves with.                 *)
(*                                                                         *)
(* The collector's global_State is the record g.  A program owns a fixed   *)
(* set of object slots; `layout' gives each slot its kind, so that a small *)
(* instance still has weak tables, finalizers, coroutines with open        *)
(* upvalues, prototypes with a closure cache, and interned strings.        *)
(*   - A table has one node (key, val); the key Int stands for an entry of *)
(*     the array part or any other key that is not collectable.  Its weak  *)
(*     mode is its kind.  Metatables are kept alive by the program.        *)
(*   - roots is the stack of the main thread L: values a script can name.  *)
(*   - A collectable field holds an object or "nil".                       *)
(* A finalizer is a piece of script that a function of the collector       *)
(* calls, and it may ask for steps and full collections itself: calls is   *)
(* the stack of these functions, the innermost first, each with the place  *)
(* it has got to and the object whose finalizer it is calling, or "none".  *)
(***************************************************************************)
EXTENDS Naturals, Sequences, FiniteSets

CONSTANTS Objs,      \* object slots
          Layouts,   \* the kinds the slots may have, functions on Objs
          GCSWEEPMAX, \* objects swept by one step
          MaxCalls   \* bound: collector functions inside each other's finalizers

L == "L"                               \* the main thread
Tables == {"table", "weakvalue", "ephemeron", "allweak"}
Kinds == Tables \cup {"udata", "string", "thread", "lclosure", "proto"}

ASSUME LayoutsAssumption ==
    /\ L \notin Objs
    /\ Layouts \subseteq [Objs -> Kinds]
    /\ GCSWEEPMAX \in Nat \ {0}
    /\ MaxCalls \in Nat \ {0}

VARIABLES layout,   \* kind of every slot
          g,        \* global_State and the heap
          calls     \* luaC_step, luaC_fullgc and luaC_freeallobjects in a finalizer

vars == <<layout, g, calls>>

KeepInvariant(s) == s.gcstate \in {"propagate", "atomic"}
IsSweepPhase(s) == s.gcstate \in {"swpallgc", "swpfinobj", "swptobefnz", "swpend"}

(***************************************************************************)
(* Colours.  The two whites are written relative to currentwhite: "white"  *)
(* is the current one, "dead" the other one, so that flipping currentwhite *)
(* exchanges the two.                                                      *)
(***************************************************************************)
Whites == {"white", "dead"}
FlipWhite(m) == [o \in DOMAIN m |-> CASE m[o] = "white" -> "dead"
                                      [] m[o] = "dead"  -> "white"
                                      [] OTHER -> m[o]]
Allocated(s) == {o \in Objs : s.marked[o] # "free"}
IsWhite(s, o) == s.marked[o] \in Whites
IsDead(s, o) == s.marked[o] = "dead"
ValIsWhite(s, v) == v \in Objs /\ IsWhite(s, v)
MakeWhite(s, o) == [s EXCEPT !.marked[o] = "white"]

----------------------------------------------------------------------------
(* Objects. *)

Blank == [key |-> "nil", val |-> "nil",   \* node; uservalue, slot, literal
          p   |-> "nil",                  \* prototype of a closure, cache of a prototype
          th  |-> "nil",                  \* thread an open upvalue lives in
          touched |-> FALSE]

(* A new lua_State, without objects.  fin are the objects whose finalizer  *)
(* is still to be called.  overtaken and late are history: whether a sweep *)
(* has passed an object to be finalized by, and the objects that were      *)
(* marked for finalization by finalizers of luaC_freeallobjects.           *)
Fresh == [gcstate |-> "pause", gckind |-> "normal",
          marked |-> [o \in Objs \cup {L} |-> IF o = L THEN "white" ELSE "free"],
          obj |-> [o \in Objs |-> Blank], fin |-> {}, roots |-> {}, twups |-> {},
          allgc |-> <<>>, finobj |-> <<>>, tobefnz |-> <<>>, sweepgc |-> "null",
          gray |-> <<>>, grayagain |-> <<>>, weak |-> <<>>, allweak |-> <<>>,
          ephemeron |-> <<>>, strcache |-> "memerrmsg",
          overtaken |-> FALSE, late |-> {}]

OpenUpvals(s, th) == {f \in Allocated(s) : layout[f] = "lclosure" /\ s.obj[f].th = th}

LuaC_newobj(s, o) ==
    [s EXCEPT !.marked[o] = "white", !.obj[o] = Blank,
              !.allgc = <<o>> \o @, !.roots = @ \cup {o}]

----------------------------------------------------------------------------
(* Mark functions. *)

LinkGray(s, o) == [s EXCEPT !.marked[o] = "gray", !.gray = <<o>> \o @]

RECURSIVE ReallyMarkObject(_, _)
ReallyMarkObject(s, o) ==
    IF o = L THEN LinkGray(s, o)
    ELSE CASE layout[o] = "string" -> [s EXCEPT !.marked[o] = "black"]
           [] layout[o] = "udata"  ->
                LET t == [s EXCEPT !.marked[o] = "black"]
                    v == t.obj[o].val
                IN  IF ValIsWhite(t, v) THEN ReallyMarkObject(t, v) ELSE t
           [] OTHER -> LinkGray(s, o)

MarkValue(s, v) == IF ValIsWhite(s, v) THEN ReallyMarkObject(s, v) ELSE s

RECURSIVE MarkAll(_, _)
MarkAll(s, vs) ==
    IF vs = {} THEN s
    ELSE LET v == CHOOSE x \in vs : TRUE IN MarkAll(MarkValue(s, v), vs \ {v})

RECURSIVE MarkBeingFnz(_, _)
MarkBeingFnz(s, l) ==
    IF l = <<>> THEN s ELSE MarkBeingFnz(MarkValue(s, Head(l)), Tail(l))

(* The gray lists have no meaning outside the mark phase (lgc.h): they are *)
(* emptied when it ends as well as, by restartcollection, when it begins.  *)
NoGrayLists(s) ==
    [s EXCEPT !.gray = <<>>, !.grayagain = <<>>, !.weak = <<>>,
              !.allweak = <<>>, !.ephemeron = <<>>]

RestartCollection(s) ==
    LET r == NoGrayLists(s)
        m == IF IsWhite(r, L) THEN ReallyMarkObject(r, L) ELSE r
    IN  MarkBeingFnz(m, m.tobefnz)

(* A touched open upvalue of a thread that is not marked: the closure that *)
(* refers to it may be alive, and only the dead thread's stack holds it.   *)
RemarkUpvals(s) ==
    LET kept == {t \in s.twups : s.marked[t] = "gray" /\ OpenUpvals(s, t) # {}}
        uvs  == {f \in UNION {OpenUpvals(s, t) : t \in s.twups \ kept} : s.obj[f].touched}
        r    == [s EXCEPT !.twups = kept,
                          !.obj = [o \in Objs |-> IF o \in uvs
                                       THEN [s.obj[o] EXCEPT !.touched = FALSE]
                                       ELSE s.obj[o]]]
    IN  MarkAll(r, {s.obj[s.obj[f].th].val : f \in uvs})

----------------------------------------------------------------------------
(* Traverse functions.  iscleared: strings count as values and are marked  *)
(* on the spot; any other white object can be cleared.                     *)

KeepString(s, v) == IF v \in Objs /\ layout[v] = "string" THEN MarkValue(s, v) ELSE s
IsCleared(s, v) == v \in Objs /\ layout[v] # "string" /\ IsWhite(s, v)

RemoveEntry(s, h) ==
    IF ValIsWhite(s, s.obj[h].key) THEN [s EXCEPT !.obj[h].key = "dead"] ELSE s

TraverseWeakValue(s, h) ==
    LET n  == s.obj[h]
        k  == MarkValue(s, n.key)
        v  == IF n.key = "int" THEN k ELSE KeepString(k, n.val)
        r  == IF n.val = "nil" THEN RemoveEntry(s, h) ELSE v
        hasclears == n.val # "nil" /\ (n.key = "int" \/ IsCleared(v, n.val))
    IN  CASE r.gcstate = "propagate" -> [r EXCEPT !.grayagain = <<h>> \o @]
          [] r.gcstate # "propagate" /\ hasclears -> [r EXCEPT !.weak = <<h>> \o @]
          [] OTHER -> r

(* The value of an entry whose key is marked is marked now; whether that   *)
(* happened is what makes convergeephemerons go round again.               *)
EphemeronMarks(s, h) ==
    LET k == KeepString(s, s.obj[h].key)
    IN  ~IsCleared(k, s.obj[h].key) /\ ValIsWhite(k, s.obj[h].val)

TraverseEphemeron(s, h) ==
    LET n == s.obj[h]
        k == KeepString(s, n.key)
        white == n.val # "nil" /\ IsCleared(k, n.key)
        r == CASE n.val = "nil" -> RemoveEntry(s, h)
               [] white -> k
               [] OTHER -> MarkValue(k, n.val)
    IN  CASE r.gcstate = "propagate" -> [r EXCEPT !.grayagain = <<h>> \o @]
          [] r.gcstate # "propagate" /\ white /\ ValIsWhite(r, n.val) ->
                [r EXCEPT !.ephemeron = <<h>> \o @]
          [] r.gcstate # "propagate" /\ white /\ ~ValIsWhite(r, n.val) ->
                [r EXCEPT !.allweak = <<h>> \o @]
          [] OTHER -> r

TraverseStrongTable(s, h) ==
    IF s.obj[h].val = "nil" THEN RemoveEntry(s, h)
    ELSE MarkValue(MarkValue(s, s.obj[h].key), s.obj[h].val)

TraverseTable(s, h) ==
    LET gray == [s EXCEPT !.marked[h] = "gray"]
    IN  CASE layout[h] = "table"     -> TraverseStrongTable(s, h)
          [] layout[h] = "weakvalue" -> TraverseWeakValue(gray, h)
          [] layout[h] = "ephemeron" -> TraverseEphemeron(gray, h)
          [] layout[h] = "allweak"   -> [gray EXCEPT !.allweak = <<h>> \o @]

TraverseProto(s, f) ==
    LET c == IF ValIsWhite(s, s.obj[f].p) THEN [s EXCEPT !.obj[f].p = "nil"] ELSE s
    IN  MarkValue(c, c.obj[f].val)

TraverseLclosure(s, f) ==
    LET c == MarkValue(s, s.obj[f].p)
        open == c.obj[f].th # "nil"
    IN  CASE open /\ c.gcstate # "insideatomic" -> [c EXCEPT !.obj[f].touched = TRUE]
          [] open /\ c.gcstate = "insideatomic" -> MarkValue(c, c.obj[c.obj[f].th].val)
          [] OTHER -> MarkValue(c, c.obj[f].val)

TraverseThread(s, th) ==
    LET r == IF th = L THEN MarkAll(s, s.roots) ELSE MarkValue(s, s.obj[th].val)
    IN  IF r.gcstate = "insideatomic" /\ th # L /\ OpenUpvals(r, th) # {}
        THEN [r EXCEPT !.twups = @ \cup {th}]
        ELSE r

(* One gray object turns black; threads never do. *)
PropagateMark(s) ==
    LET o == Head(s.gray)
        b == [s EXCEPT !.gray = Tail(@), !.marked[o] = "black"]
        t == [s EXCEPT !.gray = Tail(@), !.grayagain = <<o>> \o @]
    IN  CASE o = L \/ layout[o] = "thread" -> TraverseThread(t, o)
          [] layout[o] \in Tables     -> TraverseTable(b, o)
          [] layout[o] = "lclosure"   -> TraverseLclosure(b, o)
          [] layout[o] = "proto"      -> TraverseProto(b, o)

RECURSIVE PropagateAll(_)
PropagateAll(s) == IF s.gray = <<>> THEN s ELSE PropagateAll(PropagateMark(s))

RECURSIVE Converge(_, _, _)
Converge(s, l, changed) ==
    CASE l # <<>> /\ EphemeronMarks(s, Head(l)) ->
           Converge(PropagateAll(TraverseEphemeron(s, Head(l))), Tail(l), TRUE)
      [] l # <<>> /\ ~EphemeronMarks(s, Head(l)) ->
           Converge(TraverseEphemeron(s, Head(l)), Tail(l), changed)
      [] l = <<>> /\ changed -> Converge([s EXCEPT !.ephemeron = <<>>], s.ephemeron, FALSE)
      [] OTHER -> s

ConvergeEphemerons(s) == Converge([s EXCEPT !.ephemeron = <<>>], s.ephemeron, FALSE)

RECURSIVE ClearKeys(_, _)
ClearKeys(s, l) ==
    IF l = <<>> THEN s
    ELSE LET h == Head(l)
             k == IF s.obj[h].val = "nil" THEN s ELSE KeepString(s, s.obj[h].key)
         IN  ClearKeys(IF k.obj[h].val # "nil" /\ IsCleared(k, k.obj[h].key)
                       THEN RemoveEntry([k EXCEPT !.obj[h].val = "nil"], h) ELSE k,
                       Tail(l))

(* Fault: weak values are not cleared. *)
ClearNoValues(s, l) == s

RECURSIVE ClearValues(_, _)
ClearValues(s, l) ==
    IF l = <<>> THEN s
    ELSE LET h == Head(l)
             v == KeepString(s, s.obj[h].val)
         IN  ClearValues(IF IsCleared(v, v.obj[h].val)
                         THEN RemoveEntry([v EXCEPT !.obj[h].val = "nil"], h) ELSE v,
                         Tail(l))

(* The part of a list that was linked in front of its old value. *)
Since(l, old) == SubSeq(l, 1, Len(l) - Len(old))

----------------------------------------------------------------------------
(* Sweep functions.  sweepgc is a pointer to a link: "head" is the header  *)
(* of the list that gcstate names, an object is that object's next field   *)
(* (whatever list the object is in now), "null" is no pointer.             *)

LuaC_upvalbarrier(s, v) == IF KeepInvariant(s) THEN MarkValue(s, v) ELSE s

LuaF_close(s, th) ==
    LET v == s.obj[th].val
        closed == [s EXCEPT !.obj = [o \in Objs |->
                     IF o \in OpenUpvals(s, th)
                     THEN [s.obj[o] EXCEPT !.th = "nil", !.val = v]
                     ELSE s.obj[o]]]
    IN  IF OpenUpvals(s, th) = {} THEN s ELSE LuaC_upvalbarrier(closed, v)

FreeObj(s, o) ==
    LET c == IF layout[o] = "thread" THEN LuaF_close(s, o) ELSE s
    IN  [c EXCEPT !.marked[o] = "free", !.obj[o] = Blank, !.twups = @ \ {o}]

Lists == {"allgc", "finobj", "tobefnz"}
InList(s, o) == CHOOSE l \in Lists : \E i \in DOMAIN s[l] : s[l][i] = o
IndexOf(l, o) == CHOOSE i \in DOMAIN l : l[i] = o
WithoutAt(l, i) == SubSeq(l, 1, i - 1) \o SubSeq(l, i + 1, Len(l))

SweptList(s) == CASE s.sweepgc # "head"       -> InList(s, s.sweepgc)
                  [] s.gcstate = "swpallgc"   -> "allgc"
                  [] s.gcstate = "swpfinobj"  -> "finobj"
                  [] s.gcstate = "swptobefnz" -> "tobefnz"

(* The index of the element that the link sweepgc leads to. *)
SweptIndex(s) == IF s.sweepgc = "head" THEN 1
                 ELSE IndexOf(s[SweptList(s)], s.sweepgc) + 1

RECURSIVE SweepList(_, _)
SweepList(s, count) ==
    LET l == SweptList(s)
        i == SweptIndex(s)
        curr == s[l][i]
    IN  CASE i > Len(s[l]) -> [s EXCEPT !.sweepgc = "null"]
          [] i <= Len(s[l]) /\ count = 0 -> s
          [] i <= Len(s[l]) /\ count > 0 /\ IsDead(s, curr) ->
                SweepList(FreeObj([s EXCEPT ![l] = WithoutAt(@, i)], curr), count - 1)
          [] OTHER -> SweepList([MakeWhite(s, curr) EXCEPT !.sweepgc = curr], count - 1)

RECURSIVE SweepToLive(_)
SweepToLive(s) ==
    LET r == SweepList(s, 1)
    IN  IF r.sweepgc = s.sweepgc THEN SweepToLive(r) ELSE r

EnterSweep(s) == SweepList([s EXCEPT !.gcstate = "swpallgc", !.sweepgc = "head"], 1)

SweepStep(s, next, first) ==
    LET r == IF s.sweepgc = "null" THEN s ELSE SweepList(s, GCSWEEPMAX)
    IN  IF r.sweepgc # "null" THEN r
        ELSE [r EXCEPT !.gcstate = next, !.sweepgc = first]

----------------------------------------------------------------------------
(* Finalization. *)

(* The sweep of tobefnz goes on behind the object, now in allgc: it does   *)
(* not come to those left in tobefnz that are still black.                 *)
Overtakes(s, o) ==
    /\ s.gcstate = "swptobefnz" /\ s.sweepgc = o
    /\ \E i \in DOMAIN s.tobefnz : s.marked[s.tobefnz[i]] = "black"

Udata2Finalize(s) ==
    LET o == Head(s.tobefnz)
        r == [s EXCEPT !.tobefnz = Tail(@), !.allgc = <<o>> \o @,
                       !.fin = @ \ {o}, !.late = @ \ {o}]
        w == IF IsSweepPhase(r) THEN MakeWhite(r, o) ELSE r
    IN  [w EXCEPT !.overtaken = @ \/ Overtakes(w, o)]

SeparateToBeFnz(s) ==
    LET Dying(o) == IsWhite(s, o)
        Live(o)  == ~IsWhite(s, o)
    IN  [s EXCEPT !.tobefnz = @ \o SelectSeq(s.finobj, Dying),
                  !.finobj = SelectSeq(@, Live)]

LuaC_checkfinalizer(s, o) ==
    LET w == IF IsSweepPhase(s) THEN MakeWhite(s, o) ELSE s
        c == IF IsSweepPhase(s) /\ s.sweepgc = o THEN SweepToLive(w) ELSE w
    IN  IF o \in s.fin THEN s
        ELSE [c EXCEPT !.allgc = WithoutAt(@, IndexOf(@, o)),
                       !.finobj = <<o>> \o @, !.fin = @ \cup {o}]

----------------------------------------------------------------------------
(* GC control. *)

(* Fault: the API cache keeps a string that is about to be freed. *)
LuaS_keepcache(s) == s

LuaS_clearcache(s) ==
    IF s.strcache # "memerrmsg" /\ IsWhite(s, s.strcache)
    THEN [s EXCEPT !.strcache = "memerrmsg"] ELSE s

MarkStrong(s) ==
    LET a == [s EXCEPT !.gcstate = "insideatomic"]
        b == PropagateAll(RemarkUpvals(a))
    IN  ConvergeEphemerons(PropagateAll([b EXCEPT !.gray = s.grayagain]))

(* Fault: objects to be finalized are not marked. *)
ResurrectNot(s) == ConvergeEphemerons(PropagateAll(SeparateToBeFnz(s)))

Resurrect(s) ==
    LET a == SeparateToBeFnz(s)
    IN  ConvergeEphemerons(PropagateAll(MarkBeingFnz(a, a.tobefnz)))

ClearTables(s) == ClearValues(ClearValues(s, s.weak), s.allweak)

(* The tables that came into the lists since before, by the resurrection.  *)
ClearResurrected(s, before) ==
    ClearValues(ClearValues(s, Since(s.weak, before.weak)), Since(s.allweak, before.allweak))

ClearDeadKeys(s) == ClearKeys(ClearKeys(s, s.ephemeron), s.allweak)

FinishAtomic(s) == NoGrayLists([LuaS_clearcache(s) EXCEPT !.marked = FlipWhite(@)])

AfterClearing(s) == FinishAtomic(ClearResurrected(ClearDeadKeys(Resurrect(s)), s))

Atomic(s) == AfterClearing(ClearTables(MarkStrong(s)))

Propagated(s) == IF s.gray = <<>> THEN [s EXCEPT !.gcstate = "atomic"] ELSE s

(* Every state of singlestep but the call of finalizers in GCScallfin. *)
SingleStep(s) ==
    CASE s.gcstate = "pause" -> [RestartCollection(s) EXCEPT !.gcstate = "propagate"]
      [] s.gcstate = "propagate"  -> Propagated(PropagateMark(s))
      [] s.gcstate = "atomic"     -> EnterSweep(Atomic(PropagateAll(s)))
      [] s.gcstate = "swpallgc"   -> SweepStep(s, "swpfinobj", "head")
      [] s.gcstate = "swpfinobj"  -> SweepStep(s, "swptobefnz", "head")
      [] s.gcstate = "swptobefnz" -> SweepStep(s, "swpend", "null")
      [] s.gcstate = "swpend"     -> [MakeWhite(s, L) EXCEPT !.gcstate = "callfin"]
      [] s.gcstate = "callfin"    -> [s EXCEPT !.gcstate = "pause"]

CallsFinalizers(s) ==
    s.gcstate = "callfin" /\ s.tobefnz # <<>> /\ s.gckind = "normal"

RECURSIVE RunTilState(_, _)
RunTilState(s, states) ==
    IF s.gcstate \in states THEN s ELSE RunTilState(SingleStep(s), states)

(* luaC_runtilstate(GCSpause), as far as it gets without a finalizer. *)
RECURSIVE ToPause(_)
ToPause(s) ==
    IF s.gcstate = "pause" \/ CallsFinalizers(s) THEN s ELSE ToPause(SingleStep(s))

(* Fault: a full collection only completes the cycle it finds under way. *)
CycleUnderWay(s) == [s EXCEPT !.gcstate = "callfin"]

Cycle(s) == RunTilState(RunTilState(s, {"propagate"}), {"callfin"})

----------------------------------------------------------------------------
(* The functions that call finalizers.  Where each has got to:             *)
(*   "fin"    the GCScallfin of luaC_step, "few" the finalizers it calls   *)
(*            at its end                                                   *)
(*   "first", "last"   the luaC_runtilstate(GCSpause) of luaC_fullgc       *)
(*            before and after its own cycle                               *)
(*   "close"  luaC_freeallobjects                                          *)
(* Between two finalizers nothing comes in between: a function goes on to  *)
(* the next one in one step, but for luaC_fullgc, which pauses in "last"   *)
(* behind its cycle.                                                       *)

(* Once an object has been overtaken, what it refers to may be freed under *)
(* it: such a state is followed no further.                                *)
Ended == g.gcstate = "closed" \/ g.overtaken
Last == [at |-> "last", fnz |-> "none"]
MutatorRuns == ~Ended /\ (calls # <<>> => Head(calls) # Last)
Closing == calls # <<>> /\ calls[Len(calls)].at = "close"

Continue(s, stack) == g' = s /\ calls' = stack /\ UNCHANGED layout

(* GCTM up to the call: the object is normal again and on the stack.       *)
GCTM(s, at, rest) ==
    Continue([Udata2Finalize(s) EXCEPT !.roots = @ \cup {Head(s.tobefnz)}],
             <<[at |-> at, fnz |-> Head(s.tobefnz)]>> \o rest)

MayCall == MutatorRuns /\ Len(calls) < MaxCalls

(* Where the loop of luaC_step may end, or call finalizers.  How much debt *)
(* is paid is left open; with nothing to finalize, a longer loop is        *)
(* several calls of luaC_step with nothing in between.                     *)
RECURSIVE LoopEnds(_)
LoopEnds(s) ==
    {s} \cup IF s.gcstate = "pause" \/ s.tobefnz = <<>> \/ CallsFinalizers(s) THEN {}
             ELSE LoopEnds(SingleStep(s))

(* How many finalizers luaC_step calls is left open, but for the first.    *)
EndLoop(s, rest) ==
    \/ (s.gcstate = "pause" \/ s.tobefnz = <<>>) /\ Continue(s, rest)
    \/ s.gcstate # "pause" /\ s.tobefnz # <<>> /\ GCTM(s, "few", rest)
    \/ CallsFinalizers(s) /\ GCTM(s, "fin", rest)

(* collectgarbage("step") makes steps in a finalizer as well, although     *)
(* GCTM turns gcrunning off.                                               *)
LuaC_step ==
    /\ MayCall
    /\ IF CallsFinalizers(g) THEN GCTM(g, "fin", calls)
       ELSE \E s \in LoopEnds(SingleStep(g)) : EndLoop(s, calls)

FinishPending(s, rest) ==
    \E t \in {ToPause(s)} :
       IF CallsFinalizers(t) THEN GCTM(t, "first", rest)
       ELSE Continue(Cycle(t), <<Last>> \o rest)

FinishCollection(s, rest) ==
    \E t \in {ToPause(s)} :
       IF CallsFinalizers(t) THEN GCTM(t, "last", rest)
       ELSE Continue([t EXCEPT !.gckind = "normal"], rest)

LuaC_fullgc(kind) ==
    /\ MayCall
    /\ FinishPending([IF KeepInvariant(g) THEN EnterSweep(NoGrayLists(g)) ELSE g
                        EXCEPT !.gckind = kind], calls)

Collected == calls # <<>> /\ Head(calls) = Last /\ FinishCollection(g, Tail(calls))

FreeAll(s, rest) ==
    IF s.tobefnz # <<>> THEN GCTM(s, "close", rest)
    ELSE Continue([Fresh EXCEPT !.gcstate = "closed"], rest)

(* lua_close, called by the program when the script has ended.             *)
LuaC_freeallobjects ==
    /\ calls = <<>> /\ MutatorRuns
    /\ FreeAll([g EXCEPT !.tobefnz = @ \o g.finobj, !.finobj = <<>>], calls)

(* A finalizer returns; what it leaves on the stack is dropped, unless the *)
(* script has stored it.  runafewfinalizers may go on to the next one and  *)
(* callallpendingfinalizers does.                                          *)
EndFinalizer ==
    /\ MutatorRuns /\ calls # <<>>
    /\ \E o \in {"none", Head(calls).fnz} :
         LET s == [g EXCEPT !.roots = @ \ {o}]
             at == Head(calls).at
             rest == Tail(calls)
         IN  \/ at # "close" /\ s.tobefnz # <<>> /\ GCTM(s, at, rest)
             \/ at = "fin" /\ \E t \in LoopEnds(s) : EndLoop(t, rest)
             \/ at = "few" /\ Continue(s, rest)
             \/ at = "first" /\ FinishPending(s, rest)
             \/ at = "last" /\ FinishCollection(s, rest)
             \/ at = "close" /\ FreeAll(s, rest)

(* The error goes on in the function that was called: nothing that it has  *)
(* still to do is done.  luaC_freeallobjects goes on to the next.          *)
FinalizerFails ==
    /\ MutatorRuns /\ calls # <<>>
    /\ Head(calls).at # "close"
    /\ \E o \in {"none", Head(calls).fnz} : Continue([g EXCEPT !.roots = @ \ {o}], Tail(calls))

(* A script runs in a state of its own. *)
Lua_newstate == Ended /\ Continue(Fresh, <<>>)

----------------------------------------------------------------------------
(* Reachability, as the language defines it. *)

StrongRefs(s, o, R) ==
    LET n == s.obj[o]
        strong(v) == v \notin Objs \/ layout[v] = "string" \/ v \in R
        strings == {v \in {n.key, n.val} \cap Objs : layout[v] = "string"}
        refs == CASE layout[o] \in Tables /\ n.val = "nil" -> {}
                  [] layout[o] = "ephemeron" ->
                       strings \cup (IF strong(n.key) THEN {n.val} ELSE {})
                  [] layout[o] = "weakvalue" -> strings \cup {n.key}
                  [] layout[o] = "allweak"   -> strings
                  [] layout[o] = "lclosure"  ->
                       {n.p, IF n.th = "nil" THEN n.val ELSE s.obj[n.th].val}
                  [] layout[o] = "proto"     -> {n.val}
                  [] OTHER -> {n.key, n.val}
    IN  refs \cap Objs

RECURSIVE ReachFrom(_, _)
ReachFrom(s, R) ==
    LET S == R \cup UNION {StrongRefs(s, o, R) : o \in R \cap Allocated(s)}
    IN  IF S = R THEN R ELSE ReachFrom(s, S)

Reachable(s) == ReachFrom(s, s.roots)

(* What a complete cycle keeps: objects to be finalized and what they      *)
(* refer to, and values of upvalues that were touched.                     *)
Kept(s) == ReachFrom(s, s.roots \cup s.fin
                          \cup ({s.obj[s.obj[f].th].val : f \in
                                  {x \in Allocated(s) : layout[x] = "lclosure"
                                                        /\ s.obj[x].th # "nil"}} \cap Objs))

----------------------------------------------------------------------------
(* The script. *)

LuaC_barrier(s, o, v) ==
    CASE s.marked[o] = "black" /\ ValIsWhite(s, v) /\ KeepInvariant(s) -> ReallyMarkObject(s, v)
      [] s.marked[o] = "black" /\ ValIsWhite(s, v) /\ ~KeepInvariant(s) -> MakeWhite(s, o)
      [] OTHER -> s

(* Fault: no barrier. *)
NoBarrier(s, t, v) == s

LuaC_barrierback(s, t, v) ==
    IF s.marked[t] = "black" /\ ValIsWhite(s, v)
    THEN [s EXCEPT !.marked[t] = "gray",
                   !.grayagain = IF KeepInvariant(s) THEN <<t>> \o @ ELSE @]
    ELSE s

Step(s) == MutatorRuns /\ g' = s /\ UNCHANGED <<layout, calls>>

Named(kinds) == {o \in g.roots : layout[o] \in kinds}

New(o) ==
    /\ g.marked[o] = "free" /\ layout[o] \notin {"string", "lclosure"}
    /\ Step(LuaC_newobj(g, o))

(* luaS_new: the API cache, then the string table, then a new string. *)
LuaS_new(o) ==
    /\ layout[o] = "string"
    /\ LET s == IF g.marked[o] = "free" THEN LuaC_newobj(g, o)
                ELSE IF IsDead(g, o) THEN MakeWhite(g, o) ELSE g
       IN  Step([IF g.strcache = o THEN g ELSE [s EXCEPT !.strcache = o]
                    EXCEPT !.roots = @ \cup {o}])

(* OP_CLOSURE in coroutine th, whose local variable the closure captures. *)
OpClosure(f, p, th) ==
    /\ layout[f] = "lclosure"
    /\ LET c == g.obj[p].p
           made == [LuaC_newobj(g, f) EXCEPT
                      !.obj[f] = [Blank EXCEPT !.p = p, !.th = th, !.touched = TRUE],
                      !.twups = @ \cup {th}]
       IN  IF c # "nil" /\ g.obj[c].th = th
           THEN f = c /\ Step([g EXCEPT !.roots = @ \cup {c}])
           ELSE /\ g.marked[f] = "free"
                /\ Step(IF g.marked[p] = "black" THEN made
                        ELSE [made EXCEPT !.obj[p].p = f])

Drop(o) ==
    /\ o \in g.roots \ {calls[i].fnz : i \in DOMAIN calls}
    /\ Step([g EXCEPT !.roots = @ \ {o}])

(* A value read from an object: a table entry that is not empty, its key   *)
(* (lua_next), a uservalue, a local of a coroutine, an upvalue.            *)
Read(o, v) ==
    /\ o \in g.roots /\ v \in Objs \ g.roots
    /\ LET n == g.obj[o]
       IN  CASE layout[o] \in Tables -> n.val # "nil" /\ v \in {n.key, n.val}
             [] layout[o] = "lclosure" ->
                  v = IF n.th = "nil" THEN n.val ELSE g.obj[n.th].val
             [] layout[o] \in {"udata", "thread"} -> v = n.val
             [] OTHER -> FALSE
    /\ Step([g EXCEPT !.roots = @ \cup {v}])

(* t[k] = v; with one node, a new key takes the place of an empty entry. *)
LuaH_set(t, k, v) ==
    /\ g.obj[t].val = "nil" \/ g.obj[t].key = k
    /\ v = "nil" => g.obj[t].key = k
    /\ LET key == IF g.obj[t].key = k THEN g
                  ELSE LuaC_barrierback([g EXCEPT !.obj[t].key = k], t, k)
       IN  Step(LuaC_barrierback([key EXCEPT !.obj[t].val = v], t, v))

Lua_setuservalue(u, v) == Step(LuaC_barrier([g EXCEPT !.obj[u].val = v], u, v))

SetLocal(th, v) == Step([g EXCEPT !.obj[th].val = v])

OpSetUpval(f, v) ==
    LET th == g.obj[f].th
    IN  Step(IF th # "nil" THEN [g EXCEPT !.obj[th].val = v]
             ELSE LuaC_upvalbarrier([g EXCEPT !.obj[f].val = v], v))

CloseUpvals(th) == OpenUpvals(g, th) # {} /\ Step(LuaF_close(g, th))

Lua_setmetatable(o) ==
    /\ o \notin g.fin
    /\ Step([LuaC_checkfinalizer(g, o) EXCEPT !.late = IF Closing THEN @ \cup {o} ELSE @])

KeysOf(t) == IF layout[t] \in {"table", "weakvalue"} THEN {"int"} ELSE g.roots \ {t}

Init ==
    /\ layout \in Layouts
    /\ g = Fresh
    /\ calls = <<>>

Next ==
    \/ LuaC_step \/ Collected
    \/ EndFinalizer \/ FinalizerFails
    \/ LuaC_freeallobjects \/ Lua_newstate
    \/ \E kind \in {"normal", "emergency"} : LuaC_fullgc(kind)
    \/ \E o \in Objs : New(o) \/ LuaS_new(o) \/ Drop(o)
    \/ \E f \in Objs, p \in Named({"proto"}), th \in Named({"thread"}) : OpClosure(f, p, th)
    \/ \E o, v \in Objs : Read(o, v)
    \/ \E t \in Named(Tables), v \in g.roots \cup {"nil"} : \E k \in KeysOf(t) : LuaH_set(t, k, v)
    \/ \E u \in Named({"udata"}), v \in g.roots : Lua_setuservalue(u, v)
    \/ \E th \in Named({"thread"}), v \in g.roots \cup {"nil"} : SetLocal(th, v)
    \/ \E f \in Named({"lclosure"}), v \in g.roots : OpSetUpval(f, v)
    \/ \E th \in Named({"thread"}) : CloseUpvals(th)
    \/ \E o \in Named({"udata"}) : Lua_setmetatable(o)

Spec == Init /\ [][Next]_vars

----------------------------------------------------------------------------
(* Properties. *)

(* What a script can get at from object o, weak references included. *)
Visible(o) ==
    LET n == g.obj[o]
    IN  (CASE layout[o] \in Tables -> IF n.val = "nil" THEN {} ELSE {n.key, n.val}
           [] layout[o] = "lclosure" -> {n.p, n.th, n.val}
           [] OTHER -> {n.val, n.p}) \cap Objs

(* Unless the sweep has passed an object to be finalized by (lgc.c 749 and *)
(* 793, with more than GCSWEEPMAX of them; the comments at lgc.h 57-58 and *)
(* lgc.c 345 know no such case): no object that a script can reach,       *)
(* through strong or weak references, the closure cache of a prototype or  *)
(* the API string cache, has been freed, nor anything that a finalizer     *)
(* still to be called can reach.                                           *)
NoDangling ==
    ~g.overtaken =>
        /\ \A o \in ReachFrom(g, g.roots \cup g.fin) :
             /\ g.marked[o] # "free"
             /\ \A v \in Visible(o) : g.marked[v] # "free"
        /\ g.strcache # "memerrmsg" => g.marked[g.strcache] # "free"

(* lgc.h 15-24, with the same exception: while the invariant is kept, a    *)
(* black object does not point to a white one and every gray object is in  *)
(* a gray list.                                                            *)
TriColour ==
    KeepInvariant(g) /\ ~g.overtaken =>
        /\ \A o \in Allocated(g) : g.marked[o] = "black" =>
             LET n == g.obj[o]
             IN  \A v \in CASE layout[o] \in Tables -> IF n.val = "nil" THEN {} ELSE {n.key, n.val}
                            [] layout[o] = "lclosure" -> {n.p} \cup (IF n.th = "nil" THEN {n.val} ELSE {})
                            [] OTHER -> {n.val} : ~ValIsWhite(g, v)
        /\ \A o \in Allocated(g) \cup {L} : g.marked[o] = "gray" =>
             \E l \in {"gray", "grayagain", "weak", "allweak", "ephemeron"} :
                \E i \in DOMAIN g[l] : g[l][i] = o

(* An object marked for finalization is never freed before its finalizer   *)
(* was called: setmetatable during a sweep moves it between lists that the *)
(* sweep is walking (luaC_checkfinalizer), atomic resurrects it, and       *)
(* luaC_freeallobjects calls what is left.  Only a mark made while that    *)
(* one calls finalizers has no effect.                                     *)
FinalizedBeforeFreed ==
    [][\A o \in g.fin :
         g'.marked[o] = "free" /\ ~g.overtaken => g'.gcstate = "closed" /\ o \in g.late]_vars

(* iscleared, lgc.c 127-133: when the collector has found that an object   *)
(* is to be finalized, weak values that refer to it are gone from every    *)
(* table a script can reach, except by way of the object: a table that was *)
(* garbage with it and comes back with it keeps it.  (luaC_freeallobjects  *)
(* finalizes objects that are not garbage, and clears nothing.)            *)
ToFinalize(s, stack) ==
    {s.tobefnz[i] : i \in DOMAIN s.tobefnz} \cup {stack[i].fnz : i \in DOMAIN stack}
WeakValuesCleared ==
    [][LET found == ToFinalize(g', calls') \ ToFinalize(g, calls)
       IN  (Closing' => Closing) /\ found # {} =>
             \A t \in ReachFrom(g', g'.roots \ found) :
                layout[t] \in {"weakvalue", "allweak"} => g'.obj[t].val \notin found]_vars

(* The cycle of a full collection frees all that was garbage when it       *)
(* began, whatever state the incremental collector was in, also when a     *)
(* finalizer asked for it (luaC_fullgc).                                   *)
FullCollects ==
    [][calls' # <<>> /\ Head(calls') = Last =>
         Allocated(g') \subseteq Kept(g)]_vars
=============================================================================
