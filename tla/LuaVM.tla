------------------------------- MODULE LuaVM -------------------------------
(***************************************************************************)
(* The virtual machine (lua/lvm.c) running what the compiler made of a     *)
(* program: luaV_execute with one action per group of instructions, and    *)
(* the calls and returns of ldo.c, the upvalues of lfunc.c.                *)
(*                                                                         *)
(* A register that no one has written since its frame began, or since a    *)
(* call used its slot, holds whatever was left there: it is Junk.  Tables  *)
(* are abstract (LuaTable has their implementation), functions are Lua     *)
(* functions, metamethods, hooks and the collector are left out.           *)
(***************************************************************************)
EXTENDS LuaParser, LuaChunk, LuaSemantics

CONSTANTS Cases,       \* programs, with their code and their meaning
          STACKSIZE    \* slots of the stack

(* What f_parser makes of the text of a program, or of the chunk that      *)
(* string.dump wrote for it, whole or with its end missing.                *)
F_parser(p, chunk) ==
    LET text == LuaY_parser(Tokens(p))
        dumped == LuaU_dump(text.proto, chunk = "stripped")
        read == LuaU_undump(IF chunk = "cut" THEN Front(dumped) ELSE dumped)
    IN  IF text.err \/ chunk = "text" THEN text
        ELSE [proto |-> read.proto, err |-> read.err, bad |-> text.bad \/ read.bad, wrong |-> text.wrong]

(* A program in one of these forms, its code and its meaning. *)
Case(p, chunk) == [prog |-> p, chunk |-> chunk, main |-> F_parser(p, chunk),
                   meaning |-> IF chunk = "cut" THEN Rejected ELSE Meaning(p)]

ASSUME CasesAssumption == \A c \in Cases : c = Case(c.prog, c.chunk)

VARIABLES prog,      \* the program
          main,      \* what luaY_parser gave for it
          meaning,   \* what it is to compute
          status,    \* "run", or how the run ended
          stack, top,
          ci,        \* the frames, the running one last
          upval,     \* upvalues: open ones refer to a slot of the stack
          closure,   \* closures: prototype, its path, upvalues
          cache,     \* the last closure of a prototype, by path
          table

vars == <<prog, main, meaning, status, stack, top, ci, upval, closure, cache, table>>

Junk == <<"junk", 0>>

frame == Last(ci)
cl == closure[frame.cl]
I == cl.p.code[frame.pc + 1]
Slot(r) == frame.base + r
R(r) == stack[Slot(r)]
Kst(k) == cl.p.k[k + 1]
RKV(rk) == IF ISK(rk) THEN Kst(rk - BITRK) ELSE R(rk)
UpValue(u) == IF upval[u].open THEN stack[upval[u].at] ELSE upval[u].v
Up(b) == UpValue(cl.up[b + 1])

(* lua_load has loaded the program and lua_call starts its main function. *)
Init ==
    /\ \E c \in Cases : prog = c.prog /\ main = c.main /\ meaning = c.meaning
    /\ status = IF main.err THEN "rejected" ELSE "run"
    /\ stack = [j \in 1..STACKSIZE |-> IF j = 1 THEN <<"fn", 1>> ELSE Junk]
    /\ top = 2 + main.proto.maxstacksize
    /\ ci = <<[cl |-> 1, func |-> 1, base |-> 2, pc |-> 0, top |-> top, nresults |-> MULTRET]>>
    /\ upval = <<[open |-> FALSE, at |-> 0, v |-> <<"table", 1>>]>>
    /\ closure = <<[p |-> main.proto, path |-> <<>>, up |-> <<1>>]>>
    /\ cache = <<>>
    /\ table = <<<<>>>>

----------------------------------------------------------------------------
(* Calls. *)

(* luaD_precall of the Lua function in slot func, with its arguments up to *)
(* top, on stack st: the stack with the arguments in place, and the frame. *)
Precall(st, func, tp, nresults) ==
    LET p == closure[st[func][2]].p
        n == tp - func - 1
        moved == p.is_vararg = 1
        base == IF moved THEN tp ELSE func + 1
        arg(j) == IF j < n THEN st[func + 1 + j] ELSE Nil
        value(s) == CASE s >= base /\ s < base + p.numparams -> arg(s - base)
                      [] moved /\ s > func /\ s <= func + p.numparams /\ s < base -> Nil
                      [] s >= base + p.numparams -> Junk
                      [] OTHER -> st[s]
    IN  [stack |-> [s \in DOMAIN st |-> value(s)],
         frame |-> [cl |-> st[func][2], func |-> func, base |-> base, pc |-> 0,
                    top |-> base + p.maxstacksize, nresults |-> nresults]]

(* luaD_poscall and moveresults: nres results from slot first go to slot   *)
(* res and are made wanted many; slots above belong to no one.             *)
Poscall(st, first, nres, res, wanted) ==
    LET n == IF wanted = MULTRET THEN nres ELSE wanted
    IN  [s \in DOMAIN st |-> CASE s >= res /\ s - res < n /\ s - res < nres -> st[first + (s - res)]
                               [] s >= res /\ s - res < n /\ s - res >= nres -> Nil
                               [] s >= res + n -> Junk
                               [] OTHER -> st[s]]

(* luaF_close: open upvalues at level or above take their value along. *)
Closed(level) ==
    [u \in DOMAIN upval |-> IF upval[u].open /\ upval[u].at >= level
                            THEN [open |-> FALSE, at |-> 0, v |-> stack[upval[u].at]] ELSE upval[u]]

----------------------------------------------------------------------------
(* Steps of the machine. *)

Goto(pc) == ci' = [ci EXCEPT ![Len(ci)].pc = pc]
Follow == Goto(frame.pc + 1)
SetR(r, v) == stack' = [stack EXCEPT ![Slot(r)] = v]

(* Fetch: the current instruction, if it is one of ops. *)
Fetch(ops) == status = "run" /\ I.op \in ops

(* luaG_runerror: no protected call catches it. *)
Raise ==
    /\ status' = "error"
    /\ UNCHANGED <<prog, main, meaning, stack, top, ci, upval, closure, cache, table>>

(* The machine writes v into register r, or fails where v is an error. *)
Result(r, v) ==
    IF v = ErrorV THEN Raise
    ELSE /\ SetR(r, v)
         /\ Follow
         /\ UNCHANGED <<prog, main, meaning, status, top, upval, closure, cache, table>>

(* Loads, and instructions that compute a value from registers. *)
Op_move == Fetch({"MOVE"}) /\ Result(I.a, R(I.b))
Op_loadk == Fetch({"LOADK"}) /\ Result(I.a, Kst(I.b))
Op_getupval == Fetch({"GETUPVAL"}) /\ Result(I.a, Up(I.b))

Op_loadbool ==
    /\ Fetch({"LOADBOOL"})
    /\ SetR(I.a, BoolV(I.b = 1))
    /\ Goto(frame.pc + (IF I.c = 1 THEN 2 ELSE 1))
    /\ UNCHANGED <<prog, main, meaning, status, top, upval, closure, cache, table>>

Op_loadnil ==
    /\ Fetch({"LOADNIL"})
    /\ stack' = [s \in DOMAIN stack |-> IF s \in Slot(I.a)..Slot(I.a + I.b) THEN Nil ELSE stack[s]]
    /\ Follow
    /\ UNCHANGED <<prog, main, meaning, status, top, upval, closure, cache, table>>

(* gettableProtected and settableProtected without metamethods. *)
Indexed(t, k) == IF t[1] = "table" THEN Lookup(table[t[2]], k) ELSE ErrorV

Op_gettable ==
    \/ Fetch({"GETTABUP"}) /\ Result(I.a, Indexed(Up(I.b), RKV(I.c)))
    \/ Fetch({"GETTABLE"}) /\ Result(I.a, Indexed(R(I.b), RKV(I.c)))

SetTable(t, k, v) ==
    IF t[1] # "table" \/ k = Nil THEN Raise
    ELSE /\ table' = [table EXCEPT ![t[2]] = Stored(@, k, v)]
         /\ Follow
         /\ UNCHANGED <<prog, main, meaning, status, stack, top, upval, closure, cache>>

Op_settable ==
    \/ Fetch({"SETTABUP"}) /\ SetTable(Up(I.a), RKV(I.b), RKV(I.c))
    \/ Fetch({"SETTABLE"}) /\ SetTable(R(I.a), RKV(I.b), RKV(I.c))

Op_setupval ==
    /\ Fetch({"SETUPVAL"})
    /\ LET u == cl.up[I.b + 1]
       IN  IF upval[u].open THEN /\ stack' = [stack EXCEPT ![upval[u].at] = R(I.a)]
                                 /\ UNCHANGED upval
           ELSE /\ upval' = [upval EXCEPT ![u].v = R(I.a)]
                /\ UNCHANGED stack
    /\ Follow
    /\ UNCHANGED <<prog, main, meaning, status, top, closure, cache, table>>

Op_newtable ==
    /\ Fetch({"NEWTABLE"})
    /\ table' = Append(table, <<>>)
    /\ SetR(I.a, <<"table", Len(table) + 1>>)
    /\ Follow
    /\ UNCHANGED <<prog, main, meaning, status, top, upval, closure, cache>>

Op_self ==
    /\ Fetch({"SELF"})
    /\ LET f == Indexed(R(I.b), RKV(I.c))
       IN  IF f = ErrorV THEN Raise
           ELSE /\ stack' = [stack EXCEPT ![Slot(I.a + 1)] = R(I.b), ![Slot(I.a)] = f]
                /\ Follow
                /\ UNCHANGED <<prog, main, meaning, status, top, upval, closure, cache, table>>

(* OP_MOD and OP_POW of this build only raise an error; no metamethod      *)
(* takes what is not a number.                                             *)
ArithValue(op, a, b) ==
    IF \/ op \in {"MOD", "POW"} \/ ~IsNumber(a) \/ ~IsNumber(b)
       \/ op \in BitOps /\ ~(IsIntegral(a) /\ IsIntegral(b))
       \/ op = "IDIV" /\ b = IntV(0) /\ a[1] = "int"
    THEN ErrorV ELSE LuaO_arith(op, a, b)

Op_arith == Fetch(ArithOps) /\ Result(I.a, ArithValue(I.op, RKV(I.b), RKV(I.c)))

Op_unary ==
    \/ Fetch({"UNM", "BNOT"}) /\ Result(I.a, ArithValue(I.op, R(I.b), R(I.b)))
    \/ Fetch({"NOT"}) /\ Result(I.a, BoolV(~Truthy(R(I.b))))
    \/ Fetch({"LEN"}) /\ Result(I.a, IF R(I.b)[1] = "table" THEN IntV(Border(table[R(I.b)[2]])) ELSE ErrorV)

(* luaV_concat works from the last operand to the first. *)
Op_concat ==
    /\ Fetch({"CONCAT"})
    /\ Result(I.a, FoldRight(LAMBDA v, acc : IF acc = ErrorV THEN ErrorV ELSE Binary("..", v, acc),
                             [j \in 1..(I.c - I.b) |-> R(I.b + j - 1)], R(I.c)))

----------------------------------------------------------------------------
(* Jumps and tests. *)

(* dojump of the jump instruction at pc: it may close upvalues. *)
Jump(pc) ==
    LET j == cl.p.code[pc + 1]
    IN  /\ Goto(pc + 1 + j.b)
        /\ upval' = IF j.a = 0 THEN upval ELSE Closed(Slot(j.a - 1))

Op_jmp ==
    /\ Fetch({"JMP"})
    /\ Jump(frame.pc)
    /\ UNCHANGED <<prog, main, meaning, status, stack, top, closure, cache, table>>

(* The jump that follows the test is taken, or skipped. *)
Test(taken) ==
    /\ IF taken THEN Jump(frame.pc + 1) ELSE Goto(frame.pc + 2) /\ UNCHANGED upval
    /\ UNCHANGED <<prog, main, meaning, status, top, closure, cache, table>>

Compared(op, a, b) == Binary(CASE op = "EQ" -> "==" [] op = "LT" -> "<" [] op = "LE" -> "<=", a, b)

Op_compare ==
    /\ Fetch({"EQ", "LT", "LE"})
    /\ LET v == Compared(I.op, RKV(I.b), RKV(I.c))
       IN  IF v = ErrorV THEN Raise ELSE Test(v = BoolV(I.a = 1)) /\ UNCHANGED stack

Op_test == Fetch({"TEST"}) /\ Test(Truthy(R(I.a)) = (I.c = 1)) /\ UNCHANGED stack

Op_testset ==
    /\ Fetch({"TESTSET"})
    /\ LET taken == Truthy(R(I.b)) = (I.c = 1)
       IN  Test(taken) /\ IF taken THEN SetR(I.a, R(I.b)) ELSE UNCHANGED stack

----------------------------------------------------------------------------
(* Calls and returns.  An operand B of zero counts up to top. *)

CallTop == IF I.b = 0 THEN top ELSE Slot(I.a + I.b)

Enter(call) ==
    /\ stack' = call.stack
    /\ top' = call.frame.top
    /\ ci' = Append([ci EXCEPT ![Len(ci)].pc = @ + 1], call.frame)
    /\ UNCHANGED <<prog, main, meaning, status, upval, closure, cache, table>>

Op_call ==
    /\ Fetch({"CALL"})
    /\ IF R(I.a)[1] # "fn" THEN Raise ELSE Enter(Precall(stack, Slot(I.a), CallTop, I.c - 1))

(* The called frame is put in place of the frame of its caller. *)
Op_tailcall ==
    /\ Fetch({"TAILCALL"})
    /\ IF R(I.a)[1] # "fn" THEN Raise
       ELSE LET call == Precall(stack, Slot(I.a), CallTop, MULTRET)
                n == call.frame
                p == closure[n.cl].p
                down == n.func - frame.func
                lim == n.base + p.numparams
            IN  /\ upval' = IF cl.p.p = <<>> THEN upval ELSE Closed(frame.base)
                /\ stack' = [s \in DOMAIN stack |->
                               CASE s >= frame.func /\ s + down < lim -> call.stack[s + down]
                                 [] s >= frame.func /\ s + down >= lim -> Junk
                                 [] OTHER -> stack[s]]
                /\ ci' = [ci EXCEPT ![Len(ci)] =
                            [n EXCEPT !.func = frame.func, !.base = @ - down, !.top = @ - down,
                                      !.nresults = frame.nresults]]
                /\ top' = n.top - down
                /\ UNCHANGED <<prog, main, meaning, status, closure, cache, table>>

(* The machine goes on in the caller, or ends with the main function; the  *)
(* caller of a generic for goes on with the test of the loop.              *)
Op_return ==
    /\ Fetch({"RETURN"})
    /\ upval' = IF cl.p.p = <<>> THEN upval ELSE Closed(frame.base)
    /\ LET nres == IF I.b = 0 THEN top - Slot(I.a) ELSE I.b - 1
           res == Poscall(stack, Slot(I.a), nres, frame.func, frame.nresults)
       IN  /\ stack' = res
           /\ ci' = Front(ci)
           /\ status' = IF Len(ci) = 1 THEN "done" ELSE status
           /\ top' = IF Len(ci) = 1 \/ frame.nresults = MULTRET THEN frame.func + nres
                     ELSE ci[Len(ci) - 1].top
    /\ UNCHANGED <<prog, main, meaning, closure, cache, table>>

(* The arguments beyond the parameters lie below the frame. *)
Op_vararg ==
    /\ Fetch({"VARARG"})
    /\ LET n == Max({0, frame.base - frame.func - cl.p.numparams - 1})
           b == IF I.b = 0 THEN n ELSE I.b - 1
           extra(j) == IF j < n THEN stack[frame.base - n + j] ELSE Nil
       IN  /\ stack' = [s \in DOMAIN stack |-> IF s >= Slot(I.a) /\ s < Slot(I.a) + b
                                               THEN extra(s - Slot(I.a)) ELSE stack[s]]
           /\ top' = IF I.b = 0 THEN Slot(I.a) + n ELSE top
    /\ Follow
    /\ UNCHANGED <<prog, main, meaning, status, upval, closure, cache, table>>

----------------------------------------------------------------------------
(* Loops. *)

Op_forprep ==
    /\ Fetch({"FORPREP"})
    /\ IF \E r \in 0..2 : R(I.a + r)[1] # "int" THEN Raise
       ELSE /\ SetR(I.a, IntV(R(I.a)[2] - R(I.a + 2)[2]))
            /\ Goto(frame.pc + 1 + I.b)
            /\ UNCHANGED <<prog, main, meaning, status, top, upval, closure, cache, table>>

Op_forloop ==
    /\ Fetch({"FORLOOP"})
    /\ LET step == R(I.a + 2)[2]
           idx == R(I.a)[2] + step
           limit == R(I.a + 1)[2]
       IN  IF IF 0 < step THEN idx <= limit ELSE limit <= idx
           THEN /\ Goto(frame.pc + 1 + I.b)
                /\ stack' = [stack EXCEPT ![Slot(I.a)] = IntV(idx), ![Slot(I.a + 3)] = IntV(idx)]
           ELSE Follow /\ UNCHANGED stack
    /\ UNCHANGED <<prog, main, meaning, status, top, upval, closure, cache, table>>

(* The generator is called on copies of the control variables. *)
Op_tforcall ==
    /\ Fetch({"TFORCALL"})
    /\ LET copied == [stack EXCEPT ![Slot(I.a + 3)] = R(I.a), ![Slot(I.a + 4)] = R(I.a + 1),
                                   ![Slot(I.a + 5)] = R(I.a + 2)]
       IN  IF R(I.a)[1] # "fn" THEN Raise
           ELSE Enter(Precall(copied, Slot(I.a + 3), Slot(I.a + 6), I.c))

Op_tforloop ==
    /\ Fetch({"TFORLOOP"})
    /\ IF R(I.a + 1) # Nil THEN SetR(I.a, R(I.a + 1)) /\ Goto(frame.pc + 1 + I.b)
       ELSE Follow /\ UNCHANGED stack
    /\ UNCHANGED <<prog, main, meaning, status, top, upval, closure, cache, table>>

----------------------------------------------------------------------------
(* Constructors and closures. *)

ListItems == IF I.b = 0 THEN top - Slot(I.a) - 1 ELSE I.b

Op_setlist ==
    /\ Fetch({"SETLIST"})
    /\ LET first == (I.c - 1) * LFIELDS_PER_FLUSH
       IN  table' = [table EXCEPT ![R(I.a)[2]] =
               FoldLeft(LAMBDA t, j : Stored(t, IntV(first + j), R(I.a + j)), @, [j \in 1..ListItems |-> j])]
    /\ top' = frame.top
    /\ Follow
    /\ UNCHANGED <<prog, main, meaning, status, stack, upval, closure, cache>>

(* The slot or the closed upvalue that descriptor d of a function refers to. *)
Refers(u, d) ==
    IF d.instack THEN upval[u].open /\ upval[u].at = Slot(d.idx) ELSE u = cl.up[d.idx + 1]

(* A cached closure is used again if it refers to the same variables. *)
GetCached(path, descs) ==
    /\ path \in DOMAIN cache
    /\ \A j \in DOMAIN descs : Refers(closure[cache[path]].up[j], descs[j])

(* pushclosure: luaF_findupval makes an open upvalue for a variable on the *)
(* stack that has none.                                                    *)
Op_closure ==
    /\ Fetch({"CLOSURE"})
    /\ LET p == cl.p.p[I.b + 1]
           path == Append(cl.path, I.b)
           open(s) == {u \in DOMAIN upval : upval[u].open /\ upval[u].at = s}
           needed == {Slot(p.up[j].idx) : j \in {m \in DOMAIN p.up : p.up[m].instack}}
           new == SetToSeq({s \in needed : open(s) = {}})
           ups == upval \o [j \in DOMAIN new |-> [open |-> TRUE, at |-> new[j], v |-> Nil]]
           found(s) == CHOOSE u \in DOMAIN ups : ups[u].open /\ ups[u].at = s
           id == Len(closure) + 1
       IN  IF GetCached(path, p.up)
           THEN SetR(I.a, <<"fn", cache[path]>>) /\ UNCHANGED <<upval, closure, cache>>
           ELSE /\ upval' = ups
                /\ closure' = Append(closure, [p |-> p, path |-> path,
                      up |-> [j \in DOMAIN p.up |-> IF p.up[j].instack THEN found(Slot(p.up[j].idx))
                                                    ELSE cl.up[p.up[j].idx + 1]]])
                /\ cache' = [x \in DOMAIN cache \cup {path} |-> IF x = path THEN id ELSE cache[x]]
                /\ SetR(I.a, <<"fn", id>>)
    /\ Follow
    /\ UNCHANGED <<prog, main, meaning, status, top, table>>

Ended == status \in {"done", "error", "rejected"} /\ UNCHANGED vars

Next ==
    \/ Op_move \/ Op_loadk \/ Op_loadbool \/ Op_loadnil \/ Op_getupval \/ Op_setupval
    \/ Op_gettable \/ Op_settable \/ Op_newtable \/ Op_self \/ Op_arith \/ Op_unary \/ Op_concat
    \/ Op_jmp \/ Op_compare \/ Op_test \/ Op_testset
    \/ Op_call \/ Op_tailcall \/ Op_return \/ Op_vararg
    \/ Op_forprep \/ Op_forloop \/ Op_tforcall \/ Op_tforloop
    \/ Op_setlist \/ Op_closure
    \/ Ended

(* The machine runs until the program ends. *)
Spec == Init /\ [][Next]_vars /\ WF_vars(Next)

----------------------------------------------------------------------------
(* Correctness. *)

Outcome == [status |-> status,
            values |-> IF status = "done" THEN [j \in 1..(top - 1) |-> Shown(stack[j])] ELSE <<>>]


(* The registers an instruction takes values from. *)
Reg(rk) == IF ISK(rk) THEN {} ELSE {rk}
ToTop(first, n) == IF I.b = 0 THEN first..(top - 1 - frame.base) ELSE first..(first + n - 1)
Reads ==
    CASE I.op \in {"MOVE", "UNM", "BNOT", "NOT", "LEN", "TESTSET"} -> {I.b}
      [] I.op \in {"SETUPVAL", "TEST"} -> {I.a}
      [] I.op = "GETTABUP" -> Reg(I.c)
      [] I.op \in {"GETTABLE", "SELF"} -> {I.b} \cup Reg(I.c)
      [] I.op = "SETTABLE" -> {I.a} \cup Reg(I.b) \cup Reg(I.c)
      [] I.op \in {"SETTABUP", "EQ", "LT", "LE"} \cup ArithOps -> Reg(I.b) \cup Reg(I.c)
      [] I.op = "CONCAT" -> I.b..I.c
      [] I.op \in {"CALL", "TAILCALL"} -> ToTop(I.a, I.b)
      [] I.op = "SETLIST" -> ToTop(I.a, I.b + 1)
      [] I.op = "RETURN" -> ToTop(I.a, I.b - 1)
      [] I.op \in {"FORPREP", "FORLOOP", "TFORCALL"} -> I.a..(I.a + 2)
      [] I.op = "TFORLOOP" -> {I.a + 1}
      [] OTHER -> {}

(* No instruction takes a value that was left in its register by an        *)
(* earlier call or block: every path to it has written the register since. *)
(* In the body of a generic for with more than three expressions a local   *)
(* may be read from a register that was never its own (lparser.c:1360).    *)
NoStaleRead == status = "run" /\ "for list" \notin main.wrong => \A r \in Reads : R(r) # Junk

Opens(i) == (i.op \in {"CALL", "TAILCALL"} /\ i.c = 0) \/ (i.op = "VARARG" /\ i.b = 0)
TakesOpen(i) == i.op \in {"CALL", "TAILCALL", "RETURN", "SETLIST"} /\ i.b = 0
Jumps == {"JMP", "FORPREP", "FORLOOP", "TFORLOOP"}

(* The registers an instruction writes, for a fixed number of values. *)
Writes ==
    CASE I.op = "LOADNIL" -> I.a..(I.a + I.b)
      [] I.op = "SELF" -> {I.a, I.a + 1}
      [] I.op \in {"CALL", "TAILCALL"} -> I.a..(I.a + I.c - 2)
      [] I.op = "VARARG" -> I.a..(I.a + I.b - 2)
      [] I.op = "FORLOOP" -> {I.a, I.a + 3}
      [] I.op = "TFORCALL" -> (I.a + 3)..(I.a + Max({5, 2 + I.c}))
      [] I.op \in {"SETTABLE", "SETTABUP", "SETUPVAL", "EQ", "LT", "LE", "TEST", "JMP", "RETURN", "SETLIST"} -> {}
      [] OTHER -> {I.a}

(* The size of the frame that the compiler computes covers every register  *)
(* its instructions use (the collector and the callers trust it); values   *)
(* left open by a call or by ... are taken by the next instruction and by  *)
(* no other; and jumps stay inside the function.                           *)
FrameHolds ==
    status = "run" =>
        /\ \A r \in Writes \cup (IF TakesOpen(I) THEN {I.a} ELSE Reads) : r < cl.p.maxstacksize
        /\ Opens(I) => TakesOpen(cl.p.code[frame.pc + 2])
        /\ TakesOpen(I) => frame.pc > 0 /\ Opens(cl.p.code[frame.pc])
        /\ top # frame.top => TakesOpen(I)
        /\ I.op \in Jumps => frame.pc + 1 + I.b \in 0..(Len(cl.p.code) - 1)


(* Every program of the run ends: no jump is patched into a loop. *)
ProgramEnds == <>(status \in {"done", "error", "rejected"})
=============================================================================
