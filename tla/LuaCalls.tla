------------------------------ MODULE LuaCalls ------------------------------
(***************************************************************************)
(* Calls, protected calls, errors and coroutines of the interpreter        *)
(* (lua/ldo.c with lapi.c, lstate.c, lfunc.c, ldebug.c, lbaselib.c).       *)
(*                                                                         *)
(* Two stacks advance together.  cs is the C stack: one frame for each     *)
(* activation of the C functions below that is not over, whatever thread   *)
(* it works for.  th holds for each Lua thread its chain of CallInfo and   *)
(* the fields of lua_State that calls use.  A frame that reaches the top   *)
(* of cs because its callee returned does the rest of its work and pops    *)
(* itself; a throw cuts cs down to a frame of luaD_rawrunprotected.        *)
(*                                                                         *)
(* Frames (field fn): "cfun" a C function; "execute" luaV_execute; "call"  *)
(* luaD_call; "noyield" luaD_callnoyield; "raw" luaD_rawrunprotected;      *)
(* "pcall" luaD_pcall; "ypcall" lua_pcallk with a continuation; "parser"   *)
(* luaD_protectedparser; "fparser" f_parser; "resume" lua_resume; "unroll" *)
(* unroll; "error" luaG_errormsg about to run and "errormsg" the same      *)
(* after its call of the message handler.                                  *)
(*                                                                         *)
(* What a function computes is left open: at each step Lua code and C      *)
(* functions take any action of their side.  Values on the Lua stack are   *)
(* abstracted to the frame they belong to: an open upvalue and a message   *)
(* handler are known by the level of their CallInfo.                       *)
(***************************************************************************)
EXTENDS Integers, Sequences, FiniteSets

CONSTANTS Threads,     \* Lua threads
          Main,        \* the main thread of the state
          MAXCCALLS,   \* LUAI_MAXCCALLS
          ExtraCalls,  \* LUAI_MAXCCALLS >> 3, room to handle an overflow
          MAXFRAMES,   \* CallInfos that fit into LUAI_MAXSTACK slots
          ExtraFrames  \* those that fit into the rest of ERRORSTACKSIZE

ASSUME CallsAssumption ==
    /\ Main \in Threads
    /\ MAXCCALLS \in Nat \ {0} /\ ExtraCalls \in Nat \ {0}
    /\ MAXFRAMES \in Nat \ {0, 1} /\ ExtraFrames \in Nat

VARIABLES th,     \* threads
          cs,     \* the C stack
          panic   \* abort() was called

vars == <<th, cs, panic>>

OK == 0
YIELD == 1
ERRRUN == 2
ERRSYNTAX == 3
ERRMEM == 4
ERRERR == 6
RESUME_ERROR == -1
Statuses == {OK, YIELD, ERRRUN, ERRSYNTAX, ERRMEM, ERRERR, RESUME_ERROR}

(* A CallInfo: lua tells a Lua function from a C function, fresh is        *)
(* CIST_FRESH, yp is CIST_YPCALL, k a continuation, olderr old_errfunc.    *)
CI(lua) == [lua |-> lua, fresh |-> FALSE, yp |-> FALSE, k |-> FALSE, olderr |-> 0]

Frame(f, L) == [fn |-> f, L |-> L, ci |-> 0, nny |-> 0, nC |-> 0, err |-> 0,
                jmp |-> 0, status |-> OK]

(* lua_newthread, after stack_init and preinit_thread. *)
NewThread == [ci |-> <<CI(FALSE)>>, status |-> OK, nny |-> 1, nC |-> 0, errfunc |-> 0,
              jmp |-> 0, up |-> {}, big |-> FALSE]

----------------------------------------------------------------------------
(* Operators on a state s = [th, cs, panic]. *)

State == [th |-> th, cs |-> cs, panic |-> panic]
Become(s) == th' = s.th /\ cs' = s.cs /\ panic' = s.panic

Top == cs[Len(cs)]
Depth(s, L) == Len(s.th[L].ci)
CurrentCI(s, L) == s.th[L].ci[Depth(s, L)]

Push(s, f) == [s EXCEPT !.cs = Append(@, f)]
Pop(s) == [s EXCEPT !.cs = SubSeq(@, 1, Len(@) - 1)]

LuaD_throw(s, L, errcode) ==
    LET j == s.th[L].jmp
    IN  IF j = 0 THEN [s EXCEPT !.th[L].status = errcode, !.panic = TRUE]
        ELSE [s EXCEPT !.cs = [SubSeq(@, 1, j) EXCEPT ![j].status = errcode]]

LuaF_close(s, L, level) == [s EXCEPT !.th[L].up = {u \in @ : u < level}]

(* luaD_growstack: the stack grows once more to handle an overflow. *)
LuaD_growstack(s, L) ==
    IF s.th[L].big THEN LuaD_throw(s, L, ERRERR)
    ELSE Push([s EXCEPT !.th[L].big = TRUE], Frame("error", L))

StackFits(s, L) ==
    Depth(s, L) < MAXFRAMES + (IF s.th[L].big THEN ExtraFrames ELSE 0)

LuaD_shrinkstack(s, L) ==
    IF Depth(s, L) <= MAXFRAMES THEN [s EXCEPT !.th[L].big = FALSE] ELSE s

(* luaD_precall: a C function is called, a Lua function only prepared. *)
LuaD_precall(s, L, lua) ==
    LET entered == [s EXCEPT !.th[L].ci = Append(@, CI(lua))]
    IN  IF ~StackFits(s, L) THEN LuaD_growstack(s, L)
        ELSE IF lua THEN entered ELSE Push(entered, Frame("cfun", L))

LuaV_execute(s, L) ==
    Push([s EXCEPT !.th[L].ci[Depth(s, L)].fresh = TRUE], Frame("execute", L))

(* luaD_precall, and luaV_execute when that returns and has prepared a Lua *)
(* function.                                                               *)
PrecallAndExecute(s, L, lua) ==
    LET t == LuaD_precall(s, L, lua)
    IN  IF lua /\ StackFits(s, L) THEN LuaV_execute(t, L) ELSE t

LuaD_poscall(s, L) == [s EXCEPT !.th[L].ci = SubSeq(@, 1, Len(@) - 1)]

LuaD_call(s, L, lua) ==
    LET n == s.th[L].nC + 1
        counted == [s EXCEPT !.th[L].nC = n]
    IN  CASE n = MAXCCALLS -> Push(counted, Frame("error", L))
          [] n # MAXCCALLS /\ n >= MAXCCALLS + ExtraCalls -> LuaD_throw(counted, L, ERRERR)
          [] OTHER -> PrecallAndExecute(Push(counted, Frame("call", L)), L, lua)

LuaD_callnoyield(s, L, lua) ==
    LuaD_call(Push([s EXCEPT !.th[L].nny = @ + 1], Frame("noyield", L)), L, lua)

LuaD_rawrunprotected(s, L) ==
    Push([s EXCEPT !.th[L].jmp = Len(s.cs) + 1],
         [Frame("raw", L) EXCEPT !.nC = s.th[L].nC, !.jmp = s.th[L].jmp])

(* luaD_pcall up to the call of its function. *)
LuaD_pcall(s, L, ef) ==
    LuaD_rawrunprotected(
        Push([s EXCEPT !.th[L].errfunc = ef],
             [Frame("pcall", L) EXCEPT !.ci = Depth(s, L), !.nny = s.th[L].nny,
                                       !.err = s.th[L].errfunc]), L)

----------------------------------------------------------------------------
(* Lua code. *)

Running(f, L) == ~panic /\ Top.fn = f /\ Top.L = L

OP_CALL(L) ==
    /\ Running("execute", L)
    /\ \E lua \in BOOLEAN : Become(LuaD_precall(State, L, lua))

(* A called Lua function takes the frame of its caller. *)
OP_TAILCALL(L) ==
    /\ Running("execute", L)
    /\ LET t == LuaD_precall(State, L, TRUE)
           level == Depth(State, L)
       IN  Become(IF StackFits(State, L) THEN LuaF_close(LuaD_poscall(t, L), L, level) ELSE t)

OP_RETURN(L) ==
    /\ Running("execute", L)
    /\ LET t == LuaD_poscall(LuaF_close(State, L, Depth(State, L)), L)
       IN  Become(IF CurrentCI(State, L).fresh THEN Pop(t) ELSE t)

(* OP_CLOSURE and OP_JMP: an upvalue of the running function is opened, or *)
(* closed at the end of a block.                                           *)
OP_CLOSURE(L) ==
    /\ Running("execute", L)
    /\ Become([State EXCEPT !.th[L].up = @ \cup {Depth(State, L)}])

OP_JMP(L) ==
    /\ Running("execute", L)
    /\ Become(LuaF_close(State, L, Depth(State, L)))

LuaT_callTM(L) ==
    /\ ~panic /\ Top.L = L /\ Top.fn \in {"execute", "cfun"}
    /\ \E lua \in BOOLEAN :
          Become(IF CurrentCI(State, L).lua THEN LuaD_call(State, L, lua)
                 ELSE LuaD_callnoyield(State, L, lua))

LuaG_runerror(L) ==
    /\ ~panic /\ Top.L = L /\ Top.fn \in {"execute", "cfun"}
    /\ Become(Push(State, Frame("error", L)))

(* luaM_realloc_ finds no memory. *)
MemoryError(L) ==
    /\ ~panic /\ Top.L = L /\ Top.fn \in {"execute", "cfun", "fparser"}
    /\ Become(LuaD_throw(State, L, ERRMEM))

(* luaG_errormsg: the message handler runs on top of the failed function. *)
LuaG_errormsg(L) ==
    /\ Running("error", L)
    /\ \E lua \in BOOLEAN :
          Become(IF th[L].errfunc = 0 THEN LuaD_throw(State, L, ERRRUN)
                 ELSE LuaD_callnoyield(Push(Pop(State), Frame("errormsg", L)), L, lua))

ErrormsgThrows(L) == Running("errormsg", L) /\ Become(LuaD_throw(State, L, ERRRUN))

----------------------------------------------------------------------------
(* C functions. *)

(* Fault: a call without a continuation leaves yields allowed. *)
Lua_callkYieldable(L, k) ==
    /\ Running("cfun", L)
    /\ \E lua \in BOOLEAN :
          Become(LuaD_call([State EXCEPT !.th[L].ci[Depth(State, L)].k = k], L, lua))

Lua_callk(L, k) ==
    /\ Running("cfun", L)
    /\ LET kept == [State EXCEPT !.th[L].ci[Depth(State, L)].k = TRUE]
       IN  \E lua \in BOOLEAN :
             Become(IF k /\ th[L].nny = 0 THEN LuaD_call(kept, L, lua)
                    ELSE LuaD_callnoyield(State, L, lua))

(* ef tells whether a message handler is given (xpcall). *)
Lua_pcallk(L, k, ef) ==
    /\ Running("cfun", L)
    /\ LET d == Depth(State, L)
           func == IF ef THEN d ELSE 0
           kept == [State EXCEPT !.th[L].ci[d] = [@ EXCEPT !.k = TRUE, !.yp = TRUE,
                                                           !.olderr = th[L].errfunc],
                                 !.th[L].errfunc = func]
       IN  \E lua \in BOOLEAN :
             Become(IF k /\ th[L].nny = 0 THEN LuaD_call(Push(kept, Frame("ypcall", L)), L, lua)
                    ELSE LuaD_callnoyield(LuaD_pcall(State, L, func), L, lua))

(* lua_load up to the first character the parser reads. *)
LuaD_protectedparser(L) ==
    /\ Running("cfun", L)
    /\ LET s == Push([State EXCEPT !.th[L].nny = @ + 1], Frame("parser", L))
       IN  Become(Push(LuaD_pcall(s, L, th[L].errfunc), Frame("fparser", L)))

(* f_parser calls the reader function of `load', fails or is done. *)
GenericReader(L) ==
    /\ Running("fparser", L)
    /\ \E lua \in BOOLEAN : Become(LuaD_callnoyield(State, L, lua))

SyntaxError(L) == Running("fparser", L) /\ Become(LuaD_throw(State, L, ERRSYNTAX))

ParserDone(L) == Running("fparser", L) /\ Become(Pop(State))

Lua_yieldk(L, k) ==
    /\ Running("cfun", L)
    /\ Become(IF th[L].nny > 0 THEN Push(State, Frame("error", L))
              ELSE LuaD_throw([State EXCEPT !.th[L].status = YIELD,
                                            !.th[L].ci[Depth(State, L)].k = k], L, YIELD))

(* Fault: the depth of the C stack is not taken over from the resumer. *)
OwnDepth(L, co) == th[co].nC + 1

ResumeDepth(L, co) == th[L].nC + 1

(* The checks of resume. *)
Refused(s, co) ==
    \/ s.th[co].nC >= MAXCCALLS
    \/ s.th[co].status \notin {OK, YIELD}
    \/ s.th[co].status = OK /\ Depth(s, co) # 1

(* lua_resume with the beginning of resume: co starts, goes on after a     *)
(* yield, or the call is refused.                                          *)
Lua_resume(L, co) ==
    /\ Running("cfun", L)
    /\ LET s  == Push([State EXCEPT !.th[co].nC = ResumeDepth(L, co), !.th[co].nny = 0],
                      [Frame("resume", co) EXCEPT !.nny = th[co].nny])
           r  == LuaD_rawrunprotected(s, co)
           go == Push([r EXCEPT !.th[co].status = OK], Frame("unroll", co))
       IN  CASE Refused(r, co) -> Become(LuaD_throw(r, co, RESUME_ERROR))
             [] ~Refused(r, co) /\ th[co].status = OK ->
                     \E lua \in BOOLEAN : Become(PrecallAndExecute(r, co, lua))
             [] ~Refused(r, co) /\ th[co].status # OK ->
                     Become(IF CurrentCI(r, co).k THEN Push(go, Frame("cfun", co))
                            ELSE LuaD_poscall(go, co))

(* A C function or a continuation returns; the program's own C code does not. *)
CFunctionReturns(L) ==
    /\ Running("cfun", L) /\ Len(cs) > 1
    /\ Become(Pop(LuaD_poscall(State, L)))

----------------------------------------------------------------------------
(* What the frames do when their callee has returned or thrown. *)

CallReturns(L) == Running("call", L) /\ Become(Pop([State EXCEPT !.th[L].nC = @ - 1]))

NoyieldReturns(L) ==
    /\ ~panic /\ Top.fn \in {"noyield", "parser"} /\ Top.L = L
    /\ Become(Pop([State EXCEPT !.th[L].nny = @ - 1]))

(* Fault: the error handler of the caller is not put back. *)
RawReturnsKeepsJump(L) ==
    /\ Running("raw", L)
    /\ Become([Pop([State EXCEPT !.th[L].nC = Top.nC])
                 EXCEPT !.cs[Len(cs) - 1].status = Top.status])

(* The status goes to the caller of luaD_rawrunprotected, the frame below. *)
RawReturns(L) ==
    /\ Running("raw", L)
    /\ Become([Pop([State EXCEPT !.th[L].jmp = Top.jmp, !.th[L].nC = Top.nC])
                 EXCEPT !.cs[Len(cs) - 1].status = Top.status])

(* Faults: an error leaves nny as the failed function had it, or its       *)
(* upvalues open.                                                          *)
UndoKeepsNny(s, L, f) ==
    [LuaF_close(s, L, f.ci + 1) EXCEPT !.th[L].ci = SubSeq(@, 1, f.ci)]

UndoLeavesOpen(s, L, f) ==
    [s EXCEPT !.th[L].ci = SubSeq(@, 1, f.ci), !.th[L].nny = f.nny]

(* What luaD_pcall, whose frame is f, does when its function has failed. *)
Undo(s, L, f) ==
    LuaD_shrinkstack([LuaF_close(s, L, f.ci + 1) EXCEPT !.th[L].ci = SubSeq(@, 1, f.ci),
                                                        !.th[L].nny = f.nny], L)

PcallReturns(L) ==
    /\ Running("pcall", L)
    /\ LET s == IF Top.status = OK THEN State ELSE Undo(State, L, Top)
       IN  Become(Pop([s EXCEPT !.th[L].errfunc = Top.err]))

YpcallReturns(L) ==
    /\ Running("ypcall", L)
    /\ Become(Pop([State EXCEPT !.th[L].ci[Depth(State, L)].yp = FALSE,
                                !.th[L].errfunc = CurrentCI(State, L).olderr]))

(* finishCcall up to the call of the continuation. *)
FinishCcall(s, L) ==
    LET ci == CurrentCI(s, L)
        t == IF ci.yp THEN [s EXCEPT !.th[L].ci[Depth(s, L)].yp = FALSE,
                                     !.th[L].errfunc = ci.olderr] ELSE s
    IN  Push(t, Frame("cfun", L))

Unroll(L) ==
    /\ Running("unroll", L)
    /\ Become(CASE Depth(State, L) = 1 -> Pop(State)
                [] Depth(State, L) # 1 /\ ~CurrentCI(State, L).lua -> FinishCcall(State, L)
                [] Depth(State, L) # 1 /\ CurrentCI(State, L).lua -> LuaV_execute(State, L))

(* The level of the innermost suspended protected call, or 0. *)
Findpcall(L) ==
    LET c == th[L].ci
        levels == {i \in DOMAIN c : c[i].yp}
    IN  IF levels = {} THEN 0 ELSE CHOOSE i \in levels : \A j \in levels : j <= i

Recover(s, L, level) ==
    LuaD_shrinkstack([LuaF_close(s, L, level + 1) EXCEPT
                        !.th[L].ci = SubSeq(@, 1, level), !.th[L].nny = 0,
                        !.th[L].errfunc = s.th[L].ci[level].olderr], L)

ErrorStatus(status) == status > YIELD

(* lua_resume goes on after a recoverable error. *)
ResumeRecovers(L) ==
    /\ Running("resume", L) /\ ErrorStatus(Top.status) /\ Findpcall(L) # 0
    /\ LET s == LuaD_rawrunprotected(Recover(State, L, Findpcall(L)), L)
       IN  Become(FinishCcall(Push(s, Frame("unroll", L)), L))

ResumeReturns(L) ==
    /\ Running("resume", L) /\ ~(ErrorStatus(Top.status) /\ Findpcall(L) # 0)
    /\ Become(Pop([State EXCEPT
          !.th[L].status = IF ErrorStatus(Top.status) THEN Top.status ELSE @,
          !.th[L].nny = Top.nny, !.th[L].nC = @ - 1]))

----------------------------------------------------------------------------
Init ==
    /\ th = [t \in Threads |-> NewThread]
    /\ cs = <<Frame("cfun", Main)>>
    /\ panic = FALSE

LuaStep(L) ==
    \/ OP_CALL(L) \/ OP_TAILCALL(L) \/ OP_RETURN(L) \/ OP_CLOSURE(L) \/ OP_JMP(L)
    \/ LuaT_callTM(L) \/ LuaG_runerror(L) \/ MemoryError(L)

CStep(L) ==
    \/ \E k \in BOOLEAN : Lua_callk(L, k) \/ Lua_yieldk(L, k)
    \/ \E k, ef \in BOOLEAN : Lua_pcallk(L, k, ef)
    \/ \E co \in Threads \ {Main} : Lua_resume(L, co)
    \/ LuaD_protectedparser(L) \/ GenericReader(L) \/ SyntaxError(L) \/ ParserDone(L)
    \/ CFunctionReturns(L)

ReturnStep(L) ==
    \/ CallReturns(L) \/ NoyieldReturns(L) \/ RawReturns(L) \/ PcallReturns(L)
    \/ YpcallReturns(L) \/ Unroll(L) \/ ResumeRecovers(L) \/ ResumeReturns(L)
    \/ LuaG_errormsg(L) \/ ErrormsgThrows(L)

(* abort() ends the program. *)
Aborted == panic /\ UNCHANGED vars

Next == Aborted \/ \E L \in Threads : LuaStep(L) \/ CStep(L) \/ ReturnStep(L)

Spec == Init /\ [][Next]_vars
----------------------------------------------------------------------------
(* Properties. *)

(* The frames of thread t with one of these functions from index i on. *)
FramesOf(t, fns, i) == {j \in i .. Len(cs) : cs[j].L = t /\ cs[j].fn \in fns}

(* Where the activation of t begins: its last lua_resume, or the program.  *)
LastResume(t) ==
    LET rs == FramesOf(t, {"resume"}, 1)
    IN  IF rs = {} THEN 0 ELSE CHOOSE i \in rs : \A j \in rs : j <= i

(* nny counts the calls on the C stack that may not be interrupted, also   *)
(* after errors jumped over their decrements and after a recovery inside a *)
(* coroutine: what lua_yieldk and lua_pcallk decide by (luaD_callnoyield,  *)
(* luaD_pcall, recover, lua_resume).  Only while an error is on its way    *)
(* through the frame that catches it the count is not yet restored.        *)
NnyCounts ==
    \A t \in Threads : ~(Top.L = t /\ Top.status # OK) =>
        th[t].nny = (IF LastResume(t) = 0 THEN 1 ELSE 0)
                      + Cardinality(FramesOf(t, {"noyield", "parser"}, LastResume(t) + 1))

(* The C stack stays within LUAI_MAXCCALLS and an eighth, although errors, *)
(* yields and resumes of several threads leave calls without their         *)
(* decrement: the running thread's nCcalls covers every nested call.       *)
CStackBounded ==
    LET nested == {j \in DOMAIN cs : cs[j].fn \in {"call", "resume"}}
    IN  panic \/ (/\ Cardinality(nested) <= th[Top.L].nC
                  /\ th[Top.L].nC <= MAXCCALLS + ExtraCalls)

(* A C function that is resumed after a yield has a continuation and may   *)
(* yield again (the assertion of finishCcall): no yield got past a C frame *)
(* that could not be rebuilt.                                              *)
InterruptedCallsResume ==
    ~panic /\ Top.fn = "unroll" /\ Depth(State, Top.L) > 1 /\ ~CurrentCI(State, Top.L).lua
        => CurrentCI(State, Top.L).k /\ th[Top.L].nny = 0

(* Open upvalues and message handlers belong to functions that are active: *)
(* every way out of a function, by return, tail call, error or recovery,   *)
(* closes its upvalues and restores errfunc (luaF_close, luaD_pcall).      *)
StackReferencesLive ==
    \A t \in Threads :
        /\ \A u \in th[t].up : u \in DOMAIN th[t].ci /\ th[t].ci[u].lua
        /\ th[t].errfunc = 0 \/ (/\ th[t].errfunc \in DOMAIN th[t].ci
                                 /\ ~th[t].ci[th[t].errfunc].lua)

(* errorJmp of every thread is its innermost luaD_rawrunprotected that is  *)
(* still active: no error can jump into a C function that has returned.    *)
JumpsIntoLiveFrames ==
    \A t \in Threads :
        LET raws == FramesOf(t, {"raw"}, 1)
        IN  /\ th[t].jmp \in raws \cup {0}
            /\ \A j \in raws : j <= th[t].jmp
=============================================================================
