---------------------------- MODULE LuaArguments ----------------------------
(***************************************************************************)
(* How one Lua value travels from main.lua into a script in the TA and how *)
(* the script's result travels back (lua/extensions/lua_arguments.c, with  *)
(* the calls that TA_call, invoke_script, run_lua_script and call_lua make *)
(* to it): Lua stack -> C argument -> TEE parameters -> C argument -> Lua  *)
(* stack, and the same again in the other direction.                       *)
(*                                                                         *)
(* A number is a count of halves, so that fractions exist; C's int has     *)
(* IntMax as its largest value.  A string has a length and the position of *)
(* its first zero byte (its length, if it has none).  Any other value is   *)
(* plain data, data whose dump does not fit the buffer, or something the   *)
(* dumper script cannot write down (functions, userdata, cyclic tables).   *)
(***************************************************************************)
EXTENDS Integers

CONSTANTS Halves,      \* the numbers scripts use, in halves
          IntMax,      \* largest C int
          MaxLen,      \* longest string scripts use
          BufferSize   \* BYTE_BUFFER_SIZE

ASSUME ArgumentsAssumption ==
  Halves \subseteq Int /\ IntMax \in Nat /\ MaxLen \in Nat /\ BufferSize \in Nat \ {0}

Number(h) == [type |-> "number", half |-> h]
String(l, z) == [type |-> "string", len |-> l, zero |-> z]
Other(k) == [type |-> "other", is |-> k]

Numbers == {Number(h) : h \in Halves}
Strings == {String(p[1], p[2]) : p \in {q \in (0..MaxLen) \X (0..MaxLen) : q[2] <= q[1]}}
LuaValue == Numbers \cup Strings \cup {Other(k) : k \in {"data", "large", "undumpable"}}

(* A call without the second argument, lua_type's LUA_TNONE.               *)
Missing == Other("missing")
(* The message a failed lua_pcall leaves on the stack.                     *)
Message == [type |-> "message"]
(* What is found behind a pointer that no longer or never was valid.       *)
Junk == [type |-> "junk"]
(* A C int.                                                                *)
CInt(i) == [type |-> "int", int |-> i]

VARIABLES stage,
          sent,     \* the value main.lua passes to TA_call
          arg,      \* lua_arg and lua_arg_type
          tag,      \* params[1].value.a
          number,   \* params[1].value.b
          buffer,   \* what params[3] holds
          got,      \* the value the script receives
          result,   \* the value the script returns
          back      \* the value TA_call returns to main.lua

argVars == <<stage, sent, arg, tag, number, buffer, got, result, back>>

Init ==
  /\ stage = "host_stack"
  /\ sent \in LuaValue \cup {Missing}
  /\ arg = Junk
  /\ tag = "none" /\ number = CInt(0) /\ buffer = Junk
  /\ got = Junk /\ result = Junk /\ back = Junk

-----------------------------------------------------------------------------
(* Conversions.                                                            *)

(* The conversion from double to int drops the fraction; the arm64 builds  *)
(* saturate.                                                               *)
Truncate(h) == IF h >= 0 THEN h \div 2 ELSE -((-h) \div 2)
ToInt(h) ==
  LET i == Truncate(h) IN
  IF i > IntMax THEN IntMax ELSE IF i < -IntMax - 1 THEN -IntMax - 1 ELSE i

CArg(t, v) == [tag |-> t, v |-> v]

(* A C string ends at its first zero byte.                                 *)
CString(v) == IF v.type = "string" THEN String(v.zero, v.zero) ELSE v

(* What the dumper script returns: code for the value; for what it cannot  *)
(* write down, a message or code that does not run.                        *)
Dump(v) == IF v \in {Other("data"), Other("large")} THEN v ELSE Message

(* Fault: one byte too few is copied.                                      *)
CopyOutShort(v) ==
  IF v.type = "string" THEN IF v.zero < BufferSize - 1 THEN CString(v) ELSE Junk
  ELSE IF v = Other("large") THEN Junk ELSE v

(* strncpy into the buffer: a string that fills it is not terminated, and  *)
(* whoever reads it reads on behind the buffer.                            *)
CopyOut(v) ==
  IF v.type = "string" THEN IF v.zero < BufferSize THEN CString(v) ELSE Junk
  ELSE IF v = Other("large") THEN Junk ELSE v

(* args_from_stack.  For a value with no C form the dumper is loaded and   *)
(* the value at the index pushed as its argument.  With an index counted   *)
(* from the top, or one that did not exist, that value is the dumper       *)
(* itself, or the message that it did not fit into the heap.               *)
ArgsFromStack(v, fromTop) ==
  IF v.type = "number" THEN CArg("number", CInt(ToInt(v.half)))
  ELSE IF v.type \in {"string", "message"} THEN CArg("string", v)
  ELSE CArg("code", IF fromTop \/ v = Missing THEN Message ELSE Dump(v))

(* stack_from_args.  lua_pushstring and the code loader stop at the first  *)
(* zero byte; code that does not load or run leaves a message.             *)
StackFromArgs(a) ==
  IF a.v = Junk THEN Junk
  ELSE CASE a.tag = "number" -> Number(2 * a.v.int)
         [] a.tag = "string" -> CString(a.v)
         [] a.tag = "code" -> IF a.v.type = "other" THEN a.v ELSE Message

-----------------------------------------------------------------------------
(* TA_call: args_from_stack(L, 2, ...).                                    *)
HostArgs ==
  /\ stage = "host_stack"
  /\ arg' = ArgsFromStack(sent, FALSE)
  /\ stage' = "host_args"
  /\ UNCHANGED <<sent, tag, number, buffer, got, result, back>>

(* invoke_script: value.a is the input type, then params_from_args_rich.   *)
ParamsFromArgsRich ==
  /\ stage = "host_args"
  /\ tag' = arg.tag
  /\ IF arg.tag = "number"
       THEN number' = arg.v /\ UNCHANGED buffer
       ELSE buffer' = CopyOut(arg.v) /\ UNCHANGED number
  /\ stage' = "ta_params"
  /\ UNCHANGED <<sent, arg, got, result, back>>

(* args_from_params_ta.  For a number it stores 32 bits of an address into *)
(* the uninitialised pointer lua_arg: on a 64-bit build the other half     *)
(* decides whether it points to value.b.                                   *)
ArgsFromParamsTa ==
  /\ stage = "ta_params"
  /\ IF tag = "number"
       THEN \/ arg' = CArg("number", number)
            \/ arg' = CArg("number", Junk)
       ELSE arg' = CArg(tag, buffer)
  /\ stage' = "ta_args"
  /\ UNCHANGED <<sent, tag, number, buffer, got, result, back>>

(* call_lua pushes the argument and runs the script ...                    *)
RunScript ==
  /\ stage = "ta_args"
  /\ got' = StackFromArgs(arg)
  /\ result' \in LuaValue \cup {Message}
  /\ stage' = "ta_stack"
  /\ UNCHANGED <<sent, arg, tag, number, buffer, back>>

(* Fault: the type of the argument is left in value.a.                     *)
CallLuaReturnsNoType ==
  /\ stage = "ta_stack"
  /\ LET r == ArgsFromStack(result, TRUE) IN
       \/ arg' = r
       \/ r.tag # "number" /\ arg' = CArg(r.tag, Junk)
  /\ stage' = "ta_closed"
  /\ UNCHANGED <<sent, tag, number, buffer, got, result, back>>

(* ... takes its result from the top of the stack, which also sets         *)
(* value.a, and closes the state: a string it holds a pointer to is freed, *)
(* and may be overwritten before it is copied out.                         *)
CallLuaReturns ==
  /\ stage = "ta_stack"
  /\ LET r == ArgsFromStack(result, TRUE) IN
       /\ tag' = r.tag
       /\ \/ arg' = r
          \/ r.tag # "number" /\ arg' = CArg(r.tag, Junk)
  /\ stage' = "ta_closed"
  /\ UNCHANGED <<sent, number, buffer, got, result, back>>

ParamsFromArgsTa ==
  /\ stage = "ta_closed"
  /\ IF arg.tag = "number"
       THEN number' = arg.v /\ UNCHANGED buffer
       ELSE buffer' = CopyOut(arg.v) /\ UNCHANGED number
  /\ stage' = "host_params"
  /\ UNCHANGED <<sent, arg, tag, got, result, back>>

ArgsFromParamsRich ==
  /\ stage = "host_params"
  /\ arg' = CArg(tag, IF tag = "number" THEN number ELSE buffer)
  /\ stage' = "host_ret"
  /\ UNCHANGED <<sent, tag, number, buffer, got, result, back>>

(* TA_call pushes its result; main.lua may call again with another value.  *)
HostReturn ==
  /\ stage = "host_ret"
  /\ back' = StackFromArgs(arg)
  /\ stage' = "done"
  /\ UNCHANGED <<sent, arg, tag, number, buffer, got, result>>

Next ==
  \/ HostArgs \/ ParamsFromArgsRich \/ ArgsFromParamsTa \/ RunScript
  \/ CallLuaReturns \/ ParamsFromArgsTa \/ ArgsFromParamsRich \/ HostReturn

Spec == Init /\ [][Next]_argVars

-----------------------------------------------------------------------------
(* Properties.                                                             *)

(* Values both sides can represent: integers of C's int, strings without a *)
(* zero byte that leave room for the terminator, data with a short dump.   *)
Supported(v) ==
  \/ v.type = "number" /\ v.half % 2 = 0 /\ Truncate(v.half) \in -IntMax-1..IntMax
  \/ v.type = "string" /\ v.zero = v.len /\ v.len < BufferSize
  \/ v = Other("data")

Received == stage \in {"ta_stack", "ta_closed", "host_params", "host_ret", "done"}

(* A supported value reaches the script unchanged, unless a number was     *)
(* read through the half-initialised pointer of args_from_params_ta.       *)
ArgumentArrives ==
  Received /\ Supported(sent) => got = sent \/ (sent.type = "number" /\ got = Junk)

(* A supported number that a script returns reaches main.lua unchanged,    *)
(* and a supported string does unless its memory was reused after          *)
(* lua_close.                                                              *)
ResultReturns ==
  stage = "done" /\ result.type \in {"number", "string"} /\ Supported(result)
    => back = result \/ (result.type = "string" /\ back = Junk)
=============================================================================
