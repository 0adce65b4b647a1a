------------------------- MODULE LuaArguments_proofs ------------------------
(***************************************************************************)
(* Proofs about LuaArguments, for any int, any buffer and any lengths of   *)
(* strings: values both sides can represent survive the two journeys.      *)
(***************************************************************************)
EXTENDS LuaArguments, TLAPS

-----------------------------------------------------------------------------
(* Lemmas about the conversions.                                           *)

(* The C argument that stands for a supported value.                       *)
CForm(v) ==
  IF v.type = "number" THEN CArg("number", CInt(Truncate(v.half)))
  ELSE IF v.type = "string" THEN CArg("string", v)
  ELSE CArg("code", v)

(* Supported numbers and strings are what their constructors say.          *)
LEMMA SupportedForms ==
  ASSUME NEW v \in LuaValue \cup {Missing, Message}, Supported(v)
  PROVE  \/ \E h \in Int : /\ v = Number(h) /\ h % 2 = 0
                           /\ Truncate(h) \in -IntMax-1..IntMax
         \/ \E l \in Nat : v = String(l, l) /\ l < BufferSize
         \/ v = Other("data")
  <1>1. CASE v \in Numbers
    BY <1>1, ArgumentsAssumption DEF Numbers, Number, Supported, Other
  <1>2. CASE v \in Strings
    <2>1. PICK p \in (0..MaxLen) \X (0..MaxLen) : v = String(p[1], p[2])
      BY <1>2 DEF Strings
    <2>2. v.type = "string" /\ v.zero = p[2] /\ v.len = p[1] /\ p[1] \in Nat
      BY <2>1, ArgumentsAssumption DEF String
    <2>3. p[2] = p[1] /\ p[1] < BufferSize
      BY <2>2 DEF Supported, Other
    <2>4. QED
      BY <2>1, <2>2, <2>3
  <1>3. CASE v \in {Other(k) : k \in {"data", "large", "undumpable"}} \cup {Missing, Message}
    BY <1>3 DEF Other, Missing, Message, Supported
  <1>4. QED
    BY <1>1, <1>2, <1>3 DEF LuaValue

(* An even count of halves is twice its truncation.                        *)
LEMMA TruncateEven ==
  ASSUME NEW h \in Int, h % 2 = 0
  PROVE  Truncate(h) \in Int /\ 2 * Truncate(h) = h
  BY DEF Truncate

(* args_from_stack makes the C form, at any index, of numbers and strings, *)
(* and of data at an index counted from the bottom.                        *)
LEMMA ToCForm ==
  ASSUME NEW v \in LuaValue \cup {Missing, Message}, Supported(v), NEW fromTop \in BOOLEAN,
         v.type \in {"number", "string"} \/ ~fromTop
  PROVE  ArgsFromStack(v, fromTop) = CForm(v)
  <1>1. CASE \E h \in Int : /\ v = Number(h) /\ h % 2 = 0
                            /\ Truncate(h) \in -IntMax-1..IntMax
    <2>1. PICK h \in Int : /\ v = Number(h) /\ h % 2 = 0
                           /\ Truncate(h) \in -IntMax-1..IntMax
      BY <1>1
    <2>2. ToInt(h) = Truncate(h)
      BY <2>1, ArgumentsAssumption, TruncateEven DEF ToInt
    <2>3. QED
      BY <2>1, <2>2 DEF Number, ArgsFromStack, CForm
  <1>2. CASE \E l \in Nat : v = String(l, l) /\ l < BufferSize
    BY <1>2 DEF String, ArgsFromStack, CForm
  <1>3. CASE v = Other("data")
    BY <1>3 DEF Other, ArgsFromStack, CForm, Dump, Missing
  <1>4. QED
    BY <1>1, <1>2, <1>3, SupportedForms

(* The buffers take the C form of a supported string or of data as it is.  *)
LEMMA BufferTakes ==
  ASSUME NEW v \in LuaValue \cup {Missing, Message}, Supported(v), v.type # "number"
  PROVE  CopyOut(CForm(v).v) = CForm(v).v /\ CForm(v).v = v
  <1>1. CASE \E l \in Nat : v = String(l, l) /\ l < BufferSize
    BY <1>1 DEF String, CForm, CArg, CopyOut, CString
  <1>2. CASE v = Other("data")
    BY <1>2 DEF Other, CForm, CArg, CopyOut
  <1>3. QED
    BY <1>1, <1>2, SupportedForms DEF Number

(* stack_from_args makes the value of its C form.                          *)
LEMMA FromCForm ==
  ASSUME NEW v \in LuaValue \cup {Missing, Message}, Supported(v)
  PROVE  StackFromArgs(CForm(v)) = v
  <1>1. CASE \E h \in Int : /\ v = Number(h) /\ h % 2 = 0
    <2>1. PICK h \in Int : v = Number(h) /\ h % 2 = 0
      BY <1>1
    <2>2. CForm(v) = CArg("number", CInt(Truncate(h)))
      BY <2>1 DEF Number, CForm
    <2>3. CInt(Truncate(h)) # Junk
      BY DEF CInt, Junk
    <2>4. StackFromArgs(CForm(v)) = Number(2 * Truncate(h))
      BY <2>2, <2>3 DEF StackFromArgs, CArg, CInt
    <2>5. QED
      BY <2>1, <2>4, TruncateEven
  <1>2. CASE \E l \in Nat : v = String(l, l) /\ l < BufferSize
    BY <1>2 DEF String, CForm, StackFromArgs, CArg, CString, Junk
  <1>3. CASE v = Other("data")
    BY <1>3 DEF Other, CForm, StackFromArgs, CArg, Junk
  <1>4. QED
    BY <1>1, <1>2, <1>3, SupportedForms

LEMMA Tags ==
  ASSUME NEW v \in LuaValue \cup {Missing, Message}, Supported(v)
  PROVE  /\ CForm(v).tag = "number" <=> v.type = "number"
         /\ CForm(v) = CArg(CForm(v).tag, CForm(v).v)
  BY DEF CForm, CArg

(* A pointer to memory that was reused yields junk on every further step.  *)
LEMMA JunkStays ==
  /\ CopyOut(Junk) = Junk
  /\ \A t : StackFromArgs(CArg(t, Junk)) = Junk
  BY DEF CopyOut, Junk, Other, StackFromArgs, CArg

-----------------------------------------------------------------------------
(* The inductive invariant: what holds the value at each station of its    *)
(* journey.                                                                *)

(* The C argument c stands for v; Junk where memory was read too late.     *)
StandsFor(c, v, junkTypes) ==
  c = CForm(v) \/ (v.type \in junkTypes /\ c = CArg(CForm(v).tag, Junk))

(* The TEE parameters carry the C form of v, or a junk buffer.             *)
Carried(v, junk) ==
  /\ tag = CForm(v).tag
  /\ IF tag = "number" THEN number = CForm(v).v
     ELSE buffer = CForm(v).v \/ (junk /\ buffer = Junk)

ArgumentInv ==
  /\ sent \in LuaValue \cup {Missing}
  /\ Supported(sent) =>
       /\ stage = "host_args" => StandsFor(arg, sent, {})
       /\ stage = "ta_params" => Carried(sent, FALSE)
       /\ stage = "ta_args" => StandsFor(arg, sent, {"number"})
       /\ Received => got = sent \/ (sent.type = "number" /\ got = Junk)

Returnable(v) == v.type \in {"number", "string"} /\ Supported(v)

ResultInv ==
  /\ Received => result \in LuaValue \cup {Message}
  /\ Returnable(result) =>
       /\ stage = "ta_closed" => tag = CForm(result).tag /\ StandsFor(arg, result, {"string"})
       /\ stage = "host_params" => Carried(result, TRUE)
       /\ stage = "host_ret" => StandsFor(arg, result, {"string"})
       /\ stage = "done" => back = result \/ (result.type = "string" /\ back = Junk)

LEMMA ArgumentInitial == Init => ArgumentInv /\ ResultInv
  BY DEF Init, ArgumentInv, ResultInv, Received, Returnable, Junk

LEMMA StandsForPushed ==
  ASSUME NEW v \in LuaValue \cup {Missing, Message}, Supported(v), NEW c, NEW T, StandsFor(c, v, T)
  PROVE  StackFromArgs(c) = v \/ (v.type \in T /\ StackFromArgs(c) = Junk)
  BY FromCForm, JunkStays DEF StandsFor

(* Every step keeps what is known of the argument.                         *)
LEMMA ArgumentNext == ArgumentInv /\ [Next]_argVars => ArgumentInv'
  <1> SUFFICES ASSUME ArgumentInv, [Next]_argVars PROVE ArgumentInv'
    OBVIOUS
  <1>0. /\ sent \in LuaValue \cup {Missing, Message}
        /\ sent' = sent
    BY DEF ArgumentInv, Next, HostArgs, ParamsFromArgsRich, ArgsFromParamsTa, RunScript,
       CallLuaReturns, ParamsFromArgsTa, ArgsFromParamsRich, HostReturn, argVars
  <1> SUFFICES ASSUME Supported(sent)
               PROVE /\ stage' = "host_args" => StandsFor(arg', sent, {})
                     /\ stage' = "ta_params" => Carried(sent, FALSE)'
                     /\ stage' = "ta_args" => StandsFor(arg', sent, {"number"})
                     /\ Received' => got' = sent \/ (sent.type = "number" /\ got' = Junk)
    BY <1>0 DEF ArgumentInv, Supported, Carried
  <1>1. CASE HostArgs
    BY <1>0, <1>1, ToCForm DEF HostArgs, StandsFor, Received
  <1>2. CASE ParamsFromArgsRich
    <2>1. arg = CForm(sent)
      BY <1>2 DEF ParamsFromArgsRich, ArgumentInv, StandsFor
    <2>2. CASE sent.type = "number"
      BY <1>0, <1>2, <2>1, <2>2, Tags DEF ParamsFromArgsRich, Carried, Received
    <2>3. CASE sent.type # "number"
      BY <1>0, <1>2, <2>1, <2>3, Tags, BufferTakes DEF ParamsFromArgsRich, Carried, Received
    <2>4. QED
      BY <2>2, <2>3
  <1>3. CASE ArgsFromParamsTa
    <2>1. Carried(sent, FALSE)
      BY <1>3 DEF ArgsFromParamsTa, ArgumentInv
    <2>2. StandsFor(arg', sent, {"number"})
      BY <1>0, <1>3, <2>1, Tags DEF ArgsFromParamsTa, Carried, StandsFor
    <2>3. QED
      BY <1>3, <2>2 DEF ArgsFromParamsTa, Received
  <1>4. CASE RunScript
    <2>1. StandsFor(arg, sent, {"number"})
      BY <1>4 DEF RunScript, ArgumentInv
    <2>2. got' = sent \/ (sent.type = "number" /\ got' = Junk)
      BY <1>0, <1>4, <2>1, StandsForPushed DEF RunScript
    <2>3. QED
      BY <1>4, <2>2 DEF RunScript
  <1>5. CASE CallLuaReturns \/ ParamsFromArgsTa \/ ArgsFromParamsRich \/ HostReturn
    <2>1. /\ Received /\ got' = got
          /\ stage' \in {"ta_closed", "host_params", "host_ret", "done"}
      BY <1>5 DEF CallLuaReturns, ParamsFromArgsTa, ArgsFromParamsRich, HostReturn, Received
    <2>2. QED
      BY <2>1 DEF ArgumentInv
  <1>6. CASE UNCHANGED argVars
    BY <1>6 DEF argVars, ArgumentInv, Received, Carried
  <1>7. QED
    BY <1>1, <1>2, <1>3, <1>4, <1>5, <1>6 DEF Next

(* Every step keeps what is known of the result.                           *)
LEMMA ResultNext == ResultInv /\ [Next]_argVars => ResultInv'
  <1> SUFFICES ASSUME ResultInv, [Next]_argVars PROVE ResultInv'
    OBVIOUS
  <1>1. CASE HostArgs \/ ParamsFromArgsRich \/ ArgsFromParamsTa \/ RunScript
    BY <1>1 DEF HostArgs, ParamsFromArgsRich, ArgsFromParamsTa, RunScript, ResultInv, Received
  <1>2. CASE UNCHANGED argVars
    BY <1>2 DEF argVars, ResultInv, Received, Carried
  <1>3. CASE CallLuaReturns \/ ParamsFromArgsTa \/ ArgsFromParamsRich \/ HostReturn
    <2>1. Received /\ result' = result
      BY <1>3 DEF CallLuaReturns, ParamsFromArgsTa, ArgsFromParamsRich, HostReturn, Received
    <2>2. result \in LuaValue \cup {Missing, Message}
      BY <2>1 DEF ResultInv
    <2> SUFFICES ASSUME Returnable(result)
                 PROVE /\ stage' = "ta_closed" => tag' = CForm(result).tag
                                                  /\ StandsFor(arg', result, {"string"})
                       /\ stage' = "host_params" => Carried(result, TRUE)'
                       /\ stage' = "host_ret" => StandsFor(arg', result, {"string"})
                       /\ stage' = "done" => back' = result \/ (result.type = "string" /\ back' = Junk)
      BY <2>1 DEF ResultInv, Carried
    <2>3. Supported(result) /\ result.type \in {"number", "string"}
      BY DEF Returnable
    <2>4. CForm(result).tag = result.type
      BY <2>3 DEF CForm, CArg
    <2>5. CASE CallLuaReturns
      <3>1. ArgsFromStack(result, TRUE) = CForm(result)
        BY <2>2, <2>3, ToCForm
      <3>2. QED
        BY <2>3, <2>4, <2>5, <3>1 DEF CallLuaReturns, StandsFor
    <2>6. CASE ParamsFromArgsTa
      <3>1. tag = CForm(result).tag /\ StandsFor(arg, result, {"string"})
        BY <2>6 DEF ParamsFromArgsTa, ResultInv
      <3>2. arg.tag = CForm(result).tag
        BY <3>1 DEF StandsFor, CArg
      <3>3. CASE result.type = "number"
        BY <2>4, <2>6, <3>1, <3>2, <3>3 DEF ParamsFromArgsTa, Carried, StandsFor
      <3>4. CASE result.type = "string"
        <4>1. arg.v = CForm(result).v \/ arg.v = Junk
          BY <3>1 DEF StandsFor, CArg
        <4>2. buffer' = CForm(result).v \/ buffer' = Junk
          BY <2>2, <2>3, <2>4, <2>6, <3>2, <3>4, <4>1, BufferTakes, JunkStays DEF ParamsFromArgsTa
        <4>3. QED
          BY <2>4, <2>6, <3>1, <3>4, <4>2 DEF ParamsFromArgsTa, Carried
      <3>5. QED
        BY <2>3, <3>3, <3>4
    <2>7. CASE ArgsFromParamsRich
      <3>1. Carried(result, TRUE)
        BY <2>7 DEF ArgsFromParamsRich, ResultInv
      <3>2. StandsFor(arg', result, {"string"})
        BY <2>2, <2>3, <2>4, <2>7, <3>1, Tags DEF ArgsFromParamsRich, Carried, StandsFor
      <3>3. QED
        BY <2>7, <3>2 DEF ArgsFromParamsRich
    <2>8. CASE HostReturn
      <3>1. StandsFor(arg, result, {"string"})
        BY <2>8 DEF HostReturn, ResultInv
      <3>2. QED
        BY <2>2, <2>3, <2>8, <3>1, StandsForPushed DEF HostReturn
    <2>9. QED
      BY <1>3, <2>5, <2>6, <2>7, <2>8
  <1>4. QED
    BY <1>1, <1>2, <1>3 DEF Next

-----------------------------------------------------------------------------
(* A value both sides can represent reaches the script as it was sent,     *)
(* whatever the sizes of int and of the buffers (lua_arguments.c), except  *)
(* for a number read through a half-initialised pointer.                   *)
THEOREM ArgumentJourney == Spec => []ArgumentArrives
  <1>1. ArgumentInv => ArgumentArrives
    BY DEF ArgumentInv, ArgumentArrives
  <1>2. QED
    BY <1>1, ArgumentInitial, ArgumentNext, PTL DEF Spec

(* A number or string both sides can represent returns to main.lua as the  *)
(* script returned it (call_lua, TA_call), except for a string whose       *)
(* memory was reused after lua_close.                                      *)
THEOREM ResultJourney == Spec => []ResultReturns
  <1>1. ResultInv => ResultReturns
    BY DEF ResultInv, ResultReturns, Returnable
  <1>2. QED
    BY <1>1, ArgumentInitial, ResultNext, PTL DEF Spec
=============================================================================
