------------------------------ MODULE LuaText -------------------------------
(***************************************************************************)
(* The functions of the TA build that read text: pattern matching          *)
(* (LuaStrings) and the conversion of numerals (LuaNumerals).  A script    *)
(* makes one call, of one or the other.                                    *)
(***************************************************************************)
EXTENDS LuaStrings, LuaNumerals

CONSTANTS
  Calls,      \* calls of the string functions, with what they promise
  Numerals    \* texts to convert, with what they mean

textVars == <<stringVars, numeralVars>>

TextInit ==
  \/ \E c \in Calls : StringsInit(c) /\ NumeralsInit(NoNumeral)
  \/ \E t \in Numerals : StringsInit(NoCall) /\ NumeralsInit(t)

TextStep ==
  \/ StringsNext /\ UNCHANGED numeralVars
  \/ NumeralsNext /\ UNCHANGED stringVars

(* The functions run on a processor the TEE gives to the session.          *)
TextSpec == TextInit /\ [][TextStep]_textVars /\ WF_textVars(TextStep)

(* Every call returns or raises an error, whatever the pattern and the     *)
(* subject, empty matches included, and every text is converted or         *)
(* rejected, except a numeral whose binary exponent is negative or no int. *)
TextCallsEnd ==
  /\ pc = "call" ~> pc = "done"
  /\ (npc = "str2num" /\ num.shapes \cap {"negative", "large"} = {}) ~> npc = "done"
=============================================================================
