--------------------------- MODULE MCLuaArguments ---------------------------
(***************************************************************************)
(* Instances of LuaArguments for TLC: numbers and string lengths on both   *)
(* sides of the limits of a small int and a small buffer.                  *)
(***************************************************************************)
EXTENDS LuaArguments

SmallNumbers == -2*IntMax-4 .. 2*IntMax+4
=============================================================================
