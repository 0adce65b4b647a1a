----------------------------- MODULE MCLuaTable -----------------------------
(* LuaTable with keys of every type that collide in small hash parts. *)
EXTENDS LuaTable

MCKeys == {<<"int", 1>>, <<"int", 2>>, <<"int", 3>>, <<"flt", 4>>, <<"str", 1>>, <<"ptr", 7>>}
MCTMName == <<"str", 1>>
=============================================================================
