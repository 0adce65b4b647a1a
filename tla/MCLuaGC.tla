------------------------------ MODULE MCLuaGC ------------------------------
(* LuaGC on heaps of two and three objects. *)
EXTENDS LuaGC

MCObjs == {"a", "b", "c"}
Heap(x, y, z) == [o \in MCObjs |-> CASE o = "a" -> x [] o = "b" -> y [] o = "c" -> z]

(* An ephemeron table, an object to finalize and a string; closures over a *)
(* coroutine's local variable with a prototype that caches them; and heaps *)
(* of two objects (without a prototype no closure is made, the third slot  *)
(* stays free): tables of each mode with an object to finalize or with a   *)
(* string, and two objects to finalize.                                    *)
MCLayouts == {Heap("ephemeron", "udata", "string"), Heap("proto", "lclosure", "thread")}
             \cup {Heap(x, "udata", "lclosure") : x \in Tables \cup {"udata"}}
             \cup {Heap(x, "string", "lclosure") : x \in Tables}
=============================================================================
