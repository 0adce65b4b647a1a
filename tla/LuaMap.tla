------------------------------- MODULE LuaMap -------------------------------
(***************************************************************************)
(* What a Lua table promises: a map from keys to values in which every key *)
(* that was never assigned is nil, and a traversal with next that visits   *)
(* each field exactly once, provided that during the traversal no value is *)
(* assigned to a field that does not exist.  Where memory runs out an      *)
(* assignment has no effect, or else integer keys are forgotten and        *)
(* nothing is promised of the table from then on.                          *)
(***************************************************************************)
EXTENDS Sequences, Functions

CONSTANTS Keys, Values, Nil,
          Indices   \* the keys that are integers

VARIABLES map,      \* the contents
          cursor,   \* the key next was last called with, or "off", "start"
          visited,  \* the keys the traversal has returned
          whole     \* no key was forgotten

mvars == <<map, cursor, visited, whole>>

Fields == {k \in Keys : map[k] # Nil}

MapInit ==
    map = [k \in Keys |-> Nil] /\ cursor = "off" /\ visited = <<>> /\ whole = TRUE

Assign(k, v) ==
    /\ cursor = "off" \/ k \in Fields
    /\ map' = [map EXCEPT ![k] = v]
    /\ UNCHANGED <<cursor, visited, whole>>

Forget(ks) ==
    /\ cursor = "off" /\ map' = [k \in Keys |-> IF k \in ks THEN Nil ELSE map[k]]
    /\ whole' = FALSE
    /\ UNCHANGED <<cursor, visited>>

Begin == /\ cursor = "off" /\ cursor' = "start" /\ visited' = <<>>
         /\ UNCHANGED <<map, whole>>

Visit(k) == /\ cursor # "off"
            /\ k \in Fields \ Range(visited)
            /\ cursor' = "at" /\ visited' = Append(visited, k)
            /\ UNCHANGED <<map, whole>>

End == /\ cursor # "off" /\ Fields \subseteq Range(visited)
       /\ cursor' = "off" /\ visited' = <<>>
       /\ UNCHANGED <<map, whole>>

MapNext == \/ \E k \in Keys, v \in Values \cup {Nil} : Assign(k, v)
           \/ \E ks \in SUBSET Indices : Forget(ks)
           \/ Begin \/ End \/ \E k \in Keys : Visit(k)

MapSpec == MapInit /\ [][MapNext]_mvars
=============================================================================
