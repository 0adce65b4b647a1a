------------------------------ MODULE LuaTable ------------------------------
(***************************************************************************)
(* Lua tables (lua/ltable.c): an array part and a hash part with chained   *)
(* scatter and Brent's variation, the rehash that divides integer keys     *)
(* between them, traversal, the border that `#' returns, and the cache of  *)
(* absent metamethods (ltm.c) of a table used as a metatable.              *)
(*                                                                         *)
(* A key is <<type, n>>: an integer n, a float n/2, a string whose hash is *)
(* n, or a collectable object at address n.  The table t is a record: the  *)
(* array part is a sequence; node is a function on 0 .. size-1; next is an *)
(* offset relative to its node and 0 ends a chain; dummy tells that the    *)
(* hash part is the shared empty node; lastfree is a position; flags holds *)
(* the metamethods known to be absent, here of the one event TMName.       *)
(***************************************************************************)
EXTENDS Integers, Sequences, FiniteSets, FiniteSetsExt

CONSTANTS Keys,     \* the keys a program uses
          Values,   \* values other than nil
          MAXABITS, \* log2 of the largest array part
          MAXINT,   \* the largest C int
          TMName    \* the string key that names the metamethod

Nil == "nil"
NilKey == <<"nil", 0>>
Off == <<"off", 0>>

IntKey(n) == <<"int", n>>

ASSUME TableAssumption ==
    /\ MAXABITS \in Nat /\ MAXINT \in Nat
    /\ Keys \subseteq {"int", "flt", "str", "ptr"} \X Int
    /\ TMName \in Keys /\ TMName[1] = "str"
    /\ Nil \notin Values

VARIABLES t,        \* the table
          cursor,   \* the key of the traversal, NilKey at its start, or Off
          visited,  \* history: the keys the traversal has returned, in order
          shadowed  \* history: a resize that failed has left the array part
                    \* in front of keys of the hash part

vars == <<t, cursor, visited, shadowed>>

Sizenode(s) == Cardinality(DOMAIN s.node)
Sizearray(s) == Len(s.array)

EmptyNode == [key |-> NilKey, val |-> Nil, next |-> 0]

(* luaV_tointeger on a key: a float with an integral value is that integer. *)
Normal(k) == IF k[1] = "flt" /\ k[2] % 2 = 0 THEN IntKey(k[2] \div 2) ELSE k

HashPow2(s, n) == n % Sizenode(s)
HashMod(s, n) == n % (IF Sizenode(s) = 1 THEN 1 ELSE Sizenode(s) - 1)

MainPosition(s, k) ==
    IF k[1] \in {"int", "str"} THEN HashPow2(s, k[2]) ELSE HashMod(s, k[2])

ArrayIndex(k) == IF k[1] = "int" /\ 0 < k[2] /\ k[2] <= 2^MAXABITS THEN k[2] ELSE 0

(* The node where following next from node n stops: the first in stops, or *)
(* the end of the chain, which links to itself.                            *)
Until(s, n, stops) ==
    LET step == [m \in DOMAIN s.node |-> IF m \in stops THEN m ELSE m + s.node[m].next]
        at[i \in 0 .. Sizenode(s)] == IF i = 0 THEN n ELSE step[at[i - 1]]
    IN  at[Sizenode(s)]

(* The first node with a key in ks on the chain from node n, or -1. *)
Walk(s, n, ks) ==
    LET hits == {m \in DOMAIN s.node : s.node[m].key \in ks}
        end  == Until(s, n, hits)
    IN  IF end \in hits THEN end ELSE -1

Search(s, k, ks) == Walk(s, MainPosition(s, k), ks)

(* The node before node m on the chain from node n. *)
Before(s, n, m) == Until(s, n, {p \in DOMAIN s.node : p + s.node[p].next = m})

InArray(s, k) == ArrayIndex(k) # 0 /\ ArrayIndex(k) <= Sizearray(s)

LuaH_getint(s, n) ==
    IF n \in 1 .. Sizearray(s) THEN s.array[n]
    ELSE LET p == Search(s, IntKey(n), {IntKey(n)}) IN IF p = -1 THEN Nil ELSE s.node[p].val

GetGeneric(s, k) ==
    LET p == Search(s, k, {k}) IN IF p = -1 THEN Nil ELSE s.node[p].val

LuaH_get(s, key) ==
    LET k == Normal(key)
    IN  IF k[1] = "int" THEN LuaH_getint(s, k[2]) ELSE GetGeneric(s, k)

----------------------------------------------------------------------------
(* Rehash. *)

CeilLog2(x) == CHOOSE i \in 0 .. x : x <= 2^i /\ (i = 0 \/ 2^(i - 1) < x)

(* Integer keys with a value that could live in an array part. *)
IntKeysIn(s) ==
    {i \in 1 .. Sizearray(s) : s.array[i] # Nil}
      \cup {ArrayIndex(s.node[n].key) : n \in {m \in DOMAIN s.node :
               s.node[m].val # Nil /\ ArrayIndex(s.node[m].key) # 0}}

NumUseHash(s) == Cardinality({n \in DOMAIN s.node : s.node[n].val # Nil})
NumUseArray(s) == Cardinality({i \in 1 .. Sizearray(s) : s.array[i] # Nil})

(* The largest power of two such that more than half of the slots up to it *)
(* are in use; ints are the candidate keys.                                *)
ComputeSizes(ints) ==
    LET upto(n) == Cardinality({i \in ints : i <= n})
        slice(j) == {i \in ints : CeilLog2(i) = j}
        good == {2^j : j \in {j \in 0 .. MAXABITS :
                   /\ Cardinality(ints) > 2^j \div 2
                   /\ slice(j) # {}
                   /\ upto(2^j) > 2^j \div 2}}
    IN  IF good = {} THEN 0 ELSE Max(good)

SetNodeVector(s, size) ==
    IF size = 0 THEN [s EXCEPT !.node = [n \in 0 .. 0 |-> EmptyNode],
                               !.dummy = TRUE, !.lastfree = 0]
    ELSE LET n == 2^CeilLog2(size)
         IN  [s EXCEPT !.node = [i \in 0 .. n - 1 |-> EmptyNode],
                       !.dummy = FALSE, !.lastfree = n]

(* The position getfreepos returns, or -1. *)
GetFreePos(s) ==
    LET free == {n \in 0 .. s.lastfree - 1 : s.node[n].key = NilKey}
    IN  IF free = {} THEN -1 ELSE Max(free)

(* Where a value is stored in place. *)
Has(s, k) == InArray(s, k) \/ Search(s, k, {k}) # -1

SetSlot(s, k, v) ==
    IF InArray(s, k) THEN [s EXCEPT !.array[ArrayIndex(k)] = v]
    ELSE [s EXCEPT !.node[Search(s, k, {k})].val = v]

(* The main position of a new key is taken; no free node is left for it. *)
Taken(s, k) == s.node[MainPosition(s, k)].val # Nil \/ s.dummy
Full(s, k) == Taken(s, k) /\ GetFreePos(s) = -1

(* Fault: a colliding node is moved and its chain not told. *)
InsertKeyUnlinked(s, k, v) ==
    LET mp == MainPosition(s, k)
        f  == GetFreePos(s)
        at == s.node[mp]
    IN  IF ~Taken(s, k) THEN [s EXCEPT !.node[mp] = [@ EXCEPT !.key = k, !.val = v]]
        ELSE [s EXCEPT !.lastfree = f,
                       !.node[f] = [at EXCEPT !.next = 0],
                       !.node[mp] = [key |-> k, val |-> v, next |-> 0]]

(* luaH_newkey where a node is left, and the store of the value that       *)
(* follows every call of it.  A main position without a value is taken     *)
(* over with its place in a chain.                                         *)
InsertKey(s, k, v) ==
    LET mp == MainPosition(s, k)
        f  == GetFreePos(s)
        at == s.node[mp]
        othern == MainPosition(s, at.key)
        prev == Before(s, othern, mp)
    IN  CASE ~Taken(s, k) ->
               [s EXCEPT !.node[mp] = [key |-> k, val |-> v, next |-> at.next]]
          [] Taken(s, k) /\ f # -1 /\ othern # mp ->
               [s EXCEPT !.lastfree = f,
                         !.node[prev].next = f - prev,
                         !.node[f] = [at EXCEPT !.next = IF @ = 0 THEN 0 ELSE @ + (mp - f)],
                         !.node[mp] = [key |-> k, val |-> v, next |-> 0]]
          [] Taken(s, k) /\ f # -1 /\ othern = mp ->
               [s EXCEPT !.lastfree = f,
                         !.node[f] = [key |-> k, val |-> v,
                                      next |-> IF at.next = 0 THEN @.next ELSE (mp + at.next) - f],
                         !.node[mp].next = f - mp]

(* luaH_set in a table with a node left for the key, as a resize leaves it. *)
Put(s, k, v) == IF Has(s, k) THEN SetSlot(s, k, v) ELSE InsertKey(s, k, v)

(* What luaH_resize inserts again: the vanishing slice of the array part,  *)
(* then the nodes from the last to the first.                              *)
Vanishing(s, nasize) == IF Sizearray(s) > nasize THEN Sizearray(s) - nasize ELSE 0

Item(s, nasize, i) ==
    LET gone == Vanishing(s, nasize)
        n    == s.node[gone + Sizenode(s) - i]
    IN  IF i <= gone THEN [key |-> IntKey(nasize + i), val |-> s.array[nasize + i]]
        ELSE [key |-> n.key, val |-> n.val]

SetArrayVector(s, size) ==
    [s EXCEPT !.array = [i \in 1 .. size |-> IF i <= Sizearray(s) THEN s.array[i] ELSE Nil]]

Emptied(s, nasize, nhsize) == SetNodeVector(SetArrayVector(s, nasize), nhsize)

PutItem(r, item) == IF item.val = Nil THEN r ELSE Put(r, item.key, item.val)

LuaH_resize(s, nasize, nhsize) ==
    LET count == Vanishing(s, nasize) + Sizenode(s)
        r[i \in 0 .. count] == IF i = 0 THEN Emptied(s, nasize, nhsize)
                               ELSE PutItem(r[i - 1], Item(s, nasize, i))
    IN  r[count]

(* What luaH_resize leaves when it throws for want of memory (a hash part  *)
(* that would be too large throws at the same place): the table as it was, *)
(* or with an array part that has grown in front of the old nodes.  What   *)
(* is inserted again has room and cannot fail.                             *)
ResizeFails(s, nasize, nhsize) ==
    (IF nasize > Sizearray(s) \/ nhsize > 0 THEN {s} ELSE {})
      \cup (IF nasize > Sizearray(s) /\ nhsize > 0 THEN {SetArrayVector(s, nasize)} ELSE {})

(* A key of the hash part that lookups, which try the array part first, no *)
(* longer find.                                                            *)
Shadows(s) == \E n \in DOMAIN s.node : InArray(s, s.node[n].key)

(* The sizes that rehash asks of luaH_resize for the extra key ek. *)
NewArraySize(s, ek) == ComputeSizes(IntKeysIn(s) \cup ({ArrayIndex(ek)} \ {0}))

NewHashSize(s, ek) ==
    LET ints == IntKeysIn(s) \cup ({ArrayIndex(ek)} \ {0})
    IN  (NumUseArray(s) + NumUseHash(s) + 1)
          - Cardinality({i \in ints : i <= NewArraySize(s, ek)})

Rehash(s, ek) == LuaH_resize(s, NewArraySize(s, ek), NewHashSize(s, ek))

LuaH_newkey(s, k, v) ==
    IF Full(s, k) THEN Put(Rehash([s EXCEPT !.lastfree = 0], k), k, v)
    ELSE InsertKey(s, k, v)

LuaH_set(s, key, v) ==
    LET k == Normal(key)
    IN  IF Has(s, k) THEN SetSlot(s, k, v) ELSE LuaH_newkey(s, k, v)

----------------------------------------------------------------------------
(* The border of a table. *)

(* i is zero or present, j is absent: every step halves what is between. *)
Halve(s, p) ==
    LET m == (p[1] + p[2]) \div 2
    IN  CASE p[2] - p[1] <= 1 -> p
          [] p[2] - p[1] > 1 /\ LuaH_getint(s, m) = Nil -> <<p[1], m>>
          [] OTHER -> <<m, p[2]>>

BinSearch(s, i, j) ==
    LET b[n \in 0 .. j - i] == IF n = 0 THEN <<i, j>> ELSE Halve(s, b[n - 1])
    IN  b[j - i][1]

(* From the last index of the array part the indices j0 + 1, doubled while *)
(* they are present; past half of the largest int a linear search instead. *)
Unbound_search(s, j0) ==
    LET J(n) == (j0 + 1) * 2^n
        n    == Min({m \in 0 .. MAXINT : LuaH_getint(s, J(m)) = Nil \/ J(m) > MAXINT \div 2})
        absent == {i \in 1 .. Sizearray(s) + Sizenode(s) + 1 : LuaH_getint(s, i) = Nil}
    IN  CASE LuaH_getint(s, J(n)) # Nil -> Min(absent) - 1
          [] LuaH_getint(s, J(n)) = Nil /\ n = 0 -> j0
          [] OTHER -> BinSearch(s, J(n - 1), J(n))

(* Fault: an array part is taken to be full. *)
LuaH_getnFull(s) ==
    IF s.dummy THEN Sizearray(s) ELSE Unbound_search(s, Sizearray(s))

LuaH_getn(s) ==
    LET j == Sizearray(s)
    IN  CASE j > 0 /\ s.array[j] = Nil -> BinSearch(s, 0, j)
          [] (j = 0 \/ s.array[j] # Nil) /\ s.dummy -> j
          [] OTHER -> Unbound_search(s, j)

----------------------------------------------------------------------------
(* Traversal.  A dead key still marks the place of its entry. *)

DeadKey(k) == <<"dead", k[2]>>

(* Fault: a key that died during the traversal is not recognised. *)
FindIndexLive(s, k) ==
    CASE k = NilKey -> 0
      [] k # NilKey /\ InArray(s, k) -> ArrayIndex(k)
      [] OTHER -> Search(s, k, {k}) + 1 + Sizearray(s)

FindIndex(s, k) ==
    CASE k = NilKey -> 0
      [] k # NilKey /\ InArray(s, k) -> ArrayIndex(k)
      [] OTHER -> Search(s, k, {k} \cup (IF k[1] = "ptr" THEN {DeadKey(k)} ELSE {}))
                    + 1 + Sizearray(s)

(* Entries in the order of luaH_next. *)
Entry(s, i) ==
    IF i <= Sizearray(s) THEN [key |-> IntKey(i), val |-> s.array[i]]
    ELSE LET n == s.node[i - Sizearray(s) - 1] IN [key |-> n.key, val |-> n.val]

(* The next key with a value, or NilKey. *)
LuaH_next(s, k) ==
    LET later == {i \in FindIndex(s, k) + 1 .. Sizearray(s) + Sizenode(s) : Entry(s, i).val # Nil}
    IN  IF later = {} THEN NilKey ELSE Entry(s, Min(later)).key

----------------------------------------------------------------------------
(* Operations. *)

(* Programs assign to existing fields only during a traversal.  A table    *)
(* with keys that are shadowed is followed no further.                     *)
MayAssign(k) == ~shadowed /\ (cursor = Off \/ LuaH_get(t, k) # Nil)

(* t[k] = v by the virtual machine: the fast path for an existing field    *)
(* leaves the cache of absent metamethods alone.                           *)
LuaV_settable(k, v) ==
    /\ MayAssign(k)
    /\ t' = IF LuaH_get(t, k) # Nil THEN LuaH_set(t, k, v)
            ELSE [LuaH_set(t, k, v) EXCEPT !.flags = FALSE]
    /\ UNCHANGED <<cursor, visited, shadowed>>

(* Fault: rawset forgets the cache of absent metamethods. *)
Lua_rawsetStale(k, v) ==
    /\ MayAssign(k)
    /\ t' = LuaH_set(t, k, v)
    /\ UNCHANGED <<cursor, visited, shadowed>>

Lua_rawset(k, v) ==
    /\ MayAssign(k)
    /\ t' = [LuaH_set(t, k, v) EXCEPT !.flags = FALSE]
    /\ UNCHANGED <<cursor, visited, shadowed>>

(* An assignment, by the virtual machine or rawset, of a new key for which *)
(* rehash finds no memory, also after an emergency collection.  The error  *)
(* leaves before the value is stored and the cache is invalidated, and     *)
(* getfreepos has passed every node.                                       *)
LuaH_newkeyFails(key) ==
    LET k == Normal(key)
        s == [t EXCEPT !.lastfree = 0]
    IN  /\ ~shadowed /\ cursor = Off
        /\ ~Has(t, k) /\ Full(t, k)
        /\ t' \in ResizeFails(s, NewArraySize(s, k), NewHashSize(s, k))
        /\ shadowed' = Shadows(t')
        /\ UNCHANGED <<cursor, visited>>

(* OP_SETLIST: the array part grows to hold the items of a constructor.    *)
(* When it fails nothing refers to the table of the constructor.           *)
LuaH_resizearray(n) ==
    /\ ~shadowed /\ cursor = Off /\ n > Sizearray(t)
    /\ t' = LuaH_resize(t, n, IF t.dummy THEN 0 ELSE Sizenode(t))
    /\ UNCHANGED <<cursor, visited, shadowed>>

(* luaT_gettm: a metamethod that is absent is not looked up again. *)
LuaT_gettm ==
    /\ ~shadowed /\ ~t.flags /\ GetGeneric(t, TMName) = Nil
    /\ t' = [t EXCEPT !.flags = TRUE]
    /\ UNCHANGED <<cursor, visited, shadowed>>

(* The collector finds an empty entry whose key is garbage (lgc.c). *)
RemoveEntry(n) ==
    /\ ~shadowed /\ t.node[n].val = Nil /\ t.node[n].key[1] = "ptr"
    /\ t' = [t EXCEPT !.node[n].key = DeadKey(@)]
    /\ UNCHANGED <<cursor, visited, shadowed>>

StartTraversal ==
    /\ ~shadowed /\ cursor = Off
    /\ cursor' = NilKey /\ UNCHANGED <<t, visited, shadowed>>

Next1 ==
    /\ ~shadowed /\ cursor # Off
    /\ LET k == LuaH_next(t, cursor)
       IN  IF k = NilKey THEN cursor' = Off /\ visited' = <<>>
           ELSE cursor' = k /\ visited' = Append(visited, k)
    /\ UNCHANGED <<t, shadowed>>

(* Bound: nothing is said of what becomes of a table with shadowed keys.   *)
Abandoned == shadowed /\ UNCHANGED vars

Init ==
    /\ t = SetNodeVector([array |-> <<>>, node |-> <<>>, dummy |-> TRUE,
                          lastfree |-> 0, flags |-> TRUE], 0)
    /\ cursor = Off /\ visited = <<>> /\ shadowed = FALSE

Next ==
    \/ \E k \in Keys, v \in Values \cup {Nil} : LuaV_settable(k, v) \/ Lua_rawset(k, v)
    \/ \E k \in Keys : LuaH_newkeyFails(k)
    \/ \E n \in 1 .. 2^MAXABITS : LuaH_resizearray(n)
    \/ \E n \in DOMAIN t.node : RemoveEntry(n)
    \/ LuaT_gettm \/ StartTraversal \/ Next1 \/ Abandoned

Spec == Init /\ [][Next]_vars

----------------------------------------------------------------------------
(* Properties. *)

NormalKeys == {Normal(k) : k \in Keys}

(* The table implements the map that the language promises: an assignment  *)
(* changes one field whatever it rehashes, chains or moves, and next       *)
(* returns every field once, also when fields are cleared or the collector *)
(* kills their keys on the way (luaH_set, rehash, luaH_next).  For want of *)
(* memory it changes none, or, where luaH_resize throws between its two    *)
(* allocations, at most integer fields are lost and the promise ends.      *)
Map == INSTANCE LuaMap WITH
          Keys <- NormalKeys, Values <- Values, Nil <- Nil,
          Indices <- {k \in NormalKeys : k[1] = "int"},
          map <- [k \in NormalKeys |-> LuaH_get(t, k)],
          cursor <- CASE cursor = Off -> "off" [] cursor = NilKey -> "start" [] OTHER -> "at",
          visited <- visited,
          whole <- ~shadowed

ImplementsMap == Map!MapSpec

(* ltable.c 629-632: what luaH_getn returns is a border: the element there *)
(* is not nil (or it is zero) and the next one is nil; also after errors   *)
(* that shadow no key.                                                     *)
LengthIsBorder ==
    LET n == LuaH_getn(t)
    IN  ~shadowed => (n = 0 \/ LuaH_getint(t, n) # Nil) /\ LuaH_getint(t, n + 1) = Nil

(* Every chain ends, every node with a value is found from its key's main *)
(* position, and no other node or array slot holds the same key: what      *)
(* makes it safe to move a colliding node (luaH_newkey walks its chain     *)
(* without a bound).  An error of luaH_resize that shadows no key keeps it. *)
ChainsSound ==
    ~shadowed => \A n \in DOMAIN t.node :
        /\ t.node[Until(t, n, {})].next = 0
        /\ t.node[n].val # Nil =>
              /\ Search(t, t.node[n].key, {t.node[n].key}) = n
              /\ ~InArray(t, t.node[n].key)

(* ltm.h gfasttm: a metamethod flagged as absent is absent.                *)
AbsentMetamethods == t.flags => GetGeneric(t, TMName) = Nil
=============================================================================
