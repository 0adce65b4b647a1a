------------------------------ MODULE LuaChunk ------------------------------
(***************************************************************************)
(* Precompiled chunks: string.dump (lua/ldump.c) writes a function as a    *)
(* stream, lua_load reads it back (lua/lundump.c, lua/lzio.c).             *)
(*                                                                         *)
(* The stream is a sequence of units, one for each variable or block that  *)
(* is written.  A read asks for a unit of the type it reads: it fails where*)
(* the stream has ended, and a unit of another type is misread, which is   *)
(* recorded.  Line numbers and local names are left out of the debug       *)
(* information; names of upvalues and of the source stand for it.          *)
(***************************************************************************)
EXTENDS Integers, Sequences, SequencesExt

CONSTANTS LongStrings,    \* strings longer than LUAI_MAXSHORTLEN
          HugeStrings     \* and those whose size takes more than a byte

LUAI_MAXSHORTLEN == 40
NoName == ""            \* for the NULL pointer to a string

(* A string is a sequence of pieces; Size is strlen. *)
Size(str) == CASE str \in HugeStrings -> 300
               [] str \in LongStrings -> LUAI_MAXSHORTLEN + 1
               [] OTHER -> Len(str)

----------------------------------------------------------------------------
(* ldump.c *)

Unit(type, v) == [type |-> type, v |-> v]
DumpByte(v) == <<Unit("byte", v)>>
DumpInt(v) == <<Unit("int", v)>>
DumpBlock(type, v) == IF v = <<>> THEN <<>> ELSE <<Unit(type, v)>>

(* A string is written with its size plus one; a size that does not fit a  *)
(* byte follows.                                                           *)
DumpString(str) ==
    LET size == Size(str) + 1
    IN  (IF size < 255 THEN DumpByte(size) ELSE DumpByte(255) \o <<Unit("size", size)>>)
        \o DumpBlock("chars", str)
DumpName(name) == IF name = NoName THEN DumpByte(0) ELSE DumpString(<<name>>)

DumpAll(seq, Dump(_)) == FoldLeft(LAMBDA out, x : out \o Dump(x), DumpInt(Len(seq)), seq)

DumpCode(f) == DumpInt(Len(f.code)) \o DumpBlock("code", f.code)

DumpConstant(o) ==
    DumpByte(o[1]) \o (CASE o[1] = "nil" -> <<>>
                         [] o[1] = "bool" -> DumpByte(o[2])
                         [] o[1] = "int" -> <<Unit("integer", o[2])>>
                         [] o[1] = "float" -> <<Unit("number", o[2])>>
                         [] o[1] = "str" -> DumpString(o[2]))
DumpConstants(f) == DumpAll(f.k, DumpConstant)

DumpUpvalue(d) == DumpByte(d.instack) \o DumpByte(d.idx)
DumpUpvalues(f) == DumpAll(f.up, DumpUpvalue)

DumpDebug(f, strip) == DumpAll(IF strip THEN <<>> ELSE f.up, LAMBDA d : DumpName(d.name))

RECURSIVE DumpFunction(_, _, _)
DumpFunction(f, psource, strip) ==
    DumpName(IF strip \/ f.source = psource THEN NoName ELSE f.source)
    \o DumpByte(f.numparams) \o DumpByte(f.is_vararg) \o DumpByte(f.maxstacksize)
    \o DumpCode(f) \o DumpConstants(f) \o DumpUpvalues(f)
    \o DumpAll(f.p, LAMBDA g : DumpFunction(g, f.source, strip))
    \o DumpDebug(f, strip)

Header == <<Unit("chars", "signature"), Unit("byte", "version"), Unit("chars", "data"),
            Unit("byte", "sizes"), Unit("integer", "LUAC_INT"), Unit("number", "LUAC_NUM")>>
DumpHeader == Header

LuaU_dump(f, strip) == DumpHeader \o DumpByte(Len(f.up)) \o DumpFunction(f, NoName, strip)

----------------------------------------------------------------------------
(* lundump.c.  r = [s, v]: the stream after the read, and what was read. *)

LoadBlock(s, type) ==
    LET u == s.in[s.i]
    IN  CASE s.err -> [s |-> s, v |-> 0]
          [] ~s.err /\ s.i > Len(s.in) -> [s |-> [s EXCEPT !.err = TRUE], v |-> 0]
          [] OTHER -> [s |-> [s EXCEPT !.i = @ + 1, !.bad = @ \/ u.type # type], v |-> u.v]
LoadByte(s) == LoadBlock(s, "byte")
LoadInt(s) == LoadBlock(s, "int")
LoadVector(s, type, n) == IF n = 0 THEN [s |-> s, v |-> <<>>] ELSE LoadBlock(s, type)

(* Short strings go through a buffer of fixed size, long ones are read     *)
(* into their final place.                                                 *)
LoadString(s) ==
    LET b == LoadByte(s)
        size == IF b.v = 255 THEN LoadBlock(b.s, "size") ELSE b
        r == LoadVector(size.s, "chars", size.v - 1)
        fits == size.v - 1 > LUAI_MAXSHORTLEN \/ Size(r.v) <= LUAI_MAXSHORTLEN
    IN  CASE size.v = 0 -> [s |-> size.s, v |-> <<NoName>>]
          [] size.v # 0 /\ r.s.err -> [r EXCEPT !.v = <<NoName>>]
          [] OTHER -> [r EXCEPT !.s.bad = @ \/ ~fits \/ Size(r.v) # size.v - 1]
LoadName(s) == LET r == LoadString(s) IN [r EXCEPT !.v = r.v[1]]

(* The number of items, then the items. *)
LoadAll(s, Load(_)) ==
    LET n == LoadInt(s)
    IN  FoldLeft(LAMBDA acc, j : LET r == Load(acc.s) IN [s |-> r.s, v |-> Append(acc.v, r.v)],
                 [s |-> n.s, v |-> <<>>], [j \in 1..n.v |-> j])

LoadCode(s) == LET n == LoadInt(s) IN LoadVector(n.s, "code", n.v)

LoadConstant(s) ==
    LET t == LoadByte(s)
    IN  IF t.s.err \/ t.v = "nil" THEN [t EXCEPT !.v = <<"nil", 0>>]
        ELSE LET r == CASE t.v = "bool" -> LoadByte(t.s)
                        [] t.v = "int" -> LoadBlock(t.s, "integer")
                        [] t.v = "float" -> LoadBlock(t.s, "number")
                        [] t.v = "str" -> LoadString(t.s)
             IN  [r EXCEPT !.v = <<t.v, r.v>>]

LoadUpvalue(s) ==
    LET instack == LoadByte(s)
        idx == LoadByte(instack.s)
    IN  [s |-> idx.s, v |-> [name |-> NoName, instack |-> instack.v, idx |-> idx.v]]

RECURSIVE LoadFunction(_, _)
LoadFunction(s, psource) ==
    LET name == LoadName(s)
        source == IF name.v = NoName THEN psource ELSE name.v
        np == LoadByte(name.s)
        va == LoadByte(np.s)
        mx == LoadByte(va.s)
        code == LoadCode(mx.s)
        k == LoadAll(code.s, LoadConstant)
        up == LoadAll(k.s, LoadUpvalue)
        p == LoadAll(up.s, LAMBDA t : LoadFunction(t, source))
        names == LoadAll(p.s, LoadName)
        named == [j \in DOMAIN up.v |->
                    IF j \in DOMAIN names.v THEN [up.v[j] EXCEPT !.name = names.v[j]] ELSE up.v[j]]
    IN  [s |-> names.s,
         v |-> [source |-> source, numparams |-> np.v, is_vararg |-> va.v, maxstacksize |-> mx.v,
                code |-> code.v, k |-> k.v, up |-> named, p |-> p.v]]

CheckUnit(s, u) ==
    LET r == LoadBlock(s, u.type)
    IN  IF r.s.err THEN r.s ELSE [r.s EXCEPT !.err = r.v # u.v]
CheckHeader(s) == FoldLeft(CheckUnit, s, Header)

LuaU_undump(stream) ==
    LET n == LoadByte(CheckHeader([in |-> stream, i |-> 1, err |-> FALSE, bad |-> FALSE]))
        f == LoadFunction(n.s, NoName)
    IN  [proto |-> f.v, err |-> f.s.err,
         bad |-> f.s.bad \/ (~f.s.err /\ (n.v # Len(f.v.up) \/ f.s.i # Len(stream) + 1))]
=============================================================================
