----------------------------- MODULE LuaStrings -----------------------------
(***************************************************************************)
(* string.find, match, gmatch and gsub (lua/lstrlib.c) on top of LuaMatch. *)
(* A script makes one call; the iterator that gmatch returns is called     *)
(* until it has ended twice or raised MaxErrors errors, each of which the  *)
(* script caught with pcall; and the loop of gsub, which runs the script's *)
(* own replacement function between two matches, takes one step per        *)
(* iteration.                                                              *)
(***************************************************************************)
EXTENDS LuaMatch

CONSTANT MaxErrors   \* bound: errors of an iterator that a script catches

VARIABLES
  call,        \* function, subject, pattern and the other arguments
  pc,          \* "idle", "call", "gmatch", "gsub" or "done"
  ms,          \* the MatchState
  src,         \* gm->src, or src of str_gsub
  lastmatch,   \* end of the last match, NULL before the first one
  out,         \* the luaL_Buffer of str_gsub
  n,           \* replacements made
  results      \* the values every call returned

stringVars == <<call, pc, ms, src, lastmatch, out, n, results>>

NoCall == [fn |-> "none"]

StringsInit(c) ==
  /\ call = c
  /\ pc = IF c = NoCall THEN "idle" ELSE "call"
  /\ ms = prepstate(<<>>, <<>>)
  /\ src = 1 /\ lastmatch = NULL
  /\ out = <<>> /\ n = 0
  /\ results = <<>>

nil == [nil |-> TRUE]

(* A call returns vs; an error ends the script.                            *)
Yields(vs) == results' = Append(results, vs)

Ends(vs) == Yields(vs) /\ pc' = "done"

Anchor == At(call.pat, 1) = Code["^"]
Unanchored == IF Anchor THEN Tail(call.pat) ELSE call.pat

(* A negative position counts from the end of the subject.                 *)
posrelat(pos, len) ==
  IF pos >= 0 THEN pos ELSE IF -pos > len THEN 0 ELSE len + pos + 1

-----------------------------------------------------------------------------
(* string.find and string.match.                                           *)

FindPlain(init) ==
  LET s2 == lmemfind(call.src, init, call.pat) IN
  IF s2 = NULL THEN <<nil>>
  ELSE <<[position |-> s2], [position |-> s2 + Len(call.pat) - 1]>>

Found(r, from, vs) ==
  CASE r.err # "" -> <<Error(r.err)>>
    [] Failed(r) -> <<nil>>
    [] r.err = "" /\ ~Failed(r) /\ call.fn = "match" -> vs
    [] OTHER -> IF vs # <<>> /\ IsError(vs[1]) THEN vs
                ELSE <<[position |-> from], [position |-> r.at - 1]>> \o vs

(* find passes NULL for the start of the match: only captures are pushed.  *)
FindPattern(found) ==
  Found(found.r, found.from,
        push_captures(found.r.ms,
                      IF call.fn = "find" THEN NULL ELSE found.from, found.r.at))

Find(init) ==
  IF init > Len(call.src) + 1 THEN <<nil>>
  ELSE IF call.fn = "find" /\ (call.plain \/ nospecials(call.pat))
       THEN FindPlain(init)
       ELSE With(Search(prepstate(call.src, Unanchored), init, NULL, Anchor),
                 FindPattern)

str_find_aux ==
  /\ pc = "call" /\ call.fn \in {"find", "match"}
  /\ LET pos == posrelat(call.init, Len(call.src))
     IN  Ends(Find(IF pos < 1 THEN 1 ELSE pos))
  /\ UNCHANGED <<call, ms, src, lastmatch, out, n>>

-----------------------------------------------------------------------------
(* string.gmatch.  A ^ is not an anchor here.                              *)
gmatch ==
  /\ pc = "call" /\ call.fn = "gmatch"
  /\ ms' = prepstate(call.src, call.pat)
  /\ src' = 1 /\ lastmatch' = NULL
  /\ pc' = "gmatch"
  /\ UNCHANGED <<call, out, n, results>>

(* The script does not call the iterator again after the answers rs.       *)
GivesUp(rs) ==
  \/ Cardinality({i \in DOMAIN rs : IsError(rs[i][1])}) = MaxErrors
  \/ Cardinality({i \in DOMAIN rs : rs[i] = <<nil>>}) = 2

Answers(vs) ==
  /\ Yields(vs)
  /\ pc' = IF GivesUp(results') THEN "done" ELSE "gmatch"

(* What the iterator makes of a search.  At an error and at the end of the *)
(* subject its position is left where it is; a match whose captures cannot *)
(* be pushed has moved it.                                                 *)
Iterate(r, vs) ==
  /\ ms' = r.ms
  /\ \/ r.err # "" /\ Answers(<<Error(r.err)>>) /\ UNCHANGED <<src, lastmatch>>
     \/ Failed(r) /\ Answers(<<nil>>) /\ UNCHANGED <<src, lastmatch>>
     \/ r.at # NULL /\ Answers(vs) /\ src' = r.at /\ lastmatch' = r.at

(* One call of the iterator.                                               *)
gmatch_aux ==
  /\ pc = "gmatch"
  /\ \E found \in {Search(ms, src, lastmatch, FALSE)} :
       Iterate(found.r, push_captures(found.r.ms, found.from, found.r.at))
  /\ UNCHANGED <<call, out, n>>

-----------------------------------------------------------------------------
(* string.gsub.                                                            *)

(* luaL_tolstring of a capture; a position below ten is one digit.         *)
tolstring(v) ==
  IF "position" \in DOMAIN v THEN <<Code["0"] + v.position>> ELSE v.string

(* A piece of the replacement in front of the others, or the error.        *)
Before(piece, more) ==
  IF IsError(piece) THEN piece
  ELSE IF IsError(more) THEN more
  ELSE [string |-> tolstring(piece) \o more.string]

(* The piece that begins with the escape character, of two characters.     *)
Escape(st, d, s, e) ==
  CASE d = L_ESC -> [string |-> <<L_ESC>>]
    [] d = Code["0"] -> [string |-> Text(st.src, s, e)]
    [] isdigit(d) /\ d # Code["0"] -> push_onecapture(st, d - Code["0"], s, e)
    [] OTHER -> Error("invalid use of '%' in replacement string")

RECURSIVE add_s(_, _, _, _)
add_s(st, news, s, e) ==
  IF news = <<>> THEN [string |-> <<>>]
  ELSE IF news[1] = L_ESC
  THEN Before(Escape(st, At(news, 2), s, e), add_s(st, SubSeq(news, 3, Len(news)), s, e))
  ELSE Before([string |-> <<news[1]>>], add_s(st, Tail(news), s, e))

(* The value a replacement function or table gives for its argument: the   *)
(* argument itself, nil, or something that is not a string.                *)
Gives(v) ==
  CASE IsError(v) \/ call.repl.gives = "argument" -> v
    [] ~IsError(v) /\ call.repl.gives = "nil" -> nil
    [] ~IsError(v) /\ call.repl.gives = "table" -> [table |-> TRUE]

(* The value v that stands for the text of the match.                      *)
Accepted(v, text) ==
  CASE IsError(v) -> v
    [] v = nil -> [string |-> text]    \* keep original text
    [] DOMAIN v = {"table"} -> Error("invalid replacement value")
    [] OTHER -> [string |-> tolstring(v)]

Last(vs) == vs[Len(vs)]

(* A function is passed all captures (it answers with the last one), a     *)
(* table is indexed with the first.                                        *)
add_value(st, s, e) ==
  CASE call.repl.type = "function" ->
         Accepted(Gives(Last(push_captures(st, s, e))), Text(st.src, s, e))
    [] call.repl.type = "table" ->
         Accepted(Gives(push_onecapture(st, 1, s, e)), Text(st.src, s, e))
    [] call.repl.type = "string" -> add_s(st, call.repl.text, s, e)

str_gsub ==
  /\ pc = "call" /\ call.fn = "gsub"
  /\ ms' = prepstate(call.src, Unanchored)
  /\ src' = 1 /\ lastmatch' = NULL
  /\ out' = <<>> /\ n' = 0
  /\ pc' = "gsub"
  /\ UNCHANGED <<call, results>>

(* luaL_pushresult: what is left of the subject is added.                  *)
Finish(buffer, from, count) ==
  Ends(<<[string |-> buffer \o SubSeq(call.src, from, Len(call.src))],
         [count |-> count]>>)

NewMatch(at) == at # NULL /\ at # lastmatch

(* A match: its replacement v goes to the buffer.                          *)
GsubReplace(r, v) ==
  /\ n' = n + 1
  /\ src' = r.at /\ lastmatch' = r.at
  /\ IF IsError(v)
     THEN Ends(<<v>>) /\ UNCHANGED out
     ELSE /\ out' = out \o v.string
          /\ IF Anchor THEN Finish(out', src', n') ELSE UNCHANGED <<pc, results>>

GsubSkip ==
  /\ out' = Append(out, ms.src[src])
  /\ src' = src + 1
  /\ IF Anchor THEN Finish(out', src', n) ELSE UNCHANGED <<pc, results>>
  /\ UNCHANGED <<lastmatch, n>>

(* An iteration in which match returned r.                                 *)
Iteration(r) ==
  /\ ms' = r.ms
  /\ \/ /\ r.err # ""
        /\ Ends(<<Error(r.err)>>) /\ UNCHANGED <<src, lastmatch, out, n>>
     \/ /\ r.err = "" /\ NewMatch(r.at)
        /\ GsubReplace(r, add_value(r.ms, src, r.at))
     \/ /\ r.err = "" /\ ~NewMatch(r.at) /\ src < src_end(ms)
        /\ GsubSkip
     \/ /\ r.err = "" /\ ~NewMatch(r.at) /\ src >= src_end(ms)
        /\ Finish(out, src, n) /\ UNCHANGED <<src, lastmatch, out, n>>

GsubLoop ==
  /\ pc = "gsub"
  /\ \/ n >= call.max /\ Finish(out, src, n)
        /\ UNCHANGED <<ms, src, lastmatch, out, n>>
     \/ n < call.max /\ \E r \in {match(reprepstate(ms), src, 1)} : Iteration(r)
  /\ UNCHANGED call

StringsNext == str_find_aux \/ gmatch \/ gmatch_aux \/ str_gsub \/ GsubLoop

-----------------------------------------------------------------------------
(* find, match, gmatch and gsub return what the pattern means, errors      *)
(* included, whatever branches the matcher tried and undid.  The budget of *)
(* recursion comes between: as long as no error was raised it does not     *)
(* leak from one attempt to the next (the assertion in reprepstate), and   *)
(* "pattern too complex" is raised only for a pattern with at least        *)
(* MAXCCALLS items.  An error that leaves an iterator of gmatch keeps the  *)
(* budget it had spent (the assertion fails), and later calls may use up   *)
(* the rest for any pattern; but that happens once, and otherwise every    *)
(* answer is the one the pattern promises at that place.                   *)
MatchesReference ==
  LET tooComplex == <<Error("pattern too complex")>>
      kept == SelectSeq(results, LAMBDA vs : vs # tooComplex)
      spent == {i \in DOMAIN results : results[i] = tooComplex} IN
  pc = "done" /\ call # NoCall =>
    /\ kept = SubSeq(call.promised, 1, Len(kept))
    /\ call.fn # "gmatch" => Len(results) = 1
    /\ Cardinality(spent) <= 1
    /\ \A i \in spent : \/ call.items >= MAXCCALLS
                         \/ \E j \in 1..i - 1 : IsError(results[j][1])
=============================================================================
