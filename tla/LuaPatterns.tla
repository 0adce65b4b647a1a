---------------------------- MODULE LuaPatterns -----------------------------
(***************************************************************************)
(* What a pattern means, stated without a matcher: a pattern is a sequence *)
(* of items, and at a place of the subject it has a list of outcomes, the  *)
(* preferred one first.  Nothing is undone because nothing is changed.     *)
(* LuaText compares the matcher of lua/lstrlib.c with this.                *)
(***************************************************************************)
EXTENDS LuaChars, SequencesExt

CONSTANTS
  LUA_MAXCAPTURES,   \* a pattern has no more captures than this
  MaxErrors          \* a script gives up on an iterator after so many errors

Alphabet == 0..127

-----------------------------------------------------------------------------
(* Items.                                                                  *)

(* The class %cl; a letter in upper case is the complement.                *)
Class(cl) ==
  LET of == [c \in {97, 99, 100, 103, 108, 112, 115, 117, 119, 120, 122} |->
              CASE c = 97 -> {x \in Alphabet : isalpha(x)}
                [] c = 99 -> {x \in Alphabet : iscntrl(x)}
                [] c = 100 -> {x \in Alphabet : isdigit(x)}
                [] c = 103 -> {x \in Alphabet : isgraph(x)}
                [] c = 108 -> {x \in Alphabet : islower(x)}
                [] c = 112 -> {x \in Alphabet : ispunct(x)}
                [] c = 115 -> {x \in Alphabet : isspace(x)}
                [] c = 117 -> {x \in Alphabet : isupper(x)}
                [] c = 119 -> {x \in Alphabet : isalnum(x)}
                [] c = 120 -> {x \in Alphabet : isxdigit(x)}
                [] c = 122 -> {NUL}]
  IN  IF cl \in DOMAIN of THEN of[cl]
      ELSE IF isupper(cl) /\ tolower(cl) \in DOMAIN of
      THEN Alphabet \ of[tolower(cl)]
      ELSE {cl}

Malformed(why) == [item |-> [kind |-> "error", why |-> why], next |-> 0]

(* The elements of a set up to its closing bracket, and what follows it.   *)
RECURSIVE Elements(_, _, _)
Elements(pat, i, first) ==
  LET More(set, j) == LET rest == Elements(pat, j, FALSE)
                      IN  [rest EXCEPT !.set = @ \cup set] IN
  CASE i > Len(pat) -> [set |-> {}, next |-> 0]
    [] i <= Len(pat) /\ ~first /\ pat[i] = Code["]"] ->
         [set |-> {}, next |-> i + 1]
    [] i <= Len(pat) /\ pat[i] = Code["%"] -> More(Class(At(pat, i + 1)), i + 2)
    [] i + 2 <= Len(pat) /\ pat[i + 1] = Code["-"] /\ pat[i + 2] # Code["]"] ->
         More(pat[i]..pat[i + 2], i + 3)
    [] OTHER -> More({pat[i]}, i + 1)

(* The characters the single-character class at p stands for; next is 0 if *)
(* the pattern ends before the class does.                                 *)
SetAt(pat, p) ==
  CASE pat[p] = Code["%"] ->
         [set |-> Class(At(pat, p + 1)),
          next |-> IF p = Len(pat) THEN 0 ELSE p + 2]
    [] pat[p] = Code["["] /\ At(pat, p + 1) = Code["^"] ->
         LET e == Elements(pat, p + 2, TRUE) IN [e EXCEPT !.set = Alphabet \ @]
    [] pat[p] = Code["["] /\ At(pat, p + 1) # Code["^"] ->
         Elements(pat, p + 1, TRUE)
    [] pat[p] = Code["."] -> [set |-> Alphabet, next |-> p + 1]
    [] OTHER -> [set |-> {pat[p]}, next |-> p + 1]

SingleAt(pat, p) ==
  LET c == SetAt(pat, p)
      suffix == CASE At(pat, c.next) = Code["*"] -> "*"
                  [] At(pat, c.next) = Code["+"] -> "+"
                  [] At(pat, c.next) = Code["-"] -> "-"
                  [] At(pat, c.next) = Code["?"] -> "?"
                  [] OTHER -> "" IN
  IF c.next = 0 THEN Malformed("malformed pattern")
  ELSE [item |-> [kind |-> "single", set |-> c.set, suffix |-> suffix],
        next |-> IF suffix = "" THEN c.next ELSE c.next + 1]

EscapeAt(pat, p) ==
  LET c == At(pat, p + 1) IN
  CASE c = Code["b"] ->
         IF p + 3 > Len(pat) THEN Malformed("missing arguments to '%b'")
         ELSE [item |-> [kind |-> "balance", b |-> pat[p + 2], e |-> pat[p + 3]],
               next |-> p + 4]
    [] c = Code["f"] ->
         IF At(pat, p + 2) # Code["["] THEN Malformed("missing '[' after '%f'")
         ELSE LET set == SetAt(pat, p + 2) IN
              IF set.next = 0 THEN Malformed("malformed pattern")
              ELSE [item |-> [kind |-> "frontier", set |-> set.set],
                    next |-> set.next]
    [] isdigit(c) -> [item |-> [kind |-> "ref", n |-> c - 48], next |-> p + 2]
    [] OTHER -> SingleAt(pat, p)

ItemAt(pat, p) ==
  CASE pat[p] = Code["("] /\ At(pat, p + 1) = Code[")"] ->
         [item |-> [kind |-> "position"], next |-> p + 2]
    [] pat[p] = Code["("] /\ At(pat, p + 1) # Code[")"] ->
         [item |-> [kind |-> "open"], next |-> p + 1]
    [] pat[p] = Code[")"] -> [item |-> [kind |-> "close"], next |-> p + 1]
    [] pat[p] = Code["$"] /\ p = Len(pat) ->
         [item |-> [kind |-> "end"], next |-> p + 1]
    [] pat[p] = Code["%"] -> EscapeAt(pat, p)
    [] OTHER -> SingleAt(pat, p)

(* A malformed item is the last one: nothing behind it is looked at.       *)
RECURSIVE Items(_, _)
Items(pat, p) ==
  IF p > Len(pat) THEN <<>>
  ELSE LET i == ItemAt(pat, p)
       IN  <<i.item>> \o (IF i.next = 0 THEN <<>> ELSE Items(pat, i.next))

-----------------------------------------------------------------------------
(* Outcomes.  A capture is open, a text or a position.                     *)

Capture(kind, b, e) == [kind |-> kind, b |-> b, e |-> e]

Open(caps) == {i \in DOMAIN caps : caps[i].kind = "open"}

(* The end of the balanced string that begins at s: closing characters     *)
(* have caught up with opening ones for the first time.                    *)
Balanced(src, s, b, e) ==
  LET Count(c, t) == Cardinality({i \in s + 1..t - 1 : src[i] = c})
      opened(t) == IF b = e THEN 0 ELSE Count(b, t) IN
  {t \in s + 2..Len(src) + 1 :
     /\ Count(e, t) = opened(t) + 1
     /\ \A u \in s + 2..t - 1 : Count(e, u) # opened(u) + 1}

RECURSIVE Outcomes(_, _, _, _, _)
RECURSIVE OutcomesFrom(_, _, _, _, _)

(* The outcomes from every place of ts, in this order.                     *)
OutcomesFrom(items, k, src, ts, caps) ==
  IF ts = <<>> THEN <<>>
  ELSE Outcomes(items, k, src, Head(ts), caps)
         \o OutcomesFrom(items, k, src, Tail(ts), caps)

Outcomes(items, k, src, s, caps) ==
  LET it == items[k]
      Rest(t, cs) == Outcomes(items, k + 1, src, t, cs)
      Fails == <<>>
      Raise(why) == <<[at |-> 0, caps |-> caps, err |-> why]>>
      \* the places where a repetition of the set that begins at s may end
      reach == {t \in s..Len(src) + 1 : \A i \in s..t - 1 : src[i] \in it.set}
      up == SetToSortSeq(reach, LAMBDA x, y : x < y)
      down == SetToSortSeq(reach, LAMBDA x, y : x > y)
      Each(ts) == OutcomesFrom(items, k + 1, src, ts, caps) IN
  IF k > Len(items) THEN <<[at |-> s, caps |-> caps, err |-> ""]>>
  ELSE CASE it.kind = "error" -> Raise(it.why)
         [] it.kind \in {"open", "position"} ->
              IF Len(caps) = LUA_MAXCAPTURES THEN Raise("too many captures")
              ELSE Rest(s, Append(caps, Capture(it.kind, s, s)))
         [] it.kind = "close" ->
              IF Open(caps) = {} THEN Raise("invalid pattern capture")
              ELSE LET l == CHOOSE i \in Open(caps) : \A j \in Open(caps) : j <= i
                   IN  Rest(s, [caps EXCEPT ![l] = Capture("text", @.b, s)])
         [] it.kind = "end" ->
              IF s = Len(src) + 1 THEN Rest(s, caps) ELSE Fails
         [] it.kind = "balance" ->
              IF s > Len(src) \/ At(src, s) # it.b THEN Fails
              ELSE Each(SetToSeq(Balanced(src, s, it.b, it.e)))
         [] it.kind = "frontier" ->
              IF /\ (IF s = 1 THEN NUL ELSE src[s - 1]) \notin it.set
                 /\ At(src, s) \in it.set
              THEN Rest(s, caps) ELSE Fails
         [] it.kind = "ref" ->
              IF it.n \notin DOMAIN caps \ Open(caps)
              THEN Raise("invalid capture index")
              ELSE LET c == caps[it.n]
                       t == s + (c.e - c.b) IN
                   IF /\ c.kind = "text" /\ t <= Len(src) + 1
                      /\ SubSeq(src, s, t - 1) = SubSeq(src, c.b, c.e - 1)
                   THEN Rest(t, caps) ELSE Fails
         [] it.kind = "single" /\ it.suffix = "" ->
              IF s + 1 \in reach THEN Rest(s + 1, caps) ELSE Fails
         [] it.kind = "single" /\ it.suffix = "*" -> Each(down)
         [] it.kind = "single" /\ it.suffix = "+" ->
              Each(SelectSeq(down, LAMBDA t : t > s))
         [] it.kind = "single" /\ it.suffix = "-" -> Each(up)
         [] it.kind = "single" /\ it.suffix = "?" ->
              Each(SelectSeq(down, LAMBDA t : t <= s + 1))

NoOutcome == [at |-> 0, caps |-> <<>>, err |-> ""]

(* The outcome at s: the preferred one.                                    *)
Outcome(items, src, s) ==
  With(Outcomes(items, 1, src, s, <<>>), LAMBDA all :
    IF all = <<>> THEN NoOutcome ELSE all[1])

-----------------------------------------------------------------------------
(* All matches of a subject, from the left: each begins where the one      *)
(* before ended or later, and does not end where that one ended.  The list *)
(* ends with an error if a place that is tried raises one.                 *)
RECURSIVE Matches(_, _, _, _, _)
Matches(items, src, s, last, anchored) ==
  With(Outcome(items, src, s), LAMBDA o :
    LET hit == <<[from |-> s, to |-> o.at, caps |-> o.caps, err |-> o.err]>> IN
    CASE o.err # "" -> hit
      [] o.err = "" /\ o.at \notin {0, last} ->
           hit \o (IF anchored THEN <<>> ELSE Matches(items, src, o.at, o.at, FALSE))
      [] OTHER -> IF anchored \/ s > Len(src) THEN <<>>
                  ELSE Matches(items, src, s + 1, last, FALSE))

(* The values a match yields: its captures, or all of it if it has none.   *)
Value(src, c) ==
  CASE c.kind = "open" -> [error |-> "unfinished capture"]
    [] c.kind = "position" -> [position |-> c.b]
    [] c.kind = "text" -> [string |-> SubSeq(src, c.b, c.e - 1)]

Captures(src, hit) ==
  IF Open(hit.caps) # {} THEN <<[error |-> "unfinished capture"]>>
  ELSE [i \in DOMAIN hit.caps |-> Value(src, hit.caps[i])]

Whole(src, hit) == <<[string |-> SubSeq(src, hit.from, hit.to - 1)]>>

-----------------------------------------------------------------------------
(* What a call c of find, match, gmatch or gsub returns.  A replacement    *)
(* string is also given as its pieces: a literal text, a capture or a bad  *)
(* escape.                                                                 *)

Raised(why) == [error |-> why]
IsRaised(v) == DOMAIN v = {"error"}
Nil == [nil |-> TRUE]
First(set) == CHOOSE i \in set : \A j \in set : i <= j

Anchored(c) == At(c.pat, 1) = Code["^"] /\ c.fn # "gmatch"
Body(c) == IF Anchored(c) THEN Tail(c.pat) ELSE c.pat

Hits(c, from) == With(Items(Body(c), 1), LAMBDA items :
                   Matches(items, c.src, from, 0, Anchored(c)))

(* The values of one match; find puts its place before the captures.       *)
Promised(c, hit) ==
  LET place == <<[position |-> hit.from], [position |-> hit.to - 1]>>
      cs == Captures(c.src, hit) IN
  CASE hit.err # "" -> <<Raised(hit.err)>>
    [] hit.err = "" /\ Open(hit.caps) # {} -> cs
    [] hit.err = "" /\ Open(hit.caps) = {} /\ c.fn = "find" -> place \o cs
    [] OTHER -> IF cs = <<>> THEN Whole(c.src, hit) ELSE cs

(* Without special characters find takes the pattern literally.            *)
Special == {Code[x] : x \in {"^", "$", "*", "+", "?", ".", "(", "[", "%", "-"}}

Literal(c) == [i \in DOMAIN c.pat |->
                 [kind |-> "single", set |-> {c.pat[i]}, suffix |-> ""]]

PromisedFind(c) ==
  LET place == IF c.init < 0 THEN Len(c.src) + 1 + c.init ELSE c.init
      from == IF place < 1 THEN 1 ELSE place
      literal == c.fn = "find" /\ (c.plain \/ Range(c.pat) \cap Special = {})
      places == {s \in from..Len(c.src) + 1 :
                   Outcomes(Literal(c), 1, c.src, s, <<>>) # <<>>}
      hits == Hits(c, from) IN
  CASE from > Len(c.src) + 1 -> <<Nil>>
    [] from <= Len(c.src) + 1 /\ literal ->
         IF places = {} THEN <<Nil>>
         ELSE <<[position |-> First(places)],
                [position |-> First(places) + Len(c.pat) - 1]>>
    [] OTHER -> IF hits = <<>> THEN <<Nil>> ELSE Promised(c, hits[1])

(* An iterator that has ended stays there, one for which the pattern is    *)
(* wrong raises the same error again.  A match that leaves a capture open  *)
(* is an error and a match: the iterator goes on behind it.                *)
PromisedGmatch(c) ==
  LET hits == Hits(c, 1)
      all == [i \in DOMAIN hits |-> Promised(c, hits[i])]
      wrong == hits # <<>> /\ hits[Len(hits)].err # "" IN
  all \o [i \in 1..MaxErrors |-> IF wrong THEN all[Len(all)] ELSE <<Nil>>]

AsText(v) == IF "position" \in DOMAIN v THEN <<Code["0"] + v.position>> ELSE v.string

(* What stands for a match in the result, or the error it raises.          *)
Replacement(c, hit) ==
  LET whole == Whole(c.src, hit)[1]
      vs == IF hit.caps = <<>> THEN <<whole>>
            ELSE [i \in DOMAIN hit.caps |-> Value(c.src, hit.caps[i])]
      Piece(p) ==
        CASE "literal" \in DOMAIN p -> [string |-> p.literal]
          [] "bad" \in DOMAIN p ->
               Raised("invalid use of '%' in replacement string")
          [] OTHER -> IF p.capture = 0 THEN whole
                      ELSE IF p.capture \in DOMAIN vs THEN vs[p.capture]
                      ELSE Raised("invalid capture index")
      pieces == [i \in DOMAIN c.repl.pieces |-> Piece(c.repl.pieces[i])]
      bad == {i \in DOMAIN pieces : IsRaised(pieces[i])}
      given == IF c.repl.type = "table" THEN vs[1]
               ELSE IF Open(hit.caps) # {} THEN Raised("unfinished capture")
               ELSE vs[Len(vs)] IN
  CASE hit.err # "" -> Raised(hit.err)
    [] hit.err = "" /\ c.repl.type = "string" ->
         IF bad # {} THEN pieces[First(bad)]
         ELSE [string |-> FlattenSeq([i \in DOMAIN pieces |-> AsText(pieces[i])])]
    [] OTHER -> CASE IsRaised(given) -> given
                  [] ~IsRaised(given) /\ c.repl.gives = "nil" -> whole
                  [] ~IsRaised(given) /\ c.repl.gives = "table" ->
                       Raised("invalid replacement value")
                  [] OTHER -> [string |-> AsText(given)]

(* The parts of the subject between the matches, and the replacements.     *)
PromisedGsub(c) ==
  LET all == Hits(c, 1)
      hits == SubSeq(all, 1, IF Len(all) < c.max THEN Len(all) ELSE c.max)
      rs == [i \in DOMAIN hits |-> Replacement(c, hits[i])]
      bad == {i \in DOMAIN rs : IsRaised(rs[i])}
      Between(i) == SubSeq(c.src, IF i = 1 THEN 1 ELSE hits[i - 1].to,
                           hits[i].from - 1)
      rest == IF hits = <<>> THEN c.src
              ELSE SubSeq(c.src, hits[Len(hits)].to, Len(c.src)) IN
  IF bad # {} THEN <<rs[First(bad)]>>
  ELSE <<[string |-> FlattenSeq([i \in DOMAIN hits |-> Between(i) \o rs[i].string])
                       \o rest],
         [count |-> Len(hits)]>>

(* A call with what it has to return and the number of items it matches.   *)
WithPromise(c) ==
  [f \in DOMAIN c \cup {"promised", "items"} |->
     CASE f = "items" -> Len(Items(Body(c), 1))
       [] f = "promised" ->
            (CASE c.fn \in {"find", "match"} -> <<PromisedFind(c)>>
               [] c.fn = "gmatch" -> PromisedGmatch(c)
               [] c.fn = "gsub" -> <<PromisedGsub(c)>>)
       [] OTHER -> c[f]]
=============================================================================
