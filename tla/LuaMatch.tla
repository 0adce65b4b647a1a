------------------------------ MODULE LuaMatch ------------------------------
(***************************************************************************)
(* Pattern matching of the string library (lua/lstrlib.c): a backtracking  *)
(* matcher that keeps its captures and its recursion budget in one         *)
(* MatchState and undoes what a failed branch did to them.                 *)
(*                                                                         *)
(* A position is the index of a character; NULL is 0.  A function that may *)
(* raise an error returns the record [at, ms, err]; err is "" or what      *)
(* luaL_error was called for, and then the rest of the caller is skipped.  *)
(***************************************************************************)
EXTENDS LuaChars

CONSTANTS
  MAXCCALLS,         \* recursion budget of match (200 in the source)
  LUA_MAXCAPTURES    \* size of the capture array (32 in the source)

ASSUME MatchAssumption == MAXCCALLS \in Nat \ {0} /\ LUA_MAXCAPTURES \in Nat

NULL == 0
CAP_UNFINISHED == -1
CAP_POSITION == -2
L_ESC == Code["%"]
SPECIALS == {Code[c] : c \in {"^", "$", "*", "+", "?", ".", "(", "[", "%", "-"}}

src_end(ms) == Len(ms.src) + 1
p_end(ms) == Len(ms.pat) + 1
Level(ms) == Len(ms.capture)

Returns(ms, at) == [at |-> at, ms |-> ms, err |-> ""]
Raises(ms, why) == [at |-> NULL, ms |-> ms, err |-> why]
Failed(r) == r.at = NULL /\ r.err = ""

prepstate(s, p) ==
  [src |-> s, pat |-> p, matchdepth |-> MAXCCALLS, capture |-> <<>>]

(* The assertion that matchdepth is MAXCCALLS again holds until an error   *)
(* leaves an iterator of gmatch: see MatchesReference.                     *)
reprepstate(ms) == [ms EXCEPT !.capture = <<>>]

-----------------------------------------------------------------------------
(* Captures.                                                               *)

(* The capture the digit l stands for, NULL if there is no such capture.   *)
check_capture(ms, l) ==
  LET i == l - Code["0"] IN
  IF i \in DOMAIN ms.capture /\ ms.capture[i].len # CAP_UNFINISHED
  THEN i ELSE NULL

capture_to_close(ms) ==
  LET open == {i \in DOMAIN ms.capture : ms.capture[i].len = CAP_UNFINISHED}
  IN  IF open = {} THEN NULL ELSE CHOOSE i \in open : \A j \in open : j <= i

(* len is converted to size_t: a position capture is longer than anything. *)
match_capture(ms, s, l) ==
  LET i == check_capture(ms, l)
      c == ms.capture[i] IN
  IF i = NULL THEN Raises(ms, "invalid capture index")
  ELSE IF /\ c.len # CAP_POSITION
          /\ src_end(ms) - s >= c.len
          /\ \A k \in 0..c.len - 1 : ms.src[c.init + k] = ms.src[s + k]
       THEN Returns(ms, s + c.len)
       ELSE Returns(ms, NULL)

-----------------------------------------------------------------------------
(* Single characters.                                                      *)

RECURSIVE BracketEnd(_, _)
BracketEnd(pat, i) ==
  IF i = Len(pat) + 1 THEN NULL    \* missing ]
  ELSE LET j == IF pat[i] = L_ESC /\ i < Len(pat) THEN i + 2 ELSE i + 1
       IN  IF At(pat, j) = Code["]"] THEN j + 1 ELSE BracketEnd(pat, j)

(* The position after a single-character class, NULL if it is malformed.   *)
classend(pat, p) ==
  CASE pat[p] = L_ESC -> IF p = Len(pat) THEN NULL ELSE p + 2
    [] pat[p] = Code["["] ->
         BracketEnd(pat, IF At(pat, p + 1) = Code["^"] THEN p + 2 ELSE p + 1)
    [] OTHER -> p + 1

match_class(c, cl) ==
  LET l == tolower(cl)
      Is(res) == IF islower(cl) THEN res ELSE ~res IN
  CASE l = Code["a"] -> Is(isalpha(c))
    [] l = Code["c"] -> Is(iscntrl(c))
    [] l = Code["d"] -> Is(isdigit(c))
    [] l = 103 -> Is(isgraph(c))
    [] l = 108 -> Is(islower(c))
    [] l = Code["p"] -> Is(ispunct(c))
    [] l = 115 -> Is(isspace(c))
    [] l = 117 -> Is(isupper(c))
    [] l = Code["w"] -> Is(isalnum(c))
    [] l = Code["x"] -> Is(isxdigit(c))
    [] l = 122 -> Is(c = NUL)
    [] OTHER -> cl = c

RECURSIVE InBrackets(_, _, _, _)
InBrackets(pat, c, p, ec) ==
  LET escaped == pat[p] = L_ESC
      range == ~escaped /\ pat[p + 1] = Code["-"] /\ p + 2 < ec IN
  /\ p < ec
  /\ IF escaped
     THEN match_class(c, pat[p + 1]) \/ InBrackets(pat, c, p + 2, ec)
     ELSE IF range
     THEN c \in pat[p]..pat[p + 2] \/ InBrackets(pat, c, p + 3, ec)
     ELSE pat[p] = c \/ InBrackets(pat, c, p + 1, ec)

(* p is at the [ and ec at the ] of the class.                             *)
matchbracketclass(pat, c, p, ec) ==
  IF pat[p + 1] = Code["^"]
  THEN ~InBrackets(pat, c, p + 2, ec)
  ELSE InBrackets(pat, c, p + 1, ec)

singlematch(ms, s, p, ep) ==
  /\ s < src_end(ms)
  /\ LET c == ms.src[s]
         q == ms.pat[p] IN
     CASE q = Code["."] -> TRUE
       [] q = L_ESC -> match_class(c, ms.pat[p + 1])
       [] q = Code["["] -> matchbracketclass(ms.pat, c, p, ep - 1)
       [] OTHER -> q = c

RECURSIVE Balance(_, _, _, _, _)
Balance(src, s, b, e, cont) ==
  IF s > Len(src) THEN NULL    \* string ends out of balance
  ELSE IF src[s] = e
       THEN IF cont = 1 THEN s + 1 ELSE Balance(src, s + 1, b, e, cont - 1)
       ELSE Balance(src, s + 1, b, e, IF src[s] = b THEN cont + 1 ELSE cont)

matchbalance(ms, s, p) ==
  IF p >= p_end(ms) - 1 THEN Raises(ms, "missing arguments to '%b'")
  ELSE IF At(ms.src, s) # ms.pat[p] THEN Returns(ms, NULL)
  ELSE Returns(ms, Balance(ms.src, s + 1, ms.pat[p], ms.pat[p + 1], 1))

-----------------------------------------------------------------------------
(* The matcher.  MatchAt is the body of match from the label init on.      *)

RECURSIVE match(_, _, _)
RECURSIVE MatchAt(_, _, _)
RECURSIVE Shrink(_, _, _, _)
RECURSIVE min_expand(_, _, _, _)

RECURSIVE Repetitions(_, _, _, _)
Repetitions(ms, s, p, ep) ==
  IF singlematch(ms, s, p, ep) THEN 1 + Repetitions(ms, s + 1, p, ep) ELSE 0

(* match(s + i), and after a failure with one repetition less.             *)
Shrink(ms, s, i, ep) ==
  With(match(ms, s + i, ep + 1), LAMBDA r :
    IF ~Failed(r) \/ i = 0 THEN r ELSE Shrink(r.ms, s, i - 1, ep))

max_expand(ms, s, p, ep) == Shrink(ms, s, Repetitions(ms, s, p, ep), ep)

min_expand(ms, s, p, ep) ==
  With(match(ms, s, ep + 1), LAMBDA r :
    IF Failed(r) /\ singlematch(r.ms, s, p, ep)
    THEN min_expand(r.ms, s + 1, p, ep) ELSE r)

UndoStart(r) ==
  IF Failed(r) THEN [r EXCEPT !.ms.capture = SubSeq(@, 1, Len(@) - 1)] ELSE r

start_capture(ms, s, p, what) ==
  IF Level(ms) >= LUA_MAXCAPTURES THEN Raises(ms, "too many captures")
  ELSE With(match([ms EXCEPT !.capture =
                     Append(@, [init |-> s, len |-> what])], s, p), UndoStart)

(* Fault: a failed branch leaves the capture closed.                       *)
UndoEndNot(r, l) == r

UndoEnd(r, l) ==
  IF Failed(r) THEN [r EXCEPT !.ms.capture[l].len = CAP_UNFINISHED] ELSE r

CloseCapture(ms, s, p, l) ==
  IF l = NULL THEN Raises(ms, "invalid pattern capture")
  ELSE With(match([ms EXCEPT !.capture[l].len = s - ms.capture[l].init], s, p),
            LAMBDA r : UndoEnd(r, l))

end_capture(ms, s, p) == CloseCapture(ms, s, p, capture_to_close(ms))

(* An error leaves the budget as it is.                                    *)
GiveBack(r) == IF r.err # "" THEN r ELSE [r EXCEPT !.ms.matchdepth = @ + 1]

(* Below zero the budget is not looked at any more.                        *)
match(ms, s, p) ==
  IF ms.matchdepth = 0
  THEN Raises([ms EXCEPT !.matchdepth = -1], "pattern too complex")
  ELSE With(MatchAt([ms EXCEPT !.matchdepth = @ - 1], s, p), GiveBack)

(* After a part that is matched without recursion: on with the pattern     *)
(* from p, or fail.                                                        *)
Continue(part, p) ==
  With(part, LAMBDA r : IF r.at = NULL THEN r ELSE MatchAt(r.ms, r.at, p))

(* A single-character class that ends at ep, and its suffix.               *)
MatchSuffix(ms, s, p, ep, suffix) ==
  IF ~singlematch(ms, s, p, ep)
  THEN IF suffix \in {Code["*"], Code["?"], Code["-"]}
       THEN MatchAt(ms, s, ep + 1) ELSE Returns(ms, NULL)
  ELSE CASE suffix = Code["?"] ->
              With(match(ms, s + 1, ep + 1), LAMBDA r :
                IF Failed(r) THEN MatchAt(r.ms, s, ep + 1) ELSE r)
         [] suffix = Code["+"] -> max_expand(ms, s + 1, p, ep)
         [] suffix = Code["*"] -> max_expand(ms, s, p, ep)
         [] suffix = Code["-"] -> min_expand(ms, s, p, ep)
         [] OTHER -> MatchAt(ms, s + 1, ep)

MatchClass(ms, s, p, ep) ==
  IF ep = NULL THEN Raises(ms, "malformed pattern")
  ELSE MatchSuffix(ms, s, p, ep, At(ms.pat, ep))

(* %f: the class begins to hold between the character before s and s.      *)
Frontier(ms, s, p, ep, previous) ==
  IF ep = NULL THEN Raises(ms, "malformed pattern")
  ELSE IF /\ ~matchbracketclass(ms.pat, previous, p, ep - 1)
          /\ matchbracketclass(ms.pat, At(ms.src, s), p, ep - 1)
  THEN MatchAt(ms, s, ep)
  ELSE Returns(ms, NULL)

MatchFrontier(ms, s, p) ==
  IF At(ms.pat, p) # Code["["] THEN Raises(ms, "missing '[' after '%f'")
  ELSE Frontier(ms, s, p, classend(ms.pat, p),
                IF s = 1 THEN NUL ELSE ms.src[s - 1])

MatchItem(ms, s, p, c, next) ==
  CASE c = Code["("] ->
         IF next = Code[")"] THEN start_capture(ms, s, p + 2, CAP_POSITION)
                             ELSE start_capture(ms, s, p + 1, CAP_UNFINISHED)
    [] c = Code[")"] -> end_capture(ms, s, p + 1)
    [] c = Code["$"] /\ p = Len(ms.pat) ->
         Returns(ms, IF s = src_end(ms) THEN s ELSE NULL)
    [] c = L_ESC /\ next = Code["b"] ->
         Continue(matchbalance(ms, s, p + 2), p + 4)
    [] c = L_ESC /\ next = Code["f"] -> MatchFrontier(ms, s, p + 2)
    [] c = L_ESC /\ isdigit(next) -> Continue(match_capture(ms, s, next), p + 2)
    [] OTHER -> MatchClass(ms, s, p, classend(ms.pat, p))

MatchAt(ms, s, p) ==
  IF p = p_end(ms) THEN Returns(ms, s)
  ELSE MatchItem(ms, s, p, ms.pat[p], At(ms.pat, p + 1))

-----------------------------------------------------------------------------
(* What the callers make of a match from s to e.                           *)

Text(src, b, e) == SubSeq(src, b, e - 1)
Error(why) == [error |-> why]
IsError(v) == DOMAIN v = {"error"}

push_onecapture(ms, i, s, e) ==
  IF i > Level(ms)
  THEN IF i = 1 THEN [string |-> Text(ms.src, s, e)]
       ELSE Error("invalid capture index")
  ELSE LET c == ms.capture[i] IN
       CASE c.len = CAP_UNFINISHED -> Error("unfinished capture")
         [] c.len = CAP_POSITION -> [position |-> c.init]
         [] OTHER -> [string |-> Text(ms.src, c.init, c.init + c.len)]

(* The first error ends it.                                                *)
push_captures(ms, s, e) ==
  LET n == IF Level(ms) = 0 /\ s # NULL THEN 1 ELSE Level(ms)
      vs == [i \in 1..n |-> push_onecapture(ms, i, s, e)]
      bad == {i \in 1..n : IsError(vs[i])}
  IN  IF bad = {} THEN vs
      ELSE <<vs[CHOOSE i \in bad : \A j \in bad : i <= j]>>

(* The search goes on behind every embedded zero of the pattern.           *)
nospecials(p) ==
  \A i \in {1} \cup {k + 1 : k \in {j \in DOMAIN p : p[j] = NUL}} :
    strpbrk_me(p, i, SPECIALS) = 0

(* The first place from i on where p occurs in s.                          *)
lmemfind(s, i, p) ==
  LET found == {j \in i..Len(s) + 1 - Len(p) : SubSeq(s, j, j + Len(p) - 1) = p}
  IN  IF found = {} THEN NULL ELSE CHOOSE j \in found : \A k \in found : j <= k

(* The loop of str_find_aux and gmatch_aux: the pattern is tried at every  *)
(* place from s on, or only at s; a match that ends at last does not count.*)
RECURSIVE Search(_, _, _, _)
Search(ms, s, last, anchor) ==
  With(match(reprepstate(ms), s, 1), LAMBDA r :
    IF r.err # "" \/ r.at \notin {NULL, last} THEN [r |-> r, from |-> s]
    ELSE IF s < src_end(ms) /\ ~anchor THEN Search(r.ms, s + 1, last, anchor)
    ELSE [r |-> Returns(r.ms, NULL), from |-> s])
=============================================================================
