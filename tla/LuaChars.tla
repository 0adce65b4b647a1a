------------------------------ MODULE LuaChars ------------------------------
(***************************************************************************)
(* Characters and C strings as the TA build sees them: the functions of    *)
(* ctype.h and string.h that lua/ltrusted_app.c supplies because the libc  *)
(* of a trusted application has none.  A character is its code; a string   *)
(* of length n is a sequence of n codes followed by the terminator NUL,    *)
(* which the C code may read.                                              *)
(***************************************************************************)
EXTENDS Integers, Sequences, FiniteSets

NUL == 0

(* The character at position i, the terminator after the last one.         *)
At(s, i) == IF i \in DOMAIN s THEN s[i] ELSE NUL

isdigit(c) == c \in 48..57
islower(c) == c \in 97..122
isupper(c) == c \in 65..90
isalpha(c) == islower(c) \/ isupper(c)
isalnum(c) == isalpha(c) \/ isdigit(c)
iscntrl(c) == c \in 0..31
isgraph(c) == c \in 33..126
ispunct(c) == c \in (33..47) \cup (58..64) \cup (91..96) \cup (123..126)
isspace(c) == c \in (9..13) \cup {32}
isxdigit(c) == isdigit(c) \/ c \in (65..70) \cup (97..102)
tolower(c) == IF isupper(c) THEN c + 32 ELSE c

(* The first position from i on, before the terminator or an embedded      *)
(* zero, that holds a character of the set; 0 stands for NULL.             *)
strpbrk_me(s, i, set) ==
  LET found == {j \in i..Len(s) : s[j] \in set /\ NUL \notin {s[k] : k \in i..j}}
  IN  IF found = {} THEN 0 ELSE CHOOSE j \in found : \A k \in found : j <= k

(* The codes of the characters the C sources name in quotes.               *)
Code ==
  [c \in {"a", "b", "c", "d", "e", "f", "n", "p", "w", "x", "A", "B", "X", "P",
          "0", "1", "2", "3", "4", "5", "7", "8", "9",
          " ", "^", "$", "*", "+", "?", ".", "(", ")", "[", "]", "%", "-"} |->
     CASE c = "a" -> 97 [] c = "b" -> 98 [] c = "c" -> 99 [] c = "d" -> 100
       [] c = "e" -> 101 [] c = "f" -> 102 [] c = "n" -> 110 [] c = "p" -> 112
       [] c = "w" -> 119 [] c = "x" -> 120 [] c = "A" -> 65 [] c = "B" -> 66
       [] c = "X" -> 88 [] c = "P" -> 80
       [] c = "0" -> 48 [] c = "1" -> 49 [] c = "2" -> 50 [] c = "3" -> 51
       [] c = "4" -> 52 [] c = "5" -> 53 [] c = "7" -> 55 [] c = "8" -> 56
       [] c = "9" -> 57 [] c = " " -> 32 [] c = "^" -> 94 [] c = "$" -> 36
       [] c = "*" -> 42 [] c = "+" -> 43 [] c = "?" -> 63 [] c = "." -> 46
       [] c = "(" -> 40 [] c = ")" -> 41 [] c = "[" -> 91 [] c = "]" -> 93
       [] c = "%" -> 37 [] c = "-" -> 45]

(* A string written as a sequence of one-character TLA+ strings.           *)
Str(cs) == [i \in DOMAIN cs |-> Code[cs[i]]]

(* What next computes through a sequence, from its first element on.       *)
Folded(next, start, t) ==
  LET at[k \in 0..Len(t)] == IF k = 0 THEN start ELSE next[<<at[k - 1], t[k]>>]
  IN  at[Len(t)]

(* Op(x), for an x that is computed once however often Op uses it.         *)
With(x, Op(_)) == CHOOSE y \in {Op(v) : v \in {x}} : TRUE
=============================================================================
