----------------------------- MODULE MCLuaHost ------------------------------
(***************************************************************************)
(* An instance of LuaHost for TLC: two processes of two applications.  The *)
(* first one saves a script that has no other file than one left beside it *)
(* by an editor, which the save loop takes for it.  The second one has its *)
(* script n2 in the clear and, in a newer version that calls the first     *)
(* one's, encrypted; it is started in encrypted mode, passing its scripts, *)
(* or in plain mode, running the saved ones.                               *)
(***************************************************************************)
EXTENDS LuaHost, TLC

CONSTANTS n1, n2, a, b, c, s1, s2

ExampleCalls == (a :> {n1}) @@ (b :> {}) @@ (c :> {})

AnyCommand ==
  {[op |-> "bad", name |-> n1, payload |-> [kind |-> "plain", script |-> a],
    enc |-> FALSE]}

Plain(n, t) ==
  [name |-> n, ext |-> "lua", exact |-> TRUE,
   payload |-> [kind |-> "plain", script |-> t]]

Sealed(n, t) ==
  [name |-> n, ext |-> "luata", exact |-> TRUE,
   payload |-> [kind |-> "sealed", script |-> t]]

Swap(n, t) == [Plain(n, t) EXCEPT !.exact = FALSE]

TwoApps == (s1 :> {Swap(n1, b)}) @@ (s2 :> {Sealed(n2, a), Plain(n2, c)})

HostCalls == (s1 :> {}) @@ (s2 :> {n2})

Mode(e, sv) == [encrypted |-> e, saved |-> sv]

MixedOptions ==
  (s1 :> {Mode(FALSE, TRUE)}) @@ (s2 :> {Mode(TRUE, FALSE), Mode(FALSE, TRUE)})
=============================================================================
