--------------------------- MODULE MCLuaRuntimeTA ---------------------------
(***************************************************************************)
(* Instances of LuaRuntimeTA for TLC.  Two scripts are stored under one or *)
(* two names; script a calls the first name, its own usual one, so that a  *)
(* saved script may recurse; b calls nothing.                              *)
(***************************************************************************)
EXTENDS LuaRuntimeTA, TLC

CONSTANTS n1, n2, a, b

OneName == {n1}

Cmd(op, n, k, t, e) ==
  [op |-> op, name |-> n, payload |-> [kind |-> k, script |-> t], enc |-> e]

RecursiveCalls == (a :> {n1}) @@ (b :> {})

(* Sessions are only told apart by their state.                            *)
SessionSymmetry == Permutations(Sessions)

(* Two clients saving and running the same script, in the clear.           *)
PlainCommands ==
  {Cmd("save", n1, "plain", t, FALSE) : t \in {a, b}}
    \cup {Cmd("run_saved", n1, "plain", a, FALSE),
          Cmd("run", n1, "plain", a, FALSE)}

(* The host after "the plaintext variant" is disabled: whatever the rich   *)
(* OS sends, it is sent with the flag that asks for decryption.  Every     *)
(* command the TA knows is there, and one it does not know.                *)
EncryptedCommands ==
  {Cmd(op, n1, "sealed", t, TRUE) : op \in {"save", "run"}, t \in {a, b}}
    \cup {Cmd(op, n1, k, a, TRUE) :
            op \in {"save", "run"}, k \in {"plain", "corrupt", "unkeyed", "short"}}
    \cup {Cmd(op, n1, "plain", a, FALSE) : op \in {"run_saved", "ta", "bad"}}
=============================================================================
