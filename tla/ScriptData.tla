----------------------------- MODULE ScriptData -----------------------------
(***************************************************************************)
(* The data the runtime moves around: the payloads the rich OS sends, and  *)
(* the contents the TA keeps in a buffer or in secure storage.  Only what  *)
(* the TA's control flow tells apart is kept:                              *)
(*   a payload is "plain" Lua text, a "sealed" package as encrypt_lua.py   *)
(*   writes it, a "corrupt" package (its bytes do not match its MAC), an   *)
(*   "unkeyed" one (its MAC is zero, or made with the key of all zeros),   *)
(*   "short" (too short to hold salt, MAC and nonce), or "none": no bytes; *)
(*   a content is Lua text that arrived in the clear ("plain"), out of an  *)
(*   authentic package ("sealed") or out of one that passed the check      *)
(*   because no HMAC was computed or no key derived ("unverified"), the    *)
(*   zero-length object a save creates first ("empty"), a text of length   *)
(*   zero that was sent ("blank"), a zero-filled buffer ("zeros"), bytes   *)
(*   that are no Lua chunk ("garbled"), or no object at all ("absent").    *)
(***************************************************************************)
CONSTANTS Scripts,   \* texts of Lua scripts
          NoScript   \* the script field of a content that holds no text

ASSUME ScriptsAssumption == NoScript \notin Scripts

Payload == [kind: {"plain", "sealed", "corrupt", "unkeyed", "short", "none"},
            script: Scripts]

Content == [kind: {"plain", "sealed", "unverified", "empty", "blank", "zeros",
                   "garbled", "absent"},
            script: Scripts \cup {NoScript}]

Text(k, s) == [kind |-> k, script |-> s]

Absent  == [kind |-> "absent",  script |-> NoScript]
Empty   == [kind |-> "empty",   script |-> NoScript]
Blank   == [kind |-> "blank",   script |-> NoScript]
Zeros   == [kind |-> "zeros",   script |-> NoScript]
Garbled == [kind |-> "garbled", script |-> NoScript]

(***************************************************************************)
(* luaL_loadbuffer accepts Lua text and an empty chunk; a zero byte or     *)
(* undecodable bytes are a syntax error.                                   *)
(***************************************************************************)
HoldsScript(c) == c.kind \in {"plain", "sealed", "unverified"}
Loadable(c) == HoldsScript(c) \/ c.kind \in {"empty", "blank"}

(* Fault: a package that fails the check is handed on as it is.            *)
VerifyAndDecryptUnchecked(p) ==
  IF p.kind = "sealed" THEN {Text("sealed", p.script), Garbled, Zeros}
  ELSE IF p.kind = "plain" THEN {Text("plain", p.script)} ELSE {Zeros}

(***************************************************************************)
(* verify_and_decrypt_script: the contents the output buffer, zero-filled  *)
(* by TEE_Malloc, may hold when the function returns.  Its result code is  *)
(* ignored by both callers, so it is not part of the outcome.  A sealed    *)
(* package decrypts to its text only if the eight counter bytes of iv,     *)
(* which the code never writes, happen to be zero; any TEE call that fails *)
(* first leaves the buffer zero.  The calls of HKDF and HMAC that fill the *)
(* key and the MAC to compare with are not checked: when one of them fails *)
(* these are zero, and an unkeyed package is decrypted as well.            *)
(* CryptoUtils models the function step by step.                           *)
(***************************************************************************)
VerifyAndDecrypt(p) ==
  CASE p.kind = "sealed"  -> {Text("sealed", p.script), Garbled, Zeros}
    [] p.kind = "unkeyed" -> {Text("unverified", p.script), Garbled, Zeros}
    [] OTHER              -> {Zeros}

(***************************************************************************)
(* The buffer a handler goes on with after copying the payload: the copy   *)
(* itself without the flag, the output of the decryption with it.          *)
(***************************************************************************)
Received(p, encrypted) ==
  IF encrypted THEN VerifyAndDecrypt(p)
  ELSE IF p.kind = "plain" THEN {Text("plain", p.script)}
  ELSE IF p.kind = "none" THEN {Blank} ELSE {Garbled}

(***************************************************************************)
(* The length of the HMAC's or the cipher's input wraps below zero: the    *)
(* one or the other, if the code gets that far, is asked to read beyond    *)
(* the buffer and the TA stops.  Plain text sent with the flag set may be  *)
(* that short too.                                                         *)
(***************************************************************************)
MayUnderflow(p, encrypted) == encrypted /\ p.kind \in {"short", "plain", "none"}
=============================================================================
