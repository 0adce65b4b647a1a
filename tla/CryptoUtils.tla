----------------------------- MODULE CryptoUtils ----------------------------
(***************************************************************************)
(* verify_and_decrypt_script and hmac_sha512 (ta/cryptoutils.c) on the     *)
(* packages encrypt_lua.py writes.  The function is a straight line of TEE *)
(* calls; an action is one of them with the checks that follow it, and a   *)
(* call that can fail may fail in every execution.                         *)
(*                                                                         *)
(* Cryptography is symbolic: HKDF, HMAC and AES-CTR are records of what    *)
(* went into them, so two results are equal exactly if their inputs are.   *)
(* A package is salt, mac, nonce and ciphertext; its length matters only   *)
(* where the code subtracts the lengths of the first three from it.        *)
(***************************************************************************)
EXTENDS ScriptData, Integers, FiniteSets

CONSTANTS Salts, Nonces,
          BodyLengths,   \* lengths of the ciphertexts in a package
          ShortLengths,  \* lengths of buffers that hold no whole package
          SizeMax        \* one more than the largest size_t

SaltSz == 16
MacSz == 64
NonceSz == 8
HeaderSz == SaltSz + MacSz + NonceSz

ASSUME CryptoAssumption ==
  /\ Salts # {} /\ Nonces # {} /\ Scripts # {}
  /\ BodyLengths \subseteq Nat /\ ShortLengths \subseteq 0..HeaderSz-1
  /\ SizeMax \in Nat /\ HeaderSz < SizeMax
  /\ \A l \in BodyLengths : HeaderSz + l < SizeMax

(* What went into a key; okm_buffer is zero if HKDF's result was not read. *)
ZeroKey == [salt |-> "zero", half |-> 0]
Key(salt, half) == [salt |-> salt, half |-> half]

(* Fault: the mac does not cover the nonce.                                *)
HmacOfBody(key, nonce, body) == [key |-> key, nonce |-> "any", body |-> body]

Hmac(key, nonce, body) == [key |-> key, nonce |-> nonce, body |-> body]

AesCtr(key, nonce, text) == [key |-> key, nonce |-> nonce, text |-> text]

(* The mac over what is left of nonce and ciphertext in a buffer that ends *)
(* before them, and the buffer for a mac that none was written to.         *)
CutMac(key) == Hmac(key, "cut", AesCtr(key, "cut", "cut"))
ZeroMac == CutMac([salt |-> "none", half |-> 0])

(* encrypt_and_mac_file_content: the ciphertext and its nonce are signed,  *)
(* with keys derived from the salt.                                        *)
Seal(salt, nonce, text) ==
  LET body == AesCtr(Key(salt, 1), nonce, text) IN
  [salt |-> salt, mac |-> Hmac(Key(salt, 2), nonce, body), nonce |-> nonce,
   body |-> body]

Sealed == {Seal(s, n, t) : s \in Salts, n \in Nonces, t \in Scripts}

(* What may reach the TA: the parts of sealed packages in any combination, *)
(* a ciphertext made with the key of all zeros, and a mac that is zero or  *)
(* made with that key, over a whole nonce and ciphertext or less.          *)
Bodies == {AesCtr(k, n, t) : k \in {Key(s, 1) : s \in Salts} \cup {ZeroKey},
                             n \in Nonces, t \in Scripts}
UnkeyedMacs == {ZeroMac, CutMac(ZeroKey)}
                 \cup {Hmac(ZeroKey, n, b) : n \in Nonces, b \in Bodies}
Package == [salt: Salts, mac: {p.mac : p \in Sealed} \cup UnkeyedMacs,
            nonce: Nonces, body: Bodies]

Handles == {"hkdf_op", "master", "hkdf_result", "hmac_op", "hmac_key",
            "aes_op", "aes_key"}

VARIABLES
  pc,
  pkg, len,    \* the package in the buffer and the length of the buffer
  okm,         \* the salt okm_buffer was derived from, "zero" if it was not
  macCmp,      \* mac_cmp_buffer
  held,        \* the handles that are allocated
  out, res     \* the output buffer and the result

cryptoVars == <<pc, pkg, len, okm, macCmp, held, out, res>>

CryptoInit ==
  /\ pc = "hkdf_alloc"
  /\ pkg \in Package
  /\ len \in {HeaderSz + l : l \in BodyLengths} \cup ShortLengths
  /\ okm = "zero"
  /\ macCmp = ZeroMac
  /\ held = {}
  /\ out = Zeros
  /\ res = "none"

Minus(x, y) == (x - y) % SizeMax    \* size_t subtraction

Return(r) == pc' = "done" /\ res' = r

Next1(from, to) == pc = from /\ pc' = to /\ UNCHANGED res
Panicked == pc' = "panicked" /\ UNCHANGED <<pkg, len, okm, macCmp, held, out, res>>

-----------------------------------------------------------------------------
(* HKDF.  The header was copied out of the buffer before.                  *)
HkdfAllocate ==
  /\ \/ Next1("hkdf_alloc", "hkdf_master") /\ held' = held \cup {"hkdf_op"}
     \/ pc = "hkdf_alloc" /\ Return("error") /\ UNCHANGED held
  /\ UNCHANGED <<pkg, len, okm, macCmp, out>>

(* The result of the allocation is not looked at: without the object, the  *)
(* next call stops the TA.                                                 *)
HkdfMaster ==
  \/ /\ Next1("hkdf_master", "hkdf_populate")
     /\ held' = held \cup {"master"}
     /\ UNCHANGED <<pkg, len, okm, macCmp, out>>
  \/ pc = "hkdf_master" /\ Panicked

(* TEE_PopulateTransientObject and TEE_SetOperationKey.                    *)
HkdfKey ==
  /\ \/ Next1("hkdf_populate", "hkdf_derive")
     \/ pc = "hkdf_populate" /\ Return("error")
  /\ UNCHANGED <<pkg, len, okm, macCmp, held, out>>

HkdfDerive ==
  \/ /\ Next1("hkdf_derive", "hkdf_read")
     /\ held' = held \cup {"hkdf_result"}
     /\ UNCHANGED <<pkg, len, okm, macCmp, out>>
  \/ pc = "hkdf_derive" /\ Panicked

(* TEE_GetObjectBufferAttribute; its result is not looked at either.       *)
HkdfRead ==
  /\ Next1("hkdf_read", "hmac_op")
  /\ okm' \in {pkg.salt, "zero"}
  /\ UNCHANGED <<pkg, len, macCmp, held, out>>

DerivedKey(half) == IF okm = "zero" THEN ZeroKey ELSE Key(okm, half)

-----------------------------------------------------------------------------
(* hmac_sha512 over nonce and ciphertext, with the second half of okm.     *)
HmacAllocateOp ==
  /\ \/ Next1("hmac_op", "hmac_key") /\ held' = held \cup {"hmac_op"}
     \/ Next1("hmac_op", "hmac_exit") /\ UNCHANGED held
  /\ UNCHANGED <<pkg, len, okm, macCmp, out>>

HmacAllocateKey ==
  /\ \/ Next1("hmac_key", "hmac_set") /\ held' = held \cup {"hmac_key"}
     \/ Next1("hmac_key", "hmac_exit") /\ UNCHANGED held
  /\ UNCHANGED <<pkg, len, okm, macCmp, out>>

(* TEE_PopulateTransientObject and TEE_SetOperationKey.                    *)
HmacSetKey ==
  /\ Next1("hmac_set", "hmac_compute") \/ Next1("hmac_set", "hmac_exit")
  /\ UNCHANGED <<pkg, len, okm, macCmp, held, out>>

(* Fault: the nonce is left out.                                           *)
HmacLengthOfBody == Minus(len, HeaderSz)

(* The bytes behind the mac are read, as many as the length minus 80.      *)
HmacLength == Minus(len, SaltSz + MacSz)
HmacOverrun == SaltSz + MacSz + HmacLength > len

MacOfBuffer ==
  IF len >= HeaderSz THEN Hmac(DerivedKey(2), pkg.nonce, pkg.body)
                     ELSE CutMac(DerivedKey(2))

HmacCompute ==
  \/ /\ Next1("hmac_compute", "hmac_exit")
     /\ ~HmacOverrun
     /\ macCmp' \in {MacOfBuffer, ZeroMac}
     /\ UNCHANGED <<pkg, len, okm, held, out>>
  \/ pc = "hmac_compute" /\ HmacOverrun /\ Panicked

(* Fault: the key is kept.                                                 *)
HmacExitKeepsKey ==
  /\ Next1("hmac_exit", "compare")
  /\ held' = held \ {"hmac_op"}
  /\ UNCHANGED <<pkg, len, okm, macCmp, out>>

HmacExit ==
  /\ Next1("hmac_exit", "compare")
  /\ held' = held \ {"hmac_op", "hmac_key"}
  /\ UNCHANGED <<pkg, len, okm, macCmp, out>>

-----------------------------------------------------------------------------
(* TEE_MemCompare.  If the buffer ends before the mac does, pkg.mac is     *)
(* what lies behind it.                                                    *)
CompareMac ==
  /\ \/ pkg.mac = macCmp /\ Next1("compare", "aes_op")
     \/ pkg.mac # macCmp /\ Next1("compare", "err")
  /\ UNCHANGED <<pkg, len, okm, macCmp, held, out>>

AesAllocateOp ==
  /\ \/ Next1("aes_op", "aes_key") /\ held' = held \cup {"aes_op"}
     \/ Next1("aes_op", "err") /\ UNCHANGED held
  /\ UNCHANGED <<pkg, len, okm, macCmp, out>>

AesAllocateKey ==
  /\ \/ Next1("aes_key", "aes_populate") /\ held' = held \cup {"aes_key"}
     \/ Next1("aes_key", "err") /\ UNCHANGED held
  /\ UNCHANGED <<pkg, len, okm, macCmp, out>>

(* This failure returns at once ...                                        *)
AesPopulate ==
  /\ \/ Next1("aes_populate", "aes_set")
     \/ pc = "aes_populate" /\ Return("error")
  /\ UNCHANGED <<pkg, len, okm, macCmp, held, out>>

(* ... and this one through err.                                           *)
AesSetKey ==
  /\ Next1("aes_set", "aes_update") \/ Next1("aes_set", "err")
  /\ UNCHANGED <<pkg, len, okm, macCmp, held, out>>

(* The first half of iv is the nonce.  The second half, the counter, is    *)
(* never written: it has its right value, zero, or another one.            *)
Decrypt(key, nonce, counter, body) ==
  IF body.key = key /\ body.nonce = nonce /\ counter = 0
  THEN Text(IF pkg \in Sealed THEN "sealed" ELSE "unverified", body.text)
  ELSE Garbled

(* The bytes behind the nonce are read; a length that wrapped is refused,  *)
(* or stops the TA.                                                        *)
AesLength == Minus(len, HeaderSz)
AesOverrun == HeaderSz + AesLength > len

AesUpdate ==
  /\ pc = "aes_update"
  /\ \/ /\ ~AesOverrun
        /\ \E counter \in {0, 1} :
             out' = Decrypt(DerivedKey(1), pkg.nonce, counter, pkg.body)
        /\ Return("success")
        /\ UNCHANGED <<pkg, len, okm, macCmp, held>>
     \/ Return("error") /\ UNCHANGED <<pkg, len, okm, macCmp, held, out>>
     \/ AesOverrun /\ Panicked

(* Fault: the buffer is handed back as it came.                            *)
ErrHandsBack ==
  /\ pc = "err"
  /\ held' = held \ {"aes_op", "aes_key"}
  /\ out' = Garbled
  /\ Return("error")
  /\ UNCHANGED <<pkg, len, okm, macCmp>>

Err ==
  /\ pc = "err"
  /\ held' = held \ {"aes_op", "aes_key"}
  /\ Return("error")
  /\ UNCHANGED <<pkg, len, okm, macCmp, out>>

CryptoNext ==
  \/ HkdfAllocate \/ HkdfMaster \/ HkdfKey \/ HkdfDerive \/ HkdfRead
  \/ HmacAllocateOp \/ HmacAllocateKey \/ HmacSetKey \/ HmacCompute \/ HmacExit
  \/ CompareMac \/ AesAllocateOp \/ AesAllocateKey \/ AesPopulate \/ AesSetKey
  \/ AesUpdate \/ Err

CryptoSpec == CryptoInit /\ [][CryptoNext]_cryptoVars

-----------------------------------------------------------------------------
(* Properties.                                                             *)

(* The package as LuaRuntimeTA's payloads describe it.                     *)
AsPayload ==
  [kind |-> IF len < HeaderSz THEN "short"
            ELSE IF pkg \in Sealed THEN "sealed"
            ELSE IF pkg.mac \in UnkeyedMacs THEN "unkeyed" ELSE "corrupt",
   script |-> pkg.body.text]

(* What LuaRuntimeTA takes verify_and_decrypt_script for: whatever TEE     *)
(* call fails, the buffer the callers go on with, result code unread, is   *)
(* one of VerifyAndDecrypt's, and the HMAC or the cipher runs over the end *)
(* of the buffer only where MayUnderflow says so.                          *)
OutcomeAsAbstracted ==
  /\ pc = "done" => out \in VerifyAndDecrypt(AsPayload)
  /\ \/ pc = "hmac_compute" /\ HmacOverrun
     \/ pc = "aes_update" /\ AesOverrun
       => MayUnderflow(AsPayload, TRUE)

(* Nothing is decrypted before the mac has been compared, and while the    *)
(* key was derived and the HMAC computed, no buffer passes but a package   *)
(* that encrypt_lua.py sealed with that salt and nonce: the mac covers the *)
(* salt and every byte behind it.  The calls that fill okm_buffer and      *)
(* mac_cmp_buffer are not checked: where one of them left its buffer zero, *)
(* equal macs are all that is known of the package.                        *)
OnlySealedDecrypts ==
  pc \in {"aes_op", "aes_key", "aes_populate", "aes_set", "aes_update"}
      \/ out # Zeros
    => /\ pkg.mac = macCmp
       /\ \/ pkg \in Sealed /\ len >= HeaderSz
          \/ macCmp = ZeroMac
          \/ okm = "zero"

(* hmac_sha512 leaves no handle behind on any of its exits.                *)
HmacReleases ==
  pc \notin {"hmac_key", "hmac_set", "hmac_compute", "hmac_exit", "panicked"}
    => held \cap {"hmac_op", "hmac_key"} = {}

(* For a buffer that holds a whole header, the ranges that the HMAC and    *)
(* the cipher read end at the end of the buffer.                           *)
ReadsWholeBuffer ==
  /\ pc = "hmac_compute" /\ len >= HeaderSz =>
       SaltSz + MacSz + HmacLength = len
  /\ pc = "aes_update" /\ len >= HeaderSz => HeaderSz + AesLength = len
=============================================================================
