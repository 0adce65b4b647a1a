------------------------- MODULE CryptoUtils_proofs -------------------------
(***************************************************************************)
(* Proofs about CryptoUtils, for any salts, nonces, texts and lengths of   *)
(* buffers, and any of the TEE calls failing: what the callers of          *)
(* verify_and_decrypt_script go on with, what is decrypted, what the HMAC  *)
(* and the cipher read, and which handles hmac_sha512 leaves behind.       *)
(***************************************************************************)
EXTENDS CryptoUtils, TLAPS

-----------------------------------------------------------------------------
(* The inductive invariant.                                                *)

HmacSteps == {"hmac_key", "hmac_set", "hmac_compute", "hmac_exit"}
AesSteps == {"aes_op", "aes_key", "aes_populate", "aes_set", "aes_update"}
Before == {"hkdf_alloc", "hkdf_master", "hkdf_populate", "hkdf_derive", "hkdf_read"}

(* The package is one that encrypt_lua.py wrote.                           *)
Authentic == \E t \in Scripts : pkg = Seal(pkg.salt, pkg.nonce, t)

TypeInv ==
  /\ pkg \in Package
  /\ len \in 0..SizeMax-1
  /\ okm \in {pkg.salt, "zero"}
  /\ out \in {Zeros, Garbled,
              Text(IF pkg \in Sealed THEN "sealed" ELSE "unverified", pkg.body.text)}

(* The mac that is compared with is zero or the right one for the derived  *)
(* key; before the key is read it is zero.                                 *)
MacInv ==
  /\ macCmp \in {ZeroMac, MacOfBuffer}
  /\ pc \in Before => macCmp = ZeroMac

(* Whatever is decrypted or has been carries the mac that was computed; a  *)
(* buffer that holds no whole package is never decrypted.                  *)
CheckedInv ==
  /\ pc \in AesSteps \/ out # Zeros => pkg.mac = macCmp
  /\ out # Zeros => pc = "done" /\ len >= HeaderSz

CryptoInv == TypeInv /\ MacInv /\ CheckedInv /\ HmacReleases

-----------------------------------------------------------------------------
(* Lengths: a size_t subtraction that does not go below zero is one.       *)
LEMMA MinusExact ==
  ASSUME NEW x \in 0..SizeMax-1, NEW y \in 0..x
  PROVE  Minus(x, y) = x - y
  <1>1. x - y \in 0..SizeMax-1 /\ SizeMax \in Nat \ {0}
    BY CryptoAssumption DEF HeaderSz, SaltSz, MacSz, NonceSz
  <1>2. \A d \in 0..SizeMax-1 : d % SizeMax = d
    BY <1>1
  <1>3. QED
    BY <1>1, <1>2 DEF Minus

LEMMA Sizes == SaltSz + MacSz = 80 /\ HeaderSz = 88
  BY DEF SaltSz, MacSz, NonceSz, HeaderSz

(* The HMAC overruns the buffer exactly if it is shorter than salt and mac *)
(* together.                                                               *)
LEMMA OverrunIsShort ==
  ASSUME TypeInv
  PROVE  /\ HmacOverrun => len < SaltSz + MacSz
         /\ len >= SaltSz + MacSz => SaltSz + MacSz + HmacLength = len
  <1>1. len \in 0..SizeMax-1 /\ SizeMax \in Nat
    BY CryptoAssumption DEF TypeInv
  <1>2. ASSUME len >= 80 PROVE HmacLength = len - 80
    <2>1. 80 \in 0..len
      BY <1>1, <1>2
    <2>2. QED
      BY <1>1, <2>1, MinusExact, Sizes DEF HmacLength
  <1>3. QED
    BY <1>1, <1>2, Sizes DEF HmacOverrun

-----------------------------------------------------------------------------
(* The symbolic cryptography.                                              *)

LEMMA HmacInjective ==
  \A k, n, b : /\ Hmac(k, n, b).key = k /\ Hmac(k, n, b).nonce = n
               /\ Hmac(k, n, b).body = b
  BY DEF Hmac

(* The mac of a sealed package was made with the key of its salt.          *)
LEMMA SealedMac ==
  ASSUME NEW p \in Sealed
  PROVE  \E s \in Salts, n \in Nonces, t \in Scripts :
           /\ p = Seal(s, n, t)
           /\ p.mac = Hmac(Key(s, 2), n, AesCtr(Key(s, 1), n, t))
  BY DEF Sealed, Seal

(* A mac that is not zero, agrees with the package's and was made with a   *)
(* derived key over a whole package was made over its nonce and body, with *)
(* the key of its salt: the package is authentic.  A mac over less agrees  *)
(* with no package's.                                                      *)
LEMMA MacMatches ==
  ASSUME TypeInv, MacInv, pkg.mac = macCmp, macCmp # ZeroMac, okm # "zero"
  PROVE  Authentic /\ len >= HeaderSz
  <1>1. /\ okm = pkg.salt /\ macCmp = MacOfBuffer
        /\ \A h : DerivedKey(h) = Key(pkg.salt, h)
    BY DEF TypeInv, MacInv, DerivedKey
  <1>2. MacOfBuffer.key = Key(pkg.salt, 2)
    BY <1>1, HmacInjective DEF MacOfBuffer, CutMac
  <1>3. Key(pkg.salt, 2) # ZeroKey
    BY DEF Key, ZeroKey
  <1>4. pkg.mac \notin UnkeyedMacs
    <2>1. \A m \in UnkeyedMacs : m = ZeroMac \/ m.key = ZeroKey
      BY HmacInjective DEF UnkeyedMacs, CutMac
    <2>2. QED
      BY <1>1, <1>2, <1>3, <2>1
  <1>5. PICK p \in Sealed : pkg.mac = p.mac
    BY <1>4 DEF TypeInv, Package
  <1>6. PICK s \in Salts, n \in Nonces, t \in Scripts :
          pkg.mac = Hmac(Key(s, 2), n, AesCtr(Key(s, 1), n, t))
    BY <1>5, SealedMac
  <1>7. len >= HeaderSz
    <2>1. SUFFICES ASSUME ~(len >= HeaderSz) PROVE FALSE
      OBVIOUS
    <2>2. pkg.mac.body = AesCtr(Key(pkg.salt, 2), "cut", "cut")
      BY <1>1, <2>1, HmacInjective DEF MacOfBuffer, CutMac
    <2>3. pkg.mac.body = AesCtr(Key(s, 1), n, t)
      BY <1>6, HmacInjective
    <2>4. Key(pkg.salt, 2) = Key(s, 1)
      BY <2>2, <2>3 DEF AesCtr
    <2>5. QED
      BY <2>4 DEF Key
  <1>8. macCmp = Hmac(Key(pkg.salt, 2), pkg.nonce, pkg.body)
    BY <1>1, <1>7 DEF MacOfBuffer
  <1>9. /\ Key(pkg.salt, 2) = Key(s, 2) /\ pkg.nonce = n
        /\ pkg.body = AesCtr(Key(s, 1), n, t)
    <2>1. Hmac(Key(pkg.salt, 2), pkg.nonce, pkg.body)
            = Hmac(Key(s, 2), n, AesCtr(Key(s, 1), n, t))
      BY <1>6, <1>8
    <2>2. QED
      BY <2>1, HmacInjective
  <1>10. s = pkg.salt
    BY <1>9 DEF Key
  <1>11. pkg = Seal(s, n, t)
    <2>1. pkg = [salt |-> pkg.salt, mac |-> pkg.mac, nonce |-> pkg.nonce,
                 body |-> pkg.body]
      BY DEF TypeInv, Package
    <2>2. QED
      BY <1>6, <1>9, <1>10, <2>1 DEF Seal
  <1>12. QED
    BY <1>7, <1>9, <1>10, <1>11 DEF Authentic

-----------------------------------------------------------------------------
(* Invariance.                                                             *)

LEMMA CryptoInitInv == CryptoInit => CryptoInv
  <1>1. SUFFICES ASSUME CryptoInit PROVE CryptoInv
    OBVIOUS
  <1>2. len \in 0..SizeMax-1
    <2>1. SizeMax \in Nat /\ 88 < SizeMax
      BY CryptoAssumption, Sizes
    <2>2. CASE len \in ShortLengths
      <3>1. len \in 0..87
        BY <2>2, CryptoAssumption, Sizes
      <3>2. QED
        BY <2>1, <3>1
    <2>3. ASSUME NEW l \in BodyLengths, len = HeaderSz + l
          PROVE  len \in 0..SizeMax-1
      <3>1. l \in Nat /\ 88 + l < SizeMax /\ len = 88 + l
        BY <2>3, CryptoAssumption, Sizes
      <3>2. QED
        BY <2>1, <3>1
    <2>4. QED
      BY <1>1, <2>2, <2>3 DEF CryptoInit
  <1>3. QED
    BY <1>1, <1>2
    DEF CryptoInit, CryptoInv, TypeInv, MacInv, CheckedInv, HmacReleases, Before,
        AesSteps

(* Steps that only allocate, release or move on.                           *)
LEMMA ControlInv ==
  ASSUME CryptoInv, UNCHANGED <<pkg, len, okm, macCmp, out>>,
         pc' = pc \/ pc # "done",
         pc' \in Before => pc \in Before,
         pc' \in AesSteps => pc \in AesSteps,
         HmacReleases'
  PROVE  CryptoInv'
  BY DEF CryptoInv, TypeInv, MacInv, CheckedInv, DerivedKey, MacOfBuffer

LEMMA HkdfInv ==
  ASSUME CryptoInv, HkdfAllocate \/ HkdfMaster \/ HkdfKey \/ HkdfDerive
  PROVE  CryptoInv'
  <1>1. /\ pc \in Before /\ pc' \in Before \cup {"done", "panicked"}
        /\ UNCHANGED <<pkg, len, okm, macCmp, out>>
    BY DEF HkdfAllocate, HkdfMaster, HkdfKey, HkdfDerive, Next1, Return, Panicked, Before
  <1>2. held' \in {held, held \cup {"hkdf_op"}, held \cup {"master"},
                   held \cup {"hkdf_result"}}
    BY DEF HkdfAllocate, HkdfMaster, HkdfKey, HkdfDerive, Next1, Return, Panicked
  <1>3. HmacReleases'
    BY <1>1, <1>2 DEF CryptoInv, HmacReleases, Before
  <1>4. QED
    BY <1>1, <1>3, ControlInv DEF Before, AesSteps

LEMMA HkdfReadInv ==
  ASSUME CryptoInv, HkdfRead
  PROVE  CryptoInv'
  <1>1. /\ pc = "hkdf_read" /\ pc' = "hmac_op" /\ okm' \in {pkg.salt, "zero"}
        /\ UNCHANGED <<pkg, len, macCmp, held, out>>
    BY DEF HkdfRead, Next1
  <1>2. TypeInv'
    BY <1>1 DEF CryptoInv, TypeInv
  <1>3. MacInv'
    BY <1>1 DEF CryptoInv, MacInv, Before
  <1>4. CheckedInv' /\ HmacReleases'
    BY <1>1 DEF CryptoInv, CheckedInv, HmacReleases, AesSteps
  <1>5. QED
    BY <1>2, <1>3, <1>4 DEF CryptoInv

LEMMA HmacInv ==
  ASSUME CryptoInv, HmacAllocateOp \/ HmacAllocateKey \/ HmacSetKey \/ HmacExit
  PROVE  CryptoInv'
  <1>1. /\ pc \in HmacSteps \cup {"hmac_op"} /\ pc' \in HmacSteps \cup {"compare"}
        /\ UNCHANGED <<pkg, len, okm, macCmp, out>>
    BY DEF HmacAllocateOp, HmacAllocateKey, HmacSetKey, HmacExit, Next1, HmacSteps
  <1>2. HmacReleases'
    BY DEF HmacAllocateOp, HmacAllocateKey, HmacSetKey, HmacExit, Next1, HmacReleases
  <1>3. QED
    BY <1>1, <1>2, ControlInv DEF HmacSteps, Before, AesSteps

LEMMA HmacComputeInv ==
  ASSUME CryptoInv, HmacCompute
  PROVE  CryptoInv'
  <1>1. CASE pc' = "panicked"
    <2>1. pc = "hmac_compute" /\ UNCHANGED <<pkg, len, okm, macCmp, out>>
      BY <1>1 DEF HmacCompute, Next1, Panicked
    <2>2. HmacReleases'
      BY <1>1 DEF HmacReleases
    <2>3. QED
      BY <1>1, <2>1, <2>2, ControlInv DEF Before, AesSteps
  <1>2. CASE pc' = "hmac_exit"
    <2>1. /\ pc = "hmac_compute" /\ macCmp' \in {MacOfBuffer, ZeroMac}
          /\ UNCHANGED <<pkg, len, okm, held, out>>
      BY <1>2 DEF HmacCompute, Next1, Panicked
    <2>2. (TypeInv /\ MacInv)'
      BY <1>2, <2>1 DEF CryptoInv, TypeInv, MacInv, MacOfBuffer, DerivedKey, Before
    <2>3. (CheckedInv /\ HmacReleases)'
      BY <1>2, <2>1 DEF CryptoInv, CheckedInv, HmacReleases, AesSteps
    <2>4. QED
      BY <2>2, <2>3 DEF CryptoInv
  <1>3. QED
    BY <1>1, <1>2 DEF HmacCompute, Next1, Panicked

LEMMA CompareInv ==
  ASSUME CryptoInv, CompareMac
  PROVE  CryptoInv'
  <1>1. pc = "compare" /\ UNCHANGED <<pkg, len, okm, macCmp, held, out>>
    BY DEF CompareMac, Next1
  <1>2. HmacReleases'
    BY <1>1 DEF CryptoInv, HmacReleases
  <1>3. CASE pc' = "err"
    BY <1>1, <1>2, <1>3, ControlInv DEF Before, AesSteps
  <1>4. CASE pc' = "aes_op" /\ pkg.mac = macCmp
    <2>1. (TypeInv /\ MacInv)'
      BY <1>1, <1>4 DEF CryptoInv, TypeInv, MacInv, Before, DerivedKey, MacOfBuffer
    <2>2. CheckedInv'
      BY <1>1, <1>4 DEF CryptoInv, CheckedInv, AesSteps
    <2>3. QED
      BY <1>2, <2>1, <2>2 DEF CryptoInv
  <1>5. QED
    BY <1>3, <1>4 DEF CompareMac, Next1

LEMMA AesInv ==
  ASSUME CryptoInv, AesAllocateOp \/ AesAllocateKey \/ AesPopulate \/ AesSetKey \/ Err
  PROVE  CryptoInv'
  <1>1. /\ pc \in AesSteps \cup {"err"} /\ pc' \in AesSteps \cup {"err", "done"}
        /\ pc' \in AesSteps => pc \in AesSteps
        /\ UNCHANGED <<pkg, len, okm, macCmp, out>>
    BY DEF AesAllocateOp, AesAllocateKey, AesPopulate, AesSetKey, Err, Next1, Return,
           AesSteps
  <1>2. held' \in {held, held \cup {"aes_op"}, held \cup {"aes_key"},
                   held \ {"aes_op", "aes_key"}}
    BY DEF AesAllocateOp, AesAllocateKey, AesPopulate, AesSetKey, Err, Next1, Return
  <1>3. HmacReleases'
    BY <1>1, <1>2 DEF CryptoInv, HmacReleases, AesSteps
  <1>4. QED
    BY <1>1, <1>3, ControlInv DEF AesSteps, Before

(* The cipher overruns the buffer if that is shorter than a header.        *)
LEMMA AesOverrunIsShort ==
  ASSUME TypeInv
  PROVE  AesOverrun <=> len < HeaderSz
  <1>1. len \in 0..SizeMax-1 /\ SizeMax \in Nat /\ 88 < SizeMax
    BY CryptoAssumption, Sizes DEF TypeInv
  <1>2. ASSUME len >= 88 PROVE AesLength = len - 88
    <2>1. 88 \in 0..len
      BY <1>1, <1>2
    <2>2. QED
      BY <1>1, <2>1, MinusExact, Sizes DEF AesLength
  <1>3. AesLength \in Nat
    <2>1. len - 88 \in Int
      BY <1>1
    <2>2. (len - 88) % SizeMax \in Nat
      BY <1>1, <2>1
    <2>3. QED
      BY <2>2, Sizes DEF AesLength, Minus
  <1>4. QED
    BY <1>1, <1>2, <1>3, Sizes DEF AesOverrun

LEMMA AesUpdateInv ==
  ASSUME CryptoInv, AesUpdate
  PROVE  CryptoInv'
  <1>1. /\ pc = "aes_update" /\ pc' \in {"done", "panicked"}
        /\ UNCHANGED <<pkg, len, okm, macCmp, held>>
        /\ \/ out' = out
           \/ /\ ~AesOverrun /\ pc' = "done"
              /\ out' \in {Garbled, Text(IF pkg \in Sealed THEN "sealed" ELSE "unverified",
                                         pkg.body.text)}
    BY DEF AesUpdate, Return, Decrypt, Panicked
  <1>2. pkg.mac = macCmp /\ out = Zeros
    BY <1>1 DEF CryptoInv, CheckedInv, AesSteps
  <1>3. out' # Zeros => pc' = "done" /\ len >= HeaderSz
    <2>1. len \in Int /\ HeaderSz \in Int
      BY CryptoAssumption, Sizes DEF CryptoInv, TypeInv
    <2>2. QED
      BY <1>1, <1>2, <2>1, AesOverrunIsShort DEF CryptoInv
  <1>4. (TypeInv /\ MacInv)'
    BY <1>1 DEF CryptoInv, TypeInv, MacInv, Before, DerivedKey, MacOfBuffer
  <1>5. (CheckedInv /\ HmacReleases)'
    BY <1>1, <1>2, <1>3 DEF CryptoInv, CheckedInv, HmacReleases, AesSteps
  <1>6. QED
    BY <1>4, <1>5 DEF CryptoInv

(* The inductive invariant holds in every execution.                       *)
THEOREM CryptoInvariance == CryptoSpec => []CryptoInv
  <1>1. CryptoInv /\ [CryptoNext]_cryptoVars => CryptoInv'
    <2>1. ASSUME CryptoInv, UNCHANGED cryptoVars PROVE CryptoInv'
      BY <2>1, ControlInv DEF cryptoVars, CryptoInv, HmacReleases
    <2>2. ASSUME CryptoInv, CryptoNext PROVE CryptoInv'
      BY <2>2, HkdfInv, HkdfReadInv, HmacInv, HmacComputeInv, CompareInv, AesInv,
         AesUpdateInv DEF CryptoNext
    <2>3. QED
      BY <2>1, <2>2
  <1>2. QED
    BY <1>1, CryptoInitInv, PTL DEF CryptoSpec

-----------------------------------------------------------------------------
(* The theorems.                                                           *)

(* hmac_sha512 leaves no handle behind, whichever of its calls fails.      *)
THEOREM ReleasesHandles == CryptoSpec => []HmacReleases
  <1>1. CryptoInv => HmacReleases
    BY DEF CryptoInv
  <1>2. QED
    BY <1>1, CryptoInvariance, PTL

(* What is decrypted carries the mac it was compared with, and unless HKDF *)
(* or HMAC failed unnoticed was sealed by encrypt_lua.py with the salt and *)
(* nonce of the package.                                                   *)
THEOREM SealedOnly == CryptoSpec => []OnlySealedDecrypts
  <1>1. ASSUME CryptoInv, Authentic PROVE pkg \in Sealed
    <2>1. pkg.salt \in Salts /\ pkg.nonce \in Nonces
      BY <1>1 DEF CryptoInv, TypeInv, Package
    <2>2. QED
      BY <1>1, <2>1 DEF Authentic, Sealed
  <1>2. ASSUME CryptoInv, pkg.mac = macCmp, macCmp # ZeroMac, okm # "zero"
        PROVE  pkg \in Sealed /\ len >= HeaderSz
    BY <1>1, <1>2, MacMatches DEF CryptoInv
  <1>3. CryptoInv => OnlySealedDecrypts
    BY <1>2 DEF CryptoInv, CheckedInv, OnlySealedDecrypts, AesSteps
  <1>4. QED
    BY <1>3, CryptoInvariance, PTL

(* The HMAC and the cipher read up to the end of a buffer that holds a     *)
(* header, and not beyond: neither subtraction of lengths wraps.           *)
THEOREM ExactReads == CryptoSpec => []ReadsWholeBuffer
  <1>1. ASSUME CryptoInv, len >= HeaderSz
        PROVE  /\ SaltSz + MacSz + HmacLength = len
               /\ HeaderSz + AesLength = len
    <2>1. len \in 0..SizeMax-1 /\ SizeMax \in Nat
      BY <1>1, CryptoAssumption DEF CryptoInv, TypeInv
    <2>2. SaltSz + MacSz + HmacLength = len
      BY <1>1, <2>1, OverrunIsShort, Sizes DEF CryptoInv
    <2>3. HeaderSz \in 0..len
      BY <1>1, <2>1, Sizes
    <2>4. QED
      BY <2>1, <2>2, <2>3, MinusExact, Sizes DEF AesLength
  <1>2. CryptoInv => ReadsWholeBuffer
    BY <1>1 DEF ReadsWholeBuffer
  <1>3. QED
    BY <1>2, CryptoInvariance, PTL

(* LuaRuntimeTA takes verify_and_decrypt_script for one of the outcomes of *)
(* VerifyAndDecrypt, with an underflow only where MayUnderflow says so:    *)
(* whatever call fails, on whatever package, there is no other.            *)
THEOREM AsAbstracted == CryptoSpec => []OutcomeAsAbstracted
  <1>1. ASSUME CryptoInv PROVE len \in Nat /\ HeaderSz = 88 /\ SaltSz + MacSz = 80
    BY <1>1, CryptoAssumption, Sizes DEF CryptoInv, TypeInv
  <1>2. ASSUME CryptoInv, len >= HeaderSz
        PROVE  AsPayload = [kind |-> IF pkg \in Sealed THEN "sealed"
                                     ELSE IF pkg.mac \in UnkeyedMacs THEN "unkeyed"
                                     ELSE "corrupt",
                            script |-> pkg.body.text]
    BY <1>1, <1>2 DEF AsPayload
  <1>3. ASSUME CryptoInv, pkg.mac = macCmp, len >= HeaderSz
        PROVE  pkg \in Sealed \/ pkg.mac \in UnkeyedMacs
    <2>1. CASE macCmp = ZeroMac
      BY <1>3, <2>1 DEF UnkeyedMacs
    <2>2. CASE macCmp # ZeroMac /\ okm = "zero"
      <3>1. macCmp = Hmac(ZeroKey, pkg.nonce, pkg.body)
        BY <1>3, <2>2 DEF CryptoInv, MacInv, MacOfBuffer, DerivedKey
      <3>2. pkg.nonce \in Nonces /\ pkg.body \in Bodies
        BY <1>3 DEF CryptoInv, TypeInv, Package
      <3>3. QED
        BY <1>3, <3>1, <3>2 DEF UnkeyedMacs
    <2>3. CASE macCmp # ZeroMac /\ okm # "zero"
      <3>1. Authentic
        BY <1>3, <2>3, MacMatches DEF CryptoInv
      <3>2. pkg.salt \in Salts /\ pkg.nonce \in Nonces
        BY <1>3 DEF CryptoInv, TypeInv, Package
      <3>3. QED
        BY <3>1, <3>2 DEF Authentic, Sealed
    <2>4. QED
      BY <2>1, <2>2, <2>3
  <1>4. ASSUME CryptoInv, pc = "done" PROVE out \in VerifyAndDecrypt(AsPayload)
    <2>1. CASE out = Zeros
      BY <2>1 DEF VerifyAndDecrypt
    <2>2. CASE out # Zeros
      <3>1. pkg.mac = macCmp /\ len >= HeaderSz
        BY <1>4, <2>2 DEF CryptoInv, CheckedInv
      <3>2. out \in {Garbled, Text(IF pkg \in Sealed THEN "sealed" ELSE "unverified",
                                   pkg.body.text)}
        BY <1>4, <2>2 DEF CryptoInv, TypeInv
      <3>3. CASE pkg \in Sealed
        <4>1. AsPayload.kind = "sealed" /\ AsPayload.script = pkg.body.text
          BY <1>2, <1>4, <3>1, <3>3
        <4>2. QED
          BY <3>2, <3>3, <4>1 DEF VerifyAndDecrypt
      <3>4. CASE pkg \notin Sealed
        <4>1. AsPayload.kind = "unkeyed" /\ AsPayload.script = pkg.body.text
          BY <1>2, <1>3, <1>4, <3>1, <3>4
        <4>2. QED
          BY <3>2, <3>4, <4>1 DEF VerifyAndDecrypt
      <3>5. QED
        BY <3>3, <3>4
    <2>3. QED
      BY <2>1, <2>2
  <1>5. ASSUME CryptoInv, HmacOverrun \/ AesOverrun PROVE MayUnderflow(AsPayload, TRUE)
    <2>1. len < HeaderSz
      BY <1>1, <1>5, OverrunIsShort, AesOverrunIsShort DEF CryptoInv
    <2>2. AsPayload.kind = "short"
      BY <2>1 DEF AsPayload
    <2>3. QED
      BY <2>2 DEF MayUnderflow
  <1>6. CryptoInv => OutcomeAsAbstracted
    BY <1>4, <1>5 DEF OutcomeAsAbstracted
  <1>7. QED
    BY <1>6, CryptoInvariance, PTL
=============================================================================
