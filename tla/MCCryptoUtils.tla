--------------------------- MODULE MCCryptoUtils ----------------------------
(***************************************************************************)
(* Instances of CryptoUtils for TLC: two salts, nonces and texts, whose    *)
(* parts may be mixed up; buffer lengths on both sides of every boundary   *)
(* of the header.                                                          *)
(***************************************************************************)
EXTENDS CryptoUtils

Boundaries == {0, SaltSz, SaltSz + MacSz - 1, SaltSz + MacSz, HeaderSz - 1}
=============================================================================
