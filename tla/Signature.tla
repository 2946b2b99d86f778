------------------------------ MODULE Signature ------------------------------
(***************************************************************************)
(* Symbolic model of the signature primitives the core calls through      *)
(* suite.sig() (spec section 4.C; the library is not part of src/).  As   *)
(* in HPKE, serialized keys carry their length class (RFC 8032 and SEC1   *)
(* uncompressed sizes) and bytes of one algorithm read under another of   *)
(* the same length give a key of that other algorithm.  A signature       *)
(* records who signed what; verify accepts exactly the signatures of the  *)
(* matching key over the same content (EUF-CMA in the symbolic sense).    *)
(***************************************************************************)
EXTENDS Naturals, CipherSuite

SigAlgs == {"Ed25519", "P256_SHA256", "Ed448", "P521_SHA512"}

SigSkLen == [a \in SigAlgs |-> CASE a = "Ed25519"     -> 32
                               [] a = "P256_SHA256" -> 32
                               [] a = "Ed448"       -> 57
                               [] a = "P521_SHA512" -> 66]
SigPkLen == [a \in SigAlgs |-> CASE a = "Ed25519"     -> 32
                               [] a = "P256_SHA256" -> 65
                               [] a = "Ed448"       -> 57
                               [] a = "P521_SHA512" -> 133]

\* sig.serialize_private / sig.serialize
SigSerializePrivate(alg, sec) == [kind |-> "priv", len |-> SigSkLen[alg], sec |-> sec]
SigSerializePublic(alg, sec)  == [kind |-> "pub", len |-> SigPkLen[alg], alg |-> alg, sec |-> sec]

\* sig.deserialize_private / sig.deserialize
SigDeserializePrivate(alg, data) ==
  IF data.kind = "priv" /\ data.len = SigSkLen[alg]
  THEN [alg |-> alg, sec |-> data.sec] ELSE InvalidParameterError
SigDeserializePublic(alg, data) ==
  IF data.kind = "pub" /\ data.len = SigPkLen[alg]
  THEN [alg |-> alg, sec |-> data.sec] ELSE InvalidParameterError

\* sig.derive_key_pair(secret)
SigDeriveKeyPair(alg, secret) == [alg |-> alg, sec |-> <<"derived", alg, secret>>]

\* sig.sign(content, priv) and sig.verify(content, signature, pub).
SigSign(content, priv) == [alg |-> priv.alg, sec |-> priv.sec, content |-> content]
SigVerify(content, signature, pub) ==
  signature = [alg |-> pub.alg, sec |-> pub.sec, content |-> content]
=============================================================================
