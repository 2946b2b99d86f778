-------------------------------- MODULE HPKE --------------------------------
(***************************************************************************)
(* Symbolic model of the HPKE library the core calls (spec sections 4.C   *)
(* and 4.D; the library itself is not part of src/).  Key material is a    *)
(* record naming the algorithm and an abstract secret; public values,      *)
(* shared secrets, AEAD keys and ciphertexts are records built from the   *)
(* values they depend on, so two of them are equal exactly when the real   *)
(* computation would (in the ideal-cryptography sense) give equal bytes.  *)
(*                                                                         *)
(* Serialized keys carry their length class: deserializing bytes under an  *)
(* algorithm whose encoding has another length fails, and bytes of the     *)
(* same length are read as a key of the new algorithm.  The lengths are   *)
(* the Nsk / Npk / Nenc values of RFC 9180, section 7.1.                   *)
(***************************************************************************)
EXTENDS Naturals, CipherSuite

\* No plaintext: what AEAD open returns on failure (an empty optional).
NoPlaintext == [none |-> "plaintext"]

KEMs == {"DHKEM_X25519_SHA256", "DHKEM_P256_SHA256",
         "DHKEM_X448_SHA512", "DHKEM_P521_SHA512"}

\* Nsk and Npk (= Nenc) of each DHKEM.
Nsk == [k \in KEMs |-> CASE k = "DHKEM_X25519_SHA256" -> 32
                         [] k = "DHKEM_P256_SHA256"   -> 32
                         [] k = "DHKEM_X448_SHA512"   -> 56
                         [] k = "DHKEM_P521_SHA512"   -> 66]
Npk == [k \in KEMs |-> CASE k = "DHKEM_X25519_SHA256" -> 32
                         [] k = "DHKEM_P256_SHA256"   -> 65
                         [] k = "DHKEM_X448_SHA512"   -> 56
                         [] k = "DHKEM_P521_SHA512"   -> 133]

\* kem.serialize_private / kem.serialize: the bytes of a private key and of
\* the public key derived from it.  Private bytes are the raw secret, so the
\* same secret has the same bytes under two KEMs of equal Nsk; public bytes
\* depend on the KEM.
SerializePrivate(kem, sec) == [kind |-> "priv", len |-> Nsk[kem], sec |-> sec]
SerializePublic(kem, sec)  == [kind |-> "pub",  len |-> Npk[kem], kem |-> kem, sec |-> sec]

\* kem.deserialize_private / kem.deserialize: fail on a length mismatch,
\* otherwise read the bytes as a key of `kem`.
DeserializePrivate(kem, data) ==
  IF data.kind = "priv" /\ data.len = Nsk[kem]
  THEN [kem |-> kem, sec |-> data.sec] ELSE InvalidParameterError
DeserializePublic(kem, data) ==
  IF data.kind = "pub" /\ data.len = Npk[kem]
  THEN [kem |-> kem, sec |-> data.sec] ELSE InvalidParameterError

\* kem.derive_key_pair(ikm): DeriveKeyPair extracts under the KEM's own
\* suite_id, so the secret depends on the KEM and the seed only.
DeriveKeyPair(kem, ikm) == [kem |-> kem, sec |-> <<"derived", kem, ikm>>]

\* DH shared secret of an ephemeral secret and a recipient secret.
SharedSecret(kem, ephSec, rcptSec) == <<"shared", kem, ephSec, rcptSec>>

\* Encap(pkR) with ephemeral secret eph: (enc, shared_secret).
Encap(pkR, eph) ==
  [enc |-> SerializePublic(pkR.kem, eph),
   shared |-> SharedSecret(pkR.kem, eph, pkR.sec)]

\* Decap(enc, skR): deserializing enc under skR's KEM may fail.
Decap(enc, skR) ==
  LET pkE == DeserializePublic(skR.kem, enc)
  IN IF IsError(pkE) THEN InvalidParameterError
     ELSE SharedSecret(skR.kem, pkE.sec, skR.sec)

\* KeySchedule(mode_base, shared, info, "", ""): the HPKE suite_id binds
\* the whole (KEM, KDF, AEAD) triple into key, base_nonce and exporter.
KeySchedule(suite, shared, info) ==
  [key      |-> <<"key", suite, shared, info>>,
   nonce    |-> <<"base_nonce", suite, shared, info>>,
   exporter |-> <<"exp", suite, shared, info>>,
   seq      |-> 0]

\* setup_base_s / setup_base_r.
SetupBaseS(suite, pkR, info, eph) ==
  LET e == Encap(pkR, eph)
  IN [enc |-> e.enc, ctx |-> KeySchedule(suite, e.shared, info)]
SetupBaseR(suite, enc, skR, info) ==
  LET shared == Decap(enc, skR)
  IN IF IsError(shared) THEN InvalidParameterError
     ELSE KeySchedule(suite, shared, info)

\* Nonce of a context's current sequence number (base_nonce XOR seq).
ComputeNonce(ctx) == <<ctx.nonce, ctx.seq>>

\* Single-shot seal / open at the context's sequence number.
Seal(ctx, aad, pt) ==
  [key |-> ctx.key, nonce |-> ComputeNonce(ctx), aad |-> aad, pt |-> pt]
Open(ctx, aad, ct) ==
  IF ct.key = ctx.key /\ ct.nonce = ComputeNonce(ctx) /\ ct.aad = aad
  THEN ct.pt ELSE NoPlaintext

\* ctx.do_export(label, L) = LabeledExpand(exporter_secret, "sec", label, L).
Export(ctx, label, size) ==
  [exporter |-> ctx.exporter, label |-> label, size |-> size]
=============================================================================
