---------------------------- MODULE CipherSuite ----------------------------
(***************************************************************************)
(* The ciphersuite registry of src/src/crypto.cpp: the closed set of MLS   *)
(* ciphersuite IDs, the (HPKE, Digest, Signature) bundle CipherSuite::get  *)
(* returns for each, the TLS signature scheme of a suite and of a          *)
(* signature algorithm.  A CipherSuite carries no mutable state, so the    *)
(* registry is a set of pure operators.  A failed lookup is the value      *)
(* InvalidParameterError, the exception the code throws.                   *)
(***************************************************************************)
EXTENDS Naturals

\* The exception kinds the core can raise (spec section 7), as records so
\* that they compare with the record values operations return.
InvalidParameterError == [error |-> "InvalidParameterError"]
HPKEDecryptionError   == [error |-> "HPKEDecryptionError"]
Errors == {InvalidParameterError, HPKEDecryptionError}

IsError(v) == v \in Errors

\* CipherSuite::ID values (the 16-bit codes of the MLS registry).
unknown                                == 0
X25519_AES128GCM_SHA256_Ed25519        == 1
P256_AES128GCM_SHA256_P256             == 2
X25519_CHACHA20POLY1305_SHA256_Ed25519 == 3
X448_AES256GCM_SHA512_Ed448            == 4
P521_AES256GCM_SHA512_P521             == 5
X448_CHACHA20POLY1305_SHA512_Ed448     == 6

\* all_supported_suites
all_supported_suites == 1..6

\* tls_signature_scheme(Signature::ID): the switch over signature IDs.
tls_signature_scheme(sigId) ==
  CASE sigId = "P256_SHA256" -> "ecdsa_secp256r1_sha256"
    [] sigId = "P384_SHA384" -> "ecdsa_secp384r1_sha384"
    [] sigId = "P521_SHA512" -> "ecdsa_secp521r1_sha512"
    [] sigId = "Ed25519"     -> "ed25519"
    [] sigId = "Ed448"       -> "ed448"
    [] sigId = "RSA_SHA256"  -> "rsa_pkcs1_sha256"
    [] OTHER                 -> InvalidParameterError

\* Faulty variant: the P-521 case names the P-384 scheme.
signature_scheme_copied(id) ==
  CASE id \in {X25519_AES128GCM_SHA256_Ed25519,
               X25519_CHACHA20POLY1305_SHA256_Ed25519} -> "ed25519"
    [] id = P256_AES128GCM_SHA256_P256                  -> "ecdsa_secp256r1_sha256"
    [] id \in {X448_AES256GCM_SHA512_Ed448,
               X448_CHACHA20POLY1305_SHA512_Ed448}     -> "ed448"
    [] id = P521_AES256GCM_SHA512_P521                  -> "ecdsa_secp384r1_sha384"
    [] OTHER                                            -> InvalidParameterError

\* CipherSuite::signature_scheme(): a second, independent switch over the
\* suite IDs.
signature_scheme(id) ==
  CASE id \in {X25519_AES128GCM_SHA256_Ed25519,
               X25519_CHACHA20POLY1305_SHA256_Ed25519} -> "ed25519"
    [] id = P256_AES128GCM_SHA256_P256                  -> "ecdsa_secp256r1_sha256"
    [] id \in {X448_AES256GCM_SHA512_Ed448,
               X448_CHACHA20POLY1305_SHA512_Ed448}     -> "ed448"
    [] id = P521_AES256GCM_SHA512_P521                  -> "ecdsa_secp521r1_sha512"
    [] OTHER                                            -> InvalidParameterError

\* One Ciphers bundle: the HPKE triple, the digest and the signature.
Bundle(kem, kdf, aead, digest, sig) ==
  [hpke |-> [kem |-> kem, kdf |-> kdf, aead |-> aead],
   digest |-> digest, sig |-> sig]

\* Faulty variant: the X448/AES-256 bundle keeps the SHA256 digest of the
\* bundle it was copied from.
CiphersTableCopied ==
  [id \in all_supported_suites |->
     CASE id = 1 -> Bundle("DHKEM_X25519_SHA256", "HKDF_SHA256",
                           "AES_128_GCM", "SHA256", "Ed25519")
       [] id = 2 -> Bundle("DHKEM_P256_SHA256", "HKDF_SHA256",
                           "AES_128_GCM", "SHA256", "P256_SHA256")
       [] id = 3 -> Bundle("DHKEM_X25519_SHA256", "HKDF_SHA256",
                           "CHACHA20_POLY1305", "SHA256", "Ed25519")
       [] id = 4 -> Bundle("DHKEM_X448_SHA512", "HKDF_SHA512",
                           "AES_256_GCM", "SHA256", "Ed448")
       [] id = 5 -> Bundle("DHKEM_P521_SHA512", "HKDF_SHA512",
                           "AES_256_GCM", "SHA512", "P521_SHA512")
       [] id = 6 -> Bundle("DHKEM_X448_SHA512", "HKDF_SHA512",
                           "CHACHA20_POLY1305", "SHA512", "Ed448")]

\* The six function-local statics of CipherSuite::get().
CiphersTable ==
  [id \in all_supported_suites |->
     CASE id = 1 -> Bundle("DHKEM_X25519_SHA256", "HKDF_SHA256",
                           "AES_128_GCM", "SHA256", "Ed25519")
       [] id = 2 -> Bundle("DHKEM_P256_SHA256", "HKDF_SHA256",
                           "AES_128_GCM", "SHA256", "P256_SHA256")
       [] id = 3 -> Bundle("DHKEM_X25519_SHA256", "HKDF_SHA256",
                           "CHACHA20_POLY1305", "SHA256", "Ed25519")
       [] id = 4 -> Bundle("DHKEM_X448_SHA512", "HKDF_SHA512",
                           "AES_256_GCM", "SHA512", "Ed448")
       [] id = 5 -> Bundle("DHKEM_P521_SHA512", "HKDF_SHA512",
                           "AES_256_GCM", "SHA512", "P521_SHA512")
       [] id = 6 -> Bundle("DHKEM_X448_SHA512", "HKDF_SHA512",
                           "CHACHA20_POLY1305", "SHA512", "Ed448")]

\* CipherSuite::get(): unknown and every unsupported ID throw.
get(id) ==
  IF id \in DOMAIN CiphersTable THEN CiphersTable[id]
  ELSE InvalidParameterError

\* get() succeeds.
Supported(id) == id \in DOMAIN CiphersTable

\* The accessors suite.hpke(), suite.sig(), suite.digest() go through get();
\* callers test Supported(id) first, as get() throws otherwise.
hpke(id)   == IF Supported(id) THEN get(id).hpke ELSE InvalidParameterError
sig(id)    == get(id).sig
digest(id) == get(id).digest

\* Digest output sizes in octets; secret_size() is the digest's output size.
DigestSize == [d \in {"SHA256", "SHA384", "SHA512"} |->
                 CASE d = "SHA256" -> 32 [] d = "SHA384" -> 48 [] d = "SHA512" -> 64]
secret_size(id) == DigestSize[digest(id)]
=============================================================================
