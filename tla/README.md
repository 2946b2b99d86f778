# TLA+ models of the mlspp cryptographic core

This directory holds TLA+ models of the MLS cryptographic core in
`src/src/crypto.cpp`, the TLC configurations that check them, and
`PROJECT.json`, which maps every modelled definition to its source lines.
It also lists the runs, the mutants each property must catch, the findings
and the hazards.

## The system

The core is stateless. A `CipherSuite` is an ID that is fixed once it is
constructed. Keys are immutable pairs of byte strings. Ciphertexts and
signatures are plain values. Its parts interact as follows.

* **Ciphersuite registry** (crypto.cpp 20-150, 187-194).
  * `CipherSuite::get()` maps each of the six supported IDs to a bundle of
    (HPKE kem/kdf/aead, digest, signature). The bundles are function-local
    statics. `unknown` and every other ID throw `InvalidParameterError`.
  * `signature_scheme()` is a second, independent switch over suite IDs.
  * `tls_signature_scheme()` maps a signature algorithm to its TLS code point.
* **Key-schedule helpers** (152-217).
  * `expand_with_label` builds the TLS-encoded `HKDFLabel`: the length, cast
    to `uint16_t`, then `"mls10 " + label`, then the context. It then calls
    HKDF-Expand of the suite's KDF.
  * `derive_secret` calls `expand_with_label` with an empty context and
    `secret_size()` octets.
  * `reference_label<T>` gives the label of KeyPackageRef and ProposalRef.
* **HPKE key types** (219-309). `HPKEPublicKey::encrypt/do_export` and
  `HPKEPrivateKey::generate/parse/derive/decrypt/do_export`. Every call
  takes the suite as an argument and deserializes the stored bytes under it.
* **Signature key types** (311-387). `SignaturePrivateKey::generate`,
  `parse`, `derive` and `sign`, and `SignaturePublicKey::verify`, over the
  TLS encoding of `SignContent{label, content}`.
* **Sign labels** (317-324): `SIGN_LABEL` and the four `sign_label`
  constants, `"MLS 1.0 "` followed by the structure's name.
* **Outside `src/`**, used by the above:
  * the hpke library (KEM, KDF, AEAD, signatures);
  * the TLS codec (`tls::marshal`, `tls::get`), which encodes `HKDFLabel`,
    `SignContent` and the public keys;
  * the byte buffer and hex utilities;
  * logging.

* **JSON bridge** of the interop tool (`src/cmd/interop/src/json_details.h`).
  nlohmann `adl_serializer`s convert optionals, 32-bit counters, suites and
  TLS-encoded objects, and `NLOHMANN_DEFINE_TYPE_NON_INTRUSIVE` converts the
  test-vector structs, from and to JSON. Test vectors written by this side
  or by another implementation are read back through them.

Nothing runs concurrently inside the core, and nothing is persisted. What
makes it hard is the order in which an application and the network combine
calls:
* a key made under one suite may be parsed or used under another;
* the two halves of a ciphertext travel separately;
* a signature is presented with any label, message and key;
* a caller derives secrets from secrets it derived before.

The models let TLC explore every such sequence up to small bounds.

## Modules

| Module | Models | State / actions |
|---|---|---|
| `CipherSuite` | the registry | pure operators. `CiphersTable` holds the six statics of `get()`, and `get(id)` yields the error value for other IDs. The module also defines `signature_scheme`, `tls_signature_scheme`, `all_supported_suites`, and the error values `InvalidParameterError` and `HPKEDecryptionError`. |
| `HPKE` | hpke library, symbolic (spec 4.C, 4.D) | pure operators. Serialized keys carry their length class (Nsk/Npk of RFC 9180). Deserializing under a KEM of another length fails; bytes of the same length become a key of the new KEM. `Seal` records key, nonce, aad and plaintext, and `Open` succeeds only for the same key, nonce and aad. `KeySchedule` binds the whole HPKE triple, the shared secret and info. |
| `Signature` | signature primitives, symbolic | `SigSign` records the signer and the content. `SigVerify` accepts exactly that signature for the matching public key. |
| `HPKEKeys` | HPKE key types | **Variables:** `keys` (held `HPKEPrivateKey`s), `cts` (encrypt log), `exps` (sender exports), `fresh` (random values drawn) and `result` (the last read-only call and its outcome). **Actions:** one per method: `generate`, `parse`, `derive`, `encrypt`, `export_s` (`HPKEPublicKey::do_export`), `decrypt`, `export_r` (`HPKEPrivateKey::do_export`). `decrypt` receives any recombination of logged `kem_output` and `ciphertext` fields (`Delivered`). |
| `SignatureKeys` | signature key types | **Variables:** `keys`, `sigs` (sign log), `fresh` and `result`. **Actions:** `generate`, `parse`, `derive`, `sign`, `verify`. `verify` receives any logged signature with any key, label, message and suite. |
| `LabeledKDF` | key-schedule helpers | **Variable:** `outs`, the log of successful calls, each with the `info` octets it expanded under. `HKDFLabel` is marshalled through `TLSSyntax`, and labels are octet sequences prefixed with `"mls10 "`. **Actions:** `ExpandWithLabel`, `DeriveSecret` and `MakeReference`, over secrets the caller holds (its initial ones and every earlier output). A call that throws changes nothing. |
| `IdealHPKE` | what the HPKE key types promise (spec 4.D, 4.F) | **Variables:** `sent` (encryptions), `exported` (sender exports), `last` (the last decrypt or receiver export with its outcome). **Actions:** `Encrypt` and `ExportSender` add an entry with an encapsulation never seen before. `Decrypt` returns the plaintext of the encryption with this exact ciphertext, info and aad to a public key the key `Owns`, and fails otherwise. `ExportReceiver` returns the matching sender export, or a value no sender export has. |
| `JSONBridge` | JSON bridge | **Variables:** `doc` (a document on disk: its type, its JSON, and the value written, if this side wrote it) and `read` (the outcome of reading it). **Actions:** `WriteVector` (this side's `to_json`), `ForeignVector` (any document from another implementation), `ReadVector` (`from_json` under the document's type). `ToJson`/`FromJson` are recursive operators that dispatch on the type, as the `adl_serializer` specializations do. |
| `TLSSyntax` | TLS codec (spec 4.B, 6; not under `src/`) | pure operators. `EncodeVarint`/`ReadVarint` are the MLS varint (two prefix bits give 1, 2 or 4 octets, and the value must need that size). `Marshal(T, v)` and `Read(T, b)` are recursive over a type: `u16`, `opaque` (varint length, then the octets), `optional` (tag 0 or 1), `struct` (members in order). `Get` also rejects trailing bytes. |
| `MCHPKEKeys`, `MCSignatureKeys`, `MCLabeledKDF`, `MCJSONBridge` | TLC instances | model values, bounds, symmetry |

The two key-type modules and `LabeledKDF` all extend `CipherSuite`.
`HPKEKeys` uses `HPKE` and `SignatureKeys` uses `Signature`, exactly as the
C++ calls `suite.hpke()` and `suite.sig()`. `JSONBridge` instantiates
`TLSSyntax` as `TLS` and uses it for its TLS-serialized objects, and
`LabeledKDF` and `SignatureKeys` marshal `HKDFLabel` and `SignContent`
through the same operators. The codec's own round trip is not a property
of any run: the library is not under `src/`, so no code of this
repository could break it. What the structs of crypto.cpp add to it (their
member lists) is checked by `DomainSeparated` and `VerifySound`.
`SignatureKeys` defines the `sign_label` constants, and the signature run
signs under two of them. `from_ascii` of a literal is written as the
sequence of its ASCII codes, and prefixing is sequence concatenation.

**Refinement.** `HPKEKeys` instantiates `IdealHPKE` as `Ideal`:
* `sent <- cts` and `exported <- exps` (the logs are the ideal state);
* `last <- LastCall`, the `result` of a `decrypt` or `export_r` with a
  thrown exception mapped to `Failed`;
* `Owns(key, suite, pub, sentSuite)`: both suites are supported with the
  same HPKE triple, and the key's bytes read under the suite's KEM have
  `pub` as their public half.

`IdealHPKESpec == Ideal!Spec` is checked as a `PROPERTY`. The other actions
(generate, parse, derive, failing calls) map to `Other`, which changes
neither log.

**JSON values.** A JSON value is a record tagged with nlohmann's value type
(`number_unsigned`, `number_integer`, `number_float`, `boolean`, `string`,
`object`, `null`). A C++ value has one record shape per type: a counter is a
`Num`, a suite `[id]`, bytes and TLS objects `[octets]`, an optional
`[some, val]`, a struct a record of its members. Counters are kept as
`Num(hi, lo)`, meaning hi·65536 + lo, because TLC's integers cannot hold
2^32. `Cast32` and `Cast16` are the `static_cast`s nlohmann's `get_to`
applies.

Each module contains some `...Swapped`, `...Copied` and similar
definitions. These are faulty variants of the definition that follows them:
mutants that the named property must catch (see `PROJECT.json`).

## Runs

| Run | Config | Result | What it shows |
|---|---|---|---|
| `hpke_keys` | `MCHPKEKeys.cfg` | pass (about 12k states) | See below. |
| `hpke_error_kind` | `MCHPKEKeysErrorKind.cfg` | violation | `DecryptFailureKind`. A decrypt under an info or aad other than the encryption's makes AEAD open fail, and `decrypt` throws `InvalidParameterError` (crypto.cpp:286), the type `get()` throws for an unsupported suite; the spec (4.F, 7) gives decryption failure its own role, `HPKEDecryptionError`. |
| `signature_keys` | `MCSignatureKeys.cfg` | pass (about 10k states) | See below. |
| `labeled_kdf` | `MCLabeledKDF.cfg` | pass (about 6k states) | See below. |
| `hpke_refines_ideal` | `MCHPKEKeysIdeal.cfg` | pass (about 12k states) | `IdealHPKESpec`: the HPKE key types implement `IdealHPKE`. |
| `json_bridge` | `MCJSONBridge.cfg` | pass (291 states) | See below. |

**`hpke_keys`:**
* `HPKERoundTrip`: decrypt returns the plaintext for an untampered
  ciphertext under a suite whose KEM reads the key as the one encrypted to.
* `DecryptAuthentic`: decrypt returns a plaintext only when one encrypt
  produced exactly this `kem_output` and `ciphertext` under the same info
  and aad, to this key's public half.
* `ExportAgreement`: the receiver's export over the sender's `enc` equals
  the sender's value.

**`signature_keys`:**
* `SignatureRoundTrip`: a signature verifies under its key's stored public
  key, the same label and message, and any suite sharing the algorithm.
* `VerifySound`: verify accepts only a signature sign made over this exact
  label and message, by a key whose public half is the verifying key.

**`labeled_kdf`:**
* `OutputsIndependent`: two outputs of one HKDF stream asked for the same
  length. This depends on the uint16 cast: narrowing to 8 bits (mutant
  `expand_with_label_u8`) folds 288 onto 32. The 16-bit cast itself is
  safe because HKDF-Expand (RFC 5869, which the hpke library's KDFs
  implement per RFC 9180, spec 4.D) accepts at most 255·Nh octets, less
  than 2^16 for every KDF; this bound is taken from the RFC, not from
  code under `src/`, and it is what makes the 65568 request fail.
* `DeriveSecretSize`: `derive_secret` yields Nh octets of the suite's KDF.
* `DomainSeparated`: two outputs of one HKDF stream were expanded under the
  same `info` octets. Every derivation, `derive_secret` and each kind of
  reference included, expands under its own TLS-encoded `HKDFLabel`, so a
  KeyPackageRef never equals a ProposalRef. Writing the label without its
  length prefixes (mutant `HKDFLabelConcat`) breaks it.
* `SignatureSchemeAgrees`: for all six supported suites, EdDSA and ECDSA
  alike, `signature_scheme()` agrees with `tls_signature_scheme(sig())`.
  It does not depend on the calls made; a P-521 case naming the P-384
  scheme (mutant `signature_scheme_copied`) breaks it.

**`hpke_refines_ideal`:** every behaviour of the key types, with keys used
under any suite and ciphertexts recombined, is one of ideal HPKE.
Encapsulations are fresh. `decrypt` succeeds exactly for the matching
encryption to a key it owns, and returns its plaintext. A receiver export
equals the matching sender export, and otherwise equals no sender export.
This is stronger than `DecryptAuthentic` and `ExportAgreement`: it also
requires failure whenever no encryption matches, and fresh ephemerals.

**`json_bridge`:**
* `AcceptsConforming`: every document of the form spec 4.H prescribes (plain
  numbers, 16-bit suite IDs, even-length hex, for a TLS object the hex of a
  minimal varint length and exactly that many octets, objects with exactly
  the struct's members) is read, and writing the value read gives back the
  same document. The form is defined by how a writer produces it, not by
  what the reader accepts.
* `WriteReadRoundTrip`: a document this side wrote reads back as the value
  written.

### Bounds

**HPKE run.**
* Suites: `{unknown, 1, 2, 3}`.
  * `unknown` exercises every error path.
  * Suites 1 and 3 share the X25519 KEM but differ in the AEAD, so a key is
    valid under both while the contexts differ.
  * Suite 2 (P256) has the same private-key length as X25519 and a
    different public-key length. This is the cross-suite case where parse
    silently changes a key.
  * Suites 4-6 repeat these shapes with other sizes.
* Two info/aad values (`b1`, `b2`, symmetric) make a swapped or wrong value
  observable.
* One plaintext is enough: authenticity is judged on the encrypt log, not
  on the plaintext value.
* `MaxFresh = 3` and `MaxKeys = 2` allow two keys and a ciphertext, or one
  key and two ciphertexts. Two ciphertexts are the smallest case in which
  fields can be recombined.

**Signature run.**
* The same suites. 1 and 3 share Ed25519, and 2 (P256) has Ed25519's
  private-key length.
* Two labels, `sign_label.mls_content` and `sign_label.leaf_node`, and two
  messages. The messages are the one-octet sequences `<<m1>>` and
  `<<m2>>` with m1, m2 symmetric model values; the labels are octet
  sequences, so they are not symmetric.
* `MaxFresh = 2`, `MaxKeys = 3`, `MaxSigs = 2`: two signatures let a
  signature of one key or label meet a verify with another.

**KDF run.**
* Suites: `unknown` and all six supported suites, so every case of both
  signature-scheme switches and every (digest, KDF) bundle is compared.
  Suites 1-3 use HKDF-SHA256 (Nh 32), 4-6 HKDF-SHA512 (Nh 64).
* Lengths: `{32, 288, 65568}`.
  * 65568 = 65536 + 32 wraps to 32 in the uint16 field. HKDF-Expand rejects
    it for every KDF, since it is more than 255·Nh.
  * 288 is accepted for both KDFs.
* Labels `<<1>>`, `<<1, 1>>` and contexts `<<>>`, `<<1>>`: without the
  length prefixes, label `<<1>>` with context `<<1>>` and label `<<1, 1>>`
  with context `<<>>` give the same octets. `MaxDerivations = 2`: two outputs of one
  secret (the colliding pair above, or 32 and 288 octets of one label), or
  a derivation from an earlier output.

**JSON run.**
* Types: a counter, a suite, bytes, a TLS object, an optional counter, and
  two structs (`TreeMath`: a counter and an optional; `KeySched`: a suite and
  bytes). These are every serializer and one level of nesting.
* Counters 0, 1 and 2^32-1, the top edge. Suites 1 and 2. Bytes of length 0,
  1 and 2, including 0 and 255.
* Foreign documents: each nlohmann number type, 2^16+1 and 2^32 (wrap
  edges), -1, 3/2, `true`, `null`, odd-length and non-hex strings, a TLS
  length prefix that disagrees with its payload, a two-octet varint for a
  one-octet length, and objects that conform,
  lack a member, carry an extra member, or carry suite 7.

**Result-only calls.** `decrypt`, `export_r` and `verify` change no state.
They only set `result`, which every other action resets. The MC modules
declare `CONSTRAINT MCResultIsLeaf`: states that hold a result are still
checked against every invariant, but TLC does not expand them. This is
sound because a successor of such a state equals a successor of its
predecessor, apart from `result`.

No run needs `CHECK_DEADLOCK FALSE`, because a failing call is always
enabled.

### Fairness

None. The core has no waiting, retries or background work. Every operation
returns or throws synchronously, so every property is a safety property.

## Findings

* **Decrypt error kind** (spec/code divergence, `hpke_error_kind`).
  `HPKEPrivateKey::decrypt` signals an AEAD failure with
  `InvalidParameterError`, the same type `get()` (crypto.cpp:127, 148)
  throws for an unsupported suite. Spec 4.F and 7 give decryption failure
  its own error role, `HPKEDecryptionError`, which the code never throws,
  so a caller cannot tell a failed open from a bad suite or key. The trace
  encrypts under suite 2 and decrypts with a different info or aad.

## Not modelled, and the plan

These parts are not modelled yet, in this order:

1. **TLS codec, rest**: fixed-width 8/32/64-bit integers, fixed arrays and
   tagged sums. No struct under `src/` uses them. The codec's round trip
   and canonical decoding are properties of the library, which is not
   under `src/`; they are assumed, not checked.
2. **HPKE context** (spec 4.D): the sequence counter and nonce derivation.
   The key types use single-shot contexts only, so `IdealHPKE` has no
   sequence numbers.
3. **Byte and hex utilities**: their own module. `JSONBridge` already models
   `to_hex`/`from_hex` as the bridge uses them, from the spec.

These parts stay out of scope:
* Logging only writes diagnostics.
* The bit-level cryptography is abstracted by the symbolic models.
* The JSON reader's treatment of input outside the written form
  (`true` read as the counter 1, a suite of 65537 as suite 1, by
  nlohmann's `static_cast`): spec section 1 puts the JSON serializer out of
  scope and 4.H prescribes only the written form, so nothing says such
  input must be rejected.
* The static-initialization order of the `sign_label` constants is not
  modelled. Their values are modelled. No code under `src/` reads them
  during static initialization, so no state of this code reaches the
  empty label.
* The thread-safety of the `get()` statics is a C++11 language guarantee
  that a state model cannot add to.
