----------------------------- MODULE LabeledKDF -----------------------------
(***************************************************************************)
(* The key-schedule helpers of src/src/crypto.cpp (lines 152-217):        *)
(* CipherSuite::expand_with_label, derive_secret and the reference labels *)
(* of KeyPackageRef / ProposalRef, driven by a caller that, like the MLS   *)
(* key schedule, derives secrets from secrets it derived before.          *)
(*                                                                         *)
(* HKDF-Expand is modelled by what distinguishes its outputs: the output  *)
(* of Expand(prk, info, L) is the first L octets of a stream fixed by     *)
(* (KDF, prk, info), so two calls that differ only in L give outputs one  *)
(* of which is a prefix of the other.  HKDFLabel puts L into info to      *)
(* prevent that; it is encoded as a uint16 (static_cast<uint16_t>).       *)
(* HKDFLabel is marshalled by the TLS codec (TLSSyntax), and labels,      *)
(* contexts and the label constants are octet sequences (from_ascii of a  *)
(* constant is written out as its ASCII codes).                           *)
(***************************************************************************)
EXTENDS Naturals, FiniteSets, Sequences, CipherSuite

CONSTANTS
  Suites,          \* CipherSuite IDs callers pass
  InitSecrets,     \* secrets the caller starts from (model values)
  Labels,          \* labels passed to expand_with_label / derive_secret
  Contexts,        \* contexts passed to expand_with_label
  Lengths,         \* lengths passed to expand_with_label
  Values,          \* serialized KeyPackages / MLSAuthenticatedContents
  MaxDerivations   \* bound on the number of calls that produce an output

ASSUME MaxDerivations \in Nat /\ Lengths \subseteq Nat

TLS == INSTANCE TLSSyntax

VARIABLES
  outs    \* log of calls that returned: [op, suite, secret, info, out]

vars == <<outs>>

\* The hash length Nh of each KDF (RFC 5869 / RFC 9180).
KDFNh == [k \in {"HKDF_SHA256", "HKDF_SHA384", "HKDF_SHA512"} |->
            CASE k = "HKDF_SHA256" -> 32 [] k = "HKDF_SHA384" -> 48
              [] k = "HKDF_SHA512" -> 64]

\* kdf.extract(salt, ikm)
Extract(kdf, salt, ikm) == [prk |-> <<kdf, salt, ikm>>]

\* kdf.expand(prk, info, L): HKDF-Expand (RFC 5869, which the HPKE
\* library's KDFs implement per RFC 9180) fails when L > 255 * Nh.
Expand(kdf, prk, info, len) ==
  IF len > 255 * KDFNh[kdf] THEN InvalidParameterError
  ELSE [stream |-> <<kdf, prk, info>>, len |-> len]

\* Faulty variant: the members written back to back, without the vectors'
\* length prefixes.
HKDFLabelConcat(length, label, context) == TLS!EncodeU16(length) \o label \o context

\* tls::marshal(HKDFLabel{ length, label, context }): a uint16_t and two
\* opaque<V> vectors.
HKDFLabel(length, label, context) ==
  LET u16 == [k |-> "u16"]
      vec == [k |-> "opaque"]
  IN TLS!Marshal([k |-> "struct", m |-> <<u16, vec, vec>>],
                 <<[u16 |-> length], [opaque |-> label], [opaque |-> context]>>)

\* from_ascii("mls10 " + label)
MlsLabel(label) == <<109, 108, 115, 49, 48, 32>> \o label

\* Faulty variant: the length narrowed to 8 bits instead of 16.
expand_with_label_u8(suite, secret, label, context, length) ==
  IF ~Supported(suite) THEN InvalidParameterError
  ELSE Expand(hpke(suite).kdf, secret,
              HKDFLabel(length % 256, MlsLabel(label), context), length)

\* CipherSuite::expand_with_label: get() throws for an unsupported suite;
\* the length field is length modulo 2^16, while expand gets the full size.
expand_with_label(suite, secret, label, context, length) ==
  IF ~Supported(suite) THEN InvalidParameterError
  ELSE Expand(hpke(suite).kdf, secret,
              HKDFLabel(length % 65536, MlsLabel(label), context), length)

\* CipherSuite::derive_secret: an empty context and secret_size() octets.
derive_secret(suite, secret, label) ==
  IF ~Supported(suite) THEN InvalidParameterError
  ELSE expand_with_label(suite, secret, label, <<>>, secret_size(suite))

\* CipherSuite::reference_label<KeyPackage> and
\* reference_label<MLSAuthenticatedContent>.
\* from_ascii("MLS 1.0 KeyPackage Reference") and
\* from_ascii("MLS 1.0 Proposal Reference").
reference_label(T) ==
  <<77, 76, 83, 32, 49, 46, 48, 32>> \o
  IF T = "KeyPackage"
  THEN <<75, 101, 121, 80, 97, 99, 107, 97, 103, 101, 32,
         82, 101, 102, 101, 114, 101, 110, 99, 101>>
  ELSE <<80, 114, 111, 112, 111, 115, 97, 108, 32,
         82, 101, 102, 101, 114, 101, 110, 99, 101>>

\* make_reference<T>(value) = KDF.expand(KDF.extract("", value), label_T, 16)
\* (spec section 4.G).
make_reference(suite, T, value) ==
  IF ~Supported(suite) THEN InvalidParameterError
  ELSE LET kdf == hpke(suite).kdf
       IN Expand(kdf, Extract(kdf, <<>>, value), reference_label(T), 16)

-----------------------------------------------------------------------------

\* Secrets the caller holds: its initial ones and every output so far.
Held == InitSecrets \cup {o.out : o \in {x \in outs : x.op # "reference"}}

\* Record a call that returned, while fewer than MaxDerivations are logged;
\* a call that throws changes nothing.
Log(op, suite, secret, info, out) ==
  IF ~IsError(out) /\ Cardinality(outs) < MaxDerivations
  THEN outs' = outs \cup {[op |-> op, suite |-> suite, secret |-> secret,
                           info |-> info, out |-> out]}
  ELSE UNCHANGED outs

ExpandWithLabel(suite, secret, label, context, length) ==
  Log("expand", suite, secret, <<label, context>>,
      expand_with_label(suite, secret, label, context, length))

DeriveSecret(suite, secret, label) ==
  Log("derive", suite, secret, <<label, <<>>>>,
      derive_secret(suite, secret, label))

MakeReference(suite, T, value) ==
  Log("reference", suite, value, <<T>>, make_reference(suite, T, value))

Init == outs = {}

Next ==
  \/ \E s \in Suites, x \in Held, l \in Labels,
        c \in Contexts, n \in Lengths :
       ExpandWithLabel(s, x, l, c, n)
  \/ \E s \in Suites, x \in Held, l \in Labels :
       DeriveSecret(s, x, l)
  \/ \E s \in Suites,
        T \in {"KeyPackage", "MLSAuthenticatedContent"}, v \in Values :
       MakeReference(s, T, v)

Spec == Init /\ [][Next]_vars

-----------------------------------------------------------------------------
(* Properties. *)

\* Outputs are independent: two successful calls whose outputs come from
\* the same HKDF-Expand stream (same KDF, secret and info) asked for the
\* same length.  expand_with_label puts the length into HKDFLabel, so two
\* requests that differ only in the length never yield one output that is
\* a prefix of the other; this rests on the uint16 cast never folding two
\* lengths HKDF-Expand accepts (at most 255 * Nh) onto one value.
OutputsIndependent ==
  \A a, b \in outs : a.out.stream = b.out.stream => a.out.len = b.out.len

\* DeriveSecret yields Nh octets of the suite's KDF (spec property 9 with
\* the MLS key schedule's requirement): secret_size(), which the code takes
\* from the digest, agrees with the KDF's hash length for every suite.
DeriveSecretSize ==
  \A o \in outs : o.op = "derive" => o.out.len = KDFNh[hpke(o.suite).kdf]

\* The key schedule is domain separated: two calls that draw on the same
\* HKDF-Expand stream (same KDF, secret and HKDF info octets) were asked
\* for the same label and context, or are references of the same kind.
\* This rests on the TLS encoding of HKDFLabel being injective, on the
\* "mls10 " prefix, and on the two reference labels differing, across
\* chains of derivations from earlier outputs.
DomainSeparated ==
  \A a, b \in outs : a.out.stream = b.out.stream => a.info = b.info

\* For every suite a caller has derived under, EdDSA and ECDSA alike, the
\* two switches that name its signature scheme agree:
\* CipherSuite::signature_scheme() and tls_signature_scheme() of the
\* signature algorithm CipherSuite::get() bundles (credentials advertise
\* the one, keys use the other).
SignatureSchemeAgrees ==
  \A o \in outs : signature_scheme(o.suite) = tls_signature_scheme(sig(o.suite))
=============================================================================
