---------------------------- MODULE SignatureKeys ----------------------------
(***************************************************************************)
(* SignaturePublicKey and SignaturePrivateKey of src/src/crypto.cpp       *)
(* (lines 311-387) as seen by an application that calls them in any      *)
(* order.  Keys are opaque byte pairs and the ciphersuite is an argument   *)
(* of every call.  Every signature reaches verifiers through the network, *)
(* which may present it with any label, message, public key and suite.    *)
(***************************************************************************)
EXTENDS Naturals, FiniteSets, Sequences, Signature

CONSTANTS
  Suites,     \* CipherSuite IDs callers pass, supported ones and not
  Labels,     \* sign labels (the sign_label constants and others)
  Messages,   \* messages to sign (octet strings)
  Seeds,      \* secrets passed to SignaturePrivateKey::derive
  MaxFresh,   \* bound on keys generated from fresh randomness
  MaxKeys,    \* bound on the number of distinct private keys held
  MaxSigs     \* bound on the number of signatures made

TLS == INSTANCE TLSSyntax

ASSUME MaxFresh \in Nat /\ MaxKeys \in Nat /\ MaxSigs \in Nat /\ Suites \subseteq 0..65535

VARIABLES
  keys,     \* set of SignaturePrivateKey values [data, public_key] held
  sigs,     \* log of sign calls: [key, suite, label, msg, sig]
  fresh,    \* number of random keys generated so far
  result    \* the latest verify call and its outcome

vars == <<keys, sigs, fresh, result>>

None == "none"

Random(n) == <<"random", n>>

Call(op, suite, pub, label, msg, signature, out) ==
  [op |-> op, suite |-> suite, pub |-> pub, label |-> label, msg |-> msg,
   sig |-> signature, out |-> out]

\* A value a call returned (as opposed to an exception it threw).
Returned(v) == [value |-> v]

\* The record after a call whose outcome is kept in the logs instead.
NoCall == Call("none", None, None, None, None, None, None)

\* The application keeps one more key, within the bound MaxKeys.
Keep(k) == /\ k \notin keys => Cardinality(keys) < MaxKeys
           /\ keys' = keys \cup {k}

\* SignaturePrivateKey(priv_data, pub_data)
SignaturePrivateKey(priv_data, pub_data) == [data |-> priv_data, public_key |-> pub_data]

\* Faulty variant: the constructor arguments given in the wrong order.
KeyFromPrivateSwapped(alg, priv) ==
  SignaturePrivateKey(SigSerializePublic(alg, priv.sec), SigSerializePrivate(alg, priv.sec))

\* serialize_private, public_key(), serialize: the pair generate and derive
\* return.
KeyFromPrivate(alg, priv) ==
  SignaturePrivateKey(SigSerializePrivate(alg, priv.sec), SigSerializePublic(alg, priv.sec))

\* SIGN_LABEL(label): from_ascii("MLS 1.0 " label), with the ASCII codes
\* of the literal written out.
SIGN_LABEL(label) == <<77, 76, 83, 32, 49, 46, 48, 32>> \o label

\* namespace sign_label: the labels the MLS structures are signed under
\* ("MLSContentTBS", "LeafNodeTBS", "KeyPackageTBS", "GroupInfoTBS").
sign_label ==
  [mls_content |-> SIGN_LABEL(<<77, 76, 83, 67, 111, 110, 116, 101, 110, 116, 84, 66, 83>>),
   leaf_node   |-> SIGN_LABEL(<<76, 101, 97, 102, 78, 111, 100, 101, 84, 66, 83>>),
   key_package |-> SIGN_LABEL(<<75, 101, 121, 80, 97, 99, 107, 97, 103, 101, 84, 66, 83>>),
   group_info  |-> SIGN_LABEL(<<71, 114, 111, 117, 112, 73, 110, 102, 111, 84, 66, 83>>)]

\* SignContent{ label, content }: two opaque<V> members.
SignContentType == [k |-> "struct", m |-> <<[k |-> "opaque"], [k |-> "opaque"]>>]

\* Faulty variant: the envelope leaves the label out.
SignContentNoLabel(label, content) ==
  TLS!Marshal(SignContentType, <<[opaque |-> <<>>], [opaque |-> content]>>)

\* Faulty variant: the members marshalled in the wrong order.
SignContentSwapped(label, content) ==
  TLS!Marshal(SignContentType, <<[opaque |-> content], [opaque |-> label]>>)

\* tls::marshal(SignContent{ label, content }): the octets the label and
\* content references point to, each with its varint length.
SignContent(label, content) ==
  TLS!Marshal(SignContentType, <<[opaque |-> label], [opaque |-> content]>>)

-----------------------------------------------------------------------------

\* SignaturePrivateKey::generate(suite)
generate(suite) ==
  LET a == sig(suite) IN
  \/ /\ ~Supported(suite)
     /\ UNCHANGED <<keys, fresh>>
  \/ /\ Supported(suite)
     /\ fresh < MaxFresh
     /\ Keep(KeyFromPrivate(a, [alg |-> a, sec |-> Random(fresh)]))
     /\ fresh' = fresh + 1

\* SignaturePrivateKey::parse(suite, data): keeps `data`, recomputes the
\* public key under the suite's signature algorithm.
parse(suite, data) ==
  LET a    == sig(suite)
      priv == IF Supported(suite) THEN SigDeserializePrivate(a, data)
              ELSE InvalidParameterError
  IN /\ IF IsError(priv) THEN UNCHANGED keys
        ELSE Keep(SignaturePrivateKey(data, SigSerializePublic(priv.alg, priv.sec)))
     /\ UNCHANGED fresh

\* SignaturePrivateKey::derive(suite, secret)
derive(suite, secret) ==
  LET a == sig(suite) IN
  /\ IF ~Supported(suite) THEN UNCHANGED keys
     ELSE Keep(KeyFromPrivate(a, SigDeriveKeyPair(a, secret)))
  /\ UNCHANGED fresh

\* SignaturePrivateKey::sign(suite, label, message)
sign(key, suite, label, message) ==
  LET content == SignContent(label, message)
      a       == sig(suite)
      priv    == IF Supported(suite) THEN SigDeserializePrivate(a, key.data)
                 ELSE InvalidParameterError
      e       == [key |-> key, suite |-> suite, label |-> label, msg |-> message,
                  sig |-> SigSign(content, priv)]
  IN IF IsError(priv) THEN UNCHANGED sigs
     ELSE /\ e \notin sigs => Cardinality(sigs) < MaxSigs
          /\ sigs' = sigs \cup {e}

\* Faulty variant: verify marshals the members in the wrong order.
verifySwapped(pub, suite, label, message, signature) ==
  LET content == SignContentSwapped(label, message)
      a       == sig(suite)
      pk      == IF Supported(suite) THEN SigDeserializePublic(a, pub)
                 ELSE InvalidParameterError
      out     == IF IsError(pk) THEN pk ELSE Returned(SigVerify(content, signature, pk))
  IN result' = Call("verify", suite, pub, label, message, signature, out)

\* SignaturePublicKey::verify(suite, label, message, signature): a boolean,
\* or the exception deserialize throws.
verify(pub, suite, label, message, signature) ==
  LET content == SignContent(label, message)
      a       == sig(suite)
      pk      == IF Supported(suite) THEN SigDeserializePublic(a, pub)
                 ELSE InvalidParameterError
      out     == IF IsError(pk) THEN pk ELSE Returned(SigVerify(content, signature, pk))
  IN result' = Call("verify", suite, pub, label, message, signature, out)

-----------------------------------------------------------------------------

Init ==
  /\ keys = {}
  /\ sigs = {}
  /\ fresh = 0
  /\ result = NoCall

Next ==
  \/ \E s \in Suites : generate(s) /\ result' = NoCall /\ UNCHANGED sigs
  \/ \E s \in Suites, k \in keys : parse(s, k.data) /\ result' = NoCall /\ UNCHANGED sigs
  \/ \E s \in Suites, x \in Seeds : derive(s, x) /\ result' = NoCall /\ UNCHANGED sigs
  \/ \E k \in keys, s \in Suites, l \in Labels, m \in Messages :
       sign(k, s, l, m) /\ result' = NoCall /\ UNCHANGED <<keys, fresh>>
  \/ \E k \in keys, s \in Suites, l \in Labels, m \in Messages, e \in sigs :
       verify(k.public_key, s, l, m, e.sig) /\ UNCHANGED <<keys, sigs, fresh>>

Spec == Init /\ [][Next]_vars

-----------------------------------------------------------------------------
(* Properties. *)

Secrets == {Random(n) : n \in 0..MaxFresh} \cup
           {<<"derived", a, x>> : a \in SigAlgs, x \in Seeds}
PrivBytes == [kind : {"priv"}, len : Nat, sec : Secrets]
PubBytes  == [kind : {"pub"}, len : Nat, alg : SigAlgs, sec : Secrets]

TypeOK ==
  /\ keys \subseteq [data : PrivBytes, public_key : PubBytes]
  /\ fresh \in 0..MaxFresh
  /\ \A e \in sigs : /\ e.key \in keys /\ e.suite \in Suites
                    /\ e.label \in Labels /\ e.msg \in Messages
  /\ result.op \in {"none", "verify"}

\* The public key a private key stands for under `suite`.
PublicUnder(key, suite) ==
  LET priv == SigDeserializePrivate(sig(suite), key.data)
  IN SigSerializePublic(priv.alg, priv.sec)

\* Signature round trip (spec property 3): a signature made by sign under
\* a suite for which the key's public_key is its public half verifies
\* under the stored public_key, the same label and message, and any suite
\* with the same signature algorithm.
SignatureRoundTrip ==
  result.op = "verify" =>
    \A e \in sigs :
      (/\ e.sig = result.sig /\ e.key.public_key = result.pub
       /\ PublicUnder(e.key, e.suite) = e.key.public_key
       /\ Supported(result.suite) /\ sig(e.suite) = sig(result.suite)
       /\ e.label = result.label /\ e.msg = result.msg)
      => result.out = Returned(TRUE)

\* Verification is sound (spec properties 4 and 5): verify accepts only a
\* signature that sign produced over exactly this label and message, with a
\* private key whose public half under the signing suite is the verifying
\* public key.  A signature under one label never verifies under another,
\* and no key verifies another key's signature.
VerifySound ==
  (result.op = "verify" /\ result.out = Returned(TRUE)) =>
    \E e \in sigs :
      /\ e.sig = result.sig
      /\ e.label = result.label /\ e.msg = result.msg
      /\ PublicUnder(e.key, e.suite) = result.pub
=============================================================================
