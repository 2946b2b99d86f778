------------------------------ MODULE HPKEKeys ------------------------------
(***************************************************************************)
(* HPKEPublicKey and HPKEPrivateKey of src/src/crypto.cpp (lines 219-309) *)
(* as seen by an application that calls them in any order.  A key is an   *)
(* opaque pair of byte strings; the ciphersuite is an argument of every    *)
(* call, so a key made under one suite may be used under another.  The     *)
(* network between encrypt and decrypt (and between the two halves of an  *)
(* export) is the adversary: decrypt may be handed any recombination of   *)
(* the kem_output and ciphertext fields of ciphertexts seen so far.       *)
(*                                                                         *)
(* State: the private keys the application holds, a log of the           *)
(* ciphertexts and exporter values produced, a counter of fresh random    *)
(* values drawn (key generation and KEM ephemerals), and the record of    *)
(* the latest call with its outcome, which the properties judge.          *)
(***************************************************************************)
EXTENDS Naturals, FiniteSets, HPKE

CONSTANTS
  Suites,        \* CipherSuite IDs callers pass, supported ones and not
  Bytes,         \* info and aad values (model values)
  Plaintexts,    \* plaintexts passed to encrypt (model values)
  Seeds,         \* secrets passed to HPKEPrivateKey::derive
  ExportLabels,  \* labels passed to do_export
  ExportSizes,   \* output sizes passed to do_export
  MaxFresh,      \* bound on random values drawn (generate, encap)
  MaxKeys        \* bound on the number of distinct private keys held

ASSUME MaxFresh \in Nat /\ MaxKeys \in Nat /\ Suites \subseteq 0..65535

VARIABLES
  keys,     \* set of HPKEPrivateKey values [data, public_key] held
  cts,      \* log of encrypt calls: [pub, suite, info, aad, pt, ct]
  exps,     \* log of HPKEPublicKey::do_export calls
  fresh,    \* number of random values drawn so far
  result    \* the latest call and its outcome

vars == <<keys, cts, exps, fresh, result>>

None == "none"

\* The ephemeral or generated secret number n.
Random(n) == <<"random", n>>

\* A record of one call; fields a call does not use are None.  For the
\* exports, `ct` holds the enc and `label` the pair <<label, size>>.
Call(op, suite, key, ct, info, aad, label, out) ==
  [op |-> op, suite |-> suite, key |-> key, ct |-> ct, info |-> info,
   aad |-> aad, label |-> label, out |-> out]

\* The record after a call whose outcome is kept in the logs instead.
NoCall == Call("none", None, None, None, None, None, None, None)

\* The application keeps one more key, within the bound MaxKeys.
Keep(k) == /\ k \notin keys => Cardinality(keys) < MaxKeys
           /\ keys' = keys \cup {k}

\* HPKEPrivateKey(priv_data, pub_data)
HPKEPrivateKey(priv_data, pub_data) == [data |-> priv_data, public_key |-> pub_data]

PublicKeys == {k.public_key : k \in keys}

\* The ciphertexts an attacker can hand to decrypt: every recombination of
\* the two fields of ciphertexts produced so far.
Delivered ==
  {[kem_output |-> a.ct.kem_output, ciphertext |-> b.ct.ciphertext] : a, b \in cts}

-----------------------------------------------------------------------------
(* Key construction. *)

\* Faulty variant: the constructor arguments given in the wrong order.
KeyFromPrivateSwapped(kem, priv) ==
  HPKEPrivateKey(SerializePublic(kem, priv.sec), SerializePrivate(kem, priv.sec))

\* The HPKEPrivateKey built from a KEM private key: serialize_private, then
\* public_key() and serialize.
KeyFromPrivate(kem, priv) ==
  HPKEPrivateKey(SerializePrivate(kem, priv.sec), SerializePublic(kem, priv.sec))

\* HPKEPrivateKey::generate(suite)
generate(suite) ==
  LET h == hpke(suite) IN
  \/ /\ IsError(h)
     /\ result' = NoCall
     /\ UNCHANGED <<keys, fresh>>
  \/ /\ ~IsError(h)
     /\ fresh < MaxFresh
     /\ LET k == KeyFromPrivate(h.kem, [kem |-> h.kem, sec |-> Random(fresh)])
        IN /\ Keep(k)
           /\ result' = NoCall
     /\ fresh' = fresh + 1

\* HPKEPrivateKey::parse(suite, data): keeps `data` as given and recomputes
\* the public key under the suite's KEM.
parse(suite, data) ==
  LET h    == hpke(suite)
      priv == IF IsError(h) THEN h ELSE DeserializePrivate(h.kem, data)
      k    == HPKEPrivateKey(data, SerializePublic(priv.kem, priv.sec))
  IN /\ IF IsError(priv)
        THEN /\ result' = NoCall
             /\ UNCHANGED keys
        ELSE /\ Keep(k)
             /\ result' = NoCall
     /\ UNCHANGED fresh

\* HPKEPrivateKey::derive(suite, secret)
derive(suite, secret) ==
  LET h == hpke(suite) IN
  /\ IF IsError(h)
     THEN /\ result' = NoCall
          /\ UNCHANGED keys
     ELSE LET k == KeyFromPrivate(h.kem, DeriveKeyPair(h.kem, secret))
          IN /\ Keep(k)
             /\ result' = NoCall
  /\ UNCHANGED fresh

-----------------------------------------------------------------------------
(* Encryption, decryption and export. *)

\* Faulty variant: info and aad passed in each other's place.
encryptSwapped(pub, suite, info, aad, pt) ==
  LET h   == hpke(suite)
      pkR == IF IsError(h) THEN h ELSE DeserializePublic(h.kem, pub)
      s   == SetupBaseS(h, pkR, aad, Random(fresh))
      ct  == [kem_output |-> s.enc, ciphertext |-> Seal(s.ctx, info, pt)]
  IN \/ /\ IsError(pkR)
        /\ result' = NoCall
        /\ UNCHANGED <<cts, fresh>>
     \/ /\ ~IsError(pkR)
        /\ fresh < MaxFresh
        /\ cts' = cts \cup {[pub |-> pub, suite |-> suite, info |-> info,
                             aad |-> aad, pt |-> pt, ct |-> ct]}
        /\ result' = NoCall
        /\ fresh' = fresh + 1

\* Faulty variant: the ephemeral of an earlier setup reused (no new random
\* value drawn).
encryptReusedEphemeral(pub, suite, info, aad, pt) ==
  LET h   == hpke(suite)
      pkR == IF IsError(h) THEN h ELSE DeserializePublic(h.kem, pub)
      s   == SetupBaseS(h, pkR, info, Random(0))
      ct  == [kem_output |-> s.enc, ciphertext |-> Seal(s.ctx, aad, pt)]
  IN \/ /\ IsError(pkR)
        /\ result' = NoCall
        /\ UNCHANGED <<cts, fresh>>
     \/ /\ ~IsError(pkR)
        /\ fresh < MaxFresh
        /\ cts' = cts \cup {[pub |-> pub, suite |-> suite, info |-> info,
                             aad |-> aad, pt |-> pt, ct |-> ct]}
        /\ result' = NoCall
        /\ fresh' = fresh + 1

\* HPKEPublicKey::encrypt(suite, info, aad, pt): deserialize the stored
\* public key, setup_base_s, seal; the ephemeral is a fresh random value.
encrypt(pub, suite, info, aad, pt) ==
  LET h   == hpke(suite)
      pkR == IF IsError(h) THEN h ELSE DeserializePublic(h.kem, pub)
      s   == SetupBaseS(h, pkR, info, Random(fresh))
      ct  == [kem_output |-> s.enc, ciphertext |-> Seal(s.ctx, aad, pt)]
  IN \/ /\ IsError(pkR)
        /\ result' = NoCall
        /\ UNCHANGED <<cts, fresh>>
     \/ /\ ~IsError(pkR)
        /\ fresh < MaxFresh
        /\ cts' = cts \cup {[pub |-> pub, suite |-> suite, info |-> info,
                             aad |-> aad, pt |-> pt, ct |-> ct]}
        /\ result' = NoCall
        /\ fresh' = fresh + 1

\* Faulty variant: a failed open returns an empty plaintext instead of
\* throwing.
decryptNoThrow(key, suite, info, aad, ct) ==
  LET h   == hpke(suite)
      skR == IF IsError(h) THEN h ELSE DeserializePrivate(h.kem, key.data)
      ctx == IF IsError(skR) THEN skR ELSE SetupBaseR(h, ct.kem_output, skR, info)
      pt  == IF IsError(ctx) THEN ctx ELSE Open(ctx, aad, ct.ciphertext)
      out == IF pt = NoPlaintext THEN [bytes |-> <<>>] ELSE pt
  IN /\ result' = Call("decrypt", suite, key, ct, info, aad, None, out)
     /\ UNCHANGED <<cts, fresh>>

\* HPKEPrivateKey::decrypt(suite, info, aad, ct): a failed open throws
\* InvalidParameterError("HPKE decryption failure").
decrypt(key, suite, info, aad, ct) ==
  LET h   == hpke(suite)
      skR == IF IsError(h) THEN h ELSE DeserializePrivate(h.kem, key.data)
      ctx == IF IsError(skR) THEN skR ELSE SetupBaseR(h, ct.kem_output, skR, info)
      pt  == IF IsError(ctx) THEN ctx ELSE Open(ctx, aad, ct.ciphertext)
      out == IF pt = NoPlaintext THEN InvalidParameterError ELSE pt
  IN /\ result' = Call("decrypt", suite, key, ct, info, aad, None, out)
     /\ UNCHANGED <<cts, fresh>>

\* Faulty variant: the enc returned comes from a second setup_base_s, with
\* its own ephemeral, not from the one the context was exported from.
export_sTwoSetups(pub, suite, info, label, size) ==
  LET h   == hpke(suite)
      pkR == IF IsError(h) THEN h ELSE DeserializePublic(h.kem, pub)
      s1  == SetupBaseS(h, pkR, info, Random(fresh))
      s2  == SetupBaseS(h, pkR, info, Random(fresh + 1))
      v   == Export(s1.ctx, label, size)
  IN \/ /\ IsError(pkR)
        /\ result' = NoCall
        /\ UNCHANGED <<exps, fresh>>
     \/ /\ ~IsError(pkR)
        /\ fresh + 1 < MaxFresh
        /\ exps' = exps \cup {[pub |-> pub, suite |-> suite, info |-> info,
                               label |-> label, size |-> size,
                               enc |-> s2.enc, value |-> v]}
        /\ result' = NoCall
        /\ fresh' = fresh + 2

\* HPKEPublicKey::do_export(suite, info, label, size): one setup_base_s
\* gives both the enc returned and the context exported from.
export_s(pub, suite, info, label, size) ==
  LET h   == hpke(suite)
      pkR == IF IsError(h) THEN h ELSE DeserializePublic(h.kem, pub)
      s   == SetupBaseS(h, pkR, info, Random(fresh))
      v   == Export(s.ctx, label, size)
  IN \/ /\ IsError(pkR)
        /\ result' = NoCall
        /\ UNCHANGED <<exps, fresh>>
     \/ /\ ~IsError(pkR)
        /\ fresh < MaxFresh
        /\ exps' = exps \cup {[pub |-> pub, suite |-> suite, info |-> info,
                               label |-> label, size |-> size,
                               enc |-> s.enc, value |-> v]}
        /\ result' = NoCall
        /\ fresh' = fresh + 1

\* HPKEPrivateKey::do_export(suite, info, kem_output, label, size)
export_r(key, suite, info, enc, label, size) ==
  LET h   == hpke(suite)
      skR == IF IsError(h) THEN h ELSE DeserializePrivate(h.kem, key.data)
      ctx == IF IsError(skR) THEN skR ELSE SetupBaseR(h, enc, skR, info)
      out == IF IsError(ctx) THEN ctx ELSE Export(ctx, label, size)
  IN /\ result' = Call("export_r", suite, key, enc, info, None, <<label, size>>, out)
     /\ UNCHANGED <<exps, fresh>>

-----------------------------------------------------------------------------

Init ==
  /\ keys = {}
  /\ cts = {}
  /\ exps = {}
  /\ fresh = 0
  /\ result = NoCall

Next ==
  \/ \E s \in Suites : generate(s) /\ UNCHANGED <<cts, exps>>
  \/ \E s \in Suites, k \in keys : parse(s, k.data) /\ UNCHANGED <<cts, exps>>
  \/ \E s \in Suites, seed \in Seeds : derive(s, seed) /\ UNCHANGED <<cts, exps>>
  \/ \E p \in PublicKeys, s \in Suites, i, a \in Bytes, m \in Plaintexts :
       encrypt(p, s, i, a, m) /\ UNCHANGED <<keys, exps>>
  \/ \E k \in keys, s \in Suites, i, a \in Bytes, c \in Delivered :
       decrypt(k, s, i, a, c) /\ UNCHANGED <<keys, exps>>
  \/ \E p \in PublicKeys, s \in Suites, i \in Bytes, l \in ExportLabels,
        n \in ExportSizes :
       export_s(p, s, i, l, n) /\ UNCHANGED <<keys, cts>>
  \/ \E k \in keys, s \in Suites, i \in Bytes, x \in exps, l \in ExportLabels,
        n \in ExportSizes :
       export_r(k, s, i, x.enc, l, n) /\ UNCHANGED <<keys, cts>>

Spec == Init /\ [][Next]_vars

-----------------------------------------------------------------------------
(* Properties. *)

\* The secrets keys can hold: random draws and derived secrets.
Secrets == {Random(n) : n \in 0..MaxFresh} \cup
           {<<"derived", k, x>> : k \in KEMs, x \in Seeds}
PrivBytes == [kind : {"priv"}, len : Nat, sec : Secrets]
PubBytes  == [kind : {"pub"}, len : Nat, kem : KEMs, sec : Secrets]

TypeOK ==
  /\ keys \subseteq [data : PrivBytes, public_key : PubBytes]
  /\ fresh \in 0..MaxFresh
  /\ \A e \in cts : /\ e.pub \in PubBytes /\ e.suite \in Suites
                    /\ {e.info, e.aad} \subseteq Bytes /\ e.pt \in Plaintexts
  /\ \A x \in exps : /\ x.pub \in PubBytes /\ x.suite \in Suites
                     /\ x.info \in Bytes /\ x.label \in ExportLabels
                     /\ x.size \in ExportSizes
  /\ result.op \in {"none", "generate", "parse", "derive", "encrypt",
                    "decrypt", "export_s", "export_r"}

\* The public key a private key stands for under `suite`: its bytes read by
\* the suite's KEM, and the public half of that.
PublicUnder(key, suite) ==
  LET priv == DeserializePrivate(hpke(suite).kem, key.data)
  IN SerializePublic(priv.kem, priv.sec)

\* HPKE round trip (spec property 1): decrypting, under the suite, info and
\* aad it was encrypted with, a ciphertext produced by encrypt for this
\* key's public_key returns the plaintext, whatever happened in between.
HPKERoundTrip ==
  result.op = "decrypt" =>
    \A e \in cts :
      (/\ e.ct = result.ct /\ e.pub = result.key.public_key
       /\ e.suite = result.suite /\ e.info = result.info
       /\ e.aad = result.aad)
      => result.out = e.pt

\* Decryption is authentic: HPKEPrivateKey::decrypt returns a plaintext
\* only for a ciphertext that encrypt produced, unchanged, with that
\* plaintext, the same info and aad, the same HPKE triple, and for the
\* public key this private key stands for under the decrypting suite.
\* Recombined kem_output/ciphertext pairs and a suite that shares only the
\* KEM must fail.
DecryptAuthentic ==
  (result.op = "decrypt" /\ ~IsError(result.out)) =>
    \E e \in cts :
      /\ e.ct = result.ct /\ e.pt = result.out
      /\ e.info = result.info /\ e.aad = result.aad
      /\ hpke(e.suite) = hpke(result.suite)
      /\ e.pub = PublicUnder(result.key, result.suite)

\* Export agreement (spec property 2): HPKEPrivateKey::do_export, given the
\* enc that HPKEPublicKey::do_export returned for this key's public_key and
\* the same suite, info, label and size, yields the same exporter value.
ExportAgreement ==
  result.op = "export_r" =>
    \A x \in exps :
      (/\ x.enc = result.ct /\ x.pub = result.key.public_key
       /\ x.suite = result.suite /\ x.info = result.info
       /\ <<x.label, x.size>> = result.label)
      => result.out = x.value

\* A failure of the AEAD open, after the key and the enc were read and the
\* context set up, is reported as HPKEDecryptionError (spec section 7).
DecryptFailureKind ==
  LET h   == hpke(result.suite)
      skR == DeserializePrivate(h.kem, result.key.data)
      ctx == SetupBaseR(h, result.ct.kem_output, skR, result.info)
  IN (/\ result.op = "decrypt" /\ ~IsError(h) /\ ~IsError(skR)
      /\ ~IsError(ctx) /\ Open(ctx, result.aad, result.ct.ciphertext) = NoPlaintext)
     => result.out = HPKEDecryptionError

-----------------------------------------------------------------------------
(* Refinement of the ideal HPKE specification. *)

\* A private key used under `suite` owns the public key `pub` something was
\* sent to under `sentSuite`: both suites have the same HPKE triple, and the
\* key's bytes, read by the suite's KEM, have `pub` as their public half.
Owns(key, suite, pub, sentSuite) ==
  /\ Supported(suite) /\ Supported(sentSuite)
  /\ hpke(suite) = hpke(sentSuite)
  /\ ~IsError(DeserializePrivate(hpke(suite).kem, key.data))
  /\ PublicUnder(key, suite) = pub

Failed == [failed |-> TRUE]

\* The last read-only call as the ideal specification records it.
LastCall ==
  LET out == IF IsError(result.out) THEN Failed ELSE result.out IN
  CASE result.op = "decrypt" ->
         [op |-> "decrypt", key |-> result.key, suite |-> result.suite,
          info |-> result.info, aad |-> result.aad, ct |-> result.ct, out |-> out]
    [] result.op = "export_r" ->
         [op |-> "export_r", key |-> result.key, suite |-> result.suite,
          info |-> result.info, enc |-> result.ct, label |-> result.label[1],
          size |-> result.label[2], out |-> out]
    [] OTHER -> [op |-> "none"]

Ideal == INSTANCE IdealHPKE
           WITH sent <- cts, exported <- exps, last <- LastCall,
                Owns <- Owns, Failure <- Failed

\* The key types implement ideal HPKE: every behaviour of encrypt, decrypt
\* and the two do_export methods, over keys made, parsed and derived under
\* any suites and ciphertexts recombined in transit, is a behaviour of
\* IdealHPKE: fresh encapsulations, decrypt succeeding exactly for the
\* matching encryption to an owned key, and receiver exports equal to the
\* matching sender export and to no other.
IdealHPKESpec == Ideal!Spec
=============================================================================
