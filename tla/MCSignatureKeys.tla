--------------------------- MODULE MCSignatureKeys ---------------------------
(* Model-checking instance of SignatureKeys: suites 1 and 3 share Ed25519, *)
(* suite 2 uses P256 whose private keys have Ed25519's length, and 0 is    *)
(* CipherSuite::unknown.  The labels are two of the sign_label constants. *)
EXTENDS SignatureKeys, TLC

CONSTANTS m1, m2, s1

MCSuites   == {unknown, X25519_AES128GCM_SHA256_Ed25519,
               P256_AES128GCM_SHA256_P256,
               X25519_CHACHA20POLY1305_SHA256_Ed25519}
MCLabels   == {sign_label.mls_content, sign_label.leaf_node}
MCMessages == {<<m1>>, <<m2>>}
MCSeeds    == {s1}
MCMaxFresh == 2
MCMaxKeys  == 3
MCMaxSigs  == 2
MCSymmetry == Permutations({m1, m2})

\* verify is a const method: it leaves keys, sigs and fresh unchanged and
\* only sets result, which the next call overwrites.  A state it produces
\* is checked against the invariants but need not be expanded.
MCResultIsLeaf == result = NoCall
=============================================================================
