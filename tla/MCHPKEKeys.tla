----------------------------- MODULE MCHPKEKeys -----------------------------
(* Model-checking instance of HPKEKeys: suites 1 and 3 share the X25519 KEM *)
(* and differ in the AEAD, suite 2 uses P256 whose private keys have the   *)
(* same length as X25519's, and 0 is CipherSuite::unknown.                 *)
EXTENDS HPKEKeys, TLC

CONSTANTS b1, b2, p1, s1, l1

MCSuites       == {unknown, X25519_AES128GCM_SHA256_Ed25519,
                   P256_AES128GCM_SHA256_P256,
                   X25519_CHACHA20POLY1305_SHA256_Ed25519}
MCBytes        == {b1, b2}
MCPlaintexts   == {p1}
MCSeeds        == {s1}
MCExportLabels == {l1}
MCExportSizes  == {32}
MCMaxFresh     == 3
MCMaxKeys      == 2
MCSymmetry     == Permutations(MCBytes)

\* decrypt and export_r are const methods: they leave keys, cts, exps and
\* fresh unchanged and only set result, which the next call overwrites.  A
\* state they produce is checked against the invariants but need not be
\* expanded: its successors are those of the state before the call.
MCResultIsLeaf == result = NoCall
=============================================================================
