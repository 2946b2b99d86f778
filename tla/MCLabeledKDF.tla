---------------------------- MODULE MCLabeledKDF ----------------------------
\* Model-checking instance of LabeledKDF: all six suites (three with
\* HKDF-SHA256, three with HKDF-SHA512) and CipherSuite::unknown; lengths 32
\* and 288 = 32 + 256 (equal modulo 2^8, accepted by HKDF-Expand) and
\* 65568 = 32 + 2^16 (equal to 32 modulo 2^16, rejected by HKDF-Expand).
\* Labels and contexts are octet strings chosen so that (<<1>>, <<1>>) and
\* (<<1, 1>>, <<>>) run together when written without length prefixes.
EXTENDS LabeledKDF

CONSTANTS k0, v1

MCSuites         == {unknown} \cup all_supported_suites
MCInitSecrets    == {k0}
MCLabels         == {<<1>>, <<1, 1>>}
MCContexts       == {<<>>, <<1>>}
MCLengths        == {32, 288, 65568}
MCValues         == {v1}
MCMaxDerivations == 2
=============================================================================
