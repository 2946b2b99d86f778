CONSTANTS
  m1 = m1
  m2 = m2
  s1 = s1
  Suites <- MCSuites
  Labels <- MCLabels
  Messages <- MCMessages
  Seeds <- MCSeeds
  MaxFresh <- MCMaxFresh
  MaxKeys <- MCMaxKeys
  MaxSigs <- MCMaxSigs
SPECIFICATION Spec
INVARIANT TypeOK
INVARIANT SignatureRoundTrip
INVARIANT VerifySound
SYMMETRY MCSymmetry
CONSTRAINT MCResultIsLeaf
