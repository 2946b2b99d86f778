CONSTANTS
  k0 = k0
  v1 = v1
  Suites <- MCSuites
  InitSecrets <- MCInitSecrets
  Labels <- MCLabels
  Contexts <- MCContexts
  Lengths <- MCLengths
  Values <- MCValues
  MaxDerivations <- MCMaxDerivations
SPECIFICATION Spec
INVARIANT OutputsIndependent
INVARIANT DeriveSecretSize
INVARIANT DomainSeparated
INVARIANT SignatureSchemeAgrees
