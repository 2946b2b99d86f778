CONSTANTS
  b1 = b1
  b2 = b2
  p1 = p1
  s1 = s1
  l1 = l1
  Suites <- MCSuites
  Bytes <- MCBytes
  Plaintexts <- MCPlaintexts
  Seeds <- MCSeeds
  ExportLabels <- MCExportLabels
  ExportSizes <- MCExportSizes
  MaxFresh <- MCMaxFresh
  MaxKeys <- MCMaxKeys
SPECIFICATION Spec
SYMMETRY MCSymmetry
CONSTRAINT MCResultIsLeaf
PROPERTY IdealHPKESpec
