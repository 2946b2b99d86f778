CONSTANTS
  Types <- MCTypes
  UintVals <- MCUintVals
  SuiteVals <- MCSuiteVals
  BytesVals <- MCBytesVals
  ForeignDocs <- MCForeignDocs
SPECIFICATION Spec
INVARIANT TypeOK
INVARIANT AcceptsConforming
INVARIANT WriteReadRoundTrip
