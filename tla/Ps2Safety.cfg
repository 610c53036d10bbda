SPECIFICATION FairSpec
CONSTANTS
  RingSize = 2
  KeyBytes <- MCKeyBytes
  AuxBytes <- MCAuxBytes
  FbWidth = 64
  FbHeight = 40
  PortDepth = 2
  MaxBytes = 3
INVARIANTS
  RingHoldsLatest
  KeysStoredOnce
  MouseBytesFiled
PROPERTIES
  ImplementsKeyFifo
  PortDrains
  KeysRead
