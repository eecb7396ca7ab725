SPECIFICATION Spec
CONSTANTS
  Length = 36
  Inputs <- Keys
  BufferSize = 164
  MaxOut = 51
  AddressPrefixes = {"ak_", "nm_"}
  NoAddress = NoAddress
  Buffers <- BothBuffers
  MaxCalls = 2
INVARIANTS
  EncodeTypeOK
  IndicesInside
  NoZeroInFront
  AddressIsKey
  AddressFits
  ShowsAmount
  FillsAtMost
