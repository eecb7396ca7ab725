SPECIFICATION AppSpec
CONSTANTS
  NoData = NoData
  NoTx = "no transaction"
  Garbled = "garbled"
  NoMessage = "no message"
  NoAddress = NoAddress
  None = None
  Transactions = {"plain"}
  Layout <- Layouts
  Mod16 = 65536
  Mod32 = 1048576
  Accounts = {0}
  NetworkIds = {"empty"}
  NoNetwork = "empty"
  BlockSizes = {82}
  DeclaredLengths = {}
  MaxFed = 400
  FirstSize = 246
  MoreSize = 255
  Messages = {"hello", "essay"}
  BytesOf <- Lengths
  EnvelopeBytes = 28
  Mod8 = 256
  LengthRange = 65536
  Choices = {}
  HostFollowsProtocol = TRUE
  Faults = FALSE
PROPERTIES MessageSignedWhole
