SPECIFICATION Spec
CONSTANTS
  NoTx = "no transaction"
  Garbled = "garbled"
  NoData = NoData
  Transactions = {"plain", "text", "long", "contract", "other"}
  Layout <- Layouts
  Mod16 = 65536
  Mod32 = 1048576
  Accounts = {0}
  NetworkIds = {"empty"}
  NoNetwork = "empty"
  BlockSizes = {54, 82, 92, 143, 246, 38}
  DeclaredLengths = {}
  MaxFed = 400
  FirstSize = 246
  MoreSize = 255
  HostFollowsProtocol = TRUE
  Faults = FALSE
INVARIANTS ValidatedFieldsShown
