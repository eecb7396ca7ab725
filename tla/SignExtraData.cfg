SPECIFICATION Spec
CONSTANTS
  NoTx = "no transaction"
  Garbled = "garbled"
  NoData = NoData
  Transactions = {"plain", "small", "contract", "other"}
  Layout <- Layouts
  Mod16 = 65536
  Mod32 = 1048576
  Accounts = {0}
  NetworkIds = {"empty"}
  NoNetwork = "empty"
  BlockSizes = {0, 75, 81, 82, 83, 200}
  DeclaredLengths = {0, 82, 83, 300}
  MaxFed = 400
  FirstSize = 246
  MoreSize = 255
  HostFollowsProtocol = FALSE
  Faults = FALSE
PROPERTIES ExtraDataRefused
