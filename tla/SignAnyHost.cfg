SPECIFICATION Spec
CONSTANTS
  NoTx = "no transaction"
  Garbled = "garbled"
  NoData = NoData
  Transactions = {"plain", "small"}
  Layout <- Layouts
  Mod16 = 65536
  Mod32 = 1048576
  Accounts = {0, 1}
  NetworkIds = {"empty"}
  NoNetwork = "empty"
  BlockSizes = {0, 74, 82, 83}
  DeclaredLengths = {82, 83}
  MaxFed = 83
  FirstSize = 246
  MoreSize = 255
  HostFollowsProtocol = FALSE
  Faults = TRUE
INVARIANTS TypeOK ReviewIsComplete ShownIsHashed
PROPERTIES ShownIsSigned
