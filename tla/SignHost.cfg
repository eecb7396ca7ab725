SPECIFICATION Spec
CONSTANTS
  NoTx = "no transaction"
  Garbled = "garbled"
  NoData = NoData
  Transactions = {"plain", "small", "text", "long", "contract", "other"}
  Layout <- Layouts
  Mod16 = 65536
  Mod32 = 1048576
  Accounts = {0, 1}
  NetworkIds = {"empty", "ae_mainnet"}
  NoNetwork = "empty"
  BlockSizes = {48, 64, 82, 83, 92, 143, 236}
  DeclaredLengths = {}
  MaxFed = 400
  FirstSize = 236
  MoreSize = 255
  HostFollowsProtocol = TRUE
  Faults = FALSE
INVARIANTS WholeTransactionSigned ReviewAwaited
PROPERTIES SignsOnlyOffers
