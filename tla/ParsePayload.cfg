SPECIFICATION Spec
CONSTANTS
  Transactions = {"plain", "text"}
  Layout <- Layouts
  TxBytes <- Encodings
  BlockSizes <- Sizes
  Commands <- FirstBlocks
  Leftovers <- SomeLeftovers
  Mod16 = 65536
  Mod32 = 1048576
  NetworkIdMax = 32
  PayloadMax = 79
  NoText = NoText
INVARIANT PayloadShown
