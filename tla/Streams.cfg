SPECIFICATION StreamSpec
CONSTANTS
  Char = {"<", ">", "_", "a", "b", "s", "x", "sp", "nl", "fence", "tick", "markup"}
  Hex = {"a", "b"}
  Prefix <- MCPrefix
  Suffix <- MCSuffix
  Width = 1
  SecretOf <- MCSecretOf
  Slot = {0, 1}
  Letter = {"a", "b", "s", "x"}
  Punct = {"<", ">"}
  Space = "sp"
  Newline = "nl"
  Fence = "fence"
  Tick = "tick"
  Markup = "markup"
  MaxWord = 16
  MaxBlockText = 12
  MaxHeld = 3
  Modes <- MCModes
  Offers <- MCOffers
  MaxEvents <- MCMaxEvents
  SplitWords = FALSE
INVARIANTS
  TextIsRestoredWhole
  SinksPassOnce
  TailBeforeStop
  FloodNeverLeaks
  OnlyFloodIsDropped
CHECK_DEADLOCK FALSE
