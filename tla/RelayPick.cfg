SPECIFICATION PagesSpec
CONSTANTS
  auto = auto
  team = team
  Unlimited = Unlimited
  Unknown = Unknown
  Default = Default
  SelectAuto = SelectAuto
  GroupAuto = auto
  Group = {auto, team}
  Token <- AllTokens
  Accounts <- UpTo3
  Others <- Added
  PageSize = 2
  MaxChanges = 1
  MaxCalls = 2
CHECK_DEADLOCK FALSE
INVARIANTS
  NoBetterKey
  NewestOfEquals
  NoKeyOnlyWithoutKeys
  ListsWhatStayed
  CreatedOnce
