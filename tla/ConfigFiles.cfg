SPECIFICATION FilesSpec
CONSTANTS
  p1 = p1
  p2 = p2
  p3 = p3
  t1 = t1
  t2 = t2
  Proc = {p1, p2}
  Token = {t1, t2}
  None = None
  Management = Management
  Failed = Failed
  MaxIssued = 3
  Overlap = FALSE
  Cmd = {p1, p2, p3}
  Pref = {"model", "notify"}
  Choice = {"a", "b"}
  Unset = Unset
  Absent = Absent
  Torn = Torn
  Starter = {p1, p2, p3}
  OldKey = OldKey
  NoKey = NoKey
CHECK_DEADLOCK FALSE
INVARIANTS
  OAuthKeyInSync
  ChoiceSticks
  RefreshTokenIsCurrent
  KeyOrError
  SettingsKept
  LateRunsAgree
