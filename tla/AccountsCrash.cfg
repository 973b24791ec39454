SPECIFICATION Spec
CONSTANTS
  a1 = a1
  a2 = a2
  a3 = a3
  alice = alice
  alice_2 = alice_2
  bob = bob
  bob_2 = bob_2
  Account = {a1, a2, a3}
  Name = {alice, alice_2, bob, bob_2}
  OwnName <- DistinctName
  Numbered <- FromTwo
  None = None
  Corrupt = Corrupt
  Interrupts = TRUE
  GivenNames <- ANickname
  LegacyIndex = FALSE
  Damages = {"live", "parked", "index"}
INVARIANTS
  ActiveNameShadowsNobody
  SwitchLeavesBothStored
