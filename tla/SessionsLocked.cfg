SPECIFICATION SessionsSpec
CONSTANTS
  a1 = a1
  a2 = a2
  alice = alice
  alice_2 = alice_2
  work = work
  Account = {a1, a2}
  Name = {alice, alice_2, work}
  OwnName <- SharedName
  Numbered <- FromTwo
  None = None
  Corrupt = Corrupt
  LivePath = LivePath
  Interrupts = FALSE
  GivenNames <- AnyName
  LegacyIndex = TRUE
  Damages = {"live", "parked"}
  Proc = {1, 2}
  LockedCommands = TRUE
PROPERTIES
  CompletedTakesEffect
  ImplementsSignedIn
