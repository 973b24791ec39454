SPECIFICATION ConnectorSpec
CONSTANTS
  c1 = c1
  c2 = c2
  Conn = {c1, c2}
  Begins <- MCBegins
  Ends <- MCEnds
  Method = {"GET", "POST"}
  Path <- MCPath
  Target = {"anthropic", "gemini"}
  NoRequest = NoRequest
CHECK_DEADLOCK FALSE
INVARIANTS
  SentOnce
  OpenIsTracked
  NothingLeaks
  RoutedAsListed
PROPERTIES
  EstablishedEnds
  SetupIsBounded
