SPECIFICATION ConvSpec
CONSTANTS
  sk = sk
  ant = ant
  k = k
  d = d
  sp = sp
  begin = begin
  end = end
  url = url
  Char = {sk, ant, k, d, sp, begin, end, url}
  DataURL = url
  BuiltIn <- MCBuiltIn
  OptIn <- MCOptIn
  FileConfig <- MCFileConfig
  Says <- MCSays
  Echoes <- MCEchoes
  Letter = {sp, d}
  MaxQuote = 3
  MaxTurns = 2
  MaxStarts = 1
CHECK_DEADLOCK FALSE
INVARIANTS
  
  HistoryIsStable
  RestoredButInSinks
