SPECIFICATION FairSpec
CONSTANTS
  w1 = w1
  w2 = w2
  Worker = {w1, w2}
  Network = {"hoppie", "sayintentions"}
  Gfo = {}
  WireTtl = 0
  MaxSessions = 2
  MaxSaves = 1
  TlsLimit = 1
INVARIANTS
  AllOrNothing
  HttpIsServed
  VaultIsLive
PROPERTIES
  WorkersFinish
