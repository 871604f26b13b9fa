SPECIFICATION MCSpec
CONSTANTS
  p1 = p1
  p2 = p2
  m1 = m1
  m2 = m2
  t1 = t1
  Poller = {p1, p2}
  Uplink = {m1, m2}
  Phone = {t1}
  MaxPackets = 3
  Network = {"hoppie"}
  Gfo = {}
  WireTtl = 0
INVARIANTS
  StationIsPolled
  OneStripPerRequest
PROPERTIES
  PolledIsStored
