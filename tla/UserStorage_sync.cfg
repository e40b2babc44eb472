CONSTANTS
  d1 = d1
  d2 = d2
  p1 = p1
  p2 = p2
  p3 = p3
  Devices = {d1, d2}
  Pages = {p1, p2}
  DeviceOf <- OnePageEach
  MaxClock = 3
  MaxFaults = 1
SPECIFICATION FairSpec
INVARIANTS TypeOK StampsNameWrites
PROPERTIES NeverOlder Converges
