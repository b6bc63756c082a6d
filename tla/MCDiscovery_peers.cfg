CONSTANTS
  d1 = d1  d2 = d2  a1 = a1  a2 = a2  a3 = a3  a4 = a4
  n1 = n1  n2 = n2  n3 = n3  n4 = n4  printer = printer
  Device = {d1, d2}
  Addr = {a1, a2, a3, a4}
  ManualName <- Names
  ProbedName <- Probes
  Rank <- CableFirst
  Sources <- TwoSources
  Advertised <- OneService
  ManualAddr = {a4}
  ManualTTL = 1
  QueueCap = 1
  BacklogCap = 1
  Nothing = Nothing
  Faults = {}
SPECIFICATION FairDiscovery
INVARIANTS TypeOK OneAddressEach NoGhosts ListAgrees SelectedListed
PROPERTIES StaysListed GoneIsDropped
