\* Logs of up to five starts, both tiers, all scopes, with and without a TTL.
SPECIFICATION ReplaySpec
CONSTANTS
  None = None
  h1 = h1
  h2 = h2
  h3 = h3
  n1 = n1
  n2 = n2
  a1 = a1
  a2 = a2
  b = b
  Models = {a1, a2, b}
  Scraped = {a1, a2}
  SizeOf <- MCSizeOf
  Files <- MCFiles
  RackOf <- MCRackOf
  DatacenterOf <- MCDatacenterOf
  GpuOf <- MCGpuOf
  Sweeps <- MCSweeps
  Delays = {0, 1}
INVARIANTS SizeBounded ReplayExact BaselineComparable
CHECK_DEADLOCK FALSE
