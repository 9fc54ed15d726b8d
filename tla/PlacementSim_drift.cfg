\* Two revisions whose maps disagree about the size of the xorb they share.
SPECIFICATION ReplaySpec
CONSTANTS
  None = None
  h1 = h1
  h2 = h2
  h3 = h3
  n1 = n1
  n2 = n2
  a1 = a1
  a2 = a2
  b = b
  Models = {a1, a2, b}
  Scraped = {a1, a2}
  SizeOf <- MCSizeOf
  Files <- MCFilesDrift
  RackOf <- MCRackOf
  DatacenterOf <- MCDatacenterOf
  GpuOf <- MCGpuOf
  Sweeps <- MCSweepsDrift
  Delays = {0, 1}
INVARIANTS SizeBounded
CHECK_DEADLOCK FALSE
