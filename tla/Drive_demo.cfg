SPECIFICATION Spec
CONSTANTS
  None = None
  Torn = Torn
  A = A
  B = B
  m0 = m0
  Models = {m0}
  Groups = {A, B}
  Workers <- MCWorkers
  Scenarios <- MCScenarios
  Delays = {0, 5}
INVARIANTS JobsFileHonest PhasesHonest ReportHonest MetricsFlushed
PROPERTIES MetricsReported DriveEnds
CHECK_DEADLOCK FALSE
