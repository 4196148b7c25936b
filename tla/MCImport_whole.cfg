SPECIFICATION ImportSpec
CONSTANTS
  Imports = {i1}
  ImportJobs = {k1}
  NoJob = nojob
  ImportFaults = 1
INVARIANT OkMeansWhole
CHECK_DEADLOCK FALSE
