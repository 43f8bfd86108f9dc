CONSTANTS
  Calls = {"gui", "mcp", "search"}
  Probes = {"status"}
  ProcOf <- MCProcOf
  AccountOf <- MCAccountOf
  Default = {"mcp", "status"}
  Free = "free"
  Order <- MCOrder
  Tools = {"t"}
  Interval = 1
  Backoff <- MCBackoff
  MaxStarts = 1
  MaxUpsets = 1
  Segments = 3
  MaxRuns = 3
  Providers = {"gmail", "qq", "other"}
  Tasks = {"t"}
  MaxOps = 3
  MaxFaults = 1
SPECIFICATION Spec
INVARIANTS TypesOK LocksExclude HistoryIsWhole AccountIsKept
PROPERTY RoundHonours
\* A pause, a finished import and a bound may stop a behaviour.
CHECK_DEADLOCK FALSE
