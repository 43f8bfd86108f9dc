CONSTANTS
  Reqs = {r1}
  Starters = {p1}
  Cleaners = {c1}
  NoProc = NoProc
  NoReq = NoReq
  MaxTries = 2
  MaxCrashes = 2
SPECIFICATION FairSpec
INVARIANTS TypeOK SnapshotIsKept
PROPERTIES OnlyExpendableIsCleaned QuarantineEmpties
\* The system may stop: every snapshot dealt with and nobody acting.
CHECK_DEADLOCK FALSE
