CONSTANTS
  Reqs = {r1}
  Execs = {e1}
  Recoverers = {w1}
  Users = {}
  Syncs = {}
  Modes = {"autonomous"}
  NoReq = NoReq
  NoOwner = NoOwner
  Recovery = Recovery
  LeaseTicks = 0
  ConfirmTicks = 0
  MaxCrashes = 1
  MaxClock = 4
SPECIFICATION FairSpec
PROPERTIES SendingEnds RecoveryRequiredEnds
\* The system may stop: every request decided and nobody acting.
CHECK_DEADLOCK FALSE
