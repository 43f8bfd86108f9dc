CONSTANTS
  Reqs = {r1}
  Execs = {e1}
  Recoverers = {w1}
  Users = {}
  Syncs = {}
  Modes = {"autonomous"}
  NoReq = NoReq
  NoOwner = NoOwner
  Recovery = Recovery
  LeaseTicks = 1
  ConfirmTicks = 1
  MaxCrashes = 0
  MaxClock = 2
SPECIFICATION Spec
INVARIANT DeniedWasNotSent
\* The system may stop: every request decided and nobody acting.
CHECK_DEADLOCK FALSE
