CONSTANTS
  Msgs = {m1, m2}
  NoMsg = NoMsg
  Cap = 2
  Overlap = 1
  MaxAttempts = 2
  Rescanning = TRUE
  MaxValidity = 2
  MaxFaults = 1
SYMMETRY Symmetry
SPECIFICATION Spec
INVARIANTS TypeOK NothingForgotten
PROPERTY ReconciledIsComplete
\* The system may stop: every message settled and no session under way.
CHECK_DEADLOCK FALSE
