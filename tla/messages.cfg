CONSTANTS
  Calls = {"a", "b"}
  Ways = {"agent", "cli", "window"}
  MaxVersion = 2
  MaxStarts = 3
  MaxFaults = 2
  Files = 2
  MaxMails = 2
  MaxTrouble = 1
  MaxClicks = 4
  MaxTyping = 1
  MaxEdits = 1
  Messages = 2
  Cap = 1
  LabelSets <- MCLabelSets
  MaxAttempts = 2
  MaxMoves = 1
  MaxRounds = 2
  MaxSlips = 1
  Requests = {1, 2}
  MaxAsks = 3
SPECIFICATION Spec
INVARIANT TypesOK
  
\* The bounds on clicks, calls, rounds and failures stop a behaviour.
CHECK_DEADLOCK FALSE
