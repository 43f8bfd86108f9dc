CONSTANTS
  Keep = 1
  MaxEdits = 1
  MaxTasks = 3
  MaxTrouble = 1
  Sessions = {"first", "second"}
  Readers = {"gui", "mcp"}
  MaxTokens = 3
  MaxImports = 1
  Issues = {"lease", "file"}
  PassOf <- MCPassOf
  Repairable = {"lease"}
  MaxWrites = 1
  MaxTurns = 2
  MaxJobs = 4
  MaxFaults = 1
  Procs = {"window", "server"}
  Messages = {"m"}
  Files = {"body", "file"}
  From = {1, 2, 5, 6}
  MaxTries = 3
  MaxChoices = 1
  MaxSessions = 2
  MaxSaves = 4
SPECIFICATION Spec
INVARIANT TypesOK
    
\* The bounds on tasks, edits, tokens and writes stop a behaviour.
CHECK_DEADLOCK FALSE
