CONSTANTS
  Mails = {"m", "n"}
  Archivers = {"send", "receive", "mcp"}
  ProcessOf <- MCProcessOf
  UidIn <- MCUidIn
  MaxRuns = 2
  MaxTrouble = 2
  Preparers = {"gui", "agent"}
  Shown <- MCShown
  Note = "note"
  Last = 3
  MaxVersion = 1
  MaxCopies = 3
  MaxEdits = 1
  MaxUpsets = 1
  Accounts = {"a", "b"}
  Sender = "a"
  Root = "root"
  First <- MCFirst
  Settings <- MCSettings
  MaxSaves = 2
  MaxSlips = 1
  Messages <- MCMessages
  Ours <- MCOurs
  MaxLooks = 3
SPECIFICATION Spec
INVARIANT ReportIsTrue
\* The bounds on calls and failures stop a behaviour.
CHECK_DEADLOCK FALSE
