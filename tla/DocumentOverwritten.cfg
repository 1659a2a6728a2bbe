SPECIFICATION DocSpec
CONSTANTS
  Edits = {e}
  Signature = sig
  NoText = NoText
  MaxChanges = 4
  MaxCommands = 1
  MaxJobs = 3
INVARIANT TextFollows
CHECK_DEADLOCK FALSE
