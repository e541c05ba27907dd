SPECIFICATION Spec
CONSTANTS
  obj = obj
  set = set
  Objects = {obj}
  Methods = {set}
  Tokens = {1, 2, 3, 4, 5}
  Setter <- SetterOf
  MaxSessions = 1
  MaxTraceIds = 2
  MaxEvents = 2
  MaxReferences = 2
  MaxJournal = 2
  MaxGenerations = 2
  MaxRevisions = 2
  MaxStamp = 3
  MaxQueuedStops = 1
  NoObject = NoObject
INVARIANTS HandlesOwned HookScoped McpTracesTracked UndoGoesBack MutationsCurrent
CONSTRAINT OneSide
CHECK_DEADLOCK FALSE
