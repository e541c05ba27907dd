SPECIFICATION Spec
CONSTANTS
  toggle_key = toggle_key
  button = button
  key = key
  thread = thread
  Keys = {key, toggle_key}
  Buttons = {button}
  ToggleKey = toggle_key
  QueueLimit = 2
  CursorControl = FALSE
  MaxInputs = 3
  MaxMessages = 2
  MaxPosted = 3
  Presenters = {thread}
  MaxAttempts = 2
  MaxLosses = 1
INVARIANTS GameReleased InstallWhole TeardownUnblocked
CHECK_DEADLOCK FALSE
CONSTRAINT Ownership
