SPECIFICATION FairSpec
CONSTANTS
  toggle_key = toggle_key
  key = key
  button = button
  thread = thread
  Keys = {toggle_key}
  Buttons = {}
  ToggleKey = toggle_key
  QueueLimit = 1
  CursorControl = TRUE
  MaxInputs = 3
  MaxMessages = 1
  MaxPosted = 4
  Presenters = {thread}
  MaxAttempts = 1
  MaxLosses = 1
CHECK_DEADLOCK FALSE
CONSTRAINT Requests
PROPERTIES RoutingSettles UninstallEnds
