SPECIFICATION Spec
CONSTANTS
  root = root
  child = child
  other = other
  Objects <- MCObjects
  SceneOf <- MCSceneOf
  Parent <- MCParent
  UiKinds = {"select", "clear", "focus", "restore", "delete", "duplicate", "edit", "metadata", "camera"}
  MinSlice = 1
  MaxQueue = 2
  MaxUi = 2
  MaxScenes = 2
  MaxFaults = 1
  NoObject = NoObject
INVARIANTS FocusOnSelection OrderKept DropsUnsafe TreeFresh
CHECK_DEADLOCK FALSE
