SPECIFICATION Spec
CONSTANTS
  root = root
  child = child
  other = other
  Objects <- MCObjects
  SceneOf <- MCSceneOf
  Parent <- MCParent
  UiKinds = {"select", "refresh", "load", "live"}
  MinSlice = 1
  MaxQueue = 2
  MaxUi = 1
  MaxScenes = 2
  MaxFaults = 1
  NoObject = NoObject
PROPERTIES SceneCatchesUp DeadSelectionLeaves
CHECK_DEADLOCK FALSE
