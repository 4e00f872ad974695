SPECIFICATION Spec
CONSTANTS
  MCSize = 4
  NoTask = 0
  Tasks <- MCTasks
  TaskLists <- MCTaskLists
  EdgeSets <- MCEdgeSets
INVARIANTS
  CycleGateIsExact
  ReorderIsLeast
  RollbackRespectsGraph
PROPERTIES
  DraftIsSettled
CHECK_DEADLOCK FALSE
