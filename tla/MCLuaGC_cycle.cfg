SPECIFICATION Spec
CONSTANTS
  Objs <- MCObjs
  Layouts <- MCLayouts
  GCSWEEPMAX = 1
  MaxCalls = 2
INVARIANTS
  NoDangling
  TriColour
PROPERTIES
  FinalizedBeforeFreed
  WeakValuesCleared
  FullCollects
