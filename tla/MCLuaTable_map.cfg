SPECIFICATION Spec
CONSTANTS
  Keys <- MCKeys
  Values = {"x"}
  MAXABITS = 2
  MAXINT = 5
  TMName <- MCTMName
INVARIANTS
  LengthIsBorder
  ChainsSound
  AbsentMetamethods
PROPERTIES
  ImplementsMap
