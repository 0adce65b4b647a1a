SPECIFICATION Spec
CONSTANTS
  Threads = {main, co}
  Main = main
  MAXCCALLS = 3
  ExtraCalls = 2
  MAXFRAMES = 3
  ExtraFrames = 1
INVARIANTS
  NnyCounts
  CStackBounded
  InterruptedCallsResume
  StackReferencesLive
  JumpsIntoLiveFrames
