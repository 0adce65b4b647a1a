SPECIFICATION HostSpec
CONSTANTS
  n1 = n1
  n2 = n2
  a = a
  b = b
  c = c
  s1 = s1
  s2 = s2
  Scripts = {a, b, c}
  NoScript = NoScript
  Sessions = {s1, s2}
  Nobody = Nobody
  Names = {n1, n2}
  MaxOpen = 3
  Commands <- AnyCommand
  Calls <- ExampleCalls
  MaxCalls = 1
  MaxDepth = 2
  TEEFaults = TRUE
  Panics = TRUE
  Apps <- TwoApps
  MainCalls <- HostCalls
  MaxTACalls = 1
  Options <- MixedOptions
  NoFile = NoFile
INVARIANTS SavedBeforeMain OwnScriptsRun
PROPERTIES ProcessEnds
