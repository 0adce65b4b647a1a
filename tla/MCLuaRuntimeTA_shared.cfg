SPECIFICATION Spec
CONSTANTS
  n1 = n1
  n2 = n2
  a = a
  b = b
  Scripts = {a, b}
  NoScript = NoScript
  Sessions = {s1, s2}
  Nobody = Nobody
  Names <- OneName
  MaxOpen = 2
  Commands <- PlainCommands
  Calls <- RecursiveCalls
  MaxCalls = 1
  MaxDepth = 2
  TEEFaults = TRUE
  Panics = TRUE
INVARIANTS TypeOK HandleExclusion ReadIsStable NoTornRead SameVersionPerSession RunsCurrentVersion
PROPERTIES ImplementsScriptStore
SYMMETRY SessionSymmetry
