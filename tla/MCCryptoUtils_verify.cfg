SPECIFICATION CryptoSpec
CONSTANTS
  Scripts = {a, b}
  NoScript = NoScript
  Salts = {salt1, salt2}
  Nonces = {nonce1, nonce2}
  BodyLengths = {0, 1, 300}
  ShortLengths <- Boundaries
  SizeMax = 65536
INVARIANTS OutcomeAsAbstracted OnlySealedDecrypts HmacReleases ReadsWholeBuffer
CHECK_DEADLOCK FALSE
