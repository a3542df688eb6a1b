SPECIFICATION PartsSpec
CONSTANTS
  Parts = {"sandbox", "vault", "power", "prover", "registry"}
  Streams = {stdout, stderr}
  outputCap = 3
  MaxPrint = 2
  MaxPrinted = 5
  VaultNames = {bank, github, mail, news, hash}
  Words = {short, long, NoWord}
  NoWord = NoWord
  Comments = {hash}
  hash = hash
  short = short
  long = long
  MAX_ENTRIES = 3
  MAX_FILE_BYTES = 5
  Ids = {d1, d2}
  MaxLosses = 2
  NoId = NoId
  NoCertificate = NoCertificate
  MaxStarts = 3
  Programs = {p1, p2}
  MaxFaults = 2
  MaxCrashes = 2
INVARIANTS
  TypesOK
  AnswerIsBeginning
  ProperFilesAreWhole
  KeyHasItsBlob
  AuditPasses
  ListedIsRunnable
  ListedIsLasting
  AnswersStand
PROPERTIES
  RunReturns
  ImplementsBook
  LossesAreKnown
  DiskMovesForward
CHECK_DEADLOCK FALSE
