SPECIFICATION Spec
CONSTANTS
  bank = bank
  short = short
  long = long
  Names = {bank, github, mail}
  NoWord = NoWord
  Words = {short, long, NoWord}
  Passwords <- Plain
  Comments = {}
  Bytes <- Lengths
  MAX_ENTRIES = 3
  MAX_FILE_BYTES = 4
  outputCap = 4
  First <- OneLine
INVARIANTS
  UpdateKeepsVault
