SPECIFICATION Spec
CONSTANTS
  Ids = {d1, d2}
  Programs = {p1}
  Keys = {owner, alice}
  Owner = owner
  NoId = NoId
  NoKey = NoKey
  Workers = {w1, w2}
  MaxKeys = 2
  MaxFaults = 2
  MaxCrashes = 2
SYMMETRY Symmetry
INVARIANTS
  TypeOK
  UseIsExclusive
  InUseNotPersisted
  RegisteredIsReadable
  NoKeyAfterCommit
  CertifiedIsErased
  GrantedCertificateStands
  WhitelistAsPromised
  MemoryMatchesDisk
PROPERTIES
  AnswersMoveForward
  RefinesContract
