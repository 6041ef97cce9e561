\* Two replicas, one with two goroutines; one database, two spellings.
SPECIFICATION FairSpec
CONSTANTS
  k1 = k1
  k2 = k2
  k3 = k3
  p1 = p1
  p2 = p2
  lower = lower
  upper = upper
  NoId = NoId
  Calls <- ThreeCalls
  Procs <- TwoProcs
  Names <- TwoNames
  ProcOf <- Placement
  NameOf <- Spelling
  Fold <- CaseInsensitive
  MaxAccounts = 3
INVARIANTS
  TypeOK
  ReadyCredentials
  Agreement
PROPERTIES
  OrphanLocksOut
  PoisonedUntilRestart
  CallsSettle
