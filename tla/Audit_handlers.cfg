\* Two handlers (Init called twice), four callers, one crash: records and refinement.
SPECIFICATION Spec
CONSTANTS
  c1 = c1
  c2 = c2
  c3 = c3
  c4 = c4
  h1 = h1
  h2 = h2
  NoLog = NoLog
  Callers <- FourCallers
  Handlers <- TwoHandlers
  Capacity = 1
  RetryMax = 0
  MaxLogs = 1
  MaxCopies = 1
  MaxCrashes = 1
SYMMETRY Symmetry
INVARIANTS
  Accounted
  DedupKey
PROPERTIES
  LossBound
  ImplementsDelivery
