\* One handler, three callers, one crash: order and liveness.
SPECIFICATION FairSpec
CONSTANTS
  c1 = c1
  c2 = c2
  c3 = c3
  c4 = c4
  h1 = h1
  h2 = h2
  NoLog = NoLog
  Callers <- ThreeCallers
  Handlers <- OneHandler
  Capacity = 1
  RetryMax = 1
  MaxLogs = 1
  MaxCopies = 1
  MaxCrashes = 1
INVARIANTS
  TypeOK
  FirstDeliveryOrder
  OffModeBound
PROPERTIES
  EventuallyOnTopic
  CallerReleased
