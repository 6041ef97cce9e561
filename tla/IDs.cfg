\* Two pods of two goroutines, two starts in all; a tick holds two IDs, and the
\* last IDs have no room for their time.
SPECIFICATION FairSpec
CONSTANTS
  p1 = p1
  p2 = p2
  c1 = c1
  c2 = c2
  unset = unset
  here = here
  there = there
  zero = zero
  None = None
  Pods <- TwoPods
  Callers <- TwoCallers
  Addresses <- FewAddresses
  Unusable <- BadAddresses
  HostOf <- Hosts
  SeqSize = 2
  TimeLimit = 2
  MaxClock = 1
  MaxStarts = 2
  MaxCalls = 4
INVARIANTS
  TypeOK
  UniqueIDs
  Ascending
PROPERTIES
  CallReturns
