\* Two spans alive in two services, a queue and a batch of one, a second provider of one service.
SPECIFICATION Spec
CONSTANTS
  sa = sa
  sb = sb
  ga = ga
  gb = gb
  gc = gc
  None = None
  Services <- TwoServices
  Goroutines <- ThreeGoroutines
  At <- Places
  Edge <- OneEdge
  QueueSize = 1
  BatchSize = 1
  MaxSpans = 2
  MaxDepth <- Depths
  MaxInits <- InitsOf
  MaxFaults = 1
SYMMETRY Symmetry
INVARIANTS
  TypeOK
  OneTrace
  SpansKept
