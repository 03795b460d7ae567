SPECIFICATION FairSpec

CONSTANTS
  Goroutines = {g1, g2, g3}
  NoHolder = NoHolder
  Requests = {r1, r2, bad}
  Invalid = {bad}
  NoRequest = NoRequest
  DeviceFails = TRUE
  ResourceManager = FALSE

INVARIANT TypeOK
INVARIANT ResponsesNotCrossed
INVARIANT DeviceHeldWhileUsed
INVARIANT CloseReleases
PROPERTY ImplementsSigner
PROPERTY EveryCallReturns
