SPECIFICATION FairSpec

CONSTANTS
  Procs = {p1, p2}
  Names = {n1}
  Keys = {k1, k2}
  NoKey = NoKey
  NoName = NoName
  Faults = {"io", "remove", "kill"}

INVARIANT TypeOK
INVARIANT AckedIsAvailable
INVARIANT NothingLeftBehind
INVARIANT DeletedKeyGone
PROPERTY NeverClobbered
PROPERTY ImplementsKeyStore
PROPERTY DeletedKeyVanishes
