SPECIFICATION CSpec

CONSTANTS
  Procs = {p1, p2}
  Names = {n1, u1, u2}
  Uuids = {u1, u2}
  Keys = {k1, k2}
  NoKey = NoKey
  NoName = NoName
  SignOps = 2
  Failing = {"sign"}
  MayOrphan = FALSE

SYMMETRY Symmetry

INVARIANT ThrowawayDeleted
