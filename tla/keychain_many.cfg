SPECIFICATION Spec

CONSTANTS
  Procs = {p1, p2, p3}
  Names = {n1, n2}
  Keys = {k1, k2, k3}
  NoKey = NoKey
  NoName = NoName
  MaxSigns = 1
  Faults = {"lookup", "create", "export", "delete"}

SYMMETRY Symmetry

INVARIANT NoOrphans
INVARIANT ReleasedOnce
