SPECIFICATION Spec

CONSTANTS
  Procs = {p1, p2}
  Names = {n1}
  Keys = {k1, k2}
  NoKey = NoKey
  NoName = NoName
  MaxSigns = 1
  Faults = {}

SYMMETRY Symmetry

INVARIANT NamesAreUnique
