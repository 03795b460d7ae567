SPECIFICATION Spec

CONSTANTS
  Procs = {p1, p2}
  Names = {n1}
  Keys = {k1, k2}
  NoKey = NoKey
  NoName = NoName
  Faults = {"io", "kill", "power"}

SYMMETRY Symmetry

INVARIANT PublishedIsComplete
INVARIANT SettledSurvives
INVARIANT BuriedStaysGone
PROPERTY ImplementsDurableStore
