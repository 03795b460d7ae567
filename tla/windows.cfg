SPECIFICATION Spec

CONSTANTS
  Callers = {c1, c2}
  Names = {n1, n2}
  Keys = {k1, k2, k3}
  Handles = {h1, h2, h3, h4}
  NoKey = NoKey
  NoName = NoName
  Zero = Zero
  Provider = Provider
  MaxSigns = 1
  Faults = {"open", "create", "finalize", "export", "delete"}

SYMMETRY Symmetry

INVARIANT TypeOK
INVARIANT HandlesAreOwn
INVARIANT NoHandleLeaks
PROPERTY ImplementsKeyStore
