SPECIFICATION Spec

CONSTANTS
  Sessions = {s1, s2, s3}
  Raw = {s1, s2}
  Handles = {h1, h2, h3}
  Zero = Zero
  TheTPM = TheTPM
  Faults = {"command", "response", "flush", "exit"}

SYMMETRY Symmetry

INVARIANT SignerIsReady
INVARIANT FailureReleases
INVARIANT NothingLeaks
INVARIANT TwoHandlesSuffice
