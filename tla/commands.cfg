SPECIFICATION FairCSpec

CONSTANTS
  Procs = {p1, p2}
  Names = {n1, u1, u2}
  Uuids = {u1, u2}
  Keys = {k1, k2}
  NoKey = NoKey
  NoName = NoName
  SignOps = 2
  Failing = {"create", "delete", "sign", "verify", "kill"}
  MayOrphan = TRUE

INVARIANT CTypeOK
INVARIANT SigningKeyIsBound
INVARIANT CerttestIsAlone
INVARIANT ExitZeroMeansDone
PROPERTY NamedKeysAreKept
PROPERTY EveryCommandExits
