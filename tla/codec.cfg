SPECIFICATION Spec

CONSTANTS
  PubLens = {0, 1, 3}
  PrivLens = {0, 2}
  MagicLen = 4
  WordLen = 4
  WordLimit = 32
  MaxExtra = 2

INVARIANT TypeOK
INVARIANT ReadsStayInFile
INVARIANT OnlyWholeBlobsDecode

CHECK_DEADLOCK FALSE
