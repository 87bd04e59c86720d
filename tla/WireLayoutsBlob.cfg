SPECIFICATION WlSpec
CONSTANTS
  WlLens = {42, 98}
  WlClaims = {0}
INVARIANT BlobIsData
CHECK_DEADLOCK FALSE
