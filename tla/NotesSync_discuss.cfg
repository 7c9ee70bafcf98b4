SPECIFICATION Spec
CONSTANTS
  ann = ann
  bob = bob
  NoRequest = NoRequest
  NoSum = NoSum
  Nothing = Nothing
  Client <- AnnAndBob
  Ops <- Discuss
  Creator <- Nobody
  MaxEdits = 2
  Hazard = {"quit", "cache"}
INVARIANTS TypeOK CommentsOnce StatusArrives
PROPERTIES StatusStays
