SPECIFICATION FairSpec
CONSTANTS
  ann = ann
  bob = bob
  NoRequest = NoRequest
  NoSum = NoSum
  Nothing = Nothing
  Client <- AnnAndBob
  Ops <- Various
  Creator <- Nobody
  MaxEdits = 1
  Hazard = {"check", "late"}
PROPERTIES Convergence
