SPECIFICATION Spec
CONSTANTS
  ann = ann
  bob = bob
  NoRequest = NoRequest
  NoSum = NoSum
  Nothing = Nothing
  Client <- AnnAndBob
  Ops <- Lifetime
  Creator <- JustAnn
  MaxEdits = 2
  Hazard = {"quit", "cache", "reply"}
PROPERTIES UnsentStays DeletionIsFinal
