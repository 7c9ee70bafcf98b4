SPECIFICATION FairSpec
CONSTANTS
  ann = ann
  bob = bob
  NoText = NoText
  NoAction = NoAction
  NoEdit = NoEdit
  NoRequest = NoRequest
  Verse <- TwoVerses
  Client <- AnnAndBob
  Chapter <- OneChapter
  Author <- AuthorEach
  Writer <- JustAnn
  OnServer <- OneChapter
  OnClient <- AllOnClient
  Connecting <- Nobody
  Hazard = {"clear", "restore", "apply", "compose", "reply"}
  MaxWord = 2
PROPERTIES Convergence
