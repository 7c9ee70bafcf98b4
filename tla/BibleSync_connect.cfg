SPECIFICATION FairSpec
CONSTANTS
  ann = ann
  bob = bob
  NoText = NoText
  NoAction = NoAction
  NoEdit = NoEdit
  NoRequest = NoRequest
  Verse <- TwoVerses
  Client <- AnnAndBob
  Chapter <- TwoChapters
  Author <- AuthorEach
  Writer <- AnnAndBob
  OnServer <- OneChapter
  OnClient <- AllOnClient
  Connecting <- AnnAndBob
  Hazard = {}
  MaxWord = 0
INVARIANTS BroughtAlongStays
PROPERTIES BroughtAlongArrives
