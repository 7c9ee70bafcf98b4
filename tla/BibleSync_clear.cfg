SPECIFICATION Spec
CONSTANTS
  ann = ann
  bob = bob
  NoText = NoText
  NoAction = NoAction
  NoEdit = NoEdit
  NoRequest = NoRequest
  Verse <- TwoVerses
  Client <- AnnAndBob
  Chapter <- OneChapter
  Author <- AuthorEach
  Writer <- AnnAndBob
  OnServer <- OneChapter
  OnClient <- AllOnClient
  Connecting <- Nobody
  Hazard = {"clear"}
  MaxWord = 3
INVARIANTS UnsentIsRecorded
