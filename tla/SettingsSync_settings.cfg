SPECIFICATION FairSpec
CONSTANTS
  desktop = desktop
  phone = phone
  NoEdit = NoEdit
  Client <- JustDesktop
  Setting <- ThreeSettings
  Sendable <- OwnTwo
  MaxMade = 3
  MaxQuits = 1
INVARIANTS TypeOK UnsentIsFlagged
PROPERTIES UnsentIsKept OnlyChangesAreSent Convergence
