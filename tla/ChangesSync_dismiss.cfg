SPECIFICATION FairSpec
CONSTANTS
  desktop = desktop
  NoEdit = NoEdit
  Client <- JustDesktop
  MaxEvents = 2
INVARIANTS TypeOK DismissedIsListed SumIsTrue
PROPERTIES OnlyDismissedGo Convergence
