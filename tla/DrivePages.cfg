SPECIFICATION Spec
CONSTANTS
  f = f
  g = g
  fresh = fresh
  a = a
  b = b
  Root = Root
  Files <- MCFiles
  Folders <- MCFolders
  Foreign <- MCForeign
  Spare <- MCSpare
  Favourites <- MCFavourites
  Media <- MCMedia
  Start <- MCStart
  Before <- MCBefore
  OtherAsks <- MCOtherAsks
  Binned <- MCBinned
  Matching <- MCMatching
  Pages = {"dashboard", "mine", "favs", "media", "shared", "trash"}
  MaxActs = 1
  MaxNav = 1
  MaxOther = 1
INVARIANTS TypeOK NothingLost ShownIsCurrent
PROPERTIES TrashFirst MoveSettles
CHECK_DEADLOCK FALSE
