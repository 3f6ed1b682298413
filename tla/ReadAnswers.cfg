SPECIFICATION Spec

CONSTANTS
  None = None
  MountEntries <- TwoMounts
  TooLong = {"long"}
  Mount = {"m", "x"}
  Spelling <- AllSpellings
  FileName <- ShortSpellings
  AskedPath <- Asked
  NameOrder <- Order
  Page = {0, 2, 9}
  Limit = {0, 2, 9}
  Offset = {0, 1, 3, 15}
  Leaf <- Changing
  LeafNode <- Nodes
  InitTree <- SmallTree
  UsizeSize = 16
  MaxPageLimit = 3
  MaxChanges = 3

INVARIANTS
  TypeOK
  OneKeyForAFile
  EveryFileIsReachable
  UploadsKeepTheirDirectory
  ListingIsHonest
  PagesAreExact
  RangeIsExact
