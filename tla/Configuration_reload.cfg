\* Three components, one of them without a build; three revisions, three lists.
SPECIFICATION FairSpec
CONSTANTS
  a = a
  b = b
  orphan = orphan
  r1 = r1
  r2 = r2
  broken = broken
  Names = {a, b, orphan}
  Revisions = {r1, r2, broken}
  Valid = {r1, r2}
  AsksResolver = {r1, r2}
  AsksBodhi = {r1}
  Overrides <- MCOverrides
  Excluded <- MCExcluded
  Lists <- MCLists
  HasBuild = {a, b}
  NoRevision = NoRevision
  NoName = NoName
  FetchAttempts = 2
INVARIANTS
  OneRevisionInForce
PROPERTIES
  ConfigFollows
  MissingIsPicked
  PageIsRefreshed
CHECK_DEADLOCK FALSE
