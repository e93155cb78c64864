\* The names "a", "b/", "b/y", "b/" followed by U+10FFFF and "z", and "c",
\* seen without a delimiter, with the delimiter "/", and below "b/".
CONSTANTS
  NumNames = 5
  Views <- AllViews
  Starts = {0, 3}
  PageCap = 2
  Asked = {0, 1, 3}
  MaxDelete = 2
  MaxChanges = 2
SPECIFICATION Spec
INVARIANTS
  TypeOK
  EachListedOnce
  NothingMissed
  PurgeLeavesNothing
PROPERTIES
  ListingEnds
