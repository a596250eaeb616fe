SPECIFICATION Stories
CONSTANTS
  r1 = r1
  r2 = r2
  p1 = p1
  p2 = p2
  raiser = raiser
  dept = dept
  Requests <- TwoRequests
  Approvers <- TwoApprovers
  Raiser = raiser
  Depts <- OneDept
  MaxLevels = 2
  MaxEdits = 3
  Clerks <- TwoRequests
  Codes = {"e1", "e2"}
  UnitNames <- TwoNames
  Key <- NameKey
  Areas = {"dye"}
  Addresses = {"x", "y"}
  Feeds <- MCFeeds
  MaxUnits = 2
  Errands <- MCErrands
SYMMETRY Symmetric
CHECK_DEADLOCK FALSE
INVARIANTS
  AccessStands
  DirectoryWhole
