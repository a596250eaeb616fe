SPECIFICATION Stories
CONSTANTS
  r1 = r1
  r2 = r2
  Requests <- TwoRequests
  Crashes = TRUE
  Budgets <- MCBudgets
  Tasks <- TwoRequests
  Candidates = {c1, c2}
  Docs = {"signature", "degree", "nid"}
  FacilityLinks = {l1, l2}
  Ids = {i1, i2}
  Allowances <- MCAllowances
  Works <- TwoRequests
  Scans = {"nid", "degree"}
  Referees = {"x"}
  MaxFolders = 3
  Orders <- MCOrders
  Senders <- TwoRequests
  Leavers = {"left", "moved"}
  Transferred = {"moved"}
  Colleagues = {"c"}
  Mailboxes = {"a", "it"}
  ItAddress = "it"
  Turns <- MCTurns
SYMMETRY Symmetric
CHECK_DEADLOCK FALSE
INVARIANTS
  NothingUnsigned
  LiveLink
  EndMeetsRequest
  PapersInOrder
  ItLetterStands
PROPERTIES
  HandAddressStays
  FacilityArranged
  ArchiveWhole
