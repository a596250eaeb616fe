SPECIFICATION SheetsAlone
CONSTANTS
  r1 = r1
  r2 = r2
  m1 = m1
  m2 = m2
  c1 = c1
  c2 = c2
  chro = chro
  Requests <- TwoRequests
  Members <- TwoMembers
  Candidates <- OneCandidate
  Chro = chro
  MaxSheets = 1
  MaxResends = 0
  MayDie = {}
  Heads = {h1, h2}
  Supers = {}
  Begun = {"none"}
  Errands <- MCErrands
SYMMETRY Symmetric
CHECK_DEADLOCK FALSE
PROPERTY RejectionStopsSheet
