SPECIFICATION Stories
CONSTANTS
  r1 = r1
  r2 = r2
  m1 = m1
  m2 = m2
  c1 = c1
  c2 = c2
  chro = chro
  Requests <- TwoRequests
  Members <- OneMember
  Candidates <- OneCandidate
  Chro = chro
  MaxSheets = 2
  MaxResends = 0
  MayDie = {"request", "override", "create", "place", "open", "clear", "issue", "claim", "decide", "spread", "reject", "complete", "stage", "edit"}
  Heads = {h1, h2}
  Supers = {}
  Begun = {"none", "corporate_hr", "chro"}
  Errands <- MCErrands
SYMMETRY Symmetric
CHECK_DEADLOCK FALSE
INVARIANTS
  SignaturesFirst
  RowsFollowSheet
  DeskStands
PROPERTIES
  AnswerStands
