SPECIFICATION Stories
CONSTANTS
  r1 = r1
  r2 = r2
  k1 = k1
  k2 = k2
  p1 = p1
  ann = ann
  ben = ben
  Requests <- TwoRequests
  Panelists <- OnePanelist
  Delegates <- TwoPeople
  Kinds <- TwoKinds
  HasHead = TRUE
  Budgets <- RoundsOrMoves
  Workers <- TwoRequests
  People <- TwoPeople
  MaxJobs = 2
  Editors <- TwoRequests
  Guests <- TwoPeople
  Slots = 2
  Forms <- SomeForms
  MaxEvents = 2
  MaxEdits = 3
  Desks <- TwoRequests
  h1 = h1
  h2 = h2
  Hires <- TwoHires
  Bands = {"below_40"}
  Keys = {"nid", "degree"}
  Demands <- MCDemands
SYMMETRY Symmetric
CHECK_DEADLOCK FALSE
INVARIANT JoinedIsNotOffered
