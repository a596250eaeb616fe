SPECIFICATION Stories
CONSTANTS
  r1 = r1
  r2 = r2
  m1 = m1
  m2 = m2
  Requests <- MCRequests
  Members <- MCMembers
  Levels = 0
  MaxRounds = 1
  Candidates <- ThreeCandidates
  Named <- TheirNames
  Populations <- SomeTables
  Queries <- SomeQueries
  Nil = Nil
  MaxChanges = 1
  MaxTime = 2
  MaxAsides = 1
  MaxChanged = 1
SYMMETRY Symmetric
CHECK_DEADLOCK FALSE
INVARIANTS
  ChainInOrder
  StatusAgrees
  ShownAsTheyAre
PROPERTIES
  SignedStepStands
  LifecycleForward
