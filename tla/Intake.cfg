SPECIFICATION Stories
CONSTANTS
  r1 = r1
  r2 = r2
  m1 = m1
  m2 = m2
  Requests <- TwoRequests
  Mails <- TwoMails
  MaxRows = 2
  MaxFiles = 2
  MaxAsks = 3
  Senders <- TwoRequests
  JoinFor = 1
  QuietFor = 2
  BatchSize = 2
  MaxReferred = 2
  MaxReferrals = 2
  MaxQueue = 2
  Visitors <- TwoRequests
  MaxFailures = 2
  MaxTries = 2
  MaxActs = 4
  Posters <- TwoRequests
  Genuine = "genuine"
  Stale = "stale"
  Closings = {0, 2, 9}
  TypedIns <- SomeTyped
  MaxDays = 3
  MaxPosts = 3
  Pages <- TwoRequests
  Cooldown = 1
  Ttl = 2
  Window = 3
  ProofTtl = 2
  MaxSends = 2
  MaxGuesses = 2
  MaxCalls = 4
  MaxClock = 3
SYMMETRY Symmetric
CHECK_DEADLOCK FALSE
INVARIANTS
  LettersWhole
  CodesHold
PROPERTIES
  IntakeStands
  AccountStands
  PublicationStands
