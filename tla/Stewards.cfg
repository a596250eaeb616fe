SPECIFICATION Stories
CONSTANTS
  r1 = r1
  r2 = r2
  ann = ann
  ben = ben
  cas = cas
  Requests <- TwoRequests
  Recruiters <- TwoRecruiters
  Analysts <- OneAnalyst
  MaxLeaves = 2
  MaxMoves = 3
  Jobs <- TwoRequests
  Levels = {"officer", "manager"}
  Facilities = {"laptop"}
  Names = {"jd", "form"}
  MaxUploads = 2
  MaxTrees = 2
  MaxWork = 3
  Nothing = Nothing
  Null = Null
  Junk = Junk
  Blank = Blank
  Replies <- AllReplies
  Offered <- TheFinalists
  Vacancies = {"req1", "req2"}
  Words <- TheWords
  Resembles <- TheLikes
  UnitList <- TheUnits
  DepartmentList <- TheDepartments
  SectionsOf <- TheSections
  MostCriteria = 1
  MostMatches = 2
  MostQuestions = 1
  MostFindings = 1
  Threshold = 40
  Histories <- SomeCvs
  Today = 4
  MonthDays = 2
  ReadOn = {4, 7}
  KeyOf <- Named
  Savers <- TwoRequests
  Askers <- OneAnalyst
  Keys = {"key"}
  EnvProvider = "gemini"
  EnvKeys = {"gemini"}
  NoKey = NoKey
  MaxSaves = 2
  MaxAsks = 1
  MaxBoots = 1
SYMMETRY Symmetric
CHECK_DEADLOCK FALSE
INVARIANTS
  CoverStandsIn
  SeenAsItStands
  DossierInOrder
  ReadAsTold
