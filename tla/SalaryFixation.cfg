SPECIFICATION Stories
CONSTANTS
  r1 = r1
  r2 = r2
  g1 = g1
  ann = ann
  ben = ben
  hr = hr
  a = a
  b = b
  Requests <- TwoRequests
  Grades <- OneGrade
  Top = 2
  Worths = {0, 1, 2}
  Scale = {0, 2}
  MaxAttempts = 2
  MaxScores = 0
  MaxEdits = 1
  Crashes = TRUE
  Desks <- TwoRequests
  Applicants <- TwoApplicants
  Factory <- TwoPeople
  Heads <- TwoPeople
  Recruiter = hr
  LinkDays = 0
  Batches <- Both
  Crews <- Crew
  Sittings <- SomeSittings
  MaxDay = 1
  Plans <- SomePlans
  q1 = q1
  q2 = q2
  Browsers <- TwoRequests
  Questions <- TwoQuestions
  MaxVisits = 3
  MaxChanges = 1
  Papers <- SomePapers
  Panels <- SomePanels
  Screens <- TwoRequests
  Interviewers <- TwoInterviewers
  MaxSaves = 2
  MaxOpens = 3
SYMMETRY Symmetric
CHECK_DEADLOCK FALSE
INVARIANTS
  SaveNotRefused
  FixedHonoursOverride
  InterviewStands
PROPERTIES
  TestsStand
