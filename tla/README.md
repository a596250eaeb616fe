# Verification of the DBL HRM backend

TLA+ models of the HRM backend (NestJS, Prisma and PostgreSQL, under `src/`), TLC
configurations that check them on small instances, and TLAPS proofs that carry the most
important properties over to every instance.  All paths below are relative to
`src/src/modules/` unless they begin with `src/`.

1. The system
2. What is modelled, module by module
3. The runs: what each asks, its bounds, what it shows
4. The theorems and how they are proved
5. Findings
6. What is not modelled
7. The plan

## 1. The system

One Node process (`src/ecosystem.config.js`: one instance, fork mode) serves the API over
one PostgreSQL database.  Handlers are `async`
functions: one runs without interruption up to its next `await`, and every database query
is an `await`.  Two requests (two users, or one user clicking twice) therefore interleave
at queries.  The database runs its default isolation, READ COMMITTED: a `$transaction`
commits as a whole, but what it writes may rest on a read made before it started.  Only
unique indexes, CHECK constraints and conditional updates (`updateMany` with the expected
state in its `where`) protect a write against what happened since the read.

So the question asked of every component is the same: **a handler reads, decides and then
writes; what is still true if others have written in between, or if it dies half way?**

### Components

| Component | Keeps | Does | What must be true of it |
|---|---|---|---|
| Requisition chain (`requisition/`, `requisition-board`) | a requisition's status, its ordered approval steps, a vote per board member, its files and facilities | job analysis, sign-off step by step, escalation to the CHRO, the board by e-mailed links, return and resubmission, role profile, posting | steps are signed in order and once; status and steps agree; the chain keeps its shape; no file is lost |
| Hiring approval sheets (`board/`) | a row per candidate, a sheet over several, a vote per e-mailed link | request, HR override, send a sheet, CHRO stage, board stage, resend, answer, correct a cell | nobody is approved unsigned; a sheet decides as a whole; an answer is final and is acted on |
| Screening tests and salary (`salary-fixation/`, `ai-proficiency/`) | one salary record, the AI test attempts, a question bank | HR's form, marks by delegates, finalize, offer, test links and their results | a mark never exceeds its total; a delegate's mark stands; a result is not lost; a fixed salary is the one HR decided |
| Permissions and roles (`rbac/`, `common/cache`) | roles and grants, a cached permission set per user | grant, revoke, load through the cache, invalidate | a revoked right is gone |
| Approval paths (`approval-paths/`) | the levels configured per unit or department | save, renumber, raise along | a path is whole, and whoever is named on it may act |
| Leave and cover (`leave/`) | leaves and who covers them, who is away as the process remembers it | start, end and lapse | work moves to the cover and comes back |
| Sign-in (`auth/`) | password, two-factor state, token version, reset codes | login, second factor, reset, log out everywhere | old tokens die; a code works once and only so often; a lock holds |
| Users, employees, units (`users/`, `employees/`, `units/`) | accounts, the directory's rows, units and departments | edits by hand beside the nightly copy | one unit for every spelling |
| Interviews and evaluations (`assessment/`) | rounds, panels, links, marks, hand-offs, calendar events | schedule, evaluate, complete, delegate | an evaluation counts once; links and calendar follow the panel |
| First-interview approval (`assessment/`) | a decision per candidate, links of the Heads | submit, ask, decide, write regrets | decided once; every Head is asked and nobody is told twice |
| Candidates and CV screening (`candidates/`) | a candidate's stage, CV, screening scores, Talent Bank, referrals | create, screen with AI in the background, match, thank, reject, list | a late screening never revives a rejected candidate; one candidate for each CV; the list shows what there is |
| Inbound applications (`automation/gmail-ingest`, `integrations/bdjobs`) | markers of what was imported, the advertisement and its settings | poll, parse, create candidates, post | an application is imported once; "posted" is posted |
| Onboarding (`onboarding/`) | an offer, joining documents, medical and verification status | offer, accept, decline, collect, verify, archive | a finding is signed; verification comes first; the archive is whole |
| IT account, facilities, reference checks (`onboarding/`) | a request per link | ask by e-mail, answer | one live link, answered once, about the right people |
| Directory sync (`integrations/zinghr`) | a copy of the employee directory | periodic sync, one run at a time | every run settles and counts everybody |
| Language model (`integrations/ai`) | provider settings | grade, extract, write | whatever is answered, what is kept is legal |
| Google, mail, PDF, letters | nothing the others read | send, store, render | - |
| Notifications, audit, logs, dashboards, tutorials, settings, backups | append-only rows, views, configuration | - | - |

### How they interact

* A **requisition** that is posted takes **candidates**; the first interview may need
  approval; **evaluations** of the second interview feed the committee figure of the
  **salary record**; test results come into the same record from the AI test's public
  link, from HR's form, from the marks dialog and from a delegation's testing brief.
* A fixed salary is what a **hiring sheet** asks for; an approved candidate is offered the
  figure the record proposes and then **onboarded**.
* **Permissions** and **leave** decide who may act in all of them.
* Nothing is called back: components share rows, and every hand-over is a read of a row
  another handler writes.

### What is hard

* *Read, then write.* A handler seldom reads again what its write rests on, even where the
  write is a transaction.  The writes that are guarded are the claims: a step or a link is
  claimed by an update conditional on its being pending.
* *Several writes.* A sheet is decided in four separate writes (vote, sheet, rows, and the
  next stage's links); the process may stop between any two.
* *Slow awaits.* Language models, mail and PDF rendering put seconds between a read and
  the write that rests on it.
* *Links.* An e-mailed link answers long after the state it was sent in.
* *Shared rows.* Five handlers of three services write the salary record, each its own
  subset of columns.

Every such place is listed with its line in `PROJECT.json` under `hazards`, with the
properties that cover it, or why none does yet.

## 2. What is modelled

The five modules with a table below are the core; the others follow in short.  `MC`
modules hold values for TLC and the *stories* (section 3), `...Proofs` modules the proofs.

| Component | Modules |
|---|---|
| Requisition chain, its files, its cover | `RequisitionChain`, `Dossier`, `Stewards` |
| Hiring approval sheets | `ApprovalSheets`, `SheetDesk` |
| Screening tests and salary | `SalaryFixation`, `Scorecard` |
| Interviews, first-interview approval | `CandidatePipeline`, `Sessions`, `HeadDesk`, `Scorecard` |
| Candidates, CV screening | `CandidatePipeline`, `Intake`, `Referrals`, `Sourcing`, `EmailCode`, `Register`, `Timeline` |
| Inbound applications | `Intake`, `Publication` |
| Onboarding, IT, facilities, references | `Onboarding`, `Joining`, `Arrangement`, `OnboardingDesk`, `Archive`, `ItLetter` |
| Permissions, roles, approval paths | `Access` |
| Sign-in, users | `Account` |
| Units, employees, directory sync | `Directory` |
| Language model | `Answers`, `Career`, `Assistant`, with `Lists` for arrays |

Each component module is written in the same way.  The variables are the rows.  `req`
holds, for each request in flight, which write comes next and what the handler remembers
of what it read: its local variables.  A handler is the action named after it (its read
and its checks) followed by one action per later write.  `Fail` ends a request between two
writes: a refused query, or a restart of the process, which is `Fail` of every request.
Who may press a button is left open, since a super user passes every gate.

**`inTurn`.**  The code does not protect every write.  A history variable `inTurn` is
set to FALSE, for good, at the moment a write lands on something other than what its
handler had read (each module lists the cases).  Where one module has several such histories, or one of a
narrower kind, it has a name of its own: `inOrder` (`Account`), `calm` (`EmailCode`), `taken`
(`Publication`), `tidy` (`Dossier`), `inLine` (`Joining`), `oneByOne` and `twins` (`Archive`),
`alone` (`ItLetter`, `Scorecard`), `undisturbed` (`OnboardingDesk`), `crossed` (`HeadDesk`),
`inStep` (`SheetDesk`), `astray` (`Assistant`), `doubled`, `touched` and `shared`
(`Directory`), `settled`, `strayed` and `renewed` (`Sessions`), `since` (`Register`).  A property that reads
`inTurn => ...` says: *these are the only interleavings that can break it*; all others,
and that is most of them, are checked to be harmless.  Properties without `inTurn` hold
whatever interleaves.

### `RequisitionChain` - `requisition.service.ts`, `requisition-board.service.ts`

| Model | Code |
|---|---|
| `status`, `steps`, `returned`, `vote`, `expired` | `Requisition.status`, `ApprovalStep` rows by `orderIndex`, `jobAnalysisReturnedAt`, `RequisitionBoardVote.status` and `tokenExpiresAt` |
| `SaveJobAnalysis`, `ReturnJobAnalysisToRaiser`, `ResendForJobAnalysis` and their commits | the handlers of the same names |
| `Act` / `CommitAct` / `FinishDecision` | `act`: checks, its transaction, what follows it |
| `Resubmit` / `CommitResubmit` | `resubmit`: every step back to `PENDING` |
| `SendToBoard` / `CommitBoard` / `CreateVote` | `sendToBoard`: the transaction, then a vote row and mail per member |
| `Vote` / `ClaimVote` / `DecideVote` | the link's answer: look up, claim, decide |
| `GenerateRoleProfile`, `UpdateRoleProfile`, `Post` and their commits | the handlers of the same names |
| `HardDelete` | the administrator's delete |

A step carries its role and status only.  `round` counts resubmissions, and is history.

### `ApprovalSheets` - `board.service.ts`

`rows`, `sheets` and `votes` are the three tables; a deleted vote is kept, as `deleted`, so
that a link already in flight still points at it.  `SendForApproval`, `HrApprove`,
`SendSheet`, `ResendSheet` and `SubmitSheetVote` are what people ask for; `CreateSheet`,
`PlaceRows`, `OpenStage`, `ClearPending`, `IssueLink`, `ClaimVote`, `DecideSheet` and
`SpreadDecision` are the writes that follow, in the order of the code.  A row's `by` is
history.  `MayDie` says before which writes a request may die.  A link past its 60 days
answers nothing, as one nobody opens.

### `SalaryFixation` - `salary-fixation.service.ts`, `ai-proficiency.service.ts`, `interview.service.ts`

`record` is the salary row: two tests (each a switch, a total and a mark), the job grade,
HR's own figure, the figure proposed, the status, and whether it was offered.  The Written
and the Computer Literacy test are treated alike by every handler, so one stands for both;
a figure is known by where it comes from and by how many evaluations it averages.

| Model | Code |
|---|---|
| `Upsert` / `CommitUpsert` | HR's form: every field of it is written |
| `Finalize`, `MarkOffered`, `Get` and their commits | the handlers of the same names; a failed test stops only what is not fixed yet; `Get` presets an empty grade |
| `MarkTests` / `CommitMarks` | the marks dialog, of recruitment or of a delegate |
| `Brief` | the testing brief written with a delegation (`interview.service.ts`) |
| `Evaluate` | a panelist's evaluation |
| `AssignTest` / `CommitAttempt` / `CommitPreset` | a test link and the grade it presets |
| `SubmitTest` / `CommitSubmit` / `RecordResult` | handing the test in, and the record |
| `EditBank` | adding, re-marking and removing questions |
| `Within` | the CHECK constraint `salary_fixations_marks_within_totals` |

`Save` refuses a row that is not `Within`, as the database does.

### `CandidatePipeline` - `interview.service.ts`, `first-interview-approval.service.ts`, `candidates.service.ts`

One candidate: `stage`; `rounds`, each with its kind, status, panel, the people who hold a
marking link and those who have marked; `handoffs`, one per delegate the first interview
can be handed to; `approval`, what the Factory HR Head made of it.

| Model | Code |
|---|---|
| `Arrange` / `CreateRound` / `AdvanceStage` / `MakeLinks` | `schedule`: the checks, the row, the stage, `generateEvalTokens` |
| `Edit` / `CommitEdit` / `DropLinks` / `MakeLinks` | `update`: the checks, the row and its panel, the old links, the new ones |
| `AddPanelists` / `SeatPanelists`, `ResendLink`, `Remove` | `addPanelists`, `resendEvalToken`, `remove` |
| `SubmitEvaluation`, `SubmitByLink` / `CommitMark` | `submitEvaluation`, `submitEvalByToken`: one evaluation per round and person |
| `Delegate`, `Revoke` / `CommitRevoke` | `delegate`, `revokeDelegation` |
| `RecordOutcome` / `SubmitToHead`, or / `CommitOutcome` / `CompleteHandoffs` | `recordFirstInterviewOutcome`: to the Head, or final |
| `Decide` / `CommitDecision` | `decideOne`; the e-mailed link decides as the page does |
| `RejectAtInterview` / `CommitReject`, `MoveStage`, `RejectRemaining` | `rejectAtInterview`, HR's own edit of the stage, bulk rejection |
| `Screen` / `CommitScreening` | `runScreen`: minutes of a language model between read and write |

The queries a handler makes before its first write are one step.  The form sends one box
at a time; a form of several is several requests to the same row.  A removed round stays
in the sequence as `removed`, so that a request still pointing at it finds it gone.

### `Onboarding` - `onboarding.service.ts`, `hr-verify.ts`, `medical-approval.ts`, `it-account-request.service.ts`

One candidate who was selected: `status`; `docs`, the status of each document, oldest
first; `stamps`, which of the row's dates, ticks and particulars are filled in; `medical`,
the finding, what was proposed, and whether it was by hand or signed centrally; `board`,
whether the `BoardApproval` stands; `email`, whose address is on the row; `ticket`, the
`ItAccountRequest`, with the link that is live.  `links` is history: which mails to IT left.

| Model | Code |
|---|---|
| `Waive`, `VerifyDoc`, then `CheckDue` / `CommitAlert` | `skipDocs`, `skipVerification`, `reviewFacilities`, `verifyDoc`, each ending in `notifyMedicalTeamIfDue` |
| `AlertByHand` / `CommitAlert` | `alertMedicalTeam` |
| `Upload` / `CommitUpload` / `CommitSubmitted` | `publicUpload`: the row is read, minutes of Drive, two writes |
| `SaveParticulars` | `publicSaveNid`, adding and removing a reference check |
| `SendOffer`, `Accept`, `AcceptByHand`, `Decline` and their commits | `doSendOffer`, `publicAcceptOffer`, `markOfferAcceptedManually`, `publicDeclineOffer` |
| `SetMedical` / `CommitMedical`, `Decide` / `CommitDecision` | `setMedical`, the Central Medical Officer's `decideOne` |
| `HrVerify` / `CommitVerify`, `SendAppointmentLetter`, `Archive` | `hrVerify`, `doSendAppointmentLetter`, `archive` |
| `NotifyIt` / `CloseTicket` / `Complete` | `notifyIt`: HR ends the onboarding by hand |
| `RequestIt` / `SaveTicket` / `Mail` / `Undo` | `send`: the request to IT, its mail, and putting it back |
| `Answer` / `Claim` / `RecordAnswer` | `completeByToken`: IT's answer, claimed once |
| `BoardMoves` | `submitSheetVote`, modelled in full in `ApprovalSheets` |

One required document stands for the list of them, one particular for the four of the NID.
The exam form that a clearance needs is left open: a finding may be recorded or not.  A
link past its thirty days answers nothing, as one nobody opens; a mail that fails is taken
not to have arrived.

### Around the core

**Requisition.**  `Stewards` (`leave.service.ts`, `permissions.service.ts`): leaves as dated
rows, the stand-in they bring, who is away as remembered for half a minute, the recruiter's
appointment and the doors and lists that open to each.  `Dossier`: the levels of a post, HR's
decision on facilities, and files, each a read of a whole column and a write of it back, with
calls to Drive between; the folder tree made once per process (`single-flight.ts`).
`Register` (`candidates.service.ts`: `list`, `exportCandidates`, `applyHistory`): paging
through rows that change meanwhile, the figures above them, and duplicates by address and
telephone.  `Timeline`: the history printed for the personnel file, put together from dates, of which most
may be written again and some taken back.

**Sheets.**  `SheetDesk` extends `ApprovalSheets` and adds to its rows the cells HR corrects,
the links a single row carries, who made a sheet and what a recipient is mailed and shown.
A request made again is two writes, `RemoveLinks` and `Record`, and may die between them.

**Interviews and tests.**  `Sessions`: one session's time, guests, links and calendar event;
each call to Google may fail, or do its work and go unanswered.  `HeadDesk`: a batch of
candidates on their way through hand-off, verdict, the Heads' mails, decision, notice and
letter of regret.  `Scorecard`: the AI test as it is sat (start, departures, answers), what
the screens say of a mark, and the form of what the candidate earns.

**Candidates.**  `Intake`: five ways a CV comes in, upload before row and row before marker,
and the readings that write to the row afterwards.  `Referrals`: the CVs somebody refers,
one at a time or in a batch, and the letter of thanks, with the queue behind which it waits.
It counts time in minutes and assumes that looking a referral up and adding one candidate
takes less than one (that is two queries), while a batch takes as long as Drive does.
`Sourcing`: a screening job and its progress bar, the matching of the Talent Bank.
`EmailCode`: the code that proves an applicant's address, its cooldown, window, guesses and
the proof it is exchanged for.  `Publication`: an advertisement saved and posted to BDJobs,
and the settings it is posted with.

**Onboarding.**  `Joining`: the medical letter, numbers, Code of Conduct, extractions and
verdicts, and a facility asked of several people.  `Arrangement` is the abstract
specification of that facility - *arranged once somebody confirms, and for good; refused only
until then* - and `Joining` is checked to implement it (`A == INSTANCE Arrangement WITH
standing <- GetStatus`, `FacilityArranged == A!Spec`).  `OnboardingDesk`: lists and batches
over several hires.  `Archive`: folders, documents, reference checks and the move to the
permanent file, each call to Drive an action that may fail.  `ItLetter`: whose accounts the
letter to IT names, from draft to mail, undo and answer.

**People.**  `Access`: roles held, the cached permission sets with loads that straddle an
invalidation, raisers, approvers and the levels of their paths.  `Account`: one account's
password, lock, second factors, sessions, reset code and signature; a visit remembers the row
as it read it, and spends a bcrypt comparison or a mail before it writes.  Authenticator
secrets are numbered, and the history `held` names the one whose code its owner gave last, so
that a setup that replaces a secret in use shows.  `Directory`:
the nightly copy row by row, HR's corrections beside it, units and their spellings.

**Language model.**  `Answers` has a reader per question: what is kept of *any* answer.
`Career` computes service, gaps and companies from jobs and schooling of any dates.
`Assistant`: settings, their copy in memory, keys that no longer decrypt, and the fallback
from one provider to the other.  The first two are functions of an input; TLC evaluates them
on every input within bounds.

## 3. The runs

A run is one `.cfg`.  An `MC` module composes the modules of one area: a variable `story`,
chosen at the start and never changed, says which of them moves while the others stand
still.  The stories of one run share no rows, so composing them loses nothing, and the run
reaches the sum of their states and not the product.

All runs use two requests in flight: every hazard listed is a race of two handlers, and a
third could mostly repeat what the second does.  Requests, members, candidates and people
are symmetric where no property names one; liveness is checked without symmetry.  Deadlock
is not checked: each model stops when its bounded edits, sheets or rounds are used up, as
the office does when there is nothing left to decide.

| Run | Stories | Properties |
|---|---|---|
| `req_chain` | *chain*: the sign-off; *list*: paging through the candidates; *history*: the printed history | `ChainInOrder`, `StatusAgrees`, `SignedStepStands`, `LifecycleForward`; `ShownAsTheyAre` |
| `stewards` | *people*: leaves and stand-ins; *papers*: levels, facilities, files; *answers* and *careers*: what a model says and what a CV tells; *assistant*: the models' settings | `CoverStandsIn`, `SeenAsItStands`; `DossierInOrder`; `ReadAsTold` |
| `sheets` | *sheets*: two sheets after one candidate; *desk*: a row's own links, corrections, what is mailed | `SignaturesFirst`, `RowsFollowSheet`, `AnswerStands`; `DeskStands` |
| `sheets_live` | the sheets alone, under fairness | `NothingLost` |
| `salary` | *tests* and *forms*: the salary record, with and without AI tests; *desk*: the first interview; *marks*: sitting a test; *figures*: the shared form | `SaveNotRefused`, `FixedHonoursOverride`, `TestsStand`; `InterviewStands` |
| `pipeline` | rounds, panels, hand-offs, stages; background jobs; one session and its calendar; *desk*: two hires in batches | `OneLiveRound`, `MarksByPanel`, `HeldWhilePending`, `RejectedStands`; `JobsSettle`; `InvitationsFollow`; `DeskServes` |
| `onboarding` | *onboarding*; *joining*: papers and facility; *archive*; *it*: the letter to IT | `NothingUnsigned`, `LiveLink`, `EndMeetsRequest`, `HandAddressStays`; `PapersInOrder`, `FacilityArranged`; `ArchiveWhole`; `ItLetterStands` |
| `access` | rights and paths; the directory | `AccessStands`; `DirectoryWhole` |
| `intake` | *intake*; *referrals*; *account*; *advert*; *code* | `IntakeStands`; `LettersWhole`; `AccountStands`; `PublicationStands`; `CodesHold` |
| `sheets_rejection`, `referrals_late`, `sourcing_joined` | each ends in a counterexample, section 5 | `RejectionStopsSheet`; `LettersWait`; `JoinedIsNotOffered` |

Several properties are conjunctions of named parts, each stated and explained above its own
definition: `ChainInOrder` (`ChainShape`, `InOrder`), `ShownAsTheyAre` (`RegisterTold`,
`TimelineTold`), `DossierInOrder` (`RecordAddsUp`, `FilesStay`), `SeenAsItStands` (`AwayIsKnown`,
`ListMatchesDoor`), `ReadAsTold` (`SettingsHold`, `AnswersFit`, `CareerAsTold`), `SignaturesFirst`
(`BoardAfterChro`, `DecidedOnAnswers`), `RowsFollowSheet` (`ApprovalIsSigned`,
`SheetDecidesAsAWhole`), `DeskStands` (`LinksInOrder`, `ProgressIsOwn`, `NobodyStranded`,
`MailedStands`), `NothingLost` (`AnswerCarried`, `DecisionReachesRows`), `TestsStand`
(`ResultCarried`, `OneLinkOut`, `DelegateMarksOnce`), `InterviewStands` (`DeskInOrder`, `SittingTold`,
`CardsAgree`, `FacilitiesShared`), `MarksByPanel` (`AbsentUnmarked`, `LinksFollowPanel`), `JobsSettle`
(`BarSettles`, `MatchesAnnounced`), `InvitationsFollow` (`CalendarFollows`, `LinksOutlive`),
`DeskServes` (`AskedIsHeard`, `RuledOnce`, `NobodyLeftOut`, `ChaseSuffices`), `NothingUnsigned`
(`MedicalSigned`, `VerifiedFirst`), `EndMeetsRequest` (`DoneIsClosed`, `AnswerCounts`),
`PapersInOrder` (`LetterStands`, `NumbersApart`, `FormFiledOnce`, `AllCrossChecked`), `ArchiveWhole`
(`PapersArchived`, `FormsArchived`, `AddressStays`), `ItLetterStands` (`RowIsLastMail`, `MoversKept`,
`AnsweredAsAsked`), `AccessStands` (`RevokedIsGone`, `ChainContiguous`, `PathMeansRole`),
`DirectoryWhole` (`RunsSettle`, `OneUnitEach`), `AccountStands` (`SignInHolds`, `OwnerOrTime`),
`IntakeStands` (`OneCandidateEach`, `GivenStands`).

Why the bounds are enough:

* *Chain.* With no named level (`Levels = 0`) the chain is Corporate HR, CHRO, board: three
  steps, two of them appended while others act.  One resubmission gives a request that read
  the chain before it and writes after it.  Longer chains are covered by the theorems.  The
  list has three candidates, two of one name, so that a page boundary falls between equals,
  and one change while it is read, also between two queries of one page, which come in either
  order; the history has two dates, one event that nothing waits for and one date that is
  written again or taken back.
* *Stewards.* Two leaves can be out at once, of the recruiter and of whoever stands in; three
  moves let an appointment overtake one leave while a second is recorded.  Two uploads and
  two folder trees are the least at which a file can be appended to a list read before the
  other's, and go to the wrong tree.  Model answers are all lists of up to two entries, a
  `Null` among them, over limits of 1 or 2, so that each limit is passed.  CVs have two jobs
  of any dates, three dated ones, or two schools; today is day 4 of two-day months and the
  profile is read that day and on day 7.
* *Sheets.* Two sheets after one candidate is the least at which a row can change sheets.
  One board member can hold two links at once (a resend), so answers to one sheet race.
  Whether two members disagree matters to `RejectionStopsSheet`, which has two.  Requests may
  die before every write here; in `sheets_live` only before writes that rest on no recorded
  answer.
* *Salary.* An edit is one box of a form; two edits lower a total under a mark.  A mark of
  0 fails and one of 2 passes a total of 2.  Edits multiply the states, so the races among
  the forms (no AI test, two edits, one evaluation) and those of two test links (one edit)
  are two stories.  `Worths` includes 0 (a bank emptied under a test) and 1 (re-marked below
  a score).  The desk has two candidates and two people, who are both Heads: enough for a
  batch to be half done and for the two Heads to differ.  The test has two questions, three
  requests and one change of the bank; the form two screens, three openings, two saves.
* *Pipeline.* Four requests about the rounds are what it takes to arrange a round, record
  an absence, arrange its replacement and undo the absence.  One panelist is enough, since
  no property relates two.  Two delegates let one hand-off be taken back or sent again
  while the other stands.  The two budgets keep stories about rounds apart from stories
  about the stage and the Head; the one round of the second still lets scheduling advance
  a stage that somebody else is moving.  Two jobs, two people; a session of two times, two
  guests and three changes, with two calendar events; two hires with two papers each.
* *Onboarding.* A verification takes a result, the documents' waiver and `HrVerify`, so that
  two requests about the medical and one about papers reach everything behind it; from there
  five about IT let a request be sent, sent again, answered and overtaken by hand.  Five
  about the medical are a finding, a decision, a second finding that races a decision, and
  the verification.  Joining has three sends of one letter, four saves of numbers over two
  candidates, and a facility asked of two people.  The archive has two documents, one
  reference and three folders, one more than two first uploads can make.
* *Access.* Two levels are the least that can be renumbered, three requests the least in
  which a role goes while a path is written and a set is loaded.  Two employees come under
  one unit spelled two ways.
* *Intake.* One applicant with two mails, two rows, two files, three requests.  Time in
  `Referrals` is minutes, with a joining window of 1 and a quiet one of 2.  An account is
  locked by two wrong passwords and its code cancelled by two wrong guesses.  A closing date
  is past, near or beyond what BDJobs takes.  The code's cooldown, life and window are 1, 2 and 3.

**The merged histories.**  The properties that hold only while writes land in turn say so
(`inTurn => ...`, or one of the other histories above), and those that hold in any case do
not.  In `CandidatePipeline` two things that are not races clear `inTurn` as well, because
the code lets them happen: an edit that turns a round into a kind already arranged, and a
process that dies before the links of people taken off a panel are deleted.  In `Onboarding`
it is HR asking IT between the two writes by which HR ends the onboarding by hand, and a
request that dies between those two, between saving IT's request and mailing it, or between
claiming IT's answer and recording it.  `SheetDesk` keeps per row, in `former.reset`, whether
every request that deleted its links has come to reset it.  `LinksInOrder` does not ask
who decided a row of which that is not so, and `NobodyStranded` not on whose desk it is;
everything else is asked of it, and both are asked again once the row is reset.

Each property of a passing run also has a mutant in `PROJECT.json`: a variant of one
definition, written beside the original and named in a comment "Variant", with a plausible
slip in it (a claim that forgets its condition, a total that is not written with its
mark).  The property fails on it.

**Fairness.**  `Fairness` of `ApprovalSheets` is weak fairness of `Proceed(r)`, the next
write of a request in flight.  A handler that awaits a query goes on when the query
settles, and nothing else in the process can keep it from doing so, so that a write which
stays possible is made.  Nothing is assumed of people (no fairness on what they ask for).
A request may die before it has claimed an answer (`MayDie`), and the answer can then be
given again; once the answer is recorded it may not, because nothing in the code resumes the
request and the answer would indeed be lost.

## 4. The theorems

Proved with TLAPS for **every** value of the constants (any number of requests, members,
candidates, levels, rounds, sheets, resends, marks, attempts, edits, kinds of interview,
panelists, delegates, leaves, files, mails, rows and calls, with or without crashes), from
the assumptions named in each module (`LevelsAssumption`, `BoundsAssumption`, ...). These
say no more than that the bounds are numbers, that the limits the code hard-wires are at
least one (`AttemptsAssumption`, `CodeAssumption`), that the marks people type are within
the largest total (`ScaleAssumption`), that the recruiters and the unit's Factory HR are two
groups (`RolesAssumption`), what BDJobs' form can hold (`PostingAssumption`), that a raiser
is not named as an approver of their own requisitions (`RaiserAssumption`), that some
documents are required of everybody (`KeysAssumption`), that there are candidates, ids and
links (`SomeAssumption`), that people, senders and employee codes are finitely many
(`JobsAssumption`, `SendersAssumption`, `CodesAssumption`), what the directory sends of an
employee (`FeedsAssumption`), which boxes a session's form has (`FormsAssumption`), that how
often something is asked for is a number (`OrdersAssumption`), and that a referral is joined
for less than it must be quiet (`WindowAssumption`).

| Module | Theorem | States |
|---|---|---|
| `RequisitionChainProofs` | `ChainTheorem` | `ChainInOrder` |
| | `StatusTheorem` | `StatusAgrees` |
| | `StandsTheorem`, `ForwardTheorem` | the action properties `SignedStepStands`, `LifecycleForward` |
| | `DirectoryTheorem` | `DirectoryWhole`, of `Directory` |
| `ApprovalSheetsProofs` | `SignaturesTheorem`, `RowsTheorem` | `SignaturesFirst`, `RowsFollowSheet` |
| | `AnswerTheorem` | the action property `AnswerStands` |
| `SalaryFixationProofs` | `TypeTheorem`, `SaveTheorem` | `TypeOK`, `SaveNotRefused` |
| | `HonoursTheorem` | `FixedHonoursOverride` |
| | `TestsTheorem` | `TestsStand`: `ResultCarried`, `OneLinkOut`, and the action property `DelegateMarksOnce` |
| `CandidatePipelineProofs` | `TypeTheorem`, `OneRoundTheorem`, `MarksTheorem`, `HeldTheorem` | `TypeOK`, `OneLiveRound`, `MarksByPanel`, `HeldWhilePending` |
| | `RejectedTheorem` | the action property `RejectedStands` |
| | `JobsTheorem` | `JobsSettle`, of `Sourcing` |
| | `InvitationsTheorem` | `InvitationsFollow`, of `Sessions` |
| | `DeskTheorem` | `DeskServes`, of `OnboardingDesk` |
| `OnboardingProofs` | `TypeTheorem`, `SignedOffTheorem` | `TypeOK`, `NothingUnsigned` |
| | `LinkTheorem`, `EndTheorem` | `LiveLink`, `EndMeetsRequest` |
| | `AddressTheorem` | the action property `HandAddressStays` |
| | `PapersTheorem`, `JoiningTypeTheorem` | `PapersInOrder`, `JoiningTypeOK`, of `Joining` |
| | `FacilityTheorem` | `FacilityArranged`: `Joining` implements `Arrangement` |
| | `ItLetterTheorem` | `ItLetterStands`, of `ItLetter` |
| | `ArchiveTheorem` | `ArchiveWhole`, of `Archive` |
| `AccountProofs` | `AccountTypeTheorem`, `SignInTheorem` | `TypeOK`, `SignInHolds` |
| | `AccountTheorem` | `AccountStands`: `SignInHolds`, and the action property `OwnerOrTime` |
| | `AccessTheorem` | `AccessStands`, of `Access` |
| `IntakeProofs` | `IntakeTypeTheorem`, `IntakeTheorem` | the invariant; `IntakeStands`: `OneCandidateEach`, and the action property `GivenStands` |
| | `PublicationTheorem` | `PublicationStands`, of `Publication` |
| | `CodesTheorem` | `CodesHold`, of `EmailCode` |
| | `LettersTheorem` | `LettersWhole`, of `Referrals` |
| `StewardsProofs` | `StewardsTypeTheorem`, `CoverTheorem`, `SeenTheorem` | `TypeOK`, `CoverStandsIn`, `SeenAsItStands` |
| | `DossierTheorem` | `DossierInOrder`, of `Dossier` |

But for a few (`RejectedTheorem`, `ListMatchesDoor` of `SeenTheorem`, and `StandsTheorem`
given the types), none of these is inductive as it stands, because each is about rows and the
danger is in what requests in flight are about to do.  The strengthening is always the same
idea: *what can a request in flight still count on?*  Every strengthening was checked as an
invariant by TLC before it was proved.

* **Structure** (`RequisitionChainProofs`, `ApprovalSheetsProofs`) holds whatever lands out
  of turn.  In the chain (`Position`), a request that appends remembers how long the chain
  was; the unique index on `(requisitionId, orderIndex)` refuses it if the chain has grown
  since, so the position it writes to determines the role.  In the sheets (`Linked`),
  answers are never taken back, so what a request knew to be signed when it claimed its
  answer is still signed when it writes the sheet.
* **Truth** adds, under `inTurn`, that status, steps and rows agree, together with what a
  request that is still on time can rely on: that its step, unless somebody claimed it, is
  the first pending one; that the rows it is to place are still waiting.
* **Sound** (`SalaryFixationProofs`) says that the row is within its totals, and that
  whatever a request is about to write is consistent on its own (`Counted`).  Its point:
  *whoever validates a mark writes its total too*.  The marks form and HR's form write the
  pair they checked; a result writes the pair of its own attempt, whose score was accepted
  only up to its maximum; the others touch neither.  So the row may change arbitrarily
  between check and write and the database still accepts the save.
* **Sound** and **RoundsTidy** (`CandidatePipelineProofs`).  `Sound` says that a request
  holds a verdict, a delegate and a round there is.  `LinksFollowPanel` is strengthened
  person by person (`LinksExplained`): whoever holds a link is on the panel, or *some
  request in flight is about to delete that very link*.  Writing a panel turns the first
  into the second, deleting links discharges it, and a second request that is deleting
  other people's links does not disturb it.  `RejectedTheorem` needs no invariant: every
  handler that writes a stage looks for another one than `rejected`.
* **Sound**, **Verified**, **Signed** and **Noted** (`OnboardingProofs`).  `Sound` says that
  the live link is one that was made, and that a request holds a finding and a link there
  are.  `Verified` adds who is about to end the onboarding or to ask IT: each was let
  through by the final verification, *a stamp that is never taken back*.  `Signed` adds that
  what the Central Medical Officer has in front of them was not recorded by hand, so a
  decision in turn never adds a second name.  `Noted` adds that whoever read HR's address
  read an onboarding that had ended, which is why that answer leaves the address alone.
* **Owned**, **Chain** and **Ended** (`OnboardingProofs`).  `Owned` holds whatever lands out
  of turn: a link that was not mailed belongs to one request in flight.  `Chain` holds while
  writes land in turn, and orders the requests whose mail is still out by the links they
  made: each read the row *as the one before it saved it, or as it stood once that one was
  put back or mailed*, so whoever undoes puts back a row whose link somebody stands for
  (`Backed`), with its answer untouched.  `Ended` then relates the row to the onboarding:
  whoever is about to end it has closed the request, whoever is about to record IT's answer
  has marked it answered, and an undo never opens what it did not find open.

* **`ForwardTheorem`** (`RequisitionChainProofs`) needs `Truth` too: the status a decision
  writes depends on the step it decides, so one must know that a decision in turn finds the
  requisition still at that step.  Approval, escalation, the board and resubmission then each
  take the status to one of its `Successors`.
* **Kept** (`SalaryFixationProofs`), for `HonoursTheorem` and `TestsTheorem`, holds while
  writes land in turn.  It says of each request that it is still *fresh* only if what it read
  is as it stands: the figure finalizing will propose (`FigureRead`), the marks a delegate
  found empty (`HandRead`), that no test is out when a link is about to be sent
  (`Assigning`), and that the result about to be recorded is that of the latest test handed
  in (`HandedIn`).  A write to the row makes every other reader stale, which is why a request
  that goes on all the same clears `inTurn`.
* **AccountInv** (`AccountProofs`): a request remembers a row of some version not later than
  now, and what it is about to write agrees with what it checked (`Fits`, which holds in any
  case); while `inOrder`, a session rests on the password in force (`SessionsKept`), and a
  mailed code is in force, or has become exactly one token, or that token's password is no
  longer the newest (`CodesKept`).  Raising the version with every password is what makes
  old tokens die.  Of the authenticator it keeps that the secret in force is the one its
  owner gave a code of (`Answerable`), which only a setup begun anew, and unfinished,
  suspends.
* **IntakeInv** (`IntakeProofs`): what a request remembers fits the rows and files
  (`RowFits`, `ReqFits`) in any case; in turn, two scans do not overlap (`ScansApart`), a mail
  stands behind one candidate or one request about to make it (`MailedOwn`, `OneMailed`), a
  CV behind one row (`FilesApart`), and whoever creates a row has looked in the registry
  (`FlagKnown`).  The proof did not go through at `AfterUpload`, which was a `CASE` whose
  branches overlapped: TLC took the first, the prover may take neither.  It is an `IF` now.
* **PublicationInv** and **EmailCodeInv** (`IntakeProofs`).  Whoever is about to write
  "posted" has an answer that says there is a listing, and whoever is about to write
  settings keeps a token that was there and has understood what it tested (`PostingFits`).
  For codes, what a request is about to do rests on a mail that left (`PageFits`), two sends
  under way have different codes, and while `calm` the mails of a window are no more than
  the row counts and a window that is over takes no more of them (`SentIn`, `WindowOver`).
* **StewardsInv** (`StewardsProofs`): a stand-in names a leave that exists (`Covers`), a
  request past the creation of a leave names that leave and its owner (`Bearers`), and, while
  in turn and with no leave half recorded, what is remembered, or about to be, has everybody
  who is away (`LooksKnow`).
* **DossierInv** (`StewardsProofs`): what a request is about to write names no level twice
  and grants nothing that does not count as asked for (`LevelsFit`, `GrantsFit`); uploads
  under way are announced and have different names (`Announced`, `NamedApart`); and while
  `tidy` the folder a request knows is the row's (`Homed`), what it has uploaded lies there
  (`LiesOn`), is not listed yet (`NotYetListed`) and has an id of its own (`Apart`).

* **DirectoryInv** (`RequisitionChainProofs`).  Every run has one row of its own marked
  "running", until it settles it; what is processed is the sum of the boxes the counts are kept
  in, plus the employee in hand, and with those still to do makes everybody the directory sent.
  A run that is alone knows every account and one unit per key, so what it writes does not fail.
* **AccessInv** (`AccountProofs`).  A load of permissions that was not overtaken holds no more
  than what is held or is being taken away (`LoadsHold`); the places of the levels are
  1..n with the gap of one request that closes it (`PlacesCount`, `GapsClosed`); whoever takes a
  role away has dropped, or is about to drop, the paths it was in (`PathsDropped`); and a path
  that is on has the raiser's role or somebody who grants it (`RaiserGranted`).
* **PapersInv** (`OnboardingProofs`).  One letter is under way at a time and the row is the one
  it read (`LettersHold`, `OneLetter`); the number and the id a request is about to give are the
  next ones, of one request at most (`OneNumber`, `OneId`, `MaxNumber`); a form about to be
  handed in is the one that was asked for (`FormHolds`, `OneForm`); a reference check that is
  about to be recorded was sent, and comes from whom it was sent to (`ChecksHold`).
  `FacilityTheorem` adds that whoever is about to answer was asked (`Awaited`); then every step of
  `Joining` is a step of `Arrangement`, or leaves its variables alone.
* **ItLetterInv** (`OnboardingProofs`).  The row is as the last mail told, unless one send is
  under way, which holds the row as it was; no send is under way beside an answer; only a hand
  moves the address meanwhile.
* **ArchiveInv** (`OnboardingProofs`).  One archiving runs at a time, and says so in the row:
  whatever it has filed is kept or about to be, in one joining folder; and the forms its plan
  lists are about to be filed as they were read, or still are as they were.
* **JobsInv** (`CandidatePipelineProofs`).  The bar turns only while somebody is screened, and
  whoever was matched has been announced or is about to be.
* **SessionsInv** (`CandidatePipelineProofs`).  A request that is alone with its round has read
  it as it is; once all are done nobody is about to call Google; an event given up was called off
  first, or its call strayed; and while links are `renewed` those of guests not yet marked do not
  end before the round.
* **DeskInv** (`CandidatePipelineProofs`).  The request a letter reached somebody for has been
  heard, a batch proposes only those its finding let through, and findings are numbered upward.
* **LettersInv** (`IntakeProofs`).  Only the letter at the head of the queue is claimed and
  unsent.  A sender that joins a referral has somebody in it who is younger than the window
  plus one tick, and one that made its referral has it to itself; so a referral that is claimed
  has gone quiet, unless it was hurried.

Each proof has `Init => Inv` and one lemma per action for `Inv /\ [Next]_vars => Inv'`; the
theorems are then one temporal step.  Helpers on sequences and records are lemmas of their
own at the head of each module; a *bystander* lemma says once that what holds of a request is
not disturbed while another moves.

**Checked by TLC only.**

* `NothingLost` is liveness: it needs fairness and `ENABLED`, which the prover does not handle.
* `AnswersFit`, `CareerAsTold` (of `ReadAsTold`), `ShownAsTheyAre`: what is kept of *every*
  list, or printed of it in order, is induction over sequences, which the installed provers
  cannot apply.  They are evaluated on all inputs within bounds.
* `DeskStands`, `InterviewStands` and the rest of `ReadAsTold` (`FacilitiesShared`,
  `SettingsHold`): within reach, and left (section 7).

## 5. Findings

Three runs end in a counterexample, each to something the repository says of itself.

| Run | Property | What happens |
|---|---|---|
| `sheets_rejection` | `RejectionStopsSheet` | an approval given after another member's rejection sets the sheet and its candidates to approved; `board/board.service.ts:1652` says "A rejection stops the sheet" |
| `referrals_late` | `LettersWait` | a batch takes its referral before its first CV goes to Drive, and the sweep can claim the letters while the others are still being added; `candidates/referral-window.ts:16-17` says "the letter can never go out while a candidate is being added to it" |
| `sourcing_joined` | `JoinedIsNotOffered` | somebody hired through the copy of their Talent Bank row is still offered, as the onboarding hangs on the copy; `candidates/candidates.service.ts:2862-2863` says such a row "can never surface" |

Smaller disagreements met on the way, which no run is spent on.  All were read in the code
while modelling it; where a model shows one, its history variable excludes it.

*Requisition*

* `act` never reads the status, so a step is signed while the job analysis is still being
  written (`requisition/requisition.service.ts:941`, comment at `:279`).
* A board link mailed before a resubmission decides the resubmitted requisition
  (`requisition-board.service.ts:251`; `requisition.service.ts:669`).
* Telephone numbers are to be matched by their last ten digits
  (`candidates/apply-identity.ts:10-11`), but the `\D` in `sameApplicantPool`'s tagged template
  (`candidates/candidates.service.ts:1584-1604`) reaches the database as "D", so that numbers
  stored with blanks or dashes are not found and the list counts one more than the history shows.
* No order of the list breaks ties, so equal rows may stand on two pages or on none;
  removals while somebody pages hide others, and the figures above come from queries of their own.
* `timeline`: the phase is to keep "offer accepted" below "offer sent", but both are of one
  phase and the order they are read in does; an early evaluation stands above its interview;
  a rejection on the day of its evaluation is printed above it.
* `removeAttachment` writes back a list read before a call to Drive (`:2061-2074`, comment at `:1935`);
  an upload begun before submission lands after the chain has started; concurrent
  `ensureWorkspace` of two processes makes two trees (`single-flight.ts:7-9` keeps to one).
* `requisitionVisibility` "Mirrors visibilityClause" (`:2093`), but differs on the date of a
  cover and on legacy steps routed by role.  A stand-in's own leave does not hand over what
  they cover; a refused cover leaves the leave standing; the highest requisition code is given
  again after a hard delete.
* Each change of a facility's notes is logged twice; `update` re-checks nothing after approval.

*Sheets*

* An old link on a candidate's own row never checks the row's status, nor that the row is on
  a sheet by now; `sendSheet` accepts a row whose own chain is at the CHRO or the board; a
  claimed answer whose next stage cannot be opened leaves the chain without a live link; a
  re-request committed after the row was put on a sheet takes it off a pending one.
* A fresh request deletes the votes on a row and resets the row in two writes
  (`board/board.service.ts:278`, `:281`).  Between them, and for good if the request dies there,
  the row is rejected without the vote that rejected it, or waits past the Head with no link
  and on nobody's desk, until it is asked for again.
* Cells are read live at each mail and page (comment at `board/board.service.ts:1090-1093`), and
  corrections survive a re-request; recipients without an address are skipped silently.

*Tests and salary*

* `presetJobGrade` writes the grade of any record, also of one that is fixed, and over a
  grade HR entered since the form was opened; `salary-fixation.service.ts:60` says the
  default "never overwrites a grade HR already set".
* A fixed record stays fixed when marks that fail a test are entered afterwards, as only the
  form reopens it, and can then be finalized again: `buildView` never shows a fixed record as
  failed (`salary-fixation.service.ts:518-523`), though its comment has finalizing "blocked
  separately below and in finalize() itself" for a failed candidate (`:501-504`).
* If questions are re-marked while a candidate sits the test, the score may exceed the
  attempt's maximum and the submission is refused by the database (`CommitSubmit`).
* The testing brief can lower a total below a mark, which the database refuses; the
  comment at the head of `screening-marks.ts` describes this very failure of another form.
* Saving the form reopens a fixed salary and leaves `offeredAt` set; the comment on
  `markOffered` calls the mark reversible by saving the form.
* A mark exactly on the pass mark can be "fail" on the salary screen and the interviewer's
  board and "pass" on the scorecard: one rounds to a tenth of a percent first and the other
  does not, and 57/100*100 falls short of 57 in doubles (29 and 58 too);
  `assessment/assessment.service.ts:190-197` says "the two surfaces cannot tell the reader
  different things about the same mark".  Averages differ as well for uneven panels: one is
  over all marks (`:112-115`), the other over sessions (`salary-fixation.service.ts:393`).
* A scorecard counts the AI test even when it is switched off; a review marks again with
  today's bank and may disagree with the score; sending the same total again counts as a
  change (`screening-lock.ts:50`).
* Two starts of a test at once restart its clock, the time limit is not enforced by the
  server, and two hand-ins are both accepted.  Departures are a JSON column written back
  whole, so that overlapping ones lose one and alert HR twice; a crash before the notice
  loses the alert.
* Two saves of the form of what a candidate earns that cross overwrite each other unseen,
  contrary to `facilities.ts:7-13`; a link opened while its marks are handed in goes back from
  "submitted" to "opened" (`interview.service.ts:1119-1125`).

*Interviews*

* A hand-off that was completed and is sent again stays completed (`delegate` does not clear
  `completedAt`), so that its finalist becomes final without the Factory HR Head.
* HR moving or rejecting a candidate whom the Head is deciding on leaves the approval
  pending: it can no longer be decided, and the hand-off can no longer be taken back
  ("Wait for their decision", `assessment/interview.service.ts:2263`).
* `update` checks for a second live round when a round is revived, not when its kind is
  edited.
* The delegate of a completed hand-off can decide again once the candidate is back at the
  interview: access never looks at `completedAt` (`permissions.service.ts:646`,
  `interview.service.ts:1917`; `src/prisma/schema.prisma:1073`).  Such a hand-off also counts
  as waiting again.
* A stage moved by hand keeps `rejectedAt`, and `regretSentAt` then blocks the letter after a
  second rejection; a candidate whom HR rejects while pending stays in the Head's queue for
  good; two Heads who decide at once both tell the recruiters; an old e-mailed link decides a
  resubmission; a batch cut off before its mails leaves the Heads without any; booking a
  second round does not move a finalist back (`interview.service.ts:2704-2706` says it does).
* `update` with a panel and a time keeps the old expiry of links that stay (comment at
  `interview.service.ts:755`); clearing the time leaves the event at its old slot;
  `addPanelists` never brings the calendar up to date, and notifies nobody though its comment says `update`
  does; a failed cancellation is swallowed while the event's id is cleared; a slow insert
  overlapped by an edit makes two events; `src/prisma/schema.prisma:1171` has links last 48
  hours where the code has 7 days.

*Candidates*

* The `running` flag of the mailbox scan is never used, so scans overlap, and the map of
  processed mails is written back whole.  Imports by mail, by Bdjobs and by copy never look
  into the red-flag registry; a careers-page application is not checked for duplicates;
  uploading a CV leaves the old one in the folder, where the sync finds it again.
* A form edited after posting never reaches BDJobs; a duplicate answer stores no job number,
  so the next save sends again; a late answer may overwrite another's "posted" with "failed";
  a save while posting is off leaves "failed" with the error cleared; a blank company is
  stored blank while the test used the saved one; a set copies the server's credentials into
  the row, so that later changes of the environment have no effect; a closing date of today
  counts as closed; two overlapping saves of the settings lose one.
* Two sends of a code at once leave only the later in force; the failed mail of one cancels the other's;
  concurrent guesses exceed five, and two concurrent right ones prove twice; a sliding hour
  may see twice the limit of mails.

*Onboarding*

* `markOfferAcceptedManually` looks only at whether the offer was accepted, so that it
  accepts a declined one; `src/prisma/schema.prisma:1269` says "a row can never read as
  both".  Accepting and declining at the same moment does it too.
* `decideOne` does not compare the Central Medical Officer with the examining officer;
  `onboarding/medical-approval.ts:5` asks for "someone other than the examining officer".
* A central decision that lands on a result recorded by hand meanwhile leaves a row that is
  by hand and centrally signed; `onboarding/onboarding.service.ts:1968` says "the two are
  always distinguishable".
* IT's answer, read before HR ends the onboarding by hand, overwrites HR's address, which
  "stays as recorded" (`onboarding/it-account-request.service.ts:445`).
* A document uploaded after its verification was waived makes the medical due, and
  `publicUpload` is the one handler that alerts nobody (`onboarding.service.ts:3041`; `:3863`).
* The letter to both may reach the candidate alone (`:2245-2246`).  The Code of Conduct and the
  medical report are never extracted, so the automatic check does not run again (`:3717`); its
  verdict overwrites HR's.  "HR can re-file the form" (`:3437`, `:3513`): no handler does.  The
  number of the medical exam is not unique, and it and the letter's are two series.
* The chase list "cannot disagree with what the gate is refusing on" (`:1453-1457`), but ignores
  `docsSkippedAt` and lists as sent back a row whose new copy was uploaded.  A rejected row
  once replaced keeps the medical from being due until HR marks it again; a paper uploaded while
  the medical is pending takes the hire off the officers' queue; the archive does not look at
  the medical, so that an archived hire's finding is on no list.
* A notice that cannot be written ends `decideMedicalMany`'s batch, which says one must not
  fail the rest; a re-request between a batch's read and its write is lost; a re-send that
  reaches nobody still moves the appointment; `sendMedicalRequests` checks neither pending nor cleared.
* Two first uploads at once make two folders of one name, and only one is archived; archiving
  that dies between the move and the row leaves the address of a later folder, or none;
  "the record stops being editable" (`:1605-1608`), but reference checks and documents may
  still be added; a repeated attempt files the forms twice.
* The letter to IT finds earlier deletions by code *or name*, so that a namesake comes ticked;
  an old page can answer a newer request, the claim being by row; a failing undo only logs.

*People and rights*

* A permission set loaded before a role change can be cached after the invalidation
  (`rbac/permissions.service.ts:60` says "invalidated immediately").
* The second factor clears a lock in force (`auth/auth.service.ts:386`; comments at `:155-156` and
  `:264`).  `setupTotp` makes a secret "(not yet enabled)" (`:414`), but overwrites the one in
  use: begun anew and abandoned, it leaves the account asking for a secret nobody holds until a
  super user resets it; one between `enableTotp`'s check and its write does so too.  A
  challenge is not bound to a token version.
* Somebody named on an approval path may hold no role (`rbac/rbac.service.ts:292`).
* A second start of the directory's copy within the first's insert runs beside it
  (`zinghr.service.ts:78-91` returns the current one), and the first to end clears `running`.
  The copy writes addresses without the check that edits make (`:327`), and overwrites HR's
  corrections nightly; renaming a unit makes the next copy create the old one; create and
  rename compare exact names, though `normalize-unit.ts` has every comparison go through it;
  a department's total hides a vacancy behind an overfilled seat.

*Language model*

* An answer of `null` fails the request; one null entry discards a whole list, except in CV
  rows, which are filtered; "Anything that still has no match is dropped and called out in
  notes", but sections and sub-sections go silently; an unreadable screening answer is stored
  as a score of 0 and as screened; weights neither add up to 100 nor count; a bank's answer is
  trimmed and its options are not.
* A request in flight asks the second provider with the key of the moment; two overlapping saves
  of the settings lose one; a boot with a row it cannot read runs on the environment.
* A profile's total service is frozen at import while a company's grows with the day it is
  read, so that a company may show more than the total; names wholly in Bangla share one empty
  key and are taken for one company; a missing end date counts up to today while "?" is
  printed.

## 6. What is not modelled

* *Requisition:* edits of the text, who may edit each field, the numbering of codes; head
  office roles, and what raisers and approvers see of their own.  The register's search,
  columns and workbook.
* *Sheets:* board groups, links past their 60 days, resends within the desk's story; the
  check that the salary is fixed (it can be reopened at once).
* *Salary and tests:* attached exam sheets, pay tables and the scoring of criteria.  Three
  columns for the written, computer and AI tests are two here; the attempt takes all questions
  of the bank, and which of them is data.  The values and the exclusive benefits of what a
  candidate earns; screens too old to send a stamp.  A scorecard's queries are one read.
* *Pipeline:* criteria and scores of an evaluation, the committee list, the notes; the
  finalized salary and the tests that selecting a candidate asks for, and the offer that
  refuses a rejection.  In `Sessions` the candidate's own place on the invitation, the
  switches for e-mail; in `HeadDesk` Heads of several units.
* *Candidates:* matching by telephone on the way in, photographs, the order of the reading
  queue, relevance and ranking, e-mail switches, forced copies; the two-day give-up of a
  letter of thanks; the fields copied into a posting and its signature.
* *Onboarding:* offers signed on paper, dates and venues, who holds the medical roles, what a
  reference check says, links' thirty days, changes of HR's decision on a facility, the
  development server's dry runs, the wording and the pages of forms.
* *People:* the Factory HR branch with its layers, custom and global roles, copying a path;
  tokens from before sessions had ids, secrets in plain text, unique addresses; seats and the
  organogram, renaming departments, names, telephones and dates.
* *Language model:* prompts, free wording, contact details, texts of profiles and analyses,
  names of models and the connection test, the rounding of labels, ages.
* *Everywhere:* texts, e-mail layout, PDF, logs, notifications and views; several server
  processes, which the deployment does not start.  Two hazards are known and have no property:
  a crash of the board's page between its votes and its decision
  (`requisition-board.service.ts:149`, `:247`), and accepting and declining an offer at the same
  moment (`onboarding.service.ts:3185`).
* Whole components: those marked `not_modelled` in `PROJECT.json`, with the reason.

## 7. The plan

Every component with state the others read is modelled, and every safety invariant and action
property of the runs but those of section 4's last list is stated by a theorem.  What is left:

1. `DeskStands`, on top of `ApprovalSheetsProofs`' `Structure` and `Truth`: a request of the
   desk that is alone with a sheet sees the chain of links as it is.
2. `DeskInOrder` (`HeadDesk`), `FacilitiesShared` and `SettingsHold`, which `InterviewStands` and
   `ReadAsTold` put together with the properties of other modules.
3. An abstract sign-off - *a version is put up, each signer signs or refuses it once, in order,
   and it is decided* - as a specification of its own, and `RequisitionChain` shown to implement
   it while `inTurn`.
4. `CandidatePipeline` and `SalaryFixation` composed where they share state: selecting a
   candidate needs a finalized salary, and an evaluation feeds it.
