----------------------------- MODULE Scorecard -----------------------------
(***************************************************************************)
(* The AI proficiency test as it is sat, and the marks as they are shown   *)
(* (ai-proficiency.service, assessment.service, the read side of           *)
(* salary-fixation.service and of the interviewer's board).                *)
(*                                                                         *)
(* While the candidate sits the test the browser starts the clock, tells   *)
(* each time the candidate leaves and hands the answers in, each with a    *)
(* request of its own, and HR may change the questions under it.  `call`   *)
(* holds what a request has read.  Retakes, and what the result does to    *)
(* the salary record, are in SalaryFixation.                               *)
(*                                                                         *)
(* What a screen says of a test or of a panel's marks is worked out from   *)
(* one `card`, read at once.  A percentage is counted in tenths.           *)
(*                                                                         *)
(* What the candidate earns and wants is one record, which every           *)
(* interviewer from HR may fill, from a page or from a marking link        *)
(* (interview.service).                                                    *)
(***************************************************************************)
EXTENDS Integers, Sequences, FiniteSets, FiniteSetsExt

CONSTANTS
  Browsers,   \* requests of the candidate's browser that can be under way at the same time
  Questions,  \* the questions the attempt was given, frozen
  MaxVisits,  \* bound: requests the browser makes
  MaxChanges, \* bound: changes HR makes to the bank
  Papers,     \* bound: the tests whose marks are looked at
  Panels,     \* bound: the panels whose marks are looked at
  Screens,    \* forms that can be open at the same time
  Interviewers, \* those of HR on the panel
  MaxSaves,   \* bound: forms that are saved
  MaxOpens    \* bound: forms that are opened

ASSUME VisitsAssumption ==
  MaxVisits \in Nat /\ MaxChanges \in Nat /\ MaxSaves \in Nat /\ MaxOpens \in Nat

VARIABLES
  bank,      \* AiProficiencyQuestion, of the questions given
  sitting,   \* the AiProficiencyAttempt
  call,      \* what each request in flight remembers
  hist,      \* history: what has come to pass
  card,      \* what is looked at, if anything is
  package,   \* Candidate: the salary, the benefits, and who saved them when
  screen,    \* what each open form shows and each request of it remembers
  link,      \* the marking link of each interviewer
  kept       \* history: what has come to pass with these

bvars == <<bank, sitting, call, hist, card>>
gvars == <<package, screen, link, kept>>
cvars == <<bvars, gvars>>

-----------------------------------------------------------------------------
(* Values *)

Keys == {"a", "b"}
Unanswered == "none"
AnswerSheets == [Questions -> Keys \cup {Unanswered}]

Bank == [Questions -> [here : BOOLEAN, key : Keys, marks : 1..2]]

Sitting == [status : {"pending", "submitted"}, started : Nat, left : SUBSET (1..MaxVisits),
            answers : AnswerSheets, score : Nat]

Call == [at : {"none", "start", "left", "alert", "submit"}, left : SUBSET (1..MaxVisits),
         departure : 0..MaxVisits, answers : AnswerSheets, score : Nat, bank : Bank]

History == [graded : Bank,                 \* the bank the recorded score was worked out from
            noted : SUBSET (1..MaxVisits), \* departures the server has recorded
            stamps : Nat,                  \* how often the clock was started
            alerts : Nat,                  \* how often HR was told
            visits : Nat,                  \* requests made
            changes : Nat,                 \* changes of the bank
            alone : BOOLEAN,    \* every write landed on the attempt as it had been read
            unheard : BOOLEAN]  \* a request died before it told HR

Nought == [q \in Questions |-> Unanswered]
Fresh == [status |-> "pending", started |-> 0, left |-> {}, answers |-> Nought, score |-> 0]
FullMarks == [q \in Questions |-> [here |-> TRUE, key |-> "a", marks |-> 1]]
Resting == [at |-> "none", left |-> {}, departure |-> 0, answers |-> Nought, score |-> 0,
            bank |-> FullMarks]
Unread == [kind |-> "unread"]

(* `at` counts the saves, and stands for the time; a box has the number of the save its
   figure is from. *)
Maybe(S) == {{}} \cup {{x} : x \in S}
Boxes == {"salary", "benefits"}
Package == [box : [Boxes -> Nat], at : Nat, by : Maybe(Interviewers)]
NoPackage == [box |-> [b \in Boxes |-> 0], at |-> 0, by |-> {}]

(* `base` is the stamp the form was opened at; `touched` are the boxes it sends. *)
Shut == [at |-> "shut", who |-> {}, byLink |-> FALSE, base |-> 0, checked |-> 0, touched |-> {}]
Screen == [at : {"shut", "opening", "open", "saving"}, who : Maybe(Interviewers),
           byLink : BOOLEAN, base : Nat, checked : Nat, touched : SUBSET Boxes]

LinkStatus == {"sent", "opened", "submitted"}

ScorecardInit ==
  /\ bank = FullMarks
  /\ sitting = Fresh
  /\ call = [b \in Browsers |-> Resting]
  /\ hist = [graded |-> FullMarks, noted |-> {}, stamps |-> 0, alerts |-> 0, visits |-> 0,
             changes |-> 0, alone |-> TRUE, unheard |-> FALSE]
  /\ card = Unread
  /\ package = NoPackage
  /\ screen = [s \in Screens |-> Shut]
  /\ link = [i \in Interviewers |-> "sent"]
  /\ kept = [shown |-> [i \in Interviewers |-> {0}], handed |-> {}, opens |-> 0, saves |-> 0,
             late |-> FALSE, unseen |-> FALSE, crossed |-> FALSE, reopened |-> FALSE]

-----------------------------------------------------------------------------
(* Sitting the test *)

Doing(b, at) == call[b].at = at
Rests(b) == call' = [call EXCEPT ![b] = Resting]

(* The link is looked up and the test found open. *)
Visit(b, next) ==
  /\ card = Unread
  /\ hist.visits < MaxVisits /\ hist' = [hist EXCEPT !.visits = @ + 1]
  /\ Doing(b, "none") /\ sitting.status = "pending"
  /\ call' = [call EXCEPT ![b] = next]
  /\ UNCHANGED <<bank, sitting, card>>

(* A clock that runs is left to run. *)
StartAttempt(b) ==
  /\ sitting.started = 0
  /\ Visit(b, [Resting EXCEPT !.at = "start"])

(* Every write names the attempt by id alone: not "if still as it was read". *)
StampStart(b) ==
  /\ Doing(b, "start")
  /\ sitting' = [sitting EXCEPT !.started = hist.stamps + 1]
  /\ hist' = [hist EXCEPT !.stamps = @ + 1, !.alone = @ /\ sitting.started = 0]
  /\ Rests(b)
  /\ UNCHANGED <<bank, card>>

LeaveTest(b) ==
  Visit(b, [Resting EXCEPT !.at = "left", !.left = sitting.left, !.departure = hist.visits + 1])

(* The whole log is written back with the departure at its end. *)
RecordViolation(b) ==
  /\ Doing(b, "left")
  /\ sitting' = [sitting EXCEPT !.left = call[b].left \cup {call[b].departure}]
  /\ hist' = [hist EXCEPT !.noted = @ \cup {call[b].departure},
                          !.alone = @ /\ sitting.left = call[b].left]
  /\ IF call[b].left = {} THEN call' = [call EXCEPT ![b].at = "alert"] ELSE Rests(b)
  /\ UNCHANGED <<bank, card>>

AlertHr(b) ==
  /\ Doing(b, "alert")
  /\ hist' = [hist EXCEPT !.alerts = @ + 1]
  /\ Rests(b)
  /\ UNCHANGED <<bank, sitting, card>>

(* A question deleted since earns nothing, one re-marked what it is worth now. *)
ScoreOf(questions, answers) ==
  MapThenSumSet(LAMBDA q : questions[q].marks,
                {q \in Questions : questions[q].here /\ answers[q] = questions[q].key})

SubmitByToken(b) ==
  \E answers \in AnswerSheets :
    Visit(b, [Resting EXCEPT !.at = "submit", !.answers = answers,
                             !.score = ScoreOf(bank, answers), !.bank = bank])

HandIn(b) ==
  /\ Doing(b, "submit")
  /\ sitting' = [sitting EXCEPT !.status = "submitted", !.answers = call[b].answers,
                                !.score = call[b].score]
  /\ hist' = [hist EXCEPT !.graded = call[b].bank, !.alone = @ /\ sitting.status = "pending"]
  /\ Rests(b)
  /\ UNCHANGED <<bank, card>>

DropCall(b) ==
  /\ ~Doing(b, "none")
  /\ Rests(b)
  /\ hist' = [hist EXCEPT !.unheard = @ \/ Doing(b, "alert")]
  /\ UNCHANGED <<bank, sitting, card>>

(* updateQuestion changes the answer or the marks, removeQuestion deletes. *)
ChangeBank ==
  /\ card = Unread
  /\ hist.changes < MaxChanges /\ hist' = [hist EXCEPT !.changes = @ + 1]
  /\ \E q \in Questions :
       /\ bank[q].here
       /\ \/ \E key \in Keys, marks \in 1..2 :
               bank' = [bank EXCEPT ![q].key = key, ![q].marks = marks]
          \/ bank' = [bank EXCEPT ![q].here = FALSE]
  /\ UNCHANGED <<sitting, call, card>>

(* HR's review marks each answer again, by the bank as it is. *)
GetReview ==
  [q \in {p \in Questions : bank[p].here} |->
     [marks |-> bank[q].marks, correct |-> sitting.answers[q] = bank[q].key]]

-----------------------------------------------------------------------------
(* Marks as they are shown *)

(* Math.round of n / d. *)
Nearest(n, d) == (2 * n + d) \div (2 * d)

The(S) == CHOOSE x \in S : TRUE

(* A hand-marked test: total and mark are sets of at most one; the pass mark is counted in
   tenths of a percent.  The database keeps the mark within the total. *)
Scored(p) == p.total # {} /\ p.mark # {} /\ p.total # {0}

(* Of these the quotient times 100 falls just short in binary: 29 / 100 * 100 < 29. *)
FallsShort == {<<29, 100>>, <<57, 100>>, <<58, 100>>}

(* (obtained / total) * 100 >= passPct *)
Reaches(p) ==
  LET m == The(p.mark)
      t == The(p.total)
  IN IF <<m, t>> \in FallsShort THEN 1000 * m > p.pass * t ELSE 1000 * m >= p.pass * t

Verdict(passed) == IF passed THEN "pass" ELSE "fail"

(* evaluateScreeningTest, for the salary screen and finalize. *)
EvaluateScreeningTest(p) ==
  IF ~p.on THEN "skipped" ELSE IF ~Scored(p) THEN "pending" ELSE Verdict(Reaches(p))

(* Rounded to a tenth of a percent before it is compared. *)
TestDetail(p) ==
  IF ~p.on THEN "skipped"
  ELSE IF ~Scored(p) THEN "pending"
  ELSE Verdict(Nearest(1000 * The(p.mark), The(p.total)) >= p.pass)

(* The interviewer's board lists the tests that are on. *)
BoardEntry(p) ==
  IF ~p.on THEN "skipped" ELSE IF Scored(p) THEN Verdict(Reaches(p)) ELSE "pending"

(* What the marks dialog tells a delegate, and what the save then refuses: a patch is what
   was typed in which boxes, and a total typed again counts (lockedMarkConflicts). *)
TestLocked(p) == p.mark # {}
LockedMarkConflicts(p, patch) ==
  /\ p.mark # {}
  /\ \/ "total" \in DOMAIN patch
     \/ "mark" \in DOMAIN patch /\ patch["mark"] # p.mark

(* The marks of a panel out of 50, session by session; one nobody marked does not count. *)
Sat(sessions) == {i \in DOMAIN sessions : sessions[i] # <<>>}
Sum(marks) == MapThenSumSet(LAMBDA i : marks[i], DOMAIN marks)
Total(sessions) == MapThenSumSet(LAMBDA i : Sum(sessions[i]), DOMAIN sessions)
Evaluations(sessions) == MapThenSumSet(LAMBDA i : Len(sessions[i]), DOMAIN sessions)

(* Each session averaged, then the sessions: n / d. *)
AverageAcrossRounds(sessions) ==
  LET lengths == FoldSet(LAMBDA i, product : product * Len(sessions[i]), 1, Sat(sessions))
      share(i) == Sum(sessions[i]) * (lengths \div Len(sessions[i]))
  IN [n |-> MapThenSumSet(share, Sat(sessions)), d |-> lengths * Cardinality(Sat(sessions))]

(* The scorecard's own average gives every mark the same say. *)
InterviewAvg(sessions) == Nearest(1000 * Total(sessions), 50 * Evaluations(sessions))

(* What there is of the CV's score, 0 being none, the AI test and the interview. *)
Components(p) ==
  (IF p.cv > 0 THEN <<10 * p.cv>> ELSE <<>>)
  \o (IF Scored(p.ai) THEN <<Nearest(1000 * The(p.ai.mark), The(p.ai.total))>> ELSE <<>>)
  \o (IF Sat(p.sessions) # {} THEN <<InterviewAvg(p.sessions)>> ELSE <<>>)

Combined(p) ==
  IF Components(p) = <<>> THEN {} ELSE {Nearest(Sum(Components(p)), Len(Components(p)))}

(* What the model is told of each session for its summary. *)
RoundLines(sessions) == [i \in Sat(sessions) |-> Nearest(Sum(sessions[i]), Len(sessions[i]))]

(* Bound: marks are looked at before the test is sat, which has nothing to do with it. *)
LookAt ==
  /\ card = Unread /\ hist.visits = 0 /\ hist.changes = 0
  /\ card' \in Papers \cup Panels
  /\ UNCHANGED <<bank, sitting, call, hist>>

-----------------------------------------------------------------------------
(* The facilities form *)

Opens(s, i, at, byLink) ==
  /\ screen[s].at = "shut"
  /\ kept.opens < MaxOpens
  /\ screen' = [screen EXCEPT ![s] = [Shut EXCEPT !.at = at, !.who = {i}, !.byLink = byLink,
                                                  !.base = package.at]]
  /\ kept' = [kept EXCEPT !.shown[i] = @ \cup {package.box[b] : b \in Boxes}, !.opens = @ + 1]

(* My Interviews, and the recruiter's own page. *)
MyInterviews(s, i) == Opens(s, i, "open", FALSE) /\ UNCHANGED <<package, link>>

(* Whoever has handed in may read on past the link's day. *)
LinkWorks(i) == kept.late => link[i] = "submitted"

GetEvalByToken(s, i) ==
  /\ LinkWorks(i)
  /\ Opens(s, i, IF link[i] = "sent" THEN "opening" ELSE "open", TRUE)
  /\ UNCHANGED <<package, link>>

(* "opened" is written whatever the link has become since it was read. *)
MarkOpened(s) ==
  /\ screen[s].at = "opening"
  /\ \E i \in screen[s].who :
       /\ link' = [link EXCEPT ![i] = "opened"]
       /\ kept' = [kept EXCEPT !.reopened = @ \/ link[i] = "submitted"]
  /\ screen' = [screen EXCEPT ![s].at = "open"]
  /\ UNCHANGED package

SubmitEvalByToken(i) ==
  /\ ~kept.late /\ i \notin kept.handed
  /\ link' = [link EXCEPT ![i] = "submitted"]
  /\ kept' = [kept EXCEPT !.handed = @ \cup {i}]
  /\ UNCHANGED <<package, screen>>

(* The links of a round are good until the same day. *)
Expire ==
  /\ ~kept.late /\ kept' = [kept EXCEPT !.late = TRUE]
  /\ UNCHANGED <<package, screen, link>>

(* A screen that sends no stamp, as older ones, would be let through; these all send it. *)
FacilitiesConflict(s) == screen[s].base # package.at /\ package.by # screen[s].who

(* hrPanelistFacilities and the checks of writeFacilities: a form that shows older figures
   than a colleague's is refused, and is opened again. *)
SaveFacilities(s) ==
  /\ screen[s].at = "open"
  /\ screen[s].byLink => \A i \in screen[s].who : LinkWorks(i)
  /\ kept.saves < MaxSaves /\ kept' = [kept EXCEPT !.saves = @ + 1]
  /\ \E touched \in SUBSET Boxes :
       screen' = [screen EXCEPT ![s] =
                    IF FacilitiesConflict(s) THEN Shut
                    ELSE [@ EXCEPT !.at = "saving", !.checked = package.at, !.touched = touched]]
  /\ UNCHANGED <<package, link>>

(* What was not touched is left alone; the stamp is written whatever was. *)
WriteFacilities(s) ==
  /\ screen[s].at = "saving"
  /\ package' = [box |-> [b \in Boxes |-> IF b \in screen[s].touched THEN package.at + 1
                                          ELSE package.box[b]],
                 at |-> package.at + 1, by |-> screen[s].who]
  /\ \E i \in screen[s].who :
       LET replaced == {package.box[b] : b \in screen[s].touched}
       IN kept' = [kept EXCEPT
                     !.shown[i] = @ \cup {package.at + 1},
                     !.crossed = @ \/ screen[s].checked # package.at,
                     !.unseen = @ \/ ~(replaced \subseteq kept.shown[i])]
  /\ screen' = [screen EXCEPT ![s] = Shut]
  /\ UNCHANGED link

DropForm(s) ==
  /\ screen[s].at \in {"opening", "saving"} /\ screen' = [screen EXCEPT ![s] = Shut]
  /\ UNCHANGED <<package, link, kept>>

FormNext ==
  \/ \E s \in Screens :
       \/ \E i \in Interviewers : MyInterviews(s, i) \/ GetEvalByToken(s, i)
       \/ MarkOpened(s) \/ SaveFacilities(s) \/ WriteFacilities(s) \/ DropForm(s)
  \/ \E i \in Interviewers : SubmitEvalByToken(i)
  \/ Expire

SittingNext ==
  \/ \E b \in Browsers :
       \/ StartAttempt(b) \/ StampStart(b) \/ LeaveTest(b) \/ RecordViolation(b) \/ AlertHr(b)
       \/ SubmitByToken(b) \/ HandIn(b) \/ DropCall(b)
  \/ ChangeBank
  \/ LookAt

ScorecardNext ==
  \/ SittingNext /\ UNCHANGED gvars
  \/ FormNext /\ UNCHANGED bvars

ScorecardSpec == ScorecardInit /\ [][ScorecardNext]_cvars

-----------------------------------------------------------------------------
(* Properties *)

SittingTypeOK ==
  /\ bank \in Bank
  /\ sitting \in Sitting
  /\ call \in [Browsers -> Call]
  /\ hist \in History
  /\ package \in Package
  /\ screen \in [Screens -> Screen]
  /\ link \in [Interviewers -> LinkStatus]

(* No departure is made up, and as long as every write landed on what had been read none
   is lost (recordViolation writes the whole log back). *)
DeparturesKept ==
  /\ sitting.left \subseteq hist.noted
  /\ hist.alone => sitting.left = hist.noted

(* HR hears of a candidate who left, unless the request died first, and of the first time
   only: "HR is notified once per attempt". *)
HeardOnce ==
  LET heard == hist.alerts + Cardinality({b \in Browsers : Doing(b, "alert")})
  IN ~hist.unheard =>
       /\ hist.noted # {} => heard > 0
       /\ hist.alone => heard = (IF hist.noted = {} THEN 0 ELSE 1)

(* The clock is started once: "a page refresh mid-test calls this again but the stamp only
   happens once". *)
StartedOnce == (sitting.started > 0 <=> hist.stamps > 0) /\ (hist.alone => hist.stamps < 2)

(* The score on record is what its answers earned by the bank they were marked with, and
   HR's review adds up to it as long as the bank has not been changed. *)
ReviewAddsUp ==
  sitting.status = "submitted" =>
    /\ sitting.score = ScoreOf(hist.graded, sitting.answers)
    /\ bank = hist.graded =>
         LET review == GetReview
         IN sitting.score = MapThenSumSet(LAMBDA q : review[q].marks,
                                          {q \in DOMAIN review : review[q].correct})

(* However the browser's requests and HR's changes interleave, the attempt tells how the
   test was sat (ai-proficiency.service). *)
SittingTold == DeparturesKept /\ HeardOnce /\ StartedOnce /\ ReviewAddsUp

(* The salary screen and the interviewer's board say the same of a test, and the scorecard
   with them unless the mark is within a twentieth of a percent of the pass mark. *)
VerdictsAgree ==
  card.kind = "test" =>
    /\ BoardEntry(card) = EvaluateScreeningTest(card)
    /\ \/ TestDetail(card) = EvaluateScreeningTest(card)
       \/ /\ TestDetail(card) = "pass" /\ EvaluateScreeningTest(card) = "fail"
          /\ 2 * (card.pass * The(card.total) - 1000 * The(card.mark)) <= The(card.total)

(* A delegate who is told a mark is open is not refused, and one who is told it is locked
   changes nothing of it. *)
Patches(p) ==
  UNION {[boxes -> {{}, {0}, {1}, p.mark, p.total}] : boxes \in SUBSET {"mark", "total"}}

LockAsTold ==
  card.kind = "test" =>
    \A patch \in Patches(card) :
      IF TestLocked(card)
        THEN ~LockedMarkConflicts(card, patch) =>
               /\ "mark" \in DOMAIN patch => patch["mark"] = card.mark
               /\ "total" \notin DOMAIN patch
        ELSE ~LockedMarkConflicts(card, patch)

(* To the committee's average a session is one voice however many sat on it, so that
   having its marks twice over changes nothing (averageAcrossRounds), nor what is told of it
   (generateEvaluationSummary); and the average lies between the sessions' own. *)
SessionsWeighAlike ==
  card.kind = "panel" /\ Sat(card.sessions) # {} =>
    LET average == AverageAcrossRounds(card.sessions)
        own(i) == [n |-> Sum(card.sessions[i]), d |-> Len(card.sessions[i])]
        AtMost(x, y) == x.n * y.d <= y.n * x.d
    IN /\ \A i \in Sat(card.sessions) :
            LET twice == [card.sessions EXCEPT ![i] = @ \o @]
                again == AverageAcrossRounds(twice)
            IN /\ AtMost(average, again) /\ AtMost(again, average)
               /\ RoundLines(twice) = RoundLines(card.sessions)
       /\ \E i \in Sat(card.sessions) : AtMost(own(i), average)
       /\ \E i \in Sat(card.sessions) : AtMost(average, own(i))

(* Whatever is missing counts for nothing: the combined score lies between the components
   there are (getScorecard). *)
CombinedBetween ==
  card.kind = "panel" =>
    LET parts == Components(card)
    IN /\ Combined(card) = {} <=> parts = <<>>
       /\ \A c \in Combined(card) :
            (\E i \in DOMAIN parts : parts[i] <= c) /\ (\E i \in DOMAIN parts : parts[i] >= c)

(* The screens that show one candidate's marks do not contradict each other. *)
CardsAgree == VerdictsAgree /\ LockAsTold /\ SessionsWeighAlike /\ CombinedBetween

(* No interviewer's figures are replaced by one who never saw them, as long as no two saves
   cross: "a save made from a form that was showing older values than a colleague has since
   saved is refused"; and who has handed in may come back after the link's day, as long as
   no opening of the link crosses the handing in (interview.service). *)
FacilitiesShared ==
  /\ ~kept.crossed => ~kept.unseen
  /\ ~kept.reopened => \A i \in kept.handed : LinkWorks(i)
=============================================================================
