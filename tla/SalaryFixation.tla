--------------------------- MODULE SalaryFixation ---------------------------
(***************************************************************************)
(* The screening tests and the salary of one candidate                     *)
(* (salary-fixation.service.ts, ai-proficiency.service.ts, and the testing *)
(* brief of interview.service.ts).  HR fills in the salary record and      *)
(* finalizes it, a delegated interviewer enters the marks of the tests     *)
(* held by hand, and the candidate sits the AI test through a link.        *)
(*                                                                         *)
(* They all save into one row.  A handler that reads the row, merges what  *)
(* was typed and writes the result back is two actions, and `req` holds    *)
(* what the first worked out; a handler that only writes is one.           *)
(*                                                                         *)
(* The Written and the Computer Literacy test are treated alike: `hand`    *)
(* stands for either.  A manual band and a manual figure are both a manual *)
(* figure.  The attempt takes every question the bank has for the grade.   *)
(* An optional value is a set of at most one element.                      *)
(***************************************************************************)
EXTENDS Naturals, Sequences, FiniteSets

CONSTANTS
  Requests,       \* requests the API process can serve at the same time
  Grades,         \* job grades
  Top,            \* bound: the highest total of a test
  Scale,          \* bound: the marks people type and candidates score
  MaxAttempts,    \* AI tests a candidate may be given
  MaxScores,      \* bound: evaluations the committee submits
  MaxEdits,       \* bound: edits people make
  Worths,         \* bound: what the questions of the bank may come to be worth
  Crashes         \* whether a request may die between two writes

ASSUME BoundsAssumption ==
  Top \in Nat /\ MaxAttempts \in Nat /\ MaxScores \in Nat /\ MaxEdits \in Nat
ASSUME ScaleAssumption == Scale \subseteq 0..Top /\ Worths \subseteq 0..Top
ASSUME CrashesAssumption == Crashes \in BOOLEAN

VARIABLES
  record,    \* the SalaryFixation row
  attempts,  \* AiProficiencyAttempt rows, oldest first
  worth,     \* what the question bank's questions for the grade are worth, 0 if none
  scores,    \* evaluations the committee has submitted
  req,       \* what each request in flight remembers
  refused,   \* history: checked saves the database has refused
  typed,     \* history: HR typed the AI mark since the candidate's own result
  edits,     \* history: edits people have made
  inTurn     \* history: every write so far landed on what its handler had read

vars == <<record, attempts, worth, scores, req, refused, typed, edits, inTurn>>

-----------------------------------------------------------------------------
(* Values *)

Optional(S) == {{}} \cup {{x} : x \in S}

Test == [on : BOOLEAN, total : Optional(1..Top), mark : Optional(0..Top)]

(* HR's own figure, or what a grade comes to with so many evaluations in. *)
Figure == [from : Grades \cup {"hr"}, scores : 0..MaxScores]
HrFigure == [from |-> "hr", scores |-> 0]

(* Before there is a row, it reads as its columns' defaults. *)
Record == [hand : Test, ai : Test, grade : Optional(Grades),
           override : Optional({HrFigure}), proposed : Optional(Figure),
           status : {"draft", "fixed"}, offered : BOOLEAN]

Attempt == [status : {"pending", "submitted"}, max : 1..Top, score : 0..Top]

Writes == {"none", "upsert", "finalize", "offer", "marks", "attempt", "preset", "submit", "result"}

Request == [write : Writes,
            merged : Record,     \* what is to be written of the row
            fresh : BOOLEAN,     \* history: nobody has written the row since it was read for writing back
            delegate : BOOLEAN,
            attempt : Nat,       \* how many attempts there are, or the one being sat
            score : 0..Top]

Blank == [hand |-> [on |-> FALSE, total |-> {}, mark |-> {}],
          ai |-> [on |-> TRUE, total |-> {}, mark |-> {}],
          grade |-> {}, override |-> {}, proposed |-> {}, status |-> "draft", offered |-> FALSE]

Idle == [write |-> "none", merged |-> Blank, fresh |-> TRUE, delegate |-> FALSE,
         attempt |-> 0, score |-> 0]

TypeOK ==
  /\ record \in Record
  /\ attempts \in Seq(Attempt)
  /\ worth \in 0..Top
  /\ scores \in 0..MaxScores
  /\ req \in [Requests -> Request]
  /\ refused \in SUBSET Writes
  /\ typed \in BOOLEAN
  /\ edits \in Nat
  /\ inTurn \in BOOLEAN

-----------------------------------------------------------------------------
(* Reading *)

At(r, write) == req[r].write = write

(* screeningMarkProblem on one test. *)
Sensible(test) == \A m \in test.mark, t \in test.total : m <= t

(* The database's own check, salary_fixations_marks_within_totals. *)
Within(rec) == \A test \in {rec.hand, rec.ai} : \A m \in test.mark, t \in test.total : m <= t

(* evaluateScreeningTest at the default pass mark of half the total. *)
Fails(test) ==
  test.on /\ \E m \in test.mark, t \in test.total : m <= t /\ 2 * m < t

(* The status buildView works out: a record that is fixed never reads as failed,
   whatever its marks by now. *)
ScreeningFailed(rec) == rec.status # "fixed" /\ (Fails(rec.hand) \/ Fails(rec.ai))

(* Variant: the committee's figure wins over HR's. *)
ProposalOfCommittee(rec) ==
  IF scores = 0 \/ rec.grade = {} THEN rec.override
  ELSE {[from |-> g, scores |-> scores] : g \in rec.grade}

(* The figure buildView proposes.  There is none before there is a row. *)
Proposal(rec) ==
  IF rec.override # {} THEN rec.override
  ELSE IF scores = 0 THEN {} ELSE {[from |-> g, scores |-> scores] : g \in rec.grade}

(* A delegate may not touch a test once it has a mark (lockedMarkConflicts). *)
Locked(old, new) == old.mark # {} /\ (new.mark # old.mark \/ new.total # old.total)

(* One box of the form: each is saved as it is left. *)
Switchings(test) == {[test EXCEPT !.on = b] : b \in BOOLEAN}
Totals(test) == {[test EXCEPT !.total = t] : t \in Optional(1..Top) \ {test.total}}
Marks(test) == {[test EXCEPT !.mark = m] : m \in Optional(Scale)}
Typings(test) == Switchings(test) \cup Totals(test) \cup Marks(test)

-----------------------------------------------------------------------------
(* Asking and writing *)

Edit == edits < MaxEdits /\ edits' = edits + 1

Ask(r, request) ==
  /\ At(r, "none")
  /\ req' = [req EXCEPT ![r] = request]
  /\ UNCHANGED <<record, attempts, worth, scores, refused, typed, inTurn>>

(* `inTurn` becomes FALSE, for good, when a request writes back what it read of
   a row that has changed since, submits an attempt that is no longer pending,
   or dies between the attempt and the record it belongs in. *)
Stays(condition) == inTurn' = (inTurn /\ condition)

WritesBack == {"upsert", "finalize", "marks"}

Stale(others) ==
  [q \in Requests |-> IF q \in others /\ req[q].write \in WritesBack
                        THEN [req[q] EXCEPT !.fresh = FALSE] ELSE req[q]]

(* The row is written, or the database refuses it whole; the request is over. *)
Save(r, rec) ==
  IF Within(rec)
    THEN /\ record' = rec
         /\ req' = [Stale(Requests \ {r}) EXCEPT ![r] = Idle]
         /\ UNCHANGED refused
    ELSE /\ refused' = refused \cup {req[r].write}
         /\ req' = [req EXCEPT ![r] = Idle]
         /\ UNCHANGED record

Init ==
  /\ record = Blank
  /\ attempts = << >>
  /\ worth = Top
  /\ scores = 0
  /\ req = [r \in Requests |-> Idle]
  /\ refused = {}
  /\ typed = FALSE
  /\ edits = 0
  /\ inTurn = TRUE

-----------------------------------------------------------------------------
(* HR's form *)

(* What one save of the form may turn the record into. *)
Edits(rec) ==
  {[rec EXCEPT !.hand = test] : test \in Typings(rec.hand)}
    \cup {[rec EXCEPT !.ai = test] : test \in Typings(rec.ai)}
    \cup {[rec EXCEPT !.grade = g] : g \in Optional(Grades)}
    \cup {[rec EXCEPT !.override = f] : f \in Optional({HrFigure})}

(* Every field of the form is written, the figure and the offer are not. *)
Form(rec, form) == [rec EXCEPT !.hand = form.hand, !.ai = form.ai,
                               !.grade = form.grade, !.override = form.override]

Upsert(r) ==
  \E rec \in Edits(record) :
    /\ Sensible(rec.hand) /\ Sensible(rec.ai)
    /\ Ask(r, [Idle EXCEPT !.write = "upsert", !.merged = Form(Blank, rec)])
  /\ Edit

(* Saving the form reopens a finalized record. *)
Reopened(rec) == [rec EXCEPT !.status = "draft"]

CommitUpsert(r) ==
  /\ At(r, "upsert")
  /\ Save(r, Reopened(Form(record, req[r].merged)))
  /\ typed' = (typed \/ record'.ai.mark # record.ai.mark)
  /\ Stays(req[r].fresh)
  /\ UNCHANGED <<attempts, worth, scores, edits>>

(* A fixed record can be finalized again, with a mark that fails since too. *)
Finalize(r) ==
  /\ ~ScreeningFailed(record)
  /\ Proposal(record) # {}
  /\ Ask(r, [Idle EXCEPT !.write = "finalize",
                         !.merged = [Blank EXCEPT !.proposed = Proposal(record)]])
  /\ UNCHANGED edits

CommitFinalize(r) ==
  /\ At(r, "finalize")
  /\ Save(r, [record EXCEPT !.proposed = req[r].merged.proposed, !.status = "fixed"])
  /\ Stays(req[r].fresh)
  /\ UNCHANGED <<attempts, worth, scores, typed, edits>>

MarkOffered(r) ==
  /\ Proposal(record) # {}
  /\ Ask(r, [Idle EXCEPT !.write = "offer"])
  /\ UNCHANGED edits

CommitOffer(r) ==
  /\ At(r, "offer")
  /\ Save(r, [record EXCEPT !.offered = TRUE])
  /\ UNCHANGED <<attempts, worth, scores, typed, edits, inTurn>>

(* Opening a record without a grade fills in the requisition's. *)
Get(r) ==
  /\ record.grade = {}
  /\ \E g \in Grades :
       Ask(r, [Idle EXCEPT !.write = "preset", !.merged = [Blank EXCEPT !.grade = {g}]])
  /\ UNCHANGED edits

CommitPreset(r) ==
  /\ At(r, "preset")
  /\ Save(r, [record EXCEPT !.grade = req[r].merged.grade])
  /\ UNCHANGED <<attempts, worth, scores, typed, edits, inTurn>>

-----------------------------------------------------------------------------
(* The tests held by hand *)

(* Variant: the mark is written over whatever total the row has by then. *)
MarkedOnly(rec, form) == [rec EXCEPT !.hand.mark = form.hand.mark, !.ai.on = form.ai.on]

(* Everything the dialog shows is written, a test's total and mark together. *)
Marked(rec, form) == [rec EXCEPT !.hand = form.hand, !.ai.on = form.ai.on]

(* Recruitment, or a delegate, saves one box of the marks dialog. *)
MarkTests(r) ==
  \E delegate \in BOOLEAN, hand \in Typings(record.hand), ai \in Switchings(record.ai) :
    /\ hand = record.hand \/ ai = record.ai
    /\ ~(delegate /\ Locked(record.hand, hand))
    /\ Sensible(hand)
    /\ Ask(r, [Idle EXCEPT !.write = "marks", !.delegate = delegate,
                           !.merged = [Blank EXCEPT !.hand = hand, !.ai = ai]])
  /\ Edit

CommitMarks(r) ==
  /\ At(r, "marks")
  /\ Save(r, Marked(record, req[r].merged))
  /\ Stays(req[r].fresh)
  /\ UNCHANGED <<attempts, worth, scores, typed, edits>>

(* The testing brief HR sends along with a delegation: unread, unchecked. *)
Brief ==
  \E hand \in Switchings(record.hand) \cup Totals(record.hand), ai \in Switchings(record.ai) :
    /\ Edit
    /\ IF Sensible(hand)
         THEN /\ record' = [record EXCEPT !.hand = hand, !.ai = ai]
              /\ req' = Stale(Requests)
         ELSE UNCHANGED <<record, req>>
    /\ UNCHANGED <<attempts, worth, scores, refused, typed, inTurn>>

(* A panelist's evaluation: it counts towards the figure at once. *)
Evaluate ==
  /\ scores < MaxScores
  /\ scores' = scores + 1
  /\ UNCHANGED <<record, attempts, worth, req, refused, typed, edits, inTurn>>

-----------------------------------------------------------------------------
(* The AI test *)

Pending == {i \in DOMAIN attempts : attempts[i].status = "pending"}

(* No link is out and the attempts are not used up. *)
MayAssign ==
  /\ Len(attempts) < MaxAttempts
  /\ attempts # << >> => attempts[Len(attempts)].status # "pending"

AssignTest(r) ==
  /\ MayAssign
  /\ worth > 0
  /\ \E g \in Grades :
       Ask(r, [Idle EXCEPT !.write = "attempt", !.attempt = Len(attempts), !.score = worth,
                           !.merged = [Blank EXCEPT !.grade = {g}]])
  /\ UNCHANGED edits

NewAttempt(max) == [status |-> "pending", max |-> max, score |-> 0]

CommitAttempt(r) ==
  /\ At(r, "attempt")
  /\ attempts' = Append(attempts, NewAttempt(req[r].score))
  /\ req' = [req EXCEPT ![r] = [Idle EXCEPT !.write = "preset", !.merged = req[r].merged]]
  /\ Stays(Len(attempts) = req[r].attempt)
  /\ UNCHANGED <<record, worth, scores, refused, typed, edits>>

(* The answers are marked with what the questions are worth now. *)
SubmitTest(r) ==
  \E i \in Pending, score \in Scale :
    /\ score <= worth
    /\ Ask(r, [Idle EXCEPT !.write = "submit", !.attempt = i, !.score = score])
  /\ UNCHANGED edits

CommitSubmit(r) ==
  LET i == req[r].attempt IN
  /\ At(r, "submit")
  /\ IF req[r].score <= attempts[i].max
       THEN /\ attempts' = [attempts EXCEPT ![i].status = "submitted", ![i].score = req[r].score]
            /\ req' = [req EXCEPT ![r].write = "result"]
       ELSE /\ req' = [req EXCEPT ![r] = Idle]
            /\ UNCHANGED attempts
  /\ Stays(i \in Pending)
  /\ UNCHANGED <<record, worth, scores, refused, typed, edits>>

(* Variant: a mark the row already has is kept. *)
FirstResultOf(rec, max, score) ==
  IF rec.ai.mark # {} THEN rec ELSE [rec EXCEPT !.ai.total = {max}, !.ai.mark = {score}]

(* recordAiProficiencyResult: the total and the mark, whatever the row holds. *)
ResultOf(rec, max, score) == [rec EXCEPT !.ai.total = {max}, !.ai.mark = {score}]

RecordResult(r) ==
  LET i == req[r].attempt IN
  /\ At(r, "result")
  /\ Save(r, ResultOf(record, attempts[i].max, req[r].score))
  /\ typed' = FALSE
  /\ Stays(\A j \in DOMAIN attempts : j > i => j \in Pending)
  /\ UNCHANGED <<attempts, worth, scores, edits>>

(* HR adds, re-marks or removes questions of the bank. *)
EditBank ==
  /\ Edit
  /\ worth' \in Worths \ {worth}
  /\ UNCHANGED <<record, attempts, scores, req, refused, typed, inTurn>>

(* The process restarts under a request. *)
Fail(r) ==
  /\ Crashes
  /\ ~At(r, "none")
  /\ req' = [req EXCEPT ![r] = Idle]
  /\ Stays(~At(r, "result"))
  /\ UNCHANGED <<record, attempts, worth, scores, refused, typed, edits>>

Next ==
  \/ Brief
  \/ Evaluate
  \/ EditBank
  \/ \E r \in Requests :
       \/ Upsert(r)     \/ CommitUpsert(r)
       \/ Finalize(r)   \/ CommitFinalize(r)
       \/ MarkOffered(r) \/ CommitOffer(r)
       \/ Get(r)        \/ CommitPreset(r)
       \/ MarkTests(r)  \/ CommitMarks(r)
       \/ AssignTest(r) \/ CommitAttempt(r)
       \/ SubmitTest(r) \/ CommitSubmit(r)
       \/ RecordResult(r)
       \/ Fail(r)

Spec == Init /\ [][Next]_vars

-----------------------------------------------------------------------------
(* Properties *)

(* Whatever runs between a handler's read and its write, the database never
   refuses the save: only the unchecked testing brief and a submission marked
   with re-marked questions can fail that way (screeningMarkProblem on the merged
   record, recordAiProficiencyResult). *)
SaveNotRefused == refused = {}

(* As long as every write landed in turn, a finalized record proposes HR's own
   figure whenever it has one, whatever the committee's comes to, and through
   every edit, offer, test and preset made since (buildView, finalize). *)
FixedHonoursOverride ==
  inTurn /\ record.status = "fixed" /\ record.override # {} => record.proposed = record.override

Submitted == {i \in DOMAIN attempts : attempts[i].status = "submitted"}

(* As long as every write landed in turn, the record holds what the candidate
   scored in the latest test handed in, unless HR has typed over it since or the
   result is still being written (submitByToken, recordAiProficiencyResult). *)
ResultCarried ==
  inTurn /\ ~typed =>
    \A i \in Submitted :
      (\A j \in Submitted : j <= i) =>
        record.ai.mark = {attempts[i].score} \/ \E r \in Requests : At(r, "result")

(* As long as every write landed in turn, a candidate never holds two live test
   links, and is never given more tests than allowed (assignTest). *)
OneLinkOut ==
  inTurn => Pending \subseteq {Len(attempts)} /\ Len(attempts) <= MaxAttempts

(* As long as every write landed in turn, a delegate's save leaves a test that
   has a mark exactly as it was marked (lockedMarkConflicts). *)
DelegateMarksOnce ==
  [][\A r \in Requests :
       At(r, "marks") /\ req[r].delegate /\ ~At(r, "marks")' /\ inTurn' /\ record.hand.mark # {}
         => record'.hand.mark = record.hand.mark /\ record'.hand.total = record.hand.total]_vars

(* However assignments, hand-ins, delegates and HR's edits interleave, there is one test
   to take, its result is the one on record, and a mark given is not given again. *)
TestsStand == [](ResultCarried /\ OneLinkOut) /\ DelegateMarksOnce
=============================================================================
