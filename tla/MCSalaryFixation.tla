-------------------------- MODULE MCSalaryFixation --------------------------
(***************************************************************************)
(* Two requests in flight at a time and tests of at most two marks: enough *)
(* for a total to be lowered under a mark, for a test to be failed, and    *)
(* for any two handlers to overlap.  One run tells several stories, and    *)
(* `story` says which: in "tests" the constants of the .cfg hold, so that  *)
(* up to MaxAttempts AI tests are given; in "forms" no AI test is, and HR  *)
(* and the committee may do more instead.  "desk" is the first interview   *)
(* around the tests: a batch of two candidates in the hands of two people, *)
(* who are both Head, by two or three requests.  In "marks" the AI test is *)
(* sat, and marks are looked at; in "figures" these two fill the form of   *)
(* what the candidate earns, three times in turn or across each other.     *)
(***************************************************************************)
EXTENDS SalaryFixation, HeadDesk, Scorecard, TLC

CONSTANTS r1, r2, g1, ann, ben, hr, a, b, q1, q2

TwoRequests == {r1, r2}
OneGrade == {g1}
TwoPeople == {ann, ben}
TwoApplicants == {a, b}
TwoInterviewers == {a, b}    \* any two names that are alike

(* Both at once: one of them may be passed over. *)
Both == {{a, b}}
Crew == {{ann, ben}}

SomeSittings == {{}, {"ahead", "called_off"}, {"past", "undated"}, {"marked", "past"}}

None == [k \in Acts |-> 0]

SomePlans ==
  {[None EXCEPT !["hand"] = 1, !["judge"] = 1],
   [None EXCEPT !["judge"] = 1, !["decide"] = 1],
   [None EXCEPT !["judge"] = 2],
   [None EXCEPT !["decide"] = 2],
   [None EXCEPT !["revoke"] = 1, !["restage"] = 1, !["judge"] = 1],
   [None EXCEPT !["restage"] = 1, !["letter"] = 2]}

TwoQuestions == {q1, q2}

SomePapers ==
  {p \in [kind : {"test"}, on : BOOLEAN, total : Optional({0, 3, 7, 100}),
          mark : Optional({0, 1, 2, 29, 40, 57, 58, 66, 100}), pass : {290, 333, 500, 570, 667}] :
     Sensible(p)}

Ungraded == [total |-> {}, mark |-> {}]
TwoOfThree == [total |-> {3}, mark |-> {2}]
SomeMarks == {<<>>, <<10>>, <<25>>, <<50>>, <<10, 33>>, <<45, 50>>, <<0, 0>>}

SomePanels == [kind : {"panel"}, cv : {0, 61}, ai : {Ungraded, TwoOfThree},
               sessions : UNION {[1..n -> SomeMarks] : n \in 0..3}]

VARIABLE story

Forms == INSTANCE SalaryFixation
           WITH MaxAttempts <- 0, MaxScores <- 1, MaxEdits <- 2, Worths <- {2}

StoriesInit ==
  /\ story \in {"tests", "forms", "desk", "marks", "figures"}
  /\ Init /\ ScorecardInit
  /\ DeskInit /\ (story # "desk" => plan["hand"] = 1)

StoriesNext ==
  \/ story = "tests" /\ Next /\ UNCHANGED <<dvars, cvars, story>>
  \/ story = "forms" /\ Forms!Next /\ UNCHANGED <<dvars, cvars, story>>
  \/ story = "desk" /\ DeskNext /\ UNCHANGED <<vars, cvars, story>>
  \/ story = "marks" /\ SittingNext /\ UNCHANGED <<vars, dvars, gvars, story>>
  \/ story = "figures" /\ FormNext /\ UNCHANGED <<vars, dvars, bvars, story>>

Stories == StoriesInit /\ [][StoriesNext]_<<vars, dvars, cvars, story>>

(* Around the first interview nobody is passed over or told what is not so: the batch and
   its verdicts are in order, the AI test is on record as it was sat, the screens agree on
   the marks, and what the candidate earns is not overwritten unseen (interview.service,
   ai-proficiency.service, assessment.service).  Each is asked of the story that moves what
   it is about. *)
InterviewStands ==
  /\ story = "desk" => DeskInOrder
  /\ story = "marks" => SittingTold /\ CardsAgree
  /\ story = "figures" => FacilitiesShared

Symmetric == Permutations(Requests) \cup Permutations(TwoApplicants)
=============================================================================
