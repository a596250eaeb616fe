------------------------- MODULE CandidatePipeline -------------------------
(***************************************************************************)
(* One candidate from application to the final stage                       *)
(* (interview.service.ts, first-interview-approval.service.ts,             *)
(* candidates.service.ts): the interview rounds with their panels, marking *)
(* links and marks, the hand-off of the first interview to Factory HR, the *)
(* approval of the Factory HR Head, the AI screening, and HR moving the    *)
(* candidate by hand.                                                      *)
(*                                                                         *)
(* A handler that reads and then writes is one action for what it reads    *)
(* and one for each write; `req` holds what it remembers in between.  A    *)
(* handler whose write does not depend on what it read is one action.  A   *)
(* link past its date is one that nobody uses.                             *)
(***************************************************************************)
EXTENDS Naturals, Sequences, FiniteSets

CONSTANTS
  Requests,    \* requests the API process can serve at the same time
  Kinds,       \* first, second or final interview
  Panelists,   \* people who can sit on a panel
  Delegates,   \* people the first interview can be handed to
  HasHead,     \* whether the unit has a Factory HR Head
  Budgets      \* bound: how many requests people make about rounds, and other ones

ASSUME HasHeadAssumption == HasHead \in BOOLEAN
ASSUME BudgetsAssumption == Budgets \subseteq [rounds : Nat, moves : Nat]

VARIABLES
  stage,      \* Candidate.stage
  rounds,     \* InterviewRound rows with their panels, links and marks, oldest first
  handoffs,   \* InterviewDelegation rows
  approval,   \* FirstInterviewApproval.status, "none" if there is no row
  req,        \* what each request in flight remembers
  left,       \* history: how many more requests people will make
  inTurn      \* history: every write so far was one that its handler's checks still allowed

vars == <<stage, rounds, handoffs, approval, req, left, inTurn>>

-----------------------------------------------------------------------------
(* Values *)

Stages == {"applied", "ai_shortlisted", "shortlisted", "interview", "final", "selected", "rejected"}
PreInterview == {"applied", "ai_shortlisted", "shortlisted"}

Statuses == {"scheduled", "completed", "cancelled", "absent"}
NotLive == {"cancelled", "absent"}

Optional(S) == {{}} \cup {{x} : x \in S}

(* `links` are the people who hold a marking link, `marks` those who have marked. *)
Round == [kind : Kinds, status : Statuses \cup {"removed"},
          panel : SUBSET Panelists, links : SUBSET Panelists, marks : SUBSET Panelists]

Handoff == [sent : BOOLEAN, revoked : BOOLEAN, completed : BOOLEAN]

(* What the session form sends: a box that is not sent is the empty set. *)
Form == [kind : Optional(Kinds), status : Optional(Statuses), panel : Optional(SUBSET Panelists)]
NoForm == [kind |-> {}, status |-> {}, panel |-> {}]

Ops == {"none", "create", "advance", "add", "edit", "unlink", "link", "mark", "markByLink",
        "revoke", "submit", "outcome", "complete", "decide", "reject", "screen"}

Request == [op : Ops,
            at : Nat,                       \* the round
            form : Form,
            early : BOOLEAN,                \* the candidate was before the interview stage
            people : SUBSET Panelists,      \* who is to be seated, linked or to mark
            was : SUBSET Panelists,         \* the panel as read
            who : Delegates \cup {"hr"},    \* who asked, or whose hand-off it is
            verdict : {"none", "final", "rejected", "returned"}]

Idle == [op |-> "none", at |-> 0, form |-> NoForm, early |-> FALSE, people |-> {}, was |-> {},
         who |-> "hr", verdict |-> "none"]

TypeOK ==
  /\ stage \in Stages
  /\ rounds \in Seq(Round)
  /\ handoffs \in [Delegates -> Handoff]
  /\ approval \in {"none", "pending", "approved", "returned", "rejected"}
  /\ req \in [Requests -> Request]
  /\ left \in [rounds : Nat, moves : Nat]
  /\ inTurn \in BOOLEAN

-----------------------------------------------------------------------------
(* Reading *)

At(r, op) == req[r].op = op

Stands(i) == i \in DOMAIN rounds /\ rounds[i].status # "removed"

Live(i) == Stands(i) /\ rounds[i].status \notin NotLive

(* Variant: a completed round no longer counts. *)
MayArrangeAgain(kind) ==
  \A i \in DOMAIN rounds : rounds[i].status = "scheduled" => rounds[i].kind # kind

(* schedule: no live round of the kind. *)
MayArrange(kind) == \A i \in DOMAIN rounds : Live(i) => rounds[i].kind # kind

OtherLive(i, kind) == \E j \in DOMAIN rounds \ {i} : Live(j) /\ rounds[j].kind = kind

(* update: not absent once there are marks, and no revival beside a replacement. *)
MayEdit(i, form) ==
  /\ form.status = {"absent"} => rounds[i].marks = {}
  /\ form.status \in {{"scheduled"}, {"completed"}} /\ ~Live(i) => ~OtherLive(i, rounds[i].kind)

(* submitEvaluation and submitEvalByToken: not absent, and once each. *)
MayMark(i, p) == rounds[i].status # "absent" /\ p \notin rounds[i].marks

Holds(d) == handoffs[d].sent /\ ~handoffs[d].revoked

Open(d) == Holds(d) /\ ~handoffs[d].completed

SomeOpen == \E d \in Delegates : Open(d)

(* requireInterviewAccess: recruitment, or whoever holds a hand-off. *)
MayAct(who) == who \in Delegates => Holds(who)

MayRecord == stage = "interview" /\ approval # "pending"

MayDecide == stage = "interview" /\ approval = "pending"

(* Variant: a hand-off can be taken back at any time. *)
MayRevokeAnytime == TRUE

MayRevoke == approval # "pending"

(* rejectBlocker.  An offer already made is one more refusal, at the final stage. *)
MayReject == stage \notin {"rejected", "selected"}

(* Variant: the stage is not looked at. *)
MovedByAnyScreening == TRUE

(* runScreen moves a candidate it read as applied. *)
MovedByScreening == stage = "applied"

-----------------------------------------------------------------------------
(* Asking and writing *)

Spend(budget) == left[budget] > 0 /\ left' = [left EXCEPT ![budget] = @ - 1]

(* What a request is about to do, or nothing: the others go on as they were. *)
Then(r, request) == req' = [req EXCEPT ![r] = request]

Ask(r, budget, request) ==
  /\ At(r, "none")
  /\ Spend(budget)
  /\ Then(r, request)
  /\ UNCHANGED <<stage, rounds, handoffs, approval, inTurn>>

(* `inTurn` becomes FALSE, for good, when a write lands although its handler's
   checks would by now refuse it, when somebody changes a round's kind to one
   that is already arranged, and when a request dies before the links of people
   taken off a panel are deleted. *)
Stays(condition) == inTurn' = (inTurn /\ condition)

Init ==
  /\ stage \in {"applied", "shortlisted"}
  /\ rounds = << >>
  /\ handoffs = [d \in Delegates |-> [sent |-> FALSE, revoked |-> FALSE, completed |-> FALSE]]
  /\ approval = "none"
  /\ req = [r \in Requests |-> Idle]
  /\ left \in Budgets
  /\ inTurn = TRUE

-----------------------------------------------------------------------------
(* Rounds, panels and links *)

(* The form sends one box at a time (bound). *)
Boxes == {[NoForm EXCEPT !.kind = {k}] : k \in Kinds}
           \cup {[NoForm EXCEPT !.status = {s}] : s \in Statuses}
           \cup {[NoForm EXCEPT !.panel = {p}] : p \in SUBSET Panelists}

NewRound(kind, panel) ==
  [kind |-> kind, status |-> "scheduled", panel |-> panel, links |-> {}, marks |-> {}]

Given(box, old) == IF box = {} THEN old ELSE CHOOSE x \in box : TRUE

Written(round, form) ==
  [round EXCEPT !.kind = Given(form.kind, @),
                !.status = Given(form.status, @),
                !.panel = Given(form.panel, @)]

(* schedule: the stage and the rounds are read ... *)
Arrange(r) ==
  \E k \in Kinds, p \in SUBSET Panelists :
    /\ MayArrange(k)
    /\ Ask(r, "rounds", [Idle EXCEPT !.op = "create", !.form = [NoForm EXCEPT !.kind = {k}],
                                     !.people = p, !.early = stage \in PreInterview])

(* ... the round is created, the stage advanced if it was read as an early one,
   and the links are made. *)
CreateRound(r) ==
  /\ At(r, "create")
  /\ \E k \in req[r].form.kind :
       /\ rounds' = Append(rounds, NewRound(k, req[r].people))
       /\ Stays(MayArrange(k))
  /\ Then(r, [Idle EXCEPT !.op = IF req[r].early THEN "advance" ELSE "link",
                          !.at = Len(rounds) + 1, !.people = req[r].people])
  /\ UNCHANGED <<stage, handoffs, approval, left>>

AdvanceStage(r) ==
  /\ At(r, "advance")
  /\ stage' = "interview"
  /\ Then(r, [req[r] EXCEPT !.op = "link"])
  /\ Stays(stage \in PreInterview)
  /\ UNCHANGED <<rounds, handoffs, approval, left>>

(* generateEvalTokens: people who have a link keep it.  A removed round takes none. *)
MakeLinks(r) ==
  LET i == req[r].at IN
  /\ At(r, "link")
  /\ Then(r, Idle)
  /\ IF Stands(i)
       THEN /\ rounds' = [rounds EXCEPT ![i].links = @ \cup req[r].people]
            /\ Stays(req[r].people \subseteq rounds[i].panel)
       ELSE UNCHANGED <<rounds, inTurn>>
  /\ UNCHANGED <<stage, handoffs, approval, left>>

(* resendEvalToken: a fresh link for one panelist. *)
ResendLink(r) ==
  \E i \in DOMAIN rounds : \E p \in rounds[i].panel :
    Stands(i) /\ Ask(r, "rounds", [Idle EXCEPT !.op = "link", !.at = i, !.people = {p}])

AddPanelists(r) ==
  \E i \in DOMAIN rounds : \E p \in SUBSET (Panelists \ rounds[i].panel) \ {{}} :
    /\ rounds[i].status = "scheduled"
    /\ Ask(r, "rounds", [Idle EXCEPT !.op = "add", !.at = i, !.people = p])

SeatPanelists(r) ==
  LET i == req[r].at IN
  /\ At(r, "add")
  /\ IF Stands(i)
       THEN /\ rounds' = [rounds EXCEPT ![i].panel = @ \cup req[r].people]
            /\ Then(r, [req[r] EXCEPT !.op = "link"])
       ELSE Then(r, Idle) /\ UNCHANGED rounds
  /\ UNCHANGED <<stage, handoffs, approval, left, inTurn>>

(* update: the round and, for a revival, its replacement are read ... *)
Edit(r) ==
  \E i \in DOMAIN rounds, f \in Boxes :
    /\ Stands(i)
    /\ MayEdit(i, f)
    /\ Ask(r, "rounds", [Idle EXCEPT !.op = "edit", !.at = i, !.form = f, !.was = rounds[i].panel])

(* ... the boxes sent are written, and a new panel replaces the old one. *)
CommitEdit(r) ==
  LET i == req[r].at
      f == req[r].form
  IN
  /\ At(r, "edit")
  /\ IF Stands(i)
       THEN /\ rounds' = [rounds EXCEPT ![i] = Written(rounds[i], f)]
            /\ Stays(/\ MayEdit(i, f)
                     /\ \A k \in f.kind : ~OtherLive(i, k)
                     /\ f.panel # {} => rounds[i].panel = req[r].was)
            /\ IF f.panel = {} THEN Then(r, Idle)
               ELSE Then(r, [Idle EXCEPT !.op = "unlink", !.at = i, !.was = req[r].was,
                                         !.people = Given(f.panel, {})])
       ELSE Then(r, Idle) /\ UNCHANGED <<rounds, inTurn>>
  /\ UNCHANGED <<stage, handoffs, approval, left>>

(* Variant: those who stay. *)
Reseated(was, people) == was \cap people

(* Who loses the link: those read on the panel who are not on the new one. *)
Unseated(was, people) == was \ people

DropLinks(r) ==
  LET i == req[r].at IN
  /\ At(r, "unlink")
  /\ rounds' = [rounds EXCEPT ![i].links = @ \ Unseated(req[r].was, req[r].people)]
  /\ Then(r, [req[r] EXCEPT !.op = "link"])
  /\ UNCHANGED <<stage, handoffs, approval, left, inTurn>>

(* remove: the round goes with its panel, links and marks. *)
Remove ==
  /\ Spend("rounds")
  /\ \E i \in DOMAIN rounds :
       /\ Stands(i)
       /\ rounds' = [rounds EXCEPT ![i] = [@ EXCEPT !.status = "removed", !.panel = {},
                                                    !.links = {}, !.marks = {}]]
  /\ UNCHANGED <<stage, handoffs, approval, req, inTurn>>

-----------------------------------------------------------------------------
(* Marks *)

(* submitEvaluation: a panelist marks, signed in. *)
SubmitEvaluation(r) ==
  \E i \in DOMAIN rounds : \E p \in rounds[i].panel :
    /\ Stands(i) /\ MayMark(i, p)
    /\ Ask(r, "rounds", [Idle EXCEPT !.op = "mark", !.at = i, !.people = {p}])

(* submitEvalByToken: whoever holds a link marks, without signing in. *)
SubmitByLink(r) ==
  \E i \in DOMAIN rounds : \E p \in rounds[i].links :
    /\ Stands(i) /\ MayMark(i, p)
    /\ Ask(r, "rounds", [Idle EXCEPT !.op = "markByLink", !.at = i, !.people = {p}])

(* The evaluation is unique for a round and a person; by link it is written in one
   transaction with the link, which must still be there. *)
CommitMark(r) ==
  LET i == req[r].at
      people == req[r].people
  IN
  /\ At(r, "mark") \/ At(r, "markByLink")
  /\ Then(r, Idle)
  /\ IF /\ Stands(i)
        /\ people \cap rounds[i].marks = {}
        /\ At(r, "markByLink") => people \subseteq rounds[i].links
       THEN /\ rounds' = [rounds EXCEPT ![i].marks = @ \cup people]
            /\ Stays(\A p \in people : MayMark(i, p))
       ELSE UNCHANGED <<rounds, inTurn>>
  /\ UNCHANGED <<stage, handoffs, approval, left>>

-----------------------------------------------------------------------------
(* Handing over the first interview *)

(* delegate: a hand-off sent again is no longer revoked; it stays completed. *)
Delegate ==
  /\ Spend("moves")
  /\ \E d \in Delegates :
       handoffs' = [handoffs EXCEPT ![d] = [@ EXCEPT !.sent = TRUE, !.revoked = FALSE]]
  /\ UNCHANGED <<stage, rounds, approval, req, inTurn>>

(* revokeDelegation: not while the Head is deciding. *)
Revoke(r) ==
  \E d \in Delegates :
    /\ MayRevoke
    /\ Ask(r, "moves", [Idle EXCEPT !.op = "revoke", !.who = d])

CommitRevoke(r) ==
  LET d == req[r].who IN
  /\ At(r, "revoke")
  /\ handoffs' = [handoffs EXCEPT ![d].revoked = @ \/ Holds(d)]
  /\ Then(r, Idle)
  /\ Stays(MayRevoke)
  /\ UNCHANGED <<stage, rounds, approval, left>>

(* recordFirstInterviewOutcome: a finalist of an open hand-off goes to the Head,
   where there is one; otherwise the verdict is final. *)
RecordOutcome(r) ==
  \E who \in Delegates \cup {"hr"}, verdict \in {"final", "rejected"} :
    /\ MayAct(who)
    /\ MayRecord
    /\ Ask(r, "moves",
           [Idle EXCEPT !.op = IF verdict = "final" /\ SomeOpen /\ HasHead
                                 THEN "submit" ELSE "outcome",
                        !.who = who, !.verdict = verdict])

SubmitToHead(r) ==
  /\ At(r, "submit")
  /\ approval' = "pending"
  /\ Then(r, Idle)
  /\ Stays(MayRecord /\ SomeOpen)
  /\ UNCHANGED <<stage, rounds, handoffs, left>>

CommitOutcome(r) ==
  /\ At(r, "outcome")
  /\ stage' = req[r].verdict
  /\ Then(r, [Idle EXCEPT !.op = "complete"])
  /\ Stays(MayRecord)
  /\ UNCHANGED <<rounds, handoffs, approval, left>>

Completed == [d \in Delegates |-> [handoffs[d] EXCEPT !.completed = @ \/ Open(d)]]

CompleteHandoffs(r) ==
  /\ At(r, "complete")
  /\ handoffs' = Completed
  /\ Then(r, Idle)
  /\ Stays(approval # "pending")
  /\ UNCHANGED <<stage, rounds, approval, left>>

(* decideOne: the Head approves, rejects or returns, in one transaction. *)
Decide(r) ==
  \E verdict \in {"final", "rejected", "returned"} :
    /\ MayDecide
    /\ Ask(r, "moves", [Idle EXCEPT !.op = "decide", !.verdict = verdict])

CommitDecision(r) ==
  LET verdict == req[r].verdict IN
  /\ At(r, "decide")
  /\ approval' = IF verdict = "final" THEN "approved" ELSE verdict
  /\ IF verdict = "returned" THEN UNCHANGED <<stage, handoffs>>
     ELSE stage' = verdict /\ handoffs' = Completed
  /\ Then(r, Idle)
  /\ Stays(MayDecide)
  /\ UNCHANGED <<rounds, left>>

-----------------------------------------------------------------------------
(* The stage *)

(* rejectAtInterview. *)
RejectAtInterview(r) ==
  /\ MayReject
  /\ Ask(r, "moves", [Idle EXCEPT !.op = "reject"])

CommitReject(r) ==
  /\ At(r, "reject")
  /\ stage' = "rejected"
  /\ Then(r, Idle)
  /\ Stays(MayReject)
  /\ UNCHANGED <<rounds, handoffs, approval, left>>

(* update of candidates.service.ts: HR puts the candidate at any stage but the
   AI's.  That selecting needs a finalized salary is not modelled here. *)
MoveStage(s) ==
  /\ Spend("moves")
  /\ stage' = s
  /\ UNCHANGED <<rounds, handoffs, approval, req, inTurn>>

(* bulkReject of the low scores, and another candidate of the requisition being
   selected or accepting: one conditional update. *)
RejectRemaining ==
  /\ Spend("moves")
  /\ stage \in {"applied", "ai_shortlisted"}
  /\ stage' = "rejected"
  /\ UNCHANGED <<rounds, handoffs, approval, req, inTurn>>

(* runScreen: the candidate is read, alone or with a batch, the AI reads the CV ... *)
Screen(r) ==
  /\ MovedByScreening
  /\ Ask(r, "moves", [Idle EXCEPT !.op = "screen"])

(* ... and the score is saved, with the stage if it is high enough. *)
CommitScreening(r) ==
  /\ At(r, "screen")
  /\ Then(r, Idle)
  /\ \/ stage' = "ai_shortlisted" /\ Stays(MovedByScreening)
     \/ UNCHANGED <<stage, inTurn>>
  /\ UNCHANGED <<rounds, handoffs, approval, left>>

(* The process restarts under a request. *)
Fail(r) ==
  /\ ~At(r, "none")
  /\ Then(r, Idle)
  /\ Stays(~At(r, "unlink"))
  /\ UNCHANGED <<stage, rounds, handoffs, approval, left>>

-----------------------------------------------------------------------------

RoundStep(r) ==
  \/ Arrange(r) \/ CreateRound(r) \/ AdvanceStage(r) \/ MakeLinks(r)
  \/ ResendLink(r)
  \/ AddPanelists(r) \/ SeatPanelists(r)
  \/ Edit(r) \/ CommitEdit(r) \/ DropLinks(r)
  \/ SubmitEvaluation(r) \/ SubmitByLink(r) \/ CommitMark(r)

MoveStep(r) ==
  \/ Revoke(r) \/ CommitRevoke(r)
  \/ RecordOutcome(r) \/ SubmitToHead(r) \/ CommitOutcome(r) \/ CompleteHandoffs(r)
  \/ Decide(r) \/ CommitDecision(r)
  \/ RejectAtInterview(r) \/ CommitReject(r)
  \/ Screen(r) \/ CommitScreening(r)

Next ==
  \/ Remove
  \/ Delegate
  \/ RejectRemaining
  \/ \E s \in Stages \ {"ai_shortlisted"} : MoveStage(s)
  \/ \E r \in Requests : RoundStep(r) \/ MoveStep(r) \/ Fail(r)

Spec == Init /\ [][Next]_vars

-----------------------------------------------------------------------------
(* Properties *)

(* As long as every write landed in turn, a candidate has at most one live round
   of each kind, through scheduling, absence, cancellation and their undoing
   (schedule, update). *)
OneLiveRound ==
  inTurn => \A i, j \in DOMAIN rounds :
              Live(i) /\ Live(j) /\ rounds[i].kind = rounds[j].kind => i = j

(* As long as every write landed in turn, nobody has marked a round the candidate
   is recorded absent from (update, submitEvaluation, submitEvalByToken). *)
AbsentUnmarked ==
  inTurn => \A i \in DOMAIN rounds : rounds[i].status = "absent" => rounds[i].marks = {}

(* As long as every write landed in turn, a marking link opens only for somebody
   on the panel, once a replaced panel's old links are deleted (update,
   addPanelists, resendEvalToken). *)
LinksFollowPanel ==
  inTurn => \A i \in DOMAIN rounds :
              \/ rounds[i].links \subseteq rounds[i].panel
              \/ \E r \in Requests : At(r, "unlink") /\ req[r].at = i

(* Marks are given by those who sat on the panel, to a candidate who came. *)
MarksByPanel == AbsentUnmarked /\ LinksFollowPanel

(* As long as every write landed in turn, whoever the Factory HR Head is deciding
   on is still held by a delegate ("nobody is holding any more", revokeDelegation). *)
HeldWhilePending == inTurn /\ approval = "pending" => SomeOpen

(* As long as every write landed in turn, a rejected candidate stays rejected until
   HR moves them: no late screening, scheduling, verdict or approval does. *)
RejectedStands ==
  [][stage = "rejected" /\ stage' # "rejected" /\ inTurn'
       => \E s \in Stages : MoveStage(s)]_vars

=============================================================================
