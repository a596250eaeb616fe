-------------------------- MODULE ApprovalSheets --------------------------
(***************************************************************************)
(* The hiring approval of selected candidates (board.service.ts): a        *)
(* recruiter asks for it, Head of Talent Acquisition puts the candidates   *)
(* waiting onto a sheet, the CHRO and then the board answer the sheet      *)
(* through emailed links, and their answer is written to the sheet and to  *)
(* every candidate on it.  HR may approve a candidate on the board's       *)
(* behalf at any time.                                                     *)
(*                                                                         *)
(* No handler here uses a transaction: each of its writes commits alone,   *)
(* other handlers run between any two of them, and the process may die     *)
(* there.  So every write is an action, and `req` holds what the handler   *)
(* that will make it remembers from what it has read.                      *)
(*                                                                         *)
(* Links carried by one candidate's row (submitVote, openStage) are in     *)
(* SheetDesk: nothing issues the first of them any more.  The salary that  *)
(* must be fixed when a candidate is asked for and put on a sheet is left  *)
(* out: it may be fixed and reopened at any time (SalaryFixation), so a    *)
(* candidate who would be refused may as well be asked for a little        *)
(* earlier or later.                                                       *)
(***************************************************************************)
EXTENDS Naturals, Sequences, FiniteSets

CONSTANTS
  Requests,    \* requests the API process can serve at the same time
  Candidates,
  Members,     \* users a sheet can name as its board
  Chro,        \* the user a sheet names as its CHRO
  MaxSheets,   \* bound: sheets ever created
  MaxResends,  \* bound: resends ever started
  MayDie       \* the writes before which a request may die

ASSUME BoundsAssumption == MaxSheets \in Nat /\ MaxResends \in Nat
ASSUME MayDieAssumption == MayDie \subseteq STRING \ {"none"}

VARIABLES
  rows,     \* BoardApproval rows, in createdAt order
  sheets,   \* BoardApprovalBatch rows
  votes,    \* BoardApprovalVote rows, the deleted ones kept as "deleted"
  req,      \* what each request in flight remembers
  resends,  \* history: resends started so far
  inTurn    \* history: every write so far landed on what its handler had read

vars == <<rows, sheets, votes, req, resends, inTurn>>

-----------------------------------------------------------------------------
(* Values *)

Users == Members \cup {Chro}
Stages == {"chro", "board"}
Decisions == {"approved", "rejected"}
Outcomes == {"pending"} \cup Decisions

(* `sheet` is 0 off any sheet.  `by` is history: who decided the row last. *)
Row == [cand : Candidates, status : Outcomes, sheet : Nat, by : {"none", "hr", "link", "sheet"}]
Sheet == [status : Outcomes, stage : Stages, board : SUBSET Members]
Vote == [sheet : Nat, user : Users, stage : Stages, status : Outcomes \cup {"deleted"}]

(* The write a request in flight is about to make. *)
Writes == {"none", "request", "override", "create", "place", "open", "clear",
           "issue", "claim", "decide", "spread"}

Request == [write : Writes,
            cands : SUBSET Candidates,  \* the candidate asked for
            rows : SUBSET Nat,          \* the rows it read
            sheet : Nat,
            stage : Stages,
            to : SUBSET Users,          \* the board chosen, or who is still to be mailed
            vote : Nat,                 \* the link being answered
            decision : Decisions]

Idle == [write |-> "none", cands |-> {}, rows |-> {}, sheet |-> 0, stage |-> "chro",
         to |-> {}, vote |-> 0, decision |-> "approved"]

TypeOK ==
  /\ rows \in Seq(Row)
  /\ sheets \in Seq(Sheet)
  /\ votes \in Seq(Vote)
  /\ req \in [Requests -> Request]
  /\ resends \in Nat
  /\ inTurn \in BOOLEAN

-----------------------------------------------------------------------------
(* Reading *)

At(r, write) == req[r].write = write

Begin(r, request) ==
  /\ At(r, "none")
  /\ req' = [req EXCEPT ![r] = request]

GoTo(r, write) == req' = [req EXCEPT ![r].write = write]
End(r) == req' = [req EXCEPT ![r] = Idle]

(***************************************************************************)
(* `inTurn` becomes FALSE, for good, when                                  *)
(*   - a sheet takes a row decided, or taken by another sheet, since the   *)
(*     read, or takes its rows after it was itself decided;                *)
(*   - an answer lands on a sheet already decided;                         *)
(*   - a request dies after deciding the sheet and before its candidates.  *)
(***************************************************************************)
Stays(condition) == inTurn' = (inTurn /\ condition)

(* The last row of a candidate, if there is one. *)
LatestRow(c) == {i \in DOMAIN rows : /\ rows[i].cand = c
                                     /\ \A j \in (i + 1)..Len(rows) : rows[j].cand # c}

OnSheet(s) == {i \in DOMAIN rows : rows[i].sheet = s}

Requestable(i) == /\ rows[i].status # "approved"
                  /\ ~(rows[i].status = "pending" /\ rows[i].sheet # 0)

(* Waiting on Head of Talent Acquisition's desk. *)
Waiting(i) == rows[i].status = "pending" /\ rows[i].sheet = 0

Recipients(s, stage) == IF stage = "board" THEN sheets[s].board ELSE {Chro}

Settled(s, stage) == {votes[v].user : v \in {w \in DOMAIN votes :
                        /\ votes[w].sheet = s
                        /\ votes[w].stage = stage
                        /\ votes[w].status \in Decisions}}

Signed(s, stage, decision) ==
  \E v \in DOMAIN votes : /\ votes[v].sheet = s
                          /\ votes[v].stage = stage
                          /\ votes[v].status = decision

Init ==
  /\ rows = << >>
  /\ sheets = << >>
  /\ votes = << >>
  /\ req = [r \in Requests |-> Idle]
  /\ resends = 0
  /\ inTurn = TRUE

-----------------------------------------------------------------------------
(* One candidate's row *)

SendForApproval(r) ==
  /\ \E c \in Candidates :
       /\ \A i \in LatestRow(c) : Requestable(i)
       /\ Begin(r, [Idle EXCEPT !.write = "request", !.cands = {c}, !.rows = LatestRow(c)])
  /\ UNCHANGED <<rows, sheets, votes, resends, inTurn>>

FreshRow(c) == [cand |-> c, status |-> "pending", sheet |-> 0, by |-> "none"]

(* Variant: a second request forgets to take the row off its old sheet. *)
RequestKeepsSheet(r) ==
  /\ At(r, "request")
  /\ \E c \in req[r].cands :
       rows' = IF req[r].rows = {}
                 THEN Append(rows, FreshRow(c))
                 ELSE [i \in DOMAIN rows |->
                         IF i \in req[r].rows
                           THEN [FreshRow(c) EXCEPT !.sheet = rows[i].sheet]
                           ELSE rows[i]]
  /\ End(r)
  /\ UNCHANGED <<sheets, votes, resends, inTurn>>

(* Updates the row it read, whatever became of it since, or creates one. *)
CommitRequest(r) ==
  /\ At(r, "request")
  /\ \E c \in req[r].cands :
       rows' = IF req[r].rows = {}
                 THEN Append(rows, FreshRow(c))
                 ELSE [i \in DOMAIN rows |-> IF i \in req[r].rows THEN FreshRow(c) ELSE rows[i]]
  /\ End(r)
  /\ UNCHANGED <<sheets, votes, resends, inTurn>>

(* `findFirst` without an order: any row of the candidate will do. *)
HrApprove(r) ==
  /\ \E c \in Candidates :
       LET mine == {i \in DOMAIN rows : rows[i].cand = c} IN
       \E read \in IF mine = {} THEN {{}} ELSE {{i} : i \in mine} :
         Begin(r, [Idle EXCEPT !.write = "override", !.cands = {c}, !.rows = read])
  /\ UNCHANGED <<rows, sheets, votes, resends, inTurn>>

Override(row) == [row EXCEPT !.status = "approved", !.by = "hr"]

CommitOverride(r) ==
  /\ At(r, "override")
  /\ \E c \in req[r].cands :
       rows' = IF req[r].rows = {}
                 THEN Append(rows, Override(FreshRow(c)))
                 ELSE [i \in DOMAIN rows |->
                         IF i \in req[r].rows THEN Override(rows[i]) ELSE rows[i]]
  /\ End(r)
  /\ UNCHANGED <<sheets, votes, resends, inTurn>>

-----------------------------------------------------------------------------
(* The sheet *)

SheetsBegun == Len(sheets) + Cardinality({r \in Requests : At(r, "create")})

SendSheet(r) ==
  /\ SheetsBegun < MaxSheets
  /\ \E picked \in SUBSET DOMAIN rows \ {{}}, board \in SUBSET Members \ {{}} :
       /\ \A i \in picked : Waiting(i)
       /\ Begin(r, [Idle EXCEPT !.write = "create", !.rows = picked, !.to = board])
  /\ UNCHANGED <<rows, sheets, votes, resends, inTurn>>

(* The reference is the last one plus 1 and unique: of two requests that read
   the same last reference one is refused, which is `Fail`. *)
CreateSheet(r) ==
  /\ At(r, "create")
  /\ sheets' = Append(sheets, [status |-> "pending", stage |-> "chro", board |-> req[r].to])
  /\ req' = [req EXCEPT ![r].write = "place", ![r].sheet = Len(sheets) + 1]
  /\ UNCHANGED <<rows, votes, resends, inTurn>>

(* The rows are named by id alone: not "if still waiting". *)
PlaceRows(r) ==
  /\ At(r, "place")
  /\ rows' = [i \in DOMAIN rows |->
                IF i \in req[r].rows THEN [rows[i] EXCEPT !.sheet = req[r].sheet] ELSE rows[i]]
  /\ Stays(sheets[req[r].sheet].status = "pending" /\ \A i \in req[r].rows : Waiting(i))
  /\ req' = [req EXCEPT ![r].write = "open", ![r].rows = {}, ![r].to = {}]
  /\ UNCHANGED <<sheets, votes, resends>>

(* Variant: the stage is moved and nobody is mailed. *)
OpenStageUnmailed(r) ==
  /\ At(r, "open")
  /\ sheets' = [sheets EXCEPT ![req[r].sheet].stage = req[r].stage]
  /\ End(r)
  /\ UNCHANGED <<rows, votes, resends, inTurn>>

(* openSheetStage: the stage first, then the stale links, then a link each. *)
OpenStage(r) ==
  /\ At(r, "open")
  /\ LET s == req[r].sheet
         stage == req[r].stage
     IN /\ sheets' = [sheets EXCEPT ![s].stage = stage]
        /\ req' = [req EXCEPT ![r].write = "clear", ![r].to = Recipients(s, stage)]
  /\ UNCHANGED <<rows, votes, resends, inTurn>>

ClearPending(r) ==
  /\ At(r, "clear")
  /\ votes' = [v \in DOMAIN votes |->
                 IF /\ votes[v].sheet = req[r].sheet
                    /\ votes[v].stage = req[r].stage
                    /\ votes[v].status = "pending"
                   THEN [votes[v] EXCEPT !.status = "deleted"]
                   ELSE votes[v]]
  /\ GoTo(r, "issue")
  /\ UNCHANGED <<rows, sheets, resends, inTurn>>

(* One pass of the loop: a vote row, then its email. *)
IssueLink(r) ==
  /\ At(r, "issue")
  /\ IF req[r].to = {}
       THEN End(r) /\ UNCHANGED votes
       ELSE \E u \in req[r].to :
              /\ votes' = Append(votes, [sheet |-> req[r].sheet, user |-> u,
                                         stage |-> req[r].stage, status |-> "pending"])
              /\ req' = [req EXCEPT ![r].to = @ \ {u}]
  /\ UNCHANGED <<rows, sheets, resends, inTurn>>

(* To those of the current stage who have not answered yet. *)
ResendSheet(r) ==
  /\ resends < MaxResends
  /\ \E s \in DOMAIN sheets :
       LET stage == sheets[s].stage
           targets == Recipients(s, stage) \ Settled(s, stage)
       IN /\ sheets[s].status = "pending"
          /\ targets # {}
          /\ Begin(r, [Idle EXCEPT !.write = "clear", !.sheet = s, !.stage = stage, !.to = targets])
  /\ resends' = resends + 1
  /\ UNCHANGED <<rows, sheets, votes, inTurn>>

-----------------------------------------------------------------------------
(* Answers *)

(* The link is looked up and found pending.  A link past its 60 days answers
   nothing, as one never opened; the sheet's own status is not looked at. *)
SubmitSheetVote(r) ==
  /\ \E v \in DOMAIN votes, d \in Decisions :
       /\ votes[v].status = "pending"
       /\ Begin(r, [Idle EXCEPT !.write = "claim", !.vote = v, !.decision = d,
                                !.sheet = votes[v].sheet, !.stage = votes[v].stage])
  /\ UNCHANGED <<rows, sheets, votes, resends, inTurn>>

(* Variant: the claim forgets `status: 'pending'`. *)
ClaimAny(v) == TRUE

(* The conditional update that lets one answer per link through. *)
Claimable(v) == votes[v].status = "pending"

(* Variant: any answer of the CHRO goes on to the board. *)
HandsOnRejected(r) == req[r].stage = "chro"

(* The CHRO's approval goes on to the board; any other answer decides. *)
HandsOn(r) == req[r].stage = "chro" /\ req[r].decision = "approved"

ClaimVote(r) ==
  /\ At(r, "claim")
  /\ IF Claimable(req[r].vote)
       THEN /\ votes' = [votes EXCEPT ![req[r].vote].status = req[r].decision]
            /\ req' = IF HandsOn(r)
                        THEN [req EXCEPT ![r].write = "open", ![r].stage = "board", ![r].vote = 0]
                        ELSE [req EXCEPT ![r].write = "decide", ![r].vote = 0]
       ELSE UNCHANGED votes /\ End(r)
  /\ UNCHANGED <<rows, sheets, resends, inTurn>>

(* The sheet's own status, decided before or not. *)
DecideSheet(r) ==
  /\ At(r, "decide")
  /\ sheets' = [sheets EXCEPT ![req[r].sheet].status = req[r].decision]
  /\ Stays(sheets[req[r].sheet].status = "pending")
  /\ GoTo(r, "spread")
  /\ UNCHANGED <<rows, votes, resends>>

(* Then every candidate on it by now. *)
SpreadDecision(r) ==
  /\ At(r, "spread")
  /\ rows' = [i \in DOMAIN rows |->
                IF i \in OnSheet(req[r].sheet)
                  THEN [rows[i] EXCEPT !.status = req[r].decision, !.by = "sheet"]
                  ELSE rows[i]]
  /\ End(r)
  /\ UNCHANGED <<sheets, votes, resends, inTurn>>

(* A request dies between two writes: a database error, a refused reference, a
   restart of the process (which is this action for every request). *)
Fail(r) ==
  /\ req[r].write \in MayDie
  /\ Stays(~At(r, "spread"))
  /\ End(r)
  /\ UNCHANGED <<rows, sheets, votes, resends>>

-----------------------------------------------------------------------------
(* What somebody asks for, and what a request then goes on to do. *)
Ask(r) ==
  \/ SendForApproval(r) \/ HrApprove(r) \/ SendSheet(r)
  \/ ResendSheet(r) \/ SubmitSheetVote(r)

Proceed(r) ==
  \/ CommitRequest(r) \/ CommitOverride(r)
  \/ CreateSheet(r) \/ PlaceRows(r)
  \/ OpenStage(r) \/ ClearPending(r) \/ IssueLink(r)
  \/ ClaimVote(r) \/ DecideSheet(r) \/ SpreadDecision(r)

Next == \E r \in Requests : Ask(r) \/ Proceed(r) \/ Fail(r)

Spec == Init /\ [][Next]_vars

(* An awaited query settles, and the handler that awaits it then goes on. *)
Fairness == \A r \in Requests : WF_vars(Proceed(r))

FairSpec == Spec /\ Fairness
-----------------------------------------------------------------------------
(* Properties *)

(* The board is never asked before the CHRO has approved: whatever resends,
   repeated answers and dying requests come between, a board link exists only
   on a sheet whose CHRO signed it. *)
BoardAfterChro ==
  \A v \in DOMAIN votes : votes[v].stage = "board" => Signed(votes[v].sheet, "chro", "approved")

(* A sheet is never approved or rejected on nobody's word: an approved sheet
   has the CHRO's and a board member's approval, a rejected one a rejection. *)
DecidedOnAnswers ==
  \A s \in DOMAIN sheets :
    /\ sheets[s].status = "approved" =>
         Signed(s, "chro", "approved") /\ Signed(s, "board", "approved")
    /\ sheets[s].status = "rejected" => \E stage \in Stages : Signed(s, stage, "rejected")

(* Nobody is asked, and nothing decided, ahead of the answers it takes. *)
SignaturesFirst == BoardAfterChro /\ DecidedOnAnswers

(* An answer given is final: a link that was opened twice, resent while it is
   being answered, or cleared with the pending ones never changes or loses it. *)
AnswerStands ==
  [][\A v \in DOMAIN votes :
       votes[v].status \in Decisions => v \in DOMAIN votes' /\ votes'[v] = votes[v]]_vars

(* A candidate is cleared for appointment only on signatures: HR's on the
   board's behalf, or the CHRO's and the board's on the sheet the candidate is
   on, not on one the candidate has left. *)
ApprovalIsSigned ==
  inTurn =>
    \A i \in DOMAIN rows :
      rows[i].status = "approved" /\ rows[i].by \notin {"hr", "link"} =>
        /\ rows[i].sheet \in DOMAIN sheets
        /\ Signed(rows[i].sheet, "chro", "approved")
        /\ Signed(rows[i].sheet, "board", "approved")

(* A sheet is decided as a whole: each candidate on it carries the sheet's own
   decision, except while the request that decided it has yet to write it to
   the candidates, and except the candidates HR, or links of their own, decided. *)
SheetDecidesAsAWhole ==
  inTurn =>
    \A s \in DOMAIN sheets : \A i \in OnSheet(s) :
      rows[i].by \in {"hr", "link"} \/ rows[i].status = sheets[s].status
        \/ \E r \in Requests : At(r, "spread") /\ req[r].sheet = s

(* The candidates and the sheet they are on, decided by different writes, agree. *)
RowsFollowSheet == ApprovalIsSigned /\ SheetDecidesAsAWhole

SheetDecided(s) == s \in DOMAIN sheets /\ sheets[s].status # "pending"
BoardAsked(s) == \E v \in DOMAIN votes : votes[v].sheet = s /\ votes[v].stage = "board"

(* With no request dying once its answer is recorded no answer is lost: the CHRO's approval is followed by a link
   for the board, and every other answer by a decision on the sheet. *)
AnswerCarried ==
  \A s \in 1..MaxSheets :
    /\ Signed(s, "chro", "approved") ~> BoardAsked(s)
    /\ (Signed(s, "chro", "rejected") \/ \E d \in Decisions : Signed(s, "board", d))
         ~> SheetDecided(s)

(* With no request dying once its answer is recorded, and as long as every write lands
   in turn, the sheet's decision reaches its candidates: none stays pending on a
   decided sheet. *)
DecisionReachesRows ==
  \A s \in 1..MaxSheets :
    SheetDecided(s) ~> (~inTurn \/ \A i \in OnSheet(s) : rows[i].status # "pending")

(* A request that dies with its answer recorded loses it.  Unless one does, whatever
   dies before, every answer ends where it was meant to: with the board, on the sheet,
   and on the sheet's candidates. *)
NothingLost == AnswerCarried /\ DecisionReachesRows

(* board.service.ts:1652 says: "A rejection stops the sheet - and every
   candidate on it".  A board member who answers later overturns it. *)
RejectionStopsSheet ==
  [][\A s \in DOMAIN sheets : sheets[s].status = "rejected" => sheets'[s].status = "rejected"]_vars
=============================================================================
