------------------------- MODULE RequisitionChain -------------------------
(***************************************************************************)
(* One requisition from the moment it is raised until it is posted: the    *)
(* job analysis that precedes the sign-off chain, the chain itself, the    *)
(* CHRO and Board steps appended to it, the Board's emailed votes, and the *)
(* role profile and posting that follow approval.                          *)
(*                                                                         *)
(* Every handler of requisition.service.ts and requisition-board.service   *)
(* .ts first reads the requisition (`load`), checks what it read, and then *)
(* writes, in one transaction or in several.  Handlers of different        *)
(* requests interleave at each await, so each is split into those steps:   *)
(* an action named after the handler for the read and its checks, and one  *)
(* action per later write.  What a handler remembers between them is its   *)
(* entry in `req`.                                                         *)
(*                                                                         *)
(* Who may press a button (permissions.service.ts) is left open: super     *)
(* users pass every gate modelled here, so every request that passes the   *)
(* state checks can be made by somebody.                                   *)
(***************************************************************************)
EXTENDS Naturals, Sequences, FiniteSets

CONSTANTS
  Requests,   \* requests the API process can serve at the same time
  Members,    \* board members the CHRO can choose from
  Levels,     \* named approvers configured ahead of the Corporate HR step
  MaxRounds   \* bound: times the chain is restarted by a resubmission

ASSUME LevelsAssumption == Levels \in Nat
ASSUME MaxRoundsAssumption == MaxRounds \in Nat

VARIABLES
  status,      \* Requisition.status
  steps,       \* Requisition.approvalSteps, in orderIndex order
  returned,    \* Requisition.jobAnalysisReturnedAt is set
  vote,        \* RequisitionBoardVote.status per member, "none" if no row
  expired,     \* members whose vote token is past tokenExpiresAt
  req,         \* what each request in flight remembers
  round,       \* history: resubmissions committed so far
  boardRound,  \* history: the round in which the Board step was appended
  inTurn       \* history: every write so far landed on what its handler had read

vars == <<status, steps, returned, vote, expired, req, round, boardRound, inTurn>>
history == <<round, boardRound>>

-----------------------------------------------------------------------------
(* Values *)

Statuses == {"PENDING_JOB_ANALYSIS", "PENDING_APPROVAL", "APPROVED", "REJECTED",
             "PROFILE_GENERATED", "POSTED", "DELETED"}
StepStatuses == {"PENDING", "APPROVED", "REJECTED", "INFO_REQUESTED"}
StepRoles == {"LEVEL", "CORPORATE_HR", "CHRO", "BOARD"}
Step == [role : StepRoles, st : StepStatuses]
VoteStatuses == {"none", "pending", "approved", "rejected"}
Decisions == {"approved", "rejected", "need_more_info", "escalate"}

(* The write a request in flight is about to make. *)
Writes == {"none", "submit", "return", "resend", "act", "resubmit", "board",
           "mail", "claim", "decide", "finish", "profile", "post"}

Request == [write : Writes,
            at : Nat,                 \* the step it means to decide
            seen : Nat,               \* how many steps it read
            round : Nat,              \* the round it read them in
            inChain : BOOLEAN,        \* it read status PENDING_APPROVAL
            decision : Decisions,
            to : SUBSET Members]      \* members still to be mailed, or the voter

Idle == [write |-> "none", at |-> 0, seen |-> 0, round |-> 0, inChain |-> FALSE,
         decision |-> "approved", to |-> {}]

Approved == {"APPROVED", "PROFILE_GENERATED", "POSTED"}

TypeOK ==
  /\ status \in Statuses
  /\ steps \in Seq(Step)
  /\ returned \in BOOLEAN
  /\ vote \in [Members -> VoteStatuses]
  /\ expired \in SUBSET Members
  /\ req \in [Requests -> Request]
  /\ round \in Nat
  /\ boardRound \in Nat
  /\ inTurn \in BOOLEAN

-----------------------------------------------------------------------------
(* Reading the chain *)

Parked == \E i \in DOMAIN steps : steps[i].st = "INFO_REQUESTED"

(* The first step still PENDING, the one `findIndex` picks. *)
IsCurrent(i) ==
  /\ i \in DOMAIN steps
  /\ steps[i].st = "PENDING"
  /\ \A j \in 1..(i - 1) : steps[j].st # "PENDING"

Exists == status # "DELETED"

(***************************************************************************)
(* `inTurn` becomes FALSE, for good, when a write lands out of turn:       *)
(*   - a job analysis submitted by a request that read the requisition     *)
(*     before another one submitted it;                                    *)
(*   - a decision on a requisition that was not in PENDING_APPROVAL;       *)
(*   - a decision, or a resubmission, read before a resubmission that      *)
(*     landed first;                                                       *)
(*   - a Board answer given in a later round than the Board was asked in;  *)
(*   - a role profile written over a requisition posted since the read.    *)
(* The code refuses none of these, and what the chain promises holds as    *)
(* long as none has happened: no other interleaving can break it.          *)
(***************************************************************************)
Stays(condition) == inTurn' = (inTurn /\ condition)

Begin(r, request) ==
  /\ req[r].write = "none"
  /\ Exists
  /\ req' = [req EXCEPT ![r] = request]
  /\ UNCHANGED <<status, steps, returned, vote, expired, history, inTurn>>

At(r, write) == req[r].write = write

End(r) == req' = [req EXCEPT ![r] = Idle]
GoTo(r, write) == req' = [req EXCEPT ![r].write = write]

Init ==
  /\ status = "PENDING_JOB_ANALYSIS"
  /\ steps = [i \in 1..(Levels + 1) |->
                [role |-> IF i <= Levels THEN "LEVEL" ELSE "CORPORATE_HR",
                 st |-> "PENDING"]]
  /\ returned = FALSE
  /\ vote = [m \in Members |-> "none"]
  /\ expired = {}
  /\ req = [r \in Requests |-> Idle]
  /\ round = 0
  /\ boardRound = 0
  /\ inTurn = TRUE

-----------------------------------------------------------------------------
(* The job analysis, before the chain *)

SaveJobAnalysis(r) ==
  /\ status = "PENDING_JOB_ANALYSIS"
  /\ Begin(r, [Idle EXCEPT !.write = "submit"])

(* The update names the row only: a status changed since the read is overwritten. *)
CommitSubmit(r) ==
  /\ At(r, "submit")
  /\ Exists
  /\ status' = "PENDING_APPROVAL"
  /\ returned' = FALSE
  /\ Stays(status = "PENDING_JOB_ANALYSIS")
  /\ End(r)
  /\ UNCHANGED <<steps, vote, expired, history>>

ReturnJobAnalysisToRaiser(r) ==
  /\ status = "PENDING_JOB_ANALYSIS"
  /\ Begin(r, [Idle EXCEPT !.write = "return"])

CommitReturn(r) ==
  /\ At(r, "return")
  /\ Exists
  /\ returned' = TRUE
  /\ End(r)
  /\ UNCHANGED <<status, steps, vote, expired, history, inTurn>>

ResendForJobAnalysis(r) ==
  /\ status = "PENDING_JOB_ANALYSIS"
  /\ returned
  /\ Begin(r, [Idle EXCEPT !.write = "resend"])

CommitResend(r) ==
  /\ At(r, "resend")
  /\ Exists
  /\ returned' = FALSE
  /\ End(r)
  /\ UNCHANGED <<status, steps, vote, expired, history, inTurn>>

-----------------------------------------------------------------------------
(* Sign-off *)

(* `act` up to its transaction.  It looks at the steps and never at the status. *)
Act(r) ==
  /\ ~Parked
  /\ \E i \in DOMAIN steps, d \in Decisions :
       /\ IsCurrent(i)
       /\ d = "escalate" => i = Len(steps) /\ steps[i].role \notin {"CHRO", "BOARD"}
       /\ Begin(r, [Idle EXCEPT !.write = "act", !.at = i, !.seen = Len(steps),
                                !.round = round, !.decision = d,
                                !.inChain = (status = "PENDING_APPROVAL")])

(* The status a decision leaves its step in. *)
Outcome(d) == CASE d = "rejected" -> "REJECTED"
                [] d = "need_more_info" -> "INFO_REQUESTED"
                [] OTHER -> "APPROVED"

Decide(i, st) == [steps EXCEPT ![i].st = st]
NextStep(role) == [role |-> role, st |-> "PENDING"]

(* Variant: the claim forgets `status: 'PENDING'`. *)
ClaimAny(i) == i \in DOMAIN steps

(* The conditional update that claims the step: it must still be PENDING. *)
Claimable(i) == i \in DOMAIN steps /\ steps[i].st = "PENDING"

(* Variant: without the unique index. *)
AppendAnywhere(r) == TRUE

(* A new step takes orderIndex `seen`, which must be free: the pair
   (requisitionId, orderIndex) is unique. *)
Appendable(r) == Len(steps) = req[r].seen

Timely(r) == req[r].inChain /\ req[r].round = round

(* The transaction of `act`. *)
CommitAct(r) ==
  /\ At(r, "act")
  /\ Claimable(req[r].at)
  /\ LET i == req[r].at
         d == req[r].decision
     IN /\ d = "escalate" => Appendable(r)
        /\ steps' = IF d = "escalate" THEN Append(Decide(i, "APPROVED"), NextStep("CHRO"))
                                      ELSE Decide(i, Outcome(d))
        /\ status' = CASE d = "rejected" -> "REJECTED"
                       [] d = "approved" /\ i = req[r].seen -> "APPROVED"
                       [] OTHER -> status
  /\ Stays(Timely(r))
  /\ GoTo(r, "finish")
  /\ UNCHANGED <<returned, vote, expired, history>>

Resubmit(r) ==
  /\ status = "PENDING_APPROVAL"
  /\ Parked
  /\ Begin(r, [Idle EXCEPT !.write = "resubmit", !.round = round])

(* Clears every step, whatever happened to the chain since the read. *)
CommitResubmit(r) ==
  /\ At(r, "resubmit")
  /\ Exists
  /\ round < MaxRounds
  /\ steps' = [i \in DOMAIN steps |-> [steps[i] EXCEPT !.st = "PENDING"]]
  /\ round' = round + 1
  /\ Stays(req[r].round = round)
  /\ End(r)
  /\ UNCHANGED <<status, returned, vote, expired, boardRound>>

-----------------------------------------------------------------------------
(* The Board *)

SendToBoard(r) ==
  /\ ~Parked
  /\ \E to \in SUBSET Members \ {{}} :
       /\ IsCurrent(Len(steps))
       /\ steps[Len(steps)].role = "CHRO"
       /\ Begin(r, [Idle EXCEPT !.write = "board", !.at = Len(steps), !.seen = Len(steps),
                                !.round = round, !.to = to,
                                !.inChain = (status = "PENDING_APPROVAL")])

CommitBoard(r) ==
  /\ At(r, "board")
  /\ Claimable(req[r].at)
  /\ Appendable(r)
  /\ steps' = Append(Decide(req[r].at, "APPROVED"), NextStep("BOARD"))
  /\ boardRound' = round
  /\ Stays(Timely(r))
  /\ GoTo(r, "mail")
  /\ UNCHANGED <<status, returned, vote, expired, round>>

(* One pass of the loop after the transaction: a vote row, then its email. *)
CreateVote(r) ==
  /\ At(r, "mail")
  /\ Exists
  /\ \E m \in req[r].to :
       /\ vote' = [vote EXCEPT ![m] = "pending"]
       /\ req' = [req EXCEPT ![r].to = @ \ {m},
                             ![r].write = IF @ = "mail" /\ req[r].to = {m} THEN "finish" ELSE @]
  /\ UNCHANGED <<status, steps, returned, expired, history, inTurn>>

(* A member opens the emailed link and answers. *)
Vote(r) ==
  \E m \in Members, i \in DOMAIN steps, d \in {"approved", "rejected"} :
    /\ vote[m] = "pending"
    /\ m \notin expired
    /\ steps[i].role = "BOARD"
    /\ steps[i].st = "PENDING"
    /\ Begin(r, [Idle EXCEPT !.write = "claim", !.at = i, !.to = {m}, !.decision = d])

(* One answer per link: the first write that finds the row pending. *)
ClaimVote(r) ==
  /\ At(r, "claim")
  /\ \E m \in req[r].to :
       IF vote[m] = "pending"
         THEN vote' = [vote EXCEPT ![m] = req[r].decision] /\ GoTo(r, "decide")
         ELSE UNCHANGED vote /\ End(r)
  /\ UNCHANGED <<status, steps, returned, expired, history, inTurn>>

(* The first answer decides: the step if it is still PENDING, and the requisition with it. *)
DecideVote(r) ==
  /\ At(r, "decide")
  /\ IF Claimable(req[r].at)
       THEN /\ steps' = Decide(req[r].at, Outcome(req[r].decision))
            /\ status' = Outcome(req[r].decision)
            /\ Stays(round = boardRound)
            /\ GoTo(r, "finish")
       ELSE /\ UNCHANGED <<steps, status, inTurn>>
            /\ End(r)
  /\ UNCHANGED <<returned, vote, expired, history>>

ExpireToken(m) ==
  /\ vote[m] # "none"
  /\ m \notin expired
  /\ expired' = expired \cup {m}
  /\ UNCHANGED <<status, steps, returned, vote, req, history, inTurn>>

-----------------------------------------------------------------------------
(* After approval *)

(* `finishDecision` reloads the requisition; on full approval it may go on to
   write the role profile itself, if AI and the setting allow. *)
FinishDecision(r) ==
  /\ At(r, "finish")
  /\ End(r) \/ (status = "APPROVED" /\ GoTo(r, "profile"))
  /\ UNCHANGED <<status, steps, returned, vote, expired, history, inTurn>>

(* Variant: a profile may be drafted while the chain is still signing. *)
ProfilableEarly == status \in {"PENDING_APPROVAL", "APPROVED", "PROFILE_GENERATED"}

Profilable == status \in {"APPROVED", "PROFILE_GENERATED"}

GenerateRoleProfile(r) ==
  /\ Profilable
  /\ Begin(r, [Idle EXCEPT !.write = "profile"])

UpdateRoleProfile(r) ==
  /\ Profilable
  /\ Begin(r, [Idle EXCEPT !.write = "profile"])

(* Written after the language model has answered, whatever the status is by then. *)
CommitProfile(r) ==
  /\ At(r, "profile")
  /\ Exists
  /\ status' = "PROFILE_GENERATED"
  /\ Stays(status # "POSTED")
  /\ End(r)
  /\ UNCHANGED <<steps, returned, vote, expired, history>>

(* Variant: posting does not wait for the profile. *)
PostUnprofiled(r) ==
  /\ status \in {"APPROVED", "PROFILE_GENERATED", "POSTED"}
  /\ Begin(r, [Idle EXCEPT !.write = "post"])

Post(r) ==
  /\ status \in {"PROFILE_GENERATED", "POSTED"}
  /\ Begin(r, [Idle EXCEPT !.write = "post"])

CommitPost(r) ==
  /\ At(r, "post")
  /\ Exists
  /\ status' = "POSTED"
  /\ End(r)
  /\ UNCHANGED <<steps, returned, vote, expired, history, inTurn>>

-----------------------------------------------------------------------------
(* The administrator's delete takes the steps and the votes with it. *)
HardDelete ==
  /\ Exists
  /\ status' = "DELETED"
  /\ steps' = << >>
  /\ vote' = [m \in Members |-> "none"]
  /\ returned' = FALSE
  /\ expired' = {}
  /\ UNCHANGED <<req, history, inTurn>>

(* A request dies between two writes: a refused write, a database error, a
   restart of the process (which is this action for every request). *)
Fail(r) ==
  /\ req[r].write # "none"
  /\ End(r)
  /\ UNCHANGED <<status, steps, returned, vote, expired, history, inTurn>>

Analysis(r) ==
  \/ SaveJobAnalysis(r) \/ CommitSubmit(r)
  \/ ReturnJobAnalysisToRaiser(r) \/ CommitReturn(r)
  \/ ResendForJobAnalysis(r) \/ CommitResend(r)

SignOff(r) ==
  \/ Act(r) \/ CommitAct(r)
  \/ Resubmit(r) \/ CommitResubmit(r)

Board(r) ==
  \/ SendToBoard(r) \/ CommitBoard(r) \/ CreateVote(r)
  \/ Vote(r) \/ ClaimVote(r) \/ DecideVote(r)

AfterApproval(r) ==
  \/ FinishDecision(r)
  \/ GenerateRoleProfile(r) \/ UpdateRoleProfile(r) \/ CommitProfile(r)
  \/ Post(r) \/ CommitPost(r)

Next ==
  \/ \E r \in Requests :
       Analysis(r) \/ SignOff(r) \/ Board(r) \/ AfterApproval(r) \/ Fail(r)
  \/ \E m \in Members : ExpireToken(m)
  \/ HardDelete

Spec == Init /\ [][Next]_vars
-----------------------------------------------------------------------------
(* Properties *)

RoleAt(i) == CASE i <= Levels -> "LEVEL"
               [] i = Levels + 1 -> "CORPORATE_HR"
               [] i = Levels + 2 -> "CHRO"
               [] OTHER -> "BOARD"

(* The chain is always the configured levels, Corporate HR, then at most one
   CHRO step and at most one Board step after it: two requests that both read
   the chain before either appended to it never append twice. *)
ChainShape ==
  Exists => /\ Len(steps) \in (Levels + 1)..(Levels + 3)
            /\ \A i \in DOMAIN steps : steps[i].role = RoleAt(i)

AllSteps(st) == \A i \in DOMAIN steps : steps[i].st = st
SomeStep(st) == \E i \in DOMAIN steps : steps[i].st = st

(* The requisition's status and its chain, written by different handlers, tell
   the same story: approved only when every step is signed, rejected only when
   a step is, in the chain only while a step is still open. *)
StatusAgrees ==
  inTurn =>
    /\ status = "PENDING_JOB_ANALYSIS" => AllSteps("PENDING")
    /\ status = "PENDING_APPROVAL" =>
         (SomeStep("PENDING") \/ SomeStep("INFO_REQUESTED")) /\ ~SomeStep("REJECTED")
    /\ status = "REJECTED" => SomeStep("REJECTED")
    /\ status \in Approved => AllSteps("APPROVED")

(* Nobody signs ahead of an earlier approver: a step is decided, or held for
   clarification, only with every earlier step approved. *)
InOrder ==
  inTurn => \A k \in DOMAIN steps : steps[k].st # "PENDING" =>
              \A j \in 1..(k - 1) : steps[j].st = "APPROVED"

(* Whoever is next is the first who has not signed, in a chain of the right shape:
   the two together are what makes "the current step" one step (getCurrentStep). *)
ChainInOrder == ChainShape /\ InOrder

(* A decision is final within its round: whatever two approvers, a double
   click or several board members do at once, the first write to a step stands
   until the raiser resubmits. *)
SignedStepStands ==
  [][\A i \in DOMAIN steps :
       i \in DOMAIN steps' /\ steps[i].st # "PENDING" /\ steps'[i].st # steps[i].st
         => round' = round + 1 /\ steps'[i].st = "PENDING"]_vars

Successors(st) == CASE st = "PENDING_JOB_ANALYSIS" -> {"PENDING_APPROVAL"}
                    [] st = "PENDING_APPROVAL" -> {"APPROVED", "REJECTED"}
                    [] st = "APPROVED" -> {"PROFILE_GENERATED"}
                    [] st = "PROFILE_GENERATED" -> {"POSTED"}
                    [] OTHER -> {}

(* In turn, the status only ever moves along the workflow: a rejected
   requisition is never revived, a posted one never taken back to its profile. *)
LifecycleForward ==
  [][inTurn' /\ status' # status => status' \in Successors(status) \cup {"DELETED"}]_vars

=============================================================================
