---------------------- MODULE RequisitionChainProofs ----------------------
(***************************************************************************)
(* Theorems of RequisitionChain for any number of requests, of members, of *)
(* levels and of rounds.  The proof is in two layers.                      *)
(*                                                                         *)
(* `Structure` holds whatever lands out of turn: the chain has its shape   *)
(* because a request that appends a step remembers the length it read, and *)
(* the insert finds that place taken if another request got there first.   *)
(*                                                                         *)
(* `Truth` holds as long as `inTurn`: it adds what a request in flight may *)
(* still rely on.  An approver's request that is on time, and whose step   *)
(* nobody has claimed, still finds every earlier step approved and the     *)
(* chain as long as it read it.                                            *)
(*                                                                         *)
(* The last section is about Directory: a run counts what it does, row by  *)
(* row, and one that is alone knows every account and every unit.          *)
(***************************************************************************)
EXTENDS RequisitionChain, Directory, FiniteSetTheorems, SequenceTheorems, TLAPS

(* What a request remembers of the chain's shape. *)
Position(r) ==
  LET q == req[r] IN
    /\ q.write \in {"act", "board"} =>
         /\ q.at \in 1..q.seen
         /\ q.round <= round
         /\ Exists => q.seen <= Len(steps)
    /\ q.write = "act" /\ q.decision = "escalate" =>
         q.at = q.seen /\ q.seen = Levels + 1
    /\ q.write = "board" => q.at = q.seen /\ q.seen = Levels + 2
    /\ q.write = "resubmit" => q.round <= round
    /\ q.write \in {"claim", "decide"} =>
         /\ q.decision \in {"approved", "rejected"}
         /\ q.at = Levels + 3
         /\ Exists => Len(steps) = Levels + 3

Structure ==
  /\ TypeOK
  /\ ChainShape
  /\ ~Exists => steps = << >>
  /\ boardRound <= round
  /\ \A r \in Requests : Position(r)

-----------------------------------------------------------------------------
(* Operators on the chain *)

(* Deciding a step of the chain keeps its length and every role, and changes
   the status of that step alone. *)
LEMMA DecideLemma ==
  ASSUME steps \in Seq(Step), NEW i \in DOMAIN steps, NEW st \in StepStatuses
  PROVE  /\ Decide(i, st) \in Seq(Step)
         /\ Len(Decide(i, st)) = Len(steps)
         /\ DOMAIN Decide(i, st) = DOMAIN steps
         /\ \A j \in DOMAIN steps :
              /\ Decide(i, st)[j].role = steps[j].role
              /\ Decide(i, st)[j].st = IF j = i THEN st ELSE steps[j].st
<1>1. DOMAIN steps = 1..Len(steps) /\ Len(steps) \in Nat
  OBVIOUS
<1>a. \A j \in DOMAIN steps : steps[j] \in Step
  BY <1>1
<1>2. [steps[i] EXCEPT !.st = st] \in Step
  BY <1>a DEF Step
<1>3. Decide(i, st) = [steps EXCEPT ![i] = [steps[i] EXCEPT !.st = st]]
  BY DEF Decide
<1>. QED
  BY <1>1, <1>2, <1>3 DEF Step

(* Appending a pending step keeps the steps there were. *)
LEMMA AppendLemma ==
  ASSUME NEW s \in Seq(Step), NEW role \in StepRoles
  PROVE  LET t == Append(s, NextStep(role)) IN
         /\ t \in Seq(Step)
         /\ Len(t) = Len(s) + 1
         /\ DOMAIN t = 1..(Len(s) + 1)
         /\ \A j \in DOMAIN s : t[j] = s[j]
         /\ t[Len(s) + 1].role = role
         /\ t[Len(s) + 1].st = "PENDING"
<1>1. NextStep(role) \in Step
  BY DEF NextStep, Step, StepStatuses
<1>. QED
  BY <1>1 DEF NextStep

(* A resubmission keeps the chain's shape and reopens every step. *)
LEMMA ClearLemma ==
  ASSUME steps \in Seq(Step),
         NEW t, t = [i \in DOMAIN steps |-> [steps[i] EXCEPT !.st = "PENDING"]]
  PROVE  /\ t \in Seq(Step)
         /\ Len(t) = Len(steps)
         /\ DOMAIN t = DOMAIN steps
         /\ \A j \in DOMAIN steps : t[j].role = steps[j].role /\ t[j].st = "PENDING"
<1>1. DOMAIN steps = 1..Len(steps) /\ Len(steps) \in Nat
  OBVIOUS
<1>a. \A j \in DOMAIN steps : steps[j] \in Step
  BY <1>1
<1>2. \A j \in DOMAIN steps : [steps[j] EXCEPT !.st = "PENDING"] \in Step
  BY <1>a DEF Step, StepStatuses
<1>3. t \in [1..Len(steps) -> Step]
  BY <1>1, <1>2
<1>4. t \in Seq(Step) /\ Len(t) = Len(steps)
  BY <1>1, <1>3
<1>. QED
  BY <1>1, <1>2, <1>4 DEF Step

LEMMA OutcomeLemma ==
  ASSUME NEW d \in Decisions
  PROVE  Outcome(d) \in StepStatuses \ {"PENDING"}
BY DEF Outcome, Decisions, StepStatuses

-----------------------------------------------------------------------------
(* Types *)

LEMMA IdleType == Idle \in Request
BY DEF Idle, Request, Writes, Decisions

(* A request that begins is the only thing its first step changes. *)
LEMMA BeginType ==
  ASSUME TypeOK, NEW r \in Requests, NEW q \in Request, Begin(r, q)
  PROVE  TypeOK' /\ req'[r] = q /\ \A o \in Requests \ {r} : req'[o] = req[o]
BY DEF Begin, TypeOK, history

LEMMA EndType ==
  ASSUME TypeOK, NEW r \in Requests, End(r)
  PROVE  /\ req' \in [Requests -> Request]
         /\ req'[r] = Idle
         /\ \A o \in Requests \ {r} : req'[o] = req[o]
BY IdleType DEF End, TypeOK

LEMMA GoToType ==
  ASSUME TypeOK, NEW r \in Requests, NEW w \in Writes, GoTo(r, w)
  PROVE  /\ req' \in [Requests -> Request]
         /\ req'[r] = [req[r] EXCEPT !.write = w]
         /\ \A o \in Requests \ {r} : req'[o] = req[o]
<1>1. req[r] \in Request
  BY DEF TypeOK
<1>2. [req[r] EXCEPT !.write = w] \in Request
  BY <1>1 DEF Request
<1>. QED
  BY <1>1, <1>2 DEF GoTo, TypeOK

(* What the transaction of `act` writes has the type of a chain. *)
LEMMA CommitActType ==
  ASSUME TypeOK, NEW r \in Requests, CommitAct(r)
  PROVE  /\ steps' \in Seq(Step)
         /\ status' \in Statuses
         /\ inTurn' \in BOOLEAN
<1> DEFINE i == req[r].at
           d == req[r].decision
<1>1. d \in Decisions /\ i \in DOMAIN steps
  BY DEF TypeOK, Request, CommitAct, Claimable
<1>2. "APPROVED" \in StepStatuses /\ Outcome(d) \in StepStatuses /\ "CHRO" \in StepRoles
  BY <1>1, OutcomeLemma DEF StepStatuses, StepRoles
<1>3. Decide(i, "APPROVED") \in Seq(Step) /\ Decide(i, Outcome(d)) \in Seq(Step)
  BY <1>1, <1>2, DecideLemma DEF TypeOK
<1>4. Append(Decide(i, "APPROVED"), NextStep("CHRO")) \in Seq(Step)
  BY <1>2, <1>3, AppendLemma
<1>5. steps' \in Seq(Step)
  BY <1>3, <1>4 DEF CommitAct
<1>6. status' \in Statuses
  BY DEF CommitAct, TypeOK, Statuses
<1>7. inTurn' \in BOOLEAN
  BY DEF CommitAct, Stays, TypeOK
<1>. QED
  BY <1>5, <1>6, <1>7

LEMMA TypeStep ==
  ASSUME TypeOK, \A r \in Requests : Position(r), [Next]_vars
  PROVE  TypeOK'
<1>. USE DEF history
<1>1. ASSUME NEW r \in Requests, Analysis(r)
      PROVE  TypeOK'
  <2>1. CASE SaveJobAnalysis(r) \/ ReturnJobAnalysisToRaiser(r) \/ ResendForJobAnalysis(r)
    <3>1. /\ [Idle EXCEPT !.write = "submit"] \in Request
          /\ [Idle EXCEPT !.write = "return"] \in Request
          /\ [Idle EXCEPT !.write = "resend"] \in Request
      BY IdleType DEF Request, Writes
    <3>. QED
      BY <2>1, <3>1, BeginType
         DEF SaveJobAnalysis, ReturnJobAnalysisToRaiser, ResendForJobAnalysis
  <2>2. CASE CommitSubmit(r)
    BY <2>2, EndType DEF CommitSubmit, TypeOK, Statuses, Stays
  <2>3. CASE CommitReturn(r)
    BY <2>3, EndType DEF CommitReturn, TypeOK
  <2>4. CASE CommitResend(r)
    BY <2>4, EndType DEF CommitResend, TypeOK
  <2>. QED
    BY <1>1, <2>1, <2>2, <2>3, <2>4 DEF Analysis
<1>2. ASSUME NEW r \in Requests, SignOff(r)
      PROVE  TypeOK'
  <2>1. CASE Act(r)
    <3>1. PICK i \in DOMAIN steps, d \in Decisions :
            Begin(r, [Idle EXCEPT !.write = "act", !.at = i, !.seen = Len(steps),
                                  !.round = round, !.decision = d,
                                  !.inChain = (status = "PENDING_APPROVAL")])
      BY <2>1 DEF Act
    <3>2. i \in Nat /\ Len(steps) \in Nat /\ round \in Nat
      BY DEF TypeOK
    <3>3. [Idle EXCEPT !.write = "act", !.at = i, !.seen = Len(steps), !.round = round,
                       !.decision = d, !.inChain = (status = "PENDING_APPROVAL")] \in Request
      BY <3>2, IdleType DEF Request, Writes
    <3>. QED
      BY <3>1, <3>3, BeginType
  <2>2. CASE CommitAct(r)
    <3>1. GoTo(r, "finish") /\ "finish" \in Writes
      BY <2>2 DEF CommitAct, Writes
    <3>. QED
      BY <2>2, <3>1, CommitActType, GoToType DEF CommitAct, TypeOK
  <2>3. CASE Resubmit(r)
    <3>1. [Idle EXCEPT !.write = "resubmit", !.round = round] \in Request
      BY IdleType DEF Request, Writes, TypeOK
    <3>. QED
      BY <2>3, <3>1, BeginType DEF Resubmit
  <2>4. CASE CommitResubmit(r)
    <3>1. steps' \in Seq(Step)
      BY <2>4, ClearLemma DEF CommitResubmit, TypeOK
    <3>. QED
      BY <2>4, <3>1, EndType DEF CommitResubmit, TypeOK, Stays
  <2>. QED
    BY <1>2, <2>1, <2>2, <2>3, <2>4 DEF SignOff
<1>3. ASSUME NEW r \in Requests, Board(r)
      PROVE  TypeOK'
  <2>1. CASE SendToBoard(r)
    <3>1. PICK to \in SUBSET Members :
            Begin(r, [Idle EXCEPT !.write = "board", !.at = Len(steps), !.seen = Len(steps),
                                  !.round = round, !.to = to,
                                  !.inChain = (status = "PENDING_APPROVAL")])
      BY <2>1 DEF SendToBoard
    <3>2. Len(steps) \in Nat /\ round \in Nat
      BY DEF TypeOK
    <3>3. [Idle EXCEPT !.write = "board", !.at = Len(steps), !.seen = Len(steps),
                       !.round = round, !.to = to,
                       !.inChain = (status = "PENDING_APPROVAL")] \in Request
      BY <3>2, IdleType DEF Request, Writes
    <3>. QED
      BY <3>1, <3>3, BeginType
  <2>2. CASE CommitBoard(r)
    <3>1. /\ "APPROVED" \in StepStatuses
          /\ "BOARD" \in StepRoles
          /\ req[r].at \in DOMAIN steps
          /\ GoTo(r, "mail") /\ "mail" \in Writes
      BY <2>2 DEF CommitBoard, Claimable, StepStatuses, StepRoles, Writes
    <3>2. Decide(req[r].at, "APPROVED") \in Seq(Step)
      BY <3>1, DecideLemma DEF TypeOK
    <3>3. steps' \in Seq(Step)
      BY <2>2, <3>1, <3>2, AppendLemma DEF CommitBoard
    <3>. QED
      BY <2>2, <3>1, <3>3, GoToType DEF CommitBoard, TypeOK, Stays
  <2>3. CASE CreateVote(r)
    <3>1. PICK m \in req[r].to :
            /\ vote' = [vote EXCEPT ![m] = "pending"]
            /\ req' = [req EXCEPT ![r].to = @ \ {m},
                 ![r].write = IF @ = "mail" /\ req[r].to = {m} THEN "finish" ELSE @]
      BY <2>3 DEF CreateVote
    <3>2. req[r] \in Request /\ m \in Members
      BY DEF TypeOK, Request
    <3>3. vote' \in [Members -> VoteStatuses]
      BY <3>1, <3>2 DEF TypeOK, VoteStatuses
    <3>4. req' \in [Requests -> Request]
      BY <3>1, <3>2 DEF TypeOK, Request, Writes
    <3>. QED
      BY <2>3, <3>3, <3>4 DEF CreateVote, TypeOK
  <2>4. CASE Vote(r)
    <3>1. PICK m \in Members, i \in DOMAIN steps, d \in {"approved", "rejected"} :
            Begin(r, [Idle EXCEPT !.write = "claim", !.at = i, !.to = {m}, !.decision = d])
      BY <2>4 DEF Vote
    <3>2. i \in Nat
      BY DEF TypeOK
    <3>3. [Idle EXCEPT !.write = "claim", !.at = i, !.to = {m}, !.decision = d] \in Request
      BY <3>2, IdleType DEF Request, Writes, Decisions
    <3>. QED
      BY <3>1, <3>3, BeginType
  <2>5. CASE ClaimVote(r)
    <3>1. PICK m \in req[r].to :
            \/ vote' = [vote EXCEPT ![m] = req[r].decision] /\ GoTo(r, "decide")
            \/ UNCHANGED vote /\ End(r)
      BY <2>5 DEF ClaimVote
    <3>2. req' \in [Requests -> Request]
      BY <3>1, EndType, GoToType DEF Writes
    <3>3. req[r].decision \in VoteStatuses
      BY <2>5 DEF ClaimVote, At, Position, VoteStatuses
    <3>4. vote' \in [Members -> VoteStatuses]
      BY <3>1, <3>3 DEF TypeOK
    <3>. QED
      BY <2>5, <3>2, <3>4 DEF ClaimVote, TypeOK
  <2>6. CASE DecideVote(r)
    <3>1. req[r].decision \in {"approved", "rejected"}
      BY <2>6 DEF DecideVote, At, Position
    <3>2. /\ Outcome(req[r].decision) \in StepStatuses
          /\ Outcome(req[r].decision) \in Statuses
      BY <3>1 DEF Outcome, StepStatuses, Statuses
    <3>3. CASE Claimable(req[r].at)
      <4>1. Decide(req[r].at, Outcome(req[r].decision)) \in Seq(Step)
        BY <3>2, <3>3, DecideLemma DEF Claimable, TypeOK
      <4>. QED
        BY <2>6, <3>2, <3>3, <4>1, GoToType DEF DecideVote, TypeOK, Stays, Writes
    <3>4. CASE ~Claimable(req[r].at)
      BY <2>6, <3>4, EndType DEF DecideVote, TypeOK
    <3>. QED
      BY <3>3, <3>4
  <2>. QED
    BY <1>3, <2>1, <2>2, <2>3, <2>4, <2>5, <2>6 DEF Board
<1>4. ASSUME NEW r \in Requests, AfterApproval(r)
      PROVE  TypeOK'
  <2>1. CASE FinishDecision(r)
    <3>1. req' \in [Requests -> Request]
      BY <2>1, EndType, GoToType DEF FinishDecision, Writes
    <3>. QED
      BY <2>1, <3>1 DEF FinishDecision, TypeOK
  <2>2. CASE GenerateRoleProfile(r) \/ UpdateRoleProfile(r) \/ Post(r)
    <3>1. /\ [Idle EXCEPT !.write = "profile"] \in Request
          /\ [Idle EXCEPT !.write = "post"] \in Request
      BY IdleType DEF Request, Writes
    <3>. QED
      BY <2>2, <3>1, BeginType DEF GenerateRoleProfile, UpdateRoleProfile, Post
  <2>3. CASE CommitProfile(r)
    BY <2>3, EndType DEF CommitProfile, TypeOK, Statuses, Stays
  <2>4. CASE CommitPost(r)
    BY <2>4, EndType DEF CommitPost, TypeOK, Statuses
  <2>. QED
    BY <1>4, <2>1, <2>2, <2>3, <2>4 DEF AfterApproval
<1>5. ASSUME NEW r \in Requests, Fail(r)
      PROVE  TypeOK'
  BY <1>5, EndType DEF Fail, TypeOK
<1>6. ASSUME NEW m \in Members, ExpireToken(m)
      PROVE  TypeOK'
  BY <1>6 DEF ExpireToken, TypeOK
<1>7. CASE HardDelete
  <2>1. << >> \in Seq(Step)
    OBVIOUS
  <2>. QED
    BY <1>7, <2>1 DEF HardDelete, TypeOK, Statuses, VoteStatuses
<1>8. CASE UNCHANGED vars
  BY <1>8 DEF vars, TypeOK
<1>. QED
  BY <1>1, <1>2, <1>3, <1>4, <1>5, <1>6, <1>7, <1>8 DEF Next

-----------------------------------------------------------------------------
(* The shape of the chain *)

(* The writes whose handler remembers a position in the chain. *)
Positional == {"act", "board", "resubmit", "claim", "decide"}

LEMMA GoToFinish ==
  ASSUME TypeOK, NEW r \in Requests,
         GoTo(r, "finish") \/ GoTo(r, "mail") \/ GoTo(r, "profile")
  PROVE  req'[r].write \notin Positional /\ \A o \in Requests \ {r} : req'[o] = req[o]
<1>1. PICK w \in {"finish", "mail", "profile"} : GoTo(r, w)
  OBVIOUS
<1>2. w \in Writes /\ req[r] \in Request
  BY DEF Writes, TypeOK
<1>3. req'[r] = [req[r] EXCEPT !.write = w] /\ \A o \in Requests \ {r} : req'[o] = req[o]
  BY <1>1, <1>2, GoToType
<1>4. req'[r].write = w
  BY <1>2, <1>3 DEF Request
<1>. QED
  BY <1>3, <1>4 DEF Positional

(* A chain that only grows, and a count of rounds that only grows. *)
Grows ==
  /\ round <= round'
  /\ Exists' => /\ Exists
                /\ Len(steps) <= Len(steps')
                /\ Len(steps') <= Levels + 3

LEMMA PositionFrame ==
  ASSUME TypeOK, TypeOK', Grows, NEW o \in Requests, Position(o),
         \/ req'[o] = req[o]
         \/ req'[o].write \notin Positional
  PROVE  Position(o)'
<1>1. /\ req[o] \in Request /\ req'[o] \in Request
      /\ Len(steps) \in Nat /\ Len(steps') \in Nat
      /\ round \in Nat /\ round' \in Nat
  BY DEF TypeOK
<1>2. CASE req'[o].write \notin Positional
  BY <1>2 DEF Position, Positional
<1>3. CASE req'[o] = req[o]
  BY <1>1, <1>3, LevelsAssumption DEF Position, Grows, Request
<1>. QED
  BY <1>2, <1>3

(* Most steps leave the chain alone. *)
LEMMA ShapeFrame ==
  ASSUME Structure, TypeOK', UNCHANGED <<steps, history>>, Exists' <=> Exists,
         NEW r \in Requests, Position(r)',
         \A o \in Requests \ {r} : req'[o] = req[o]
  PROVE  Structure'
<1>1. Grows
  BY DEF Structure, TypeOK, Grows, history, ChainShape
<1>2. \A o \in Requests : Position(o)'
  BY <1>1, PositionFrame DEF Structure
<1>3. ChainShape' /\ (~Exists => steps = << >>)' /\ (boardRound <= round)'
  BY DEF Structure, history, ChainShape
<1>. QED
  BY <1>2, <1>3 DEF Structure

(* A step of the request r that leaves the chain alone and after which it
   remembers no position. *)
LEMMA QuietStep ==
  ASSUME Structure, TypeOK', UNCHANGED <<steps, history>>, Exists' <=> Exists,
         NEW r \in Requests, req'[r].write \notin Positional,
         \A o \in Requests \ {r} : req'[o] = req[o]
  PROVE  Structure'
BY ShapeFrame DEF Position, Positional

(* Writing the status or the step of a chain that stays as long keeps its shape. *)
LEMMA RewriteShape ==
  ASSUME Structure, Exists, Exists', TypeOK',
         DOMAIN steps' = DOMAIN steps,
         \A j \in DOMAIN steps : steps'[j].role = steps[j].role
  PROVE  ChainShape'
<1>1. Len(steps') = Len(steps)
  BY DEF Structure, TypeOK
<1>. QED
  BY <1>1 DEF ChainShape, Structure, RoleAt

(* Appending the step whose place the request remembers keeps the shape. *)
LEMMA AppendShape ==
  ASSUME Structure, Exists, TypeOK', NEW i \in DOMAIN steps, NEW role,
         \/ i = Levels + 1 /\ role = "CHRO"
         \/ i = Levels + 2 /\ role = "BOARD",
         Len(steps) = i,
         steps' = Append(Decide(i, "APPROVED"), NextStep(role))
  PROVE  /\ ChainShape'
         /\ Len(steps') = Len(steps) + 1
         /\ DOMAIN steps' = 1..(Len(steps) + 1)
         /\ \A j \in DOMAIN steps : steps'[j].st = IF j = i THEN "APPROVED" ELSE steps[j].st
         /\ steps'[i + 1].st = "PENDING"
<1>1. role \in StepRoles /\ "APPROVED" \in StepStatuses
  BY DEF StepRoles, StepStatuses
<1> DEFINE s == Decide(i, "APPROVED")
<1>2. /\ s \in Seq(Step) /\ Len(s) = Len(steps) /\ DOMAIN s = DOMAIN steps
      /\ \A j \in DOMAIN steps :
           s[j].role = steps[j].role /\ s[j].st = IF j = i THEN "APPROVED" ELSE steps[j].st
  BY <1>1, DecideLemma DEF Structure, TypeOK
<1>3. /\ Len(steps') = Len(steps) + 1
      /\ DOMAIN steps' = 1..(Len(steps) + 1)
      /\ \A j \in DOMAIN steps : steps'[j] = s[j]
      /\ steps'[i + 1].role = role /\ steps'[i + 1].st = "PENDING"
  BY <1>1, <1>2, AppendLemma
<1>4. DOMAIN steps = 1..Len(steps) /\ Len(steps) \in Nat
  BY DEF Structure, TypeOK
<1>5. \A j \in DOMAIN steps' : steps'[j].role = RoleAt(j)
  <2>1. TAKE j \in DOMAIN steps'
  <2>2. CASE j \in DOMAIN steps
    BY <1>2, <1>3, <2>2 DEF Structure, ChainShape
  <2>3. CASE j = i + 1
    BY <1>3, <2>3, LevelsAssumption DEF RoleAt
  <2>. QED
    BY <1>3, <1>4, <2>2, <2>3
<1>6. Len(steps') \in (Levels + 1)..(Levels + 3)
  BY <1>3, LevelsAssumption
<1>7. ChainShape'
  BY <1>5, <1>6 DEF ChainShape
<1>. QED
  BY <1>2, <1>3, <1>7

(* A rewrite of the chain by r, which remembers no position afterwards. *)
LEMMA RewriteStep ==
  ASSUME Structure, Exists, Exists', TypeOK', round <= round', boardRound' = boardRound,
         DOMAIN steps' = DOMAIN steps,
         \A j \in DOMAIN steps : steps'[j].role = steps[j].role,
         NEW r \in Requests, req'[r].write \notin Positional,
         \A o \in Requests \ {r} : req'[o] = req[o]
  PROVE  Structure'
<1>1. ChainShape' /\ Len(steps') = Len(steps)
  BY RewriteShape DEF Structure, TypeOK
<1>2. Grows
  BY <1>1 DEF Grows, Structure, TypeOK, ChainShape
<1>3. \A o \in Requests : Position(o)'
  BY <1>2, PositionFrame DEF Structure
<1>4. (boardRound <= round)'
  BY DEF Structure, TypeOK
<1>. QED
  BY <1>1, <1>3, <1>4 DEF Structure

LEMMA StructureInit == Init => Structure
<1>. SUFFICES ASSUME Init PROVE Structure
  OBVIOUS
<1>1. steps \in Seq(Step) /\ Len(steps) = Levels + 1
  BY LevelsAssumption DEF Init, Step, StepRoles, StepStatuses
<1>2. TypeOK
  BY <1>1, IdleType DEF Init, TypeOK, Statuses, VoteStatuses
<1>3. ChainShape
  BY <1>1, LevelsAssumption DEF Init, ChainShape, RoleAt
<1>4. \A r \in Requests : Position(r)
  BY DEF Init, Position, Idle
<1>. QED
  BY <1>2, <1>3, <1>4 DEF Init, Structure, Exists

LEMMA CommitActStructure ==
  ASSUME Structure, TypeOK', NEW r \in Requests, CommitAct(r)
  PROVE  Structure'
<1> DEFINE i == req[r].at
           d == req[r].decision
<1>1. i \in DOMAIN steps /\ d \in Decisions /\ Exists
  BY DEF CommitAct, Claimable, Structure, TypeOK, Request
<1>2. Exists'
  BY <1>1 DEF CommitAct, Exists
<1>3. req'[r].write \notin Positional /\ \A o \in Requests \ {r} : req'[o] = req[o]
  BY GoToFinish DEF CommitAct, Structure
<1>4. CASE d = "escalate"
  <2>1. i = Levels + 1 /\ Len(steps) = i
    BY <1>1, <1>4 DEF CommitAct, At, Appendable, Structure, Position
  <2>2. /\ ChainShape'
        /\ Len(steps') = Len(steps) + 1
    BY <1>1, <1>4, <2>1, AppendShape DEF CommitAct
  <2>3. Grows
    BY <1>1, <2>1, <2>2, LevelsAssumption DEF Grows, CommitAct, history, Structure, TypeOK
  <2>4. \A o \in Requests : Position(o)'
    BY <1>3, <2>3, PositionFrame DEF Structure
  <2>. QED
    BY <1>2, <2>2, <2>4 DEF Structure, CommitAct, history
<1>5. CASE d # "escalate"
  <2>1. steps' = Decide(i, Outcome(d)) /\ Outcome(d) \in StepStatuses
    BY <1>1, <1>5, OutcomeLemma DEF CommitAct
  <2>2. /\ DOMAIN steps' = DOMAIN steps
        /\ \A j \in DOMAIN steps : steps'[j].role = steps[j].role
    BY <1>1, <2>1, DecideLemma DEF Structure, TypeOK
  <2>3. round <= round' /\ boardRound' = boardRound
    BY DEF CommitAct, history, Structure, TypeOK
  <2>. QED
    BY <1>1, <1>2, <1>3, <2>2, <2>3, RewriteStep
<1>. QED
  BY <1>4, <1>5

LEMMA CommitBoardStructure ==
  ASSUME Structure, TypeOK', NEW r \in Requests, CommitBoard(r)
  PROVE  Structure'
<1> DEFINE i == req[r].at
<1>1. i \in DOMAIN steps /\ Exists /\ i = Levels + 2 /\ Len(steps) = i
  BY DEF CommitBoard, Claimable, Structure, Position, At, Appendable
<1>2. Exists'
  BY <1>1 DEF CommitBoard, Exists
<1>3. req'[r].write \notin Positional /\ \A o \in Requests \ {r} : req'[o] = req[o]
  BY GoToFinish DEF CommitBoard, Structure
<1>4. ChainShape' /\ Len(steps') = Len(steps) + 1
  BY <1>1, AppendShape DEF CommitBoard
<1>5. Grows
  BY <1>1, <1>4, LevelsAssumption DEF Grows, CommitBoard, Structure, TypeOK
<1>6. \A o \in Requests : Position(o)'
  BY <1>3, <1>5, PositionFrame DEF Structure
<1>7. (boardRound <= round)'
  BY DEF CommitBoard, Structure, TypeOK
<1>. QED
  BY <1>2, <1>4, <1>6, <1>7 DEF Structure

(* The roles tell where the CHRO's and the Board's steps are. *)
LEMMA RolePlace ==
  ASSUME Structure, Exists, NEW i \in DOMAIN steps
  PROVE  /\ i \in 1..Len(steps) /\ Len(steps) \in (Levels + 1)..(Levels + 3)
         /\ steps[i].role = "CHRO" <=> i = Levels + 2
         /\ steps[i].role = "BOARD" <=> i = Levels + 3
         /\ steps[i].role \notin {"CHRO", "BOARD"} <=> i <= Levels + 1
<1>1. i \in 1..Len(steps) /\ Len(steps) \in Nat
  BY DEF Structure, TypeOK
<1>2. steps[i].role = RoleAt(i) /\ Len(steps) \in (Levels + 1)..(Levels + 3)
  BY DEF Structure, ChainShape
<1>. QED
  BY <1>1, <1>2, LevelsAssumption DEF RoleAt

LEMMA ActStructure ==
  ASSUME Structure, TypeOK', NEW r \in Requests, Act(r)
  PROVE  Structure'
<1>1. PICK i \in DOMAIN steps, d \in Decisions :
        /\ d = "escalate" => i = Len(steps) /\ steps[i].role \notin {"CHRO", "BOARD"}
        /\ Begin(r, [Idle EXCEPT !.write = "act", !.at = i, !.seen = Len(steps),
                              !.round = round, !.decision = d,
                              !.inChain = (status = "PENDING_APPROVAL")])
  BY DEF Act
<1> DEFINE q == [Idle EXCEPT !.write = "act", !.at = i, !.seen = Len(steps),
                              !.round = round, !.decision = d,
                              !.inChain = (status = "PENDING_APPROVAL")]
<1>2. /\ i \in 1..Len(steps) /\ Len(steps) \in Nat /\ round \in Nat /\ Exists
      /\ Len(steps) >= Levels + 1
      /\ d = "escalate" => Len(steps) = Levels + 1
  BY <1>1, RolePlace, LevelsAssumption DEF Begin, Structure, TypeOK
<1>a. i \in Nat
  BY <1>2
<1>b. q \in Request
  BY <1>2, <1>a, IdleType DEF Request, Writes
<1>3. q \in Request /\ q.write = "act" /\ q.at = i /\ q.seen = Len(steps)
      /\ q.round = round /\ q.decision = d
  BY <1>b DEF Idle
<1>4. /\ UNCHANGED <<steps, history>> /\ (Exists' <=> Exists)
      /\ req'[r] = q /\ \A o \in Requests \ {r} : req'[o] = req[o]
  BY <1>1, <1>3, BeginType DEF Begin, Exists, Structure
<1>5. Position(r)'
  BY <1>1, <1>2, <1>3, <1>4 DEF Position, history
<1>. QED
  BY <1>4, <1>5, ShapeFrame

LEMMA ResubmitStructure ==
  ASSUME Structure, TypeOK', NEW r \in Requests, Resubmit(r)
  PROVE  Structure'
<1> DEFINE q == [Idle EXCEPT !.write = "resubmit", !.round = round]
<1>1. q \in Request /\ q.write = "resubmit" /\ q.round = round /\ round \in Nat
  BY IdleType DEF Idle, Request, Writes, Structure, TypeOK
<1>2. /\ UNCHANGED <<steps, history>> /\ (Exists' <=> Exists)
      /\ req'[r] = q /\ \A o \in Requests \ {r} : req'[o] = req[o]
  BY <1>1, BeginType DEF Resubmit, Begin, Exists, Structure
<1>3. Position(r)'
  BY <1>1, <1>2 DEF Position, history
<1>. QED
  BY <1>2, <1>3, ShapeFrame

LEMMA SendToBoardStructure ==
  ASSUME Structure, TypeOK', NEW r \in Requests, SendToBoard(r)
  PROVE  Structure'
<1>1. PICK to \in SUBSET Members :
        /\ IsCurrent(Len(steps))
        /\ steps[Len(steps)].role = "CHRO"
        /\ Begin(r, [Idle EXCEPT !.write = "board", !.at = Len(steps), !.seen = Len(steps),
                              !.round = round, !.to = to,
                              !.inChain = (status = "PENDING_APPROVAL")])
  BY DEF SendToBoard
<1> DEFINE q == [Idle EXCEPT !.write = "board", !.at = Len(steps), !.seen = Len(steps),
                              !.round = round, !.to = to,
                              !.inChain = (status = "PENDING_APPROVAL")]
<1>2. /\ Len(steps) \in Nat /\ round \in Nat /\ Exists
      /\ Len(steps) = Levels + 2
  BY <1>1, RolePlace DEF Begin, Structure, TypeOK, IsCurrent
<1>3. q \in Request /\ q.write = "board" /\ q.at = Len(steps) /\ q.seen = Len(steps)
      /\ q.round = round
  BY <1>2, IdleType DEF Idle, Request, Writes
<1>4. /\ UNCHANGED <<steps, history>> /\ (Exists' <=> Exists)
      /\ req'[r] = q /\ \A o \in Requests \ {r} : req'[o] = req[o]
  BY <1>1, <1>3, BeginType DEF Begin, Exists, Structure
<1>5. Position(r)'
  BY <1>2, <1>3, <1>4, LevelsAssumption DEF Position, history
<1>. QED
  BY <1>4, <1>5, ShapeFrame

LEMMA VoteStructure ==
  ASSUME Structure, TypeOK', NEW r \in Requests, Vote(r)
  PROVE  Structure'
<1>1. PICK m \in Members, i \in DOMAIN steps, d \in {"approved", "rejected"} :
        /\ steps[i].role = "BOARD"
        /\ Begin(r, [Idle EXCEPT !.write = "claim", !.at = i, !.to = {m}, !.decision = d])
  BY DEF Vote
<1> DEFINE q == [Idle EXCEPT !.write = "claim", !.at = i, !.to = {m}, !.decision = d]
<1>2. Len(steps) \in Nat /\ Exists /\ i = Levels + 3 /\ Len(steps) = Levels + 3
  BY <1>1, RolePlace, LevelsAssumption DEF Begin, Structure, TypeOK
<1>3. q \in Request /\ q.write = "claim" /\ q.at = i /\ q.decision = d
  BY <1>2, LevelsAssumption, IdleType DEF Idle, Request, Writes, Decisions
<1>4. /\ UNCHANGED <<steps, history>> /\ (Exists' <=> Exists)
      /\ req'[r] = q /\ \A o \in Requests \ {r} : req'[o] = req[o]
  BY <1>1, <1>3, BeginType DEF Begin, Exists, Structure
<1>5. Position(r)'
  BY <1>2, <1>3, <1>4 DEF Position
<1>. QED
  BY <1>4, <1>5, ShapeFrame

LEMMA ClaimVoteStructure ==
  ASSUME Structure, TypeOK', NEW r \in Requests, ClaimVote(r)
  PROVE  Structure'
<1>1. UNCHANGED <<steps, history>> /\ (Exists' <=> Exists)
  BY DEF ClaimVote, Exists
<1>2. GoTo(r, "decide") \/ End(r)
  BY DEF ClaimVote
<1>3. CASE End(r)
  BY <1>1, <1>3, EndType, QuietStep DEF Idle, Positional, Structure
<1>4. CASE GoTo(r, "decide")
  <2>1. req[r] \in Request /\ "decide" \in Writes
    BY DEF Structure, TypeOK, Writes
  <2>2. /\ req'[r] = [req[r] EXCEPT !.write = "decide"]
        /\ \A o \in Requests \ {r} : req'[o] = req[o]
    BY <1>4, <2>1, GoToType DEF Structure
  <2>3. /\ req'[r].write = "decide" /\ req'[r].at = req[r].at
        /\ req'[r].decision = req[r].decision
    BY <2>1, <2>2 DEF Request
  <2>4. Position(r)'
    BY <1>1, <2>3 DEF Position, Structure, ClaimVote, At
  <2>. QED
    BY <1>1, <2>2, <2>4, ShapeFrame
<1>. QED
  BY <1>2, <1>3, <1>4

LEMMA DecideVoteStructure ==
  ASSUME Structure, TypeOK', NEW r \in Requests, DecideVote(r)
  PROVE  Structure'
<1>1. CASE Claimable(req[r].at)
  <2>1. req[r].decision \in {"approved", "rejected"} /\ req[r].at \in DOMAIN steps
    BY <1>1 DEF DecideVote, At, Position, Structure, Claimable
  <2>2. Exists /\ Exists'
    BY <1>1, <2>1 DEF DecideVote, Structure, Outcome, Exists
  <2>3. Outcome(req[r].decision) \in StepStatuses
    BY <2>1 DEF Outcome, StepStatuses
  <2>4. /\ DOMAIN steps' = DOMAIN steps
        /\ \A j \in DOMAIN steps : steps'[j].role = steps[j].role
    BY <1>1, <2>1, <2>3, DecideLemma DEF DecideVote, Structure, TypeOK
  <2>5. req'[r].write \notin Positional /\ \A o \in Requests \ {r} : req'[o] = req[o]
    BY <1>1, GoToFinish DEF DecideVote, Structure
  <2>6. round <= round' /\ boardRound' = boardRound
    BY DEF DecideVote, history, Structure, TypeOK
  <2>. QED
    BY <2>2, <2>4, <2>5, <2>6, RewriteStep
<1>2. CASE ~Claimable(req[r].at)
  BY <1>2, EndType, QuietStep DEF DecideVote, Exists, history, Idle, Positional, Structure
<1>. QED
  BY <1>1, <1>2

LEMMA CommitResubmitStructure ==
  ASSUME Structure, TypeOK', NEW r \in Requests, CommitResubmit(r)
  PROVE  Structure'
<1>1. Exists /\ Exists' /\ round <= round' /\ boardRound' = boardRound
  BY DEF CommitResubmit, Exists, Structure, TypeOK
<1>2. /\ DOMAIN steps' = DOMAIN steps
      /\ \A j \in DOMAIN steps : steps'[j].role = steps[j].role
  BY ClearLemma DEF CommitResubmit, Structure, TypeOK
<1>3. req'[r].write \notin Positional /\ \A o \in Requests \ {r} : req'[o] = req[o]
  BY EndType DEF CommitResubmit, Structure, Idle, Positional
<1>. QED
  BY <1>1, <1>2, <1>3, RewriteStep

(* Every step keeps the chain's shape, in turn or not. *)
LEMMA StructureStep ==
  ASSUME Structure, [Next]_vars
  PROVE  Structure'
<1>1. TypeOK'
  BY TypeStep DEF Structure
<1>2. ASSUME NEW r \in Requests, Analysis(r)
      PROVE  Structure'
  <2>1. CASE SaveJobAnalysis(r) \/ ReturnJobAnalysisToRaiser(r) \/ ResendForJobAnalysis(r)
    <3>1. PICK w \in {"submit", "return", "resend"} : Begin(r, [Idle EXCEPT !.write = w])
      BY <2>1 DEF SaveJobAnalysis, ReturnJobAnalysisToRaiser, ResendForJobAnalysis
    <3>2. [Idle EXCEPT !.write = w] \in Request /\ [Idle EXCEPT !.write = w].write = w
      BY DEF Idle, Request, Writes, Decisions
    <3>. QED
      BY <1>1, <3>1, <3>2, BeginType, QuietStep DEF Begin, Exists, Positional, Structure
  <2>2. CASE CommitSubmit(r) \/ CommitReturn(r) \/ CommitResend(r)
    BY <1>1, <2>2, EndType, QuietStep
       DEF CommitSubmit, CommitReturn, CommitResend, Exists, Idle, Positional, Structure
  <2>. QED
    BY <1>2, <2>1, <2>2 DEF Analysis
<1>3. ASSUME NEW r \in Requests, SignOff(r)
      PROVE  Structure'
  BY <1>1, <1>3, ActStructure, CommitActStructure, ResubmitStructure, CommitResubmitStructure
     DEF SignOff
<1>4. ASSUME NEW r \in Requests, Board(r)
      PROVE  Structure'
  <2>1. CASE CreateVote(r)
    <3>1. req[r] \in Request /\ req[r].write = "mail"
      BY <2>1 DEF CreateVote, At, Structure, TypeOK
    <3>2. /\ req'[r].write \in {"mail", "finish"}
          /\ \A o \in Requests \ {r} : req'[o] = req[o]
      BY <2>1, <3>1 DEF CreateVote, Structure, TypeOK, Request
    <3>. QED
      BY <1>1, <2>1, <3>2, QuietStep DEF CreateVote, Exists, Positional
  <2>. QED
    BY <1>1, <1>4, <2>1, SendToBoardStructure, CommitBoardStructure, VoteStructure,
       ClaimVoteStructure, DecideVoteStructure DEF Board
<1>5. ASSUME NEW r \in Requests, AfterApproval(r)
      PROVE  Structure'
  <2>1. CASE FinishDecision(r)
    <3>1. req'[r].write \notin Positional /\ \A o \in Requests \ {r} : req'[o] = req[o]
      BY <2>1, EndType, GoToFinish DEF FinishDecision, Idle, Positional, Structure
    <3>. QED
      BY <1>1, <2>1, <3>1, QuietStep DEF FinishDecision, Exists
  <2>2. CASE GenerateRoleProfile(r) \/ UpdateRoleProfile(r) \/ Post(r)
    <3>1. PICK w \in {"profile", "post"} : Begin(r, [Idle EXCEPT !.write = w])
      BY <2>2 DEF GenerateRoleProfile, UpdateRoleProfile, Post
    <3>2. [Idle EXCEPT !.write = w] \in Request /\ [Idle EXCEPT !.write = w].write = w
      BY DEF Idle, Request, Writes, Decisions
    <3>. QED
      BY <1>1, <3>1, <3>2, BeginType, QuietStep DEF Begin, Exists, Positional, Structure
  <2>3. CASE CommitProfile(r) \/ CommitPost(r)
    BY <1>1, <2>3, EndType, QuietStep
       DEF CommitProfile, CommitPost, Exists, history, Idle, Positional, Structure
  <2>. QED
    BY <1>5, <2>1, <2>2, <2>3 DEF AfterApproval
<1>6. ASSUME NEW r \in Requests, Fail(r)
      PROVE  Structure'
  BY <1>1, <1>6, EndType, QuietStep DEF Fail, Exists, Idle, Positional, Structure
<1>7. CASE HardDelete
  <2>1. Grows
    BY <1>7 DEF HardDelete, Grows, history, Structure, TypeOK, Exists
  <2>2. \A o \in Requests : Position(o)'
    BY <1>1, <1>7, <2>1, PositionFrame DEF HardDelete, Structure
  <2>. QED
    BY <1>1, <1>7, <2>2 DEF HardDelete, Structure, ChainShape, Exists, history
<1>8. ASSUME UNCHANGED <<status, steps, req, history>>
      PROVE  Structure'
  BY <1>1, <1>8 DEF Structure, ChainShape, Position, Exists, history
<1>. QED
  BY <1>2, <1>3, <1>4, <1>5, <1>6, <1>7, <1>8 DEF Next, ExpireToken, vars, history

(* The chain of every requisition has its shape at all times: no interleaving
   of two approvers, of the CHRO and a super user, or of an approver and a
   resubmission appends a second CHRO or Board step. *)
THEOREM ShapeTheorem == Spec => [](TypeOK /\ ChainShape)
<1>1. Structure /\ [Next]_vars => Structure'
  BY StructureStep
<1>2. Structure => TypeOK /\ ChainShape
  BY DEF Structure
<1>. QED
  BY <1>1, <1>2, StructureInit, PTL DEF Spec

-----------------------------------------------------------------------------
(* What the chain says while every write is in turn *)

Earlier(i) == \A j \in 1..(i - 1) : steps[j].st = "APPROVED"

(* What a request in flight may still rely on. *)
Reliable(r) ==
  LET q == req[r] IN
    /\ q.write \in {"act", "board"} /\ Timely(r) =>
         /\ status # "PENDING_JOB_ANALYSIS"
         /\ Claimable(q.at) => Len(steps) = q.seen /\ Earlier(q.at)
    /\ q.write = "resubmit" /\ q.round = round => status = "PENDING_APPROVAL" /\ Parked
    /\ q.write = "profile" => status \in Approved
    /\ q.write = "post" => status \in {"PROFILE_GENERATED", "POSTED"}

(* The Board was asked in this round, so the whole chain before it is signed. *)
BoardAsked ==
  Len(steps) = Levels + 3 /\ boardRound = round => Earlier(Levels + 3)

Core ==
  /\ StatusAgrees
  /\ InOrder
  /\ BoardAsked
  /\ \A r \in Requests : Reliable(r)

Truth == inTurn /\ Exists => Core

(* The writes a handler makes on the strength of what it read. *)
Relying == {"act", "board", "resubmit", "profile", "post"}

LEMMA CoreFrame ==
  ASSUME Core, inTurn' = inTurn, UNCHANGED <<status, steps, history>>,
         NEW r \in Requests, Reliable(r)',
         \A o \in Requests \ {r} : req'[o] = req[o]
  PROVE  Core'
<1>1. StatusAgrees' /\ InOrder' /\ BoardAsked'
  BY DEF Core, StatusAgrees, InOrder, BoardAsked, Earlier, AllSteps, SomeStep, history
<1>2. ASSUME NEW o \in Requests
      PROVE  Reliable(o)'
  <2>1. CASE o = r
    BY <2>1
  <2>2. CASE o # r
    BY <2>2 DEF Core, Reliable, Timely, Claimable, Earlier, Parked, history
  <2>. QED
    BY <2>1, <2>2
<1>. QED
  BY <1>1, <1>2 DEF Core

LEMMA EndQuiet ==
  ASSUME Structure, NEW r \in Requests, End(r)
  PROVE  req'[r].write \notin Relying /\ \A o \in Requests \ {r} : req'[o] = req[o]
BY EndType DEF Idle, Relying, Structure

LEMMA CreateVoteQuiet ==
  ASSUME Structure, NEW r \in Requests, CreateVote(r)
  PROVE  req'[r].write \notin Relying /\ \A o \in Requests \ {r} : req'[o] = req[o]
<1>1. req[r] \in Request /\ req[r].write = "mail" /\ req \in [Requests -> Request]
  BY DEF CreateVote, At, Structure, TypeOK
<1>2. PICK m : req' = [req EXCEPT ![r].to = @ \ {m},
                 ![r].write = IF @ = "mail" /\ req[r].to = {m} THEN "finish" ELSE @]
  BY DEF CreateVote
<1>3. /\ req'[r].write \in {"mail", "finish"}
      /\ \A o \in Requests \ {r} : req'[o] = req[o]
  BY <1>1, <1>2 DEF Request
<1>. QED
  BY <1>3 DEF Relying

(* A step of r that leaves status and chain alone, and after which it means to
   write nothing that relies on them. *)
LEMMA CoreQuiet ==
  ASSUME Core, inTurn' = inTurn, UNCHANGED <<status, steps, history>>,
         NEW r \in Requests, req'[r].write \notin Relying,
         \A o \in Requests \ {r} : req'[o] = req[o]
  PROVE  Core'
BY CoreFrame DEF Reliable, Relying

(* While an open step has every earlier step signed, the requisition is in its
   chain, the later steps are open, and nobody who can still be on time has
   read anything else. *)
LEMMA OpenStep ==
  ASSUME Structure, Core, inTurn, Exists, status # "PENDING_JOB_ANALYSIS",
         NEW i \in DOMAIN steps, steps[i].st = "PENDING", Earlier(i)
  PROVE  /\ status = "PENDING_APPROVAL"
         /\ \A j \in DOMAIN steps : j > i => steps[j].st = "PENDING"
         /\ ~Parked /\ ~SomeStep("REJECTED")
         /\ \A o \in Requests :
              /\ req[o].write \notin {"profile", "post"}
              /\ req[o].write = "resubmit" => req[o].round # round
              /\ req[o].write \in {"act", "board"} /\ Timely(o) /\ Claimable(req[o].at)
                   => req[o].at = i
<1>1. DOMAIN steps = 1..Len(steps) /\ Len(steps) \in Nat
  BY DEF Structure, TypeOK
<1>2. \A j \in DOMAIN steps : j > i => steps[j].st = "PENDING"
  BY <1>1 DEF Core, InOrder
<1>3. \A j \in DOMAIN steps : steps[j].st \in {"PENDING", "APPROVED"}
  BY <1>1, <1>2 DEF Earlier
<1>4. ~Parked /\ ~SomeStep("REJECTED")
  BY <1>3 DEF Parked, SomeStep
<1>5. status = "PENDING_APPROVAL"
  BY <1>4 DEF Core, StatusAgrees, AllSteps, Approved, Exists, Structure, TypeOK, Statuses
<1>6. ASSUME NEW o \in Requests
      PROVE  /\ req[o].write \notin {"profile", "post"}
             /\ req[o].write = "resubmit" => req[o].round # round
  BY <1>4, <1>5 DEF Core, Reliable, Approved
<1>7. ASSUME NEW o \in Requests, req[o].write \in {"act", "board"}, Timely(o),
             Claimable(req[o].at)
      PROVE  req[o].at = i
  <2>1. Earlier(req[o].at)
    BY <1>7 DEF Core, Reliable
  <2>2. req[o].at \in DOMAIN steps /\ steps[req[o].at].st = "PENDING"
    BY <1>7 DEF Claimable
  <2>3. ~(req[o].at < i) /\ ~(i < req[o].at)
    BY <1>1, <2>1, <2>2 DEF Earlier
  <2>. QED
    BY <1>1, <2>2, <2>3
<1>. QED
  BY <1>2, <1>4, <1>5, <1>6, <1>7

(* What a decision that leaves step i in st does to the chain: it may append an
   open step behind an approved last one, and the status follows the outcome. *)
Decides(i, st) == \A j \in DOMAIN steps : steps'[j].st = IF j = i THEN st ELSE steps[j].st

Appends(i, st) ==
  \/ Len(steps') = Len(steps) /\ boardRound' = boardRound
  \/ /\ Len(steps') = Len(steps) + 1
     /\ i = Len(steps) /\ st = "APPROVED"
     /\ steps'[Len(steps) + 1].st = "PENDING"

StatusFollows(i, st) ==
  \/ st = "REJECTED" /\ status' = "REJECTED"
  \/ st = "APPROVED" /\ i = Len(steps') /\ status' = "APPROVED"
  \/ st = "APPROVED" /\ i # Len(steps') /\ status' = status
  \/ st = "INFO_REQUESTED" /\ status' = status

(* The chain after such a decision. *)
LEMMA DecidedChain ==
  ASSUME Structure, Structure', Exists,
         NEW i \in DOMAIN steps, NEW st, Decides(i, st), Appends(i, st), Earlier(i),
         \A j \in DOMAIN steps : j > i => steps[j].st = "PENDING"
  PROVE  /\ i \in 1..Len(steps) /\ i \in 1..Len(steps')
         /\ Len(steps) \in Nat /\ Len(steps') \in Nat
         /\ DOMAIN steps = 1..Len(steps) /\ 1..Len(steps') = DOMAIN steps'
         /\ \A j \in 1..Len(steps') :
              /\ j < i => steps'[j].st = "APPROVED"
              /\ j = i => steps'[j].st = st
              /\ j > i => steps'[j].st = "PENDING"
<1>1. /\ DOMAIN steps = 1..Len(steps) /\ Len(steps) \in Nat
      /\ 1..Len(steps') = DOMAIN steps' /\ Len(steps') \in Nat
  BY DEF Structure, TypeOK
<1>2. Len(steps') = Len(steps) \/ Len(steps') = Len(steps) + 1
  BY DEF Appends
<1>3. i \in 1..Len(steps) /\ i \in 1..Len(steps')
  BY <1>1, <1>2
<1>4. ASSUME NEW j \in 1..Len(steps')
      PROVE  /\ j < i => steps'[j].st = "APPROVED"
             /\ j = i => steps'[j].st = st
             /\ j > i => steps'[j].st = "PENDING"
  <2>1. CASE j \in 1..Len(steps)
    <3>1. j \in DOMAIN steps /\ steps'[j].st = IF j = i THEN st ELSE steps[j].st
      BY <1>1, <2>1 DEF Decides
    <3>2. j < i => steps[j].st = "APPROVED"
      BY <1>3, <2>1 DEF Earlier
    <3>. QED
      BY <1>3, <2>1, <3>1, <3>2
  <2>2. CASE j \notin 1..Len(steps)
    <3>1. j = Len(steps) + 1 /\ Len(steps') # Len(steps)
      BY <1>1, <1>2, <2>2
    <3>2. steps'[j].st = "PENDING"
      BY <1>1, <3>1 DEF Appends
    <3>. QED
      BY <1>1, <1>3, <3>1, <3>2
  <2>. QED
    BY <2>1, <2>2
<1>. QED
  BY <1>1, <1>3, <1>4

(* A decision on a step with every earlier step signed, alone or together with
   the step it appends, keeps status and chain telling the same story. *)
LEMMA DecideCore ==
  ASSUME Structure, Structure', Core, inTurn, Exists, status # "PENDING_JOB_ANALYSIS",
         NEW i \in DOMAIN steps, steps[i].st = "PENDING", Earlier(i),
         NEW st, st # "PENDING",
         Decides(i, st), Appends(i, st), StatusFollows(i, st), round' = round,
         NEW r \in Requests, req'[r].write \notin Relying,
         \A o \in Requests \ {r} : req'[o] = req[o]
  PROVE  Core'
<1>1. /\ status = "PENDING_APPROVAL"
      /\ \A j \in DOMAIN steps : j > i => steps[j].st = "PENDING"
  BY OpenStep
<1>2. /\ i \in 1..Len(steps) /\ i \in 1..Len(steps')
      /\ Len(steps) \in Nat /\ Len(steps') \in Nat
      /\ DOMAIN steps = 1..Len(steps) /\ 1..Len(steps') = DOMAIN steps'
      /\ \A j \in 1..Len(steps') :
           /\ j < i => steps'[j].st = "APPROVED"
           /\ j = i => steps'[j].st = st
           /\ j > i => steps'[j].st = "PENDING"
  BY <1>1, DecidedChain
<1>a. i \in Nat /\ i <= Len(steps) /\ i <= Len(steps') /\ Len(steps) \in Nat /\ Len(steps') \in Nat
  BY <1>2
<1>b. \A j \in 1..Len(steps') :
        /\ j < i => steps'[j].st = "APPROVED"
        /\ j = i => steps'[j].st = st
  BY <1>2
<1>3. \A k \in 1..Len(steps') : k < i \/ k = i \/ k > i
  BY <1>2
<1>4. InOrder'
  BY <1>2, <1>3 DEF InOrder
<1>5. StatusAgrees'
  <2>1. CASE st = "REJECTED" /\ status' = "REJECTED"
    <3>1. steps'[i].st = "REJECTED" /\ i \in DOMAIN steps'
      BY <1>2, <2>1
    <3>. QED
      BY <2>1, <3>1 DEF StatusAgrees, SomeStep, Approved
  <2>2. CASE st = "APPROVED" /\ i = Len(steps') /\ status' = "APPROVED"
    <3>1. \A j \in DOMAIN steps' : steps'[j].st = "APPROVED"
      BY <1>2, <2>2
    <3>. QED
      BY <2>2, <3>1 DEF StatusAgrees, AllSteps
  <2>3. CASE /\ status' = status
             /\ \/ st = "APPROVED" /\ i # Len(steps')
                \/ st = "INFO_REQUESTED"
    <3>1. \A j \in DOMAIN steps' : steps'[j].st # "REJECTED"
      BY <1>2, <1>3, <2>3
    <3>2. i + 1 \in DOMAIN steps' \/ st = "INFO_REQUESTED"
      BY <1>2, <2>3
    <3>3. i + 1 \in DOMAIN steps' => steps'[i + 1].st = "PENDING"
      BY <1>2
    <3>4. i \in DOMAIN steps' /\ steps'[i].st = st
      BY <1>2
    <3>. QED
      BY <1>1, <2>3, <3>1, <3>2, <3>3, <3>4 DEF StatusAgrees, SomeStep, Approved
  <2>. QED
    BY <2>1, <2>2, <2>3 DEF StatusFollows
<1>6. BoardAsked'
  <2>. SUFFICES ASSUME Len(steps') = Levels + 3, boardRound' = round'
                PROVE  \A j \in 1..(Levels + 2) : steps'[j].st = "APPROVED"
    <3>1. (Levels + 3) - 1 = Levels + 2
      BY LevelsAssumption
    <3>. QED
      BY <3>1 DEF BoardAsked, Earlier
  <2>1. i >= Levels + 2 /\ (i = Levels + 2 => st = "APPROVED")
    <3>1. CASE Len(steps') = Len(steps) /\ boardRound' = boardRound
      <4>1. Earlier(Levels + 3)
        BY <3>1 DEF Core, BoardAsked
      <4>2. ~(i \in 1..((Levels + 3) - 1))
        BY <4>1 DEF Earlier
      <4>3. i >= 1
        BY <1>2
      <4>. QED
        BY <1>a, <4>2, <4>3, LevelsAssumption
    <3>2. CASE Len(steps') = Len(steps) + 1 /\ i = Len(steps) /\ st = "APPROVED"
      BY <1>a, <3>2, LevelsAssumption
    <3>. QED
      BY <3>1, <3>2 DEF Appends
  <2>2. TAKE j \in 1..(Levels + 2)
  <2>3. j \in 1..Len(steps') /\ (j < i \/ (j = i /\ i = Levels + 2))
    BY <1>a, <2>1, LevelsAssumption
  <2>. QED
    BY <1>b, <2>1, <2>3
<1>7. ASSUME NEW o \in Requests
      PROVE  Reliable(o)'
  <2>1. CASE o = r
    BY <2>1 DEF Reliable, Relying
  <2>2. CASE o # r
    <3>1. /\ req'[o] = req[o]
          /\ req[o].write \notin {"profile", "post"}
          /\ req[o].write = "resubmit" => req[o].round # round
      BY <2>2, OpenStep
    <3>2. ASSUME req[o].write \in {"act", "board"}, Timely(o)
          PROVE  status' # "PENDING_JOB_ANALYSIS" /\ ~Claimable(req[o].at)'
      <4>1. req[o].at \in 1..req[o].seen /\ req[o].seen <= Len(steps) /\ req[o].seen \in Nat
        BY <3>2 DEF Structure, Position, TypeOK, Request
      <4>2. req[o].at \in DOMAIN steps
        BY <1>2, <4>1
      <4>3. steps[req[o].at].st = "PENDING" => req[o].at = i
        BY <3>2, <4>2, OpenStep DEF Claimable
      <4>4. steps'[req[o].at].st # "PENDING"
        BY <4>2, <4>3 DEF Decides
      <4>. QED
        BY <1>1, <3>1, <4>4 DEF Claimable, StatusFollows
    <3>. QED
      BY <3>1, <3>2 DEF Reliable, Timely
  <2>. QED
    BY <2>1, <2>2
<1>. QED
  BY <1>4, <1>5, <1>6, <1>7 DEF Core

LEMMA CommitActCore ==
  ASSUME Structure, Structure', Core, inTurn, inTurn', Exists, NEW r \in Requests, CommitAct(r)
  PROVE  Core'
<1> DEFINE i == req[r].at
           d == req[r].decision
           st == Outcome(d)
<1>1. i \in DOMAIN steps /\ steps[i].st = "PENDING" /\ d \in Decisions /\ Timely(r)
  BY DEF CommitAct, Claimable, Structure, TypeOK, Request, Stays
<1>2. status # "PENDING_JOB_ANALYSIS" /\ Earlier(i) /\ Len(steps) = req[r].seen
  BY <1>1 DEF CommitAct, Core, Reliable, At
<1>3. req'[r].write \notin Relying /\ \A o \in Requests \ {r} : req'[o] = req[o]
  <2>1. GoTo(r, "finish") /\ "finish" \in Writes
    BY DEF CommitAct, Writes
  <2>2. req'[r] = [req[r] EXCEPT !.write = "finish"] /\ \A o \in Requests \ {r} : req'[o] = req[o]
    BY <2>1, GoToType DEF Structure
  <2>3. req[r] \in Request
    BY DEF Structure, TypeOK
  <2>4. req'[r].write = "finish"
    BY <2>2, <2>3 DEF Request
  <2>. QED
    BY <2>2, <2>4 DEF Relying
<1>4. st \in {"APPROVED", "REJECTED", "INFO_REQUESTED"} /\ st \in StepStatuses
  BY <1>1 DEF Outcome, StepStatuses
<1>5. round' = round /\ boardRound' = boardRound
  BY DEF CommitAct, history
<1>6. CASE d = "escalate"
  <2>1. i = Levels + 1 /\ Len(steps) = i
    BY <1>2, <1>6 DEF CommitAct, At, Structure, Position
  <2>2. /\ Len(steps') = Len(steps) + 1
        /\ \A j \in DOMAIN steps : steps'[j].st = IF j = i THEN "APPROVED" ELSE steps[j].st
        /\ steps'[i + 1].st = "PENDING"
    BY <1>1, <1>6, <2>1, AppendShape DEF CommitAct, Structure
  <2>3. status' = status
    BY <1>6 DEF CommitAct
  <2>4. i # Len(steps')
    BY <2>1, <2>2, LevelsAssumption
  <2>5. Decides(i, "APPROVED") /\ Appends(i, "APPROVED") /\ StatusFollows(i, "APPROVED")
    BY <2>1, <2>2, <2>3, <2>4 DEF Decides, Appends, StatusFollows
  <2>. QED
    BY <1>1, <1>2, <1>3, <1>5, <2>5, DecideCore
<1>7. CASE d # "escalate"
  <2>1. steps' = Decide(i, st)
    BY <1>7 DEF CommitAct
  <2>2. /\ Len(steps') = Len(steps)
        /\ \A j \in DOMAIN steps : steps'[j].st = IF j = i THEN st ELSE steps[j].st
    BY <1>1, <1>4, <2>1, DecideLemma DEF Structure, TypeOK
  <2>3. \/ st = "REJECTED" /\ status' = "REJECTED"
        \/ st = "APPROVED" /\ i = Len(steps') /\ status' = "APPROVED"
        \/ st = "APPROVED" /\ i # Len(steps') /\ status' = status
        \/ st = "INFO_REQUESTED" /\ status' = status
    BY <1>1, <1>2, <1>7, <2>2 DEF CommitAct, Outcome, Decisions
  <2>4. Decides(i, st) /\ Appends(i, st) /\ StatusFollows(i, st)
    BY <1>5, <2>2, <2>3 DEF Decides, Appends, StatusFollows
  <2>. QED
    BY <1>1, <1>2, <1>3, <1>4, <1>5, <2>4, DecideCore
<1>. QED
  BY <1>6, <1>7

LEMMA CommitBoardCore ==
  ASSUME Structure, Structure', Core, inTurn, inTurn', Exists, NEW r \in Requests, CommitBoard(r)
  PROVE  Core'
<1> DEFINE i == req[r].at
<1>1. i \in DOMAIN steps /\ steps[i].st = "PENDING" /\ Timely(r)
  BY DEF CommitBoard, Claimable, Stays
<1>2. /\ status # "PENDING_JOB_ANALYSIS" /\ Earlier(i)
      /\ Len(steps) = i /\ i = Levels + 2
  BY <1>1 DEF CommitBoard, Core, Reliable, At, Structure, Position
<1>3. req'[r].write \notin Relying /\ \A o \in Requests \ {r} : req'[o] = req[o]
  <2>1. GoTo(r, "mail") /\ "mail" \in Writes
    BY DEF CommitBoard, Writes
  <2>2. req'[r] = [req[r] EXCEPT !.write = "mail"] /\ \A o \in Requests \ {r} : req'[o] = req[o]
    BY <2>1, GoToType DEF Structure
  <2>3. req[r] \in Request
    BY DEF Structure, TypeOK
  <2>4. req'[r].write = "mail"
    BY <2>2, <2>3 DEF Request
  <2>. QED
    BY <2>2, <2>4 DEF Relying
<1>4. /\ Len(steps') = Len(steps) + 1
      /\ \A j \in DOMAIN steps : steps'[j].st = IF j = i THEN "APPROVED" ELSE steps[j].st
      /\ steps'[i + 1].st = "PENDING"
  BY <1>1, <1>2, AppendShape DEF CommitBoard, Structure
<1>5. i # Len(steps')
  BY <1>2, <1>4, LevelsAssumption
<1>6. status' = status /\ round' = round
  BY DEF CommitBoard
<1>7. Decides(i, "APPROVED") /\ Appends(i, "APPROVED") /\ StatusFollows(i, "APPROVED")
  BY <1>2, <1>4, <1>5, <1>6 DEF Decides, Appends, StatusFollows
<1>. QED
  BY <1>1, <1>2, <1>3, <1>6, <1>7, DecideCore

(* A Board answer given in the round the Board was asked in finds the whole
   chain before it signed. *)
LEMMA DecideVoteCore ==
  ASSUME Structure, Structure', Core, inTurn, inTurn', Exists, NEW r \in Requests, DecideVote(r)
  PROVE  Core'
<1> DEFINE i == req[r].at
           st == Outcome(req[r].decision)
<1>1. CASE Claimable(i)
  <2>1. /\ i \in DOMAIN steps /\ steps[i].st = "PENDING" /\ round = boardRound
        /\ steps' = Decide(i, st) /\ status' = st /\ GoTo(r, "finish")
    BY <1>1 DEF DecideVote, Claimable, Stays
  <2>2. i = Levels + 3 /\ Len(steps) = Levels + 3 /\ req[r].decision \in {"approved", "rejected"}
    BY <1>1 DEF DecideVote, At, Structure, Position
  <2>3. Earlier(i)
    BY <2>1, <2>2 DEF Core, BoardAsked
  <2>4. status # "PENDING_JOB_ANALYSIS"
    <3>1. 1 \in 1..(i - 1) /\ 1 \in DOMAIN steps
      BY <2>2, LevelsAssumption DEF Structure, TypeOK
    <3>2. steps[1].st = "APPROVED"
      BY <2>3, <3>1 DEF Earlier
    <3>. QED
      BY <3>1, <3>2 DEF Core, StatusAgrees, AllSteps
  <2>5. st \in StepStatuses /\ st # "PENDING" /\ st \in {"APPROVED", "REJECTED"}
    BY <2>2 DEF Outcome, StepStatuses
  <2>6. /\ Len(steps') = Len(steps)
        /\ \A j \in DOMAIN steps : steps'[j].st = IF j = i THEN st ELSE steps[j].st
    BY <2>1, <2>5, DecideLemma DEF Structure, TypeOK
  <2>7. round' = round /\ boardRound' = boardRound
    BY DEF DecideVote, history
  <2>8. Decides(i, st) /\ Appends(i, st) /\ StatusFollows(i, st)
    BY <2>1, <2>2, <2>5, <2>6, <2>7 DEF Decides, Appends, StatusFollows
  <2>9. req'[r].write \notin Relying /\ \A o \in Requests \ {r} : req'[o] = req[o]
    <3>1. "finish" \in Writes /\ req[r] \in Request
      BY DEF Writes, Structure, TypeOK
    <3>2. req'[r] = [req[r] EXCEPT !.write = "finish"]
          /\ \A o \in Requests \ {r} : req'[o] = req[o]
      BY <2>1, <3>1, GoToType DEF Structure
    <3>3. req'[r].write = "finish"
      BY <3>1, <3>2 DEF Request
    <3>. QED
      BY <3>2, <3>3 DEF Relying
  <2>. QED
    BY <2>1, <2>3, <2>4, <2>5, <2>7, <2>8, <2>9, DecideCore
<1>2. CASE ~Claimable(i)
  <2>1. UNCHANGED <<status, steps, history>> /\ End(r)
    BY <1>2 DEF DecideVote
  <2>. QED
    BY <2>1, EndType, CoreQuiet DEF Idle, Relying, Structure
<1>. QED
  BY <1>1, <1>2

LEMMA ActCore ==
  ASSUME Structure, Core, inTurn' = inTurn, inTurn, Exists, NEW r \in Requests,
         NEW i, IsCurrent(i), ~Parked, NEW q \in Request, Begin(r, q),
         q.write \in {"act", "board"}, q.at = i, q.seen = Len(steps),
         q.inChain = (status = "PENDING_APPROVAL")
  PROVE  Core'
<1>1. /\ UNCHANGED <<status, steps, history>>
      /\ req'[r] = q /\ \A o \in Requests \ {r} : req'[o] = req[o]
  BY BeginType DEF Begin, Structure
<1>2. DOMAIN steps = 1..Len(steps) /\ Len(steps) \in Nat /\ i \in 1..Len(steps)
      /\ \A j \in DOMAIN steps : steps[j] \in Step
  BY DEF Structure, TypeOK, IsCurrent
<1>3. ASSUME status = "PENDING_APPROVAL"
      PROVE  Earlier(i)
  <2>1. SUFFICES ASSUME NEW j \in 1..(i - 1)
                 PROVE  steps[j].st = "APPROVED"
    BY DEF Earlier
  <2>2. j \in DOMAIN steps
    BY <1>2
  <2>3. steps[j].st \in StepStatuses
    BY <1>2, <2>2 DEF Step
  <2>4. steps[j].st # "PENDING"
    BY DEF IsCurrent
  <2>5. steps[j].st # "REJECTED" /\ steps[j].st # "INFO_REQUESTED"
    BY <1>3, <2>2 DEF Core, StatusAgrees, SomeStep, Parked
  <2>. QED
    BY <2>3, <2>4, <2>5 DEF StepStatuses
<1>4. Reliable(r)'
  BY <1>1, <1>3 DEF Reliable, Timely, Earlier, Claimable, history
<1>. QED
  BY <1>1, <1>4, CoreFrame

(* A resubmission reopens the whole chain; whoever read it before is late. *)
LEMMA CommitResubmitCore ==
  ASSUME Structure, Core, inTurn, inTurn', Exists, NEW r \in Requests, CommitResubmit(r)
  PROVE  Core'
<1>1. status = "PENDING_APPROVAL" /\ status' = status
  BY DEF CommitResubmit, Core, Reliable, At, Stays
<1>2. /\ Len(steps') = Len(steps) /\ DOMAIN steps' = DOMAIN steps
      /\ \A j \in DOMAIN steps : steps'[j].st = "PENDING"
  BY ClearLemma DEF CommitResubmit, Structure, TypeOK
<1>3. 1 \in DOMAIN steps
  BY LevelsAssumption DEF Structure, TypeOK, ChainShape
<1>4. StatusAgrees' /\ InOrder'
  BY <1>1, <1>2, <1>3 DEF StatusAgrees, InOrder, SomeStep, Approved
<1>5. round' = round + 1 /\ round \in Nat /\ boardRound' = boardRound /\ boardRound \in Nat
      /\ boardRound <= round
  BY DEF CommitResubmit, Structure, TypeOK
<1>6. BoardAsked'
  BY <1>5 DEF BoardAsked
<1>7. ASSUME NEW o \in Requests
      PROVE  Reliable(o)'
  <2>1. CASE o = r
    <3>1. req'[r] = Idle
      BY EndType DEF CommitResubmit, Structure
    <3>. QED
      BY <2>1, <3>1 DEF Reliable, Idle
  <2>2. CASE o # r
    <3>1. req'[o] = req[o] /\ req[o] \in Request
      BY <2>2, EndType DEF CommitResubmit, Structure, TypeOK
    <3>2. req[o].write \in {"act", "board", "resubmit"} => req[o].round # round'
      BY <1>5, <3>1 DEF Structure, Position, Request
    <3>3. req[o].write \notin {"profile", "post"}
      BY <1>1 DEF Core, Reliable, Approved
    <3>. QED
      BY <3>1, <3>2, <3>3 DEF Reliable, Timely
  <2>. QED
    BY <2>1, <2>2
<1>. QED
  BY <1>4, <1>6, <1>7 DEF Core

(* The first submission of the job analysis finds the whole chain still open,
   and nobody who decided on it in time. *)
LEMMA CommitSubmitCore ==
  ASSUME Structure, Core, inTurn, inTurn', Exists, NEW r \in Requests, CommitSubmit(r)
  PROVE  Core'
<1>1. status = "PENDING_JOB_ANALYSIS" /\ status' = "PENDING_APPROVAL"
  BY DEF CommitSubmit, Stays
<1>2. UNCHANGED <<steps, history>>
  BY DEF CommitSubmit
<1>3. AllSteps("PENDING")
  BY <1>1 DEF Core, StatusAgrees
<1>4. 1 \in DOMAIN steps
  BY LevelsAssumption DEF Structure, TypeOK, ChainShape
<1>5. StatusAgrees' /\ InOrder' /\ BoardAsked'
  BY <1>1, <1>2, <1>3, <1>4
     DEF StatusAgrees, InOrder, SomeStep, AllSteps, Approved, Core, BoardAsked, Earlier, history
<1>6. ASSUME NEW o \in Requests
      PROVE  Reliable(o)'
  <2>1. CASE o = r
    <3>1. req'[r] = Idle
      BY EndType DEF CommitSubmit, Structure
    <3>. QED
      BY <2>1, <3>1 DEF Reliable, Idle
  <2>2. CASE o # r
    <3>1. req'[o] = req[o]
      BY <2>2, EndType DEF CommitSubmit, Structure
    <3>2. /\ req[o].write \notin {"profile", "post"}
          /\ req[o].write = "resubmit" => req[o].round # round
          /\ req[o].write \in {"act", "board"} => ~Timely(o)
      BY <1>1 DEF Core, Reliable, Approved
    <3>. QED
      BY <1>2, <3>1, <3>2 DEF Reliable, Timely, history
  <2>. QED
    BY <2>1, <2>2
<1>. QED
  BY <1>5, <1>6 DEF Core

(* Moving an approved requisition on to its profile or its posting. *)
LEMMA AdvanceCore ==
  ASSUME Core, inTurn, inTurn', Exists, status \in Approved,
         status' = "PROFILE_GENERATED" \/ status' = "POSTED",
         UNCHANGED <<steps, history>>,
         NEW r \in Requests, req'[r].write \notin Relying,
         \A o \in Requests \ {r} : req'[o] = req[o]
  PROVE  Core'
<1>1. AllSteps("APPROVED")
  BY DEF Core, StatusAgrees
<1>2. StatusAgrees' /\ InOrder' /\ BoardAsked'
  BY <1>1 DEF StatusAgrees, InOrder, AllSteps, Core, BoardAsked, Earlier, history
<1>3. ASSUME NEW o \in Requests, o # r
      PROVE  Reliable(o)'
  <2>1. req[o].write = "resubmit" => req[o].round # round
    BY DEF Core, Reliable, Approved
  <2>2. req[o].write \in {"act", "board"} => ~Claimable(req[o].at)'
    BY <1>1 DEF Claimable, AllSteps
  <2>. QED
    BY <1>3, <2>1, <2>2 DEF Reliable, Approved, history
<1>4. Reliable(r)'
  BY DEF Reliable, Relying
<1>. QED
  BY <1>2, <1>3, <1>4 DEF Core

LEMMA TruthStep ==
  ASSUME Structure, Structure', Truth, [Next]_vars
  PROVE  Truth'
<1>. SUFFICES ASSUME inTurn', Exists' PROVE Core'
  BY DEF Truth
<1>1. inTurn /\ Exists
  <2>1. ASSUME NEW r \in Requests,
               Analysis(r) \/ SignOff(r) \/ Board(r) \/ AfterApproval(r) \/ Fail(r)
        PROVE  inTurn /\ Exists
    <3>1. inTurn
      BY <2>1 DEF Analysis, SignOff, Board, AfterApproval, Fail, Stays, Begin,
           SaveJobAnalysis, CommitSubmit, ReturnJobAnalysisToRaiser, CommitReturn,
           ResendForJobAnalysis, CommitResend, Act, CommitAct, Resubmit, CommitResubmit,
           SendToBoard, CommitBoard, CreateVote, Vote, ClaimVote, DecideVote,
           FinishDecision, GenerateRoleProfile, UpdateRoleProfile, CommitProfile,
           Post, CommitPost
    <3>2. CASE ~Exists
      <4>1. steps = << >> /\ \A i : ~Claimable(i)
        BY <3>2 DEF Structure, Claimable
      <4>2. ~CommitAct(r) /\ ~CommitBoard(r)
        BY <4>1 DEF CommitAct, CommitBoard
      <4>3. status' = status
        BY <2>1, <3>2, <4>1, <4>2 DEF Analysis, SignOff, Board, AfterApproval, Fail, Begin,
           SaveJobAnalysis, CommitSubmit, ReturnJobAnalysisToRaiser, CommitReturn,
           ResendForJobAnalysis, CommitResend, Act, Resubmit, CommitResubmit,
           SendToBoard, CreateVote, Vote, ClaimVote, DecideVote,
           FinishDecision, GenerateRoleProfile, UpdateRoleProfile, CommitProfile,
           Post, CommitPost
      <4>. QED
        BY <3>2, <4>3 DEF Exists
    <3>. QED
      BY <3>1, <3>2
  <2>. QED
    BY <2>1 DEF Next, HardDelete, ExpireToken, vars, Exists
<1>2. Core
  BY <1>1 DEF Truth
<1>3. ASSUME NEW r \in Requests, Analysis(r)
      PROVE  Core'
  <2>1. CASE SaveJobAnalysis(r) \/ ReturnJobAnalysisToRaiser(r) \/ ResendForJobAnalysis(r)
    <3>1. PICK w \in {"submit", "return", "resend"} : Begin(r, [Idle EXCEPT !.write = w])
      BY <2>1 DEF SaveJobAnalysis, ReturnJobAnalysisToRaiser, ResendForJobAnalysis
    <3>2. [Idle EXCEPT !.write = w] \in Request /\ [Idle EXCEPT !.write = w].write = w
      BY DEF Idle, Request, Writes, Decisions
    <3>. QED
      BY <1>2, <3>1, <3>2, BeginType, CoreQuiet DEF Begin, Relying, Structure
  <2>2. CASE CommitSubmit(r)
    BY <1>1, <1>2, <2>2, CommitSubmitCore
  <2>3. CASE CommitReturn(r) \/ CommitResend(r)
    BY <1>2, <2>3, EndQuiet, CoreQuiet DEF CommitReturn, CommitResend
  <2>. QED
    BY <1>3, <2>1, <2>2, <2>3 DEF Analysis
<1>4. ASSUME NEW r \in Requests, SignOff(r)
      PROVE  Core'
  <2>1. CASE Act(r)
    <3>1. PICK i \in DOMAIN steps, d \in Decisions :
            /\ IsCurrent(i)
            /\ Begin(r, [Idle EXCEPT !.write = "act", !.at = i, !.seen = Len(steps),
                                  !.round = round, !.decision = d,
                                  !.inChain = (status = "PENDING_APPROVAL")])
      BY <2>1 DEF Act
    <3> DEFINE q == [Idle EXCEPT !.write = "act", !.at = i, !.seen = Len(steps),
                                 !.round = round, !.decision = d,
                                 !.inChain = (status = "PENDING_APPROVAL")]
    <3>2. i \in Nat /\ Len(steps) \in Nat /\ round \in Nat
      BY DEF Structure, TypeOK
    <3>3. q \in Request
      BY <3>2, IdleType DEF Request, Writes
    <3>4. /\ q.write = "act" /\ q.at = i /\ q.seen = Len(steps)
          /\ q.inChain = (status = "PENDING_APPROVAL")
      BY DEF Idle
    <3>. HIDE DEF q
    <3>5. ~Parked /\ inTurn' = inTurn
      BY <2>1, <3>1 DEF Act, Begin
    <3>. QED
      BY <1>1, <1>2, <3>1, <3>3, <3>4, <3>5, ActCore DEF q
  <2>2. CASE CommitAct(r)
    BY <1>1, <1>2, <2>2, CommitActCore
  <2>3. CASE Resubmit(r)
    <3> DEFINE q == [Idle EXCEPT !.write = "resubmit", !.round = round]
    <3>1. q \in Request /\ q.write = "resubmit" /\ q.round = round
      BY IdleType DEF Idle, Request, Writes, Structure, TypeOK
    <3>2. /\ UNCHANGED <<status, steps, history>> /\ inTurn' = inTurn
          /\ req'[r] = q /\ \A o \in Requests \ {r} : req'[o] = req[o]
      BY <2>3, <3>1, BeginType DEF Resubmit, Begin, Structure
    <3>3. Reliable(r)'
      BY <2>3, <3>1, <3>2 DEF Resubmit, Reliable, Parked, history
    <3>. QED
      BY <1>2, <3>2, <3>3, CoreFrame
  <2>4. CASE CommitResubmit(r)
    BY <1>1, <1>2, <2>4, CommitResubmitCore
  <2>. QED
    BY <1>4, <2>1, <2>2, <2>3, <2>4 DEF SignOff
<1>5. ASSUME NEW r \in Requests, Board(r)
      PROVE  Core'
  <2>1. CASE SendToBoard(r)
    <3>1. PICK to \in SUBSET Members :
            /\ IsCurrent(Len(steps))
            /\ Begin(r, [Idle EXCEPT !.write = "board", !.at = Len(steps), !.seen = Len(steps),
                                  !.round = round, !.to = to,
                                  !.inChain = (status = "PENDING_APPROVAL")])
      BY <2>1 DEF SendToBoard
    <3> DEFINE q == [Idle EXCEPT !.write = "board", !.at = Len(steps), !.seen = Len(steps),
                                  !.round = round, !.to = to,
                                  !.inChain = (status = "PENDING_APPROVAL")]
    <3>2. Len(steps) \in Nat /\ round \in Nat
      BY DEF Structure, TypeOK
    <3>3. q \in Request
      BY <3>2, IdleType DEF Request, Writes
    <3>4. /\ q.write = "board" /\ q.at = Len(steps) /\ q.seen = Len(steps)
          /\ q.inChain = (status = "PENDING_APPROVAL")
      BY DEF Idle
    <3>. HIDE DEF q
    <3>5. ~Parked /\ inTurn' = inTurn
      BY <2>1, <3>1 DEF SendToBoard, Begin
    <3>. QED
      BY <1>1, <1>2, <3>1, <3>3, <3>4, <3>5, ActCore DEF q
  <2>2. CASE CommitBoard(r)
    BY <1>1, <1>2, <2>2, CommitBoardCore
  <2>3. CASE CreateVote(r)
    BY <1>2, <2>3, CreateVoteQuiet, CoreQuiet DEF CreateVote
  <2>4. CASE Vote(r)
    <3>1. PICK m \in Members, i \in DOMAIN steps, d \in {"approved", "rejected"} :
            Begin(r, [Idle EXCEPT !.write = "claim", !.at = i, !.to = {m}, !.decision = d])
      BY <2>4 DEF Vote
    <3>2. i \in Nat
      BY DEF Structure, TypeOK
    <3>3. [Idle EXCEPT !.write = "claim", !.at = i, !.to = {m}, !.decision = d] \in Request
      BY <3>2, IdleType DEF Request, Writes, Decisions
    <3>4. req'[r].write = "claim"
      BY ZenonT(60), <3>1, <3>3, BeginType DEF Structure, Idle
    <3>. QED
      BY <1>2, <3>1, <3>3, <3>4, BeginType, CoreQuiet DEF Begin, Relying, Structure
  <2>5. CASE ClaimVote(r)
    <3>1. req'[r].write \notin Relying /\ \A o \in Requests \ {r} : req'[o] = req[o]
      <4>1. CASE End(r)
        BY <4>1, EndType DEF Idle, Relying, Structure
      <4>2. CASE GoTo(r, "decide")
        <5>1. "decide" \in Writes /\ req[r] \in Request
          BY DEF Writes, Structure, TypeOK
        <5>2. req'[r] = [req[r] EXCEPT !.write = "decide"]
              /\ \A o \in Requests \ {r} : req'[o] = req[o]
          BY <4>2, <5>1, GoToType DEF Structure
        <5>3. req'[r].write = "decide"
          BY <5>1, <5>2 DEF Request
        <5>. QED
          BY <5>2, <5>3 DEF Relying
      <4>. QED
        BY <2>5, <4>1, <4>2 DEF ClaimVote
    <3>. QED
      BY <1>2, <2>5, <3>1, CoreQuiet DEF ClaimVote
  <2>6. CASE DecideVote(r)
    BY <1>1, <1>2, <2>6, DecideVoteCore
  <2>. QED
    BY <1>5, <2>1, <2>2, <2>3, <2>4, <2>5, <2>6 DEF Board
<1>6. ASSUME NEW r \in Requests, AfterApproval(r)
      PROVE  Core'
  <2>1. CASE FinishDecision(r)
    <3>1. UNCHANGED <<status, steps, history>> /\ inTurn' = inTurn
      BY <2>1 DEF FinishDecision
    <3>2. CASE End(r)
      BY <1>2, <3>1, <3>2, EndQuiet, CoreQuiet
    <3>3. CASE status = "APPROVED" /\ GoTo(r, "profile")
      <4>1. "profile" \in Writes /\ req[r] \in Request
        BY DEF Writes, Structure, TypeOK
      <4>2. req'[r] = [req[r] EXCEPT !.write = "profile"]
            /\ \A o \in Requests \ {r} : req'[o] = req[o]
        BY <3>3, <4>1, GoToType DEF Structure
      <4>3. req'[r].write = "profile"
        BY <4>1, <4>2 DEF Request
      <4>4. Reliable(r)'
        BY <3>1, <3>3, <4>3 DEF Reliable, Approved
      <4>. QED
        BY <1>2, <3>1, <4>2, <4>4, CoreFrame
    <3>. QED
      BY <2>1, <3>2, <3>3 DEF FinishDecision
  <2>2. CASE GenerateRoleProfile(r) \/ UpdateRoleProfile(r) \/ Post(r)
    <3>1. PICK w \in {"profile", "post"} :
            /\ Begin(r, [Idle EXCEPT !.write = w])
            /\ w = "profile" => status \in Approved
            /\ w = "post" => status \in {"PROFILE_GENERATED", "POSTED"}
      BY <2>2 DEF GenerateRoleProfile, UpdateRoleProfile, Post, Profilable, Approved
    <3>2. [Idle EXCEPT !.write = w] \in Request /\ [Idle EXCEPT !.write = w].write = w
      BY DEF Idle, Request, Writes, Decisions
    <3>3. /\ UNCHANGED <<status, steps, history>> /\ inTurn' = inTurn
          /\ req'[r] = [Idle EXCEPT !.write = w]
          /\ \A o \in Requests \ {r} : req'[o] = req[o]
      BY <3>1, <3>2, BeginType DEF Begin, Structure
    <3>4. Reliable(r)'
      BY <3>1, <3>2, <3>3 DEF Reliable, Approved
    <3>. QED
      BY <1>2, <3>3, <3>4, CoreFrame
  <2>3. CASE CommitProfile(r)
    <3>1. status \in Approved
      BY <1>2, <2>3 DEF CommitProfile, At, Core, Reliable
    <3>. QED
      BY <1>1, <1>2, <2>3, <3>1, EndType, AdvanceCore
         DEF CommitProfile, Idle, Relying, Structure, history
  <2>4. CASE CommitPost(r)
    <3>1. status \in Approved
      BY <1>2, <2>4 DEF CommitPost, At, Core, Reliable, Approved
    <3>. QED
      BY <1>1, <1>2, <2>4, <3>1, EndType, AdvanceCore
         DEF CommitPost, Idle, Relying, Structure, history
  <2>. QED
    BY <1>6, <2>1, <2>2, <2>3, <2>4 DEF AfterApproval
<1>7. ASSUME NEW r \in Requests, Fail(r)
      PROVE  Core'
  BY <1>2, <1>7, EndQuiet, CoreQuiet DEF Fail
<1>8. CASE HardDelete
  BY <1>8 DEF HardDelete, Exists
<1>9. ASSUME UNCHANGED <<status, steps, req, history, inTurn>>
      PROVE  Core'
  BY <1>2, <1>9 DEF Core, StatusAgrees, InOrder, BoardAsked, Earlier, AllSteps, SomeStep,
       Reliable, Timely, Claimable, Parked, history
<1>. QED
  BY <1>3, <1>4, <1>5, <1>6, <1>7, <1>8, <1>9 DEF Next, ExpireToken, vars, history

LEMMA TruthInit == Init => Truth
<1>. SUFFICES ASSUME Init PROVE Core
  BY DEF Truth
<1>1. StatusAgrees /\ InOrder
  BY DEF Init, StatusAgrees, InOrder, AllSteps, Approved
<1>2. Len(steps) = Levels + 1
  BY LevelsAssumption DEF Init
<1>3. BoardAsked
  BY <1>2, LevelsAssumption DEF BoardAsked
<1>4. \A r \in Requests : Reliable(r)
  BY DEF Init, Reliable, Idle
<1>. QED
  BY <1>1, <1>3, <1>4 DEF Core

(* Without an existing requisition both promises hold of the empty chain. *)
LEMMA TruthImplies ==
  ASSUME Structure, Truth
  PROVE  StatusAgrees /\ InOrder
<1>1. CASE inTurn /\ Exists
  BY <1>1 DEF Truth, Core
<1>2. CASE ~inTurn
  BY <1>2 DEF StatusAgrees, InOrder
<1>3. CASE ~Exists
  BY <1>3 DEF Structure, StatusAgrees, InOrder, Exists, Approved
<1>. QED
  BY <1>1, <1>2, <1>3

LEMMA InvariantTheorem == Spec => [](Structure /\ Truth)
<1>1. Init => Structure /\ Truth
  BY StructureInit, TruthInit
<1>2. (Structure /\ Truth) /\ [Next]_vars => (Structure /\ Truth)'
  BY StructureStep, TruthStep
<1>. QED
  BY <1>1, <1>2, PTL DEF Spec

(* As long as every write lands on what its handler had read, the status and
   the chain agree: no requisition is approved, profiled or posted with a step
   unsigned, and none is rejected without a rejection. *)
THEOREM StatusTheorem == Spec => []StatusAgrees
<1>1. Structure /\ Truth => StatusAgrees
  BY TruthImplies
<1>. QED
  BY <1>1, InvariantTheorem, PTL

(* As long as every write lands on what its handler had read, nobody signs
   ahead of an earlier approver, the Board included. *)
THEOREM OrderTheorem == Spec => []InOrder
<1>1. Structure /\ Truth => InOrder
  BY TruthImplies
<1>. QED
  BY <1>1, InvariantTheorem, PTL

(* The chain has its shape, and whoever signs is the first who has not. *)
THEOREM ChainTheorem == Spec => []ChainInOrder
<1>1. ChainShape /\ InOrder => ChainInOrder
  BY DEF ChainInOrder
<1>. QED
  BY <1>1, ShapeTheorem, OrderTheorem, PTL

-----------------------------------------------------------------------------
(* What a step may never do *)

(* A decided step of the chain is touched only by a resubmission. *)
Stands ==
  \A i \in DOMAIN steps :
    i \in DOMAIN steps' /\ steps[i].st # "PENDING" /\ steps'[i].st # steps[i].st
      => round' = round + 1 /\ steps'[i].st = "PENDING"

LEMMA StandsWhenDecided ==
  ASSUME Structure, NEW i \in DOMAIN steps, steps[i].st = "PENDING",
         \A j \in DOMAIN steps : j # i => steps'[j].st = steps[j].st
  PROVE  Stands
BY DEF Stands

LEMMA StandsStep ==
  ASSUME Structure, [Next]_vars
  PROVE  Stands
<1>1. ASSUME UNCHANGED steps
      PROVE  Stands
  BY <1>1 DEF Stands
<1>2. ASSUME NEW r \in Requests, CommitAct(r)
      PROVE  Stands
  <2> DEFINE i == req[r].at
             d == req[r].decision
  <2>1. i \in DOMAIN steps /\ steps[i].st = "PENDING" /\ d \in Decisions /\ Exists
    BY <1>2 DEF CommitAct, Claimable, Structure, TypeOK, Request
  <2>2. Outcome(d) \in StepStatuses /\ "APPROVED" \in StepStatuses /\ "CHRO" \in StepRoles
    BY <2>1, OutcomeLemma DEF StepStatuses, StepRoles
  <2>3. PICK st \in StepStatuses :
          steps' = Decide(i, st) \/ steps' = Append(Decide(i, st), NextStep("CHRO"))
    BY <1>2, <2>2 DEF CommitAct
  <2>4. /\ Decide(i, st) \in Seq(Step) /\ DOMAIN Decide(i, st) = DOMAIN steps
        /\ \A j \in DOMAIN steps : j # i => Decide(i, st)[j].st = steps[j].st
    BY <2>1, DecideLemma DEF Structure, TypeOK
  <2>5. \A j \in DOMAIN steps : j # i => steps'[j].st = steps[j].st
    BY <2>2, <2>3, <2>4, AppendLemma
  <2>. QED
    BY <2>1, <2>5, StandsWhenDecided
<1>3. ASSUME NEW r \in Requests, CommitBoard(r)
      PROVE  Stands
  <2> DEFINE i == req[r].at
  <2>1. i \in DOMAIN steps /\ steps[i].st = "PENDING"
    BY <1>3 DEF CommitBoard, Claimable
  <2>2. "APPROVED" \in StepStatuses /\ "BOARD" \in StepRoles
    BY DEF StepStatuses, StepRoles
  <2>3. /\ Decide(i, "APPROVED") \in Seq(Step) /\ DOMAIN Decide(i, "APPROVED") = DOMAIN steps
        /\ \A j \in DOMAIN steps : j # i => Decide(i, "APPROVED")[j].st = steps[j].st
    BY <2>1, <2>2, DecideLemma DEF Structure, TypeOK
  <2>4. \A j \in DOMAIN steps : j # i => steps'[j].st = steps[j].st
    BY <1>3, <2>2, <2>3, AppendLemma DEF CommitBoard
  <2>. QED
    BY <2>1, <2>4, StandsWhenDecided
<1>4. ASSUME NEW r \in Requests, DecideVote(r)
      PROVE  Stands
  <2>1. CASE Claimable(req[r].at)
    <3>1. req[r].at \in DOMAIN steps /\ steps[req[r].at].st = "PENDING"
      BY <2>1 DEF Claimable
    <3>2. req[r].decision \in {"approved", "rejected"}
      BY <1>4 DEF DecideVote, At, Structure, Position
    <3>3. Outcome(req[r].decision) \in StepStatuses
      BY <3>2 DEF Outcome, StepStatuses
    <3>4. steps' = Decide(req[r].at, Outcome(req[r].decision))
      BY <1>4, <2>1 DEF DecideVote
    <3>5. \A j \in DOMAIN steps : j # req[r].at => steps'[j].st = steps[j].st
      BY <3>1, <3>3, <3>4, DecideLemma DEF Structure, TypeOK
    <3>. QED
      BY <3>1, <3>5, StandsWhenDecided
  <2>2. CASE ~Claimable(req[r].at)
    BY <1>1, <1>4, <2>2 DEF DecideVote
  <2>. QED
    BY <2>1, <2>2
<1>5. ASSUME NEW r \in Requests, CommitResubmit(r)
      PROVE  Stands
  <2>1. round' = round + 1 /\ \A j \in DOMAIN steps : steps'[j].st = "PENDING"
    BY <1>5, ClearLemma DEF CommitResubmit, Structure, TypeOK
  <2>. QED
    BY <2>1 DEF Stands
<1>6. CASE HardDelete
  BY <1>6 DEF HardDelete, Stands
<1>7. ASSUME NEW r \in Requests, Analysis(r) \/ AfterApproval(r) \/ Fail(r)
      PROVE  UNCHANGED steps
  BY <1>7 DEF Analysis, AfterApproval, Fail, Begin, SaveJobAnalysis, CommitSubmit,
       ReturnJobAnalysisToRaiser, CommitReturn, ResendForJobAnalysis, CommitResend,
       FinishDecision, GenerateRoleProfile, UpdateRoleProfile, CommitProfile, Post, CommitPost
<1>8. ASSUME NEW r \in Requests,
             \/ Act(r) \/ Resubmit(r)
             \/ SendToBoard(r) \/ CreateVote(r) \/ Vote(r) \/ ClaimVote(r)
      PROVE  UNCHANGED steps
  BY <1>8 DEF Act, Resubmit, SendToBoard, CreateVote, Vote, ClaimVote, Begin
<1>. QED
  BY <1>1, <1>2, <1>3, <1>4, <1>5, <1>6, <1>7, <1>8
     DEF Next, SignOff, Board, ExpireToken, vars

(* A decision is final within its round, in turn or not: two approvers, a
   double click and two members of the Board never overwrite one another. *)
THEOREM StandsTheorem == Spec => SignedStepStands
<1>1. Structure /\ [Next]_vars => [Stands]_vars
  BY StandsStep
<1>2. [Stands]_vars <=>
        [\A i \in DOMAIN steps :
           i \in DOMAIN steps' /\ steps[i].st # "PENDING" /\ steps'[i].st # steps[i].st
             => round' = round + 1 /\ steps'[i].st = "PENDING"]_vars
  BY DEF Stands
<1>. QED
  BY <1>1, <1>2, InvariantTheorem, PTL DEF Spec, SignedStepStands

-----------------------------------------------------------------------------
(* The status *)

(* A decision in turn finds the requisition in its chain. *)
LEMMA DecisionInChain ==
  ASSUME Structure, Truth, inTurn', NEW r \in Requests,
         CommitAct(r) \/ (DecideVote(r) /\ Claimable(req[r].at))
  PROVE  status = "PENDING_APPROVAL"
<1>. DEFINE i == req[r].at
<1>1. i \in DOMAIN steps /\ steps[i].st = "PENDING" /\ inTurn
  BY DEF CommitAct, DecideVote, Claimable, Stays
<1>2. Exists
  BY <1>1 DEF Structure
<1>3. Core
  BY <1>1, <1>2 DEF Truth
<1>4. CASE CommitAct(r)
  <2>1. status # "PENDING_JOB_ANALYSIS" /\ Earlier(i)
    BY <1>3, <1>4 DEF CommitAct, Core, Reliable, At, Stays
  <2>. QED
    BY <1>1, <1>2, <1>3, <2>1, OpenStep
<1>5. CASE DecideVote(r) /\ Claimable(i)
  <2>1. i = Levels + 3 /\ Len(steps) = Levels + 3 /\ boardRound = round
    BY <1>2, <1>5 DEF DecideVote, At, Structure, Position, Stays
  <2>2. Earlier(i)
    BY <1>3, <2>1 DEF Core, BoardAsked
  <2>3. status # "PENDING_JOB_ANALYSIS"
    <3>1. 1 \in 1..(i - 1) /\ 1 \in DOMAIN steps
      BY <2>1, LevelsAssumption DEF Structure, TypeOK
    <3>2. steps[1].st = "APPROVED"
      BY <2>2, <3>1 DEF Earlier
    <3>. QED
      BY <1>1, <1>3, <3>1, <3>2 DEF Core, StatusAgrees, AllSteps
  <2>. QED
    BY <1>1, <1>2, <1>3, <2>2, <2>3, OpenStep
<1>. QED
  BY <1>4, <1>5

Forward == inTurn' /\ status' # status => status' \in Successors(status) \cup {"DELETED"}

LEMMA ForwardStep ==
  ASSUME Structure, Truth, [Next]_vars
  PROVE  Forward
<1>. SUFFICES ASSUME inTurn', status' # status
              PROVE  status' \in Successors(status) \cup {"DELETED"}
  BY DEF Forward
<1>1. ASSUME NEW r \in Requests, CommitSubmit(r)
      PROVE  status' \in Successors(status)
  BY <1>1 DEF CommitSubmit, Stays, Successors
<1>2. ASSUME NEW r \in Requests, CommitAct(r)
      PROVE  status' \in Successors(status)
  <2>1. status = "PENDING_APPROVAL"
    BY <1>2, DecisionInChain
  <2>2. status' \in {"REJECTED", "APPROVED"}
    BY <1>2 DEF CommitAct
  <2>. QED
    BY <2>1, <2>2 DEF Successors
<1>3. ASSUME NEW r \in Requests, DecideVote(r)
      PROVE  status' \in Successors(status)
  <2>1. Claimable(req[r].at)
    BY <1>3 DEF DecideVote
  <2>2. status = "PENDING_APPROVAL"
    BY <1>3, <2>1, DecisionInChain
  <2>3. Exists
    BY <2>2 DEF Exists
  <2>4. req[r].decision \in {"approved", "rejected"}
    BY <1>3, <2>3 DEF DecideVote, At, Structure, Position
  <2>5. status' \in {"REJECTED", "APPROVED"}
    BY <1>3, <2>1, <2>4 DEF DecideVote, Outcome
  <2>. QED
    BY <2>2, <2>5 DEF Successors
<1>4. ASSUME NEW r \in Requests, CommitProfile(r) \/ CommitPost(r)
      PROVE  status' \in Successors(status)
  <2>1. inTurn /\ Exists
    BY <1>4 DEF CommitProfile, CommitPost, Stays
  <2>2. Reliable(r)
    BY <2>1 DEF Truth, Core
  <2>3. CASE CommitProfile(r)
    <3>1. status \in Approved /\ status # "POSTED" /\ status' = "PROFILE_GENERATED"
      BY <2>2, <2>3 DEF CommitProfile, At, Reliable, Stays
    <3>. QED
      BY <3>1 DEF Approved, Successors
  <2>4. CASE CommitPost(r)
    <3>1. status \in {"PROFILE_GENERATED", "POSTED"} /\ status' = "POSTED"
      BY <2>2, <2>4 DEF CommitPost, At, Reliable
    <3>. QED
      BY <3>1 DEF Successors
  <2>. QED
    BY <1>4, <2>3, <2>4
<1>5. CASE HardDelete
  BY <1>5 DEF HardDelete
<1>6. ASSUME NEW r \in Requests,
             \/ Analysis(r) /\ ~CommitSubmit(r)
             \/ SignOff(r) /\ ~CommitAct(r)
             \/ Board(r) /\ ~DecideVote(r)
             \/ AfterApproval(r) /\ ~CommitProfile(r) /\ ~CommitPost(r)
             \/ Fail(r)
      PROVE  status' = status
  BY <1>6 DEF Analysis, SignOff, Board, AfterApproval, Fail, Begin,
       SaveJobAnalysis, ReturnJobAnalysisToRaiser, CommitReturn, ResendForJobAnalysis, CommitResend,
       Act, Resubmit, CommitResubmit, SendToBoard, CommitBoard, CreateVote, Vote, ClaimVote,
       FinishDecision, GenerateRoleProfile, UpdateRoleProfile, Post
<1>7. ASSUME NEW m \in Members, ExpireToken(m)
      PROVE  FALSE
  BY <1>7 DEF ExpireToken
<1>8. CASE UNCHANGED vars
  BY <1>8 DEF vars
<1>. QED
  BY <1>1, <1>2, <1>3, <1>4, <1>5, <1>6, <1>7, <1>8 DEF Next

(* As long as every write lands in turn, the status only moves along the workflow:
   a rejected requisition is never revived, and a posted one never taken back to its
   profile, whoever signs, votes, drafts and posts at once (requisition.service.ts). *)
THEOREM ForwardTheorem == Spec => LifecycleForward
<1>1. Structure /\ Truth /\ [Next]_vars => [Forward]_vars
  BY ForwardStep
<1>2. [Forward]_vars <=>
        [inTurn' /\ status' # status => status' \in Successors(status) \cup {"DELETED"}]_vars
  BY DEF Forward
<1>. QED
  BY <1>1, <1>2, InvariantTheorem, PTL DEF Spec, LifecycleForward

-----------------------------------------------------------------------------
(* The directory of employees *)

Loaded == {"each", "user", "unit", "row"}

Unit == [live : BOOLEAN, name : UnitNames, areas : SUBSET Areas]

KeysOf == {Key(n) : n \in UnitNames}

Sum(t) == t.inserted + t.updated + t.skipped + t.failed

(* As far as one run at a time, and nobody but it, has made units. *)
Alone == ~doubled /\ ~touched

(* Every run under way has a row of its own that says so. *)
RowsHeld ==
  /\ \A z \in Runners : clerk[z].run \in DOMAIN runs /\ runs[clerk[z].run].status = "running"
  /\ \A y, z \in Runners : clerk[y].run = clerk[z].run => y = z
  /\ \A n \in DOMAIN runs : runs[n].status = "running" => \E z \in Runners : clerk[z].run = n

Whole(t) ==
  /\ t.processed = Cardinality(Codes)
  /\ t.processed = Sum(t)
  /\ t.failed = 0 \/ doubled \/ touched

RunsWhole == \A n \in DOMAIN runs : runs[n].status = "success" => Whole(runs[n].tally)

OneRunner == ~doubled => \A y, z \in Runners : y = z

(* A run counts everybody it has taken up, and the one in hand when it is done with. *)
InHand(z) == IF clerk[z].at \in {"user", "unit", "row"} THEN 1 ELSE 0

Counts(z) ==
  LET c == clerk[z] IN
  /\ c.at \in {"current", "begin", "fetch", "load"} => c.tally = Zero
  /\ c.at = "load" => c.todo = Codes
  /\ c.at \in Loaded => /\ c.tally.processed = Sum(c.tally) + InHand(z)
                        /\ c.tally.processed + Cardinality(c.todo) = Cardinality(Codes)
                        /\ c.tally.failed = 0 \/ doubled \/ touched
  /\ c.at \in {"load"} \cup Loaded => c.feed \in Feeds
  /\ c.at \in Loaded => \A k \in KeysOf : c.byKey[k] \in {0} \cup DOMAIN units

(* A run that is alone knows everybody there is, and one unit for every key. *)
MapsHold(z) ==
  Alone /\ clerk[z].at \in Loaded =>
    /\ \A c \in Codes : account[c].made => c \in clerk[z].known
    /\ \A i \in Live : clerk[z].byKey[Key(units[i].name)] = i
    /\ \A k \in KeysOf : clerk[z].byKey[k] # 0 =>
         clerk[z].byKey[k] \in Live /\ Key(units[clerk[z].byKey[k]].name) = k

UnitMeant(z) ==
  Alone /\ clerk[z].at = "row" /\ clerk[z].unit # 0 =>
    clerk[z].unit \in Live /\ clerk[z].name = units[clerk[z].unit].name

KeysApart == Alone => \A i, j \in Live : Key(units[i].name) = Key(units[j].name) => i = j

UnderUnits ==
  \A c \in Codes : account[c].unit # 0 =>
    /\ account[c].row /\ account[c].unit \in Live
    /\ Alone => account[c].name = units[account[c].unit].name

OwnAddress == shared \/ \A c \in Codes : ~Elsewhere(c, account[c].email)

DirectoryInv ==
  /\ DirectoryTypeOK
  /\ RowsHeld /\ RunsWhole /\ OneRunner
  /\ \A z \in Clerks : Counts(z) /\ MapsHold(z) /\ UnitMeant(z)
  /\ KeysApart /\ UnderUnits /\ OwnAddress

-----------------------------------------------------------------------------
(* Values *)

LEMMA AwayType ==
  Away \in Clerk /\ Away.at = "none" /\ Zero \in Tally
<1>1. Zero \in Tally
  BY DEF Zero, Tally
<1> DEFINE blank == [k \in {Key(n) : n \in UnitNames} |-> 0]
<1>2. blank \in [{Key(n) : n \in UnitNames} -> 0..MaxUnits] /\ 0 \in 0..MaxUnits
  BY ErrandsAssumption
<1>3. Away = [at |-> "none", run |-> 0, feed |-> <<>>, todo |-> {}, on |-> {}, known |-> {},
              byKey |-> blank, isNew |-> FALSE, unit |-> 0, name |-> Unset, tally |-> Zero, email |-> Unset]
  BY DEF Away
<1> HIDE DEF blank
<1> QED
  BY <1>1, <1>2, <1>3 DEF Clerk, Places

LEMMA ErrandType ==
  ASSUME DirectoryTypeOK, NEW kind \in Requested, Errand(kind)
  PROVE  errands' \in [Requested -> Nat]
BY DEF DirectoryTypeOK, Errand

LEMMA CountedType ==
  ASSUME NEW t \in Tally
  PROVE  /\ Sum(t) \in Nat /\ t.processed \in Nat /\ t.failed \in Nat
         /\ LET c == Counted(t, "processed")
            IN  c \in Tally /\ c.processed = t.processed + 1 /\ Sum(c) = Sum(t) /\ c.failed = t.failed
         /\ \A box \in {"inserted", "updated", "skipped"} :
              LET c == Counted(t, box)
              IN  c \in Tally /\ c.processed = t.processed /\ Sum(c) = Sum(t) + 1 /\ c.failed = t.failed
         /\ LET c == Counted(t, "failed")
            IN  c \in Tally /\ c.processed = t.processed /\ Sum(c) = Sum(t) + 1
BY DEF Tally, Counted, Sum

LEMMA ClerkFields ==
  ASSUME DirectoryTypeOK, NEW z \in Clerks
  PROVE  /\ clerk[z] \in Clerk
         /\ clerk[z].at \in Places /\ clerk[z].run \in Nat /\ clerk[z].todo \in SUBSET Codes
         /\ clerk[z].on \in SUBSET Codes /\ clerk[z].known \in SUBSET Codes
         /\ clerk[z].byKey \in [KeysOf -> 0..MaxUnits] /\ clerk[z].unit \in 0..MaxUnits
         /\ clerk[z].name \in UnitNames \cup {Unset} /\ clerk[z].tally \in Tally
         /\ clerk[z].email \in Addresses \cup {Unset}
BY DEF DirectoryTypeOK, Clerk, KeysOf

LEMMA UnitFields ==
  ASSUME DirectoryTypeOK
  PROVE  /\ DOMAIN units = 1..Len(units) /\ Len(units) \in Nat /\ Len(units) <= MaxUnits
         /\ \A i \in DOMAIN units : units[i] \in Unit /\ units[i].name \in UnitNames /\ i \in 1..MaxUnits
         /\ Live \subseteq DOMAIN units
         /\ \A i \in DOMAIN units : Key(units[i].name) \in KeysOf
<1>1. units \in Seq(Unit)
  BY DEF DirectoryTypeOK, Unit
<1>2. DOMAIN units = 1..Len(units) /\ Len(units) \in Nat /\ \A i \in DOMAIN units : units[i] \in Unit
  BY <1>1
<1>3. \A i \in DOMAIN units : units[i].name \in UnitNames
  BY <1>2 DEF Unit
<1>4. Len(units) <= MaxUnits /\ MaxUnits \in Nat
  BY ErrandsAssumption DEF DirectoryTypeOK
<1>5. \A i \in DOMAIN units : i \in 1..MaxUnits
  BY <1>2, <1>4
<1>6. Live \subseteq DOMAIN units
  BY DEF Live
<1>7. \A i \in DOMAIN units : Key(units[i].name) \in KeysOf
  BY <1>3 DEF KeysOf
<1> QED
  BY <1>2, <1>3, <1>4, <1>5, <1>6, <1>7

LEMMA FeedFields ==
  ASSUME NEW f \in Feeds, NEW c \in Codes
  PROVE  /\ f[c].counts \in BOOLEAN /\ f[c].email \in Addresses \cup {Unset}
         /\ f[c].unit \in UnitNames \cup {Unset} /\ f[c].area \in Areas \cup {Unset}
BY FeedsAssumption

LEMMA RunFields ==
  ASSUME DirectoryTypeOK
  PROVE  /\ DOMAIN runs = 1..Len(runs) /\ Len(runs) \in Nat
         /\ \A n \in DOMAIN runs : runs[n] \in Run
BY DEF DirectoryTypeOK

-----------------------------------------------------------------------------
(* Frames *)

(* The units there are stay where they are. *)
UnitsStay ==
  /\ DOMAIN units \subseteq DOMAIN units'
  /\ ~touched' => \A i \in DOMAIN units : /\ units'[i].live = units[i].live
                                          /\ units'[i].name = units[i].name

LEMMA OthersHold ==
  ASSUME DirectoryInv, NEW z \in Clerks, \A y \in Clerks \ {z} : clerk'[y] = clerk[y],
         doubled => doubled', touched => touched', UnitsStay,
         \/ z \in Runners
         \/ /\ \A c \in Codes : account'[c].made => account[c].made
            /\ ~touched' => Live' \subseteq Live
  PROVE  \A y \in Clerks \ {z} : (Counts(y) /\ MapsHold(y) /\ UnitMeant(y))'
<1> SUFFICES ASSUME NEW y \in Clerks \ {z}
             PROVE  Counts(y)' /\ MapsHold(y)' /\ UnitMeant(y)'
  OBVIOUS
<1>1. clerk'[y] = clerk[y] /\ Counts(y) /\ MapsHold(y) /\ UnitMeant(y)
  BY DEF DirectoryInv
<1>2. Counts(y)'
  BY <1>1 DEF Counts, InHand, UnitsStay
<1>3. CASE z \in Runners
  <2>1. ~doubled => y \notin Runners
    BY <1>3 DEF DirectoryInv, OneRunner
  <2>2. clerk[y].at \in Loaded => y \in Runners
    BY DEF Loaded, Runners
  <2> QED
    BY <1>1, <1>2, <2>1, <2>2 DEF MapsHold, UnitMeant, Alone, Loaded
<1>4. CASE /\ \A c \in Codes : account'[c].made => account[c].made
           /\ ~touched' => Live' \subseteq Live
  <2>1. ~touched' => /\ Live' = Live /\ \A i \in Live : units'[i].name = units[i].name
    BY <1>4 DEF UnitsStay, Live
  <2>2. MapsHold(y)'
    <3> SUFFICES ASSUME Alone', clerk[y].at \in Loaded
                 PROVE  /\ \A c \in Codes : account'[c].made => c \in clerk[y].known
                        /\ \A i \in Live' : clerk[y].byKey[Key(units'[i].name)] = i
                        /\ \A k \in KeysOf : clerk[y].byKey[k] # 0 =>
                             clerk[y].byKey[k] \in Live' /\ Key(units'[clerk[y].byKey[k]].name) = k
      BY <1>1 DEF MapsHold
    <3>1. Alone /\ ~touched'
      BY DEF Alone
    <3> QED
      BY <1>1, <1>4, <2>1, <3>1 DEF MapsHold
  <2>3. UnitMeant(y)'
    BY <1>1, <2>1 DEF UnitMeant, Alone
  <2> QED
    BY <1>2, <2>2, <2>3
<1> QED
  BY <1>3, <1>4

(* An address that is written is somebody else's only if that is known. *)
LEMMA OwnStays ==
  ASSUME DirectoryInv, NEW c \in Codes, \A d \in Codes \ {c} : account'[d].email = account[d].email,
         shared' = (shared \/ Elsewhere(c, account'[c].email))
  PROVE  OwnAddress'
<1> SUFFICES ASSUME ~shared', NEW d \in Codes, account'[d].email # Unset,
                    NEW x \in Codes \ {d}, account'[x].email = account'[d].email
             PROVE  FALSE
  BY DEF OwnAddress, Elsewhere
<1>1. ~shared /\ ~Elsewhere(c, account'[c].email)
  OBVIOUS
<1>2. \A y \in Codes \ {c} : account[y].email # account'[c].email \/ account'[c].email = Unset
  BY <1>1 DEF Elsewhere
<1>3. \A y, w \in Codes : y # w => account[y].email # account[w].email \/ account[w].email = Unset
  BY <1>1 DEF DirectoryInv, OwnAddress, Elsewhere
<1> QED
  BY <1>2, <1>3

(* A step of a run that writes no row of its own. *)
LEMMA SameRuns ==
  ASSUME DirectoryInv, NEW z \in Runners, z \in Runners', \A y \in Clerks \ {z} : clerk'[y] = clerk[y],
         clerk'[z].run = clerk[z].run, runs' = runs, doubled' = doubled, touched' = touched
  PROVE  (RowsHeld /\ RunsWhole /\ OneRunner)'
<1>1. Runners' = Runners
  BY DEF Runners
<1>2. \A y \in Runners : clerk'[y].run = clerk[y].run
  BY DEF Runners
<1> QED
  BY <1>1, <1>2 DEF DirectoryInv, RowsHeld, RunsWhole, Whole, OneRunner

(* A request that is no run, and changes nothing of what is kept. *)
LEMMA Aside ==
  ASSUME DirectoryInv, NEW z \in Clerks, DirectoryTypeOK', z \notin Runners, z \notin Runners',
         \A y \in Clerks \ {z} : clerk'[y] = clerk[y],
         clerk'[z].at \in {"current", "begin"} => clerk'[z].tally = Zero,
         UNCHANGED <<account, units, runs, doubled, touched, shared>>
  PROVE  DirectoryInv'
<1>1. Runners' = Runners
  BY DEF Runners
<1>2. \A y \in Runners : clerk'[y] = clerk[y]
  BY DEF Runners
<1>3. \A y \in Clerks \ {z} : (Counts(y) /\ MapsHold(y) /\ UnitMeant(y))'
  BY OthersHold DEF UnitsStay, Live
<1>4. (Counts(z) /\ MapsHold(z) /\ UnitMeant(z))'
  BY DEF Counts, MapsHold, UnitMeant, Loaded, Runners
<1>5. (RowsHeld /\ RunsWhole /\ OneRunner)'
  BY <1>1, <1>2 DEF DirectoryInv, RowsHeld, RunsWhole, Whole, OneRunner
<1>6. (KeysApart /\ UnderUnits /\ OwnAddress)'
  BY DEF DirectoryInv, KeysApart, UnderUnits, OwnAddress, Alone, Live, Elsewhere
<1> QED
  BY <1>3, <1>4, <1>5, <1>6 DEF DirectoryInv

LEMMA AsideStep ==
  ASSUME DirectoryInv, NEW z \in Clerks,
         StartSync(z) \/ CurrentRun(z) \/ EditEmployee(z) \/ CheckAddress(z)
  PROVE  DirectoryInv'
<1>1. UNCHANGED <<account, units, runs, doubled, touched, shared>>
  BY DEF StartSync, CurrentRun, EditEmployee, CheckAddress
<1>2. z \notin Runners
  BY DEF StartSync, CurrentRun, EditEmployee, CheckAddress, Runners
<1>3. clerk[z] \in Clerk /\ Away \in Clerk
  BY AwayType, ClerkFields DEF DirectoryInv
<1>4. errands' \in [Requested -> Nat] /\ running' \in BOOLEAN
  BY ErrandType DEF StartSync, CurrentRun, EditEmployee, CheckAddress, DirectoryInv, DirectoryTypeOK, Requested
<1>5. PICK w \in Clerk : clerk' = [clerk EXCEPT ![z] = w] /\ w.at \in {"none", "current", "begin", "check", "write"}
                                                           /\ (w.at \in {"current", "begin"} => w.tally = Zero)
  <2>1. CASE StartSync(z)
    <3> DEFINE w == [Away EXCEPT !.at = IF running THEN "current" ELSE "begin"]
    <3>1. w \in Clerk /\ w.at \in {"current", "begin"} /\ w.tally = Away.tally
      BY <1>3 DEF Clerk, Places
    <3>2. Away.tally = Zero
      BY DEF Away
    <3> QED
      BY <3>1, <3>2, <2>1 DEF StartSync
  <2>2. CASE CurrentRun(z)
    <3>1. [clerk[z] EXCEPT !.at = "begin"] \in Clerk /\ [clerk[z] EXCEPT !.at = "begin"].at = "begin"
          /\ [clerk[z] EXCEPT !.at = "begin"].tally = clerk[z].tally
      BY <1>3 DEF Clerk, Places
    <3>3. clerk[z].tally = Zero
      BY <2>2 DEF CurrentRun, DirectoryInv, Counts
    <3>2. clerk' = [clerk EXCEPT ![z] = Away] \/ clerk' = [clerk EXCEPT ![z] = [clerk[z] EXCEPT !.at = "begin"]]
      BY <2>2 DEF CurrentRun
    <3> QED
      BY <3>1, <3>2, <3>3, AwayType
  <2>3. CASE EditEmployee(z)
    <3>1. PICK c \in Codes, email \in Addresses :
            clerk' = [clerk EXCEPT ![z] = [Away EXCEPT !.at = "check", !.on = {c}, !.email = email]]
      BY <2>3 DEF EditEmployee
    <3> DEFINE w == [Away EXCEPT !.at = "check", !.on = {c}, !.email = email]
    <3>2. w \in Clerk /\ w.at = "check"
      BY <1>3 DEF Clerk, Places
    <3> QED
      BY <3>1, <3>2
  <2>4. CASE CheckAddress(z)
    <3>1. [clerk[z] EXCEPT !.at = "write"] \in Clerk /\ [clerk[z] EXCEPT !.at = "write"].at = "write"
      BY <1>3 DEF Clerk, Places
    <3>2. clerk' = [clerk EXCEPT ![z] = Away] \/ clerk' = [clerk EXCEPT ![z] = [clerk[z] EXCEPT !.at = "write"]]
      BY <2>4 DEF CheckAddress
    <3> QED
      BY <3>1, <3>2, AwayType
  <2> QED
    BY <2>1, <2>2, <2>3, <2>4
<1>6. clerk' \in [Clerks -> Clerk] /\ clerk'[z] = w /\ \A y \in Clerks \ {z} : clerk'[y] = clerk[y]
  BY <1>5 DEF DirectoryInv, DirectoryTypeOK
<1>7. DirectoryTypeOK'
  BY <1>1, <1>4, <1>6 DEF DirectoryInv, DirectoryTypeOK
<1>8. z \notin Runners'
  BY <1>5, <1>6 DEF Runners
<1>9. clerk'[z].at \in {"current", "begin"} => clerk'[z].tally = Zero
  BY <1>5, <1>6
<1> QED
  BY <1>1, <1>2, <1>6, <1>7, <1>8, <1>9, Aside

LEMMA WriteAddressStep ==
  ASSUME DirectoryInv, NEW z \in Clerks, WriteAddress(z)
  PROVE  DirectoryInv'
<1>1. PICK c \in clerk[z].on :
        /\ account' = [account EXCEPT ![c].email = clerk[z].email]
        /\ shared' = (shared \/ Elsewhere(c, clerk[z].email))
  BY DEF WriteAddress
<1>2. /\ clerk[z].at = "write" /\ clerk' = [clerk EXCEPT ![z] = Away]
      /\ UNCHANGED <<units, runs, running, errands, doubled, touched>>
  BY DEF WriteAddress
<1>3. c \in Codes /\ account[c] \in Account /\ clerk[z].email \in Addresses \cup {Unset}
  BY ClerkFields DEF DirectoryInv, DirectoryTypeOK
<1>4. /\ account' \in [Codes -> Account] /\ account'[c].email = clerk[z].email
      /\ account'[c].made = account[c].made /\ account'[c].row = account[c].row
      /\ account'[c].unit = account[c].unit /\ account'[c].name = account[c].name
      /\ \A d \in Codes \ {c} : account'[d] = account[d]
  BY <1>1, <1>3 DEF DirectoryInv, DirectoryTypeOK, Account
<1>5. clerk' \in [Clerks -> Clerk] /\ clerk'[z] = Away /\ \A y \in Clerks \ {z} : clerk'[y] = clerk[y]
  BY <1>2, AwayType DEF DirectoryInv, DirectoryTypeOK
<1>6. DirectoryTypeOK'
  BY <1>1, <1>2, <1>4, <1>5 DEF DirectoryInv, DirectoryTypeOK
<1>7. Runners' = Runners /\ \A y \in Runners : clerk'[y] = clerk[y]
  BY <1>2, <1>5, AwayType DEF Runners
<1>8. \A y \in Clerks \ {z} : (Counts(y) /\ MapsHold(y) /\ UnitMeant(y))'
  <2>1. \A d \in Codes : account'[d].made => account[d].made
    BY <1>4
  <2> QED
    BY <1>2, <1>5, <2>1, OthersHold DEF UnitsStay, Live
<1>9. (Counts(z) /\ MapsHold(z) /\ UnitMeant(z))'
  BY <1>5, AwayType DEF Counts, MapsHold, UnitMeant, Loaded, Runners
<1>10. (RowsHeld /\ RunsWhole /\ OneRunner)'
  BY <1>2, <1>7 DEF DirectoryInv, RowsHeld, RunsWhole, Whole, OneRunner
<1>11. KeysApart' /\ UnderUnits'
  BY <1>2, <1>4 DEF DirectoryInv, KeysApart, UnderUnits, Alone, Live
<1>12. OwnAddress'
  BY <1>1, <1>3, <1>4, OwnStays
<1> QED
  BY <1>6, <1>8, <1>9, <1>10, <1>11, <1>12 DEF DirectoryInv

-----------------------------------------------------------------------------
(* A run *)

LEMMA BeginRunStep ==
  ASSUME DirectoryInv, NEW z \in Clerks, BeginRun(z)
  PROVE  DirectoryInv'
<1> DEFINE row == [status |-> "running", tally |-> Zero]
           new == Len(runs) + 1
           w == [clerk[z] EXCEPT !.at = "fetch", !.run = new]
<1>1. /\ clerk[z].at = "begin" /\ runs' = Append(runs, row) /\ clerk' = [clerk EXCEPT ![z] = w]
      /\ doubled' = (doubled \/ Runners # {})
      /\ UNCHANGED <<account, units, running, errands, touched, shared>>
  BY DEF BeginRun
<1>2. row \in Run /\ row.status = "running"
  BY AwayType DEF Run
<1> HIDE DEF row
<1>3. runs \in Seq(Run) /\ Len(runs) \in Nat /\ DOMAIN runs = 1..Len(runs)
  BY DEF DirectoryInv, DirectoryTypeOK
<1>4. /\ runs' \in Seq(Run) /\ DOMAIN runs' = DOMAIN runs \cup {new}
      /\ runs'[new] = row /\ \A n \in DOMAIN runs : runs'[n] = runs[n]
      /\ new \notin DOMAIN runs
  BY <1>1, <1>2, <1>3, AppendProperties
<1>16. new \in Nat /\ clerk[z] \in Clerk
  BY <1>3, ClerkFields DEF DirectoryInv
<1> HIDE DEF new
<1>5. w \in Clerk /\ w.at = "fetch" /\ w.run = new /\ w.tally = clerk[z].tally
  BY <1>16 DEF Clerk, Places
<1> HIDE DEF w
<1>6. clerk' \in [Clerks -> Clerk] /\ clerk'[z] = w /\ \A y \in Clerks \ {z} : clerk'[y] = clerk[y]
  BY <1>1, <1>5 DEF DirectoryInv, DirectoryTypeOK
<1>7. DirectoryTypeOK'
  BY <1>1, <1>4, <1>6 DEF DirectoryInv, DirectoryTypeOK
<1>8. z \notin Runners /\ Runners' = Runners \cup {z}
  BY <1>1, <1>5, <1>6 DEF Runners
<1>9. \A y \in Runners : y \in Clerks \ {z} /\ clerk'[y] = clerk[y]
  BY <1>6, <1>8 DEF Runners
<1>10. RowsHeld'
  <2>1. RowsHeld
    BY DEF DirectoryInv
  <2>2. \A y \in Runners' : clerk'[y].run \in DOMAIN runs' /\ runs'[clerk'[y].run].status = "running"
    BY <1>2, <1>4, <1>5, <1>6, <1>8, <1>9, <2>1 DEF RowsHeld
  <2>3. \A x, y \in Runners' : clerk'[x].run = clerk'[y].run => x = y
    BY <1>4, <1>5, <1>6, <1>8, <1>9, <2>1 DEF RowsHeld
  <2>4. \A n \in DOMAIN runs' : runs'[n].status = "running" => \E y \in Runners' : clerk'[y].run = n
    BY <1>4, <1>5, <1>6, <1>8, <1>9, <2>1 DEF RowsHeld
  <2> QED
    BY <2>2, <2>3, <2>4 DEF RowsHeld
<1>11. RunsWhole'
  BY <1>1, <1>2, <1>4 DEF DirectoryInv, RunsWhole, Whole
<1>12. OneRunner'
  BY <1>1, <1>8 DEF OneRunner
<1>13. \A y \in Clerks \ {z} : (Counts(y) /\ MapsHold(y) /\ UnitMeant(y))'
  BY <1>1, <1>6, OthersHold DEF UnitsStay, Live
<1>14. (Counts(z) /\ MapsHold(z) /\ UnitMeant(z))'
  <2>1. clerk[z].tally = Zero
    BY <1>1 DEF DirectoryInv, Counts
  <2> QED
    BY <1>5, <1>6, <2>1 DEF Counts, MapsHold, UnitMeant, Loaded
<1>15. (KeysApart /\ UnderUnits /\ OwnAddress)'
  BY <1>1 DEF DirectoryInv, KeysApart, UnderUnits, OwnAddress, Alone, Live, Elsewhere
<1> QED
  BY <1>7, <1>10, <1>11, <1>12, <1>13, <1>14, <1>15 DEF DirectoryInv

(* However a run ends, its row says so, and nobody else's does. *)
LEMMA CloseRunStep ==
  ASSUME DirectoryInv, NEW z \in Runners, NEW outcome \in {"success", "failed"}, CloseRun(z, outcome),
         outcome = "success" => Whole(clerk[z].tally),
         UNCHANGED <<account, units, errands, doubled, touched, shared>>
  PROVE  DirectoryInv'
<1> DEFINE n == clerk[z].run
           row == [status |-> outcome, tally |-> clerk[z].tally]
<1>1. runs' = [runs EXCEPT ![n] = row] /\ running' = FALSE /\ clerk' = [clerk EXCEPT ![z] = Away]
  BY DEF CloseRun
<1>2. z \in Clerks /\ clerk[z].tally \in Tally
  BY ClerkFields DEF DirectoryInv, Runners
<1>3. n \in DOMAIN runs
  BY DEF DirectoryInv, RowsHeld
<1>4. row \in Run /\ row.status = outcome /\ row.tally = clerk[z].tally
  BY <1>2 DEF Run
<1> HIDE DEF row
<1>5. runs' \in Seq(Run) /\ DOMAIN runs' = DOMAIN runs /\ runs'[n] = row /\ \A m \in DOMAIN runs \ {n} : runs'[m] = runs[m]
  BY <1>1, <1>3, <1>4 DEF DirectoryInv, DirectoryTypeOK
<1>6. clerk' \in [Clerks -> Clerk] /\ clerk'[z] = Away /\ \A y \in Clerks \ {z} : clerk'[y] = clerk[y]
  BY <1>1, <1>2, AwayType DEF DirectoryInv, DirectoryTypeOK
<1>7. DirectoryTypeOK'
  BY <1>1, <1>5, <1>6 DEF DirectoryInv, DirectoryTypeOK
<1>8. Runners' = Runners \ {z} /\ \A y \in Runners' : y \in Clerks \ {z} /\ clerk'[y] = clerk[y]
  BY <1>6, AwayType DEF Runners
<1>9. RowsHeld'
  <2>1. RowsHeld
    BY DEF DirectoryInv
  <2>2. \A y \in Runners' : clerk'[y].run # n
    BY <1>8, <2>1 DEF RowsHeld
  <2>3. \A y \in Runners' : clerk'[y].run \in DOMAIN runs' /\ runs'[clerk'[y].run].status = "running"
    BY <1>5, <1>8, <2>1, <2>2 DEF RowsHeld
  <2>4. \A x, y \in Runners' : clerk'[x].run = clerk'[y].run => x = y
    BY <1>8, <2>1 DEF RowsHeld
  <2>5. \A m \in DOMAIN runs' : runs'[m].status = "running" => \E y \in Runners' : clerk'[y].run = m
    <3> SUFFICES ASSUME NEW m \in DOMAIN runs', runs'[m].status = "running"
                 PROVE  \E y \in Runners' : clerk'[y].run = m
      OBVIOUS
    <3>1. m # n /\ runs[m].status = "running"
      BY <1>4, <1>5
    <3>2. PICK y \in Runners : clerk[y].run = m
      BY <1>5, <2>1, <3>1 DEF RowsHeld
    <3> QED
      BY <1>8, <3>1, <3>2
  <2> QED
    BY <2>3, <2>4, <2>5 DEF RowsHeld
<1>10. RunsWhole'
  <2> SUFFICES ASSUME NEW m \in DOMAIN runs', runs'[m].status = "success"
               PROVE  Whole(runs'[m].tally)
    BY DEF RunsWhole, Whole
  <2>1. CASE m = n
    BY <2>1, <1>4, <1>5 DEF Whole
  <2>2. CASE m # n
    BY <2>2, <1>5 DEF DirectoryInv, RunsWhole, Whole
  <2> QED
    BY <2>1, <2>2
<1>11. OneRunner'
  BY <1>8 DEF DirectoryInv, OneRunner
<1>12. \A y \in Clerks \ {z} : (Counts(y) /\ MapsHold(y) /\ UnitMeant(y))'
  BY <1>2, <1>6, OthersHold DEF UnitsStay, Live
<1>13. (Counts(z) /\ MapsHold(z) /\ UnitMeant(z))'
  BY <1>6, AwayType DEF Counts, MapsHold, UnitMeant, Loaded
<1>14. (KeysApart /\ UnderUnits /\ OwnAddress)'
  BY DEF DirectoryInv, KeysApart, UnderUnits, OwnAddress, Alone, Live, Elsewhere
<1> QED
  BY <1>7, <1>9, <1>10, <1>11, <1>12, <1>13, <1>14 DEF DirectoryInv

LEMMA EndRunStep ==
  ASSUME DirectoryInv, NEW z \in Clerks, EndRun(z)
  PROVE  DirectoryInv'
<1>1. /\ clerk[z].at = "each" /\ clerk[z].todo = {} /\ CloseRun(z, "success")
      /\ UNCHANGED <<account, units, errands, doubled, touched, shared>>
  BY DEF EndRun
<1>2. z \in Runners
  BY <1>1 DEF Runners
<1>3. Whole(clerk[z].tally)
  <2>1. Counts(z) /\ Cardinality(clerk[z].todo) = 0 /\ InHand(z) = 0
    BY <1>1, FS_EmptySet DEF DirectoryInv, InHand
  <2>2. clerk[z].tally.processed \in Nat /\ Sum(clerk[z].tally) \in Nat
    BY ClerkFields, CountedType DEF DirectoryInv
  <2> QED
    BY <1>1, <2>1, <2>2 DEF Counts, Whole, Loaded
<1> QED
  BY <1>1, <1>2, <1>3, CloseRunStep

(* A run that goes on, with nothing else changed than its notes. *)
LEMMA RunGoesOn ==
  ASSUME DirectoryInv, NEW z \in Runners, z \in Runners', clerk' \in [Clerks -> Clerk],
         \A y \in Clerks \ {z} : clerk'[y] = clerk[y], clerk'[z].run = clerk[z].run,
         UNCHANGED <<account, units, runs, running, errands, doubled, touched, shared>>,
         (Counts(z) /\ MapsHold(z) /\ UnitMeant(z))'
  PROVE  DirectoryInv'
<1>1. z \in Clerks
  BY DEF Runners
<1>2. DirectoryTypeOK'
  BY DEF DirectoryInv, DirectoryTypeOK
<1>3. (RowsHeld /\ RunsWhole /\ OneRunner)'
  BY SameRuns
<1>4. \A y \in Clerks \ {z} : (Counts(y) /\ MapsHold(y) /\ UnitMeant(y))'
  BY <1>1, OthersHold DEF UnitsStay, Live
<1>5. (KeysApart /\ UnderUnits /\ OwnAddress)'
  BY DEF DirectoryInv, KeysApart, UnderUnits, OwnAddress, Alone, Live, Elsewhere
<1> QED
  BY <1>2, <1>3, <1>4, <1>5 DEF DirectoryInv

LEMMA FetchEmployeesStep ==
  ASSUME DirectoryInv, NEW z \in Clerks, FetchEmployees(z)
  PROVE  DirectoryInv'
<1>1. clerk[z].at = "fetch" /\ UNCHANGED <<account, units, errands, doubled, touched, shared>>
  BY DEF FetchEmployees
<1>2. z \in Runners
  BY <1>1 DEF Runners
<1>3. CASE CloseRun(z, "failed")
  BY <1>1, <1>2, <1>3, CloseRunStep
<1>4. CASE /\ \E feed \in Feeds :
                clerk' = [clerk EXCEPT ![z] = [@ EXCEPT !.at = "load", !.feed = feed, !.todo = Codes]]
           /\ UNCHANGED <<runs, running>>
  <2>1. PICK feed \in Feeds :
          clerk' = [clerk EXCEPT ![z] = [@ EXCEPT !.at = "load", !.feed = feed, !.todo = Codes]]
    BY <1>4
  <2> DEFINE w == [clerk[z] EXCEPT !.at = "load", !.feed = feed, !.todo = Codes]
  <2>2. clerk[z] \in Clerk
    BY ClerkFields DEF DirectoryInv
  <2>3. w \in Clerk /\ w.at = "load" /\ w.feed = feed /\ w.todo = Codes /\ w.run = clerk[z].run /\ w.tally = clerk[z].tally
    BY <2>2 DEF Clerk, Places
  <2>4. clerk' = [clerk EXCEPT ![z] = w]
    BY <2>1
  <2> HIDE DEF w
  <2>5. clerk' \in [Clerks -> Clerk] /\ clerk'[z] = w /\ \A y \in Clerks \ {z} : clerk'[y] = clerk[y]
    BY <2>3, <2>4 DEF DirectoryInv, DirectoryTypeOK
  <2>6. z \in Runners'
    BY <2>3, <2>5 DEF Runners
  <2>7. clerk[z].tally = Zero
    BY <1>1 DEF DirectoryInv, Counts
  <2>8. (Counts(z) /\ MapsHold(z) /\ UnitMeant(z))'
    BY <2>3, <2>5, <2>7 DEF Counts, MapsHold, UnitMeant, Loaded
  <2> QED
    BY <1>1, <1>2, <1>4, <2>3, <2>5, <2>6, <2>8, RunGoesOn
<1> QED
  BY <1>3, <1>4 DEF FetchEmployees

LEMMA LoadMapsStep ==
  ASSUME DirectoryInv, NEW z \in Clerks, LoadMaps(z)
  PROVE  DirectoryInv'
<1>1. PICK byKey \in [{Key(n) : n \in UnitNames} -> {0} \cup Live] :
        /\ \A k \in DOMAIN byKey :
             LET having == {i \in Live : Key(units[i].name) = k}
             IN  IF having = {} THEN byKey[k] = 0 ELSE byKey[k] \in having
        /\ clerk' = [clerk EXCEPT ![z] = [@ EXCEPT !.at = "each", !.byKey = byKey,
                                                   !.known = {c \in Codes : account[c].made}]]
  BY DEF LoadMaps
<1>2. clerk[z].at = "load" /\ UNCHANGED <<account, units, runs, running, errands, doubled, touched, shared>>
  BY DEF LoadMaps
<1>3. z \in Runners
  BY <1>2 DEF Runners
<1> DEFINE known == {c \in Codes : account[c].made}
           w == [clerk[z] EXCEPT !.at = "each", !.byKey = byKey, !.known = known]
<1>4. clerk[z] \in Clerk /\ known \in SUBSET Codes
  BY ClerkFields DEF DirectoryInv
<1>5. byKey \in [{Key(n) : n \in UnitNames} -> 0..MaxUnits]
  <2>1. {0} \cup Live \subseteq 0..MaxUnits
    BY UnitFields, ErrandsAssumption DEF DirectoryInv
  <2> QED
    BY <2>1
<1>6. \A k \in KeysOf : /\ byKey[k] # 0 => byKey[k] \in Live /\ Key(units[byKey[k]].name) = k
                        /\ \A i \in Live : Key(units[i].name) = k => byKey[k] \in Live /\ Key(units[byKey[k]].name) = k
  <2>1. 0 \notin Live
    BY UnitFields DEF DirectoryInv
  <2>2. \A k \in KeysOf : k \in DOMAIN byKey
    BY DEF KeysOf
  <2> SUFFICES ASSUME NEW k \in KeysOf
               PROVE  /\ byKey[k] # 0 => byKey[k] \in Live /\ Key(units[byKey[k]].name) = k
                      /\ \A i \in Live : Key(units[i].name) = k => byKey[k] \in Live /\ Key(units[byKey[k]].name) = k
    OBVIOUS
  <2> DEFINE having == {i \in Live : Key(units[i].name) = k}
  <2>3. IF having = {} THEN byKey[k] = 0 ELSE byKey[k] \in having
    BY <1>1, <2>2
  <2> QED
    BY <2>3
<1>7. clerk' = [clerk EXCEPT ![z] = w]
  BY <1>1
<1>8. \A c \in Codes : account[c].made => c \in known
  OBVIOUS
<1> HIDE DEF known
<1>9. /\ w \in Clerk /\ w.at = "each" /\ w.byKey = byKey /\ w.known = known /\ w.run = clerk[z].run
      /\ w.tally = clerk[z].tally /\ w.todo = clerk[z].todo /\ w.feed = clerk[z].feed
  BY <1>4, <1>5 DEF Clerk, Places
<1> HIDE DEF w
<1>10. clerk' \in [Clerks -> Clerk] /\ clerk'[z] = w /\ \A y \in Clerks \ {z} : clerk'[y] = clerk[y]
  BY <1>7, <1>9 DEF DirectoryInv, DirectoryTypeOK
<1>11. z \in Runners'
  BY <1>9, <1>10 DEF Runners
<1>12. Counts(z)'
  <2>1. clerk[z].tally = Zero /\ clerk[z].todo = Codes /\ clerk[z].feed \in Feeds
    BY <1>2 DEF DirectoryInv, Counts
  <2>2. Cardinality(Codes) \in Nat
    BY CodesAssumption, FS_CardinalityType
  <2>3. Zero.processed = 0 /\ Sum(Zero) = 0 /\ Zero.failed = 0
    BY DEF Zero, Sum
  <2>4. InHand(z)' = 0
    BY <1>9, <1>10 DEF InHand
  <2>5. \A k \in KeysOf : byKey[k] \in {0} \cup DOMAIN units
    BY <1>6, UnitFields DEF DirectoryInv
  <2> QED
    BY <1>2, <1>9, <1>10, <2>1, <2>2, <2>3, <2>4, <2>5 DEF Counts
<1>13. MapsHold(z)'
  <2>1. Alone' => \A i \in Live : byKey[Key(units[i].name)] = i
    <3> SUFFICES ASSUME Alone, NEW i \in Live
                 PROVE  byKey[Key(units[i].name)] = i
      BY <1>2 DEF Alone
    <3>1. Key(units[i].name) \in KeysOf
      BY UnitFields DEF DirectoryInv
    <3>2. byKey[Key(units[i].name)] \in Live /\ Key(units[byKey[Key(units[i].name)]].name) = Key(units[i].name)
      BY <3>1, <1>6
    <3> QED
      BY <3>2 DEF DirectoryInv, KeysApart
  <2> QED
    BY <1>2, <1>6, <1>8, <1>9, <1>10, <2>1 DEF MapsHold, Live
<1>14. UnitMeant(z)'
  BY <1>9, <1>10 DEF UnitMeant
<1> QED
  BY <1>2, <1>3, <1>9, <1>10, <1>11, <1>12, <1>13, <1>14, RunGoesOn

(* A run that goes on and writes a person or a unit. *)
LEMMA RunWrites ==
  ASSUME DirectoryInv, NEW z \in Runners, z \in Runners', DirectoryTypeOK',
         \A y \in Clerks \ {z} : clerk'[y] = clerk[y], clerk'[z].run = clerk[z].run,
         UNCHANGED <<runs, doubled, touched>>, UnitsStay,
         (Counts(z) /\ MapsHold(z) /\ UnitMeant(z))', (KeysApart /\ UnderUnits /\ OwnAddress)'
  PROVE  DirectoryInv'
<1>1. z \in Clerks
  BY DEF Runners
<1>2. (RowsHeld /\ RunsWhole /\ OneRunner)'
  BY SameRuns
<1>3. \A y \in Clerks \ {z} : (Counts(y) /\ MapsHold(y) /\ UnitMeant(y))'
  BY <1>1, OthersHold
<1> QED
  BY <1>2, <1>3 DEF DirectoryInv

LEMMA NextEmployeeStep ==
  ASSUME DirectoryInv, NEW z \in Clerks, NextEmployee(z)
  PROVE  DirectoryInv'
<1> DEFINE old == clerk[z]
           taken == Counted(old.tally, "processed")
           passed == Counted(taken, "skipped")
<1>1. PICK c \in old.todo :
        clerk' = [clerk EXCEPT ![z] =
          IF old.feed[c].counts
          THEN [[old EXCEPT !.todo = @ \ {c}, !.tally = Counted(@, "processed")] EXCEPT !.on = {c}, !.at = "user"]
          ELSE [[old EXCEPT !.todo = @ \ {c}, !.tally = Counted(@, "processed")] EXCEPT !.tally = Counted(@, "skipped")]]
  BY DEF NextEmployee
<1>2. old.at = "each" /\ UNCHANGED <<account, units, runs, running, errands, doubled, touched, shared>>
  BY DEF NextEmployee
<1>3. z \in Runners
  BY <1>2 DEF Runners
<1> DEFINE w == IF old.feed[c].counts
                THEN [old EXCEPT !.todo = old.todo \ {c}, !.tally = taken, !.on = {c}, !.at = "user"]
                ELSE [old EXCEPT !.todo = old.todo \ {c}, !.tally = passed]
<1>4. old \in Clerk /\ old.todo \in SUBSET Codes /\ old.tally \in Tally /\ c \in Codes
  BY ClerkFields DEF DirectoryInv
<1>5. /\ taken \in Tally /\ taken.processed = old.tally.processed + 1 /\ Sum(taken) = Sum(old.tally)
      /\ taken.failed = old.tally.failed
      /\ passed \in Tally /\ passed.processed = old.tally.processed + 1 /\ Sum(passed) = Sum(old.tally) + 1
      /\ passed.failed = old.tally.failed
      /\ old.tally.processed \in Nat /\ Sum(old.tally) \in Nat
  <2>1. taken \in Tally /\ taken.processed = old.tally.processed + 1 /\ Sum(taken) = Sum(old.tally)
        /\ taken.failed = old.tally.failed
    BY <1>4, CountedType
  <2> HIDE DEF taken
  <2>2. passed \in Tally /\ passed.processed = taken.processed /\ Sum(passed) = Sum(taken) + 1
        /\ passed.failed = taken.failed
    BY <2>1, CountedType
  <2> QED
    BY <1>4, <2>1, <2>2, CountedType
<1>6. Cardinality(old.todo \ {c}) = Cardinality(old.todo) - 1 /\ Cardinality(old.todo) \in Nat
  BY <1>4, CodesAssumption, FS_Subset, FS_RemoveElement, FS_CardinalityType
<1>7. clerk' = [clerk EXCEPT ![z] = w]
  BY <1>1
<1> HIDE DEF taken, passed
<1> DEFINE rest == old.todo \ {c}
<1>8. /\ w \in Clerk /\ w.todo = rest /\ w.run = old.run /\ w.feed = old.feed /\ w.known = old.known
      /\ w.byKey = old.byKey
      /\ \/ w.at = "user" /\ w.tally = taken
         \/ w.at = "each" /\ w.tally = passed
  <2>1. rest \in SUBSET Codes /\ {c} \in SUBSET Codes
    BY <1>4
  <2> HIDE DEF rest
  <2>2. CASE old.feed[c].counts
    BY <2>1, <2>2, <1>4, <1>5 DEF Clerk, Places, rest
  <2>3. CASE ~old.feed[c].counts
    BY <2>1, <2>3, <1>2, <1>4, <1>5 DEF Clerk, Places, rest
  <2> QED
    BY <2>2, <2>3
<1> HIDE DEF w
<1>9. clerk' \in [Clerks -> Clerk] /\ clerk'[z] = w /\ \A y \in Clerks \ {z} : clerk'[y] = clerk[y]
  BY <1>7, <1>8 DEF DirectoryInv, DirectoryTypeOK
<1>10. z \in Runners'
  BY <1>8, <1>9 DEF Runners
<1>11. Counts(z) /\ MapsHold(z) /\ InHand(z) = 0
  BY <1>2 DEF DirectoryInv, InHand
<1>12. Counts(z)'
  <2>1. old.tally.processed = Sum(old.tally) /\ old.tally.processed + Cardinality(old.todo) = Cardinality(Codes)
    BY <1>2, <1>5, <1>11 DEF Counts, Loaded
  <2>2. InHand(z)' = IF w.at = "user" THEN 1 ELSE 0
    BY <1>8, <1>9 DEF InHand
  <2>3. /\ w.tally.processed = Sum(w.tally) + InHand(z)'
        /\ w.tally.processed + Cardinality(rest) = Cardinality(Codes)
        /\ w.tally.failed = old.tally.failed
    BY <1>5, <1>6, <1>8, <2>1, <2>2
  <2> HIDE DEF rest
  <2> QED
    BY <1>2, <1>8, <1>9, <1>11, <2>3 DEF Counts, Loaded
<1>13. MapsHold(z)' /\ UnitMeant(z)'
  BY <1>2, <1>8, <1>9, <1>11 DEF MapsHold, UnitMeant, Loaded, Alone, Live
<1> QED
  BY <1>2, <1>3, <1>8, <1>9, <1>10, <1>12, <1>13, RunGoesOn

(* A person is done with, one way or another. *)
LEMMA SettledFields ==
  ASSUME DirectoryInv, NEW z \in Runners, NEW box \in {"inserted", "updated", "failed"},
         clerk[z].at \in {"user", "unit", "row"}, clerk' = Settled(z, box),
         UNCHANGED <<doubled, touched>>, UnitsStay,
         box = "failed" => ~Alone
  PROVE  /\ clerk' \in [Clerks -> Clerk] /\ \A y \in Clerks \ {z} : clerk'[y] = clerk[y]
         /\ clerk'[z].at = "each" /\ clerk'[z].run = clerk[z].run /\ clerk'[z].known = clerk[z].known
         /\ clerk'[z].byKey = clerk[z].byKey
         /\ z \in Runners' /\ Counts(z)' /\ UnitMeant(z)'
<1> DEFINE old == clerk[z]
           tally == Counted(old.tally, box)
           w == [old EXCEPT !.at = "each", !.on = {}, !.tally = tally]
<1>1. z \in Clerks /\ old \in Clerk /\ old.tally \in Tally
  BY ClerkFields DEF DirectoryInv, Runners
<1>2. /\ tally \in Tally /\ tally.processed = old.tally.processed /\ Sum(tally) = Sum(old.tally) + 1
      /\ box # "failed" => tally.failed = old.tally.failed
      /\ Sum(old.tally) \in Nat
  BY ZenonT(60), <1>1, CountedType
<1>3. clerk' = [clerk EXCEPT ![z] = w]
  BY DEF Settled
<1> HIDE DEF tally
<1>4. /\ w \in Clerk /\ w.at = "each" /\ w.run = old.run /\ w.known = old.known /\ w.byKey = old.byKey
      /\ w.todo = old.todo /\ w.feed = old.feed /\ w.tally = tally
  BY <1>1, <1>2 DEF Clerk, Places
<1> HIDE DEF w
<1>5. clerk' \in [Clerks -> Clerk] /\ clerk'[z] = w /\ \A y \in Clerks \ {z} : clerk'[y] = clerk[y]
  BY <1>1, <1>3, <1>4 DEF DirectoryInv, DirectoryTypeOK
<1>6. z \in Runners'
  BY <1>1, <1>4, <1>5 DEF Runners
<1>7. UnitMeant(z)'
  BY <1>4, <1>5 DEF UnitMeant
<1>8. Counts(z)'
  <2>1. Counts(z) /\ InHand(z) = 1 /\ old.at \in Loaded
    BY <1>1 DEF DirectoryInv, InHand, Loaded
  <2>2. InHand(z)' = 0
    BY <1>4, <1>5 DEF InHand
  <2>3. tally.processed = Sum(tally)
    BY <1>2, <2>1 DEF Counts
  <2>4. tally.failed = 0 \/ doubled \/ touched
    BY <1>2, <2>1 DEF Counts, Alone
  <2>5. Sum(tally) \in Nat
    BY <1>2
  <2> QED
    BY <1>2, <1>4, <1>5, <2>1, <2>2, <2>3, <2>4, <2>5 DEF Counts, Loaded, UnitsStay
<1> QED
  BY <1>4, <1>5, <1>6, <1>7, <1>8

LEMMA UpsertUserStep ==
  ASSUME DirectoryInv, NEW z \in Clerks, UpsertUser(z)
  PROVE  DirectoryInv'
<1> DEFINE old == clerk[z]
<1>1. PICK c \in old.on :
        IF c \notin old.known /\ account[c].made
        THEN clerk' = Settled(z, "failed") /\ UNCHANGED <<account, shared>>
        ELSE /\ account' = [account EXCEPT ![c] = [@ EXCEPT !.made = TRUE, !.email = old.feed[c].email]]
             /\ shared' = (shared \/ Elsewhere(c, old.feed[c].email))
             /\ clerk' = [clerk EXCEPT ![z] = [old EXCEPT !.at = "unit", !.isNew = c \notin old.known,
                                                          !.known = @ \cup {c}]]
  BY DEF UpsertUser
<1>2. old.at = "user" /\ UNCHANGED <<units, runs, running, errands, doubled, touched>>
  BY DEF UpsertUser
<1>3. z \in Runners /\ UnitsStay
  BY <1>2 DEF Runners, UnitsStay
<1>4. old \in Clerk /\ c \in Codes /\ old.known \in SUBSET Codes
  BY ClerkFields DEF DirectoryInv
<1>5. Counts(z) /\ MapsHold(z) /\ old.at \in Loaded
  BY <1>2 DEF DirectoryInv, Loaded
<1>6. CASE c \notin old.known /\ account[c].made
  <2>1. clerk' = Settled(z, "failed") /\ UNCHANGED <<account, shared>>
    BY <1>1, <1>6
  <2>2. ~Alone
    BY <1>4, <1>5, <1>6 DEF MapsHold
  <2>3. /\ clerk' \in [Clerks -> Clerk] /\ \A y \in Clerks \ {z} : clerk'[y] = clerk[y]
        /\ clerk'[z].run = clerk[z].run
        /\ z \in Runners' /\ Counts(z)' /\ UnitMeant(z)'
    BY <1>2, <1>3, <2>1, <2>2, SettledFields
  <2>4. MapsHold(z)'
    BY <1>2, <2>2 DEF MapsHold, Alone
  <2> QED
    BY <1>2, <1>3, <2>1, <2>3, <2>4, RunGoesOn
<1>7. CASE ~(c \notin old.known /\ account[c].made)
  <2> DEFINE email == old.feed[c].email
             isNew == c \notin old.known
             known == old.known \cup {c}
             yes == TRUE
             person == [account[c] EXCEPT !.made = yes, !.email = email]
             w == [old EXCEPT !.at = "unit", !.isNew = isNew, !.known = known]
  <2>1. /\ account' = [account EXCEPT ![c] = person] /\ clerk' = [clerk EXCEPT ![z] = w]
        /\ shared' = (shared \/ Elsewhere(c, email))
    BY <1>1, <1>7
  <2>2. email \in Addresses \cup {Unset} /\ known \in SUBSET Codes /\ isNew \in BOOLEAN /\ yes \in BOOLEAN
    <3>1. old.feed \in Feeds
      BY <1>5 DEF Counts
    <3> QED
      BY <1>4, <3>1, FeedFields
  <2>3. \A d \in Codes : d \in known <=> d \in old.known \/ d = c
    BY <1>4
  <2> HIDE DEF email, isNew, known, yes
  <2>4. account[c] \in Account
    BY <1>4 DEF DirectoryInv, DirectoryTypeOK
  <2>5. /\ person \in Account /\ person.email = email /\ (person.row <=> account[c].row)
        /\ person.unit = account[c].unit /\ person.name = account[c].name
    BY <2>2, <2>4 DEF Account
  <2> HIDE DEF person
  <2>6. /\ account' \in [Codes -> Account] /\ account'[c] = person
        /\ \A d \in Codes \ {c} : account'[d] = account[d]
    BY <1>4, <2>1, <2>5 DEF DirectoryInv, DirectoryTypeOK
  <2>7. /\ w \in Clerk /\ w.at = "unit" /\ w.run = old.run /\ w.known = known /\ w.byKey = old.byKey
        /\ w.todo = old.todo /\ w.feed = old.feed /\ w.tally = old.tally
    BY <1>4, <2>2 DEF Clerk, Places
  <2> HIDE DEF w
  <2>8. clerk' \in [Clerks -> Clerk] /\ clerk'[z] = w /\ \A y \in Clerks \ {z} : clerk'[y] = clerk[y]
    BY <2>1, <2>7 DEF DirectoryInv, DirectoryTypeOK
  <2>9. DirectoryTypeOK'
    BY <1>2, <2>1, <2>6, <2>8 DEF DirectoryInv, DirectoryTypeOK
  <2>10. z \in Runners'
    BY <2>7, <2>8 DEF Runners
  <2>11. Counts(z)'
    <3>1. InHand(z)' = InHand(z)
      BY <1>2, <2>7, <2>8 DEF InHand
    <3> QED
      BY <1>2, <1>5, <2>7, <2>8, <3>1 DEF Counts, Loaded
  <2>12. MapsHold(z)'
    <3>1. Alone => \A d \in Codes : account'[d].made => d \in known
      BY <1>5, <2>3, <2>6 DEF MapsHold
    <3> QED
      BY <1>2, <1>5, <2>7, <2>8, <3>1 DEF MapsHold, Alone, Live
  <2>13. UnitMeant(z)'
    BY <2>7, <2>8 DEF UnitMeant
  <2>14. KeysApart' /\ UnderUnits'
    BY <1>2, <2>5, <2>6 DEF DirectoryInv, KeysApart, UnderUnits, Alone, Live
  <2>15. OwnAddress'
    <3>1. account'[c].email = email /\ \A d \in Codes \ {c} : account'[d].email = account[d].email
      BY <2>5, <2>6
    <3> QED
      BY <1>4, <2>1, <3>1, OwnStays
  <2> QED
    BY <1>2, <1>3, <2>7, <2>8, <2>9, <2>10, <2>11, <2>12, <2>13, <2>14, <2>15, RunWrites
<1> QED
  BY <1>6, <1>7

(* What a run knows of the unit a person is in. *)
Keyed(z, i, n) == IF i = 0 THEN clerk[z].byKey ELSE [clerk[z].byKey EXCEPT ![Key(n)] = i]

LEMMA Resolved ==
  ASSUME DirectoryInv, NEW z \in Runners, clerk[z].at = "unit",
         NEW i \in 0..MaxUnits, NEW n \in UnitNames \cup {Unset}, i # 0 => n \in UnitNames,
         clerk' = [clerk EXCEPT ![z] = [@ EXCEPT !.at = "row", !.unit = i, !.name = n,
                                                 !.byKey = Keyed(z, i, n)]],
         UNCHANGED <<account, doubled, touched>>, UnitsStay,
         i \in {0} \cup DOMAIN units',
         Alone => /\ i # 0 => i \in Live' /\ units'[i].name = n
                  /\ \A j \in Live' : j \in Live \/ (j = i /\ i # 0)
                  /\ \A j \in Live : i # 0 /\ Key(units[j].name) = Key(n) => j = i
  PROVE  /\ clerk' \in [Clerks -> Clerk] /\ \A y \in Clerks \ {z} : clerk'[y] = clerk[y]
         /\ clerk'[z].run = clerk[z].run
         /\ z \in Runners' /\ Counts(z)' /\ MapsHold(z)' /\ UnitMeant(z)'
<1> DEFINE old == clerk[z]
           byKey == Keyed(z, i, n)
           w == [old EXCEPT !.at = "row", !.unit = i, !.name = n, !.byKey = byKey]
<1>1. z \in Clerks /\ old \in Clerk /\ old.byKey \in [KeysOf -> 0..MaxUnits]
  BY ClerkFields DEF DirectoryInv, Runners
<1>2. n \in UnitNames => Key(n) \in KeysOf
  BY DEF KeysOf
<1>3. /\ byKey \in [KeysOf -> 0..MaxUnits]
      /\ \A k \in KeysOf : IF i # 0 /\ k = Key(n) THEN byKey[k] = i ELSE byKey[k] = old.byKey[k]
  <2>1. CASE i = 0
    BY <2>1, <1>1 DEF Keyed
  <2>2. CASE i # 0
    <3>1. byKey = [old.byKey EXCEPT ![Key(n)] = i]
      BY <2>2 DEF Keyed
    <3> QED
      BY <3>1, <2>2, <1>1, <1>2
  <2> QED
    BY <2>1, <2>2
<1>4. clerk' = [clerk EXCEPT ![z] = w]
  OBVIOUS
<1> HIDE DEF byKey
<1>5. /\ w \in Clerk /\ w.at = "row" /\ w.unit = i /\ w.name = n /\ w.byKey = byKey /\ w.run = old.run
      /\ w.known = old.known /\ w.todo = old.todo /\ w.feed = old.feed /\ w.tally = old.tally
  BY <1>1, <1>3 DEF Clerk, Places, KeysOf
<1> HIDE DEF w
<1>6. clerk' \in [Clerks -> Clerk] /\ clerk'[z] = w /\ \A y \in Clerks \ {z} : clerk'[y] = clerk[y]
  BY <1>1, <1>4, <1>5 DEF DirectoryInv, DirectoryTypeOK
<1>7. z \in Runners'
  BY <1>1, <1>5, <1>6 DEF Runners
<1>8. Counts(z) /\ MapsHold(z) /\ old.at \in Loaded
  BY <1>1 DEF DirectoryInv, Loaded
<1>9. Counts(z)'
  <2>1. InHand(z)' = InHand(z)
    BY <1>5, <1>6 DEF InHand
  <2>2. \A k \in KeysOf : byKey[k] \in {0} \cup DOMAIN units'
    BY <1>3, <1>8 DEF Counts, UnitsStay
  <2> QED
    BY <1>5, <1>6, <1>8, <2>1, <2>2 DEF Counts, Loaded
<1>10. UnitMeant(z)'
  BY <1>5, <1>6 DEF UnitMeant, Alone
<1>11. MapsHold(z)'
  <2> SUFFICES ASSUME Alone
               PROVE  /\ \A c \in Codes : account[c].made => c \in old.known
                      /\ \A j \in Live' : byKey[Key(units'[j].name)] = j
                      /\ \A k \in KeysOf : byKey[k] # 0 =>
                           byKey[k] \in Live' /\ Key(units'[byKey[k]].name) = k
    BY <1>5, <1>6 DEF MapsHold, Alone
  <2>1. /\ \A c \in Codes : account[c].made => c \in old.known
        /\ \A j \in Live : old.byKey[Key(units[j].name)] = j
        /\ \A k \in KeysOf : old.byKey[k] # 0 => old.byKey[k] \in Live /\ Key(units[old.byKey[k]].name) = k
    BY <1>8 DEF MapsHold
  <2>2. \A j \in Live : j \in Live' /\ units'[j].name = units[j].name /\ Key(units[j].name) \in KeysOf
    BY UnitFields DEF DirectoryInv, UnitsStay, Live, Alone
  <2>3. ASSUME NEW j \in Live' PROVE byKey[Key(units'[j].name)] = j
    <3>1. CASE j \in Live
      <4>1. i # 0 /\ Key(units[j].name) = Key(n) => j = i
        BY <3>1
      <4> QED
        BY <3>1, <4>1, <2>1, <2>2, <1>3
    <3>2. CASE j \notin Live
      <4>1. j = i /\ i # 0 /\ units'[i].name = n
        BY <3>2
      <4> QED
        BY <4>1, <1>2, <1>3
    <3> QED
      BY <3>1, <3>2
  <2>4. ASSUME NEW k \in KeysOf, byKey[k] # 0
        PROVE  byKey[k] \in Live' /\ Key(units'[byKey[k]].name) = k
    BY <2>1, <2>2, <2>4, <1>3
  <2> QED
    BY <2>1, <2>3, <2>4
<1> QED
  BY <1>5, <1>6, <1>7, <1>9, <1>10, <1>11

LEMMA ResolveUnitStep ==
  ASSUME DirectoryInv, NEW z \in Clerks, ResolveUnit(z)
  PROVE  DirectoryInv'
<1> DEFINE with(i, n) == [clerk EXCEPT ![z] = [@ EXCEPT !.at = "row", !.unit = i, !.name = n,
                                                        !.byKey = Keyed(z, i, n)]]
<1>1. PICK c \in clerk[z].on :
        LET name == clerk[z].feed[c].unit
            found == IF name = Unset THEN 0 ELSE UnitFor(z, name)
        IN  CASE name = Unset -> clerk' = with(0, Unset) /\ UNCHANGED units
              [] name # Unset /\ found # 0 -> clerk' = with(found, units[found].name) /\ UNCHANGED units
              [] name # Unset /\ found = 0 /\ Named(name) # {} ->
                   clerk' = Settled(z, "failed") /\ UNCHANGED units
              [] OTHER -> /\ Len(units) < MaxUnits
                          /\ units' = Append(units, [live |-> TRUE, name |-> name, areas |-> {}])
                          /\ clerk' = with(Len(units) + 1, name)
  BY DEF ResolveUnit, Keyed
<1>2. clerk[z].at = "unit" /\ UNCHANGED <<account, runs, running, errands, doubled, touched, shared>>
  BY DEF ResolveUnit
<1> DEFINE name == clerk[z].feed[c].unit
           found == UnitFor(z, name)
<1>3. z \in Runners /\ c \in Codes /\ clerk[z].at \in Loaded /\ Counts(z) /\ MapsHold(z)
  BY <1>2, ClerkFields DEF DirectoryInv, Runners, Loaded
<1>4. name \in UnitNames \cup {Unset}
  <2>1. clerk[z].feed \in Feeds
    BY <1>3 DEF Counts
  <2> QED
    BY <1>3, <2>1, FeedFields
<1>5. name # Unset => /\ Key(name) \in KeysOf /\ found \in {0} \cup DOMAIN units
                      /\ Alone /\ found # 0 => found \in Live /\ Key(units[found].name) = Key(name)
                      /\ Alone => \A j \in Live : Key(units[j].name) = Key(name) => j = found
  <2> SUFFICES ASSUME name # Unset
               PROVE  /\ Key(name) \in KeysOf /\ found \in {0} \cup DOMAIN units
                      /\ Alone /\ found # 0 => found \in Live /\ Key(units[found].name) = Key(name)
                      /\ Alone => \A j \in Live : Key(units[j].name) = Key(name) => j = found
    OBVIOUS
  <2>1. Key(name) \in KeysOf
    BY <1>4 DEF KeysOf
  <2>2. found = clerk[z].byKey[Key(name)]
    BY DEF UnitFor
  <2> HIDE DEF found, name
  <2>3. found \in {0} \cup DOMAIN units
    BY <1>3, <2>1, <2>2 DEF Counts
  <2> QED
    BY <1>3, <2>1, <2>2, <2>3 DEF MapsHold
<1>7. CASE name = Unset
  <2>1. clerk' = with(0, Unset) /\ UNCHANGED units
    BY <1>1, <1>7
  <2>2. UnitsStay /\ Live' = Live /\ 0 \in 0..MaxUnits
    BY <2>1, ErrandsAssumption DEF UnitsStay, Live
  <2>3. /\ clerk' \in [Clerks -> Clerk] /\ \A y \in Clerks \ {z} : clerk'[y] = clerk[y]
        /\ clerk'[z].run = clerk[z].run
        /\ z \in Runners' /\ Counts(z)' /\ MapsHold(z)' /\ UnitMeant(z)'
    BY <1>2, <1>3, <2>1, <2>2, Resolved
  <2> QED
    BY <1>2, <1>3, <2>1, <2>3, RunGoesOn
<1>8. CASE name # Unset /\ found # 0
  <2>1. clerk' = with(found, units[found].name) /\ UNCHANGED units
    BY <1>1, <1>8
  <2> HIDE DEF found
  <2>2. found \in DOMAIN units /\ units[found].name \in UnitNames /\ found \in 0..MaxUnits
    BY <1>5, <1>8, UnitFields DEF DirectoryInv
  <2>3. UnitsStay /\ Live' = Live
    BY <2>1 DEF UnitsStay, Live
  <2>4. \A j \in Live : Alone /\ Key(units[j].name) = Key(units[found].name) => j = found
    BY <1>5, <1>8
  <2>5. /\ clerk' \in [Clerks -> Clerk] /\ \A y \in Clerks \ {z} : clerk'[y] = clerk[y]
        /\ clerk'[z].run = clerk[z].run
        /\ z \in Runners' /\ Counts(z)' /\ MapsHold(z)' /\ UnitMeant(z)'
    <3> DEFINE n == units[found].name
    <3>1. n \in UnitNames /\ clerk' = with(found, n)
      BY <2>1, <2>2
    <3>2. Alone => /\ found # 0 => found \in Live' /\ units'[found].name = n
                   /\ \A j \in Live' : j \in Live \/ (j = found /\ found # 0)
                   /\ \A j \in Live : found # 0 /\ Key(units[j].name) = Key(n) => j = found
      BY <1>5, <1>8, <2>1, <2>3, <2>4
    <3> HIDE DEF n
    <3> QED
      BY <1>2, <1>3, <2>1, <2>2, <2>3, <3>1, <3>2, Resolved
  <2> QED
    BY <1>2, <1>3, <2>1, <2>5, RunGoesOn
<1>9. CASE name # Unset /\ found = 0 /\ Named(name) # {}
  <2>1. clerk' = Settled(z, "failed") /\ UNCHANGED units
    BY <1>1, <1>9
  <2>2. ~Alone
    <3>1. PICK i \in Live : units[i].name = name
      BY <1>9 DEF Named
    <3>2. i # 0
      BY UnitFields DEF DirectoryInv
    <3> QED
      BY <1>5, <1>9, <3>1, <3>2
  <2>3. UnitsStay
    BY <2>1 DEF UnitsStay
  <2>4. /\ clerk' \in [Clerks -> Clerk] /\ \A y \in Clerks \ {z} : clerk'[y] = clerk[y]
        /\ clerk'[z].run = clerk[z].run
        /\ z \in Runners' /\ Counts(z)' /\ UnitMeant(z)'
    BY <1>2, <1>3, <2>1, <2>2, <2>3, SettledFields
  <2>5. MapsHold(z)'
    BY <1>2, <2>2 DEF MapsHold, Alone
  <2> QED
    BY <1>2, <1>3, <2>1, <2>4, <2>5, RunGoesOn
<1>10. CASE name # Unset /\ found = 0 /\ Named(name) = {}
  <2> DEFINE new == Len(units) + 1
             unit == [live |-> TRUE, name |-> name, areas |-> {}]
  <2>1. Len(units) < MaxUnits /\ units' = Append(units, unit) /\ clerk' = with(new, name)
    BY <1>1, <1>10
  <2>2. unit \in Unit /\ unit.live = TRUE /\ unit.name = name /\ name \in UnitNames
    BY <1>4, <1>10 DEF Unit
  <2> HIDE DEF unit, name, found
  <2>3. units \in Seq(Unit) /\ DOMAIN units = 1..Len(units) /\ Len(units) \in Nat
    BY UnitFields DEF DirectoryInv, DirectoryTypeOK, Unit
  <2>4. /\ units' \in Seq(Unit) /\ DOMAIN units' = DOMAIN units \cup {new} /\ units'[new] = unit
        /\ \A i \in DOMAIN units : units'[i] = units[i]
        /\ new \notin DOMAIN units /\ Len(units') = new /\ new \in 1..MaxUnits
    BY <2>1, <2>2, <2>3, ErrandsAssumption, AppendProperties
  <2> HIDE DEF new
  <2>5. UnitsStay /\ Live' = Live \cup {new} /\ \A i \in Live : units'[i] = units[i]
    BY <2>2, <2>4 DEF UnitsStay, Live
  <2>6. \A j \in Live : Alone => Key(units[j].name) # Key(name)
    <3>1. 0 \notin Live
      BY UnitFields DEF DirectoryInv
    <3> QED
      BY <1>5, <1>10, <3>1
  <2>7. /\ clerk' \in [Clerks -> Clerk] /\ \A y \in Clerks \ {z} : clerk'[y] = clerk[y]
        /\ clerk'[z].run = clerk[z].run
        /\ z \in Runners' /\ Counts(z)' /\ MapsHold(z)' /\ UnitMeant(z)'
    <3>1. Alone => /\ new # 0 => new \in Live' /\ units'[new].name = name
                   /\ \A j \in Live' : j \in Live \/ (j = new /\ new # 0)
                   /\ \A j \in Live : new # 0 /\ Key(units[j].name) = Key(name) => j = new
      BY <2>2, <2>4, <2>5, <2>6
    <3>2. new \in 0..MaxUnits /\ new \in {0} \cup DOMAIN units'
      BY <2>4
    <3> QED
      BY <1>2, <1>3, <2>1, <2>2, <2>5, <3>1, <3>2, Resolved
  <2>8. DirectoryTypeOK'
    BY <1>2, <2>4, <2>7 DEF DirectoryInv, DirectoryTypeOK, Unit
  <2>9. KeysApart'
    <3>1. Alone => \A i, j \in Live' : Key(units'[i].name) = Key(units'[j].name) => i = j
      BY <2>2, <2>4, <2>5, <2>6 DEF DirectoryInv, KeysApart
    <3> QED
      BY <1>2, <3>1 DEF KeysApart, Alone
  <2>10. UnderUnits'
    BY <1>2, <2>5 DEF DirectoryInv, UnderUnits, Alone
  <2>11. OwnAddress'
    BY <1>2 DEF DirectoryInv, OwnAddress, Elsewhere
  <2> QED
    BY <1>2, <1>3, <2>5, <2>7, <2>8, <2>9, <2>10, <2>11, RunWrites
<1> QED
  BY <1>7, <1>8, <1>9, <1>10

LEMMA UpsertRowStep ==
  ASSUME DirectoryInv, NEW z \in Clerks, UpsertRow(z)
  PROVE  DirectoryInv'
<1> DEFINE old == clerk[z]
<1>1. PICK c \in old.on :
        IF old.unit # 0 /\ old.unit \notin Live
        THEN clerk' = Settled(z, "failed") /\ UNCHANGED account
        ELSE /\ account' = [account EXCEPT ![c] = [@ EXCEPT !.row = TRUE, !.unit = old.unit,
                              !.name = old.name, !.area = old.feed[c].area]]
             /\ clerk' = Settled(z, IF old.isNew THEN "inserted" ELSE "updated")
  BY DEF UpsertRow
<1>2. old.at = "row" /\ UNCHANGED <<units, runs, running, errands, doubled, touched, shared>>
  BY DEF UpsertRow
<1>3. z \in Runners /\ UnitsStay
  BY <1>2 DEF Runners, UnitsStay
<1>4. old \in Clerk /\ c \in Codes /\ old.unit \in 0..MaxUnits /\ old.name \in UnitNames \cup {Unset}
  BY ClerkFields DEF DirectoryInv
<1>5. Counts(z) /\ MapsHold(z) /\ UnitMeant(z) /\ old.at \in Loaded
  BY <1>2 DEF DirectoryInv, Loaded
<1>6. CASE old.unit # 0 /\ old.unit \notin Live
  <2>1. clerk' = Settled(z, "failed") /\ UNCHANGED account
    BY <1>1, <1>6
  <2>2. ~Alone
    BY <1>2, <1>5, <1>6 DEF UnitMeant
  <2>3. /\ clerk' \in [Clerks -> Clerk] /\ \A y \in Clerks \ {z} : clerk'[y] = clerk[y]
        /\ clerk'[z].run = clerk[z].run
        /\ z \in Runners' /\ Counts(z)' /\ UnitMeant(z)'
    BY <1>2, <1>3, <2>1, <2>2, SettledFields
  <2>4. MapsHold(z)'
    BY <1>2, <2>2 DEF MapsHold, Alone
  <2> QED
    BY <1>2, <1>3, <2>1, <2>3, <2>4, RunGoesOn
<1>7. CASE ~(old.unit # 0 /\ old.unit \notin Live)
  <2> DEFINE box == IF old.isNew THEN "inserted" ELSE "updated"
             area == old.feed[c].area
             yes == TRUE
             person == [account[c] EXCEPT !.row = yes, !.unit = old.unit, !.name = old.name, !.area = area]
  <2>1. clerk' = Settled(z, box) /\ account' = [account EXCEPT ![c] = person]
    BY <1>1, <1>7
  <2>2. box \in {"inserted", "updated"} /\ yes \in BOOLEAN /\ yes = TRUE
    OBVIOUS
  <2>3. area \in Areas \cup {Unset}
    <3>1. old.feed \in Feeds
      BY <1>5 DEF Counts
    <3> QED
      BY <1>4, <3>1, FeedFields
  <2> HIDE DEF box, area, yes
  <2>4. account[c] \in Account
    BY <1>4 DEF DirectoryInv, DirectoryTypeOK
  <2>5. /\ person \in Account /\ (person.row <=> yes) /\ person.unit = old.unit /\ person.name = old.name
        /\ (person.made <=> account[c].made) /\ person.email = account[c].email
    BY <1>4, <2>2, <2>3, <2>4 DEF Account
  <2> HIDE DEF person
  <2>6. /\ account' \in [Codes -> Account] /\ account'[c] = person
        /\ \A d \in Codes \ {c} : account'[d] = account[d]
    BY <1>4, <2>1, <2>5 DEF DirectoryInv, DirectoryTypeOK
  <2>7. /\ clerk' \in [Clerks -> Clerk] /\ \A y \in Clerks \ {z} : clerk'[y] = clerk[y]
        /\ clerk'[z].at = "each" /\ clerk'[z].run = clerk[z].run /\ clerk'[z].known = clerk[z].known
        /\ clerk'[z].byKey = clerk[z].byKey
        /\ z \in Runners' /\ Counts(z)' /\ UnitMeant(z)'
    BY <1>2, <1>3, <2>1, <2>2, SettledFields
  <2>8. DirectoryTypeOK'
    BY <1>2, <2>6, <2>7 DEF DirectoryInv, DirectoryTypeOK
  <2>9. \A d \in Codes : account'[d].made => account[d].made
    BY <2>5, <2>6
  <2>10. MapsHold(z)'
    BY <1>2, <1>5, <2>7, <2>9 DEF MapsHold, Alone, Live
  <2>11. UnderUnits'
    <3> SUFFICES ASSUME NEW d \in Codes, account'[d].unit # 0
                 PROVE  /\ account'[d].row /\ account'[d].unit \in Live
                        /\ Alone => account'[d].name = units[account'[d].unit].name
      BY <1>2 DEF UnderUnits, Alone, Live
    <3>1. CASE d = c
      <4>1. account'[d] = person /\ old.unit \in Live
        BY <3>1, <1>7, <2>5, <2>6
      <4>2. person.row
        BY <2>2, <2>5
      <4>3. Alone => old.name = units[old.unit].name
        BY <3>1, <1>2, <1>5, <2>5, <2>6 DEF UnitMeant
      <4> QED
        BY <4>1, <4>2, <4>3, <2>5
    <3>2. CASE d # c
      BY <3>2, <2>6 DEF DirectoryInv, UnderUnits
    <3> QED
      BY <3>1, <3>2
  <2>12. KeysApart'
    BY <1>2 DEF DirectoryInv, KeysApart, Alone, Live
  <2>13. OwnAddress'
    <3>1. \A d \in Codes : account'[d].email = account[d].email
      BY <2>5, <2>6
    <3> QED
      BY <3>1, <1>2 DEF DirectoryInv, OwnAddress, Elsewhere
  <2> QED
    BY <1>2, <1>3, <2>7, <2>8, <2>10, <2>11, <2>12, <2>13, RunWrites
<1> QED
  BY <1>6, <1>7

LEMMA RestartStep ==
  ASSUME DirectoryInv, RestartDirectory
  PROVE  DirectoryInv'
<1> DEFINE closed(n) == IF runs[n].status = "running" THEN [runs[n] EXCEPT !.status = "failed"] ELSE runs[n]
<1>1. /\ clerk' = [z \in Clerks |-> Away] /\ running' = FALSE /\ runs' = [n \in DOMAIN runs |-> closed(n)]
      /\ UNCHANGED <<account, units, errands, doubled, touched, shared>>
  BY DEF RestartDirectory
<1>2. \A n \in DOMAIN runs : /\ closed(n) \in Run /\ closed(n).status # "running"
                             /\ closed(n).status = "success" => closed(n) = runs[n]
  BY RunFields DEF DirectoryInv, Run
<1> HIDE DEF closed
<1>3. runs' \in Seq(Run) /\ DOMAIN runs' = DOMAIN runs /\ \A n \in DOMAIN runs : runs'[n] = closed(n)
  <2>1. runs \in Seq(Run) /\ DOMAIN runs = 1..Len(runs) /\ Len(runs) \in Nat
    BY RunFields DEF DirectoryInv, DirectoryTypeOK
  <2> QED
    BY <1>1, <1>2, <2>1
<1>4. clerk' \in [Clerks -> Clerk] /\ \A z \in Clerks : clerk'[z] = Away
  BY <1>1, AwayType
<1>5. DirectoryTypeOK'
  BY <1>1, <1>3, <1>4 DEF DirectoryInv, DirectoryTypeOK
<1>6. Runners' = {}
  BY <1>4, AwayType DEF Runners
<1>7. RowsHeld' /\ OneRunner'
  BY <1>2, <1>3, <1>6 DEF RowsHeld, OneRunner
<1>8. RunsWhole'
  BY <1>1, <1>2, <1>3 DEF DirectoryInv, RunsWhole, Whole
<1>9. \A z \in Clerks : (Counts(z) /\ MapsHold(z) /\ UnitMeant(z))'
  BY <1>4, AwayType DEF Counts, MapsHold, UnitMeant, Loaded
<1>10. (KeysApart /\ UnderUnits /\ OwnAddress)'
  BY <1>1 DEF DirectoryInv, KeysApart, UnderUnits, OwnAddress, Alone, Live, Elsewhere
<1> QED
  BY <1>5, <1>7, <1>8, <1>9, <1>10 DEF DirectoryInv

-----------------------------------------------------------------------------
(* HR's own changes *)

(* What is done by hand leaves every run where it is. *)
LEMMA ByHand ==
  ASSUME DirectoryInv, DirectoryTypeOK', UNCHANGED <<runs, running, clerk, doubled, shared>>,
         touched => touched', UnitsStay, ~touched' => DOMAIN units' = DOMAIN units,
         \A c \in Codes : account'[c].made = account[c].made /\ account'[c].email = account[c].email,
         UnderUnits'
  PROVE  DirectoryInv'
<1>1. (RowsHeld /\ RunsWhole /\ OneRunner)'
  BY DEF DirectoryInv, RowsHeld, RunsWhole, Whole, OneRunner, Runners
<1>2. OwnAddress'
  BY DEF DirectoryInv, OwnAddress, Elsewhere
<1>3. \A z \in Clerks : Counts(z)'
  BY DEF DirectoryInv, Counts, InHand, UnitsStay
<1> HIDE DEF DirectoryInv
<1>4. CASE touched'
  BY <1>1, <1>2, <1>3, <1>4 DEF DirectoryInv, MapsHold, UnitMeant, KeysApart, Alone
<1>5. CASE ~touched' /\ DOMAIN units' = DOMAIN units
  <2>1. Live' = Live /\ \A i \in Live : units'[i].name = units[i].name
    BY <1>5 DEF UnitsStay, Live
  <2>2. \A z \in Clerks : MapsHold(z)' /\ UnitMeant(z)'
    <3> SUFFICES ASSUME NEW z \in Clerks PROVE MapsHold(z)' /\ UnitMeant(z)'
      OBVIOUS
    <3>1. MapsHold(z) /\ UnitMeant(z) /\ clerk' = clerk /\ (Alone' => Alone)
      BY DEF DirectoryInv, Alone
    <3>2. MapsHold(z)'
      BY <2>1, <3>1 DEF MapsHold
    <3>3. UnitMeant(z)'
      BY <2>1, <3>1 DEF UnitMeant
    <3> QED
      BY <3>2, <3>3
  <2>3. KeysApart'
    <3>1. KeysApart /\ (Alone' => Alone)
      BY DEF DirectoryInv, Alone
    <3> QED
      BY <2>1, <3>1 DEF KeysApart
  <2> QED
    BY <1>1, <1>2, <1>3, <2>2, <2>3 DEF DirectoryInv
<1> QED
  BY <1>4, <1>5

(* A unit put where it was, or one more made. *)
LEMMA UnitPut ==
  ASSUME DirectoryTypeOK, NEW i \in DOMAIN units, NEW u \in Unit, units' = [units EXCEPT ![i] = u]
  PROVE  /\ units' \in Seq([live : BOOLEAN, name : UnitNames, areas : SUBSET Areas]) /\ Len(units') = Len(units)
         /\ DOMAIN units' = DOMAIN units
         /\ units'[i] = u /\ \A j \in DOMAIN units \ {i} : units'[j] = units[j]
<1>1. units \in Seq(Unit)
  BY DEF DirectoryTypeOK, Unit
<1>2. units' \in Seq(Unit) /\ Len(units') = Len(units) /\ DOMAIN units' = DOMAIN units
  BY <1>1
<1> QED
  BY <1>1, <1>2 DEF Unit

LEMMA CreateUnitStep ==
  ASSUME DirectoryInv, CreateUnit
  PROVE  DirectoryInv'
<1>1. PICK name \in UnitNames : units' = Append(units, [live |-> TRUE, name |-> name, areas |-> {}])
  BY DEF CreateUnit
<1> DEFINE unit == [live |-> TRUE, name |-> name, areas |-> {}]
<1>2. /\ Errand("unit") /\ Len(units) < MaxUnits /\ touched' = TRUE
      /\ UNCHANGED <<account, runs, running, clerk, doubled, shared>>
  BY DEF CreateUnit
<1>3. units \in Seq(Unit) /\ unit \in Unit /\ Len(units) \in Nat
  BY DEF DirectoryInv, DirectoryTypeOK, Unit
<1> HIDE DEF unit
<1>4. /\ units' \in Seq(Unit) /\ Len(units') = Len(units) + 1 /\ DOMAIN units \subseteq DOMAIN units'
      /\ \A i \in DOMAIN units : units'[i] = units[i]
  <2>1. units' = Append(units, unit)
    BY <1>1 DEF unit
  <2> QED
    BY <1>3, <2>1, AppendProperties
<1>5. DirectoryTypeOK'
  <2>1. errands' \in [Requested -> Nat]
    BY <1>2, ErrandType DEF Requested, DirectoryInv
  <2>2. Len(units') <= MaxUnits
    BY <1>2, <1>3, <1>4, ErrandsAssumption
  <2> QED
    BY <1>2, <1>4, <2>1, <2>2 DEF DirectoryInv, DirectoryTypeOK, Unit
<1>6. UnderUnits'
  BY <1>2, <1>4 DEF DirectoryInv, UnderUnits, Alone, Live
<1>7. UnitsStay
  BY <1>2, <1>4 DEF UnitsStay
<1> QED
  BY <1>2, <1>5, <1>6, <1>7, ByHand

LEMMA RenameUnitStep ==
  ASSUME DirectoryInv, RenameUnit
  PROVE  DirectoryInv'
<1>1. PICK i \in Live, name \in UnitNames : units' = [units EXCEPT ![i].name = name]
  BY DEF RenameUnit
<1>2. Errand("unit") /\ touched' = TRUE /\ UNCHANGED <<account, runs, running, clerk, doubled, shared>>
  BY DEF RenameUnit
<1> DEFINE u == [units[i] EXCEPT !.name = name]
<1>3. i \in DOMAIN units /\ u \in Unit /\ u.live = units[i].live
  BY UnitFields DEF DirectoryInv, Unit, Live
<1>4. units' = [units EXCEPT ![i] = u]
  BY <1>1
<1> HIDE DEF u
<1>5. /\ units' \in Seq([live : BOOLEAN, name : UnitNames, areas : SUBSET Areas]) /\ Len(units') = Len(units)
      /\ DOMAIN units' = DOMAIN units
      /\ units'[i] = u /\ \A j \in DOMAIN units \ {i} : units'[j] = units[j]
  BY <1>3, <1>4, UnitPut DEF DirectoryInv
<1>6. DirectoryTypeOK'
  <2>1. errands' \in [Requested -> Nat]
    BY <1>2, ErrandType DEF Requested, DirectoryInv
  <2> QED
    BY <1>2, <1>5, <2>1 DEF DirectoryInv, DirectoryTypeOK
<1>7. UnderUnits'
  <2>1. Live' = Live
    BY <1>3, <1>5 DEF Live
  <2> QED
    BY <1>2, <2>1 DEF DirectoryInv, UnderUnits, Alone
<1>8. UnitsStay
  BY <1>2, <1>5 DEF UnitsStay
<1> QED
  BY <1>2, <1>6, <1>7, <1>8, ByHand

LEMMA RemoveUnitStep ==
  ASSUME DirectoryInv, RemoveUnit
  PROVE  DirectoryInv'
<1>1. PICK i \in Live :
        /\ units' = [units EXCEPT ![i].live = FALSE]
        /\ account' = [c \in Codes |-> IF account[c].unit = i THEN [account[c] EXCEPT !.unit = 0]
                                       ELSE account[c]]
  BY DEF RemoveUnit
<1>2. Errand("unit") /\ touched' = TRUE /\ UNCHANGED <<runs, running, clerk, doubled, shared>>
  BY DEF RemoveUnit
<1> DEFINE no == FALSE
           none == 0
           u == [units[i] EXCEPT !.live = no]
           freed(c) == [account[c] EXCEPT !.unit = none]
<1>14. no = FALSE /\ no \in BOOLEAN /\ none = 0 /\ none \in 0..MaxUnits
  BY ErrandsAssumption
<1>4. units' = [units EXCEPT ![i] = u]
  BY <1>1
<1> HIDE DEF no
<1>3. i \in DOMAIN units /\ u \in Unit
  BY <1>14, UnitFields DEF DirectoryInv, Unit, Live
<1>15. u.live = no
  BY <1>14, UnitFields DEF DirectoryInv, Unit, Live
<1> HIDE DEF u
<1>5. /\ units' \in Seq([live : BOOLEAN, name : UnitNames, areas : SUBSET Areas]) /\ Len(units') = Len(units)
      /\ DOMAIN units' = DOMAIN units
      /\ units'[i] = u /\ \A j \in DOMAIN units \ {i} : units'[j] = units[j]
  BY <1>3, <1>4, UnitPut DEF DirectoryInv
<1>6. \A c \in Codes : account'[c] = IF account[c].unit = i THEN freed(c) ELSE account[c]
  BY <1>1
<1> HIDE DEF none
<1>7. \A c \in Codes : /\ freed(c) \in Account /\ freed(c).unit = none /\ (freed(c).made <=> account[c].made)
                       /\ (freed(c).row <=> account[c].row) /\ freed(c).email = account[c].email
  <2> TAKE c \in Codes
  <2>1. account[c] \in Account
    BY DEF DirectoryInv, DirectoryTypeOK
  <2> QED
    BY <1>14, <2>1 DEF Account
<1> HIDE DEF freed
<1>8. account' \in [Codes -> Account]
  <2>1. account' = [c \in Codes |-> account'[c]]
    BY <1>1
  <2>2. \A c \in Codes : account'[c] \in Account
    BY <1>6, <1>7 DEF DirectoryInv, DirectoryTypeOK
  <2> QED
    BY <2>1, <2>2
<1>9. DirectoryTypeOK'
  <2>1. errands' \in [Requested -> Nat]
    BY <1>2, ErrandType DEF Requested, DirectoryInv
  <2> QED
    BY <1>2, <1>5, <1>8, <2>1 DEF DirectoryInv, DirectoryTypeOK
<1>10. UnderUnits'
  <2> SUFFICES ASSUME NEW c \in Codes, account'[c].unit # 0
               PROVE  account'[c].row /\ account'[c].unit \in Live'
    BY <1>2 DEF UnderUnits, Alone
  <2>1. account[c].unit # i /\ account'[c] = account[c]
    BY <1>6, <1>7, <1>14
  <2>2. account[c].row /\ account[c].unit \in Live
    BY <2>1 DEF DirectoryInv, UnderUnits
  <2> QED
    BY <1>5, <2>1, <2>2 DEF Live
<1>11. UnitsStay
  BY <1>2, <1>5 DEF UnitsStay
<1>12. \A c \in Codes : (account'[c].made <=> account[c].made) /\ account'[c].email = account[c].email
  BY <1>6, <1>7
<1>13. \A c \in Codes : account'[c].made = account[c].made
  <2>1. \A c \in Codes : account'[c].made \in BOOLEAN /\ account[c].made \in BOOLEAN
    BY <1>8 DEF DirectoryInv, DirectoryTypeOK, Account
  <2> QED
    BY <1>12, <2>1
<1> QED
  BY <1>2, <1>5, <1>9, <1>10, <1>11, <1>12, <1>13, ByHand

LEMMA DepartmentStep ==
  ASSUME DirectoryInv, AddDepartment \/ RemoveDepartment
  PROVE  DirectoryInv'
<1>1. PICK i \in Live : \E areas \in SUBSET Areas : units' = [units EXCEPT ![i] = [@ EXCEPT !.areas = areas]]
  <2>1. \A i \in Live : units[i].areas \in SUBSET Areas
    BY UnitFields DEF DirectoryInv, Unit
  <2>2. CASE AddDepartment
    <3>1. PICK i \in Live, area \in Areas : units' = [units EXCEPT ![i].areas = @ \cup {area}]
      BY <2>2 DEF AddDepartment
    <3>2. units[i].areas \cup {area} \in SUBSET Areas
      BY <2>1
    <3> QED
      BY <3>1, <3>2
  <2>3. CASE RemoveDepartment
    <3>1. PICK i \in Live : \E area \in units[i].areas : units' = [units EXCEPT ![i].areas = @ \ {area}]
      BY <2>3 DEF RemoveDepartment
    <3>2. PICK area \in units[i].areas : units' = [units EXCEPT ![i].areas = @ \ {area}]
      BY <3>1
    <3>3. units[i].areas \ {area} \in SUBSET Areas
      BY <2>1
    <3> QED
      BY <3>2, <3>3
  <2> QED
    BY <2>2, <2>3
<1>2. PICK areas \in SUBSET Areas : units' = [units EXCEPT ![i] = [@ EXCEPT !.areas = areas]]
  BY <1>1
<1>3. Errand("area") /\ UNCHANGED <<account, runs, running, clerk, doubled, touched, shared>>
  BY DEF AddDepartment, RemoveDepartment
<1> DEFINE u == [units[i] EXCEPT !.areas = areas]
<1>4. i \in DOMAIN units /\ u \in Unit /\ u.live = units[i].live /\ u.name = units[i].name
  BY UnitFields DEF DirectoryInv, Unit, Live
<1>5. units' = [units EXCEPT ![i] = u]
  BY <1>2
<1> HIDE DEF u
<1>6. /\ units' \in Seq([live : BOOLEAN, name : UnitNames, areas : SUBSET Areas]) /\ Len(units') = Len(units)
      /\ DOMAIN units' = DOMAIN units
      /\ units'[i] = u /\ \A j \in DOMAIN units \ {i} : units'[j] = units[j]
  BY <1>4, <1>5, UnitPut DEF DirectoryInv
<1>7. DirectoryTypeOK'
  <2>1. errands' \in [Requested -> Nat]
    BY <1>3, ErrandType DEF Requested, DirectoryInv
  <2> QED
    BY <1>3, <1>6, <2>1 DEF DirectoryInv, DirectoryTypeOK
<1>8. UnitsStay
  BY <1>4, <1>6 DEF UnitsStay
<1>9. UnderUnits'
  BY <1>3, <1>4, <1>6 DEF DirectoryInv, UnderUnits, Alone, Live
<1> QED
  BY <1>3, <1>6, <1>7, <1>8, <1>9, ByHand

-----------------------------------------------------------------------------
(* The theorem *)

LEMMA DirectoryStart ==
  ASSUME DirectoryInit
  PROVE  DirectoryInv
<1>1. \A z \in Clerks : clerk[z] = Away
  BY DEF DirectoryInit
<1>2. Unmade \in Account /\ Unmade.unit = 0 /\ Unmade.email = Unset
  BY ErrandsAssumption DEF Unmade, Account
<1>3. DirectoryTypeOK
  <2>1. units = <<>> /\ runs = <<>> /\ Len(units) = 0 /\ 0 <= MaxUnits
    BY ErrandsAssumption DEF DirectoryInit
  <2>2. clerk \in [Clerks -> Clerk] /\ account \in [Codes -> Account]
    BY <1>2, AwayType DEF DirectoryInit
  <2>3. errands \in [Requested -> Nat]
    <3> HIDE DEF Requested
    <3>1. errands \in Errands
      BY DEF DirectoryInit
    <3> QED
      BY <3>1, ErrandsAssumption
  <2>4. doubled = FALSE /\ touched = FALSE /\ shared = FALSE /\ running = FALSE
    BY DEF DirectoryInit
  <2>5. /\ units \in Seq([live : BOOLEAN, name : UnitNames, areas : SUBSET Areas])
        /\ runs \in Seq(Run) /\ Len(units) <= MaxUnits
    BY <2>1
  <2>6. {doubled, touched, shared} \subseteq BOOLEAN /\ running \in BOOLEAN
    BY <2>4
  <2> QED
    BY <2>2, <2>3, <2>5, <2>6 DEF DirectoryTypeOK
<1>4. Runners = {} /\ Live = {} /\ DOMAIN runs = {}
  BY <1>1, AwayType DEF DirectoryInit, Runners, Live
<1>5. RowsHeld /\ RunsWhole /\ OneRunner /\ KeysApart
  BY <1>4 DEF RowsHeld, RunsWhole, OneRunner, KeysApart
<1>6. \A z \in Clerks : Counts(z) /\ MapsHold(z) /\ UnitMeant(z)
  BY <1>1, AwayType DEF Counts, MapsHold, UnitMeant, Loaded
<1>7. UnderUnits /\ OwnAddress
  BY <1>2 DEF DirectoryInit, UnderUnits, OwnAddress, Elsewhere
<1> QED
  BY <1>3, <1>5, <1>6, <1>7 DEF DirectoryInv

LEMMA DirectoryStep ==
  ASSUME DirectoryInv, [DirectoryNext]_zvars
  PROVE  DirectoryInv'
<1>1. ASSUME NEW z \in Clerks,
             \/ StartSync(z) \/ CurrentRun(z) \/ BeginRun(z) \/ FetchEmployees(z) \/ LoadMaps(z)
             \/ NextEmployee(z) \/ UpsertUser(z) \/ ResolveUnit(z) \/ UpsertRow(z) \/ EndRun(z)
             \/ EditEmployee(z) \/ CheckAddress(z) \/ WriteAddress(z)
      PROVE  DirectoryInv'
  BY <1>1, AsideStep, BeginRunStep, FetchEmployeesStep, LoadMapsStep, NextEmployeeStep, UpsertUserStep,
     ResolveUnitStep, UpsertRowStep, EndRunStep, WriteAddressStep
<1>2. CASE UNCHANGED zvars
  <2>1. UNCHANGED <<account, units, runs, running, clerk, errands, doubled, touched, shared>>
    BY <1>2 DEF zvars
  <2>2. DirectoryTypeOK' /\ UnitsStay /\ UnderUnits'
    BY <2>1 DEF DirectoryInv, DirectoryTypeOK, UnitsStay, UnderUnits, Alone, Live
  <2> QED
    BY <2>1, <2>2, ByHand
<1> QED
  BY <1>1, <1>2, RestartStep, CreateUnitStep, RenameUnitStep, RemoveUnitStep, DepartmentStep
     DEF DirectoryNext

LEMMA DirectoryMeans ==
  ASSUME DirectoryInv
  PROVE  DirectoryWhole
<1>1. RunsSettle
  <2>1. \A n \in DOMAIN runs : runs[n].status = "running" <=> \E z \in Runners : clerk[z].run = n
    BY DEF DirectoryInv, RowsHeld
  <2> QED
    BY <2>1 DEF DirectoryInv, RunsSettle, RunsWhole, Whole, Sum
<1>2. doubled \/ touched \/
        /\ \A i, j \in Live : Key(units[i].name) = Key(units[j].name) => i = j
        /\ \A c \in Codes : account[c].unit # 0 =>
             /\ account[c].name = units[account[c].unit].name
             /\ account[c].area \in GetStructure(units[account[c].unit].name)
  BY DEF DirectoryInv, KeysApart, UnderUnits, Alone, GetStructure
<1>3. \A c \in Codes : account[c].unit # 0 => account[c].row /\ account[c].unit \in Live
  BY DEF DirectoryInv, UnderUnits
<1>4. shared \/ \A c \in Codes : ~Elsewhere(c, account[c].email)
  BY DEF DirectoryInv, OwnAddress
<1>5. ASSUME NEW c \in Codes, account[c].row, account[c].area # Unset
      PROVE  ListDepartments[account[c].area] > 0
  <2> DEFINE area == account[c].area
             there == {d \in Codes : account[d].row /\ account[d].area = area}
  <2>1. ListDepartments[area] = Cardinality(there)
    BY <1>5 DEF ListDepartments
  <2>2. IsFiniteSet(there) /\ c \in there
    BY <1>5, CodesAssumption, FS_Subset
  <2>3. Cardinality(there) \in Nat /\ Cardinality(there) # 0
    BY <2>2, FS_CardinalityType, FS_EmptySet
  <2> QED
    BY <2>1, <2>3
<1> QED
  BY <1>1, <1>2, <1>3, <1>4, <1>5 DEF DirectoryWhole, OneUnitEach

(* A row says "running" while a run is at it, and no longer; a run that ends well has       *)
(* accounted for everybody; and, until HR changes units by hand or two runs are under way,  *)
(* one unit stands for every name, its people are under it by name and by reference, and    *)
(* the forms offer their departments with it (zinghr.service, employees.service,            *)
(* units.service).                                                                          *)
THEOREM DirectoryTheorem == DirectorySpec => [](DirectoryTypeOK /\ DirectoryWhole)
<1>1. DirectoryInit => DirectoryInv
  BY DirectoryStart
<1>2. DirectoryInv /\ [DirectoryNext]_zvars => DirectoryInv'
  BY DirectoryStep
<1>3. DirectoryInv => DirectoryTypeOK /\ DirectoryWhole
  BY DirectoryMeans DEF DirectoryInv
<1> QED
  BY <1>1, <1>2, <1>3, PTL DEF DirectorySpec
=============================================================================
