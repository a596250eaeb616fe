----------------------- MODULE ApprovalSheetsProofs -----------------------
(***************************************************************************)
(* Theorems of ApprovalSheets for any number of requests, candidates,      *)
(* board members, sheets and resends, with or without crashes.             *)
(*                                                                         *)
(* `Structure` holds whatever lands out of turn.  Its heart is that votes  *)
(* are never taken back (`Kept`): what a request in flight knows to be     *)
(* signed when it claims an answer is still signed when it acts on it.     *)
(* `Truth` holds as long as `inTurn` and adds the candidates' rows.        *)
(***************************************************************************)
EXTENDS ApprovalSheets, TLAPS

(* The signatures a decision needs. *)
Grounds(s, decision) ==
  IF decision = "approved"
    THEN Signed(s, "chro", "approved") /\ Signed(s, "board", "approved")
    ELSE \E stage \in Stages : Signed(s, stage, "rejected")

Targeted == {"place", "open", "clear", "issue", "claim", "decide", "spread"}

(* What a request in flight can count on. *)
Linked(r) ==
  LET q == req[r] IN
    /\ q.write \in Targeted => q.sheet \in DOMAIN sheets
    /\ q.write \in {"create", "place"} => q.stage = "chro"
    /\ q.write = "create" => q.to \in SUBSET Members
    /\ q.write \in {"open", "clear", "issue"} /\ q.stage = "board" =>
         Signed(q.sheet, "chro", "approved")
    /\ q.write = "claim" =>
         /\ q.vote \in DOMAIN votes
         /\ votes[q.vote].sheet = q.sheet
         /\ votes[q.vote].stage = q.stage
    /\ q.write \in {"decide", "spread"} => Grounds(q.sheet, q.decision)

Structure ==
  /\ TypeOK
  /\ BoardAfterChro
  /\ DecidedOnAnswers
  /\ \A v \in DOMAIN votes : votes[v].sheet \in DOMAIN sheets
  /\ \A s \in DOMAIN sheets : sheets[s].stage = "board" => Signed(s, "chro", "approved")
  /\ \A i \in DOMAIN rows : rows[i].sheet \in 0..Len(sheets)
  /\ \A r \in Requests : Linked(r)

-----------------------------------------------------------------------------
(* Sequences *)

(* Rewriting the elements of a sequence in place gives a sequence as long. *)
LEMMA Rewritten ==
  ASSUME NEW S, NEW s \in Seq(S), NEW t,
         t = [i \in DOMAIN s |-> t[i]], \A i \in DOMAIN s : t[i] \in S
  PROVE  t \in Seq(S) /\ Len(t) = Len(s) /\ DOMAIN t = DOMAIN s
<1>1. DOMAIN s = 1..Len(s) /\ Len(s) \in Nat
  OBVIOUS
<1>2. t \in [1..Len(s) -> S]
  BY <1>1
<1>. QED
  BY <1>1, <1>2

LEMMA Extended ==
  ASSUME NEW S, NEW s \in Seq(S), NEW e \in S
  PROVE  LET t == Append(s, e) IN
         /\ t \in Seq(S)
         /\ Len(t) = Len(s) + 1
         /\ DOMAIN t = 1..(Len(s) + 1)
         /\ DOMAIN s = 1..Len(s)
         /\ \A i \in DOMAIN s : i \in DOMAIN t /\ t[i] = s[i]
         /\ t[Len(s) + 1] = e
OBVIOUS

-----------------------------------------------------------------------------
(* Types *)

LEMMA IdleType == Idle \in Request
BY DEF Idle, Request, Writes, Stages, Decisions

LEMMA BeginType ==
  ASSUME TypeOK, NEW r \in Requests, NEW q \in Request, Begin(r, q)
  PROVE  /\ req' \in [Requests -> Request]
         /\ req'[r] = q
         /\ \A o \in Requests \ {r} : req'[o] = req[o]
BY DEF Begin, TypeOK

LEMMA EndType ==
  ASSUME TypeOK, NEW r \in Requests, End(r)
  PROVE  /\ req' \in [Requests -> Request]
         /\ req'[r] = Idle
         /\ \A o \in Requests \ {r} : req'[o] = req[o]
BY IdleType DEF End, TypeOK

LEMMA GoToType ==
  ASSUME TypeOK, NEW r \in Requests, NEW w \in Writes, GoTo(r, w)
  PROVE  /\ req' \in [Requests -> Request]
         /\ req'[r] = [req[r] EXCEPT !.write = w]
         /\ \A o \in Requests \ {r} : req'[o] = req[o]
<1>1. req[r] \in Request
  BY DEF TypeOK
<1>2. [req[r] EXCEPT !.write = w] \in Request
  BY <1>1 DEF Request
<1>. QED
  BY <1>2 DEF GoTo, TypeOK

(* What a request may set out to do, and what it has read by then. *)
Begun(q) ==
  \/ /\ q.write \in {"request", "override"}
  \/ /\ q.write = "create"
     /\ q.stage = "chro"
     /\ q.to \in SUBSET Members
  \/ /\ q.write = "clear"
     /\ q.sheet \in DOMAIN sheets
     /\ q.stage = sheets[q.sheet].stage
  \/ /\ q.write = "claim"
     /\ q.vote \in DOMAIN votes
     /\ q.sheet = votes[q.vote].sheet
     /\ q.stage = votes[q.vote].stage

LEMMA AskBegins ==
  ASSUME TypeOK, NEW r \in Requests, Ask(r)
  PROVE  /\ \E q \in Request : Begin(r, q) /\ Begun(q)
         /\ UNCHANGED <<rows, sheets, votes, inTurn>>
         /\ resends' \in Nat
<1>1. CASE SendForApproval(r)
  <2>1. PICK c \in Candidates :
          Begin(r, [Idle EXCEPT !.write = "request", !.cands = {c}, !.rows = LatestRow(c)])
    BY <1>1 DEF SendForApproval
  <2> DEFINE q == [Idle EXCEPT !.write = "request", !.cands = {c}, !.rows = LatestRow(c)]
  <2>2. LatestRow(c) \in SUBSET Nat /\ c \in Candidates
    BY DEF LatestRow, TypeOK
  <2>3. q \in Request /\ q.write = "request"
    BY <2>2, IdleType DEF Idle, Request, Writes
  <2>. QED
    BY <1>1, <2>1, <2>3 DEF Begun, SendForApproval, TypeOK
<1>2. CASE HrApprove(r)
  <2>1. PICK c \in Candidates, read \in SUBSET DOMAIN rows :
          Begin(r, [Idle EXCEPT !.write = "override", !.cands = {c}, !.rows = read])
    BY <1>2 DEF HrApprove
  <2> DEFINE q == [Idle EXCEPT !.write = "override", !.cands = {c}, !.rows = read]
  <2>2. read \in SUBSET Nat
    BY DEF TypeOK
  <2>3. q \in Request /\ q.write = "override"
    BY <2>2, IdleType DEF Idle, Request, Writes
  <2>. QED
    BY <1>2, <2>1, <2>3 DEF Begun, HrApprove, TypeOK
<1>3. CASE SendSheet(r)
  <2>1. PICK picked \in SUBSET DOMAIN rows, board \in SUBSET Members :
          Begin(r, [Idle EXCEPT !.write = "create", !.rows = picked, !.to = board])
    BY <1>3 DEF SendSheet
  <2> DEFINE q == [Idle EXCEPT !.write = "create", !.rows = picked, !.to = board]
  <2>2. picked \in SUBSET Nat /\ board \in SUBSET Users
    BY DEF TypeOK, Users
  <2>3. q \in Request /\ q.write = "create" /\ q.stage = "chro" /\ q.to = board
    BY <2>2, IdleType DEF Idle, Request, Writes
  <2>. QED
    BY <1>3, <2>1, <2>3 DEF Begun, SendSheet, TypeOK
<1>4. CASE ResendSheet(r)
  <2> DEFINE targets(s) == Recipients(s, sheets[s].stage) \ Settled(s, sheets[s].stage)
             q(s) == [Idle EXCEPT !.write = "clear", !.sheet = s,
                                  !.stage = sheets[s].stage, !.to = targets(s)]
  <2>1. PICK s \in DOMAIN sheets : Begin(r, q(s))
    BY <1>4 DEF ResendSheet
  <2>2. sheets[s] \in Sheet /\ s \in Nat
    BY DEF TypeOK
  <2>3. targets(s) \in SUBSET Users
    BY <2>2 DEF Recipients, Users, Sheet
  <2>4. q(s) \in Request /\ q(s).write = "clear" /\ q(s).sheet = s /\ q(s).stage = sheets[s].stage
    <3> HIDE DEF targets
    <3>. QED
      BY <2>2, <2>3, IdleType DEF Idle, Request, Writes, Sheet
  <2> HIDE DEF q
  <2>. QED
    BY <1>4, <2>1, <2>4 DEF Begun, ResendSheet, TypeOK
<1>5. CASE SubmitSheetVote(r)
  <2>1. PICK v \in DOMAIN votes, d \in Decisions :
          Begin(r, [Idle EXCEPT !.write = "claim", !.vote = v, !.decision = d,
                                !.sheet = votes[v].sheet, !.stage = votes[v].stage])
    BY <1>5 DEF SubmitSheetVote
  <2> DEFINE q == [Idle EXCEPT !.write = "claim", !.vote = v, !.decision = d,
                               !.sheet = votes[v].sheet, !.stage = votes[v].stage]
  <2>2. votes[v] \in Vote /\ v \in Nat
    BY DEF TypeOK
  <2>3. /\ q \in Request /\ q.write = "claim" /\ q.vote = v
        /\ q.sheet = votes[v].sheet /\ q.stage = votes[v].stage
    BY <2>2, IdleType DEF Idle, Request, Writes, Vote
  <2>. QED
    BY <1>5, <2>1, <2>3 DEF Begun, SubmitSheetVote, TypeOK
<1>. QED
  BY <1>1, <1>2, <1>3, <1>4, <1>5 DEF Ask

LEMMA FreshRowType ==
  ASSUME NEW c \in Candidates
  PROVE  FreshRow(c) \in Row /\ Override(FreshRow(c)) \in Row
BY DEF FreshRow, Override, Row, Outcomes, Decisions

LEMMA RowEdits ==
  ASSUME NEW row \in Row, NEW d \in Decisions, NEW s \in Nat
  PROVE  /\ Override(row) \in Row
         /\ [row EXCEPT !.status = d, !.by = "sheet"] \in Row
         /\ [row EXCEPT !.sheet = s] \in Row
BY DEF Row, Override, Outcomes, Decisions

LEMMA SheetEdits ==
  ASSUME NEW sheet \in Sheet, NEW d \in Decisions, NEW stage \in Stages
  PROVE  /\ [sheet EXCEPT !.status = d] \in Sheet
         /\ [sheet EXCEPT !.stage = stage] \in Sheet
BY DEF Sheet, Outcomes, Decisions

LEMMA RowsType ==
  ASSUME TypeOK, NEW r \in Requests,
         CommitRequest(r) \/ CommitOverride(r) \/ PlaceRows(r) \/ SpreadDecision(r)
  PROVE  rows' \in Seq(Row)
<1>1. /\ req[r] \in Request
      /\ rows \in Seq(Row)
      /\ \A i \in DOMAIN rows : rows[i] \in Row
  BY DEF TypeOK
<1>a. req[r].decision \in Decisions /\ req[r].sheet \in Nat
  BY <1>1 DEF Request
<1>2. CASE CommitRequest(r)
  <2>1. PICK c \in req[r].cands :
          IF req[r].rows = {}
            THEN rows' = Append(rows, FreshRow(c))
            ELSE rows' = [i \in DOMAIN rows |-> IF i \in req[r].rows THEN FreshRow(c) ELSE rows[i]]
    BY <1>2 DEF CommitRequest
  <2>2. FreshRow(c) \in Row
    BY <1>1, FreshRowType DEF Request
  <2>3. CASE req[r].rows = {}
    BY <1>1, <2>1, <2>2, <2>3
  <2>4. CASE req[r].rows # {}
    <3> DEFINE t == [i \in DOMAIN rows |-> IF i \in req[r].rows THEN FreshRow(c) ELSE rows[i]]
    <3>1. t = [i \in DOMAIN rows |-> t[i]] /\ \A i \in DOMAIN rows : t[i] \in Row
      BY <1>1, <2>2
    <3> HIDE DEF t
    <3>2. t \in Seq(Row)
      BY <1>1, <3>1, Rewritten
    <3>. QED
      BY <2>1, <2>4, <3>2 DEF t
  <2>. QED
    BY <2>3, <2>4
<1>3. CASE CommitOverride(r)
  <2>1. PICK c \in req[r].cands :
          IF req[r].rows = {}
            THEN rows' = Append(rows, Override(FreshRow(c)))
            ELSE rows' = [i \in DOMAIN rows |->
                            IF i \in req[r].rows THEN Override(rows[i]) ELSE rows[i]]
    BY <1>3 DEF CommitOverride
  <2>2. Override(FreshRow(c)) \in Row
    BY <1>1, FreshRowType DEF Request
  <2>3. CASE req[r].rows = {}
    BY <1>1, <2>1, <2>2, <2>3
  <2>4. CASE req[r].rows # {}
    <3> DEFINE t == [i \in DOMAIN rows |-> IF i \in req[r].rows THEN Override(rows[i]) ELSE rows[i]]
    <3>1. \A i \in DOMAIN rows : Override(rows[i]) \in Row
      BY <1>1, <1>a, RowEdits
    <3>2. t = [i \in DOMAIN rows |-> t[i]] /\ \A i \in DOMAIN rows : t[i] \in Row
      BY <1>1, <3>1
    <3>3. rows' = t
      BY <2>1, <2>4
    <3> HIDE DEF t
    <3>. QED
      BY <1>1, <3>2, <3>3, Rewritten
  <2>. QED
    BY <2>3, <2>4
<1>4. CASE PlaceRows(r)
  <2> DEFINE t == [i \in DOMAIN rows |->
                IF i \in req[r].rows THEN [rows[i] EXCEPT !.sheet = req[r].sheet] ELSE rows[i]]
  <2>1. \A i \in DOMAIN rows : [rows[i] EXCEPT !.sheet = req[r].sheet] \in Row
    BY <1>1, <1>a, RowEdits
  <2>2. t = [i \in DOMAIN rows |-> t[i]] /\ \A i \in DOMAIN rows : t[i] \in Row
    BY <1>1, <2>1
  <2>3. rows' = t
    BY <1>4 DEF PlaceRows
  <2> HIDE DEF t
  <2>. QED
    BY <1>1, <2>2, <2>3, Rewritten
<1>5. CASE SpreadDecision(r)
  <2> DEFINE t == [i \in DOMAIN rows |->
                IF i \in OnSheet(req[r].sheet)
                  THEN [rows[i] EXCEPT !.status = req[r].decision, !.by = "sheet"]
                  ELSE rows[i]]
  <2>1. \A i \in DOMAIN rows :
          [rows[i] EXCEPT !.status = req[r].decision, !.by = "sheet"] \in Row
    BY <1>1, <1>a, RowEdits
  <2> HIDE DEF OnSheet
  <2>2. t = [i \in DOMAIN rows |-> t[i]] /\ \A i \in DOMAIN rows : t[i] \in Row
    BY <1>1, <2>1
  <2>3. rows' = t
    BY <1>5 DEF SpreadDecision
  <2> HIDE DEF t
  <2>. QED
    BY <1>1, <2>2, <2>3, Rewritten
<1>. QED
  BY <1>2, <1>3, <1>4, <1>5

LEMMA SheetsType ==
  ASSUME TypeOK, NEW r \in Requests,
         CreateSheet(r) \/ OpenStage(r) \/ DecideSheet(r),
         CreateSheet(r) => req[r].to \in SUBSET Members
  PROVE  sheets' \in Seq(Sheet)
<1>1. /\ req[r] \in Request
      /\ sheets \in Seq(Sheet)
      /\ \A s \in DOMAIN sheets : sheets[s] \in Sheet
  BY DEF TypeOK
<1>a. req[r].decision \in Decisions /\ req[r].stage \in Stages /\ req[r].sheet \in Nat
  BY <1>1 DEF Request
<1>2. CASE CreateSheet(r)
  <2>1. [status |-> "pending", stage |-> "chro", board |-> req[r].to] \in Sheet
    BY <1>2 DEF Sheet, Outcomes, Stages
  <2>. QED
    BY <1>1, <1>2, <2>1 DEF CreateSheet
<1>3. CASE OpenStage(r)
  <2>1. \A s \in DOMAIN sheets : [sheets[s] EXCEPT !.stage = req[r].stage] \in Sheet
    BY <1>1, <1>a, SheetEdits
  <2> DEFINE t == [sheets EXCEPT ![req[r].sheet].stage = req[r].stage]
  <2>2. t = [s \in DOMAIN sheets |-> t[s]] /\ \A s \in DOMAIN sheets : t[s] \in Sheet
    BY <1>1, <2>1
  <2>3. sheets' = t
    BY <1>3 DEF OpenStage
  <2> HIDE DEF t
  <2>. QED
    BY <1>1, <2>2, <2>3, Rewritten
<1>4. CASE DecideSheet(r)
  <2>1. \A s \in DOMAIN sheets : [sheets[s] EXCEPT !.status = req[r].decision] \in Sheet
    BY <1>1, <1>a, SheetEdits
  <2> DEFINE t == [sheets EXCEPT ![req[r].sheet].status = req[r].decision]
  <2>2. t = [s \in DOMAIN sheets |-> t[s]] /\ \A s \in DOMAIN sheets : t[s] \in Sheet
    BY <1>1, <2>1
  <2>3. sheets' = t
    BY <1>4 DEF DecideSheet
  <2> HIDE DEF t
  <2>. QED
    BY <1>1, <2>2, <2>3, Rewritten
<1>. QED
  BY <1>2, <1>3, <1>4

-----------------------------------------------------------------------------
(* Votes are never taken back *)

Kept ==
  \A v \in DOMAIN votes :
    /\ v \in DOMAIN votes'
    /\ votes'[v].sheet = votes[v].sheet
    /\ votes'[v].stage = votes[v].stage
    /\ votes[v].status \in Decisions => votes'[v] = votes[v]

LEMMA KeptSame == ASSUME UNCHANGED votes PROVE Kept
BY DEF Kept

LEMMA SignedKept ==
  ASSUME Kept, NEW s, NEW stage, NEW d \in Decisions, Signed(s, stage, d)
  PROVE  Signed(s, stage, d)'
BY DEF Kept, Signed

LEMMA GroundsKept ==
  ASSUME Kept, NEW s, NEW d \in Decisions, Grounds(s, d)
  PROVE  Grounds(s, d)'
BY SignedKept DEF Grounds, Decisions

LEMMA ClearVotes ==
  ASSUME TypeOK, NEW r \in Requests, ClearPending(r)
  PROVE  votes' \in Seq(Vote) /\ Kept /\ Len(votes') = Len(votes)
<1> DEFINE t == [v \in DOMAIN votes |->
                 IF /\ votes[v].sheet = req[r].sheet
                    /\ votes[v].stage = req[r].stage
                    /\ votes[v].status = "pending"
                   THEN [votes[v] EXCEPT !.status = "deleted"]
                   ELSE votes[v]]
<1>1. /\ votes \in Seq(Vote)
      /\ \A v \in DOMAIN votes : votes[v] \in Vote
  BY DEF TypeOK
<1>2. \A v \in DOMAIN votes : [votes[v] EXCEPT !.status = "deleted"] \in Vote
  BY <1>1 DEF Vote
<1>3. /\ t = [v \in DOMAIN votes |-> t[v]]
      /\ \A v \in DOMAIN votes : t[v] \in Vote
  BY <1>1, <1>2
<1>4. \A v \in DOMAIN votes :
        /\ t[v].sheet = votes[v].sheet
        /\ t[v].stage = votes[v].stage
        /\ votes[v].status \in Decisions => t[v] = votes[v]
  BY <1>1 DEF Vote, Decisions
<1>5. votes' = t
  BY DEF ClearPending
<1> HIDE DEF t
<1>6. t \in Seq(Vote) /\ Len(t) = Len(votes) /\ DOMAIN t = DOMAIN votes
  BY <1>1, <1>3, Rewritten
<1>. QED
  BY <1>4, <1>5, <1>6 DEF Kept

LEMMA IssueVotes ==
  ASSUME TypeOK, NEW r \in Requests, IssueLink(r), req[r].to # {}
  PROVE  /\ votes' \in Seq(Vote)
         /\ Kept
         /\ Len(votes') = Len(votes) + 1
         /\ votes'[Len(votes) + 1].sheet = req[r].sheet
         /\ votes'[Len(votes) + 1].stage = req[r].stage
         /\ \E u \in req[r].to : req' = [req EXCEPT ![r].to = @ \ {u}]
<1>1. PICK u \in req[r].to :
        /\ votes' = Append(votes, [sheet |-> req[r].sheet, user |-> u,
                                   stage |-> req[r].stage, status |-> "pending"])
        /\ req' = [req EXCEPT ![r].to = @ \ {u}]
  BY DEF IssueLink
<1> DEFINE e == [sheet |-> req[r].sheet, user |-> u,
                 stage |-> req[r].stage, status |-> "pending"]
<1>2. req[r] \in Request /\ votes \in Seq(Vote)
  BY DEF TypeOK
<1>3. e \in Vote /\ e.sheet = req[r].sheet /\ e.stage = req[r].stage
  BY <1>2 DEF Request, Vote, Outcomes
<1>4. votes' = Append(votes, e)
  BY <1>1
<1> HIDE DEF e
<1>5. LET t == Append(votes, e) IN
         /\ t \in Seq(Vote)
         /\ Len(t) = Len(votes) + 1
         /\ \A i \in DOMAIN votes : i \in DOMAIN t /\ t[i] = votes[i]
         /\ t[Len(votes) + 1] = e
  BY <1>2, <1>3, Extended
<1>. QED
  BY <1>1, <1>3, <1>4, <1>5 DEF Kept

LEMMA ClaimVotes ==
  ASSUME Structure, NEW r \in Requests, ClaimVote(r), Claimable(req[r].vote),
         NEW s, NEW stage, NEW d,
         s = req[r].sheet, stage = req[r].stage, d = req[r].decision
  PROVE  /\ votes' \in Seq(Vote)
         /\ Kept
         /\ Len(votes') = Len(votes)
         /\ Signed(s, stage, d)'
<1> DEFINE i == req[r].vote
           t == [votes EXCEPT ![i].status = req[r].decision]
<1>1. /\ votes \in Seq(Vote)
      /\ \A v \in DOMAIN votes : votes[v] \in Vote
      /\ req[r] \in Request
  BY DEF Structure, TypeOK
<1>2. /\ i \in DOMAIN votes
      /\ votes[i].status = "pending"
      /\ votes[i].sheet = req[r].sheet
      /\ votes[i].stage = req[r].stage
  BY DEF Structure, Linked, ClaimVote, At, Claimable
<1>a. req[r].decision \in Decisions
  BY <1>1 DEF Request
<1>3. \A v \in DOMAIN votes : [votes[v] EXCEPT !.status = req[r].decision] \in Vote
  BY <1>1, <1>a DEF Vote, Outcomes
<1>4. /\ t = [v \in DOMAIN votes |-> t[v]]
      /\ \A v \in DOMAIN votes : t[v] \in Vote
  BY <1>1, <1>3
<1>5. \A v \in DOMAIN votes :
        /\ t[v].sheet = votes[v].sheet
        /\ t[v].stage = votes[v].stage
        /\ votes[v].status \in Decisions => t[v] = votes[v]
  BY <1>1, <1>2 DEF Vote, Decisions
<1>b. /\ t[i].sheet = req[r].sheet
      /\ t[i].stage = req[r].stage
      /\ t[i].status = req[r].decision
  BY <1>1, <1>2 DEF Vote
<1>6. votes' = t
  BY DEF ClaimVote
<1> HIDE DEF t
<1>7. t \in Seq(Vote) /\ Len(t) = Len(votes) /\ DOMAIN t = DOMAIN votes
  BY <1>1, <1>4, Rewritten
<1>8. votes' \in Seq(Vote) /\ Kept /\ Len(votes') = Len(votes)
  BY <1>5, <1>6, <1>7 DEF Kept
<1>9. i \in DOMAIN t
  BY <1>2, <1>7
<1> HIDE DEF i
<1>10. votes'[i].sheet = s /\ votes'[i].stage = stage /\ votes'[i].status = d
  BY <1>b, <1>6
<1>11. i \in DOMAIN votes'
  BY <1>6, <1>9
<1>12. Signed(s, stage, d)'
  BY <1>10, <1>11 DEF Signed
<1>. QED
  BY <1>8, <1>12

-----------------------------------------------------------------------------
(* Frames: what a step that touches little leaves true *)

SheetsGrow == Len(sheets) <= Len(sheets')

VotesLinked == \A v \in DOMAIN votes : votes[v].sheet \in DOMAIN sheets
StagesSigned ==
  \A s \in DOMAIN sheets : sheets[s].stage = "board" => Signed(s, "chro", "approved")
RowsPlaced == \A i \in DOMAIN rows : rows[i].sheet \in 0..Len(sheets)

LEMMA Lengths ==
  ASSUME TypeOK
  PROVE  /\ Len(votes) \in Nat /\ 1..Len(votes) = DOMAIN votes
         /\ Len(sheets) \in Nat /\ 1..Len(sheets) = DOMAIN sheets
         /\ Len(rows) \in Nat /\ 1..Len(rows) = DOMAIN rows
BY DEF TypeOK

LEMMA SheetsKeep ==
  ASSUME TypeOK, TypeOK', SheetsGrow
  PROVE  \A s \in DOMAIN sheets : s \in DOMAIN sheets'
<1>1. Len(sheets) \in Nat /\ 1..Len(sheets) = DOMAIN sheets
  BY Lengths
<1>2. Len(sheets') \in Nat /\ 1..Len(sheets') = DOMAIN sheets'
  BY DEF TypeOK
<1>. QED
  BY <1>1, <1>2 DEF SheetsGrow

LEMMA LinkedFrame ==
  ASSUME Structure, TypeOK', Kept, SheetsGrow, NEW o \in Requests, req'[o] = req[o]
  PROVE  Linked(o)'
<1> DEFINE q == req[o]
<1>1. Linked(o) /\ q.decision \in Decisions
  BY DEF Structure, TypeOK, Request
<1>2. q.sheet \in DOMAIN sheets => q.sheet \in DOMAIN sheets'
  BY SheetsKeep DEF Structure
<1>3. ASSUME NEW s, s = q.sheet, Signed(s, "chro", "approved")
      PROVE  Signed(s, "chro", "approved")'
  BY <1>3, SignedKept DEF Decisions
<1>4. ASSUME NEW s, NEW d \in Decisions, s = q.sheet, d = q.decision, Grounds(s, d)
      PROVE  Grounds(s, d)'
  BY <1>4, GroundsKept
<1>5. PICK s, d, w, stage, v : /\ s = q.sheet /\ d = q.decision /\ w = q.write
                               /\ stage = q.stage /\ v = q.vote
  OBVIOUS
<1>6. /\ w \in {"open", "clear", "issue"} /\ stage = "board" => Signed(s, "chro", "approved")'
      /\ w \in {"decide", "spread"} => Grounds(s, d)'
  BY <1>1, <1>3, <1>4, <1>5 DEF Linked
<1>7. w = "claim" => v \in DOMAIN votes' /\ votes'[v].sheet = s /\ votes'[v].stage = stage
  BY <1>1, <1>5 DEF Linked, Kept
<1>. QED
  BY <1>1, <1>2, <1>5, <1>6, <1>7 DEF Linked

LEMMA IdleLinked ==
  ASSUME NEW r \in Requests, req'[r] = Idle
  PROVE  Linked(r)'
BY DEF Linked, Idle, Targeted

LEMMA VotesFrame ==
  ASSUME Structure, TypeOK', Kept, SheetsGrow, Len(votes') = Len(votes)
  PROVE  BoardAfterChro' /\ VotesLinked'
<1>1. 1..Len(votes) = DOMAIN votes /\ 1..Len(votes') = DOMAIN votes'
  BY Lengths DEF Structure, TypeOK
<1>2. DOMAIN votes' = DOMAIN votes
  BY <1>1
<1>3. \A s \in DOMAIN sheets : s \in DOMAIN sheets'
  BY SheetsKeep DEF Structure
<1>4. VotesLinked'
  BY <1>2, <1>3 DEF VotesLinked, Structure, Kept
<1>5. ASSUME NEW v \in DOMAIN votes', votes'[v].stage = "board"
      PROVE  Signed(votes[v].sheet, "chro", "approved")
  BY <1>2, <1>5 DEF Structure, BoardAfterChro, Kept
<1>6. ASSUME NEW v \in DOMAIN votes', votes'[v].stage = "board"
      PROVE  Signed(votes[v].sheet, "chro", "approved")'
  <2>1. PICK s : s = votes[v].sheet
    OBVIOUS
  <2>2. votes'[v].sheet = s /\ Signed(s, "chro", "approved")
    BY <1>2, <1>5, <1>6, <2>1 DEF Kept
  <2>3. Signed(s, "chro", "approved")'
    BY <2>2, SignedKept DEF Decisions
  <2>. QED
    BY <2>2, <2>3
<1>. QED
  BY <1>4, <1>6 DEF BoardAfterChro

LEMMA SheetsFrame ==
  ASSUME Structure, Kept, UNCHANGED sheets
  PROVE  DecidedOnAnswers' /\ StagesSigned'
<1>1. ASSUME NEW s, NEW stage, NEW d \in Decisions, Signed(s, stage, d)
      PROVE  Signed(s, stage, d)'
  BY <1>1, SignedKept
<1>2. DecidedOnAnswers'
  BY <1>1 DEF DecidedOnAnswers, Structure, Decisions
<1>3. StagesSigned'
  BY <1>1 DEF StagesSigned, Structure, Decisions
<1>. QED
  BY <1>2, <1>3

LEMMA RowsFrame ==
  ASSUME Structure, TypeOK', SheetsGrow,
         \A i \in DOMAIN rows' : \/ i \in DOMAIN rows /\ rows'[i].sheet = rows[i].sheet
                                 \/ rows'[i].sheet = 0
                                 \/ rows'[i].sheet \in DOMAIN sheets
  PROVE  RowsPlaced'
<1>1. /\ Len(sheets) \in Nat /\ 1..Len(sheets) = DOMAIN sheets /\ Len(sheets') \in Nat
      /\ Len(sheets) <= Len(sheets')
  BY Lengths DEF Structure, TypeOK, SheetsGrow
<1>2. \A i \in DOMAIN rows : rows[i].sheet \in 0..Len(sheets)
  BY DEF Structure
<1>. QED
  BY <1>1, <1>2 DEF RowsPlaced

LEMMA StructureParts ==
  ASSUME TypeOK', BoardAfterChro', DecidedOnAnswers', VotesLinked', StagesSigned',
         RowsPlaced', \A r \in Requests : Linked(r)'
  PROVE  Structure'
BY DEF Structure, VotesLinked, StagesSigned, RowsPlaced

(* A step that leaves rows, sheets and votes alone, but for one request. *)
LEMMA QuietStep ==
  ASSUME Structure, TypeOK', UNCHANGED <<rows, sheets, votes>>,
         NEW r \in Requests, Linked(r)', \A o \in Requests \ {r} : req'[o] = req[o]
  PROVE  Structure'
<1>1. Kept /\ SheetsGrow /\ Len(votes') = Len(votes)
  BY KeptSame, Lengths DEF SheetsGrow, Structure
<1>2. \A o \in Requests : Linked(o)'
  BY <1>1, LinkedFrame
<1>. QED
  BY <1>1, <1>2, VotesFrame, SheetsFrame, RowsFrame, StructureParts

-----------------------------------------------------------------------------
(* Each write keeps the structure *)

LEMMA StaysType ==
  ASSUME NEW P \in BOOLEAN, Stays(P)
  PROVE  inTurn' \in BOOLEAN
BY DEF Stays

(* The requests that write rows: whichever it is, it leaves sheets and votes
   alone, and a row it touches is off any sheet or on the request's own. *)
LEMMA RowsOnly ==
  ASSUME Structure, TypeOK', UNCHANGED <<sheets, votes>>,
         NEW r \in Requests, Linked(r)', \A o \in Requests \ {r} : req'[o] = req[o],
         \A i \in DOMAIN rows' : \/ i \in DOMAIN rows /\ rows'[i].sheet = rows[i].sheet
                                 \/ rows'[i].sheet = 0
                                 \/ rows'[i].sheet \in DOMAIN sheets
  PROVE  Structure'
<1>1. Kept /\ SheetsGrow /\ Len(votes') = Len(votes)
  BY KeptSame, Lengths DEF SheetsGrow, Structure
<1>2. \A o \in Requests : Linked(o)'
  BY <1>1, LinkedFrame
<1>. QED
  BY <1>1, <1>2, VotesFrame, SheetsFrame, RowsFrame, StructureParts

LEMMA RequestStep ==
  ASSUME Structure, NEW r \in Requests, CommitRequest(r)
  PROVE  Structure'
<1>1. /\ rows' \in Seq(Row)
      /\ req' \in [Requests -> Request]
      /\ req'[r] = Idle
      /\ \A o \in Requests \ {r} : req'[o] = req[o]
  BY RowsType, EndType DEF Structure, CommitRequest
<1>3. TypeOK'
  BY <1>1 DEF CommitRequest, Structure, TypeOK
<1>4. ASSUME NEW i \in DOMAIN rows'
      PROVE  (i \in DOMAIN rows /\ rows'[i].sheet = rows[i].sheet) \/ rows'[i].sheet = 0
  <2>1. PICK c \in req[r].cands :
          IF req[r].rows = {}
            THEN rows' = Append(rows, FreshRow(c))
            ELSE rows' = [j \in DOMAIN rows |-> IF j \in req[r].rows THEN FreshRow(c) ELSE rows[j]]
    BY DEF CommitRequest
  <2>2. FreshRow(c).sheet = 0
    BY DEF FreshRow
  <2>3. rows \in Seq(Row) /\ c \in Candidates
    BY DEF Structure, TypeOK, Request
  <2>4. CASE req[r].rows = {}
    <3>1. rows' = Append(rows, FreshRow(c)) /\ FreshRow(c) \in Row
      BY <2>1, <2>3, <2>4, FreshRowType
    <3>. HIDE DEF FreshRow
    <3>2. /\ Len(rows) \in Nat
          /\ DOMAIN rows' = 1..(Len(rows) + 1)
          /\ DOMAIN rows = 1..Len(rows)
          /\ \A j \in DOMAIN rows : rows'[j] = rows[j]
          /\ rows'[Len(rows) + 1] = FreshRow(c)
      BY <2>3, <3>1, Extended
    <3>. QED
      BY <2>2, <3>2
  <2>5. CASE req[r].rows # {}
    BY <2>1, <2>2, <2>5
  <2>. QED
    BY <2>4, <2>5
<1>. QED
  BY <1>1, <1>3, <1>4, IdleLinked, RowsOnly DEF CommitRequest

LEMMA OverrideStep ==
  ASSUME Structure, NEW r \in Requests, CommitOverride(r)
  PROVE  Structure'
<1>1. /\ rows' \in Seq(Row)
      /\ req' \in [Requests -> Request]
      /\ req'[r] = Idle
      /\ \A o \in Requests \ {r} : req'[o] = req[o]
  BY RowsType, EndType DEF Structure, CommitOverride
<1>3. TypeOK'
  BY <1>1 DEF CommitOverride, Structure, TypeOK
<1>4. ASSUME NEW i \in DOMAIN rows'
      PROVE  (i \in DOMAIN rows /\ rows'[i].sheet = rows[i].sheet) \/ rows'[i].sheet = 0
  <2>1. PICK c \in req[r].cands :
          IF req[r].rows = {}
            THEN rows' = Append(rows, Override(FreshRow(c)))
            ELSE rows' = [j \in DOMAIN rows |->
                            IF j \in req[r].rows THEN Override(rows[j]) ELSE rows[j]]
    BY DEF CommitOverride
  <2>2. Override(FreshRow(c)).sheet = 0
    BY DEF FreshRow, Override
  <2>3. rows \in Seq(Row) /\ c \in Candidates
    BY DEF Structure, TypeOK, Request
  <2>4. CASE req[r].rows = {}
    <3>1. rows' = Append(rows, Override(FreshRow(c))) /\ Override(FreshRow(c)) \in Row
      BY <2>1, <2>3, <2>4, FreshRowType
    <3>2. /\ Len(rows) \in Nat
          /\ DOMAIN rows' = 1..(Len(rows) + 1)
          /\ DOMAIN rows = 1..Len(rows)
          /\ \A j \in DOMAIN rows : rows'[j] = rows[j]
          /\ rows'[Len(rows) + 1] = Override(FreshRow(c))
      BY <2>3, <3>1, Extended
    <3>. QED
      BY <2>2, <3>2
  <2>5. CASE req[r].rows # {}
    <3>1. \A j \in DOMAIN rows : rows[j] \in Row
      BY <2>3
    <3>2. \A j \in DOMAIN rows : Override(rows[j]).sheet = rows[j].sheet
      BY <3>1 DEF Row, Override
    <3>3. rows' = [j \in DOMAIN rows |-> IF j \in req[r].rows THEN Override(rows[j]) ELSE rows[j]]
      BY <2>1, <2>5
    <3>. QED
      BY <3>2, <3>3
  <2>. QED
    BY <2>4, <2>5
<1>. QED
  BY <1>1, <1>3, <1>4, IdleLinked, RowsOnly DEF CommitOverride

LEMMA SpreadStep ==
  ASSUME Structure, NEW r \in Requests, SpreadDecision(r)
  PROVE  Structure'
<1>1. /\ rows' \in Seq(Row)
      /\ req' \in [Requests -> Request]
      /\ req'[r] = Idle
      /\ \A o \in Requests \ {r} : req'[o] = req[o]
  BY RowsType, EndType DEF Structure, SpreadDecision
<1>2. TypeOK'
  BY <1>1 DEF SpreadDecision, Structure, TypeOK
<1>3. \A i \in DOMAIN rows : rows[i] \in Row
  BY DEF Structure, TypeOK
<1>4. \A i \in DOMAIN rows' : i \in DOMAIN rows /\ rows'[i].sheet = rows[i].sheet
  BY <1>3 DEF SpreadDecision, Row
<1>. QED
  BY <1>1, <1>2, <1>4, IdleLinked, RowsOnly DEF SpreadDecision

LEMMA PlaceStep ==
  ASSUME Structure, NEW r \in Requests, PlaceRows(r)
  PROVE  Structure'
<1> DEFINE next == [req[r] EXCEPT !.write = "open", !.rows = {}, !.to = {}]
<1>1. req \in [Requests -> Request] /\ req[r] \in Request
  BY DEF Structure, TypeOK
<1>2. next \in Request
  BY <1>1 DEF Request, Writes
<1>3. req' = [req EXCEPT ![r] = next]
  BY <1>1 DEF PlaceRows, Request
<1>4. /\ next.write = "open" /\ next.sheet = req[r].sheet /\ next.stage = req[r].stage
  BY <1>1 DEF Request
<1>. HIDE DEF next
<1>5. /\ req' \in [Requests -> Request]
      /\ req'[r] = next
      /\ \A o \in Requests \ {r} : req'[o] = req[o]
  BY <1>1, <1>2, <1>3
<1>6. rows' \in Seq(Row)
  BY RowsType DEF Structure
<1>7. inTurn' \in BOOLEAN
  <2>1. Stays(sheets[req[r].sheet].status = "pending" /\ \A i \in req[r].rows : Waiting(i))
    BY DEF PlaceRows
  <2>. QED
    BY <2>1, StaysType
<1>8. TypeOK'
  BY <1>5, <1>6, <1>7 DEF PlaceRows, Structure, TypeOK
<1>9. req[r].sheet \in DOMAIN sheets /\ req[r].stage = "chro"
  BY DEF Structure, Linked, Targeted, PlaceRows, At
<1>10. Linked(r)'
  BY <1>4, <1>5, <1>9 DEF Linked, Targeted, PlaceRows
<1>11. \A i \in DOMAIN rows : rows[i] \in Row
  BY DEF Structure, TypeOK
<1>12. ASSUME NEW i \in DOMAIN rows'
       PROVE  \/ i \in DOMAIN rows /\ rows'[i].sheet = rows[i].sheet
              \/ rows'[i].sheet \in DOMAIN sheets
  BY <1>9, <1>11 DEF PlaceRows, Row
<1>. QED
  BY <1>5, <1>8, <1>10, <1>12, RowsOnly DEF PlaceRows

(* The requests that write sheets leave votes and rows alone. *)
LEMMA SheetsOnly ==
  ASSUME Structure, TypeOK', UNCHANGED <<rows, votes>>, SheetsGrow,
         DecidedOnAnswers', StagesSigned',
         NEW r \in Requests, Linked(r)', \A o \in Requests \ {r} : req'[o] = req[o]
  PROVE  Structure'
<1>1. Kept /\ Len(votes') = Len(votes)
  BY KeptSame
<1>2. \A o \in Requests : Linked(o)'
  BY <1>1, LinkedFrame
<1>3. RowsPlaced'
  BY RowsFrame
<1>. QED
  BY <1>1, <1>2, <1>3, VotesFrame, StructureParts

LEMMA CreateStep ==
  ASSUME Structure, NEW r \in Requests, CreateSheet(r)
  PROVE  Structure'
<1> DEFINE new == [status |-> "pending", stage |-> "chro", board |-> req[r].to]
           next == [req[r] EXCEPT !.write = "place", !.sheet = Len(sheets) + 1]
<1>1. req \in [Requests -> Request] /\ req[r] \in Request /\ sheets \in Seq(Sheet)
  BY DEF Structure, TypeOK
<1>2. req[r].stage = "chro" /\ req[r].to \in SUBSET Members
  BY DEF Structure, Linked, CreateSheet, At
<1>3. Len(sheets) + 1 \in Nat
  BY <1>1
<1>4. next \in Request
  BY <1>1, <1>3 DEF Request, Writes
<1>5. next.write = "place" /\ next.sheet = Len(sheets) + 1 /\ next.stage = "chro"
  BY <1>1, <1>2 DEF Request
<1>6. req' = [req EXCEPT ![r] = next]
  BY <1>1 DEF CreateSheet, Request
<1>7. new \in Sheet /\ new.status = "pending" /\ new.stage = "chro"
  BY <1>2 DEF Sheet, Outcomes, Stages
<1>8. sheets' = Append(sheets, new)
  BY DEF CreateSheet
<1>. HIDE DEF next, new
<1>9. /\ req' \in [Requests -> Request]
      /\ req'[r] = next
      /\ \A o \in Requests \ {r} : req'[o] = req[o]
  BY <1>1, <1>4, <1>6
<1>10. /\ sheets' \in Seq(Sheet)
       /\ Len(sheets') = Len(sheets) + 1
       /\ DOMAIN sheets' = 1..(Len(sheets) + 1)
       /\ DOMAIN sheets = 1..Len(sheets)
       /\ \A s \in DOMAIN sheets : sheets'[s] = sheets[s]
       /\ sheets'[Len(sheets) + 1] = new
       /\ Len(sheets) \in Nat
  BY <1>1, <1>7, <1>8, Extended
<1>11. TypeOK'
  BY <1>9, <1>10 DEF CreateSheet, Structure, TypeOK
<1>12. SheetsGrow
  BY <1>10 DEF SheetsGrow
<1>13. UNCHANGED votes
  BY DEF CreateSheet
<1>14. \A s \in DOMAIN sheets' : s \in DOMAIN sheets \/ sheets'[s] = new
  BY <1>10
<1>15. DecidedOnAnswers'
  BY <1>7, <1>10, <1>13, <1>14 DEF DecidedOnAnswers, Structure, Signed
<1>16. StagesSigned'
  BY <1>7, <1>10, <1>13, <1>14 DEF StagesSigned, Structure, Signed
<1>17. Linked(r)'
  BY <1>5, <1>9, <1>10 DEF Linked, Targeted
<1>. QED
  BY <1>9, <1>11, <1>12, <1>15, <1>16, <1>17, SheetsOnly DEF CreateSheet

LEMMA OpenStep ==
  ASSUME Structure, NEW r \in Requests, OpenStage(r)
  PROVE  Structure'
<1> DEFINE to == Recipients(req[r].sheet, req[r].stage)
           next == [req[r] EXCEPT !.write = "clear", !.to = to]
           t == [sheets EXCEPT ![req[r].sheet].stage = req[r].stage]
<1>1. /\ req \in [Requests -> Request] /\ req[r] \in Request
      /\ sheets \in Seq(Sheet) /\ \A s \in DOMAIN sheets : sheets[s] \in Sheet
  BY DEF Structure, TypeOK
<1>2. /\ req[r].sheet \in DOMAIN sheets
      /\ req[r].stage = "board" => Signed(req[r].sheet, "chro", "approved")
  BY DEF Structure, Linked, Targeted, OpenStage, At
<1>3. to \in SUBSET Users
  BY <1>1, <1>2 DEF Recipients, Users, Sheet
<1>4. sheets' = t /\ req' = [req EXCEPT ![r].write = "clear", ![r].to = to]
  BY DEF OpenStage
<1>. HIDE DEF to
<1>5. next \in Request
  BY <1>1, <1>3 DEF Request, Writes
<1>6. next.write = "clear" /\ next.sheet = req[r].sheet /\ next.stage = req[r].stage
  BY <1>1 DEF Request
<1>7. req' = [req EXCEPT ![r] = next]
  BY <1>1, <1>4 DEF Request
<1>. HIDE DEF next
<1>8. /\ req' \in [Requests -> Request]
      /\ req'[r] = next
      /\ \A o \in Requests \ {r} : req'[o] = req[o]
  BY <1>1, <1>5, <1>7
<1>9. sheets' \in Seq(Sheet)
  <2>1. CreateSheet(r) => req[r].to \in SUBSET Members
    BY DEF Structure, Linked, CreateSheet, At
  <2>. QED
    BY <2>1, SheetsType DEF Structure
<1>10. TypeOK'
  BY <1>8, <1>9 DEF OpenStage, Structure, TypeOK
<1>11. DOMAIN sheets' = DOMAIN sheets /\ Len(sheets') = Len(sheets)
  BY <1>1, <1>4
<1>12. SheetsGrow
  BY <1>1, <1>11 DEF SheetsGrow
<1>13. \A s \in DOMAIN sheets :
         /\ sheets'[s].status = sheets[s].status
         /\ sheets'[s].stage = IF s = req[r].sheet THEN req[r].stage ELSE sheets[s].stage
  BY <1>1, <1>4 DEF Sheet
<1>14. UNCHANGED votes
  BY DEF OpenStage
<1>15. DecidedOnAnswers'
  BY <1>11, <1>13, <1>14 DEF DecidedOnAnswers, Structure, Signed
<1>16. StagesSigned'
  BY <1>2, <1>11, <1>13, <1>14 DEF StagesSigned, Structure, Signed
<1>17. Linked(r)'
  BY <1>2, <1>6, <1>8, <1>11, <1>14 DEF Linked, Targeted, Signed
<1>. QED
  BY <1>8, <1>10, <1>12, <1>15, <1>16, <1>17, SheetsOnly DEF OpenStage

LEMMA DecideStep ==
  ASSUME Structure, NEW r \in Requests, DecideSheet(r)
  PROVE  Structure'
<1> DEFINE t == [sheets EXCEPT ![req[r].sheet].status = req[r].decision]
<1>1. /\ req[r] \in Request
      /\ sheets \in Seq(Sheet) /\ \A s \in DOMAIN sheets : sheets[s] \in Sheet
  BY DEF Structure, TypeOK
<1>2. /\ req[r].sheet \in DOMAIN sheets
      /\ req[r].decision \in Decisions
      /\ Grounds(req[r].sheet, req[r].decision)
  BY <1>1 DEF Structure, Linked, Targeted, DecideSheet, At, Request
<1>3. /\ req' \in [Requests -> Request]
      /\ req'[r] = [req[r] EXCEPT !.write = "spread"]
      /\ \A o \in Requests \ {r} : req'[o] = req[o]
  BY GoToType DEF DecideSheet, Structure, Writes
<1>4. /\ req'[r].write = "spread" /\ req'[r].sheet = req[r].sheet
      /\ req'[r].decision = req[r].decision
  BY <1>1, <1>3 DEF Request
<1>5. sheets' = t
  BY DEF DecideSheet
<1>6. sheets' \in Seq(Sheet)
  <2>1. CreateSheet(r) => req[r].to \in SUBSET Members
    BY DEF Structure, Linked, CreateSheet, At
  <2>. QED
    BY <2>1, SheetsType DEF Structure
<1>7. inTurn' \in BOOLEAN
  <2>1. Stays(sheets[req[r].sheet].status = "pending")
    BY DEF DecideSheet
  <2>. QED
    BY <2>1, StaysType
<1>8. TypeOK'
  BY <1>3, <1>6, <1>7 DEF DecideSheet, Structure, TypeOK
<1>9. DOMAIN sheets' = DOMAIN sheets /\ Len(sheets') = Len(sheets)
  BY <1>1, <1>5
<1>10. SheetsGrow
  BY <1>1, <1>9 DEF SheetsGrow
<1>11. \A s \in DOMAIN sheets :
         /\ sheets'[s].stage = sheets[s].stage
         /\ sheets'[s].status = IF s = req[r].sheet THEN req[r].decision ELSE sheets[s].status
  BY <1>1, <1>5 DEF Sheet
<1>12. UNCHANGED votes
  BY DEF DecideSheet
<1>13. DecidedOnAnswers'
  BY <1>2, <1>9, <1>11, <1>12 DEF DecidedOnAnswers, Structure, Signed, Grounds, Decisions
<1>14. StagesSigned'
  BY <1>9, <1>11, <1>12 DEF StagesSigned, Structure, Signed
<1>15. Linked(r)'
  BY <1>2, <1>4, <1>9, <1>12 DEF Linked, Targeted, Grounds, Signed
<1>. QED
  BY <1>3, <1>8, <1>10, <1>13, <1>14, <1>15, SheetsOnly DEF DecideSheet

(* The requests that write votes leave sheets and rows alone. *)
LEMMA VotesOnly ==
  ASSUME Structure, TypeOK', UNCHANGED <<rows, sheets>>, Kept, BoardAfterChro', VotesLinked',
         NEW r \in Requests, Linked(r)', \A o \in Requests \ {r} : req'[o] = req[o]
  PROVE  Structure'
<1>1. SheetsGrow
  BY Lengths DEF SheetsGrow, Structure
<1>2. \A o \in Requests : Linked(o)'
  BY <1>1, LinkedFrame
<1>. QED
  BY <1>1, <1>2, SheetsFrame, RowsFrame, StructureParts

LEMMA ClearStep ==
  ASSUME Structure, NEW r \in Requests, ClearPending(r)
  PROVE  Structure'
<1>1. req[r] \in Request
  BY DEF Structure, TypeOK
<1>2. votes' \in Seq(Vote) /\ Kept /\ Len(votes') = Len(votes)
  BY ClearVotes DEF Structure
<1>3. /\ req' \in [Requests -> Request]
      /\ req'[r] = [req[r] EXCEPT !.write = "issue"]
      /\ \A o \in Requests \ {r} : req'[o] = req[o]
  BY GoToType DEF ClearPending, Structure, Writes
<1>4. /\ req'[r].write = "issue" /\ req'[r].sheet = req[r].sheet
      /\ req'[r].stage = req[r].stage
  BY <1>1, <1>3 DEF Request
<1>5. TypeOK'
  BY <1>2, <1>3 DEF ClearPending, Structure, TypeOK
<1>6. UNCHANGED <<rows, sheets>> /\ SheetsGrow
  BY Lengths DEF ClearPending, SheetsGrow, Structure
<1>7. BoardAfterChro' /\ VotesLinked'
  BY <1>2, <1>5, <1>6, VotesFrame
<1>8. PICK s : s = req[r].sheet
  OBVIOUS
<1>9. s \in DOMAIN sheets /\ (req[r].stage = "board" => Signed(s, "chro", "approved"))
  BY <1>8 DEF Structure, Linked, Targeted, ClearPending, At
<1>10. req[r].stage = "board" => Signed(s, "chro", "approved")'
  BY <1>2, <1>9, SignedKept DEF Decisions
<1>11. Linked(r)'
  BY <1>4, <1>6, <1>8, <1>9, <1>10 DEF Linked, Targeted
<1>. QED
  BY <1>2, <1>3, <1>5, <1>6, <1>7, <1>11, VotesOnly

LEMMA IssueStep ==
  ASSUME Structure, NEW r \in Requests, IssueLink(r)
  PROVE  Structure'
<1>1. req[r] \in Request /\ req \in [Requests -> Request] /\ votes \in Seq(Vote)
  BY DEF Structure, TypeOK
<1>2. CASE req[r].to = {}
  <2>1. /\ req' \in [Requests -> Request]
        /\ req'[r] = Idle
        /\ \A o \in Requests \ {r} : req'[o] = req[o]
    BY <1>2, EndType DEF IssueLink, Structure
  <2>2. UNCHANGED <<rows, sheets, votes, resends, inTurn>>
    BY <1>2 DEF IssueLink
  <2>3. TypeOK'
    BY <2>1, <2>2 DEF Structure, TypeOK
  <2>. QED
    BY <2>1, <2>2, <2>3, IdleLinked, QuietStep
<1>3. CASE req[r].to # {}
  <2>1. /\ votes' \in Seq(Vote)
        /\ Kept
        /\ Len(votes') = Len(votes) + 1
        /\ votes'[Len(votes) + 1].sheet = req[r].sheet
        /\ votes'[Len(votes) + 1].stage = req[r].stage
        /\ \E u \in req[r].to : req' = [req EXCEPT ![r].to = @ \ {u}]
    BY <1>3, IssueVotes DEF Structure
  <2>2. PICK u \in req[r].to : req' = [req EXCEPT ![r].to = @ \ {u}]
    BY <2>1
  <2> DEFINE next == [req[r] EXCEPT !.to = @ \ {u}]
  <2>3. next \in Request
    BY <1>1 DEF Request
  <2>4. /\ next.write = req[r].write /\ next.sheet = req[r].sheet /\ next.stage = req[r].stage
    BY <1>1 DEF Request
  <2>5. req' = [req EXCEPT ![r] = next]
    BY <1>1, <2>2 DEF Request
  <2>. HIDE DEF next
  <2>6. /\ req' \in [Requests -> Request]
        /\ req'[r] = next
        /\ \A o \in Requests \ {r} : req'[o] = req[o]
    BY <1>1, <2>3, <2>5
  <2>7. UNCHANGED <<rows, sheets, resends, inTurn>> /\ SheetsGrow /\ req[r].write = "issue"
    BY Lengths DEF IssueLink, SheetsGrow, Structure, At
  <2>8. TypeOK'
    BY <2>1, <2>6, <2>7 DEF Structure, TypeOK
  <2>9. PICK s : s = req[r].sheet
    OBVIOUS
  <2>10. s \in DOMAIN sheets /\ (req[r].stage = "board" => Signed(s, "chro", "approved"))
    BY <2>7, <2>9 DEF Structure, Linked, Targeted
  <2>11. req[r].stage = "board" => Signed(s, "chro", "approved")'
    BY <2>1, <2>10, SignedKept DEF Decisions
  <2>12. Linked(r)'
    BY <2>4, <2>6, <2>7, <2>9, <2>10, <2>11 DEF Linked, Targeted
  <2>13. /\ Len(votes) \in Nat
         /\ 1..Len(votes) = DOMAIN votes
         /\ 1..Len(votes') = DOMAIN votes'
    BY <1>1, <2>1
  <2>14. ASSUME NEW v \in DOMAIN votes'
         PROVE  v \in DOMAIN votes \/ v = Len(votes) + 1
    BY <2>1, <2>13
  <2>15. ASSUME NEW v \in DOMAIN votes', NEW t, t = votes'[v].sheet
         PROVE  /\ t \in DOMAIN sheets'
                /\ votes'[v].stage = "board" => Signed(t, "chro", "approved")'
    <3>1. CASE v = Len(votes) + 1
      <4>1. t = s /\ votes'[v].stage = req[r].stage
        BY <2>1, <2>9, <2>15, <3>1
      <4>. QED
        BY <2>7, <2>10, <2>11, <4>1
    <3>2. CASE v \in DOMAIN votes
      <4>1. t = votes[v].sheet /\ votes'[v].stage = votes[v].stage
        BY <2>1, <2>15, <3>2 DEF Kept
      <4>2. t \in DOMAIN sheets /\ (votes[v].stage = "board" => Signed(t, "chro", "approved"))
        BY <3>2, <4>1 DEF Structure, BoardAfterChro
      <4>3. Signed(t, "chro", "approved") => Signed(t, "chro", "approved")'
        BY <2>1, SignedKept DEF Decisions
      <4>. QED
        BY <2>7, <4>1, <4>2, <4>3
    <3>. QED
      BY <2>14, <3>1, <3>2
  <2>16. VotesLinked'
    BY <2>15 DEF VotesLinked
  <2>17. BoardAfterChro'
    BY <2>15 DEF BoardAfterChro
  <2>. QED
    BY <2>1, <2>6, <2>7, <2>8, <2>12, <2>16, <2>17, VotesOnly
<1>. QED
  BY <1>2, <1>3

LEMMA ClaimStep ==
  ASSUME Structure, NEW r \in Requests, ClaimVote(r)
  PROVE  Structure'
<1>1. req[r] \in Request /\ req \in [Requests -> Request] /\ req[r].write = "claim"
  BY DEF Structure, TypeOK, ClaimVote, At
<1>2. UNCHANGED <<rows, sheets, resends, inTurn>> /\ SheetsGrow
  BY Lengths DEF ClaimVote, SheetsGrow, Structure
<1>3. CASE ~Claimable(req[r].vote)
  <2>1. /\ req' \in [Requests -> Request]
        /\ req'[r] = Idle
        /\ \A o \in Requests \ {r} : req'[o] = req[o]
    BY <1>3, EndType DEF ClaimVote, Structure
  <2>2. UNCHANGED votes
    BY <1>3 DEF ClaimVote
  <2>3. TypeOK'
    BY <1>2, <2>1, <2>2 DEF Structure, TypeOK
  <2>. QED
    BY <1>2, <2>1, <2>2, <2>3, IdleLinked, QuietStep
<1>4. CASE Claimable(req[r].vote)
  <2> DEFINE toBoard == [req[r] EXCEPT !.write = "open", !.stage = "board", !.vote = 0]
             decide == [req[r] EXCEPT !.write = "decide", !.vote = 0]
  <2>1. PICK s, stage, d : s = req[r].sheet /\ stage = req[r].stage /\ d = req[r].decision
    OBVIOUS
  <2>2. votes' \in Seq(Vote) /\ Kept /\ Len(votes') = Len(votes) /\ Signed(s, stage, d)'
    BY <1>4, <2>1, ClaimVotes
  <2>3. /\ toBoard \in Request
        /\ toBoard.write = "open" /\ toBoard.stage = "board" /\ toBoard.sheet = s
    BY <1>1, <2>1 DEF Request, Writes, Stages
  <2>4. /\ decide \in Request
        /\ decide.write = "decide" /\ decide.sheet = s /\ decide.decision = d
    BY <1>1, <2>1 DEF Request, Writes
  <2>5. req' = [req EXCEPT ![r] = IF HandsOn(r) THEN toBoard ELSE decide]
    BY <1>1, <1>4 DEF ClaimVote, Request
  <2>. HIDE DEF toBoard, decide
  <2>6. /\ req' \in [Requests -> Request]
        /\ req'[r] = IF HandsOn(r) THEN toBoard ELSE decide
        /\ \A o \in Requests \ {r} : req'[o] = req[o]
    BY <1>1, <2>3, <2>4, <2>5
  <2>7. TypeOK'
    BY <1>2, <2>2, <2>6 DEF Structure, TypeOK
  <2>8. BoardAfterChro' /\ VotesLinked'
    BY <1>2, <2>2, <2>7, VotesFrame
  <2>9. s \in DOMAIN sheets /\ stage \in Stages /\ d \in Decisions
    BY <1>1, <2>1 DEF Structure, Linked, Targeted, Request
  <2>10. CASE HandsOn(r)
    <3>1. stage = "chro" /\ d = "approved" /\ req'[r] = toBoard
      BY <2>1, <2>6, <2>10 DEF HandsOn
    <3>2. Signed(s, "chro", "approved")'
      BY <2>2, <3>1
    <3>3. Linked(r)'
      BY <1>2, <2>3, <2>9, <3>1, <3>2 DEF Linked, Targeted
    <3>. QED
      BY <1>2, <2>2, <2>6, <2>7, <2>8, <3>3, VotesOnly
  <2>11. CASE ~HandsOn(r)
    <3>1. req'[r] = decide /\ (d = "approved" => stage = "board")
      BY <2>1, <2>6, <2>9, <2>11 DEF HandsOn, Stages
    <3>2. votes[req[r].vote].sheet = s /\ votes[req[r].vote].stage = stage
          /\ req[r].vote \in DOMAIN votes
      BY <1>1, <2>1 DEF Structure, Linked
    <3>3. d = "approved" => Signed(s, "chro", "approved")
      BY <3>1, <3>2 DEF Structure, BoardAfterChro
    <3>4. d = "approved" => Signed(s, "chro", "approved")'
      BY <2>2, <3>3, SignedKept DEF Decisions
    <3>5. Grounds(s, d)'
      BY <2>2, <2>9, <3>1, <3>4 DEF Grounds, Decisions
    <3>6. Linked(r)'
      BY <1>2, <2>4, <2>9, <3>1, <3>5 DEF Linked, Targeted
    <3>. QED
      BY <1>2, <2>2, <2>6, <2>7, <2>8, <3>6, VotesOnly
  <2>. QED
    BY <2>10, <2>11
<1>. QED
  BY <1>3, <1>4

LEMMA FailStep ==
  ASSUME Structure, NEW r \in Requests, Fail(r)
  PROVE  Structure'
<1>1. /\ req' \in [Requests -> Request]
      /\ req'[r] = Idle
      /\ \A o \in Requests \ {r} : req'[o] = req[o]
  BY EndType DEF Fail, Structure
<1>2. inTurn' \in BOOLEAN
  <2>1. Stays(~At(r, "spread"))
    BY DEF Fail
  <2>. QED
    BY <2>1, StaysType
<1>3. UNCHANGED <<rows, sheets, votes, resends>>
  BY DEF Fail
<1>4. TypeOK'
  BY <1>1, <1>2, <1>3 DEF Structure, TypeOK
<1>. QED
  BY <1>1, <1>3, <1>4, IdleLinked, QuietStep

(* What a request sets out to do, it can count on when it starts. *)
LEMMA AskStep ==
  ASSUME Structure, NEW r \in Requests, Ask(r)
  PROVE  Structure'
<1>1. PICK q \in Request : Begin(r, q) /\ Begun(q)
  BY AskBegins DEF Structure
<1>2. UNCHANGED <<rows, sheets, votes, inTurn>> /\ resends' \in Nat
  BY AskBegins DEF Structure
<1>3. /\ req' \in [Requests -> Request]
      /\ req'[r] = q
      /\ \A o \in Requests \ {r} : req'[o] = req[o]
  BY <1>1, BeginType DEF Structure
<1>4. TypeOK'
  BY <1>2, <1>3 DEF Structure, TypeOK
<1>5. q.write = "clear" => /\ q.sheet \in DOMAIN sheets
                           /\ q.stage = "board" => Signed(q.sheet, "chro", "approved")
  BY <1>1 DEF Begun, Structure
<1>6. q.write = "claim" => /\ q.vote \in DOMAIN votes
                           /\ votes[q.vote].sheet = q.sheet
                           /\ votes[q.vote].stage = q.stage
                           /\ q.sheet \in DOMAIN sheets
  BY <1>1 DEF Begun, Structure
<1>7. /\ q.write \in {"request", "override", "create", "clear", "claim"}
      /\ q.write = "create" => q.stage = "chro" /\ q.to \in SUBSET Members
  BY <1>1 DEF Begun
<1>8. Linked(r)'
  BY <1>2, <1>3, <1>5, <1>6, <1>7 DEF Linked, Targeted, Signed
<1>. QED
  BY <1>2, <1>3, <1>4, <1>8, QuietStep

(* A stutter. *)
LEMMA SameRequests ==
  ASSUME Structure, UNCHANGED <<rows, sheets, votes, req, resends, inTurn>>
  PROVE  Structure'
<1>1. TypeOK'
  BY DEF Structure, TypeOK
<1>2. Kept /\ SheetsGrow /\ Len(votes') = Len(votes)
  BY KeptSame, Lengths DEF SheetsGrow, Structure
<1>3. \A o \in Requests : Linked(o)'
  BY <1>1, <1>2, LinkedFrame
<1>. QED
  BY <1>1, <1>2, <1>3, VotesFrame, SheetsFrame, RowsFrame, StructureParts

LEMMA StructureStep == Structure /\ [Next]_vars => Structure'
<1>. SUFFICES ASSUME Structure, [Next]_vars PROVE Structure'
  OBVIOUS
<1>1. ASSUME NEW r \in Requests, Ask(r) \/ Proceed(r) \/ Fail(r)
      PROVE  Structure'
  BY <1>1, AskStep, FailStep, RequestStep, OverrideStep, CreateStep, PlaceStep, OpenStep,
     ClearStep, IssueStep, ClaimStep, DecideStep, SpreadStep DEF Proceed
<1>2. ASSUME UNCHANGED vars
      PROVE  Structure'
  BY <1>2, SameRequests DEF vars
<1>. QED
  BY <1>1, <1>2 DEF Next

LEMMA StructureInit == Init => Structure
<1>. SUFFICES ASSUME Init PROVE Structure
  OBVIOUS
<1>1. TypeOK
  BY IdleType DEF Init, TypeOK
<1>2. DOMAIN rows = {} /\ DOMAIN sheets = {} /\ DOMAIN votes = {}
  BY DEF Init
<1>3. \A r \in Requests : Linked(r)
  BY DEF Init, Linked, Idle, Targeted
<1>. QED
  BY <1>1, <1>2, <1>3 DEF Structure, BoardAfterChro, DecidedOnAnswers

LEMMA StructureInvariant == Spec => []Structure
BY StructureInit, StructureStep, PTL DEF Spec

-----------------------------------------------------------------------------
(* Theorems that hold whatever lands out of turn *)

(* Every record keeps its type, for any number of requests, sheets, candidates
   and members. *)
THEOREM TypeTheorem == Spec => []TypeOK
<1>1. Structure => TypeOK
  BY DEF Structure
<1>. QED
  BY <1>1, StructureInvariant, PTL

(* A board link exists only on a sheet whose CHRO has approved it. *)
THEOREM BoardTheorem == Spec => []BoardAfterChro
<1>1. Structure => BoardAfterChro
  BY DEF Structure
<1>. QED
  BY <1>1, StructureInvariant, PTL

(* A sheet is approved or rejected only on the answers that say so. *)
THEOREM AnswersTheorem == Spec => []DecidedOnAnswers
<1>1. Structure => DecidedOnAnswers
  BY DEF Structure
<1>. QED
  BY <1>1, StructureInvariant, PTL

(* Nobody is asked, and nothing decided, ahead of the answers it takes. *)
THEOREM SignaturesTheorem == Spec => []SignaturesFirst
<1>1. BoardAfterChro /\ DecidedOnAnswers => SignaturesFirst
  BY DEF SignaturesFirst
<1>. QED
  BY <1>1, BoardTheorem, AnswersTheorem, PTL

LEMMA KeptStep ==
  ASSUME Structure, [Next]_vars
  PROVE  Kept
<1>1. CASE UNCHANGED votes
  BY <1>1, KeptSame
<1>2. ASSUME NEW r \in Requests, Ask(r)
      PROVE  UNCHANGED votes
  BY <1>2, AskBegins DEF Structure
<1>3. ASSUME NEW r \in Requests, IssueLink(r)
      PROVE  Kept
  <2>1. CASE req[r].to = {}
    BY <1>3, <2>1, KeptSame DEF IssueLink
  <2>2. CASE req[r].to # {}
    BY <1>3, <2>2, IssueVotes DEF Structure
  <2>. QED
    BY <2>1, <2>2
<1>4. ASSUME NEW r \in Requests, ClaimVote(r)
      PROVE  Kept
  <2>1. CASE Claimable(req[r].vote)
    BY <1>4, <2>1, ClaimVotes
  <2>2. CASE ~Claimable(req[r].vote)
    BY <1>4, <2>2, KeptSame DEF ClaimVote
  <2>. QED
    BY <2>1, <2>2
<1>5. ASSUME NEW r \in Requests, Proceed(r)
      PROVE  Kept
  <2>1. CASE CommitRequest(r) \/ CommitOverride(r) \/ CreateSheet(r) \/ PlaceRows(r)
             \/ OpenStage(r) \/ DecideSheet(r) \/ SpreadDecision(r)
    <3>1. UNCHANGED votes
      BY <2>1 DEF CommitRequest, CommitOverride, CreateSheet, PlaceRows, OpenStage,
           DecideSheet, SpreadDecision
    <3>. QED
      BY <3>1, KeptSame
  <2>2. CASE ClearPending(r)
    BY <2>2, ClearVotes DEF Structure
  <2>. QED
    BY <1>3, <1>4, <1>5, <2>1, <2>2 DEF Proceed
<1>6. ASSUME NEW r \in Requests, Fail(r)
      PROVE  UNCHANGED votes
  BY <1>6 DEF Fail
<1>. QED
  BY <1>1, <1>2, <1>5, <1>6, KeptSame DEF Next, vars

(* An answer, once given, is neither changed nor lost, whoever else answers,
   resends or dies. *)
THEOREM AnswerTheorem == Spec => AnswerStands
<1> DEFINE Stands == \A v \in DOMAIN votes :
              votes[v].status \in Decisions => v \in DOMAIN votes' /\ votes'[v] = votes[v]
<1>1. Structure /\ [Next]_vars => Stands
  BY KeptStep DEF Kept
<1>2. Structure /\ [Next]_vars => [Stands]_vars
  BY <1>1
<1>3. [Stands]_vars <=>
        [\A v \in DOMAIN votes :
           votes[v].status \in Decisions => v \in DOMAIN votes' /\ votes'[v] = votes[v]]_vars
  OBVIOUS
<1>. HIDE DEF Stands
<1>. QED
  BY <1>2, <1>3, StructureInvariant, PTL DEF Spec, AnswerStands

-----------------------------------------------------------------------------
(* What holds as long as every write lands on what its handler had read *)

RowsSigned ==
  \A i \in DOMAIN rows :
    rows[i].status = "approved" /\ rows[i].by \notin {"hr", "link"} =>
      /\ rows[i].sheet \in DOMAIN sheets
      /\ Grounds(rows[i].sheet, "approved")

Whole ==
  \A s \in DOMAIN sheets : \A i \in OnSheet(s) :
    rows[i].by \in {"hr", "link"} \/ rows[i].status = sheets[s].status
      \/ \E r \in Requests : At(r, "spread") /\ req[r].sheet = s

(* No second answer slips in between deciding a sheet and its candidates. *)
Carrying ==
  \A r \in Requests : At(r, "spread") => sheets[req[r].sheet].status = req[r].decision

Core == RowsSigned /\ Whole /\ Carrying

Truth == inTurn => Core

(* Candidates keep their signatures as long as the votes are kept. *)
LEMMA RowsSignedFrame ==
  ASSUME Structure, TypeOK', RowsSigned, Kept, SheetsGrow,
         \A i \in DOMAIN rows' :
           \/ rows'[i].status # "approved" \/ rows'[i].by = "hr"
           \/ i \in DOMAIN rows /\ rows'[i] = rows[i]
  PROVE  RowsSigned'
<1>1. ASSUME NEW i \in DOMAIN rows', rows'[i].status = "approved", rows'[i].by \notin {"hr", "link"},
             NEW s, s = rows'[i].sheet
      PROVE  s \in DOMAIN sheets' /\ Grounds(s, "approved")'
  <2>1. s \in DOMAIN sheets /\ Grounds(s, "approved")
    BY <1>1 DEF RowsSigned
  <2>. QED
    BY <2>1, GroundsKept, SheetsKeep DEF Structure, Decisions
<1>. QED
  BY <1>1 DEF RowsSigned

(* A request that leaves rows and sheets alone, and carries no decision. *)
LEMMA CoreFrame ==
  ASSUME Structure, TypeOK', Core, Kept, UNCHANGED <<rows, sheets>>,
         NEW r \in Requests, ~At(r, "spread"), ~At(r, "spread")',
         \A o \in Requests \ {r} : req'[o] = req[o]
  PROVE  Core'
<1>1. SheetsGrow
  BY Lengths DEF SheetsGrow, Structure
<1>2. RowsSigned'
  BY <1>1, RowsSignedFrame DEF Core
<1>3. Whole'
  BY DEF Whole, Core, OnSheet, At
<1>4. Carrying'
  BY DEF Carrying, Core, At
<1>. QED
  BY <1>2, <1>3, <1>4 DEF Core

(* A request that writes rows and carries no decision.  A row it leaves on a
   sheet is as it was, approved by HR, or as pending as the sheet. *)
LEMMA CoreRows ==
  ASSUME Structure, TypeOK', Core, UNCHANGED <<sheets, votes>>,
         NEW r \in Requests, ~At(r, "spread"), ~At(r, "spread")',
         \A o \in Requests \ {r} : req'[o] = req[o],
         \A i \in DOMAIN rows' :
           \/ i \in DOMAIN rows /\ rows'[i] = rows[i]
           \/ rows'[i].by = "hr"
           \/ /\ rows'[i].status = "pending"
              /\ rows'[i].sheet \in DOMAIN sheets => sheets[rows'[i].sheet].status = "pending"
  PROVE  Core'
<1>1. SheetsGrow /\ Kept
  BY KeptSame, Lengths DEF SheetsGrow, Structure
<1>2. RowsSigned'
  BY <1>1, RowsSignedFrame DEF Core
<1>3. Whole'
  BY DEF Whole, Core, OnSheet, At
<1>4. Carrying'
  BY DEF Carrying, Core, At
<1>. QED
  BY <1>2, <1>3, <1>4 DEF Core

LEMMA RequestCore ==
  ASSUME Structure, TypeOK', Core, NEW r \in Requests, CommitRequest(r) \/ CommitOverride(r)
  PROVE  Core'
<1>1. /\ req'[r] = Idle
      /\ \A o \in Requests \ {r} : req'[o] = req[o]
  BY EndType DEF Structure, CommitRequest, CommitOverride
<1>2. UNCHANGED <<sheets, votes>> /\ ~At(r, "spread") /\ ~At(r, "spread")'
  BY <1>1 DEF CommitRequest, CommitOverride, At, Idle
<1>3. PICK c \in req[r].cands :
        \/ \E new \in {FreshRow(c), Override(FreshRow(c))} : rows' = Append(rows, new)
        \/ rows' = [i \in DOMAIN rows |-> IF i \in req[r].rows THEN FreshRow(c) ELSE rows[i]]
        \/ rows' = [i \in DOMAIN rows |-> IF i \in req[r].rows THEN Override(rows[i]) ELSE rows[i]]
  BY DEF CommitRequest, CommitOverride
<1>4. rows \in Seq(Row) /\ c \in Candidates /\ \A i \in DOMAIN rows : rows[i] \in Row
  BY DEF Structure, TypeOK, Request
<1>5. /\ FreshRow(c).status = "pending" /\ FreshRow(c).sheet = 0
      /\ Override(FreshRow(c)).by = "hr"
      /\ \A i \in DOMAIN rows : Override(rows[i]).by = "hr"
  BY <1>4 DEF FreshRow, Override, Row
<1>6. FreshRow(c) \in Row /\ Override(FreshRow(c)) \in Row
  BY <1>4, FreshRowType
<1>7. 0 \notin DOMAIN sheets
  BY Lengths DEF Structure
<1>8. ASSUME NEW i \in DOMAIN rows'
      PROVE  \/ i \in DOMAIN rows /\ rows'[i] = rows[i]
             \/ rows'[i].by = "hr"
             \/ rows'[i].status = "pending" /\ rows'[i].sheet = 0
  <2>1. ASSUME NEW new \in {FreshRow(c), Override(FreshRow(c))}, rows' = Append(rows, new)
        PROVE  \/ i \in DOMAIN rows /\ rows'[i] = rows[i]
               \/ rows'[i].by = "hr"
               \/ rows'[i].status = "pending" /\ rows'[i].sheet = 0
    <3>1. /\ Len(rows) \in Nat
          /\ DOMAIN rows' = 1..(Len(rows) + 1)
          /\ DOMAIN rows = 1..Len(rows)
          /\ \A j \in DOMAIN rows : rows'[j] = rows[j]
          /\ rows'[Len(rows) + 1] = new
      BY <1>4, <1>6, <2>1, Extended
    <3>2. i \in DOMAIN rows \/ i = Len(rows) + 1
      BY <3>1
    <3>. QED
      BY <1>5, <3>1, <3>2
  <2>2. CASE rows' = [j \in DOMAIN rows |-> IF j \in req[r].rows THEN FreshRow(c) ELSE rows[j]]
    BY <1>5, <2>2
  <2>3. CASE rows' = [j \in DOMAIN rows |-> IF j \in req[r].rows THEN Override(rows[j]) ELSE rows[j]]
    BY <1>5, <2>3
  <2>. QED
    BY <1>3, <2>1, <2>2, <2>3
<1>. QED
  BY <1>1, <1>2, <1>7, <1>8, CoreRows

LEMMA PlaceCore ==
  ASSUME Structure, TypeOK', Core, inTurn', NEW r \in Requests, PlaceRows(r)
  PROVE  Core'
<1>1. \A i \in DOMAIN rows : rows[i] \in Row
  BY DEF Structure, TypeOK
<1>2. /\ sheets[req[r].sheet].status = "pending"
      /\ \A i \in req[r].rows : rows[i].status = "pending"
  BY DEF PlaceRows, Stays, Waiting
<1>3. /\ UNCHANGED <<sheets, votes>>
      /\ ~At(r, "spread")
      /\ \A o \in Requests \ {r} : req'[o] = req[o]
  BY DEF PlaceRows, At, Structure, TypeOK
<1>4. ~At(r, "spread")'
  BY DEF PlaceRows, At, Structure, TypeOK, Request
<1>5. \A i \in DOMAIN rows' :
        \/ i \in DOMAIN rows /\ rows'[i] = rows[i]
        \/ rows'[i].status = "pending" /\ rows'[i].sheet = req[r].sheet
  BY <1>1, <1>2 DEF PlaceRows, Row
<1>. QED
  BY <1>2, <1>3, <1>4, <1>5, CoreRows

LEMMA CreateCore ==
  ASSUME Structure, TypeOK', Core, NEW r \in Requests, CreateSheet(r)
  PROVE  Core'
<1> DEFINE new == [status |-> "pending", stage |-> "chro", board |-> req[r].to]
<1>1. sheets \in Seq(Sheet) /\ req[r].to \in SUBSET Members
  BY DEF Structure, TypeOK, Linked, CreateSheet, At
<1>2. new \in Sheet
  BY <1>1 DEF Sheet, Outcomes, Stages
<1>3. sheets' = Append(sheets, new) /\ UNCHANGED <<rows, votes>>
  BY DEF CreateSheet
<1>. HIDE DEF new
<1>4. /\ Len(sheets) \in Nat
      /\ Len(sheets') = Len(sheets) + 1
      /\ DOMAIN sheets' = 1..(Len(sheets) + 1)
      /\ DOMAIN sheets = 1..Len(sheets)
      /\ \A s \in DOMAIN sheets : sheets'[s] = sheets[s]
  BY <1>1, <1>2, <1>3, Extended
<1>5. /\ ~At(r, "spread")
      /\ \A o \in Requests \ {r} : req'[o] = req[o]
  BY DEF CreateSheet, At, Structure, TypeOK
<1>6. ~At(r, "spread")'
  BY DEF CreateSheet, At, Structure, TypeOK, Request
<1>7. \A o \in Requests : At(o, "spread") => req[o].sheet \in DOMAIN sheets
  BY DEF Structure, Linked, Targeted, At
<1>8. SheetsGrow /\ Kept
  BY <1>3, <1>4, KeptSame DEF SheetsGrow
<1>9. RowsSigned'
  BY <1>3, <1>8, RowsSignedFrame DEF Core
<1>10. \A i \in DOMAIN rows : rows[i].sheet # Len(sheets) + 1
  BY <1>4 DEF Structure
<1>11. \A s \in DOMAIN sheets' : OnSheet(s)' # {} => s \in DOMAIN sheets
  BY <1>3, <1>4, <1>10 DEF OnSheet
<1>12. Whole'
  BY <1>3, <1>4, <1>5, <1>11 DEF Whole, Core, OnSheet, At
<1>13. Carrying'
  BY <1>4, <1>5, <1>6, <1>7 DEF Carrying, Core, At
<1>. QED
  BY <1>9, <1>12, <1>13 DEF Core

LEMMA OpenCore ==
  ASSUME Structure, TypeOK', Core, NEW r \in Requests, OpenStage(r)
  PROVE  Core'
<1>1. /\ UNCHANGED <<rows, votes>>
      /\ ~At(r, "spread")
      /\ \A o \in Requests \ {r} : req'[o] = req[o]
  BY DEF OpenStage, At, Structure, TypeOK
<1>2. ~At(r, "spread")'
  BY DEF OpenStage, At, Structure, TypeOK, Request
<1>3. /\ sheets \in Seq(Sheet)
      /\ \A s \in DOMAIN sheets : sheets[s] \in Sheet
      /\ sheets' = [sheets EXCEPT ![req[r].sheet].stage = req[r].stage]
  BY DEF OpenStage, Structure, TypeOK
<1>4. /\ DOMAIN sheets' = DOMAIN sheets /\ Len(sheets') = Len(sheets) /\ Len(sheets) \in Nat
      /\ \A s \in DOMAIN sheets : sheets'[s].status = sheets[s].status
  BY <1>3 DEF Sheet
<1>5. SheetsGrow /\ Kept
  BY <1>1, <1>4, KeptSame DEF SheetsGrow
<1>6. RowsSigned'
  BY <1>1, <1>5, RowsSignedFrame DEF Core
<1>7. Whole'
  BY <1>1, <1>4 DEF Whole, Core, OnSheet, At
<1>8. \A o \in Requests : At(o, "spread") => req[o].sheet \in DOMAIN sheets
  BY DEF Structure, Linked, Targeted, At
<1>9. Carrying'
  BY <1>1, <1>2, <1>4, <1>8 DEF Carrying, Core, At
<1>. QED
  BY <1>6, <1>7, <1>9 DEF Core

(* In turn, the sheet was pending: nobody else is carrying its decision. *)
LEMMA DecideCore ==
  ASSUME Structure, TypeOK', Core, inTurn', NEW r \in Requests, DecideSheet(r)
  PROVE  Core'
<1>1. /\ req[r] \in Request
      /\ sheets \in Seq(Sheet)
      /\ \A s \in DOMAIN sheets : sheets[s] \in Sheet
      /\ req[r].sheet \in DOMAIN sheets
  BY DEF Structure, TypeOK, Linked, Targeted, DecideSheet, At
<1>2. /\ req'[r] = [req[r] EXCEPT !.write = "spread"]
      /\ \A o \in Requests \ {r} : req'[o] = req[o]
  BY GoToType DEF DecideSheet, Structure, Writes
<1>3. /\ req'[r].write = "spread" /\ req'[r].sheet = req[r].sheet
      /\ req'[r].decision = req[r].decision
  BY <1>1, <1>2 DEF Request
<1>4. /\ UNCHANGED <<rows, votes>>
      /\ sheets' = [sheets EXCEPT ![req[r].sheet].status = req[r].decision]
      /\ sheets[req[r].sheet].status = "pending"
      /\ ~At(r, "spread")
  BY DEF DecideSheet, Stays, At
<1>5. /\ DOMAIN sheets' = DOMAIN sheets /\ Len(sheets') = Len(sheets) /\ Len(sheets) \in Nat
      /\ \A s \in DOMAIN sheets :
           sheets'[s].status = IF s = req[r].sheet THEN req[r].decision ELSE sheets[s].status
  BY <1>1, <1>4 DEF Sheet
<1>6. SheetsGrow /\ Kept
  BY <1>4, <1>5, KeptSame DEF SheetsGrow
<1>7. RowsSigned'
  BY <1>4, <1>6, RowsSignedFrame DEF Core
<1>8. \A o \in Requests : At(o, "spread") =>
        /\ req[o].sheet \in DOMAIN sheets
        /\ sheets[req[o].sheet].status = req[o].decision
        /\ req[o].decision # "pending"
  BY DEF Structure, TypeOK, Request, Decisions, Linked, Targeted, At, Core, Carrying
<1>9. ASSUME NEW t \in DOMAIN sheets', NEW i \in OnSheet(t)', rows'[i].by \notin {"hr", "link"},
             rows'[i].status # sheets'[t].status
      PROVE  \E o \in Requests : At(o, "spread")' /\ req'[o].sheet = t
  <2>1. CASE t = req[r].sheet
    BY <1>3, <2>1 DEF At
  <2>2. CASE t # req[r].sheet
    <3>1. t \in DOMAIN sheets /\ i \in OnSheet(t) /\ sheets'[t].status = sheets[t].status
      BY <1>4, <1>5, <1>9, <2>2 DEF OnSheet
    <3>2. PICK o \in Requests : At(o, "spread") /\ req[o].sheet = t
      BY <1>4, <1>9, <3>1 DEF Core, Whole
    <3>3. req'[o] = req[o]
      BY <1>2, <2>2, <3>2
    <3>. QED
      BY <3>2, <3>3 DEF At
  <2>. QED
    BY <2>1, <2>2
<1>10. Whole'
  BY <1>9 DEF Whole
<1>11. ASSUME NEW o \in Requests, req'[o].write = "spread"
       PROVE  sheets'[req'[o].sheet].status = req'[o].decision
  <2>1. CASE o = r
    BY <1>1, <1>3, <1>5, <2>1
  <2>2. CASE o # r
    <3>1. req'[o] = req[o] /\ At(o, "spread")
      BY <1>2, <1>11, <2>2 DEF At
    <3>2. req[o].sheet # req[r].sheet
      BY <1>4, <1>8, <3>1
    <3>. QED
      BY <1>5, <1>8, <3>1, <3>2
  <2>. QED
    BY <2>1, <2>2
<1>12. Carrying'
  BY <1>11 DEF Carrying, At
<1>. QED
  BY <1>7, <1>10, <1>12 DEF Core

LEMMA SpreadCore ==
  ASSUME Structure, TypeOK', Core, NEW r \in Requests, SpreadDecision(r)
  PROVE  Core'
<1>1. PICK s, d : s = req[r].sheet /\ d = req[r].decision
  OBVIOUS
<1>2. /\ s \in DOMAIN sheets
      /\ Grounds(s, d)
      /\ sheets[s].status = d
  BY <1>1 DEF Structure, Linked, Targeted, SpreadDecision, At, Core, Carrying
<1>3. /\ req'[r] = Idle
      /\ \A o \in Requests \ {r} : req'[o] = req[o]
  BY EndType DEF SpreadDecision, Structure
<1>4. UNCHANGED <<sheets, votes>>
  BY DEF SpreadDecision
<1>5. \A i \in DOMAIN rows : rows[i] \in Row
  BY DEF Structure, TypeOK
<1>6. /\ DOMAIN rows' = DOMAIN rows
      /\ \A i \in DOMAIN rows :
           /\ rows'[i].sheet = rows[i].sheet
           /\ rows[i].sheet = s => rows'[i].status = d
           /\ rows[i].sheet # s => rows'[i] = rows[i]
  BY <1>1, <1>5 DEF SpreadDecision, OnSheet, Row
<1>7. ASSUME NEW i \in DOMAIN rows', rows'[i].status = "approved", rows'[i].by \notin {"hr", "link"},
             NEW t, t = rows'[i].sheet
      PROVE  t \in DOMAIN sheets' /\ Grounds(t, "approved")'
  <2>1. t \in DOMAIN sheets /\ Grounds(t, "approved")
    BY <1>2, <1>6, <1>7 DEF Core, RowsSigned
  <2>. QED
    BY <1>4, <2>1, KeptSame, GroundsKept DEF Decisions
<1>8. RowsSigned'
  BY <1>7 DEF RowsSigned
<1>9. ASSUME NEW t \in DOMAIN sheets', NEW i \in OnSheet(t)', rows'[i].by \notin {"hr", "link"},
             rows'[i].status # sheets'[t].status
      PROVE  \E o \in Requests : At(o, "spread")' /\ req'[o].sheet = t
  <2>1. i \in DOMAIN rows /\ rows[i].sheet = t /\ t \in DOMAIN sheets
    BY <1>4, <1>6, <1>9 DEF OnSheet
  <2>2. t # s /\ rows'[i] = rows[i]
    BY <1>2, <1>4, <1>6, <1>9, <2>1
  <2>3. PICK o \in Requests : At(o, "spread") /\ req[o].sheet = t
    BY <1>4, <1>9, <2>1, <2>2 DEF Core, Whole, OnSheet
  <2>4. o # r
    BY <1>1, <2>2, <2>3
  <2>. QED
    BY <1>3, <2>3, <2>4 DEF At
<1>10. Whole'
  BY <1>9 DEF Whole
<1>11. Carrying'
  BY <1>3, <1>4 DEF Carrying, Core, At, Idle
<1>. QED
  BY <1>8, <1>10, <1>11 DEF Core

LEMMA VotesCore ==
  ASSUME Structure, TypeOK', Core, Kept, NEW r \in Requests,
         ClearPending(r) \/ IssueLink(r) \/ ClaimVote(r)
  PROVE  Core'
<1>1. req \in [Requests -> Request] /\ req[r] \in Request
  BY DEF Structure, TypeOK
<1>2. UNCHANGED <<rows, sheets>> /\ ~At(r, "spread")
  BY DEF ClearPending, IssueLink, ClaimVote, At
<1>3. \A o \in Requests \ {r} : req'[o] = req[o]
  BY <1>1 DEF ClearPending, IssueLink, ClaimVote, GoTo, End
<1>4. ~At(r, "spread")'
  <2>1. CASE ClearPending(r)
    BY <1>1, <2>1 DEF ClearPending, GoTo, At, Request
  <2>2. CASE IssueLink(r)
    <3>1. CASE req[r].to = {}
      BY <1>1, <2>2, <3>1 DEF IssueLink, End, Idle, At
    <3>2. CASE req[r].to # {}
      <4>1. PICK u \in req[r].to : req' = [req EXCEPT ![r].to = @ \ {u}]
        BY <2>2, <3>2 DEF IssueLink
      <4>. QED
        BY <1>1, <1>2, <4>1 DEF At, Request
    <3>. QED
      BY <3>1, <3>2
  <2>3. CASE ClaimVote(r)
    BY <1>1, <2>3 DEF ClaimVote, End, Idle, At, Request
  <2>. QED
    BY <2>1, <2>2, <2>3
<1>. QED
  BY <1>2, <1>3, <1>4, CoreFrame

LEMMA AskCore ==
  ASSUME Structure, TypeOK', Core, NEW r \in Requests, Ask(r)
  PROVE  Core'
<1>1. PICK q \in Request : Begin(r, q) /\ Begun(q)
  BY AskBegins DEF Structure
<1>2. UNCHANGED <<rows, sheets, votes, inTurn>>
  BY AskBegins DEF Structure
<1>3. /\ req'[r] = q
      /\ \A o \in Requests \ {r} : req'[o] = req[o]
  BY <1>1, BeginType DEF Structure
<1>4. ~At(r, "spread") /\ ~At(r, "spread")'
  BY <1>1, <1>3 DEF Begin, Begun, At
<1>. QED
  BY <1>2, <1>3, <1>4, KeptSame, CoreFrame

LEMMA FailCore ==
  ASSUME Structure, TypeOK', Core, inTurn', NEW r \in Requests, Fail(r)
  PROVE  Core'
<1>1. /\ req'[r] = Idle
      /\ \A o \in Requests \ {r} : req'[o] = req[o]
  BY EndType DEF Fail, Structure
<1>2. ~At(r, "spread") /\ UNCHANGED <<rows, sheets, votes>>
  BY DEF Fail, Stays
<1>3. ~At(r, "spread")'
  BY <1>1 DEF At, Idle
<1>. QED
  BY <1>1, <1>2, <1>3, KeptSame, CoreFrame

(* Nothing that was out of turn is in turn again. *)
LEMMA InTurnBefore ==
  ASSUME Structure, [Next]_vars, inTurn'
  PROVE  inTurn
<1>1. ASSUME NEW r \in Requests, Ask(r)
      PROVE  inTurn
  BY <1>1, AskBegins DEF Structure
<1>2. ASSUME NEW r \in Requests, Proceed(r) \/ Fail(r)
      PROVE  inTurn
  BY <1>2 DEF Proceed, Fail, CommitRequest, CommitOverride, CreateSheet, PlaceRows, OpenStage,
     ClearPending, IssueLink, ClaimVote, DecideSheet, SpreadDecision, Stays
<1>. QED
  BY <1>1, <1>2 DEF Next, vars

LEMMA TruthStep == Structure /\ Truth /\ [Next]_vars => Truth'
<1>. SUFFICES ASSUME Structure, Truth, [Next]_vars, inTurn' PROVE Core'
  BY DEF Truth
<1>1. Core /\ Structure' /\ TypeOK' /\ Kept
  BY InTurnBefore, StructureStep, KeptStep DEF Truth, Structure
<1>2. ASSUME NEW r \in Requests, Ask(r) \/ Proceed(r) \/ Fail(r)
      PROVE  Core'
  BY <1>1, <1>2, AskCore, FailCore, RequestCore, CreateCore, PlaceCore, OpenCore, VotesCore,
     DecideCore, SpreadCore DEF Proceed
<1>3. CASE UNCHANGED vars
  <2>1. UNCHANGED <<rows, sheets, votes, req>>
    BY <1>3 DEF vars
  <2>2. RowsSigned' /\ Whole' /\ Carrying'
    BY <1>1, <2>1 DEF Core, RowsSigned, Whole, Carrying, Grounds, Signed, OnSheet, At
  <2>. QED
    BY <2>2 DEF Core
<1>. QED
  BY <1>2, <1>3 DEF Next

LEMMA TruthInit == Init => Truth
<1>. SUFFICES ASSUME Init PROVE Core
  BY DEF Truth
<1>1. DOMAIN rows = {} /\ DOMAIN sheets = {}
  BY DEF Init
<1>2. \A r \in Requests : ~At(r, "spread")
  BY DEF Init, At, Idle
<1>. QED
  BY <1>1, <1>2 DEF Core, RowsSigned, Whole, Carrying

LEMMA TruthInvariant == Spec => [](Structure /\ Truth)
<1>1. Init => Structure /\ Truth
  BY StructureInit, TruthInit
<1>2. (Structure /\ Truth) /\ [Next]_vars => (Structure /\ Truth)'
  BY StructureStep, TruthStep
<1>. QED
  BY <1>1, <1>2, PTL DEF Spec

(* As long as every write lands in turn, a candidate is approved only on HR's
   word or on the signatures of the sheet the candidate is on. *)
THEOREM SignedTheorem == Spec => []ApprovalIsSigned
<1>1. Structure /\ Truth => ApprovalIsSigned
  BY DEF Truth, Core, RowsSigned, Grounds, ApprovalIsSigned
<1>. QED
  BY <1>1, TruthInvariant, PTL

(* As long as every write lands in turn, the candidates of a sheet carry its
   decision, but for the one request still writing it to them. *)
THEOREM WholeTheorem == Spec => []SheetDecidesAsAWhole
<1>1. Structure /\ Truth => SheetDecidesAsAWhole
  BY DEF Truth, Core, Whole, SheetDecidesAsAWhole
<1>. QED
  BY <1>1, TruthInvariant, PTL

(* As long as every write lands in turn, the candidates and the sheet they are on agree. *)
THEOREM RowsTheorem == Spec => []RowsFollowSheet
<1>1. ApprovalIsSigned /\ SheetDecidesAsAWhole => RowsFollowSheet
  BY DEF RowsFollowSheet
<1>. QED
  BY <1>1, SignedTheorem, WholeTheorem, PTL
=============================================================================
