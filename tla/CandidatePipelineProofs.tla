---------------------- MODULE CandidatePipelineProofs ----------------------
(***************************************************************************)
(* Theorems of CandidatePipeline for any number of requests, kinds of      *)
(* interview, panelists, delegates and requests made, with or without a    *)
(* Factory HR Head, and with crashes, of Sourcing for any number of people *)
(* and jobs, of Sessions for any number of guests and of edits at once,    *)
(* and of OnboardingDesk for any number of hires, documents and batches.   *)
(*                                                                         *)
(* `Sound` says what a request in flight may hold, whatever lands out of   *)
(* turn; `RoundsTidy` is what the checks of the handlers keep true of the  *)
(* rounds as long as every write lands in turn.  The second part is about  *)
(* the jobs that screen CVs and match the Talent Bank; the third about one *)
(* session, its event in the calendar and the links of those called to it; *)
(* the last about the medical's lists and batches and the papers chased.   *)
(***************************************************************************)
EXTENDS CandidatePipeline, Sourcing, Sessions, OnboardingDesk, FiniteSetTheorems, SequenceTheorems, TLAPS

(* What a request in flight holds, with rounds at the places D. *)
Countable(q, D) ==
  /\ q.op = "outcome" => q.verdict \in {"final", "rejected"}
  /\ q.op = "decide" => q.verdict \in {"final", "rejected", "returned"}
  /\ q.op = "revoke" => q.who \in Delegates
  /\ q.op = "unlink" => q.at \in D

Sound ==
  /\ TypeOK
  /\ \A r \in Requests : Countable(req[r], DOMAIN rounds)

(* Somebody who holds a link is on the panel, or a request is about to delete
   that link. *)
Unlinking(r, i, p) ==
  At(r, "unlink") /\ req[r].at = i /\ p \in Unseated(req[r].was, req[r].people)

Explained(i, p) ==
  p \in rounds[i].panel \/ \E r \in Requests : Unlinking(r, i, p)

LinksExplained ==
  inTurn => \A i \in DOMAIN rounds : \A p \in rounds[i].links : Explained(i, p)

RoundsTidy == OneLiveRound /\ AbsentUnmarked /\ LinksExplained

-----------------------------------------------------------------------------
(* Values *)

LEMMA IdleType == Idle \in Request /\ Idle.op = "none"
BY DEF Idle, Request, NoForm, Form, Ops, Optional

LEMMA GivenType ==
  ASSUME NEW S, NEW T, S \subseteq T, NEW box \in Optional(S), NEW old \in T
  PROVE  Given(box, old) \in T
BY DEF Given, Optional

(* A box that is sent is what is written. *)
LEMMA GivenValue ==
  ASSUME NEW S, NEW box \in Optional(S), NEW old
  PROVE  /\ box = {} => Given(box, old) = old
         /\ \A x \in box : box = {x} /\ Given(box, old) = x
BY DEF Given, Optional

LEMMA NewRoundType ==
  ASSUME NEW k \in Kinds, NEW p \in SUBSET Panelists
  PROVE  NewRound(k, p) \in Round
BY DEF NewRound, Round, Statuses

LEMMA BoxesType == Boxes \subseteq Form
BY DEF Boxes, Form, NoForm, Optional

LEMMA WrittenType ==
  ASSUME NEW round \in Round, NEW f \in Form
  PROVE  /\ Written(round, f) \in Round
         /\ Written(round, f).kind = Given(f.kind, round.kind)
         /\ Written(round, f).status = Given(f.status, round.status)
         /\ Written(round, f).panel = Given(f.panel, round.panel)
         /\ Written(round, f).links = round.links
         /\ Written(round, f).marks = round.marks
<1>1. Given(f.kind, round.kind) \in Kinds
  BY GivenType DEF Form, Round
<1>2. Given(f.status, round.status) \in Statuses \cup {"removed"}
  BY GivenType DEF Form, Round
<1>3. Given(f.panel, round.panel) \in SUBSET Panelists
  BY GivenType DEF Form, Round
<1>. QED
  BY <1>1, <1>2, <1>3 DEF Written, Round

-----------------------------------------------------------------------------
(* What a step leaves sound *)

(* A step that changes one request, keeps the rounds there are and leaves the
   rest well typed. *)
LEMMA SoundFrame ==
  ASSUME Sound, NEW r \in Requests, NEW q \in Request,
         req' = [req EXCEPT ![r] = q],
         rounds' \in Seq(Round), DOMAIN rounds \subseteq DOMAIN rounds',
         Countable(q, DOMAIN rounds'),
         stage' \in Stages, handoffs' \in [Delegates -> Handoff],
         approval' \in {"none", "pending", "approved", "returned", "rejected"},
         left' \in [rounds : Nat, moves : Nat], inTurn' \in BOOLEAN
  PROVE  Sound'
<1>1. req' \in [Requests -> Request]
  BY DEF Sound, TypeOK
<1>2. TypeOK'
  BY <1>1 DEF TypeOK
<1>3. ASSUME NEW s \in Requests
      PROVE  Countable(req[s], DOMAIN rounds)'
  <2>1. Countable(req[s], DOMAIN rounds)
    BY DEF Sound
  <2>2. CASE s = r
    <3>1. req'[s] = q
      BY <2>2 DEF Sound, TypeOK
    <3>. QED
      BY <3>1 DEF Countable
  <2>3. CASE s # r
    <3>1. req'[s] = req[s]
      BY <2>3 DEF Sound, TypeOK
    <3>. QED
      BY <2>1, <3>1 DEF Countable
  <2>. QED
    BY <2>2, <2>3
<1>. QED
  BY <1>2, <1>3 DEF Sound

(* A request is put in flight. *)
LEMMA AskSound ==
  ASSUME Sound, NEW r \in Requests, NEW budget \in {"rounds", "moves"}, NEW q \in Request,
         Ask(r, budget, q), q.op \in Ops \ {"unlink"},
         q.op = "outcome" => q.verdict \in {"final", "rejected"},
         q.op = "decide" => q.verdict \in {"final", "rejected", "returned"},
         q.op = "revoke" => q.who \in Delegates
  PROVE  Sound'
<1>1. left' \in [rounds : Nat, moves : Nat]
  BY DEF Ask, Spend, Sound, TypeOK
<1>2. /\ req' = [req EXCEPT ![r] = q]
      /\ UNCHANGED <<stage, rounds, handoffs, approval, inTurn>>
  BY DEF Ask, Then
<1>3. Countable(q, DOMAIN rounds')
  BY DEF Countable
<1>. QED
  BY <1>1, <1>2, <1>3, SoundFrame DEF Sound, TypeOK

(* A request ends, and the rest is as before or well typed. *)
LEMMA IdleSound ==
  ASSUME Sound, NEW r \in Requests, req' = [req EXCEPT ![r] = Idle],
         rounds' \in Seq(Round), DOMAIN rounds \subseteq DOMAIN rounds',
         stage' \in Stages, handoffs' \in [Delegates -> Handoff],
         approval' \in {"none", "pending", "approved", "returned", "rejected"},
         UNCHANGED left, inTurn' \in BOOLEAN
  PROVE  Sound'
<1>1. Countable(Idle, DOMAIN rounds')
  BY IdleType DEF Countable
<1>2. left' \in [rounds : Nat, moves : Nat]
  BY DEF Sound, TypeOK
<1>. QED
  BY <1>1, <1>2, IdleType, SoundFrame

LEMMA RoundAt ==
  ASSUME Sound, NEW i \in DOMAIN rounds
  PROVE  /\ i \in Nat
         /\ rounds[i] \in Round
         /\ rounds[i].kind \in Kinds
         /\ rounds[i].panel \in SUBSET Panelists
         /\ rounds[i].links \in SUBSET Panelists
         /\ rounds[i].marks \in SUBSET Panelists
<1>1. rounds \in Seq(Round)
  BY DEF Sound, TypeOK
<1>2. i \in Nat /\ rounds[i] \in Round
  BY <1>1
<1>. QED
  BY <1>2 DEF Round

(* One round is rewritten. *)
LEMMA RoundChanged ==
  ASSUME rounds \in Seq(Round), NEW i \in DOMAIN rounds, NEW e \in Round,
         rounds' = [rounds EXCEPT ![i] = e]
  PROVE  /\ rounds' \in Seq(Round)
         /\ DOMAIN rounds' = DOMAIN rounds
         /\ rounds'[i] = e
         /\ \A j \in DOMAIN rounds : j # i => rounds'[j] = rounds[j]
BY ExceptSeq

-----------------------------------------------------------------------------
(* Every step is sound: what people ask for *)

LEMMA RequestsSound ==
  ASSUME Sound, NEW r \in Requests,
         \/ Arrange(r) \/ ResendLink(r) \/ AddPanelists(r) \/ Edit(r)
         \/ SubmitEvaluation(r) \/ SubmitByLink(r)
  PROVE  Sound'
<1>1. CASE Arrange(r)
  <2>1. PICK k \in Kinds, p \in SUBSET Panelists, early \in BOOLEAN :
          Ask(r, "rounds", [Idle EXCEPT !.op = "create", !.form = [NoForm EXCEPT !.kind = {k}],
                                        !.people = p, !.early = early])
    <3>1. (stage \in PreInterview) \in BOOLEAN
      OBVIOUS
    <3>. QED
      BY <1>1, <3>1 DEF Arrange
  <2>. DEFINE q == [Idle EXCEPT !.op = "create", !.form = [NoForm EXCEPT !.kind = {k}],
                                !.people = p, !.early = early]
  <2>2. [NoForm EXCEPT !.kind = {k}] \in Form
    BY DEF NoForm, Form, Optional
  <2>3. q \in Request /\ q.op = "create"
    BY <2>2, IdleType DEF Idle, Request, Ops
  <2>. HIDE DEF q
  <2>. QED
    BY <2>1, <2>3, AskSound DEF q, Ops
<1>2. CASE ResendLink(r)
  <2>1. PICK i \in DOMAIN rounds : \E p \in rounds[i].panel :
          Ask(r, "rounds", [Idle EXCEPT !.op = "link", !.at = i, !.people = {p}])
    BY <1>2 DEF ResendLink
  <2>2. PICK p \in rounds[i].panel :
          Ask(r, "rounds", [Idle EXCEPT !.op = "link", !.at = i, !.people = {p}])
    BY <2>1
  <2>. DEFINE q == [Idle EXCEPT !.op = "link", !.at = i, !.people = {p}]
  <2>3. i \in Nat /\ p \in Panelists
    BY RoundAt
  <2>4. q \in Request /\ q.op = "link"
    BY <2>3, IdleType DEF Idle, Request, Ops
  <2>. HIDE DEF q
  <2>. QED
    BY <2>2, <2>4, AskSound DEF q, Ops
<1>3. CASE AddPanelists(r)
  <2>1. PICK i \in DOMAIN rounds : \E p \in SUBSET (Panelists \ rounds[i].panel) \ {{}} :
          Ask(r, "rounds", [Idle EXCEPT !.op = "add", !.at = i, !.people = p])
    BY <1>3 DEF AddPanelists
  <2>2. PICK p \in SUBSET Panelists :
          Ask(r, "rounds", [Idle EXCEPT !.op = "add", !.at = i, !.people = p])
    BY <2>1
  <2>. DEFINE q == [Idle EXCEPT !.op = "add", !.at = i, !.people = p]
  <2>3. i \in Nat
    BY RoundAt
  <2>4. q \in Request /\ q.op = "add"
    BY <2>3, IdleType DEF Idle, Request, Ops
  <2>. HIDE DEF q
  <2>. QED
    BY <2>2, <2>4, AskSound DEF q, Ops
<1>4. CASE Edit(r)
  <2>1. PICK i \in DOMAIN rounds, f \in Boxes :
          Ask(r, "rounds", [Idle EXCEPT !.op = "edit", !.at = i, !.form = f,
                                        !.was = rounds[i].panel])
    BY <1>4 DEF Edit
  <2>. DEFINE q == [Idle EXCEPT !.op = "edit", !.at = i, !.form = f, !.was = rounds[i].panel]
  <2>2. rounds[i].panel \in SUBSET Panelists /\ i \in Nat
    BY RoundAt
  <2>3. q \in Request /\ q.op = "edit"
    BY <2>2, BoxesType, IdleType DEF Idle, Request, Ops
  <2>. HIDE DEF q
  <2>. QED
    BY <2>1, <2>3, AskSound DEF q, Ops
<1>5. CASE SubmitEvaluation(r) \/ SubmitByLink(r)
  <2>1. PICK i \in DOMAIN rounds : \E p \in rounds[i].panel \cup rounds[i].links, op \in {"mark", "markByLink"} :
          Ask(r, "rounds", [Idle EXCEPT !.op = op, !.at = i, !.people = {p}])
    BY <1>5 DEF SubmitEvaluation, SubmitByLink
  <2>2. PICK p \in rounds[i].panel \cup rounds[i].links, op \in {"mark", "markByLink"} :
          Ask(r, "rounds", [Idle EXCEPT !.op = op, !.at = i, !.people = {p}])
    BY <2>1
  <2>. DEFINE q == [Idle EXCEPT !.op = op, !.at = i, !.people = {p}]
  <2>3. i \in Nat /\ p \in Panelists
    BY RoundAt
  <2>4. q \in Request /\ q.op = op
    BY <2>3, IdleType DEF Idle, Request, Ops
  <2>. HIDE DEF q
  <2>. QED
    BY <2>2, <2>4, AskSound DEF q, Ops
<1>. QED
  BY <1>1, <1>2, <1>3, <1>4, <1>5

LEMMA MovesSound ==
  ASSUME Sound, NEW r \in Requests,
         Revoke(r) \/ RecordOutcome(r) \/ Decide(r) \/ RejectAtInterview(r) \/ Screen(r)
  PROVE  Sound'
<1>1. CASE Revoke(r)
  <2>1. PICK d \in Delegates : Ask(r, "moves", [Idle EXCEPT !.op = "revoke", !.who = d])
    BY <1>1 DEF Revoke
  <2>. DEFINE q == [Idle EXCEPT !.op = "revoke", !.who = d]
  <2>2. q \in Request /\ q.op = "revoke" /\ q.who = d
    BY IdleType DEF Idle, Request, Ops
  <2>. HIDE DEF q
  <2>. QED
    BY <2>1, <2>2, AskSound DEF q, Ops
<1>2. CASE RecordOutcome(r)
  <2>1. PICK who \in Delegates \cup {"hr"}, verdict \in {"final", "rejected"} :
          Ask(r, "moves",
              [Idle EXCEPT !.op = IF verdict = "final" /\ SomeOpen /\ HasHead
                                    THEN "submit" ELSE "outcome",
                           !.who = who, !.verdict = verdict])
    BY <1>2 DEF RecordOutcome
  <2>2. PICK op \in {"submit", "outcome"} :
          Ask(r, "moves", [Idle EXCEPT !.op = op, !.who = who, !.verdict = verdict])
    BY <2>1
  <2>. DEFINE q == [Idle EXCEPT !.op = op, !.who = who, !.verdict = verdict]
  <2>3. q \in Request /\ q.op = op /\ q.verdict = verdict
    BY IdleType DEF Idle, Request, Ops
  <2>. HIDE DEF q
  <2>. QED
    BY <2>2, <2>3, AskSound DEF q, Ops
<1>3. CASE Decide(r)
  <2>1. PICK verdict \in {"final", "rejected", "returned"} :
          Ask(r, "moves", [Idle EXCEPT !.op = "decide", !.verdict = verdict])
    BY <1>3 DEF Decide
  <2>. DEFINE q == [Idle EXCEPT !.op = "decide", !.verdict = verdict]
  <2>2. q \in Request /\ q.op = "decide" /\ q.verdict = verdict
    BY IdleType DEF Idle, Request, Ops
  <2>. HIDE DEF q
  <2>. QED
    BY <2>1, <2>2, AskSound DEF q, Ops
<1>4. CASE RejectAtInterview(r) \/ Screen(r)
  <2>1. PICK op \in {"reject", "screen"} : Ask(r, "moves", [Idle EXCEPT !.op = op])
    BY <1>4 DEF RejectAtInterview, Screen
  <2>. DEFINE q == [Idle EXCEPT !.op = op]
  <2>2. q \in Request /\ q.op = op
    BY IdleType DEF Idle, Request, Ops
  <2>. HIDE DEF q
  <2>. QED
    BY <2>1, <2>2, AskSound DEF q, Ops
<1>. QED
  BY <1>1, <1>2, <1>3, <1>4

-----------------------------------------------------------------------------
(* Every step is sound: what the handlers write *)

LEMMA CreateRoundSound ==
  ASSUME Sound, NEW r \in Requests, CreateRound(r)
  PROVE  Sound'
<1>1. req[r] \in Request /\ rounds \in Seq(Round)
  BY DEF Sound, TypeOK
<1>2. PICK k \in req[r].form.kind :
        /\ rounds' = Append(rounds, NewRound(k, req[r].people))
        /\ inTurn' = (inTurn /\ MayArrange(k))
  BY DEF CreateRound, Stays
<1>3. k \in Kinds /\ req[r].people \in SUBSET Panelists /\ Len(rounds) + 1 \in Nat
  BY <1>1 DEF Request, Form, Optional
<1>4. rounds' \in Seq(Round) /\ DOMAIN rounds \subseteq DOMAIN rounds'
  BY <1>1, <1>2, <1>3, NewRoundType
<1>5. PICK op \in {"advance", "link"} :
        req' = [req EXCEPT ![r] = [Idle EXCEPT !.op = op, !.at = Len(rounds) + 1,
                                               !.people = req[r].people]]
  BY DEF CreateRound, Then
<1>. DEFINE q == [Idle EXCEPT !.op = op, !.at = Len(rounds) + 1, !.people = req[r].people]
<1>6. q \in Request /\ q.op = op
  BY <1>3, IdleType DEF Idle, Request, Ops
<1>7. Countable(q, DOMAIN rounds')
  BY <1>6 DEF Countable
<1>8. inTurn' \in BOOLEAN
  BY <1>2
<1>9. UNCHANGED <<stage, handoffs, approval, left>>
  BY DEF CreateRound
<1>. HIDE DEF q
<1>. QED
  BY <1>4, <1>5, <1>6, <1>7, <1>8, <1>9, SoundFrame DEF q, Sound, TypeOK

(* A request goes on to make links. *)
LEMMA LinkNext ==
  ASSUME Sound, NEW r \in Requests
  PROVE  /\ [req[r] EXCEPT !.op = "link"] \in Request
         /\ \A D : Countable([req[r] EXCEPT !.op = "link"], D)
<1>1. req[r] \in Request
  BY DEF Sound, TypeOK
<1>. QED
  BY <1>1 DEF Request, Ops, Countable

LEMMA LinksSound ==
  ASSUME Sound, NEW r \in Requests,
         AdvanceStage(r) \/ MakeLinks(r) \/ SeatPanelists(r) \/ DropLinks(r)
  PROVE  Sound'
<1>. DEFINE i == req[r].at
            q == [req[r] EXCEPT !.op = "link"]
<1>1. req[r] \in Request /\ rounds \in Seq(Round) /\ stage \in Stages
      /\ handoffs \in [Delegates -> Handoff] /\ left \in [rounds : Nat, moves : Nat]
      /\ approval \in {"none", "pending", "approved", "returned", "rejected"}
      /\ inTurn \in BOOLEAN
  BY DEF Sound, TypeOK
<1>2. q \in Request /\ Countable(q, DOMAIN rounds) /\ Countable(q, DOMAIN rounds')
  BY LinkNext
<1>3. req[r].people \in SUBSET Panelists
  BY <1>1 DEF Request
<1>4. CASE AdvanceStage(r)
  <2>1. /\ req' = [req EXCEPT ![r] = q]
        /\ stage' = "interview"
        /\ inTurn' = (inTurn /\ stage \in PreInterview)
        /\ UNCHANGED <<rounds, handoffs, approval, left>>
    BY <1>4 DEF AdvanceStage, Then, Stays
  <2>2. stage' \in Stages /\ inTurn' \in BOOLEAN
    BY <2>1 DEF Stages
  <2>. HIDE DEF q
  <2>. QED
    BY <1>1, <1>2, <2>1, <2>2, SoundFrame
<1>5. CASE MakeLinks(r)
  <2>1. /\ req' = [req EXCEPT ![r] = Idle]
        /\ UNCHANGED <<stage, handoffs, approval, left>>
    BY <1>5 DEF MakeLinks, Then
  <2>2. CASE Stands(i)
    <3>. DEFINE e == [rounds[i] EXCEPT !.links = @ \cup req[r].people]
    <3>1. i \in DOMAIN rounds
      BY <2>2 DEF Stands
    <3>2. rounds' = [rounds EXCEPT ![i] = e]
          /\ inTurn' = (inTurn /\ req[r].people \subseteq rounds[i].panel)
      BY <1>5, <2>2 DEF MakeLinks, Stays
    <3>3. e \in Round
      BY <1>3, <3>1, RoundAt DEF Round
    <3>4. inTurn' \in BOOLEAN
      BY <3>2
    <3>5. rounds' \in Seq(Round) /\ DOMAIN rounds' = DOMAIN rounds
      <4>. HIDE DEF e, i
      <4>. QED
        BY <1>1, <3>1, <3>2, <3>3, RoundChanged
    <3>. QED
      BY <1>1, <2>1, <3>4, <3>5, IdleSound
  <2>3. CASE ~Stands(i)
    <3>1. UNCHANGED <<rounds, inTurn>>
      BY <1>5, <2>3 DEF MakeLinks
    <3>. QED
      BY <1>1, <2>1, <3>1, IdleSound
  <2>. QED
    BY <2>2, <2>3
<1>6. CASE SeatPanelists(r)
  <2>1. UNCHANGED <<stage, handoffs, approval, left, inTurn>>
    BY <1>6 DEF SeatPanelists
  <2>2. CASE Stands(i)
    <3>. DEFINE e == [rounds[i] EXCEPT !.panel = @ \cup req[r].people]
    <3>1. i \in DOMAIN rounds
      BY <2>2 DEF Stands
    <3>2. rounds' = [rounds EXCEPT ![i] = e] /\ req' = [req EXCEPT ![r] = q]
      BY <1>6, <2>2 DEF SeatPanelists, Then
    <3>3. e \in Round
      BY <1>3, <3>1, RoundAt DEF Round
    <3>4. rounds' \in Seq(Round) /\ DOMAIN rounds' = DOMAIN rounds
      <4>. HIDE DEF e, i
      <4>. QED
        BY <1>1, <3>1, <3>2, <3>3, RoundChanged
    <3>. HIDE DEF q
    <3>. QED
      BY <1>1, <1>2, <2>1, <3>2, <3>4, SoundFrame
  <2>3. CASE ~Stands(i)
    <3>1. req' = [req EXCEPT ![r] = Idle] /\ UNCHANGED rounds
      BY <1>6, <2>3 DEF SeatPanelists, Then
    <3>. QED
      BY <1>1, <2>1, <3>1, IdleSound
  <2>. QED
    BY <2>2, <2>3
<1>7. CASE DropLinks(r)
  <2>. DEFINE e == [rounds[i] EXCEPT !.links = @ \ Unseated(req[r].was, req[r].people)]
  <2>1. UNCHANGED <<stage, handoffs, approval, left, inTurn>>
        /\ req' = [req EXCEPT ![r] = q]
        /\ rounds' = [rounds EXCEPT ![i] = e]
    BY <1>7 DEF DropLinks, Then
  <2>2. i \in DOMAIN rounds
    BY <1>7 DEF DropLinks, At, Sound, Countable
  <2>3. e \in Round
    BY <2>2, RoundAt DEF Round
  <2>4. rounds' \in Seq(Round) /\ DOMAIN rounds' = DOMAIN rounds
    <3>. HIDE DEF e, i
    <3>. QED
      BY <1>1, <2>1, <2>2, <2>3, RoundChanged
  <2>. HIDE DEF q
  <2>. QED
    BY <1>1, <1>2, <2>1, <2>4, SoundFrame
<1>. QED
  BY <1>4, <1>5, <1>6, <1>7

(* What a request that is writing holds, and the round it is about. *)
LEMMA ReqType ==
  ASSUME Sound, NEW r \in Requests
  PROVE  /\ req[r] \in Request
         /\ req[r].at \in Nat
         /\ req[r].form \in Form
         /\ req[r].people \in SUBSET Panelists
         /\ req[r].was \in SUBSET Panelists
<1>1. req[r] \in Request
  BY DEF Sound, TypeOK
<1>. QED
  BY <1>1 DEF Request

LEMMA CommitEditSound ==
  ASSUME Sound, NEW r \in Requests, CommitEdit(r)
  PROVE  Sound'
<1>. DEFINE i == req[r].at
            f == req[r].form
            e == Written(rounds[i], f)
<1>1. UNCHANGED <<stage, handoffs, approval, left>>
  BY DEF CommitEdit
<1>2. CASE Stands(i)
  <2>1. i \in DOMAIN rounds
    BY <1>2 DEF Stands
  <2>2. rounds' = [rounds EXCEPT ![i] = e]
    BY <1>2 DEF CommitEdit
  <2>3. inTurn' \in BOOLEAN
    BY <1>2 DEF CommitEdit, Stays, Sound, TypeOK
  <2>4. e \in Round
    BY <2>1, ReqType, RoundAt, WrittenType
  <2>5. rounds' \in Seq(Round) /\ DOMAIN rounds' = DOMAIN rounds
    <3>1. rounds \in Seq(Round)
      BY DEF Sound, TypeOK
    <3>. HIDE DEF e, i
    <3>. QED
      BY <3>1, <2>1, <2>2, <2>4, RoundChanged
  <2>6. CASE f.panel = {}
    <3>1. req' = [req EXCEPT ![r] = Idle]
      BY <1>2, <2>6 DEF CommitEdit, Then
    <3>. QED
      BY <1>1, <2>3, <2>5, <3>1, IdleSound DEF Sound, TypeOK
  <2>7. CASE f.panel # {}
    <3>. DEFINE q == [Idle EXCEPT !.op = "unlink", !.at = i, !.was = req[r].was,
                                  !.people = Given(f.panel, {})]
    <3>1. req' = [req EXCEPT ![r] = q]
      BY <1>2, <2>7 DEF CommitEdit, Then
    <3>2. Given(f.panel, {}) \in SUBSET Panelists
      <4>1. f.panel \in Optional(SUBSET Panelists)
        BY ReqType DEF Form
      <4>. QED
        BY <4>1, GivenType
    <3>3. q \in Request /\ q.op = "unlink" /\ q.at = i
      BY <3>2, ReqType, IdleType DEF Idle, Request, Ops
    <3>4. Countable(q, DOMAIN rounds')
      BY <2>1, <2>5, <3>3 DEF Countable
    <3>. HIDE DEF q, i
    <3>. QED
      BY <1>1, <2>3, <2>5, <3>1, <3>3, <3>4, SoundFrame DEF Sound, TypeOK
  <2>. QED
    BY <2>6, <2>7
<1>3. CASE ~Stands(i)
  <2>1. req' = [req EXCEPT ![r] = Idle] /\ UNCHANGED <<rounds, inTurn>>
    BY <1>3 DEF CommitEdit, Then
  <2>. QED
    BY <1>1, <2>1, IdleSound DEF Sound, TypeOK
<1>. QED
  BY <1>2, <1>3

LEMMA CommitMarkSound ==
  ASSUME Sound, NEW r \in Requests, CommitMark(r)
  PROVE  Sound'
<1>. DEFINE i == req[r].at
            people == req[r].people
            e == [rounds[i] EXCEPT !.marks = @ \cup people]
            lands == /\ Stands(i)
                     /\ people \cap rounds[i].marks = {}
                     /\ At(r, "markByLink") => people \subseteq rounds[i].links
<1>1. UNCHANGED <<stage, handoffs, approval, left>> /\ req' = [req EXCEPT ![r] = Idle]
  BY DEF CommitMark, Then
<1>2. CASE lands
  <2>1. i \in DOMAIN rounds
    BY <1>2 DEF Stands
  <2>2. rounds' = [rounds EXCEPT ![i] = e]
    BY <1>2 DEF CommitMark
  <2>3. inTurn' \in BOOLEAN
    BY <1>2 DEF CommitMark, Stays, Sound, TypeOK
  <2>4. e \in Round
    BY <2>1, ReqType, RoundAt DEF Round
  <2>5. rounds' \in Seq(Round) /\ DOMAIN rounds' = DOMAIN rounds
    <3>1. rounds \in Seq(Round)
      BY DEF Sound, TypeOK
    <3>. HIDE DEF e, i
    <3>. QED
      BY <3>1, <2>1, <2>2, <2>4, RoundChanged
  <2>. QED
    BY <1>1, <2>3, <2>5, IdleSound DEF Sound, TypeOK
<1>3. CASE ~lands
  <2>1. UNCHANGED <<rounds, inTurn>>
    BY <1>3 DEF CommitMark
  <2>. QED
    BY <1>1, <2>1, IdleSound DEF Sound, TypeOK
<1>. QED
  BY <1>2, <1>3

LEMMA CompletedType ==
  ASSUME Sound
  PROVE  Completed \in [Delegates -> Handoff]
<1>1. ASSUME NEW d \in Delegates
      PROVE  [handoffs[d] EXCEPT !.completed = @ \/ Open(d)] \in Handoff
  <2>1. handoffs[d] \in Handoff
    BY DEF Sound, TypeOK
  <2>2. PICK b \in BOOLEAN : b = (handoffs[d].completed \/ Open(d))
    OBVIOUS
  <2>3. [handoffs[d] EXCEPT !.completed = b] \in Handoff
    BY <2>1 DEF Handoff
  <2>. QED
    BY <2>2, <2>3
<1>. QED
  BY <1>1 DEF Completed

LEMMA HandoffsSound ==
  ASSUME Sound, NEW r \in Requests,
         CommitRevoke(r) \/ CompleteHandoffs(r)
  PROVE  Sound'
<1>1. CASE CommitRevoke(r)
  <2>. DEFINE d == req[r].who
  <2>1. d \in Delegates
    BY <1>1 DEF CommitRevoke, At, Sound, Countable
  <2>2. PICK b \in BOOLEAN : b = (handoffs[d].revoked \/ Holds(d))
    OBVIOUS
  <2>3. handoffs' = [handoffs EXCEPT ![d].revoked = b]
    BY <1>1, <2>2 DEF CommitRevoke
  <2>4. handoffs' \in [Delegates -> Handoff]
    BY <2>1, <2>3 DEF Sound, TypeOK, Handoff
  <2>5. req' = [req EXCEPT ![r] = Idle] /\ UNCHANGED <<stage, rounds, approval, left>>
        /\ inTurn' = (inTurn /\ MayRevoke)
    BY <1>1 DEF CommitRevoke, Then, Stays
  <2>6. inTurn' \in BOOLEAN
    BY <2>5
  <2>. QED
    BY <2>4, <2>5, <2>6, IdleSound DEF Sound, TypeOK
<1>2. CASE CompleteHandoffs(r)
  <2>1. req' = [req EXCEPT ![r] = Idle] /\ UNCHANGED <<stage, rounds, approval, left>>
        /\ inTurn' = (inTurn /\ approval # "pending") /\ handoffs' = Completed
    BY <1>2 DEF CompleteHandoffs, Then, Stays
  <2>2. inTurn' \in BOOLEAN
    BY <2>1
  <2>. QED
    BY <2>1, <2>2, CompletedType, IdleSound DEF Sound, TypeOK
<1>. QED
  BY <1>1, <1>2

LEMMA VerdictsSound ==
  ASSUME Sound, NEW r \in Requests,
         \/ SubmitToHead(r) \/ CommitOutcome(r) \/ CommitDecision(r)
         \/ CommitReject(r) \/ CommitScreening(r)
  PROVE  Sound'
<1>1. CASE SubmitToHead(r)
  <2>1. /\ req' = [req EXCEPT ![r] = Idle] /\ UNCHANGED <<stage, rounds, handoffs, left>>
        /\ approval' = "pending"
        /\ inTurn' = (inTurn /\ (MayRecord /\ SomeOpen))
    BY <1>1 DEF SubmitToHead, Then, Stays
  <2>2. inTurn' \in BOOLEAN
    BY <2>1
  <2>. QED
    BY <2>1, <2>2, IdleSound DEF Sound, TypeOK
<1>2. CASE CommitOutcome(r)
  <2>. DEFINE q == [Idle EXCEPT !.op = "complete"]
  <2>1. /\ req' = [req EXCEPT ![r] = q] /\ UNCHANGED <<rounds, handoffs, approval, left>>
        /\ stage' = req[r].verdict
        /\ inTurn' = (inTurn /\ MayRecord)
    BY <1>2 DEF CommitOutcome, Then, Stays
  <2>2. inTurn' \in BOOLEAN
    BY <2>1
  <2>3. stage' \in Stages
    BY <1>2, <2>1 DEF CommitOutcome, At, Sound, Countable, Stages
  <2>4. q \in Request /\ q.op = "complete"
    BY IdleType DEF Idle, Request, Ops
  <2>5. Countable(q, DOMAIN rounds')
    BY <2>4 DEF Countable
  <2>. HIDE DEF q
  <2>. QED
    BY <2>1, <2>2, <2>3, <2>4, <2>5, SoundFrame DEF Sound, TypeOK
<1>3. CASE CommitDecision(r)
  <2>1. /\ req' = [req EXCEPT ![r] = Idle] /\ UNCHANGED <<rounds, left>>
        /\ inTurn' = (inTurn /\ MayDecide)
        /\ req[r].op = "decide"
    BY <1>3 DEF CommitDecision, Then, Stays, At
  <2>2. inTurn' \in BOOLEAN
    BY <2>1
  <2>3. req[r].verdict \in {"final", "rejected", "returned"}
    BY <2>1 DEF Sound, Countable
  <2>4. approval' \in {"none", "pending", "approved", "returned", "rejected"}
    BY <1>3, <2>3 DEF CommitDecision
  <2>5. stage' \in Stages /\ handoffs' \in [Delegates -> Handoff]
    <3>1. stage \in Stages /\ handoffs \in [Delegates -> Handoff]
      BY DEF Sound, TypeOK
    <3>2. CASE req[r].verdict = "returned"
      BY <1>3, <3>1, <3>2 DEF CommitDecision
    <3>3. CASE req[r].verdict # "returned"
      <4>1. stage' = req[r].verdict /\ handoffs' = Completed
        BY <1>3, <3>3 DEF CommitDecision
      <4>. QED
        BY <2>3, <3>3, <4>1, CompletedType DEF Stages
    <3>. QED
      BY <3>2, <3>3
  <2>. QED
    BY <2>1, <2>2, <2>4, <2>5, IdleSound DEF Sound, TypeOK
<1>4. CASE CommitReject(r)
  <2>1. /\ req' = [req EXCEPT ![r] = Idle] /\ UNCHANGED <<rounds, handoffs, approval, left>>
        /\ stage' = "rejected"
        /\ inTurn' = (inTurn /\ MayReject)
    BY <1>4 DEF CommitReject, Then, Stays
  <2>2. inTurn' \in BOOLEAN /\ stage' \in Stages
    BY <2>1 DEF Stages
  <2>. QED
    BY <2>1, <2>2, IdleSound DEF Sound, TypeOK
<1>5. CASE CommitScreening(r)
  <2>1. /\ req' = [req EXCEPT ![r] = Idle] /\ UNCHANGED <<rounds, handoffs, approval, left>>
        /\ \/ stage' = "ai_shortlisted" /\ inTurn' = (inTurn /\ MovedByScreening)
           \/ UNCHANGED <<stage, inTurn>>
    BY <1>5 DEF CommitScreening, Then, Stays
  <2>2. inTurn' \in BOOLEAN /\ stage' \in Stages
    BY <2>1 DEF Stages, Sound, TypeOK
  <2>. QED
    BY <2>1, <2>2, IdleSound DEF Sound, TypeOK
<1>. QED
  BY <1>1, <1>2, <1>3, <1>4, <1>5

LEMMA FailSound ==
  ASSUME Sound, NEW r \in Requests, Fail(r)
  PROVE  Sound'
<1>1. /\ req' = [req EXCEPT ![r] = Idle]
      /\ UNCHANGED <<stage, rounds, handoffs, approval, left>>
      /\ inTurn' = (inTurn /\ ~At(r, "unlink"))
  BY DEF Fail, Then, Stays
<1>2. inTurn' \in BOOLEAN
  BY <1>1
<1>. QED
  BY <1>1, <1>2, IdleSound DEF Sound, TypeOK

(* Steps of HR that leave the requests in flight alone. *)
LEMMA StillSound ==
  ASSUME Sound, UNCHANGED req,
         rounds' \in Seq(Round), DOMAIN rounds \subseteq DOMAIN rounds',
         stage' \in Stages, handoffs' \in [Delegates -> Handoff],
         UNCHANGED <<approval, inTurn>>,
         left' \in [rounds : Nat, moves : Nat]
  PROVE  Sound'
<1>1. TypeOK'
  BY DEF Sound, TypeOK
<1>2. ASSUME NEW s \in Requests
      PROVE  Countable(req[s], DOMAIN rounds)'
  BY DEF Sound, Countable
<1>. QED
  BY <1>1, <1>2 DEF Sound

LEMMA HandSound ==
  ASSUME Sound,
         \/ Remove \/ Delegate \/ RejectRemaining
         \/ \E s \in Stages \ {"ai_shortlisted"} : MoveStage(s)
  PROVE  Sound'
<1>1. ASSUME NEW budget \in {"rounds", "moves"}, Spend(budget)
      PROVE  left' \in [rounds : Nat, moves : Nat]
  BY <1>1 DEF Spend, Sound, TypeOK
<1>2. CASE Remove
  <2>1. PICK i \in DOMAIN rounds :
          rounds' = [rounds EXCEPT ![i] = [@ EXCEPT !.status = "removed", !.panel = {},
                                                    !.links = {}, !.marks = {}]]
    BY <1>2 DEF Remove
  <2>. DEFINE e == [rounds[i] EXCEPT !.status = "removed", !.panel = {},
                                     !.links = {}, !.marks = {}]
  <2>2. e \in Round
    BY RoundAt DEF Round
  <2>3. rounds' = [rounds EXCEPT ![i] = e]
    BY <2>1
  <2>4. rounds' \in Seq(Round) /\ DOMAIN rounds' = DOMAIN rounds
    <3>1. rounds \in Seq(Round)
      BY DEF Sound, TypeOK
    <3>. HIDE DEF e
    <3>. QED
      BY <3>1, <2>2, <2>3, RoundChanged
  <2>5. UNCHANGED <<stage, handoffs, approval, req, inTurn>> /\ Spend("rounds")
    BY <1>2 DEF Remove
  <2>. QED
    BY <1>1, <2>4, <2>5, StillSound DEF Sound, TypeOK
<1>3. CASE Delegate
  <2>1. PICK d \in Delegates :
          handoffs' = [handoffs EXCEPT ![d] = [@ EXCEPT !.sent = TRUE, !.revoked = FALSE]]
    BY <1>3 DEF Delegate
  <2>2. handoffs' \in [Delegates -> Handoff]
    BY <2>1 DEF Sound, TypeOK, Handoff
  <2>3. UNCHANGED <<stage, rounds, approval, req, inTurn>> /\ Spend("moves")
    BY <1>3 DEF Delegate
  <2>. QED
    BY <1>1, <2>2, <2>3, StillSound DEF Sound, TypeOK
<1>4. CASE RejectRemaining \/ \E s \in Stages \ {"ai_shortlisted"} : MoveStage(s)
  <2>1. stage' \in Stages /\ UNCHANGED <<rounds, handoffs, approval, req, inTurn>>
        /\ Spend("moves")
    BY <1>4 DEF RejectRemaining, MoveStage, Stages
  <2>. QED
    BY <1>1, <2>1, StillSound DEF Sound, TypeOK
<1>. QED
  BY <1>2, <1>3, <1>4

LEMMA SoundInit == Init => Sound
<1>. SUFFICES ASSUME Init
              PROVE  Sound
  OBVIOUS
<1>1. left \in [rounds : Nat, moves : Nat]
  BY BudgetsAssumption DEF Init
<1>2. req \in [Requests -> Request] /\ \A r \in Requests : req[r] = Idle
  BY IdleType DEF Init
<1>3. TypeOK
  BY <1>1, <1>2 DEF Init, TypeOK, Stages, Handoff
<1>4. \A r \in Requests : Countable(req[r], DOMAIN rounds)
  BY <1>2, IdleType DEF Countable
<1>. QED
  BY <1>3, <1>4 DEF Sound

LEMMA SoundNext == Sound /\ [Next]_vars => Sound'
<1>. SUFFICES ASSUME Sound, [Next]_vars
              PROVE  Sound'
  OBVIOUS
<1>1. CASE UNCHANGED vars
  BY <1>1 DEF vars, Sound, TypeOK, Countable
<1>2. CASE Remove \/ Delegate \/ RejectRemaining
           \/ \E s \in Stages \ {"ai_shortlisted"} : MoveStage(s)
  BY <1>2, HandSound
<1>3. ASSUME NEW r \in Requests, RoundStep(r)
      PROVE  Sound'
  BY <1>3, RequestsSound, CreateRoundSound, LinksSound, CommitEditSound, CommitMarkSound
     DEF RoundStep
<1>4. ASSUME NEW r \in Requests, MoveStep(r)
      PROVE  Sound'
  BY <1>4, MovesSound, HandoffsSound, VerdictsSound DEF MoveStep
<1>5. ASSUME NEW r \in Requests, Fail(r)
      PROVE  Sound'
  BY <1>5, FailSound
<1>. QED
  BY <1>1, <1>2, <1>3, <1>4, <1>5 DEF Next

(* Every value the pipeline keeps is a legal one: a request never holds a verdict,
   a delegate or a round there is not. *)
THEOREM SoundTheorem == Spec => []Sound
BY SoundInit, SoundNext, PTL DEF Spec

(* TypeOK holds, whatever is asked for and in whatever order the writes land. *)
THEOREM TypeTheorem == Spec => []TypeOK
<1>1. Sound => TypeOK
  BY DEF Sound
<1>. QED
  BY <1>1, SoundTheorem, PTL

-----------------------------------------------------------------------------
(* A rejection stands *)

(* A rejected candidate stays rejected until HR moves them, as long as every write
   landed in turn.  Each handler that writes a stage looks for another one than
   "rejected", so no invariant is needed. *)
THEOREM RejectedTheorem == Spec => RejectedStands
<1>1. ASSUME [Next]_vars, stage = "rejected", stage' # "rejected", inTurn'
      PROVE  \E s \in Stages : MoveStage(s)
  <2>1. ASSUME NEW r \in Requests, RoundStep(r)
        PROVE  FALSE
    <3>1. UNCHANGED stage \/ AdvanceStage(r)
      BY <2>1 DEF RoundStep, Arrange, CreateRound, MakeLinks, ResendLink, AddPanelists,
                  SeatPanelists, Edit, CommitEdit, DropLinks, SubmitEvaluation, SubmitByLink,
                  CommitMark, Ask
    <3>. QED
      BY <1>1, <3>1 DEF AdvanceStage, Stays, PreInterview
  <2>2. ASSUME NEW r \in Requests, MoveStep(r)
        PROVE  FALSE
    <3>1. \/ UNCHANGED stage
          \/ CommitOutcome(r) \/ CommitDecision(r) \/ CommitReject(r) \/ CommitScreening(r)
      BY <2>2 DEF MoveStep, Revoke, CommitRevoke, RecordOutcome, SubmitToHead,
                  CompleteHandoffs, Decide, RejectAtInterview, Screen, Ask
    <3>. QED
      BY <1>1, <3>1 DEF CommitOutcome, CommitDecision, CommitReject, CommitScreening, Stays,
                        MayRecord, MayDecide, MovedByScreening
  <2>3. ASSUME NEW r \in Requests, Fail(r)
        PROVE  FALSE
    BY <1>1, <2>3 DEF Fail
  <2>4. CASE Remove \/ Delegate \/ RejectRemaining \/ UNCHANGED vars
    BY <1>1, <2>4 DEF Remove, Delegate, RejectRemaining, vars
  <2>. QED
    BY <1>1, <2>1, <2>2, <2>3, <2>4 DEF Next
<1>2. [Next]_vars => [stage = "rejected" /\ stage' # "rejected" /\ inTurn'
                        => \E s \in Stages : MoveStage(s)]_vars
  BY <1>1
<1>. QED
  BY <1>2, PTL DEF Spec, RejectedStands

-----------------------------------------------------------------------------
(* Whoever the Head is deciding on is held by a delegate *)

(* A step that leaves the approval and the hand-offs alone. *)
LEMMA HeldFrame ==
  ASSUME HeldWhilePending, UNCHANGED <<approval, handoffs>>, inTurn' => inTurn
  PROVE  HeldWhilePending'
BY DEF HeldWhilePending, SomeOpen, Open, Holds

LEMMA ScreeningTurn ==
  ASSUME NEW r, CommitScreening(r)
  PROVE  inTurn' => inTurn
<1>1. CASE inTurn' = (inTurn /\ MovedByScreening)
  BY <1>1
<1>2. CASE inTurn' = inTurn
  BY <1>2
<1>. QED
  BY <1>1, <1>2 DEF CommitScreening, Stays

LEMMA HeldNext ==
  ASSUME Sound, HeldWhilePending, [Next]_vars
  PROVE  HeldWhilePending'
<1>1. CASE \/ UNCHANGED vars \/ Remove \/ RejectRemaining
           \/ \E s \in Stages \ {"ai_shortlisted"} : MoveStage(s)
  <2>1. UNCHANGED <<approval, handoffs>> /\ UNCHANGED inTurn
    BY <1>1 DEF vars, Remove, RejectRemaining, MoveStage
  <2>. QED
    BY <2>1, HeldFrame
<1>2. ASSUME NEW r \in Requests, RoundStep(r) \/ Fail(r)
      PROVE  HeldWhilePending'
  <2>1. UNCHANGED <<approval, handoffs>>
    BY <1>2 DEF RoundStep, Arrange, CreateRound, AdvanceStage, MakeLinks, ResendLink, AddPanelists,
                SeatPanelists, Edit, CommitEdit, DropLinks, SubmitEvaluation, SubmitByLink,
                CommitMark, Fail, Ask
  <2>2. inTurn' => inTurn
    BY <1>2 DEF RoundStep, Arrange, CreateRound, AdvanceStage, MakeLinks, ResendLink, AddPanelists,
                SeatPanelists, Edit, CommitEdit, DropLinks, SubmitEvaluation, SubmitByLink,
                CommitMark, Fail, Ask, Stays
  <2>. QED
    BY <2>1, <2>2, HeldFrame
<1>3. CASE Delegate
  <2>1. PICK d \in Delegates :
          handoffs' = [handoffs EXCEPT ![d] = [@ EXCEPT !.sent = TRUE, !.revoked = FALSE]]
    BY <1>3 DEF Delegate
  <2>2. UNCHANGED <<approval, inTurn>>
    BY <1>3 DEF Delegate
  <2>3. ASSUME NEW c \in Delegates, Open(c)
        PROVE  Open(c)'
    BY <2>1, <2>3 DEF Open, Holds, Sound, TypeOK, Handoff
  <2>. QED
    BY <2>2, <2>3 DEF HeldWhilePending, SomeOpen
<1>4. ASSUME NEW r \in Requests, MoveStep(r)
      PROVE  HeldWhilePending'
  <2>1. CASE \/ Revoke(r) \/ RecordOutcome(r) \/ CommitOutcome(r) \/ Decide(r)
             \/ RejectAtInterview(r) \/ CommitReject(r) \/ Screen(r) \/ CommitScreening(r)
    <3>1. CASE Revoke(r) \/ RecordOutcome(r) \/ Decide(r) \/ RejectAtInterview(r) \/ Screen(r)
      <4>1. UNCHANGED <<approval, handoffs, inTurn>>
        BY <3>1 DEF Revoke, RecordOutcome, Decide, RejectAtInterview, Screen, Ask
      <4>. QED
        BY <4>1, HeldFrame
    <3>2. CASE CommitOutcome(r) \/ CommitReject(r) \/ CommitScreening(r)
      <4>1. UNCHANGED <<approval, handoffs>> /\ (inTurn' => inTurn)
        BY <3>2, ScreeningTurn DEF CommitOutcome, CommitReject, CommitScreening, Stays
      <4>. QED
        BY <4>1, HeldFrame
    <3>. QED
      BY <2>1, <3>1, <3>2
  <2>2. CASE CommitRevoke(r)
    BY <2>2 DEF CommitRevoke, Stays, MayRevoke, HeldWhilePending
  <2>3. CASE SubmitToHead(r)
    BY <2>3 DEF SubmitToHead, Stays, HeldWhilePending, SomeOpen, Open, Holds
  <2>4. CASE CompleteHandoffs(r)
    BY <2>4 DEF CompleteHandoffs, Stays, HeldWhilePending
  <2>5. CASE CommitDecision(r)
    <3>1. req[r].verdict \in {"final", "rejected", "returned"}
      BY <2>5 DEF CommitDecision, At, Sound, Countable
    <3>. QED
      BY <2>5, <3>1 DEF CommitDecision, HeldWhilePending
  <2>. QED
    BY <1>4, <2>1, <2>2, <2>3, <2>4, <2>5 DEF MoveStep
<1>. QED
  BY <1>1, <1>2, <1>3, <1>4 DEF Next

(* As long as every write landed in turn, somebody holds the hand-off of whoever
   the Factory HR Head is deciding on: the hand-offs are closed, and can be taken
   back, only when nothing is pending. *)
THEOREM HeldTheorem == Spec => []HeldWhilePending
<1>1. Init => HeldWhilePending
  BY DEF Init, HeldWhilePending
<1>2. Sound /\ HeldWhilePending /\ [Next]_vars => HeldWhilePending'
  BY HeldNext
<1>. QED
  BY <1>1, <1>2, SoundTheorem, PTL DEF Spec

-----------------------------------------------------------------------------
(* What a step leaves tidy *)

(* Out of turn, nothing is claimed. *)
LEMMA OutOfTurn ==
  ASSUME ~inTurn'
  PROVE  RoundsTidy'
BY DEF RoundsTidy, OneLiveRound, AbsentUnmarked, LinksExplained

(* Links that a request is about to delete stay explained if it goes on. *)
LEMMA KeptUnlinking ==
  ASSUME NEW s \in Requests, NEW i, NEW p, Unlinking(s, i, p), req'[s] = req[s]
  PROVE  Unlinking(s, i, p)'
BY DEF Unlinking, At

(* A step that leaves the rounds, and the requests deleting links, alone. *)
LEMMA TidyFrame ==
  ASSUME RoundsTidy, UNCHANGED rounds, inTurn' => inTurn,
         inTurn' => \A s \in Requests : At(s, "unlink") => req'[s] = req[s]
  PROVE  RoundsTidy'
<1>. SUFFICES ASSUME inTurn'
              PROVE  RoundsTidy'
  BY OutOfTurn
<1>1. OneLiveRound' /\ AbsentUnmarked'
  BY DEF RoundsTidy, OneLiveRound, AbsentUnmarked, Live, Stands
<1>2. ASSUME NEW i \in DOMAIN rounds, NEW p \in rounds[i].links
      PROVE  Explained(i, p)'
  <2>1. Explained(i, p)
    BY DEF RoundsTidy, LinksExplained
  <2>2. CASE p \in rounds[i].panel
    BY <2>2 DEF Explained
  <2>3. ASSUME NEW s \in Requests, Unlinking(s, i, p)
        PROVE  Explained(i, p)'
    <3>1. req'[s] = req[s]
      BY <2>3 DEF Unlinking
    <3>. QED
      BY <2>3, <3>1, KeptUnlinking DEF Explained
  <2>. QED
    BY <2>1, <2>2, <2>3 DEF Explained
<1>3. LinksExplained'
  BY <1>2 DEF LinksExplained
<1>. QED
  BY <1>1, <1>3 DEF RoundsTidy

(* A live round is the only one of its kind. *)
LEMMA OnlyLive ==
  ASSUME RoundsTidy, inTurn, NEW i \in DOMAIN rounds, Live(i)
  PROVE  \A j \in DOMAIN rounds \ {i} : Live(j) => rounds[j].kind # rounds[i].kind
BY DEF RoundsTidy, OneLiveRound

(* One round is rewritten. *)
LEMMA RoundTidy ==
  ASSUME Sound, RoundsTidy, inTurn, NEW i \in DOMAIN rounds, NEW e \in Round,
         rounds' = [rounds EXCEPT ![i] = e],
         e.status \notin NotLive \cup {"removed"} =>
           \A j \in DOMAIN rounds \ {i} : Live(j) => rounds[j].kind # e.kind,
         e.status = "absent" => e.marks = {},
         \A p \in e.links : p \in e.panel \/ \E s \in Requests : Unlinking(s, i, p)',
         \A s \in Requests : At(s, "unlink") /\ req[s].at # i => req'[s] = req[s]
  PROVE  RoundsTidy'
<1>1. /\ DOMAIN rounds' = DOMAIN rounds
      /\ rounds'[i] = e
      /\ \A j \in DOMAIN rounds : j # i => rounds'[j] = rounds[j]
  <2>1. rounds \in Seq(Round)
    BY DEF Sound, TypeOK
  <2>. QED
    BY <2>1, RoundChanged
<1>2. ASSUME NEW j \in DOMAIN rounds, j # i
      PROVE  Live(j)' <=> Live(j)
  BY <1>1, <1>2 DEF Live, Stands
<1>3. Live(i)' => e.status \notin NotLive \cup {"removed"}
  BY <1>1 DEF Live, Stands
<1>4. ASSUME NEW j \in DOMAIN rounds, NEW k \in DOMAIN rounds, j # k,
             Live(j)', Live(k)', rounds'[j].kind = rounds'[k].kind
      PROVE  FALSE
  <2>1. CASE j = i
    <3>1. Live(k) /\ rounds'[k] = rounds[k]
      BY <1>1, <1>2, <1>4, <2>1
    <3>. QED
      BY <1>1, <1>3, <1>4, <2>1, <3>1
  <2>2. CASE k = i
    <3>1. Live(j) /\ rounds'[j] = rounds[j]
      BY <1>1, <1>2, <1>4, <2>2
    <3>. QED
      BY <1>1, <1>3, <1>4, <2>2, <3>1
  <2>3. CASE j # i /\ k # i
    <3>1. Live(j) /\ rounds'[j] = rounds[j] /\ Live(k) /\ rounds'[k] = rounds[k]
      BY <1>1, <1>2, <1>4, <2>3
    <3>. QED
      BY <1>4, <3>1 DEF RoundsTidy, OneLiveRound
  <2>. QED
    BY <2>1, <2>2, <2>3
<1>5. OneLiveRound'
  BY <1>1, <1>4 DEF OneLiveRound
<1>6. AbsentUnmarked'
  BY <1>1 DEF RoundsTidy, AbsentUnmarked
<1>7. ASSUME NEW j \in DOMAIN rounds, NEW p \in rounds'[j].links
      PROVE  Explained(j, p)'
  <2>1. CASE j = i
    BY <1>1, <1>7, <2>1 DEF Explained
  <2>2. CASE j # i
    <3>1. rounds'[j] = rounds[j] /\ Explained(j, p)
      BY <1>1, <1>7, <2>2 DEF RoundsTidy, LinksExplained
    <3>2. CASE p \in rounds[j].panel
      BY <3>1, <3>2 DEF Explained
    <3>3. ASSUME NEW s \in Requests, Unlinking(s, j, p)
          PROVE  Explained(j, p)'
      <4>1. req'[s] = req[s]
        BY <2>2, <3>3 DEF Unlinking
      <4>. QED
        BY <3>3, <4>1, KeptUnlinking DEF Explained
    <3>. QED
      BY <3>1, <3>2, <3>3 DEF Explained
  <2>. QED
    BY <2>1, <2>2
<1>8. LinksExplained'
  BY <1>1, <1>7 DEF LinksExplained
<1>. QED
  BY <1>5, <1>6, <1>8 DEF RoundsTidy

(* The step of one request leaves the others in flight as they were. *)
LEMMA OthersKept ==
  ASSUME Sound, NEW r \in Requests, NEW q, req' = [req EXCEPT ![r] = q]
  PROVE  /\ req'[r] = q
         /\ \A s \in Requests : s # r => req'[s] = req[s]
         /\ ~At(r, "unlink") => \A s \in Requests : At(s, "unlink") => req'[s] = req[s]
BY DEF Sound, TypeOK, At

-----------------------------------------------------------------------------
(* Every step leaves the rounds tidy *)

LEMMA AskTidy ==
  ASSUME Sound, RoundsTidy, NEW r \in Requests, NEW budget, NEW q, Ask(r, budget, q)
  PROVE  RoundsTidy'
<1>1. /\ req' = [req EXCEPT ![r] = q]
      /\ UNCHANGED <<rounds, inTurn>>
      /\ ~At(r, "unlink")
  BY DEF Ask, Then, At
<1>. QED
  BY <1>1, OthersKept, TidyFrame

LEMMA AskersTidy ==
  ASSUME Sound, RoundsTidy, NEW r \in Requests,
         \/ Arrange(r) \/ ResendLink(r) \/ AddPanelists(r) \/ Edit(r)
         \/ SubmitEvaluation(r) \/ SubmitByLink(r)
         \/ Revoke(r) \/ RecordOutcome(r) \/ Decide(r) \/ RejectAtInterview(r) \/ Screen(r)
  PROVE  RoundsTidy'
<1>1. CASE \/ Arrange(r) \/ ResendLink(r) \/ AddPanelists(r) \/ Edit(r)
           \/ SubmitEvaluation(r) \/ SubmitByLink(r)
  <2>1. PICK q : Ask(r, "rounds", q)
    BY <1>1 DEF Arrange, ResendLink, AddPanelists, Edit, SubmitEvaluation, SubmitByLink
  <2>. QED
    BY <2>1, AskTidy
<1>2. CASE Revoke(r) \/ RecordOutcome(r) \/ Decide(r) \/ RejectAtInterview(r) \/ Screen(r)
  <2>1. PICK q : Ask(r, "moves", q)
    BY <1>2 DEF Revoke, RecordOutcome, Decide, RejectAtInterview, Screen
  <2>. QED
    BY <2>1, AskTidy
<1>. QED
  BY <1>1, <1>2

LEMMA OtherWritesTidy ==
  ASSUME Sound, RoundsTidy, NEW r \in Requests,
         \/ AdvanceStage(r) \/ CommitRevoke(r) \/ SubmitToHead(r) \/ CommitOutcome(r)
         \/ CompleteHandoffs(r) \/ CommitDecision(r) \/ CommitReject(r)
         \/ CommitScreening(r) \/ Fail(r)
  PROVE  RoundsTidy'
<1>1. UNCHANGED rounds /\ (inTurn' => inTurn) /\ (inTurn' => ~At(r, "unlink"))
  <2>1. CASE AdvanceStage(r) \/ CommitRevoke(r) \/ SubmitToHead(r) \/ CommitOutcome(r)
    BY <2>1 DEF AdvanceStage, CommitRevoke, SubmitToHead, CommitOutcome, Stays, At
  <2>2. CASE CompleteHandoffs(r) \/ CommitDecision(r) \/ CommitReject(r)
    BY <2>2 DEF CompleteHandoffs, CommitDecision, CommitReject, Stays, At
  <2>3. CASE CommitScreening(r) \/ Fail(r)
    BY <2>3, ScreeningTurn DEF CommitScreening, Fail, Stays, At
  <2>. QED
    BY <2>1, <2>2, <2>3
<1>2. PICK q : req' = [req EXCEPT ![r] = q]
  BY DEF AdvanceStage, CommitRevoke, SubmitToHead, CommitOutcome, CompleteHandoffs,
         CommitDecision, CommitReject, CommitScreening, Fail, Then
<1>3. inTurn' => \A s \in Requests : At(s, "unlink") => req'[s] = req[s]
  BY <1>1, <1>2, OthersKept
<1>. QED
  BY <1>1, <1>3, TidyFrame

LEMMA HandTidy ==
  ASSUME Sound, RoundsTidy,
         \/ Remove \/ Delegate \/ RejectRemaining \/ UNCHANGED vars
         \/ \E s \in Stages \ {"ai_shortlisted"} : MoveStage(s)
  PROVE  RoundsTidy'
<1>1. CASE \/ Delegate \/ RejectRemaining \/ UNCHANGED vars
           \/ \E s \in Stages \ {"ai_shortlisted"} : MoveStage(s)
  <2>1. UNCHANGED <<rounds, req, inTurn>>
    BY <1>1 DEF Delegate, RejectRemaining, MoveStage, vars
  <2>. QED
    BY <2>1, TidyFrame
<1>2. CASE Remove
  <2>. SUFFICES ASSUME inTurn'
                PROVE  RoundsTidy'
    BY OutOfTurn
  <2>1. PICK i \in DOMAIN rounds :
          rounds' = [rounds EXCEPT ![i] = [@ EXCEPT !.status = "removed", !.panel = {},
                                                    !.links = {}, !.marks = {}]]
    BY <1>2 DEF Remove
  <2>. DEFINE e == [rounds[i] EXCEPT !.status = "removed", !.panel = {},
                                     !.links = {}, !.marks = {}]
  <2>2. e \in Round /\ e.status = "removed" /\ e.links = {}
    BY RoundAt DEF Round
  <2>3. rounds' = [rounds EXCEPT ![i] = e] /\ UNCHANGED req /\ inTurn
    BY <1>2, <2>1 DEF Remove
  <2>. HIDE DEF e
  <2>. QED
    BY <2>2, <2>3, RoundTidy
<1>. QED
  BY <1>1, <1>2

LEMMA CreateRoundTidy ==
  ASSUME Sound, RoundsTidy, NEW r \in Requests, CreateRound(r)
  PROVE  RoundsTidy'
<1>. SUFFICES ASSUME inTurn'
              PROVE  RoundsTidy'
  BY OutOfTurn
<1>1. PICK k \in req[r].form.kind :
        /\ rounds' = Append(rounds, NewRound(k, req[r].people))
        /\ inTurn
        /\ MayArrange(k)
  BY DEF CreateRound, Stays
<1>. DEFINE n == Len(rounds) + 1
            e == NewRound(k, req[r].people)
<1>2. rounds \in Seq(Round)
  BY DEF Sound, TypeOK
<1>3. /\ DOMAIN rounds = 1..Len(rounds) /\ Len(rounds) \in Nat
      /\ DOMAIN rounds' = 1..n
      /\ rounds'[n] = e
      /\ \A j \in DOMAIN rounds : rounds'[j] = rounds[j]
  <2>1. e \in Round
    <3>1. k \in Kinds
      BY ReqType DEF Form, Optional
    <3>. QED
      BY <3>1, ReqType, NewRoundType
  <2>. HIDE DEF e
  <2>. QED
    BY <1>1, <1>2, <2>1 DEF e
<1>4. e.kind = k /\ e.status = "scheduled" /\ e.links = {}
  BY DEF NewRound
<1>5. ASSUME NEW j \in DOMAIN rounds
      PROVE  Live(j)' <=> Live(j)
  BY <1>3 DEF Live, Stands
<1>6. DOMAIN rounds' = DOMAIN rounds \cup {n}
  BY <1>3
<1>. HIDE DEF n, e
<1>7. ASSUME NEW i \in DOMAIN rounds, Live(i)
      PROVE  rounds[i].kind # k
  BY <1>1, <1>7 DEF MayArrange
<1>8. OneLiveRound'
  <2>1. ASSUME NEW i \in DOMAIN rounds', NEW j \in DOMAIN rounds', Live(i)', Live(j)',
               rounds'[i].kind = rounds'[j].kind, i # j
        PROVE  FALSE
    <3>1. CASE i \in DOMAIN rounds /\ j \in DOMAIN rounds
      BY <1>1, <1>3, <1>5, <2>1, <3>1 DEF RoundsTidy, OneLiveRound
    <3>2. CASE i = n /\ j \in DOMAIN rounds
      BY <1>3, <1>4, <1>5, <1>7, <2>1, <3>2
    <3>3. CASE j = n /\ i \in DOMAIN rounds
      BY <1>3, <1>4, <1>5, <1>7, <2>1, <3>3
    <3>. QED
      BY <1>6, <2>1, <3>1, <3>2, <3>3
  <2>. QED
    BY <2>1 DEF OneLiveRound
<1>9. AbsentUnmarked'
  BY <1>1, <1>3, <1>4, <1>6 DEF RoundsTidy, AbsentUnmarked
<1>10. LinksExplained'
  <2>1. \A s \in Requests : At(s, "unlink") => req'[s] = req[s]
    <3>1. ~At(r, "unlink")
      BY DEF CreateRound, At
    <3>2. PICK q : req' = [req EXCEPT ![r] = q]
      BY DEF CreateRound, Then
    <3>. QED
      BY <3>1, <3>2, OthersKept
  <2>2. ASSUME NEW i \in DOMAIN rounds, NEW p \in rounds[i].links
        PROVE  Explained(i, p)'
    <3>1. Explained(i, p)
      BY <1>1 DEF RoundsTidy, LinksExplained
    <3>2. CASE p \in rounds[i].panel
      BY <1>3, <3>2 DEF Explained
    <3>3. ASSUME NEW s \in Requests, Unlinking(s, i, p)
          PROVE  Explained(i, p)'
      <4>1. req'[s] = req[s]
        BY <2>1, <3>3 DEF Unlinking
      <4>. QED
        BY <3>3, <4>1, KeptUnlinking DEF Explained
    <3>. QED
      BY <3>1, <3>2, <3>3 DEF Explained
  <2>. QED
    BY <1>3, <1>4, <1>6, <2>2 DEF LinksExplained
<1>. QED
  BY <1>8, <1>9, <1>10 DEF RoundsTidy

(* The links made, the people seated, the links deleted, the marks given: the
   round keeps its kind and its status. *)
LEMMA SameKindTidy ==
  ASSUME Sound, RoundsTidy, inTurn, NEW r \in Requests, NEW q, NEW i \in DOMAIN rounds,
         NEW e \in Round, e.kind = rounds[i].kind, e.status = rounds[i].status,
         rounds' = [rounds EXCEPT ![i] = e], req' = [req EXCEPT ![r] = q],
         e.status = "absent" => e.marks = {},
         \A p \in e.links : p \in e.panel \/ \E s \in Requests : Unlinking(s, i, p)',
         At(r, "unlink") => req[r].at = i
  PROVE  RoundsTidy'
<1>1. e.status \notin NotLive \cup {"removed"} =>
        \A j \in DOMAIN rounds \ {i} : Live(j) => rounds[j].kind # e.kind
  BY OnlyLive DEF Live, Stands
<1>2. \A s \in Requests : At(s, "unlink") /\ req[s].at # i => req'[s] = req[s]
  BY OthersKept
<1>. QED
  BY <1>1, <1>2, RoundTidy

(* A link explained by a request that goes on stays explained. *)
LEMMA StillExplained ==
  ASSUME Sound, RoundsTidy, inTurn, NEW i \in DOMAIN rounds, NEW p \in rounds[i].links,
         NEW r \in Requests, NEW q, req' = [req EXCEPT ![r] = q], ~Unlinking(r, i, p)
  PROVE  p \in rounds[i].panel \/ \E s \in Requests : Unlinking(s, i, p)'
<1>1. Explained(i, p)
  BY DEF RoundsTidy, LinksExplained
<1>2. ASSUME NEW s \in Requests, Unlinking(s, i, p)
      PROVE  Unlinking(s, i, p)'
  <2>1. s # r
    BY <1>2
  <2>2. req'[s] = req[s]
    BY <2>1, OthersKept
  <2>. QED
    BY <1>2, <2>2, KeptUnlinking
<1>. QED
  BY <1>1, <1>2 DEF Explained

LEMMA LinkWritesTidy ==
  ASSUME Sound, RoundsTidy, NEW r \in Requests,
         MakeLinks(r) \/ SeatPanelists(r) \/ DropLinks(r) \/ CommitMark(r)
  PROVE  RoundsTidy'
<1>. SUFFICES ASSUME inTurn'
              PROVE  RoundsTidy'
  BY OutOfTurn
<1>. DEFINE people == req[r].people
<1>0. PICK i : i = req[r].at
  OBVIOUS
<1>1. PICK q : req' = [req EXCEPT ![r] = q]
  BY DEF MakeLinks, SeatPanelists, DropLinks, CommitMark, Then
<1>2. inTurn
  BY DEF MakeLinks, SeatPanelists, DropLinks, CommitMark, Stays
<1>3. people \in SUBSET Panelists
  BY ReqType
<1>4. CASE UNCHANGED rounds /\ ~DropLinks(r)
  <2>1. ~At(r, "unlink")
    BY <1>4 DEF MakeLinks, SeatPanelists, CommitMark, At
  <2>2. \A s \in Requests : At(s, "unlink") => req'[s] = req[s]
    BY <1>1, <2>1, OthersKept
  <2>. QED
    BY <1>2, <1>4, <2>2, TidyFrame
<1>5. CASE MakeLinks(r) /\ Stands(i)
  <2>. DEFINE e == [rounds[i] EXCEPT !.links = @ \cup people]
  <2>1. i \in DOMAIN rounds
    BY <1>5 DEF Stands
  <2>2. rounds' = [rounds EXCEPT ![i] = e] /\ people \subseteq rounds[i].panel
    BY <1>0, <1>5 DEF MakeLinks, Stays
  <2>3. ~At(r, "unlink")
    BY <1>5 DEF MakeLinks, At
  <2>4. /\ e \in Round /\ e.kind = rounds[i].kind /\ e.status = rounds[i].status
        /\ e.panel = rounds[i].panel /\ e.marks = rounds[i].marks
        /\ e.links = rounds[i].links \cup people
    BY <1>3, <2>1, RoundAt DEF Round
  <2>5. e.status = "absent" => e.marks = {}
    BY <1>2, <2>1, <2>4 DEF RoundsTidy, AbsentUnmarked
  <2>. HIDE DEF e, people
  <2>6. ASSUME NEW p \in e.links
        PROVE  p \in e.panel \/ \E s \in Requests : Unlinking(s, i, p)'
    <3>1. CASE p \in people
      BY <2>2, <2>4, <3>1
    <3>2. CASE p \in rounds[i].links
      BY <1>1, <1>2, <2>1, <2>3, <2>4, <3>2, StillExplained DEF Unlinking
    <3>. QED
      BY <2>4, <2>6, <3>1, <3>2
  <2>. QED
    BY <1>1, <1>2, <2>1, <2>2, <2>3, <2>4, <2>5, <2>6, SameKindTidy
<1>6. CASE SeatPanelists(r) /\ Stands(i)
  <2>. DEFINE e == [rounds[i] EXCEPT !.panel = @ \cup people]
  <2>1. i \in DOMAIN rounds
    BY <1>6 DEF Stands
  <2>2. rounds' = [rounds EXCEPT ![i] = e]
    BY <1>0, <1>6 DEF SeatPanelists
  <2>3. ~At(r, "unlink")
    BY <1>6 DEF SeatPanelists, At
  <2>4. /\ e \in Round /\ e.kind = rounds[i].kind /\ e.status = rounds[i].status
        /\ e.panel = rounds[i].panel \cup people /\ e.marks = rounds[i].marks
        /\ e.links = rounds[i].links
    BY <1>3, <2>1, RoundAt DEF Round
  <2>5. e.status = "absent" => e.marks = {}
    BY <1>2, <2>1, <2>4 DEF RoundsTidy, AbsentUnmarked
  <2>. HIDE DEF e, people
  <2>6. ASSUME NEW p \in e.links
        PROVE  p \in e.panel \/ \E s \in Requests : Unlinking(s, i, p)'
    BY <1>1, <1>2, <2>1, <2>3, <2>4, StillExplained DEF Unlinking
  <2>. QED
    BY <1>1, <1>2, <2>1, <2>2, <2>3, <2>4, <2>5, <2>6, SameKindTidy
<1>7. CASE DropLinks(r)
  <2>. DEFINE gone == Unseated(req[r].was, req[r].people)
              e == [rounds[i] EXCEPT !.links = @ \ gone]
  <2>1. i \in DOMAIN rounds
    BY <1>0, <1>7 DEF DropLinks, At, Sound, Countable
  <2>2. rounds' = [rounds EXCEPT ![i] = e]
    BY <1>0, <1>7 DEF DropLinks
  <2>3. /\ e \in Round /\ e.kind = rounds[i].kind /\ e.status = rounds[i].status
        /\ e.panel = rounds[i].panel /\ e.marks = rounds[i].marks
        /\ e.links = rounds[i].links \ gone
    BY <2>1, RoundAt DEF Round
  <2>4. e.status = "absent" => e.marks = {}
    BY <1>2, <2>1, <2>3 DEF RoundsTidy, AbsentUnmarked
  <2>5. \A p \in e.links : p \in rounds[i].links /\ ~Unlinking(r, i, p)
    BY <1>0, <2>3 DEF Unlinking
  <2>6. At(r, "unlink") => req[r].at = i
    BY <1>0
  <2>. HIDE DEF e, gone
  <2>7. ASSUME NEW p \in e.links
        PROVE  p \in e.panel \/ \E s \in Requests : Unlinking(s, i, p)'
    BY <1>1, <1>2, <2>1, <2>3, <2>5, StillExplained
  <2>. QED
    BY <1>1, <1>2, <2>1, <2>2, <2>3, <2>4, <2>6, <2>7, SameKindTidy
<1>8. CASE CommitMark(r) /\ ~UNCHANGED rounds
  <2>. DEFINE e == [rounds[i] EXCEPT !.marks = @ \cup people]
  <2>1. /\ Stands(i)
        /\ rounds' = [rounds EXCEPT ![i] = e]
        /\ \A p \in people : MayMark(i, p)
    BY <1>0, <1>8 DEF CommitMark, Stays
  <2>2. i \in DOMAIN rounds
    BY <2>1 DEF Stands
  <2>3. ~At(r, "unlink")
    BY <1>8 DEF CommitMark, At
  <2>4. /\ e \in Round /\ e.kind = rounds[i].kind /\ e.status = rounds[i].status
        /\ e.panel = rounds[i].panel /\ e.marks = rounds[i].marks \cup people
        /\ e.links = rounds[i].links
    BY <1>3, <2>2, RoundAt DEF Round
  <2>5. e.status = "absent" => e.marks = {}
    <3>. SUFFICES ASSUME rounds[i].status = "absent"
                  PROVE  e.marks = {}
      BY <2>4
    <3>1. people = {}
      BY <2>1 DEF MayMark
    <3>2. rounds[i].marks = {}
      BY <1>2, <2>2 DEF RoundsTidy, AbsentUnmarked
    <3>. QED
      BY <2>4, <3>1, <3>2
  <2>. HIDE DEF e, people
  <2>6. ASSUME NEW p \in e.links
        PROVE  p \in e.panel \/ \E s \in Requests : Unlinking(s, i, p)'
    BY <1>1, <1>2, <2>2, <2>3, <2>4, StillExplained DEF Unlinking
  <2>. QED
    BY <1>1, <1>2, <2>1, <2>2, <2>3, <2>4, <2>5, <2>6, SameKindTidy
<1>9. MakeLinks(r) /\ ~Stands(i) => UNCHANGED rounds /\ ~DropLinks(r)
  BY <1>0 DEF MakeLinks, DropLinks, At
<1>10. SeatPanelists(r) /\ ~Stands(i) => UNCHANGED rounds /\ ~DropLinks(r)
  BY <1>0 DEF SeatPanelists, DropLinks, At
<1>11. CommitMark(r) => ~DropLinks(r)
  BY DEF CommitMark, DropLinks, At
<1>. QED
  BY <1>4, <1>5, <1>6, <1>7, <1>8, <1>9, <1>10, <1>11

LEMMA CommitEditTidy ==
  ASSUME Sound, RoundsTidy, NEW r \in Requests, CommitEdit(r)
  PROVE  RoundsTidy'
<1>. SUFFICES ASSUME inTurn'
              PROVE  RoundsTidy'
  BY OutOfTurn
<1>0. PICK i : i = req[r].at
  OBVIOUS
<1>. DEFINE f == req[r].form
            e == Written(rounds[i], f)
<1>1. PICK q : req' = [req EXCEPT ![r] = q]
  BY DEF CommitEdit, Then
<1>2. inTurn /\ ~At(r, "unlink")
  BY DEF CommitEdit, Stays, At
<1>3. CASE ~Stands(i)
  <2>1. UNCHANGED rounds
    BY <1>0, <1>3 DEF CommitEdit
  <2>2. \A s \in Requests : At(s, "unlink") => req'[s] = req[s]
    BY <1>1, <1>2, OthersKept
  <2>. QED
    BY <1>2, <2>1, <2>2, TidyFrame
<1>4. CASE Stands(i)
  <2>1. i \in DOMAIN rounds
    BY <1>4 DEF Stands
  <2>2. rounds' = [rounds EXCEPT ![i] = e]
    BY <1>0, <1>4 DEF CommitEdit
  <2>3. /\ MayEdit(i, f)
        /\ \A k \in f.kind : ~OtherLive(i, k)
        /\ f.panel # {} => rounds[i].panel = req[r].was
    BY <1>0, <1>4 DEF CommitEdit, Stays
  <2>4. f.kind \in Optional(Kinds) /\ f.status \in Optional(Statuses)
        /\ f.panel \in Optional(SUBSET Panelists) /\ rounds[i] \in Round /\ f \in Form
    BY <2>1, ReqType, RoundAt DEF Form
  <2>5. /\ e \in Round
        /\ e.kind = Given(f.kind, rounds[i].kind)
        /\ e.status = Given(f.status, rounds[i].status)
        /\ e.panel = Given(f.panel, rounds[i].panel)
        /\ e.links = rounds[i].links
        /\ e.marks = rounds[i].marks
    BY <2>4, WrittenType
  <2>6. /\ f.kind = {} \/ f.kind = {e.kind}
        /\ f.kind = {} => e.kind = rounds[i].kind
    <3>1. CASE f.kind = {}
      BY <2>4, <2>5, <3>1, GivenValue
    <3>2. ASSUME NEW x \in Kinds, f.kind = {x}
          PROVE  e.kind = x
      BY <2>4, <2>5, <3>2, GivenValue
    <3>. QED
      BY <2>4, <3>1, <3>2 DEF Optional
  <2>7. /\ f.status = {} \/ (f.status = {e.status} /\ e.status \in Statuses)
        /\ f.status = {} => e.status = rounds[i].status
    <3>1. CASE f.status = {}
      BY <2>4, <2>5, <3>1, GivenValue
    <3>2. ASSUME NEW x \in Statuses, f.status = {x}
          PROVE  e.status = x
      BY <2>4, <2>5, <3>2, GivenValue
    <3>. QED
      BY <2>4, <3>1, <3>2 DEF Optional
  <2>8. f.panel = {} => e.panel = rounds[i].panel
    BY <2>5, <2>4, GivenValue
  <2>9. f.panel # {} => e.panel = Given(f.panel, {})
    BY <2>4, <2>5, GivenValue
  <2>10. f.panel # {} => q = [Idle EXCEPT !.op = "unlink", !.at = i, !.was = req[r].was,
                                          !.people = Given(f.panel, {})]
    <3>. SUFFICES ASSUME f.panel # {}
                  PROVE  q = [Idle EXCEPT !.op = "unlink", !.at = i, !.was = req[r].was,
                                          !.people = Given(f.panel, {})]
      OBVIOUS
    <3>1. req' = [req EXCEPT ![r] = [Idle EXCEPT !.op = "unlink", !.at = i, !.was = req[r].was,
                                                 !.people = Given(f.panel, {})]]
      BY <1>0, <1>4 DEF CommitEdit, Then
    <3>2. req'[r] = q
      BY <1>1, OthersKept
    <3>. QED
      BY <3>1, <3>2 DEF Sound, TypeOK
  <2>. HIDE DEF e, f
  <2>11. ASSUME e.status \notin NotLive \cup {"removed"},
                NEW j \in DOMAIN rounds \ {i}, Live(j), rounds[j].kind = e.kind
         PROVE  FALSE
    <3>1. CASE f.kind # {}
      BY <2>3, <2>6, <2>11, <3>1 DEF OtherLive
    <3>2. CASE f.kind = {} /\ Live(i)
      BY <1>2, <2>1, <2>6, <2>11, <3>2, OnlyLive
    <3>3. CASE f.kind = {} /\ ~Live(i)
      <4>1. e.status # rounds[i].status
        BY <1>4, <2>11, <3>3 DEF Live, Stands
      <4>2. f.status = {e.status} /\ e.status \in {"scheduled", "completed"}
        BY <2>7, <2>11, <4>1 DEF Statuses, NotLive
      <4>3. f.status \in {{"scheduled"}, {"completed"}}
        BY <4>2
      <4>4. ~OtherLive(i, rounds[i].kind)
        BY <2>3, <3>3, <4>3 DEF MayEdit
      <4>. QED
        BY <2>6, <2>11, <3>3, <4>4 DEF OtherLive
    <3>. QED
      BY <3>1, <3>2, <3>3
  <2>12. e.status = "absent" => e.marks = {}
    BY <1>2, <2>1, <2>3, <2>5, <2>7 DEF MayEdit, RoundsTidy, AbsentUnmarked
  <2>13. ASSUME NEW p \in e.links
         PROVE  p \in e.panel \/ \E s \in Requests : Unlinking(s, i, p)'
    <3>1. CASE p \in rounds[i].panel /\ f.panel = {}
      BY <2>8, <3>1
    <3>2. CASE p \in rounds[i].panel /\ f.panel # {} /\ p \notin e.panel
      <4>1. p \in Unseated(req[r].was, Given(f.panel, {}))
        BY <2>3, <2>9, <3>2 DEF Unseated
      <4>2. q.op = "unlink" /\ q.at = i /\ q.was = req[r].was /\ q.people = Given(f.panel, {})
        BY <2>10, <3>2 DEF Idle
      <4>3. req'[r] = q
        BY <1>1, OthersKept
      <4>. QED
        BY <4>1, <4>2, <4>3 DEF Unlinking, At
    <3>3. CASE p \notin rounds[i].panel
      <4>1. ~Unlinking(r, i, p)
        BY <1>2 DEF Unlinking
      <4>. QED
        BY <1>1, <1>2, <2>1, <2>5, <3>3, <4>1, StillExplained
    <3>. QED
      BY <3>1, <3>2, <3>3
  <2>14. \A s \in Requests : At(s, "unlink") /\ req[s].at # i => req'[s] = req[s]
    BY <1>1, <1>2, OthersKept
  <2>. QED
    BY <1>2, <2>1, <2>2, <2>5, <2>11, <2>12, <2>13, <2>14, RoundTidy
<1>. QED
  BY <1>3, <1>4

LEMMA TidyInit == Init => RoundsTidy
BY DEF Init, RoundsTidy, OneLiveRound, AbsentUnmarked, LinksExplained

LEMMA TidyNext == Sound /\ RoundsTidy /\ [Next]_vars => RoundsTidy'
<1>. SUFFICES ASSUME Sound, RoundsTidy, [Next]_vars
              PROVE  RoundsTidy'
  OBVIOUS
<1>1. CASE \/ Remove \/ Delegate \/ RejectRemaining \/ UNCHANGED vars
           \/ \E s \in Stages \ {"ai_shortlisted"} : MoveStage(s)
  BY <1>1, HandTidy
<1>2. ASSUME NEW r \in Requests, RoundStep(r)
      PROVE  RoundsTidy'
  BY <1>2, AskersTidy, CreateRoundTidy, OtherWritesTidy, LinkWritesTidy, CommitEditTidy
     DEF RoundStep
<1>3. ASSUME NEW r \in Requests, MoveStep(r) \/ Fail(r)
      PROVE  RoundsTidy'
  BY <1>3, AskersTidy, OtherWritesTidy DEF MoveStep
<1>. QED
  BY <1>1, <1>2, <1>3 DEF Next

LEMMA TidyTheorem == Spec => []RoundsTidy
BY TidyInit, TidyNext, SoundTheorem, PTL DEF Spec

(* As long as every write landed in turn, a candidate has at most one live round of
   each kind: scheduling checks it, an edit checks it when it makes a round live
   again, and removing, cancelling and absence only take live rounds away. *)
THEOREM OneRoundTheorem == Spec => []OneLiveRound
<1>1. RoundsTidy => OneLiveRound
  BY DEF RoundsTidy
<1>. QED
  BY <1>1, TidyTheorem, PTL

(* As long as every write landed in turn, nobody has marked a round the candidate
   is recorded absent from. *)
THEOREM AbsentTheorem == Spec => []AbsentUnmarked
<1>1. RoundsTidy => AbsentUnmarked
  BY DEF RoundsTidy
<1>. QED
  BY <1>1, TidyTheorem, PTL

(* As long as every write landed in turn, a marking link opens only for somebody on
   the panel, but for the ones a request is about to delete. *)
THEOREM LinksTheorem == Spec => []LinksFollowPanel
<1>1. RoundsTidy => LinksFollowPanel
  BY DEF RoundsTidy, LinksExplained, Explained, Unlinking, LinksFollowPanel
<1>. QED
  BY <1>1, TidyTheorem, PTL

(* As long as every write landed in turn, marks are given by those on the panel, to a
   candidate who came. *)
THEOREM MarksTheorem == Spec => []MarksByPanel
<1>1. AbsentUnmarked /\ LinksFollowPanel => MarksByPanel
  BY DEF MarksByPanel
<1>. QED
  BY <1>1, AbsentTheorem, LinksTheorem, PTL

-----------------------------------------------------------------------------
(* The jobs of an open requisition *)

(* The bar turns only while one is screening. *)
Turning == job.active => \E w \in Workers : worker[w].step = "screen"

(* Whoever was matched once has been announced, or is about to be. *)
Announced(p) ==
  \/ p \in told \cup lost
  \/ \E w \in Workers : worker[w].step = "tell" /\ p \in worker[w].todo \ worker[w].existing

(* A screening has no more people undone than it began with. *)
Counting(w) == worker[w].step = "screen" => Cardinality(worker[w].todo) <= worker[w].total

JobsInv ==
  /\ SourcingTypeOK
  /\ Turning /\ \A w \in Workers : Counting(w)
  /\ \A p \in matches : Announced(p)
  /\ \A w \in Workers : \A p \in worker[w].existing : Announced(p)

-----------------------------------------------------------------------------

LEMMA SomePeople ==
  ASSUME NEW S, S \subseteq People
  PROVE  IsFiniteSet(S) /\ Cardinality(S) \in 0..Cardinality(People) /\ Cardinality(People) \in Nat
BY JobsAssumption, FS_Subset, FS_CardinalityType

LEMMA NoWorkType == NoWork \in Worker /\ NoJob \in ScreeningJob
BY SomePeople DEF NoWork, Worker, NoJob, ScreeningJob

(* A step of one job, by what it leaves that job with. *)
LEMMA WorkStep ==
  ASSUME JobsInv, NEW w \in Workers, NEW u \in Worker, worker' = [worker EXCEPT ![w] = u],
         {screened', bank', matches', pipeline', hired', told', lost'} \subseteq SUBSET People,
         job' \in ScreeningJob, begun' \in 0..MaxJobs,
         u.step = "screen" => Cardinality(u.todo) <= u.total,
         job'.active => u.step = "screen" \/ (job.active /\ worker[w].step # "screen"),
         told \cup lost \subseteq told' \cup lost',
         worker[w].step = "tell" => worker[w].todo \ worker[w].existing \subseteq told' \cup lost',
         u.existing \subseteq worker[w].existing \cup matches,
         \A p \in matches' : \/ p \in matches \cup worker[w].existing
                             \/ u.step = "tell" /\ p \in u.todo \ u.existing
  PROVE  JobsInv'
<1>1. /\ worker \in [Workers -> Worker] /\ worker' \in [Workers -> Worker] /\ worker'[w] = u
      /\ \A v \in Workers \ {w} : worker'[v] = worker[v]
  BY DEF JobsInv, SourcingTypeOK
<1>2. SourcingTypeOK'
  BY <1>1 DEF SourcingTypeOK
<1>3. ASSUME NEW p, Announced(p) PROVE Announced(p)'
  <2>1. CASE p \in told \cup lost
    BY <2>1 DEF Announced
  <2>2. ASSUME NEW v \in Workers, worker[v].step = "tell", p \in worker[v].todo \ worker[v].existing
        PROVE  Announced(p)'
    <3>1. CASE v = w
      BY <2>2, <3>1 DEF Announced
    <3>2. CASE v # w
      BY <1>1, <2>2, <3>2 DEF Announced
    <3> QED
      BY <3>1, <3>2
  <2> QED
    BY <1>3, <2>1, <2>2 DEF Announced
<1>4. \A p \in matches \cup worker[w].existing : Announced(p)'
  BY <1>3 DEF JobsInv
<1>5. \A p \in matches' : Announced(p)'
  <2>1. SUFFICES ASSUME NEW p \in matches', u.step = "tell", p \in u.todo \ u.existing
                 PROVE  Announced(p)'
    BY <1>4
  <2> QED
    BY <1>1, <2>1 DEF Announced
<1>6. ASSUME NEW v \in Workers, NEW p \in worker'[v].existing PROVE Announced(p)'
  <2>1. CASE v = w
    BY <1>1, <1>4, <1>6, <2>1
  <2>2. CASE v # w
    BY <1>1, <1>3, <1>6, <2>2 DEF JobsInv
  <2> QED
    BY <2>1, <2>2
<1>7. Turning'
  <2>1. SUFFICES ASSUME job'.active PROVE \E v \in Workers : worker'[v].step = "screen"
    BY DEF Turning
  <2>2. CASE u.step = "screen"
    BY <1>1, <2>2
  <2>3. CASE u.step # "screen"
    <3>1. PICK v \in Workers : worker[v].step = "screen"
      BY <2>1, <2>3 DEF JobsInv, Turning
    <3> QED
      BY <1>1, <2>1, <2>3, <3>1
  <2> QED
    BY <2>2, <2>3
<1>8. ASSUME NEW v \in Workers PROVE Counting(v)'
  <2>1. CASE v = w
    BY <1>1, <2>1 DEF Counting
  <2>2. CASE v # w
    BY <1>1, <2>2 DEF JobsInv, Counting
  <2> QED
    BY <2>1, <2>2
<1> QED
  BY <1>2, <1>5, <1>6, <1>7, <1>8 DEF JobsInv

(* A step of nobody's: matches and what was told stay. *)
LEMMA NoWorkStep ==
  ASSUME JobsInv, UNCHANGED <<job, matches, worker, begun, told, lost>>,
         {screened', bank', pipeline', hired'} \subseteq SUBSET People
  PROVE  JobsInv'
<1>1. SourcingTypeOK'
  BY DEF JobsInv, SourcingTypeOK
<1>2. Turning' /\ \A w \in Workers : Counting(w)'
  BY DEF JobsInv, Turning, Counting
<1>3. \A p : Announced(p) => Announced(p)'
  BY DEF Announced
<1> QED
  BY <1>1, <1>2, <1>3 DEF JobsInv

LEMMA JobsStep == JobsInv /\ [SourcingNext]_svars => JobsInv'
<1> SUFFICES ASSUME JobsInv, [SourcingNext]_svars PROVE JobsInv'
  OBVIOUS
<1>t. /\ screened \in SUBSET People /\ bank \in SUBSET People /\ matches \in SUBSET People
      /\ pipeline \in SUBSET People /\ hired \in SUBSET People /\ told \in SUBSET People
      /\ lost \in SUBSET People /\ job \in ScreeningJob /\ worker \in [Workers -> Worker]
      /\ begun \in 0..MaxJobs /\ MaxJobs \in Nat
  BY JobsAssumption DEF JobsInv, SourcingTypeOK
<1>b. ASSUME NEW w \in Workers, NEW u \in Worker, Begins(w, u)
      PROVE  /\ worker[w].step = "none" /\ worker' = [worker EXCEPT ![w] = u] /\ begun' \in 0..MaxJobs
  BY <1>b, <1>t DEF Begins
<1>1. ASSUME NEW w \in Workers, ScreenRequisition(w) PROVE JobsInv'
  <2> DEFINE u == [NoWork EXCEPT !.step = "count"]
  <2>1. u \in Worker /\ u.step = "count" /\ u.existing = {}
    BY NoWorkType DEF Worker, NoWork
  <2>2. Begins(w, u) /\ UNCHANGED <<screened, job, bank, matches, pipeline, hired, told, lost>>
    BY <1>1 DEF ScreenRequisition
  <2> HIDE DEF u
  <2> QED
    BY <1>b, <1>t, <2>1, <2>2, WorkStep
<1>2. ASSUME NEW w \in Workers, StartJob(w) PROVE JobsInv'
  <2> DEFINE pending == pipeline \ screened
             total == Cardinality(pending)
  <2>1. /\ worker[w].step = "count"
        /\ UNCHANGED <<screened, bank, matches, pipeline, hired, begun, told, lost>>
    BY <1>2 DEF StartJob
  <2>2. total \in 0..Cardinality(People) /\ pending \in SUBSET People
    BY <1>t, SomePeople
  <2>3. CASE pending # {}
    <3> DEFINE u == [worker[w] EXCEPT !.step = "screen", !.todo = pending, !.total = total]
    <3>1. /\ job' = [done |-> 0, total |-> total, active |-> TRUE]
          /\ worker' = [worker EXCEPT ![w] = u]
      BY <1>2, <2>3 DEF StartJob
    <3> HIDE DEF total
    <3>2. /\ u \in Worker /\ u.step = "screen" /\ u.todo = pending /\ u.total = total
          /\ u.existing = worker[w].existing
      BY <1>t, <2>2 DEF Worker
    <3>3. job' \in ScreeningJob
      BY <2>2, <3>1, SomePeople DEF ScreeningJob
    <3> HIDE DEF u, pending
    <3>4. Cardinality(u.todo) <= u.total
      BY <3>2, <2>2, SomePeople DEF total
    <3> QED
      BY <1>t, <2>1, <3>1, <3>2, <3>3, <3>4, WorkStep
  <2>4. CASE pending = {}
    <3>1. UNCHANGED job /\ worker' = [worker EXCEPT ![w] = NoWork]
      BY <1>2, <2>4 DEF StartJob
    <3>2. NoWork.step = "none" /\ NoWork.existing = {}
      BY DEF NoWork
    <3> QED
      BY <1>t, <2>1, <3>1, <3>2, NoWorkType, WorkStep
  <2> QED
    BY <2>3, <2>4
<1>3. ASSUME NEW w \in Workers, ScreenNext(w) PROVE JobsInv'
  <2>1. PICK p \in worker[w].todo, scored \in BOOLEAN :
          LET undone == worker[w].todo \ {p}
              done == worker[w].total - Cardinality(undone)
          IN  /\ worker[w].step = "screen"
              /\ screened' = IF scored THEN screened \cup {p} ELSE screened
              /\ job' = [done |-> done, total |-> worker[w].total, active |-> done < worker[w].total]
              /\ worker' = [worker EXCEPT ![w] = IF undone = {} THEN NoWork
                                                ELSE [worker[w] EXCEPT !.todo = undone]]
              /\ UNCHANGED <<bank, matches, pipeline, hired, begun, told, lost>>
    BY <1>3 DEF ScreenNext
  <2> DEFINE undone == worker[w].todo \ {p}
             total == worker[w].total
             u == IF undone = {} THEN NoWork ELSE [worker[w] EXCEPT !.todo = undone]
  <2>2. /\ worker[w].todo \in SUBSET People /\ total \in 0..Cardinality(People)
        /\ Cardinality(worker[w].todo) <= total
    BY <1>t, <2>1 DEF JobsInv, Counting, Worker
  <2>3. /\ Cardinality(undone) \in Nat /\ Cardinality(undone) < total
        /\ undone # {} => Cardinality(undone) > 0
    <3>1. IsFiniteSet(worker[w].todo) /\ Cardinality(worker[w].todo) \in Nat
      BY <2>2, SomePeople
    <3>2. IsFiniteSet(undone) /\ Cardinality(undone) = Cardinality(worker[w].todo) - 1
      BY <2>1, <3>1, FS_RemoveElement
    <3>3. Cardinality(undone) \in Nat /\ (undone # {} => Cardinality(undone) # 0)
      BY <3>2, FS_CardinalityType, FS_EmptySet
    <3> QED
      BY <2>2, <3>1, <3>2, <3>3, SomePeople
  <2>4. /\ u \in Worker /\ (u.step = "screen" <=> undone # {})
        /\ u.step = "screen" => u.todo = undone /\ u.total = total
        /\ u.existing \subseteq worker[w].existing
    <3>1. CASE undone = {}
      BY <3>1, NoWorkType DEF NoWork
    <3>2. CASE undone # {}
      <4>1. [worker[w] EXCEPT !.todo = undone] \in Worker
        BY <1>t, <2>2 DEF Worker
      <4> QED
        BY <1>t, <2>1, <3>2, <4>1 DEF Worker
    <3> QED
      BY <3>1, <3>2
  <2>5. /\ job' \in ScreeningJob /\ (job'.active => undone # {})
    <3> DEFINE done == total - Cardinality(undone)
    <3>1. job' = [done |-> done, total |-> total, active |-> done < total]
      BY <2>1
    <3>2. done \in 0..Cardinality(People) /\ (undone = {} => done = total)
      <4>1. undone = {} => Cardinality(undone) = 0
        BY FS_EmptySet
      <4>2. total \in Nat /\ total <= Cardinality(People) /\ Cardinality(People) \in Nat
        BY <2>2, SomePeople
      <4> HIDE DEF undone, total
      <4> QED
        BY <2>3, <4>1, <4>2
    <3> HIDE DEF done, total, undone
    <3>3. (done < total) \in BOOLEAN /\ (done = total => ~(done < total))
      BY <2>2, <3>2, SomePeople
    <3> QED
      BY <2>2, <3>1, <3>2, <3>3 DEF ScreeningJob
  <2>6. screened' \in SUBSET People
    BY <1>t, <2>1, <2>2
  <2>7. /\ worker' = [worker EXCEPT ![w] = u] /\ worker[w].step = "screen"
        /\ UNCHANGED <<bank, matches, pipeline, hired, begun, told, lost>>
    BY <2>1
  <2>8. u.step = "screen" => Cardinality(u.todo) <= u.total
    <3> HIDE DEF u
    <3> QED
      BY <2>2, <2>3, <2>4, SomePeople
  <2> HIDE DEF u, undone, total
  <2> QED
    BY <1>t, <2>4, <2>5, <2>6, <2>7, <2>8, WorkStep
<1>4. ASSUME NEW w \in Workers, SyncTalentBankMatches(w) PROVE JobsInv'
  <2>1. UNCHANGED <<screened, job, bank, pipeline, hired, told, lost>>
    BY <1>4 DEF SyncTalentBankMatches
  <2>2. CASE bank = {}
    <3>1. matches' = {} /\ UNCHANGED <<worker, begun>>
      BY <1>4, <2>2 DEF SyncTalentBankMatches
    <3>2. SourcingTypeOK'
      BY <1>t, <2>1, <3>1 DEF SourcingTypeOK
    <3>3. Turning' /\ \A v \in Workers : Counting(v)'
      BY <2>1, <3>1 DEF JobsInv, Turning, Counting
    <3>4. \A p : Announced(p) => Announced(p)'
      BY <2>1, <3>1 DEF Announced
    <3> QED
      BY <3>1, <3>2, <3>3, <3>4 DEF JobsInv
  <2>3. CASE bank # {}
    <3> DEFINE u == [NoWork EXCEPT !.step = "match", !.todo = bank, !.existing = matches]
    <3>1. Begins(w, u) /\ UNCHANGED matches
      BY <1>4, <2>3 DEF SyncTalentBankMatches
    <3>2. u \in Worker /\ u.step = "match" /\ u.existing = matches
      BY <1>t, NoWorkType DEF Worker, NoWork
    <3> HIDE DEF u
    <3> QED
      BY <1>b, <1>t, <2>1, <3>1, <3>2, WorkStep
  <2> QED
    BY <2>2, <2>3
<1>5. ASSUME NEW w \in Workers, MatchTalentBank(w) PROVE JobsInv'
  <2>1. /\ worker[w].step = "match"
        /\ UNCHANGED <<screened, job, bank, matches, pipeline, hired, begun, told, lost>>
    BY <1>5 DEF MatchTalentBank
  <2>2. ASSUME NEW fresh \in SUBSET worker[w].todo,
               worker' = [worker EXCEPT ![w].step = "replace", ![w].todo = fresh]
        PROVE  JobsInv'
    <3> DEFINE u == [worker[w] EXCEPT !.step = "replace", !.todo = fresh]
    <3>1. /\ u \in Worker /\ u.step = "replace" /\ u.existing = worker[w].existing
      BY <1>t DEF Worker
    <3>2. worker' = [worker EXCEPT ![w] = u]
      BY <1>t, <2>2 DEF Worker
    <3> HIDE DEF u
    <3> QED
      BY <1>t, <2>1, <3>1, <3>2, WorkStep
  <2>3. CASE worker' = [worker EXCEPT ![w] = NoWork]
    BY <1>t, <2>1, <2>3, NoWorkType, WorkStep DEF NoWork
  <2> QED
    BY <1>5, <2>2, <2>3 DEF MatchTalentBank
<1>6. ASSUME NEW w \in Workers, ReplaceMatches(w) PROVE JobsInv'
  <2> DEFINE u == [worker[w] EXCEPT !.step = "tell"]
  <2>1. /\ worker[w].step = "replace" /\ matches' = worker[w].todo
        /\ UNCHANGED <<screened, job, bank, pipeline, hired, begun, told, lost>>
    BY <1>6 DEF ReplaceMatches
  <2>2. /\ u \in Worker /\ u.step = "tell" /\ u.existing = worker[w].existing
        /\ u.todo = worker[w].todo /\ worker[w].todo \in SUBSET People
    BY <1>t DEF Worker
  <2>3. worker' = [worker EXCEPT ![w] = u]
    BY <1>6, <1>t DEF ReplaceMatches, Worker
  <2> HIDE DEF u
  <2> QED
    BY <1>t, <2>1, <2>2, <2>3, WorkStep
<1>7. ASSUME NEW w \in Workers, TellOfMatches(w) PROVE JobsInv'
  <2>1. /\ worker[w].step = "tell" /\ told' = told \cup (worker[w].todo \ worker[w].existing)
        /\ worker' = [worker EXCEPT ![w] = NoWork]
        /\ UNCHANGED <<screened, job, bank, matches, pipeline, hired, begun, lost>>
    BY <1>7 DEF TellOfMatches, New
  <2>2. told' \in SUBSET People
    BY <1>t, <2>1 DEF Worker
  <2>3. NoWork.step = "none" /\ NoWork.existing = {}
    BY DEF NoWork
  <2> QED
    BY <1>t, <2>1, <2>2, <2>3, NoWorkType, WorkStep
<1>8. ASSUME NEW p \in People, AutoScreen(p) \/ CopyToRequisition(p) \/ ChangeBank(p) \/ Hire(p)
      PROVE  JobsInv'
  <2>1. /\ UNCHANGED <<job, matches, worker, begun, told, lost>>
        /\ {screened', bank', pipeline', hired'} \subseteq SUBSET People
    BY <1>8, <1>t DEF AutoScreen, CopyToRequisition, ChangeBank, Hire
  <2> QED
    BY <2>1, NoWorkStep
<1>9. CASE RestartSourcing
  <2>1. /\ job' = NoJob /\ worker' = [w \in Workers |-> NoWork]
        /\ lost' = lost \cup UNION {worker[w].todo : w \in {v \in Workers : worker[v].step = "tell"}}
        /\ UNCHANGED <<screened, bank, matches, pipeline, hired, begun, told>>
    BY <1>9 DEF RestartSourcing
  <2>2. lost' \in SUBSET People
    BY <1>t, <2>1 DEF Worker
  <2>3. SourcingTypeOK'
    BY <1>t, <2>1, <2>2, NoWorkType DEF SourcingTypeOK
  <2>4. \A w \in Workers : worker'[w] = NoWork
    BY <2>1
  <2>5. Turning' /\ \A w \in Workers : Counting(w)'
    BY <2>1, <2>4 DEF Turning, Counting, NoWork, NoJob
  <2>6. \A p : Announced(p) => Announced(p)'
    BY <2>1 DEF Announced
  <2> QED
    BY <2>1, <2>3, <2>4, <2>5, <2>6 DEF JobsInv, NoWork
<1>10. CASE UNCHANGED svars
  BY <1>10, <1>t, NoWorkStep DEF svars
<1> QED
  BY <1>1, <1>2, <1>3, <1>4, <1>5, <1>6, <1>7, <1>8, <1>9, <1>10 DEF SourcingNext

LEMMA JobsInitially == SourcingInit => JobsInv
<1> SUFFICES ASSUME SourcingInit PROVE JobsInv
  OBVIOUS
<1>1. /\ screened = {} /\ job = NoJob /\ bank = {} /\ matches = {} /\ pipeline = {} /\ hired = {}
      /\ worker = [w \in Workers |-> NoWork] /\ begun = 0 /\ told = {} /\ lost = {}
  BY DEF SourcingInit
<1>2. SourcingTypeOK
  BY <1>1, NoWorkType, JobsAssumption DEF SourcingTypeOK
<1>3. Turning /\ \A w \in Workers : Counting(w) /\ worker[w].existing = {}
  BY <1>1 DEF Turning, Counting, NoWork, NoJob
<1> QED
  BY <1>1, <1>2, <1>3 DEF JobsInv

(* However screenings and matchings overlap, and wherever the process stops, the progress
   bar does not turn for nobody, and whoever is matched has been announced or is about to
   be (candidates.service screenRequisition, syncTalentBankMatches). *)
THEOREM JobsTheorem == SourcingSpec => [](SourcingTypeOK /\ JobsSettle)
<1>1. SourcingSpec => []JobsInv
  BY JobsInitially, JobsStep, PTL DEF SourcingSpec
<1>2. JobsInv => SourcingTypeOK /\ JobsSettle
  <2>1. JobsInv => BarSettles
    BY DEF JobsInv, Turning, BarSettles
  <2>2. JobsInv => MatchesAnnounced
    BY DEF JobsInv, Announced, MatchesAnnounced
  <2> QED
    BY <2>1, <2>2 DEF JobsInv, JobsSettle
<1> QED
  BY <1>1, <1>2, PTL

-----------------------------------------------------------------------------
(* When a session takes place, and who is called to it *)

(* Before the round there is nothing else. *)
Untouched ==
  session.status = "none" =>
    /\ session = NoSession /\ ~settled
    /\ \A s \in Editors : editor[s].step = "none"
    /\ \A p \in Guests : tokens[p] = Unlinked

(* A request that has been alone with the round is so still. *)
Alone(s) == editor[s].alone /\ editor[s].step # "none"

OneAlone == \A s \in Editors : Alone(s) => \A t \in Editors : editor[t].step # "none" => t = s

(* Once the last change has been told to Google, nobody is about to tell it more. *)
Told ==
  settled => \A s \in Editors :
    editor[s].step \in {"none", "save", "move", "append", "resend", "delete", "drop"}

(* The round is there to be read. *)
SameRound(seen) ==
  seen.at = session.at /\ seen.panel = session.panel /\ seen.status = session.status

Fresh(s) ==
  Alone(s) =>
    /\ editor[s].step \in {"insert", "record", "patch", "cancel", "forget"} =>
         SameRound(editor[s].seen)
    /\ editor[s].step \in {"patch", "cancel", "forget"} => editor[s].seen.event = session.event
    /\ editor[s].step \in {"save", "resend", "append", "relink"} => editor[s].seen.at = session.at
    /\ editor[s].step = "relink" /\ editor[s].next = "insert" => SameRound(editor[s].seen)
    /\ editor[s].step = "renew" => session.at = Filled(editor[s].boxes.at, NoTime)
    /\ editor[s].step = "record" => calendar[editor[s].event] = EventOf(editor[s].seen)

Used(e) == e # 0 => calendar[e].at # NoTime

(* What a request is about to do fits what it has read. *)
Meant(s) ==
  LET e == editor[s] IN
  /\ e.step # "record" => e.event = 0
  /\ e.step = "record" => e.event # 0
  /\ e.step \in {"insert", "record"} => e.seen.status = "scheduled"
  /\ e.step \in {"insert", "record", "patch"} => e.seen.at # NoTime
  /\ e.step = "append" => e.next = "none"
  /\ e.step = "relink" => e.next \in {"none", "sync", "insert"}
  /\ e.step = "relink" /\ e.next = "insert" => e.seen.at # NoTime /\ e.seen.status = "scheduled"
  /\ e.step \in {"patch", "cancel", "forget", "delete"} => e.seen.event # 0
  /\ e.step \in {"cancel", "forget"} => e.seen.status = "cancelled"
  /\ e.step = "patch" => e.seen.status # "cancelled"
  /\ e.step \in {"move", "renew"} => e.boxes.at # {}
  /\ Used(e.event) /\ Used(e.seen.event)

(* An event is given up only once Google has called it off. *)
GivenUp(s) ==
  ~strayed /\ editor[s].step \in {"forget", "drop"} /\ editor[s].seen.event # 0 =>
    ~calendar[editor[s].seen.event].live

Events ==
  /\ Used(session.event)
  /\ \A e \in 1..MaxEvents : calendar[e].live => calendar[e].at # NoTime

Linked == renewed => \A p \in Guests \ marked : tokens[p] # Unlinked => tokens[p] >= session.at

SessionsInv ==
  /\ SessionsTypeOK /\ Untouched /\ OneAlone /\ Told /\ Events /\ Linked
  /\ \A s \in Editors : Fresh(s) /\ Meant(s) /\ GivenUp(s)
  /\ CalendarFollows

-----------------------------------------------------------------------------

LEMMA Bounds ==
  /\ Slots \in Nat /\ Slots > 0 /\ MaxEvents \in Nat /\ MaxEdits \in Nat
  /\ NoTime = 0 /\ Unlinked = -1 /\ NoTime \in Times /\ Times = 0..Slots
  /\ Times \subseteq Unlinked..Slots /\ Unlinked \in Unlinked..Slots
  /\ Times \subseteq Int
BY SlotsAssumption DEF NoTime, Unlinked, Times

LEMMA FilledBox ==
  ASSUME NEW S, NEW box \in Option(S), NEW old \in S
  PROVE  /\ Filled(box, old) \in S /\ (box = {} => Filled(box, old) = old)
         /\ \A other \in S : box # {} => Filled(box, other) = Filled(box, old)
BY DEF Option, Filled

LEMMA AtRestType ==
  /\ AtRest \in Editor /\ AtRest.step = "none" /\ AtRest.event = 0 /\ AtRest.seen = NoSession
  /\ AtRest.next = "none"
  /\ NoSession \in Session /\ NoSession.event = 0 /\ NoSession.at = NoTime
  /\ NoSession.status = "none"
<1>1. NoSession \in Session
  BY Bounds DEF NoSession, Session
<1>2. Blank \in Boxed
  BY DEF Blank, Boxed, Option
<1>3. 0 \in 0..MaxEvents
  BY Bounds
<1>4. AtRest \in Editor
  BY <1>1, <1>2, <1>3 DEF AtRest, Editor, Steps
<1> QED
  BY <1>1, <1>4 DEF AtRest, NoSession

LEMMA SessionParts ==
  ASSUME SessionsTypeOK
  PROVE  /\ session \in Session /\ session.at \in Times /\ session.panel \subseteq Guests
         /\ session.event \in 0..MaxEvents
         /\ tokens \in [Guests -> Unlinked..Slots] /\ marked \subseteq Guests
         /\ calendar \in [1..MaxEvents -> Event] /\ editor \in [Editors -> Editor]
         /\ \A s \in Editors :
              /\ editor[s] \in Editor /\ editor[s].seen \in Session /\ editor[s].boxes \in Boxed
              /\ editor[s].event \in 0..MaxEvents /\ editor[s].seen.event \in 0..MaxEvents
              /\ editor[s].step \in Steps /\ editor[s].seen.at \in Times
BY DEF SessionsTypeOK, Session, Editor

(* The calendar only ever gains events, and none called off is back. *)
CalendarKeeps ==
  /\ calendar' \in [1..MaxEvents -> Event]
  /\ \A e \in 1..MaxEvents :
       calendar[e].at # NoTime =>
         calendar'[e].at # NoTime /\ (calendar'[e].live => calendar[e].live)

LEMMA UsedStays ==
  ASSUME CalendarKeeps, NEW e \in 0..MaxEvents, Used(e)
  PROVE  e # 0 => calendar'[e].at # NoTime /\ (calendar'[e].live => calendar[e].live)
<1>1. e # 0 => e \in 1..MaxEvents
  BY Bounds
<1> QED
  BY <1>1 DEF CalendarKeeps, Used

(* A step of one request leaves the others what they were. *)
LEMMA StepKeeps ==
  ASSUME SessionsInv, NEW s \in Editors, NEW w \in Editor, editor' = [editor EXCEPT ![s] = w],
         editor[s].step # "none", w.step = "none" \/ (w.alone => editor[s].alone),
         CalendarKeeps, strayed => strayed',
         Fresh(s)', Meant(s)', GivenUp(s)'
  PROVE  /\ editor' \in [Editors -> Editor] /\ editor'[s] = w
         /\ \A t \in Editors \ {s} : editor'[t] = editor[t]
         /\ OneAlone' /\ (\A t \in Editors : Fresh(t) /\ Meant(t) /\ GivenUp(t))'
<1>t. editor \in [Editors -> Editor] /\ SessionsTypeOK
  BY DEF SessionsInv, SessionsTypeOK
<1>1. /\ editor' \in [Editors -> Editor] /\ editor'[s] = w
      /\ \A t \in Editors \ {s} : editor'[t] = editor[t]
  BY <1>t
<1>2. \A t \in Editors \ {s} : ~Alone(t)
  BY DEF SessionsInv, OneAlone
<1>3. OneAlone'
  BY <1>1, <1>2 DEF OneAlone, Alone, SessionsInv
<1>4. ASSUME NEW t \in Editors
      PROVE  (Fresh(t) /\ Meant(t) /\ GivenUp(t))'
  <2>1. CASE t = s
    BY <2>1
  <2>2. CASE t # s
    <3>1. editor'[t] = editor[t] /\ ~Alone(t) /\ Meant(t) /\ GivenUp(t)
      BY <1>1, <1>2, <2>2 DEF SessionsInv
    <3>2. Fresh(t)'
      BY <3>1 DEF Fresh, Alone
    <3>3. editor[t].event \in 0..MaxEvents /\ editor[t].seen.event \in 0..MaxEvents
      BY <1>t, SessionParts
    <3>4. /\ Used(editor[t].event) /\ Used(editor[t].seen.event)
      BY <3>1 DEF Meant
    <3>5. /\ editor[t].event # 0 => calendar'[editor[t].event].at # NoTime
          /\ editor[t].seen.event # 0 =>
               calendar'[editor[t].seen.event].at # NoTime
               /\ (calendar'[editor[t].seen.event].live => calendar[editor[t].seen.event].live)
      BY <3>3, <3>4, UsedStays
    <3>6. Meant(t)'
      BY <3>1, <3>5 DEF Meant, Used
    <3>7. GivenUp(t)'
      BY <3>1, <3>5 DEF GivenUp
    <3> QED
      BY <3>2, <3>6, <3>7
  <2> QED
    BY <2>1, <2>2
<1> QED
  BY <1>1, <1>3, <1>4

LEMMA RestKeeps ==
  ASSUME SessionsInv, NEW s \in Editors, Rests(s), editor[s].step # "none",
         CalendarKeeps, strayed => strayed'
  PROVE  /\ editor' \in [Editors -> Editor] /\ editor'[s] = AtRest
         /\ \A t \in Editors \ {s} : editor'[t] = editor[t]
         /\ OneAlone' /\ (\A t \in Editors : Fresh(t) /\ Meant(t) /\ GivenUp(t))'
<1>1. editor' = [editor EXCEPT ![s] = AtRest] /\ editor'[s] = AtRest
  BY DEF Rests, SessionsInv, SessionsTypeOK
<1>2. Fresh(s)' /\ Meant(s)' /\ GivenUp(s)'
  BY <1>1, AtRestType DEF Fresh, Alone, Meant, GivenUp, Used
<1> HIDE DEF AtRest
<1> QED
  BY <1>1, <1>2, AtRestType, StepKeeps

(* Nobody has an event in hand but to record it. *)
LEMMA StrayKeeps ==
  ASSUME SessionsInv, NEW s \in Editors, \A t \in Editors \ {s} : editor'[t] = editor[t],
         \A e \in 1..MaxEvents : calendar'[e].live => calendar[e].live,
         ~strayed' => ~strayed /\ editor[s].step # "record"
                      /\ (session'.event = session.event \/ session.event = 0
                          \/ ~calendar'[session.event].live)
  PROVE  ~strayed' => \A e \in 1..MaxEvents :
           calendar'[e].live => e = session'.event \/ \E t \in Busy' : editor'[t].event = e
<1> SUFFICES ASSUME ~strayed', NEW e \in 1..MaxEvents, calendar'[e].live
             PROVE  e = session'.event \/ \E t \in Busy' : editor'[t].event = e
  OBVIOUS
<1>1. e # 0
  BY Bounds
<1>2. CASE e = session.event
  BY <1>1, <1>2
<1>3. ASSUME NEW t \in Busy, editor[t].event = e
      PROVE  t \in Busy' /\ editor'[t].event = e
  <2>1. t \in Editors /\ editor[t].step = "record"
    BY <1>1, <1>3 DEF Busy, SessionsInv, Meant
  <2> QED
    BY <2>1, <1>3 DEF Busy
<1> QED
  BY <1>2, <1>3 DEF SessionsInv, CalendarFollows

LEMMA SameCalendar ==
  ASSUME SessionsTypeOK, UNCHANGED calendar
  PROVE  CalendarKeeps
BY DEF SessionsTypeOK, CalendarKeeps

LEMMA CallsKeep ==
  ASSUME SessionsInv, NEW s \in Editors, NEW request \in Editor, Calls(s, request), Standing,
         UNCHANGED <<session, tokens, marked, calendar, settled, renewed, strayed>>,
         request.event = 0, request.seen = session, request.next = "none",
         request.step \in {"save", "move", "append", "resend", "delete", "drop"},
         request.step = "delete" => session.event # 0,
         request.step = "drop" => session.event = 0,
         request.step = "move" => request.boxes.at # {}
  PROVE  SessionsInv'
<1>t. SessionsTypeOK /\ editor \in [Editors -> Editor] /\ edits \in 0..MaxEdits
  BY DEF SessionsInv, SessionsTypeOK
<1>c. /\ editor[s].step = "none" /\ edits' = edits + 1 /\ edits' \in 0..MaxEdits
      /\ editor' = [t \in Editors |-> IF t = s THEN [request EXCEPT !.alone = Busy = {}]
                                      ELSE [editor[t] EXCEPT !.alone = FALSE]]
  BY <1>t, Bounds DEF Calls
<1> DEFINE b == Busy = {}
           w == [request EXCEPT !.alone = b]
<1>w. /\ w \in Editor /\ w.step = request.step /\ w.event = 0 /\ w.seen = session
      /\ w.boxes = request.boxes /\ w.next = request.next /\ (w.alone <=> b)
  <2>1. b \in BOOLEAN
    OBVIOUS
  <2> HIDE DEF b
  <2> QED
    BY <2>1 DEF Editor
<1>s. editor'[s] = w
  BY <1>c
<1> HIDE DEF w
<1>o. ASSUME NEW t \in Editors \ {s}
      PROVE  /\ editor'[t] \in Editor /\ ~editor'[t].alone
             /\ editor'[t].step = editor[t].step /\ editor'[t].seen = editor[t].seen
             /\ editor'[t].event = editor[t].event /\ editor'[t].boxes = editor[t].boxes
             /\ editor'[t].next = editor[t].next
  <2>1. editor[t] \in Editor /\ editor'[t] = [editor[t] EXCEPT !.alone = FALSE]
    BY <1>t, <1>c
  <2> QED
    BY <2>1 DEF Editor
<1>1. SessionsTypeOK'
  <2>1. editor' = [t \in Editors |-> editor'[t]]
    BY <1>c
  <2>2. \A t \in Editors : editor'[t] \in Editor
    BY <1>w, <1>s, <1>o
  <2>3. editor' \in [Editors -> Editor]
    BY <2>1, <2>2
  <2> QED
    BY <1>t, <1>c, <2>3 DEF SessionsTypeOK
<1>2. Untouched' /\ Events' /\ Linked'
  BY DEF SessionsInv, Untouched, Events, Linked, Standing, Used
<1>3. OneAlone'
  <2>1. b => \A t \in Editors : editor[t].step = "none"
    BY DEF Busy
  <2> QED
    BY <2>1, <1>w, <1>s, <1>o DEF OneAlone, Alone
<1>4. Told'
  BY <1>w, <1>s, <1>o DEF SessionsInv, Told
<1>5. ASSUME NEW t \in Editors
      PROVE  (Fresh(t) /\ Meant(t) /\ GivenUp(t))'
  <2>1. CASE t = s
    BY <2>1, <1>w, <1>s DEF Fresh, Meant, GivenUp, SessionsInv, Events, Used
  <2>2. CASE t # s
    <3>1. Meant(t) /\ GivenUp(t)
      BY DEF SessionsInv
    <3>2. Fresh(t)'
      BY <1>o, <2>2 DEF Fresh, Alone
    <3>3. Meant(t)'
      BY <1>o, <2>2, <3>1 DEF Meant, Used
    <3>4. GivenUp(t)'
      BY <1>o, <2>2, <3>1 DEF GivenUp
    <3> QED
      BY <3>2, <3>3, <3>4
  <2> QED
    BY <2>1, <2>2
<1>6. CalendarFollows'
  <2>1. \A t \in Busy : t \in Busy' /\ editor'[t].event = editor[t].event
    BY <1>c, <1>o DEF Busy
  <2> QED
    BY <2>1 DEF SessionsInv, CalendarFollows, EventOf
<1> QED
  BY <1>1, <1>2, <1>3, <1>4, <1>5, <1>6 DEF SessionsInv

LEMMA AskKeeps ==
  ASSUME SessionsInv, NEW s \in Editors,
         Update(s) \/ Reschedule(s) \/ AddGuests(s) \/ ResendEvalToken(s) \/ RemoveRound(s)
  PROVE  SessionsInv'
<1>t. session \in Session /\ AtRest \in Editor /\ AtRest.event = 0 /\ AtRest.next = "none"
  BY SessionParts, AtRestType DEF SessionsInv
<1>b. AtRest.boxes \in Boxed
  BY <1>t DEF Editor
<1>1. CASE Update(s)
  <2>1. PICK boxes \in Forms :
          /\ Standing /\ Calls(s, [AtRest EXCEPT !.step = "save", !.seen = session, !.boxes = boxes])
          /\ UNCHANGED <<session, tokens, marked, calendar, settled, renewed, strayed>>
    BY <1>1 DEF Update
  <2> DEFINE request == [AtRest EXCEPT !.step = "save", !.seen = session, !.boxes = boxes]
  <2>2. request \in Editor /\ request.event = 0 /\ request.seen = session /\ request.next = "none" /\ request.step = "save"
    BY <1>t, FormsAssumption DEF Editor, Steps
  <2>3. Calls(s, request)
    BY <2>1
  <2> HIDE DEF request
  <2> QED
    BY <2>1, <2>2, <2>3, CallsKeep
<1>2. CASE Reschedule(s)
  <2>1. PICK to \in Times \ {NoTime} :
          /\ session.status = "scheduled"
          /\ Calls(s, [AtRest EXCEPT !.step = "move", !.seen = session, !.boxes.at = {to}])
          /\ UNCHANGED <<session, tokens, marked, calendar, settled, renewed, strayed>>
    BY <1>2 DEF Reschedule
  <2> DEFINE boxes == [AtRest.boxes EXCEPT !.at = {to}]
             request == [AtRest EXCEPT !.step = "move", !.seen = session, !.boxes = boxes]
  <2>b. boxes \in Boxed /\ boxes.at # {}
    BY <1>b DEF Boxed, Option
  <2> HIDE DEF boxes
  <2>2. request \in Editor /\ request.event = 0 /\ request.seen = session /\ request.next = "none" /\ request.step = "move"
        /\ request.boxes.at # {}
    BY <1>t, <2>b DEF Editor, Steps
  <2>3. Calls(s, request)
    BY <2>1 DEF boxes
  <2> HIDE DEF request
  <2> QED
    BY <2>1, <2>2, <2>3, CallsKeep DEF Standing
<1>3. CASE AddGuests(s)
  <2>1. PICK people \in SUBSET Guests :
          /\ session.status = "scheduled"
          /\ Calls(s, [AtRest EXCEPT !.step = "append", !.seen = session, !.people = people])
          /\ UNCHANGED <<session, tokens, marked, calendar, settled, renewed, strayed>>
    BY <1>3 DEF AddGuests
  <2> DEFINE request == [AtRest EXCEPT !.step = "append", !.seen = session, !.people = people]
  <2>2. request \in Editor /\ request.event = 0 /\ request.seen = session /\ request.next = "none" /\ request.step = "append"
    BY <1>t DEF Editor, Steps
  <2>3. Calls(s, request)
    BY <2>1
  <2> HIDE DEF request
  <2> QED
    BY <2>1, <2>2, <2>3, CallsKeep DEF Standing
<1>4. CASE ResendEvalToken(s)
  <2>1. PICK p \in session.panel :
          /\ Standing
          /\ Calls(s, [AtRest EXCEPT !.step = "resend", !.seen = session, !.people = {p}])
          /\ UNCHANGED <<session, tokens, marked, calendar, settled, renewed, strayed>>
    BY <1>4 DEF ResendEvalToken
  <2> DEFINE request == [AtRest EXCEPT !.step = "resend", !.seen = session, !.people = {p}]
  <2>p. p \in Guests
    BY SessionParts DEF SessionsInv
  <2>2. request \in Editor /\ request.event = 0 /\ request.seen = session /\ request.next = "none" /\ request.step = "resend"
    BY <1>t, <2>p DEF Editor, Steps
  <2>3. Calls(s, request)
    BY <2>1
  <2> HIDE DEF request
  <2> QED
    BY <2>1, <2>2, <2>3, CallsKeep
<1>5. CASE RemoveRound(s)
  <2> DEFINE step == IF session.event = 0 THEN "drop" ELSE "delete"
             request == [AtRest EXCEPT !.seen = session, !.step = step]
  <2>1. step \in Steps /\ (step = "drop" => session.event = 0) /\ (step = "delete" => session.event # 0)
        /\ step \in {"drop", "delete"}
    BY DEF Steps
  <2>3. Calls(s, request) /\ Standing
        /\ UNCHANGED <<session, tokens, marked, calendar, settled, renewed, strayed>>
    BY <1>5 DEF RemoveRound
  <2> HIDE DEF step
  <2>2. request \in Editor /\ request.event = 0 /\ request.seen = session /\ request.next = "none" /\ request.step = step
    BY <1>t, <2>1 DEF Editor
  <2> HIDE DEF request
  <2> QED
    BY <2>1, <2>2, <2>3, CallsKeep
<1> QED
  BY <1>1, <1>2, <1>3, <1>4, <1>5

LEMMA Busied ==
  ASSUME SessionsInv, NEW s \in Editors, editor[s].step # "none"
  PROVE  /\ session \in Session /\ session.status # "none" /\ editor \in [Editors -> Editor]
         /\ editor[s] \in Editor /\ edits \in 0..MaxEdits
         /\ editor[s].step \notin {"save", "move", "append", "resend", "delete", "drop"} => ~settled
         /\ editor[s].alone => Alone(s) /\ \A t \in Editors \ {s} : editor[t].step = "none"
         /\ Fresh(s) /\ Meant(s) /\ GivenUp(s)
BY DEF SessionsInv, SessionsTypeOK, Untouched, Told, OneAlone, Alone

LEMMA ScheduleKeeps ==
  ASSUME SessionsInv, NEW s \in Editors, Schedule(s)
  PROVE  SessionsInv'
<1>1. PICK at \in Times, panel \in SUBSET Guests :
        LET round == [status |-> "scheduled", at |-> at, panel |-> panel, event |-> 0]
        IN /\ session.status = "none"
           /\ session' = round
           /\ Calls(s, [AtRest EXCEPT !.step = "relink", !.seen = round, !.people = panel,
                                      !.next = IF at = NoTime THEN "none" ELSE "insert"])
           /\ UNCHANGED <<tokens, marked, calendar, settled, renewed, strayed>>
  BY DEF Schedule
<1> DEFINE round == [status |-> "scheduled", at |-> at, panel |-> panel, event |-> 0]
           b == Busy = {}
           next == IF at = NoTime THEN "none" ELSE "insert"
           request == [AtRest EXCEPT !.step = "relink", !.seen = round, !.people = panel,
                                     !.next = next]
           w == [request EXCEPT !.alone = b]
<1>t. /\ SessionsTypeOK /\ session = NoSession /\ ~settled /\ edits \in 0..MaxEdits
      /\ editor \in [Editors -> Editor] /\ AtRest \in Editor
      /\ \A t \in Editors : editor[t].step = "none"
      /\ \A p \in Guests : tokens[p] = Unlinked
  BY <1>1, AtRestType DEF SessionsInv, SessionsTypeOK, Untouched
<1>b. b /\ b \in BOOLEAN
  BY <1>t DEF Busy
<1>r. round \in Session /\ round.at = at /\ round.event = 0 /\ round.status = "scheduled"
      /\ session' = round /\ round.panel = panel
  BY <1>1, Bounds DEF Session
<1>n. next \in Steps /\ next \in {"none", "insert"} /\ (next = "insert" => at # NoTime)
  BY DEF Steps
<1>c. /\ edits' = edits + 1 /\ edits' \in 0..MaxEdits
      /\ editor' = [t \in Editors |-> IF t = s THEN w ELSE [editor[t] EXCEPT !.alone = FALSE]]
  <2>1. Calls(s, request)
    BY <1>1
  <2> HIDE DEF request
  <2> QED
    BY <1>t, <2>1, Bounds DEF Calls
<1>w. /\ w \in Editor /\ w.step = "relink" /\ w.event = 0 /\ w.seen = round /\ w.next = next
  <2> HIDE DEF b, next, round
  <2>1. "relink" \in Steps
    BY DEF Steps
  <2> QED
    BY <2>1, <1>t, <1>b, <1>r, <1>n, AtRestType DEF Editor
<1> HIDE DEF w, request, round, next, b
<1>s. editor'[s] = w
  BY <1>c
<1>o. \A t \in Editors \ {s} : editor'[t] \in Editor /\ editor'[t].step = "none" /\ ~editor'[t].alone
      /\ editor'[t].seen = editor[t].seen /\ editor'[t].event = editor[t].event
  BY <1>t, <1>c DEF Editor
<1>1a. SessionsTypeOK'
  <2>1. editor' \in [Editors -> Editor]
    BY <1>c, <1>s, <1>w, <1>o
  <2> QED
    BY <1>1, <1>t, <1>c, <1>r, <2>1 DEF SessionsTypeOK
<1>2. Untouched' /\ Told' /\ OneAlone'
  <2>1. session'.status # "none" /\ ~settled'
    BY <1>1, <1>t, <1>r
  <2>2. \A t \in Editors \ {s} : editor'[t].step = "none"
    BY <1>o
  <2> QED
    BY <2>1, <2>2 DEF Untouched, Told, OneAlone, Alone
<1>3. Events' /\ Linked'
  BY <1>1, <1>t, <1>r DEF SessionsInv, Events, Linked, Used
<1>4. ASSUME NEW t \in Editors
      PROVE  (Fresh(t) /\ Meant(t) /\ GivenUp(t))'
  <2>1. CASE t = s
    BY <2>1, <1>w, <1>s, <1>r, <1>n DEF Fresh, Meant, GivenUp, Used, SameRound
  <2>2. CASE t # s
    <3>1. Meant(t) /\ GivenUp(t)
      BY DEF SessionsInv
    <3> QED
      BY <1>1, <1>o, <1>t, <2>2, <3>1 DEF Fresh, Alone, Meant, Used, GivenUp
  <2> QED
    BY <2>1, <2>2
<1>5. CalendarFollows'
  <2>1. ASSUME ~strayed, NEW e \in 1..MaxEvents, calendar[e].live
        PROVE  FALSE
    <3>1. e = session.event \/ \E t \in Busy : editor[t].event = e
      BY <2>1 DEF SessionsInv, CalendarFollows
    <3> QED
      BY <3>1, <1>t, AtRestType, Bounds DEF Busy
  <2> QED
    BY <1>1, <1>t, <2>1 DEF CalendarFollows
<1> QED
  BY <1>1a, <1>2, <1>3, <1>4, <1>5 DEF SessionsInv

(* A request's own change to the round, which Google has yet to be told of. *)
LEMMA SaveKeeps ==
  ASSUME SessionsInv, NEW s \in Editors, NEW w \in Editor, editor' = [editor EXCEPT ![s] = w],
         editor[s].step \in {"save", "move", "append"}, w.alone => editor[s].alone,
         session' \in Session, session'.status # "none", session'.event = session.event,
         renewed' => renewed /\ session'.at = session.at, renewed' \in BOOLEAN, ~settled', settled' \in BOOLEAN,
         UNCHANGED <<tokens, marked, calendar, edits, strayed>>,
         Fresh(s)', Meant(s)', GivenUp(s)'
  PROVE  SessionsInv'
<1>t. SessionsTypeOK /\ editor[s].step # "none"
  BY DEF SessionsInv
<1>k. CalendarKeeps
  BY <1>t, SameCalendar
<1>1. /\ editor' \in [Editors -> Editor] /\ editor'[s] = w
      /\ \A t \in Editors \ {s} : editor'[t] = editor[t]
      /\ OneAlone' /\ (\A t \in Editors : Fresh(t) /\ Meant(t) /\ GivenUp(t))'
  BY <1>t, <1>k, StepKeeps
<1>2. (SessionsTypeOK /\ Untouched /\ Told /\ Events /\ Linked)'
  BY <1>t, <1>1 DEF SessionsInv, SessionsTypeOK, Untouched, Told, Events, Linked, Used
<1>3. CalendarFollows'
  <2>1. ~strayed' => \A e \in 1..MaxEvents :
          calendar'[e].live => e = session'.event \/ \E t \in Busy' : editor'[t].event = e
    BY <1>1, StrayKeeps
  <2> QED
    BY <2>1 DEF CalendarFollows
<1> QED
  BY <1>1, <1>2, <1>3 DEF SessionsInv

LEMMA SaveUpdateKeeps ==
  ASSUME SessionsInv, NEW s \in Editors, SaveUpdate(s)
  PROVE  SessionsInv'
<1> PICK boxes : boxes = editor[s].boxes
  OBVIOUS
<1>a. /\ editor[s].step = "save" /\ Standing
      /\ session' = [session EXCEPT !.at = Filled(boxes.at, @), !.panel = Filled(boxes.panel, @),
                                    !.status = Filled(boxes.status, @)]
      /\ ~settled' /\ settled' \in BOOLEAN /\ renewed' = (renewed /\ boxes.at = {})
      /\ UNCHANGED <<tokens, marked, calendar, edits, strayed>>
  BY DEF SaveUpdate
<1>t. /\ session \in Session /\ editor \in [Editors -> Editor]
      /\ editor[s] \in Editor /\ boxes \in Boxed /\ editor[s].seen \in Session
      /\ Fresh(s) /\ Meant(s) /\ session.status # "none"
  BY <1>a, Busied, SessionParts DEF SessionsInv
<1>b. /\ boxes.at \in Option(Times) /\ boxes.panel \in Option(SUBSET Guests)
      /\ boxes.status \in Option({"scheduled", "completed", "cancelled", "absent"})
      /\ session.at \in Times /\ session.panel \in SUBSET Guests
      /\ session.status \in {"scheduled", "completed", "cancelled", "absent"}
      /\ editor[s].seen.at \in Times
  BY <1>t, <1>a DEF Boxed, Session, Standing
<1> PICK at, panel, status, seenAt, sent :
      /\ at = Filled(boxes.at, session.at) /\ panel = Filled(boxes.panel, session.panel)
      /\ status = Filled(boxes.status, session.status) /\ seenAt = Filled(boxes.at, editor[s].seen.at)
      /\ sent = Filled(boxes.panel, {})
  OBVIOUS
<1>f. /\ at \in Times /\ (boxes.at = {} => at = session.at) /\ panel \in SUBSET Guests
      /\ status \in {"scheduled", "completed", "cancelled", "absent"}
      /\ seenAt \in Times /\ sent \in SUBSET Guests
      /\ editor[s].seen.at = session.at => seenAt = at
      /\ boxes.at # {} => at = Filled(boxes.at, NoTime)
  <2>1. /\ at \in Times /\ (boxes.at = {} => at = session.at) /\ seenAt \in Times
        /\ boxes.at # {} => at = Filled(boxes.at, NoTime)
    BY <1>b, FilledBox, Bounds
  <2>2. panel \in SUBSET Guests /\ sent \in SUBSET Guests
    BY <1>b, FilledBox
  <2>3. status \in {"scheduled", "completed", "cancelled", "absent"}
    BY <1>b, FilledBox
  <2> QED
    BY <2>1, <2>2, <2>3
<1>s. session' \in Session /\ session'.at = at /\ session'.status = status /\ session'.event = session.event
  BY <1>a, <1>t, <1>f DEF Session
<1>r. (renewed' => renewed /\ session'.at = session.at) /\ renewed' \in BOOLEAN
  BY <1>a, <1>s, <1>f
<1>1. CASE boxes.panel # {}
  <2> DEFINE seen == [editor[s].seen EXCEPT !.at = seenAt]
             off == editor[s].seen.panel \ sent
             w == [editor[s] EXCEPT !.step = "relink", !.next = "sync", !.people = sent,
                                    !.off = off, !.seen = seen]
  <2>1. seen \in Session /\ seen.at = seenAt /\ seen.event = editor[s].seen.event
        /\ off \in SUBSET Guests
    BY <1>t, <1>f DEF Session
  <2>2. editor' = [editor EXCEPT ![s] = w]
    <3>1. editor' = [editor EXCEPT ![s] =
            [@ EXCEPT !.step = "relink", !.next = "sync", !.people = sent, !.off = off,
                      !.seen.at = seenAt]]
      <4>1. editor' = [editor EXCEPT ![s] =
              [editor[s] EXCEPT !.step = "relink", !.next = "sync",
                        !.people = Filled(boxes.panel, {}),
                        !.off = editor[s].seen.panel \ Filled(boxes.panel, {}),
                        !.seen.at = Filled(boxes.at, editor[s].seen.at)]]
        BY <1>1, <1>t DEF SaveUpdate
      <4> QED
        BY <4>1
    <3> HIDE DEF off
    <3> QED
      BY <1>t, <3>1 DEF Editor
  <2> HIDE DEF seen, off
  <2>3. /\ w \in Editor /\ w.step = "relink" /\ w.next = "sync" /\ w.seen = seen
        /\ w.event = editor[s].event /\ (w.alone <=> editor[s].alone)
    BY <1>t, <1>f, <2>1 DEF Editor, Steps
  <2> HIDE DEF w
  <2>4. editor'[s] = w
    BY <1>t, <2>2
  <2>5. Fresh(s)' /\ Meant(s)' /\ GivenUp(s)'
    BY <1>a, <1>t, <1>f, <1>s, <2>1, <2>3, <2>4 DEF Fresh, Alone, Meant, GivenUp, Used
  <2> QED
    BY <1>a, <1>s, <1>f, <1>r, <2>2, <2>3, <2>5, SaveKeeps
<1>2. CASE boxes.panel = {}
  <2> DEFINE step == IF boxes.at \in {{}, {NoTime}} THEN "sync" ELSE "renew"
             w == [editor[s] EXCEPT !.step = step]
  <2>1. step \in Steps /\ step \in {"sync", "renew"} /\ (step = "renew" => boxes.at # {})
    BY DEF Steps
  <2>2. editor' = [editor EXCEPT ![s] = w]
    BY <1>2, <1>t DEF SaveUpdate
  <2> HIDE DEF step
  <2>3. /\ w \in Editor /\ w.step = step /\ w.boxes = boxes /\ w.seen = editor[s].seen
        /\ w.event = editor[s].event /\ (w.alone <=> editor[s].alone)
    BY <1>t, <2>1 DEF Editor
  <2> HIDE DEF w
  <2>4. editor'[s] = w
    BY <1>t, <2>2
  <2>5. Fresh(s)' /\ Meant(s)' /\ GivenUp(s)'
    BY <1>a, <1>t, <1>f, <1>s, <2>1, <2>3, <2>4 DEF Fresh, Alone, Meant, GivenUp, Used
  <2> QED
    BY <1>a, <1>s, <1>f, <1>r, <2>2, <2>3, <2>5, SaveKeeps
<1> QED
  BY <1>1, <1>2

LEMMA MoveKeeps ==
  ASSUME SessionsInv, NEW s \in Editors, SaveReschedule(s) \/ SeatGuests(s)
  PROVE  SessionsInv'
<1>a. /\ editor[s].step \in {"move", "append"} /\ Standing
      /\ ~settled' /\ settled' \in BOOLEAN
      /\ UNCHANGED <<tokens, marked, calendar, edits, strayed>>
  BY DEF SaveReschedule, SeatGuests
<1>t. /\ session \in Session /\ editor \in [Editors -> Editor]
      /\ editor[s] \in Editor /\ editor[s].boxes \in Boxed /\ editor[s].seen \in Session
      /\ Fresh(s) /\ Meant(s) /\ session.status # "none" /\ renewed \in BOOLEAN
  BY <1>a, Busied, SessionParts DEF SessionsInv, SessionsTypeOK
<1>1. CASE SaveReschedule(s)
  <2> PICK at : at = Filled(editor[s].boxes.at, session.at)
    OBVIOUS
  <2> DEFINE w == [editor[s] EXCEPT !.step = "renew"]
  <2>1. /\ editor[s].step = "move" /\ session' = [session EXCEPT !.at = at] /\ renewed' = FALSE
        /\ editor' = [editor EXCEPT ![s] = w]
    BY <1>1, <1>t DEF SaveReschedule
  <2>2. at \in Times /\ (editor[s].boxes.at # {} => at = Filled(editor[s].boxes.at, NoTime))
    <3>1. editor[s].boxes.at \in Option(Times) /\ session.at \in Times
      BY <1>t DEF Boxed, Session
    <3> QED
      BY <3>1, FilledBox, Bounds
  <2>3. /\ w \in Editor /\ w.step = "renew" /\ w.boxes = editor[s].boxes /\ w.seen = editor[s].seen
        /\ w.event = editor[s].event /\ (w.alone <=> editor[s].alone)
    BY <1>t DEF Editor, Steps
  <2> HIDE DEF w
  <2>4. editor'[s] = w
    BY <1>t, <2>1
  <2>5. session' \in Session /\ session'.at = at /\ session'.status # "none" /\ session'.event = session.event
    BY <1>t, <2>1, <2>2 DEF Session
  <2>6. Fresh(s)' /\ Meant(s)' /\ GivenUp(s)'
    BY <1>a, <1>t, <2>1, <2>2, <2>3, <2>4, <2>5 DEF Fresh, Alone, Meant, GivenUp, Used
  <2> QED
    BY <1>a, <2>1, <2>3, <2>5, <2>6, SaveKeeps
<1>2. CASE SeatGuests(s)
  <2> DEFINE w == [editor[s] EXCEPT !.step = "relink"]
  <2>1. /\ editor[s].step = "append" /\ session' = [session EXCEPT !.panel = @ \cup editor[s].people]
        /\ editor' = [editor EXCEPT ![s] = w] /\ renewed' = renewed
    BY <1>2, <1>t DEF SeatGuests
  <2>2. session.panel \cup editor[s].people \in SUBSET Guests
    BY <1>t DEF Session, Editor
  <2>3. /\ w \in Editor /\ w.step = "relink" /\ w.next = editor[s].next /\ w.seen = editor[s].seen
        /\ w.event = editor[s].event /\ (w.alone <=> editor[s].alone)
    BY <1>t DEF Editor, Steps
  <2> HIDE DEF w
  <2>4. editor'[s] = w
    BY <1>t, <2>1
  <2>5. session' \in Session /\ session'.at = session.at /\ session'.status # "none"
        /\ session'.event = session.event
    BY <1>t, <2>1, <2>2 DEF Session
  <2>6. Fresh(s)' /\ Meant(s)' /\ GivenUp(s)'
    BY <1>a, <1>t, <2>1, <2>3, <2>4, <2>5 DEF Fresh, Alone, Meant, GivenUp, Used
  <2> QED
    BY <1>a, <1>t, <2>1, <2>3, <2>5, <2>6, SaveKeeps
<1> QED
  BY <1>1, <1>2

(* A change to the links alone, by somebody the calendar is not settled for or who stops. *)
LEMMA LinkKeeps ==
  ASSUME SessionsInv, NEW s \in Editors, NEW w \in Editor, editor' = [editor EXCEPT ![s] = w],
         editor[s].step \notin {"none", "record"}, w.step = "none" \/ (w.alone => editor[s].alone),
         w.step = "none" \/ ~settled,
         tokens' \in [Guests -> Unlinked..Slots], renewed' \in BOOLEAN, Linked',
         UNCHANGED <<session, marked, calendar, edits, settled, strayed>>,
         Fresh(s)', Meant(s)', GivenUp(s)'
  PROVE  SessionsInv'
<1>t. SessionsTypeOK /\ editor[s].step # "none" /\ session.status # "none"
  BY Busied DEF SessionsInv
<1>k. CalendarKeeps
  BY <1>t, SameCalendar
<1>1. /\ editor' \in [Editors -> Editor] /\ editor'[s] = w
      /\ \A t \in Editors \ {s} : editor'[t] = editor[t]
      /\ OneAlone' /\ (\A t \in Editors : Fresh(t) /\ Meant(t) /\ GivenUp(t))'
  BY <1>t, <1>k, StepKeeps
<1>2. (SessionsTypeOK /\ Untouched /\ Events)'
  BY <1>t, <1>1 DEF SessionsInv, SessionsTypeOK, Untouched, Events, Used
<1>3. Told'
  BY <1>1 DEF SessionsInv, Told
<1>4. CalendarFollows'
  <2>1. ~strayed' => \A e \in 1..MaxEvents :
          calendar'[e].live => e = session'.event \/ \E t \in Busy' : editor'[t].event = e
    BY <1>1, StrayKeeps
  <2> QED
    BY <2>1 DEF SessionsInv, CalendarFollows, EventOf
<1> QED
  BY <1>1, <1>2, <1>3, <1>4 DEF SessionsInv

LEMMA RenewKeeps ==
  ASSUME SessionsInv, NEW s \in Editors, Renew(s)
  PROVE  SessionsInv'
<1> PICK at : at = Filled(editor[s].boxes.at, NoTime)
  OBVIOUS
<1> DEFINE w == [editor[s] EXCEPT !.step = "sync"]
<1>a. /\ editor[s].step = "renew" /\ tokens' = Renewed(at) /\ renewed' = editor[s].alone
      /\ editor' = [editor EXCEPT ![s] = w]
      /\ UNCHANGED <<session, marked, calendar, edits, settled, strayed>>
  BY DEF Renew, SessionsInv, SessionsTypeOK
<1>t. /\ session \in Session /\ editor \in [Editors -> Editor] /\ tokens \in [Guests -> Unlinked..Slots]
      /\ editor[s] \in Editor /\ editor[s].boxes \in Boxed
      /\ Fresh(s) /\ Meant(s) /\ ~settled
  BY <1>a, Busied, SessionParts DEF SessionsInv
<1>at. at \in Times
  <2>1. editor[s].boxes.at \in Option(Times)
    BY <1>t DEF Boxed
  <2> QED
    BY <2>1, FilledBox, Bounds
<1>w. /\ w \in Editor /\ w.step = "sync" /\ w.seen = editor[s].seen
      /\ w.event = editor[s].event /\ (w.alone <=> editor[s].alone) /\ editor[s].alone \in BOOLEAN
  BY <1>t DEF Editor, Steps
<1> HIDE DEF w
<1>s. editor'[s] = w
  BY <1>a, <1>t
<1>1. tokens' \in [Guests -> Unlinked..Slots]
  BY <1>a, <1>t, <1>at, Bounds DEF Renewed
<1>2. Linked'
  <2> SUFFICES ASSUME renewed', NEW p \in Guests \ marked, tokens'[p] # Unlinked
               PROVE  tokens'[p] >= session.at
    BY <1>a DEF Linked
  <2>1. Alone(s) /\ session.at = at
    BY <1>a, <1>t DEF Fresh, Alone
  <2>2. tokens'[p] = at
    BY <1>a, <1>t DEF Renewed
  <2> QED
    BY <2>1, <2>2, <1>at, Bounds
<1>3. Fresh(s)' /\ Meant(s)' /\ GivenUp(s)'
  BY <1>a, <1>t, <1>w, <1>s DEF Fresh, Alone, Meant, GivenUp, Used
<1> QED
  BY <1>a, <1>t, <1>w, <1>1, <1>2, <1>3, LinkKeeps

LEMMA RelinkKeeps ==
  ASSUME SessionsInv, NEW s \in Editors, Relink(s)
  PROVE  SessionsInv'
<1> PICK e : e = editor[s]
  OBVIOUS
<1> DEFINE w == IF e.next = "none" THEN AtRest ELSE [e EXCEPT !.step = e.next]
<1>a. /\ e.step = "relink"
      /\ tokens' = [p \in Guests |->
            IF p \in e.people /\ tokens[p] = Unlinked THEN e.seen.at
            ELSE IF p \in e.off THEN Unlinked ELSE tokens[p]]
      /\ renewed' = (renewed /\ e.alone)
      /\ UNCHANGED <<session, marked, calendar, edits, settled, strayed>>
  BY DEF Relink
<1>e. editor' = [editor EXCEPT ![s] = w]
  <2>1. CASE e.next = "none"
    BY <2>1 DEF Relink
  <2>2. CASE e.next # "none"
    BY <2>2 DEF Relink, SessionsInv, SessionsTypeOK
  <2> QED
    BY <2>1, <2>2
<1>t. /\ session \in Session /\ editor \in [Editors -> Editor] /\ tokens \in [Guests -> Unlinked..Slots]
      /\ e \in Editor /\ e.seen \in Session /\ e.seen.at \in Times /\ session.at \in Times
      /\ Fresh(s) /\ Meant(s) /\ ~settled
  BY <1>a, Busied, SessionParts DEF SessionsInv
<1>n. e.next \in {"none", "sync", "insert"}
  BY <1>a, <1>t DEF Meant
<1>w. /\ w \in Editor /\ w.step = e.next
      /\ e.next # "none" => w.seen = e.seen /\ w.event = e.event /\ (w.alone <=> e.alone)
      /\ e.next = "none" => w.event = 0 /\ w.seen.event = 0
  <2>1. CASE e.next = "none"
    BY <2>1, AtRestType
  <2>2. CASE e.next # "none"
    BY <2>2, <1>t, <1>n DEF Editor, Steps
  <2> QED
    BY <2>1, <2>2
<1> HIDE DEF w
<1>s. editor'[s] = w
  BY <1>e, <1>t
<1>1. tokens' \in [Guests -> Unlinked..Slots] /\ renewed' \in BOOLEAN
  BY <1>a, <1>t, Bounds
<1>2. Linked'
  <2> SUFFICES ASSUME renewed', NEW p \in Guests \ marked, tokens'[p] # Unlinked
               PROVE  tokens'[p] >= session.at
    BY <1>a DEF Linked
  <2>1. renewed /\ Alone(s) /\ e.seen.at = session.at
    BY <1>a, <1>t DEF Fresh, Alone
  <2>2. tokens'[p] = e.seen.at \/ tokens'[p] = tokens[p]
    BY <1>a
  <2>3. CASE tokens'[p] = e.seen.at
    BY <2>1, <2>3, <1>t, Bounds
  <2>4. CASE tokens'[p] = tokens[p]
    BY <2>1, <2>4 DEF SessionsInv, Linked
  <2> QED
    BY <2>2, <2>3, <2>4
<1>3. Fresh(s)' /\ Meant(s)' /\ GivenUp(s)'
  BY <1>a, <1>t, <1>n, <1>w, <1>s DEF Fresh, Alone, Meant, GivenUp, Used, SameRound
<1> QED
  BY <1>a, <1>e, <1>t, <1>w, <1>1, <1>2, <1>3, LinkKeeps

LEMMA ResendKeeps ==
  ASSUME SessionsInv, NEW s \in Editors, CommitResend(s)
  PROVE  SessionsInv'
<1> PICK e : e = editor[s]
  OBVIOUS
<1>a. /\ e.step = "resend"
      /\ tokens' = [p \in Guests |-> IF p \in e.people THEN e.seen.at ELSE tokens[p]]
      /\ renewed' = (renewed /\ e.alone) /\ Rests(s)
      /\ UNCHANGED <<session, marked, calendar, edits, settled, strayed>>
  BY DEF CommitResend
<1>t. /\ session \in Session /\ editor \in [Editors -> Editor] /\ tokens \in [Guests -> Unlinked..Slots]
      /\ e \in Editor /\ e.seen \in Session /\ e.seen.at \in Times /\ session.at \in Times
      /\ Fresh(s)
  BY <1>a, Busied, SessionParts DEF SessionsInv
<1>1. tokens' \in [Guests -> Unlinked..Slots] /\ renewed' \in BOOLEAN
  BY <1>a, <1>t, Bounds
<1>2. Linked'
  <2> SUFFICES ASSUME renewed', NEW p \in Guests \ marked, tokens'[p] # Unlinked
               PROVE  tokens'[p] >= session.at
    BY <1>a DEF Linked
  <2>1. renewed /\ e.seen.at = session.at
    BY <1>a, <1>t DEF Fresh, Alone
  <2>2. CASE tokens'[p] = e.seen.at
    BY <2>1, <2>2, <1>t, Bounds
  <2>3. CASE tokens'[p] = tokens[p]
    BY <2>1, <2>3 DEF SessionsInv, Linked
  <2> QED
    BY <1>a, <2>2, <2>3
<1>3. editor' = [editor EXCEPT ![s] = AtRest] /\ editor'[s] = AtRest
  BY <1>a, <1>t DEF Rests
<1>4. Fresh(s)' /\ Meant(s)' /\ GivenUp(s)'
  BY <1>3, AtRestType DEF Fresh, Alone, Meant, GivenUp, Used
<1> HIDE DEF AtRest
<1> QED
  BY <1>a, <1>1, <1>2, <1>3, <1>4, AtRestType, LinkKeeps

LEMMA GoneKeeps ==
  ASSUME SessionsInv, NEW s \in Editors, RowGone(s)
  PROVE  SessionsInv'
<1>a. /\ editor[s].step \notin {"none", "record"} /\ Rests(s)
      /\ UNCHANGED <<session, tokens, marked, calendar, edits, settled, renewed, strayed>>
  BY DEF RowGone
<1>t. editor \in [Editors -> Editor] /\ tokens \in [Guests -> Unlinked..Slots] /\ renewed \in BOOLEAN
  BY DEF SessionsInv, SessionsTypeOK
<1>1. editor' = [editor EXCEPT ![s] = AtRest] /\ editor'[s] = AtRest
  BY <1>a, <1>t DEF Rests
<1>2. Linked'
  BY <1>a DEF SessionsInv, Linked
<1>3. Fresh(s)' /\ Meant(s)' /\ GivenUp(s)'
  BY <1>1, AtRestType DEF Fresh, Alone, Meant, GivenUp, Used
<1> HIDE DEF AtRest
<1> QED
  BY <1>a, <1>t, <1>1, <1>2, <1>3, AtRestType, LinkKeeps

LEMMA SyncKeeps ==
  ASSUME SessionsInv, NEW s \in Editors, Sync(s)
  PROVE  SessionsInv'
<1> DEFINE made == session.event # 0
           next == IF made /\ CalledOff(session) THEN "cancel"
                   ELSE IF session.at = NoTime THEN "none"
                   ELSE IF made THEN "patch"
                   ELSE IF session.status = "scheduled" THEN "insert" ELSE "none"
           w == IF next = "none" THEN AtRest ELSE [editor[s] EXCEPT !.step = next, !.seen = session]
<1>a. /\ editor[s].step = "sync"
      /\ UNCHANGED <<session, tokens, marked, calendar, edits, settled, renewed, strayed>>
  BY DEF Sync
<1>t. /\ session \in Session /\ editor \in [Editors -> Editor] /\ tokens \in [Guests -> Unlinked..Slots]
      /\ editor[s] \in Editor /\ Meant(s) /\ ~settled /\ renewed \in BOOLEAN
  BY <1>a, Busied DEF SessionsInv, SessionsTypeOK
<1>e. editor' = [editor EXCEPT ![s] = w]
  <2>1. editor' = [editor EXCEPT ![s] =
          IF next = "none" THEN AtRest ELSE [editor[s] EXCEPT !.step = next, !.seen = session]]
    BY <1>t DEF Sync
  <2> QED
    BY <2>1
<1>n. /\ next \in {"none", "cancel", "patch", "insert"}
      /\ next = "cancel" => session.event # 0 /\ session.status = "cancelled"
      /\ next = "patch" => session.event # 0 /\ session.status # "cancelled" /\ session.at # NoTime
      /\ next = "insert" => session.status = "scheduled" /\ session.at # NoTime
  BY DEF CalledOff
<1> HIDE DEF next
<1>w. /\ w \in Editor /\ w.step = next
      /\ next # "none" => w.seen = session /\ w.event = editor[s].event
                          /\ (w.alone <=> editor[s].alone)
      /\ next = "none" => w.event = 0 /\ w.seen.event = 0
  <2>1. CASE next = "none"
    BY <2>1, AtRestType
  <2>2. CASE next # "none"
    BY <2>2, <1>t, <1>n DEF Editor, Steps
  <2> QED
    BY <2>1, <2>2
<1> HIDE DEF w
<1>s. editor'[s] = w
  BY <1>e, <1>t
<1>2. Linked'
  BY <1>a DEF SessionsInv, Linked
<1>3. Fresh(s)' /\ Meant(s)' /\ GivenUp(s)'
  BY <1>a, <1>t, <1>n, <1>w, <1>s DEF Fresh, Alone, Meant, GivenUp, Used, SameRound, SessionsInv, Events
<1> QED
  BY <1>a, <1>e, <1>t, <1>w, <1>2, <1>3, LinkKeeps

LEMMA EventType ==
  ASSUME NEW seen \in Session
  PROVE  /\ EventOf(seen) \in Event /\ EventOf(seen).live /\ EventOf(seen).at = seen.at
         /\ EventOf(seen).guests = seen.panel
BY DEF Session, EventOf, Event

(* Google has made an event, moved one or called one off, or the round has been *)
(* told what it made; all that is left is the request's own state and what       *)
(* follows from it.                                                              *)
LEMMA GoogleKeeps ==
  ASSUME SessionsInv, NEW s \in Editors, NEW w \in Editor, editor' = [editor EXCEPT ![s] = w],
         editor[s].step # "none", w.step = "none" \/ (w.alone => editor[s].alone),
         CalendarKeeps, \A e \in 1..MaxEvents : calendar'[e].live => calendar'[e].at # NoTime,
         strayed => strayed', strayed' \in BOOLEAN, settled' \in BOOLEAN,
         session' \in Session, session'.at = session.at, session'.status = session.status,
         Used(session.event)',
         settled' => (settled \/ editor[s].alone) /\ w.step = "none",
         UNCHANGED <<tokens, marked, edits, renewed>>,
         Fresh(s)', Meant(s)', GivenUp(s)', CalendarFollows'
  PROVE  SessionsInv'
<1>t. SessionsTypeOK /\ session.status # "none"
  BY Busied DEF SessionsInv
<1>1. /\ editor' \in [Editors -> Editor] /\ editor'[s] = w
      /\ \A t \in Editors \ {s} : editor'[t] = editor[t]
      /\ OneAlone' /\ (\A t \in Editors : Fresh(t) /\ Meant(t) /\ GivenUp(t))'
  BY StepKeeps
<1>2. SessionsTypeOK'
  BY <1>t, <1>1 DEF SessionsTypeOK, CalendarKeeps
<1>3. Untouched' /\ Linked'
  BY <1>t DEF SessionsInv, Untouched, Linked
<1>4. Told'
  <2>1. editor[s].alone => \A t \in Editors \ {s} : editor[t].step = "none"
    BY Busied
  <2> QED
    BY <1>1, <2>1 DEF SessionsInv, Told
<1>5. Events'
  BY DEF Events, Used
<1> QED
  BY <1>1, <1>2, <1>3, <1>4, <1>5 DEF SessionsInv

LEMMA CreateKeeps ==
  ASSUME SessionsInv, NEW s \in Editors, CreateEvent(s)
  PROVE  SessionsInv'
<1>a. /\ editor[s].step = "insert" /\ UNCHANGED <<session, tokens, marked, edits, settled, renewed>>
  BY DEF CreateEvent
<1>t. /\ session \in Session /\ editor \in [Editors -> Editor] /\ editor[s] \in Editor
      /\ calendar \in [1..MaxEvents -> Event] /\ editor[s].seen \in Session
      /\ session.event \in 0..MaxEvents /\ editor[s].seen.event \in 0..MaxEvents
      /\ Meant(s) /\ Fresh(s) /\ ~settled /\ strayed \in BOOLEAN
      /\ Used(session.event) /\ SessionsTypeOK /\ settled \in BOOLEAN
      /\ \A e \in 1..MaxEvents : calendar[e].live => calendar[e].at # NoTime
  BY <1>a, Busied, SessionParts DEF SessionsInv, SessionsTypeOK, Events
<1>m. editor[s].event = 0 /\ editor[s].seen.at # NoTime /\ editor[s].seen.status = "scheduled"
  BY <1>a, <1>t DEF Meant
<1>1. ASSUME NEW e \in 1..MaxEvents, calendar[e] = NoEvent,
             calendar' = [calendar EXCEPT ![e] = EventOf(editor[s].seen)],
             \/ /\ editor' = [editor EXCEPT ![s].step = "record", ![s].event = e]
                /\ strayed' = strayed
             \/ Rests(s) /\ strayed' = TRUE
      PROVE  SessionsInv'
  <2>1. /\ calendar' \in [1..MaxEvents -> Event] /\ calendar'[e] = EventOf(editor[s].seen)
        /\ \A f \in 1..MaxEvents \ {e} : calendar'[f] = calendar[f]
    BY <1>t, <1>1, EventType
  <2>2. calendar[e].at = NoTime /\ calendar'[e].at # NoTime
    BY <1>1, <1>m, <1>t, <2>1, EventType DEF NoEvent
  <2>3. CalendarKeeps /\ \A f \in 1..MaxEvents : calendar'[f].live => calendar'[f].at # NoTime
    <3>1. \A f \in 1..MaxEvents : calendar[f].at # NoTime => calendar'[f] = calendar[f]
      BY <2>1, <2>2
    <3> QED
      BY <1>t, <2>1, <2>2, <3>1 DEF CalendarKeeps
  <2>4. Used(session.event)'
    BY <1>a, <1>t, <2>3, UsedStays DEF Used
  <2>5. CASE /\ editor' = [editor EXCEPT ![s].step = "record", ![s].event = e]
             /\ strayed' = strayed
    <3> DEFINE w == [editor[s] EXCEPT !.step = "record", !.event = e]
    <3>1. editor' = [editor EXCEPT ![s] = w]
      BY <2>5, <1>t
    <3>2. /\ w \in Editor /\ w.step = "record" /\ w.event = e /\ w.seen = editor[s].seen
          /\ (w.alone <=> editor[s].alone) /\ e # 0
      <4>1. e \in 0..MaxEvents /\ e # 0 /\ "record" \in Steps
        BY Bounds DEF Steps
      <4> QED
        BY <1>t, <4>1 DEF Editor
    <3> HIDE DEF w
    <3>3. editor'[s] = w /\ \A t \in Editors \ {s} : editor'[t] = editor[t]
      BY <3>1, <1>t
    <3>4. Fresh(s)'
      BY <1>a, <1>t, <2>1, <3>2, <3>3 DEF Fresh, Alone, SameRound, EventOf
    <3>5. editor[s].seen.event # 0 => calendar'[editor[s].seen.event].at # NoTime
      BY <1>t, <2>3, UsedStays DEF Meant
    <3>6. Meant(s)'
      BY <1>m, <2>2, <3>2, <3>3, <3>5 DEF Meant, Used
    <3>7. GivenUp(s)'
      BY <3>2, <3>3 DEF GivenUp
    <3>8. ~strayed' => \A f \in 1..MaxEvents :
            calendar'[f].live => f = session'.event \/ \E t \in Busy' : editor'[t].event = f
      <4> SUFFICES ASSUME ~strayed', NEW f \in 1..MaxEvents, calendar'[f].live
                   PROVE  f = session'.event \/ \E t \in Busy' : editor'[t].event = f
        OBVIOUS
      <4>1. CASE f = e
        BY <4>1, <3>2, <3>3 DEF Busy
      <4>2. CASE f # e
        <5>1. f = session.event \/ \E t \in Busy : editor[t].event = f
          BY <4>2, <2>1, <2>5 DEF SessionsInv, CalendarFollows
        <5>2. ASSUME NEW t \in Busy, editor[t].event = f
              PROVE  t \in Busy' /\ editor'[t].event = f
          <6>1. t # s /\ t \in Editors
            BY <5>2, <1>m, Bounds DEF Busy
          <6> QED
            BY <6>1, <5>2, <3>3 DEF Busy
        <5> QED
          BY <5>1, <5>2, <1>a
      <4> QED
        BY <4>1, <4>2
    <3>9. CalendarFollows'
      BY <1>a, <1>t, <3>8 DEF CalendarFollows
    <3> QED
      BY <1>a, <1>t, <2>3, <2>4, <2>5, <3>1, <3>2, <3>4, <3>6, <3>7, <3>9, GoogleKeeps
  <2>6. CASE Rests(s) /\ strayed' = TRUE
    <3>1. editor' = [editor EXCEPT ![s] = AtRest] /\ editor'[s] = AtRest
      BY <2>6, <1>t DEF Rests
    <3>2. Fresh(s)' /\ Meant(s)' /\ GivenUp(s)'
      BY <3>1, AtRestType DEF Fresh, Alone, Meant, GivenUp, Used
    <3>3. CalendarFollows'
      BY <1>a, <1>t, <2>6 DEF CalendarFollows
    <3> HIDE DEF AtRest
    <3> QED
      BY <1>a, <1>t, <2>3, <2>4, <2>6, <3>1, <3>2, <3>3, AtRestType, GoogleKeeps
  <2> QED
    BY <1>1, <2>5, <2>6
<1>2. CASE Rests(s) /\ UNCHANGED <<calendar, strayed>>
  <2>1. editor' = [editor EXCEPT ![s] = AtRest] /\ editor'[s] = AtRest
    BY <1>2, <1>t DEF Rests
  <2>2. Fresh(s)' /\ Meant(s)' /\ GivenUp(s)'
    BY <2>1, AtRestType DEF Fresh, Alone, Meant, GivenUp, Used
  <2>3. tokens \in [Guests -> Unlinked..Slots] /\ renewed \in BOOLEAN /\ Linked'
    BY <1>a DEF SessionsInv, SessionsTypeOK, Linked
  <2> HIDE DEF AtRest
  <2> QED
    BY <1>a, <1>t, <1>2, <2>1, <2>2, <2>3, AtRestType, LinkKeeps
<1> QED
  BY <1>1, <1>2 DEF CreateEvent

LEMMA RestedFacts ==
  ASSUME SessionsInv, NEW s \in Editors, Rests(s)
  PROVE  /\ editor' = [editor EXCEPT ![s] = AtRest]
         /\ \A t \in Editors \ {s} : editor'[t] = editor[t]
         /\ Fresh(s)' /\ Meant(s)' /\ GivenUp(s)'
<1>1. editor' = [editor EXCEPT ![s] = AtRest] /\ editor'[s] = AtRest
      /\ \A t \in Editors \ {s} : editor'[t] = editor[t]
  BY DEF Rests, SessionsInv, SessionsTypeOK
<1> QED
  BY <1>1, AtRestType DEF Fresh, Alone, Meant, GivenUp, Used

LEMMA RecordKeeps ==
  ASSUME SessionsInv, NEW s \in Editors, RecordEvent(s)
  PROVE  SessionsInv'
<1> PICK e : e = editor[s].event
  OBVIOUS
<1>a. /\ editor[s].step = "record" /\ Rests(s)
      /\ session' = IF Standing THEN [session EXCEPT !.event = e] ELSE session
      /\ settled' = editor[s].alone
      /\ strayed' = (strayed \/ ~Standing \/ session.event # 0)
      /\ UNCHANGED <<tokens, marked, calendar, edits, renewed>>
  BY DEF RecordEvent
<1>t. /\ session \in Session /\ editor \in [Editors -> Editor] /\ editor[s] \in Editor
      /\ editor[s].alone \in BOOLEAN /\ strayed \in BOOLEAN /\ e \in 0..MaxEvents
      /\ editor[s].seen \in Session
      /\ Meant(s) /\ Fresh(s) /\ Used(session.event) /\ SessionsTypeOK
      /\ \A f \in 1..MaxEvents : calendar[f].live => calendar[f].at # NoTime
      /\ editor[s].alone => Alone(s)
  BY <1>a, Busied, SessionParts DEF SessionsInv, SessionsTypeOK, Events, Editor
<1>m. e # 0 /\ editor[s].seen.status = "scheduled" /\ Used(e)
  BY <1>a, <1>t DEF Meant
<1>k. CalendarKeeps
  BY <1>a, <1>t, SameCalendar
<1>s. /\ session' \in Session /\ session'.at = session.at /\ session'.status = session.status
      /\ session'.panel = session.panel
      /\ Standing => session'.event = e
      /\ ~Standing => session'.event = session.event
  BY <1>a, <1>t DEF Session
<1>u. Used(session.event)'
  BY <1>a, <1>t, <1>m, <1>s DEF Used
<1>r. /\ editor' = [editor EXCEPT ![s] = AtRest]
      /\ \A t \in Editors \ {s} : editor'[t] = editor[t]
      /\ Fresh(s)' /\ Meant(s)' /\ GivenUp(s)'
  BY <1>a, RestedFacts
<1>1. settled' /\ session'.status = "scheduled" /\ session'.at # NoTime =>
        session'.event # 0 /\ calendar'[session'.event] = EventOf(session)'
  <2> SUFFICES ASSUME settled', session'.status = "scheduled"
               PROVE  session'.event # 0 /\ calendar'[session'.event] = EventOf(session)'
    OBVIOUS
  <2>1. session'.event = e
    BY <1>s DEF Standing
  <2>2. calendar[e] = EventOf(editor[s].seen) /\ SameRound(editor[s].seen)
    BY <1>a, <1>t DEF Fresh
  <2> QED
    BY <1>a, <1>m, <1>s, <2>1, <2>2 DEF EventOf, SameRound
<1>2. settled' => session'.status # "cancelled"
  BY <1>a, <1>t, <1>m, <1>s DEF Fresh, SameRound
<1>3. ~strayed' => \A f \in 1..MaxEvents :
        calendar'[f].live => f = session'.event \/ \E t \in Busy' : editor'[t].event = f
  <2> SUFFICES ASSUME ~strayed', NEW f \in 1..MaxEvents, calendar'[f].live
               PROVE  f = session'.event \/ \E t \in Busy' : editor'[t].event = f
    OBVIOUS
  <2>1. session.event = 0 /\ ~strayed /\ session'.event = e
    BY <1>a, <1>s
  <2>2. PICK t \in Busy : editor[t].event = f
    BY <1>a, <2>1, Bounds DEF SessionsInv, CalendarFollows
  <2>3. CASE t = s
    BY <2>1, <2>2, <2>3
  <2>4. CASE t # s
    BY <2>2, <2>4, <1>r DEF Busy
  <2> QED
    BY <2>3, <2>4
<1>4. CalendarFollows'
  BY <1>1, <1>2, <1>3 DEF CalendarFollows
<1>5. settled' \in BOOLEAN /\ strayed' \in BOOLEAN
  BY <1>a, <1>t
<1> HIDE DEF AtRest
<1> QED
  BY <1>a, <1>t, <1>k, <1>s, <1>u, <1>r, <1>4, <1>5, AtRestType, GoogleKeeps

LEMMA UpdateEventKeeps ==
  ASSUME SessionsInv, NEW s \in Editors, UpdateEvent(s)
  PROVE  SessionsInv'
<1> PICK e : e = editor[s].seen.event
  OBVIOUS
<1>a. /\ editor[s].step = "patch" /\ Rests(s)
      /\ UNCHANGED <<session, tokens, marked, edits, renewed, strayed>>
  BY DEF UpdateEvent
<1>t. /\ session \in Session /\ editor \in [Editors -> Editor] /\ editor[s] \in Editor
      /\ editor[s].alone \in BOOLEAN /\ strayed \in BOOLEAN /\ e \in 0..MaxEvents
      /\ editor[s].seen \in Session /\ calendar \in [1..MaxEvents -> Event] /\ settled \in BOOLEAN
      /\ Meant(s) /\ Fresh(s) /\ Used(session.event) /\ SessionsTypeOK /\ ~settled
      /\ session.event \in 0..MaxEvents
      /\ \A f \in 1..MaxEvents : calendar[f].live => calendar[f].at # NoTime
      /\ editor[s].alone => Alone(s)
  BY <1>a, Busied, SessionParts DEF SessionsInv, SessionsTypeOK, Events, Editor
<1>m. e \in 1..MaxEvents /\ editor[s].seen.status # "cancelled" /\ editor[s].seen.at # NoTime
  BY <1>a, <1>t, Bounds DEF Meant
<1>r. /\ editor' = [editor EXCEPT ![s] = AtRest]
      /\ \A t \in Editors \ {s} : editor'[t] = editor[t]
      /\ Fresh(s)' /\ Meant(s)' /\ GivenUp(s)'
  BY <1>a, RestedFacts
<1>1. CASE /\ calendar[e].live
           /\ calendar' = [calendar EXCEPT ![e] = EventOf(editor[s].seen)]
           /\ settled' = editor[s].alone
  <2>1. /\ calendar' \in [1..MaxEvents -> Event] /\ calendar'[e] = EventOf(editor[s].seen)
        /\ calendar'[e].at # NoTime
        /\ \A f \in 1..MaxEvents \ {e} : calendar'[f] = calendar[f]
    BY <1>1, <1>t, <1>m, EventType
  <2>2. CalendarKeeps /\ \A f \in 1..MaxEvents : calendar'[f].live => calendar'[f].at # NoTime
    BY <1>1, <1>t, <2>1 DEF CalendarKeeps
  <2>3. Used(session.event)'
    BY <1>a, <1>t, <2>2, UsedStays DEF Used
  <2>4. settled' => session.event = e /\ SameRound(editor[s].seen)
    BY <1>1, <1>a, <1>t DEF Fresh
  <2>5. ~strayed' => \A f \in 1..MaxEvents :
          calendar'[f].live => f = session'.event \/ \E t \in Busy' : editor'[t].event = f
    <3>1. \A f \in 1..MaxEvents : calendar'[f].live => calendar[f].live
      BY <1>1, <2>1
    <3>2. ~strayed' => ~strayed /\ editor[s].step # "record" /\ session'.event = session.event
      BY <1>a
    <3>3. \A t \in Editors \ {s} : editor'[t] = editor[t]
      BY <1>r
    <3> QED
      BY <3>1, <3>2, <3>3, StrayKeeps
  <2>6. CalendarFollows'
    <3>1. settled' => session'.event # 0 /\ calendar'[session'.event] = EventOf(session)'
      <4>1. session' = session /\ e # 0
        BY <1>a, <1>m, Bounds
      <4>2. SameRound(editor[s].seen) => EventOf(editor[s].seen) = EventOf(session)
        BY DEF EventOf, SameRound
      <4>3. EventOf(session)' = EventOf(session)
        BY <4>1 DEF EventOf
      <4> QED
        BY <2>1, <2>4, <4>1, <4>2, <4>3
    <3>2. settled' => session'.status # "cancelled"
      BY <1>a, <1>m, <2>4 DEF SameRound
    <3> QED
      BY <2>5, <3>1, <3>2 DEF CalendarFollows
  <2>7. settled' \in BOOLEAN
    BY <1>1, <1>t
  <2> HIDE DEF AtRest
  <2> QED
    BY <1>1, <1>a, <1>t, <1>r, <2>2, <2>3, <2>6, <2>7, AtRestType, GoogleKeeps
<1>2. CASE UNCHANGED <<calendar, settled>>
  <2>1. tokens \in [Guests -> Unlinked..Slots] /\ renewed \in BOOLEAN /\ Linked'
    BY <1>a DEF SessionsInv, SessionsTypeOK, Linked
  <2> HIDE DEF AtRest
  <2> QED
    BY <1>a, <1>t, <1>r, <1>2, <2>1, AtRestType, LinkKeeps
<1> QED
  BY <1>1, <1>2 DEF UpdateEvent

LEMMA CancelKeeps ==
  ASSUME SessionsInv, NEW s \in Editors, Cancel(s) \/ Delete(s)
  PROVE  SessionsInv'
<1> PICK e, next : e = editor[s].seen.event
                   /\ next = IF editor[s].step = "cancel" THEN "forget" ELSE "drop"
  OBVIOUS
<1> DEFINE w == [editor[s] EXCEPT !.step = next]
<1>a. /\ editor[s].step \in {"cancel", "delete"} /\ next \in {"forget", "drop"}
      /\ next = "forget" <=> editor[s].step = "cancel"
      /\ ~settled' /\ settled' \in BOOLEAN
      /\ UNCHANGED <<session, tokens, marked, edits, renewed>>
      /\ \/ calendar' = [calendar EXCEPT ![e].live = FALSE] /\ UNCHANGED strayed
         \/ strayed' = TRUE /\ UNCHANGED calendar
  BY DEF Cancel, Delete, CancelEvent
<1>t. /\ session \in Session /\ editor \in [Editors -> Editor] /\ editor[s] \in Editor
      /\ editor[s].alone \in BOOLEAN /\ strayed \in BOOLEAN /\ e \in 0..MaxEvents
      /\ editor[s].seen \in Session /\ calendar \in [1..MaxEvents -> Event]
      /\ Meant(s) /\ Fresh(s) /\ Used(session.event) /\ SessionsTypeOK
      /\ session.event \in 0..MaxEvents
      /\ \A f \in 1..MaxEvents : calendar[f].live => calendar[f].at # NoTime
      /\ editor[s].alone => Alone(s)
  BY <1>a, Busied, SessionParts DEF SessionsInv, SessionsTypeOK, Events, Editor
<1>m. e \in 1..MaxEvents
  BY <1>a, <1>t, Bounds DEF Meant
<1>e. editor' = [editor EXCEPT ![s] = w]
  BY <1>t DEF Cancel, Delete, CancelEvent
<1>w. w \in Editor /\ w.step = next /\ w.seen = editor[s].seen /\ w.event = editor[s].event
      /\ (w.alone <=> editor[s].alone) /\ w.boxes = editor[s].boxes
  BY <1>a, <1>t DEF Editor, Steps
<1> HIDE DEF w
<1>s. editor'[s] = w /\ \A t \in Editors \ {s} : editor'[t] = editor[t]
  BY <1>e, <1>t
<1>c. /\ calendar' \in [1..MaxEvents -> Event]
      /\ \A f \in 1..MaxEvents : calendar'[f].at = calendar[f].at /\ (calendar'[f].live => calendar[f].live)
      /\ strayed' \/ ~calendar'[e].live
      /\ (strayed => strayed') /\ strayed' \in BOOLEAN
  <2>1. CASE calendar' = [calendar EXCEPT ![e].live = FALSE] /\ UNCHANGED strayed
    <3> DEFINE v == [calendar[e] EXCEPT !.live = FALSE]
    <3>1. v \in Event /\ v.at = calendar[e].at /\ ~v.live
      BY <1>t, <1>m DEF Event
    <3>2. calendar' = [calendar EXCEPT ![e] = v]
      BY <2>1
    <3> HIDE DEF v
    <3>3. calendar' \in [1..MaxEvents -> Event] /\ calendar'[e] = v
          /\ \A f \in 1..MaxEvents \ {e} : calendar'[f] = calendar[f]
      BY <1>t, <1>m, <3>1, <3>2
    <3> QED
      BY <1>t, <2>1, <3>1, <3>3
  <2>2. CASE strayed' = TRUE /\ UNCHANGED calendar
    BY <2>2, <1>t
  <2> QED
    BY <1>a, <2>1, <2>2
<1>k. CalendarKeeps /\ \A f \in 1..MaxEvents : calendar'[f].live => calendar'[f].at # NoTime
  BY <1>c, <1>t DEF CalendarKeeps
<1>u. Used(session.event)'
  BY <1>a, <1>k, <1>t, UsedStays DEF Used
<1>1. Fresh(s)'
  BY <1>a, <1>t, <1>w, <1>s DEF Fresh, Alone, SameRound
<1>2. Meant(s)'
  <2>1. e # 0 => calendar'[e].at # NoTime
    BY <1>t, <1>k, UsedStays DEF Meant
  <2> QED
    BY <1>a, <1>t, <1>w, <1>s, <2>1 DEF Meant, Used
<1>3. GivenUp(s)'
  BY <1>c, <1>w, <1>s DEF GivenUp
<1>4. CalendarFollows'
  <2>1. ~strayed' => \A f \in 1..MaxEvents :
          calendar'[f].live => f = session'.event \/ \E t \in Busy' : editor'[t].event = f
    BY <1>a, <1>c, <1>s, StrayKeeps
  <2> QED
    BY <1>a, <2>1 DEF CalendarFollows
<1> QED
  BY <1>a, <1>t, <1>c, <1>e, <1>k, <1>u, <1>w, <1>1, <1>2, <1>3, <1>4, GoogleKeeps

LEMMA ForgetKeeps ==
  ASSUME SessionsInv, NEW s \in Editors, ForgetEvent(s)
  PROVE  SessionsInv'
<1>a. /\ editor[s].step = "forget" /\ Rests(s)
      /\ session' = [session EXCEPT !.event = 0]
      /\ strayed' = (strayed \/ session.event # editor[s].seen.event)
      /\ settled' = editor[s].alone
      /\ UNCHANGED <<tokens, marked, calendar, edits, renewed>>
  BY DEF ForgetEvent
<1>t. /\ session \in Session /\ editor \in [Editors -> Editor] /\ editor[s] \in Editor
      /\ editor[s].alone \in BOOLEAN /\ strayed \in BOOLEAN
      /\ Meant(s) /\ Fresh(s) /\ GivenUp(s) /\ SessionsTypeOK
      /\ \A f \in 1..MaxEvents : calendar[f].live => calendar[f].at # NoTime
      /\ editor[s].alone => Alone(s)
  BY <1>a, Busied, SessionParts DEF SessionsInv, SessionsTypeOK, Events, Editor
<1>s. /\ session' \in Session /\ session'.at = session.at /\ session'.status = session.status
      /\ session'.event = 0
  BY <1>a, <1>t, Bounds DEF Session
<1>r. /\ editor' = [editor EXCEPT ![s] = AtRest]
      /\ \A t \in Editors \ {s} : editor'[t] = editor[t]
      /\ Fresh(s)' /\ Meant(s)' /\ GivenUp(s)'
  BY <1>a, RestedFacts
<1>k. CalendarKeeps
  BY <1>a, <1>t, SameCalendar
<1>u. Used(session.event)'
  BY <1>s DEF Used
<1>1. ~strayed' => \A f \in 1..MaxEvents :
        calendar'[f].live => f = session'.event \/ \E t \in Busy' : editor'[t].event = f
  <2>1. ~strayed' => ~strayed /\ session.event = editor[s].seen.event
    BY <1>a
  <2>2. ~strayed' => session.event = 0 \/ ~calendar'[session.event].live
    BY <1>a, <1>t, <2>1 DEF GivenUp
  <2> QED
    BY <1>a, <1>r, <2>1, <2>2, StrayKeeps
<1>2. settled' => session'.status = "cancelled"
  BY <1>a, <1>t, <1>s DEF Fresh, SameRound, Meant
<1>3. CalendarFollows'
  BY <1>1, <1>2, <1>s DEF CalendarFollows
<1>5. settled' \in BOOLEAN /\ strayed' \in BOOLEAN
  BY <1>a, <1>t
<1> HIDE DEF AtRest
<1> QED
  BY <1>a, <1>t, <1>k, <1>s, <1>u, <1>r, <1>3, <1>5, AtRestType, GoogleKeeps

LEMMA DropKeeps ==
  ASSUME SessionsInv, NEW s \in Editors, DropRound(s)
  PROVE  SessionsInv'
<1>a. /\ editor[s].step = "drop" /\ Rests(s)
      /\ session' = [NoSession EXCEPT !.status = "removed"]
      /\ tokens' = [p \in Guests |-> Unlinked] /\ marked' = {}
      /\ strayed' = (strayed \/ session.event # editor[s].seen.event)
      /\ UNCHANGED <<calendar, edits, settled, renewed>>
  BY DEF DropRound
<1>t. /\ strayed \in BOOLEAN /\ GivenUp(s) /\ SessionsTypeOK
      /\ \A f \in 1..MaxEvents : calendar[f].live => calendar[f].at # NoTime
  BY <1>a, Busied DEF SessionsInv, SessionsTypeOK, Events
<1>s. session' \in Session /\ session'.status = "removed" /\ session'.event = 0
  BY <1>a, AtRestType DEF Session, NoSession
<1>k. CalendarKeeps
  BY <1>a, <1>t, SameCalendar
<1>r. /\ editor' \in [Editors -> Editor] /\ editor'[s] = AtRest
      /\ \A t \in Editors \ {s} : editor'[t] = editor[t]
      /\ OneAlone' /\ (\A t \in Editors : Fresh(t) /\ Meant(t) /\ GivenUp(t))'
  BY <1>a, <1>k, RestKeeps
<1>1. SessionsTypeOK'
  BY <1>a, <1>t, <1>s, <1>r, Bounds DEF SessionsTypeOK
<1>2. Untouched' /\ Told' /\ Linked'
  BY <1>a, <1>s, <1>r, AtRestType DEF SessionsInv, Untouched, Told, Linked
<1>3. Events'
  BY <1>a, <1>t, <1>s DEF Events, Used
<1>4. CalendarFollows'
  <2>1. ~strayed' => ~strayed /\ session.event = editor[s].seen.event
    BY <1>a
  <2>2. ~strayed' => session.event = 0 \/ ~calendar'[session.event].live
    BY <1>a, <1>t, <2>1 DEF GivenUp
  <2>3. ~strayed' => \A f \in 1..MaxEvents :
          calendar'[f].live => f = session'.event \/ \E t \in Busy' : editor'[t].event = f
    BY <1>a, <1>r, <2>1, <2>2, StrayKeeps
  <2> QED
    BY <2>3, <1>s DEF CalendarFollows
<1> QED
  BY <1>r, <1>1, <1>2, <1>3, <1>4 DEF SessionsInv

LEMMA MarkKeeps ==
  ASSUME SessionsInv, NEW p \in Guests, SubmitByToken(p)
  PROVE  SessionsInv'
<1>a. /\ marked' = marked \cup {p} /\ tokens[p] # Unlinked
      /\ UNCHANGED <<session, tokens, calendar, editor, edits, settled, renewed, strayed>>
  BY DEF SubmitByToken
<1>1. (SessionsTypeOK /\ Untouched /\ Told /\ Events /\ OneAlone)'
  BY <1>a DEF SessionsInv, SessionsTypeOK, Untouched, Told, Events, OneAlone, Alone, Used
<1>2. Linked'
  BY <1>a DEF SessionsInv, Linked
<1>3. (\A s \in Editors : Fresh(s) /\ Meant(s) /\ GivenUp(s))'
  BY <1>a DEF SessionsInv, Fresh, Alone, Meant, GivenUp, Used, SameRound, EventOf
<1>4. CalendarFollows'
  BY <1>a DEF SessionsInv, CalendarFollows, Busy, EventOf
<1> QED
  BY <1>1, <1>2, <1>3, <1>4 DEF SessionsInv

LEMMA StopKeeps ==
  ASSUME SessionsInv, RestartSessions
  PROVE  SessionsInv'
<1>a. /\ editor' = [s \in Editors |-> AtRest]
      /\ strayed' = (strayed \/ \E s \in Busy : editor[s].step = "record")
      /\ renewed' = (renewed /\ \A s \in Busy : editor[s].step # "renew")
      /\ UNCHANGED <<session, tokens, marked, calendar, edits, settled>>
  BY DEF RestartSessions
<1>t. SessionsTypeOK
  BY DEF SessionsInv
<1>s. editor' \in [Editors -> Editor] /\ \A s \in Editors : editor'[s] = AtRest
  BY <1>a, AtRestType
<1>1. SessionsTypeOK'
  <2>1. strayed' \in BOOLEAN /\ renewed' \in BOOLEAN
    BY <1>a
  <2> QED
    BY <1>a, <1>t, <1>s, <2>1 DEF SessionsTypeOK
<1>2. (Untouched /\ Told /\ OneAlone)'
  BY <1>a, <1>s, AtRestType DEF SessionsInv, Untouched, Told, OneAlone, Alone
<1>3. (Events /\ Linked)'
  BY <1>a DEF SessionsInv, Events, Linked, Used
<1>4. (\A s \in Editors : Fresh(s) /\ Meant(s) /\ GivenUp(s))'
  BY <1>s, AtRestType DEF Fresh, Alone, Meant, GivenUp, Used
<1>5. CalendarFollows'
  <2>1. ASSUME ~strayed', NEW e \in 1..MaxEvents, calendar[e].live
        PROVE  e = session.event
    <3>1. ~strayed /\ \A s \in Busy : editor[s].step # "record"
      BY <1>a, <2>1
    <3>2. \A s \in Busy : editor[s].event = 0
      BY <3>1 DEF SessionsInv, Meant, Busy
    <3> QED
      BY <2>1, <3>1, <3>2, Bounds DEF SessionsInv, CalendarFollows
  <2> QED
    BY <1>a, <2>1 DEF SessionsInv, CalendarFollows, EventOf
<1> QED
  BY <1>1, <1>2, <1>3, <1>4, <1>5 DEF SessionsInv

LEMMA SessionsAtInit ==
  ASSUME SessionsInit
  PROVE  SessionsInv
<1>a. /\ session = NoSession
      /\ tokens = [p \in Guests |-> Unlinked] /\ marked = {}
      /\ calendar = [e \in 1..MaxEvents |-> NoEvent]
      /\ editor = [s \in Editors |-> AtRest] /\ edits = 0
      /\ settled = FALSE /\ renewed = TRUE /\ strayed = FALSE
  BY DEF SessionsInit
<1>s. editor \in [Editors -> Editor] /\ \A s \in Editors : editor[s] = AtRest
  BY <1>a, AtRestType
<1>e. NoEvent \in Event /\ ~NoEvent.live
  BY Bounds DEF NoEvent, Event
<1>1. SessionsTypeOK
  <2>1. session \in Session /\ tokens \in [Guests -> Unlinked..Slots] /\ marked \subseteq Guests
    BY <1>a, AtRestType, Bounds
  <2>2. calendar \in [1..MaxEvents -> Event] /\ edits \in 0..MaxEdits
    BY <1>a, <1>e, Bounds
  <2>3. {settled, renewed, strayed} \subseteq BOOLEAN
    BY <1>a
  <2> QED
    BY <1>s, <2>1, <2>2, <2>3 DEF SessionsTypeOK
<1>2. Untouched /\ Told /\ OneAlone
  BY <1>a, <1>s, AtRestType DEF Untouched, Told, OneAlone, Alone
<1>3. Events /\ Linked
  BY <1>a, <1>e, AtRestType DEF Events, Linked, Used
<1>4. \A s \in Editors : Fresh(s) /\ Meant(s) /\ GivenUp(s)
  BY <1>s, AtRestType DEF Fresh, Alone, Meant, GivenUp, Used
<1>5. CalendarFollows
  BY <1>a, <1>e DEF CalendarFollows
<1> QED
  BY <1>1, <1>2, <1>3, <1>4, <1>5 DEF SessionsInv

(* For any guests, times, events and requests at once: Google's event and the    *)
(* marking links follow the round, whatever fails, goes unanswered or is stopped *)
(* between two calls (interview.service, calendar.service).                      *)
THEOREM InvitationsTheorem == SessionsSpec => [](SessionsTypeOK /\ InvitationsFollow)
<1>1. SessionsInit => SessionsInv
  BY SessionsAtInit
<1>2. SessionsInv /\ [SessionsNext]_cvars => SessionsInv'
  <2> SUFFICES ASSUME SessionsInv, [SessionsNext]_cvars
               PROVE  SessionsInv'
    OBVIOUS
  <2>1. ASSUME NEW s \in Editors, \/ Schedule(s) \/ Update(s) \/ Reschedule(s) \/ AddGuests(s)
                                  \/ ResendEvalToken(s) \/ RemoveRound(s)
        PROVE  SessionsInv'
    BY <2>1, ScheduleKeeps, AskKeeps
  <2>2. ASSUME NEW s \in Editors, SaveUpdate(s) \/ SaveReschedule(s) \/ SeatGuests(s)
        PROVE  SessionsInv'
    BY <2>2, SaveUpdateKeeps, MoveKeeps
  <2>3. ASSUME NEW s \in Editors, Renew(s) \/ Relink(s) \/ CommitResend(s) \/ RowGone(s)
        PROVE  SessionsInv'
    BY <2>3, RenewKeeps, RelinkKeeps, ResendKeeps, GoneKeeps
  <2>4. ASSUME NEW s \in Editors, Sync(s) \/ CreateEvent(s) \/ RecordEvent(s) \/ UpdateEvent(s)
        PROVE  SessionsInv'
    BY <2>4, SyncKeeps, CreateKeeps, RecordKeeps, UpdateEventKeeps
  <2>5. ASSUME NEW s \in Editors, Cancel(s) \/ Delete(s) \/ ForgetEvent(s) \/ DropRound(s)
        PROVE  SessionsInv'
    BY <2>5, CancelKeeps, ForgetKeeps, DropKeeps
  <2>6. ASSUME NEW p \in Guests, SubmitByToken(p)
        PROVE  SessionsInv'
    BY <2>6, MarkKeeps
  <2>7. CASE RestartSessions
    BY <2>7, StopKeeps
  <2>8. CASE UNCHANGED cvars
    <3>0. UNCHANGED <<session, tokens, marked, calendar, editor, edits, settled, renewed, strayed>>
      BY <2>8 DEF cvars
    <3>1. (SessionsTypeOK /\ Untouched /\ Told /\ Events /\ OneAlone /\ Linked)'
      BY <3>0 DEF SessionsInv, SessionsTypeOK, Untouched, Told, Events, OneAlone, Alone, Used, Linked
    <3>2. (\A s \in Editors : Fresh(s) /\ Meant(s) /\ GivenUp(s))'
      BY <3>0 DEF SessionsInv, Fresh, Alone, Meant, GivenUp, Used, SameRound, EventOf
    <3>3. CalendarFollows'
      BY <3>0 DEF SessionsInv, CalendarFollows, Busy, EventOf
    <3> QED
      BY <3>1, <3>2, <3>3 DEF SessionsInv
  <2> QED
    BY <2>1, <2>2, <2>3, <2>4, <2>5, <2>6, <2>7, <2>8 DEF SessionsNext
<1>3. SessionsInv => SessionsTypeOK /\ InvitationsFollow
  <2>1. SessionsInv => LinksOutlive
    BY DEF SessionsInv, SessionsTypeOK, Session, Linked, LinksOutlive
  <2> QED
    BY <2>1 DEF SessionsInv, InvitationsFollow
<1> QED
  BY <1>1, <1>2, <1>3, PTL DEF SessionsSpec

-----------------------------------------------------------------------------
(* What several hires have in common *)

(* A finding that is submitted says what it proposes, and nobody typed it. *)
Submitted(c, n) ==
  c.status = "submitted" => c.proposed \in {"cleared", "rejected"} /\ ~c.byHand /\ n = 0

(* What stands without being typed by hand was decided, once. *)
Decided(c, n) ==
  /\ n <= 1
  /\ c.status \in {"cleared", "rejected"} /\ ~c.byHand => n = 1 /\ c.signed /\ c.proposed # None

FindingsRuled ==
  \A h \in Hires :
    /\ checkup[h].status = "submitted" => checkup[h].proposed \in {"cleared", "rejected"}
    /\ undisturbed => Submitted(checkup[h], rulings[h]) /\ Decided(checkup[h], rulings[h])

(* The request a letter that reached somebody was written for has been heard. *)
LetterHeard(k) ==
  desk[k].at = "record" /\ desk[k].told # {} =>
    \A h \in desk[k].on : desk[k].read[h].asked <= heard[h]

RequestsWait ==
  undisturbed => \A h \in Hires : test[h].asked > heard[h] => test[h].pending

(* A batch of decisions has one finding in hand, with what it proposes; those it has
   done with are no longer as they were when it came to them. *)
Deciding(k) == desk[k].at \in {"look", "write", "notify"}

AsItWas(k, h) == checkup[h].status = "submitted" /\ checkup[h].made = desk[k].made[h]

BatchHolds(k) ==
  /\ \A h, g \in desk[k].on : h = g
  /\ desk[k].at = "write" => desk[k].proposed \in {"cleared", "rejected"}
  /\ Deciding(k) => \A h \in desk[k].given :
       /\ desk[k].made[h] <= checkup[h].made
       /\ AsItWas(k, h) => h \in desk[k].todo \cup desk[k].on
  /\ desk[k].at \in {"look", "notify"} => desk[k].on = {}

DeskInv ==
  /\ DeskTypeOK
  /\ FindingsRuled
  /\ RequestsWait
  /\ \A k \in Desks : LetterHeard(k) /\ BatchHolds(k)
  /\ skippedOver = {}


-----------------------------------------------------------------------------
(* Values *)

LEMMA FreeType ==
  /\ Free \in Desk /\ Unasked \in Test
  /\ Free.at = None /\ Free.todo = {} /\ Free.on = {} /\ Free.given = {}
  /\ Free.told = {}
BY DEF Free, Desk, Unasked, Test, None

LEMMA DemandType ==
  ASSUME DeskTypeOK, NEW kind \in Wanted, Demand(kind)
  PROVE  demands' \in [Wanted -> Nat]
BY DEF DeskTypeOK, Demand, Wanted

(* One hire's papers, and one row of them. *)
Slip == [key : Keys, status : {"pending", "verified", "rejected"}]

LEMMA PileType ==
  ASSUME DeskTypeOK, NEW h \in Hires
  PROVE  /\ pile[h].rows \in Seq(Slip)
         /\ pile[h].waived \in SUBSET {"docsSkipped", "verificationSkipped", "facilitiesReviewed", "archived"}
         /\ pile[h].chased \in SUBSET Keys
         /\ pile[h] \in Piles
<1>1. pile[h] \in Piles
  BY DEF DeskTypeOK
<1> QED
  BY <1>1 DEF Piles, Slip

LEMMA PilesOf ==
  ASSUME NEW rows \in Seq(Slip),
         NEW waived \in SUBSET {"docsSkipped", "verificationSkipped", "facilitiesReviewed", "archived"},
         NEW chased \in SUBSET Keys,
         NEW old \in Piles
  PROVE  /\ [old EXCEPT !.rows = rows] \in Piles
         /\ [old EXCEPT !.waived = waived] \in Piles
         /\ [old EXCEPT !.chased = chased] \in Piles
BY DEF Piles, Slip

LEMMA PapersType ==
  ASSUME DeskTypeOK, Submit \/ Inspect \/ Stamp \/ ChasePendingDocs
  PROVE  DeskTypeOK'
<1>1. demands' \in [Wanted -> Nat]
  BY DemandType DEF Wanted, Submit, Inspect, Stamp, ChasePendingDocs
<1>2. pile' \in [Hires -> Piles]
  <2>1. CASE Submit
    <3>1. PICK h \in Hires, k \in Keys :
            pile' = [pile EXCEPT ![h].rows = Append(@, [key |-> k, status |-> "pending"])]
      BY <2>1 DEF Submit
    <3> DEFINE more == Append(pile[h].rows, [key |-> k, status |-> "pending"])
    <3>2. more \in Seq(Slip)
      BY PileType, AppendProperties DEF Slip
    <3>4. pile' = [pile EXCEPT ![h] = [pile[h] EXCEPT !.rows = more]]
      BY <3>1 DEF DeskTypeOK
    <3> HIDE DEF more
    <3>5. [pile[h] EXCEPT !.rows = more] \in Piles
      BY <3>2, PileType, PilesOf
    <3> QED
      BY <3>4, <3>5 DEF DeskTypeOK
  <2>2. CASE Inspect
    <3>0. PICK h \in Hires : \E i \in DOMAIN pile[h].rows, s \in {"verified", "rejected"} :
            pile' = [pile EXCEPT ![h].rows[i].status = s]
      BY <2>2 DEF Inspect
    <3>1. PICK i \in DOMAIN pile[h].rows, s \in {"verified", "rejected"} :
            pile' = [pile EXCEPT ![h].rows[i].status = s]
      BY <3>0
    <3> DEFINE looked == [pile[h].rows[i] EXCEPT !.status = s]
               more == [pile[h].rows EXCEPT ![i] = looked]
    <3>2. pile[h].rows[i] \in Slip
      BY PileType
    <3>3. looked \in Slip
      BY <3>2 DEF Slip
    <3> HIDE DEF looked
    <3>4. more \in Seq(Slip)
      BY <3>3, PileType
    <3>5. pile' = [pile EXCEPT ![h] = [pile[h] EXCEPT !.rows = more]]
      BY <3>1 DEF DeskTypeOK, looked
    <3> HIDE DEF more
    <3>7. [pile[h] EXCEPT !.rows = more] \in Piles
      BY <3>4, PileType, PilesOf
    <3> QED
      BY <3>5, <3>7 DEF DeskTypeOK
  <2>3. CASE Stamp
    <3>1. PICK h \in Hires, w \in {"docsSkipped", "verificationSkipped", "facilitiesReviewed", "archived"} :
            pile' = [pile EXCEPT ![h].waived = @ \cup {w}]
      BY <2>3 DEF Stamp
    <3> DEFINE more == pile[h].waived \cup {w}
    <3>2. more \in SUBSET {"docsSkipped", "verificationSkipped", "facilitiesReviewed", "archived"}
      BY PileType
    <3>4. pile' = [pile EXCEPT ![h] = [pile[h] EXCEPT !.waived = more]]
      BY <3>1 DEF DeskTypeOK
    <3> HIDE DEF more
    <3>5. [pile[h] EXCEPT !.waived = more] \in Piles
      BY <3>2, PileType, PilesOf
    <3> QED
      BY <3>4, <3>5 DEF DeskTypeOK
  <2>4. CASE ChasePendingDocs
    <3>1. PICK h \in Hires : pile' = [pile EXCEPT ![h].chased = Chased(h)]
      BY <2>4 DEF ChasePendingDocs
    <3>2. Chased(h) \in SUBSET Keys
      <4>1. \A i \in DOMAIN pile[h].rows : pile[h].rows[i] \in Slip
        BY PileType
      <4> QED
        BY <4>1 DEF Chased, Outstanding, SentBack, Slips, Slip
    <3>4. pile' = [pile EXCEPT ![h] = [pile[h] EXCEPT !.chased = Chased(h)]]
      BY <3>1 DEF DeskTypeOK
    <3>5. [pile[h] EXCEPT !.chased = Chased(h)] \in Piles
      BY <3>2, PileType, PilesOf
    <3> QED
      BY <3>4, <3>5 DEF DeskTypeOK
  <2> QED
    BY <2>1, <2>2, <2>3, <2>4
<1> QED
  BY <1>1, <1>2 DEF DeskTypeOK, Submit, Inspect, Stamp, ChasePendingDocs

(* Papers are nothing the lists of tests and findings know of. *)
LEMMA PapersStep ==
  ASSUME DeskInv, Submit \/ Inspect \/ Stamp \/ ChasePendingDocs
  PROVE  DeskInv'
<1>1. DeskTypeOK'
  BY PapersType DEF DeskInv
<1>2. UNCHANGED <<test, checkup, desk, heard, rulings, skippedOver, undisturbed>>
  BY DEF Submit, Inspect, Stamp, ChasePendingDocs
<1> QED
  BY <1>1, <1>2 DEF DeskInv, FindingsRuled, RequestsWait, LetterHeard, BatchHolds, Deciding, AsItWas,
                    Submitted, Decided

-----------------------------------------------------------------------------
(* Requests and letters *)

LEMMA DeskFields ==
  ASSUME DeskTypeOK, NEW k \in Desks
  PROVE  /\ desk[k] \in Desk
         /\ desk[k].todo \in SUBSET Hires /\ desk[k].on \in SUBSET Hires /\ desk[k].given \in SUBSET Hires
         /\ desk[k].read \in [Hires -> Test]
         /\ desk[k].made \in [Hires -> Nat]
         /\ desk[k].told \in SUBSET {"team", "candidate"}
         /\ desk[k].band \in Bands \cup {None}
BY DEF DeskTypeOK, Desk

(* What a batch that moves must keep, and the others keep anyhow. *)
LEMMA OneMoves ==
  ASSUME DeskInv, NEW k \in Desks, \A j \in Desks \ {k} : desk'[j] = desk[j], DeskTypeOK',
         (LetterHeard(k) /\ BatchHolds(k))',
         \A h \in Hires : heard[h] <= heard'[h] /\ checkup[h].made <= checkup'[h].made,
         \A h \in Hires : checkup'[h].status = "submitted" =>
            \/ checkup[h].status = "submitted" /\ checkup'[h].made = checkup[h].made
            \/ checkup'[h].made > checkup[h].made
  PROVE  \A j \in Desks : (LetterHeard(j) /\ BatchHolds(j))'
<1> SUFFICES ASSUME NEW j \in Desks, j # k
             PROVE  LetterHeard(j)' /\ BatchHolds(j)'
  OBVIOUS
<1>1. desk'[j] = desk[j]
  OBVIOUS
<1>2. LetterHeard(j) /\ BatchHolds(j) /\ DeskTypeOK
  BY DEF DeskInv
<1>3. heard \in [Hires -> Nat] /\ heard' \in [Hires -> Nat]
  BY DEF DeskInv, DeskTypeOK
<1>4. \A h \in Hires : checkup[h].made \in Nat /\ checkup'[h].made \in Nat
  BY DEF DeskInv, DeskTypeOK, Checkup
<1>5. \A h \in Hires : desk[j].read[h].asked \in Nat /\ desk[j].made[h] \in Nat
  BY DeskFields DEF DeskInv, Test
<1>6. LetterHeard(j)'
  <2> SUFFICES ASSUME desk[j].at = "record", desk[j].told # {}, NEW h \in desk[j].on
               PROVE  desk[j].read[h].asked <= heard'[h]
    BY <1>1 DEF LetterHeard
  <2>1. h \in Hires
    BY DeskFields DEF DeskInv
  <2>2. desk[j].read[h].asked <= heard[h]
    BY <1>2 DEF LetterHeard
  <2> QED
    BY <2>1, <2>2, <1>3, <1>5
<1>7. BatchHolds(j)'
  <2>1. Deciding(j)' => \A h \in desk[j].given :
          /\ desk[j].made[h] <= checkup'[h].made
          /\ AsItWas(j, h)' => h \in desk[j].todo \cup desk[j].on
    <3> SUFFICES ASSUME Deciding(j), NEW h \in desk[j].given
                 PROVE  /\ desk[j].made[h] <= checkup'[h].made
                        /\ AsItWas(j, h)' => h \in desk[j].todo \cup desk[j].on
      BY <1>1 DEF Deciding
    <3>1. h \in Hires
      BY DeskFields DEF DeskInv
    <3>2. desk[j].made[h] <= checkup[h].made /\ (AsItWas(j, h) => h \in desk[j].todo \cup desk[j].on)
      BY <1>2 DEF BatchHolds
    <3>3. desk[j].made[h] <= checkup'[h].made
      BY <3>1, <3>2, <1>4, <1>5
    <3>4. AsItWas(j, h)' => AsItWas(j, h)
      BY <3>1, <3>2, <1>1, <1>4, <1>5 DEF AsItWas
    <3> QED
      BY <3>2, <3>3, <3>4
  <2> QED
    BY <2>1, <1>1, <1>2 DEF BatchHolds
<1> QED
  BY <1>6, <1>7

LEMMA RequestMedicalStep ==
  ASSUME DeskInv, RequestMedical
  PROVE  DeskInv'
<1>1. PICK h \in Hires, b \in Bands :
        test' = [test EXCEPT ![h] = [test[h] EXCEPT !.asked = @ + 1, !.pending = TRUE, !.band = b]]
  BY DEF RequestMedical
<1>2. UNCHANGED <<checkup, pile, desk, heard, rulings, skippedOver, undisturbed>> /\ Demand("ask")
  BY DEF RequestMedical
<1> DEFINE yes == TRUE
           more == test[h].asked + 1
           w == [test[h] EXCEPT !.asked = more, !.pending = yes, !.band = b]
<1>3. test[h] \in Test
  BY DEF DeskInv, DeskTypeOK
<1>5. test' = [test EXCEPT ![h] = w]
  BY <1>1
<1>0. yes \in BOOLEAN /\ yes = TRUE /\ more \in Nat
  BY <1>3 DEF Test
<1> HIDE DEF yes, more
<1>4. w \in Test /\ w.pending = yes
  BY <1>0, <1>3 DEF Test
<1> HIDE DEF w
<1>6. test' \in [Hires -> Test] /\ test'[h].pending = TRUE
  BY <1>0, <1>4, <1>5 DEF DeskInv, DeskTypeOK
<1>7. DeskTypeOK'
  BY <1>2, <1>6, DemandType DEF DeskInv, DeskTypeOK, Wanted
<1>8. RequestsWait'
  BY <1>2, <1>5, <1>6 DEF DeskInv, DeskTypeOK, RequestsWait
<1> QED
  BY <1>2, <1>7, <1>8 DEF DeskInv, FindingsRuled, LetterHeard, BatchHolds, Deciding, AsItWas,
                          Submitted, Decided

LEMMA SendMedicalRequestsStep ==
  ASSUME DeskInv, NEW k \in Desks, SendMedicalRequests(k)
  PROVE  DeskInv'
<1>1. PICK hires \in (SUBSET Hires) \ {{}} : desk' = [desk EXCEPT ![k] =
         [Free EXCEPT !.at = "mail", !.todo = hires, !.given = hires,
                      !.read = [h \in Hires |-> IF h \in hires THEN test[h] ELSE Unasked]]]
  BY DEF SendMedicalRequests
<1>2. UNCHANGED <<test, checkup, pile, heard, rulings, skippedOver, undisturbed>> /\ Demand("letters")
  BY DEF SendMedicalRequests
<1> DEFINE read == [h \in Hires |-> IF h \in hires THEN test[h] ELSE Unasked]
           w == [Free EXCEPT !.at = "mail", !.todo = hires, !.given = hires, !.read = read]
<1>3. read \in [Hires -> Test]
  BY FreeType DEF DeskInv, DeskTypeOK
<1>4. desk' = [desk EXCEPT ![k] = w]
  BY <1>1
<1> HIDE DEF read
<1>5. w \in Desk /\ w.at = "mail" /\ w.on = {}
  BY <1>3, FreeType DEF Desk, Free
<1> HIDE DEF w
<1>6. DeskTypeOK' /\ desk'[k] = w
  BY <1>2, <1>4, <1>5, DemandType DEF DeskInv, DeskTypeOK, Wanted
<1>7. (LetterHeard(k) /\ BatchHolds(k))'
  BY <1>5, <1>6 DEF LetterHeard, BatchHolds, Deciding
<1>8. \A h \in Hires : heard[h] \in Nat /\ checkup[h].made \in Nat
  BY DEF DeskInv, DeskTypeOK, Checkup
<1>9. \A j \in Desks : (LetterHeard(j) /\ BatchHolds(j))'
  <2>1. \A j \in Desks \ {k} : desk'[j] = desk[j]
    BY <1>4 DEF DeskInv, DeskTypeOK
  <2>2. \A h \in Hires : heard[h] <= heard'[h] /\ checkup[h].made <= checkup'[h].made
    BY <1>2, <1>8
  <2> QED
    BY <1>2, <1>6, <1>7, <2>1, <2>2, OneMoves
<1> QED
  BY <1>2, <1>6, <1>9 DEF DeskInv, FindingsRuled, RequestsWait, Submitted, Decided

LEMMA DeliverMedicalLetterStep ==
  ASSUME DeskInv, NEW k \in Desks, DeliverMedicalLetter(k)
  PROVE  DeskInv'
<1>1. PICK h \in desk[k].todo, reached \in SUBSET {"team", "candidate"} :
        \E band \in (Bands \cup {desk[k].read[h].band}) \ {None} :
          /\ desk' = [desk EXCEPT ![k] =
               [desk[k] EXCEPT !.at = "record", !.todo = @ \ {h}, !.on = {h}, !.band = band, !.told = reached]]
          /\ heard' = [heard EXCEPT ![h] = IF reached = {} \/ desk[k].read[h].asked < @ THEN @
                                              ELSE desk[k].read[h].asked]
  BY DEF DeliverMedicalLetter
<1>2. PICK band \in (Bands \cup {desk[k].read[h].band}) \ {None} :
          /\ desk' = [desk EXCEPT ![k] =
               [desk[k] EXCEPT !.at = "record", !.todo = @ \ {h}, !.on = {h}, !.band = band, !.told = reached]]
          /\ heard' = [heard EXCEPT ![h] = IF reached = {} \/ desk[k].read[h].asked < @ THEN @
                                              ELSE desk[k].read[h].asked]
  BY <1>1
<1>3. UNCHANGED <<test, checkup, pile, demands, rulings, skippedOver, undisturbed>>
  BY DEF DeliverMedicalLetter
<1>4. h \in Hires /\ desk[k] \in Desk /\ desk[k].read[h] \in Test
  BY DeskFields DEF DeskInv
<1>5. band \in Bands \cup {None}
  BY <1>4 DEF Test
<1> DEFINE w == [desk[k] EXCEPT !.at = "record", !.todo = desk[k].todo \ {h}, !.on = {h}, !.band = band,
                                !.told = reached]
<1>6. desk' = [desk EXCEPT ![k] = w]
  BY <1>2
<1>7. /\ w \in Desk /\ w.at = "record" /\ w.on = {h} /\ w.told = reached /\ w.read = desk[k].read
  BY <1>4, <1>5 DEF Desk
<1> HIDE DEF w
<1>8. desk[k].read[h].asked \in Nat /\ heard \in [Hires -> Nat]
  BY <1>4 DEF Test, DeskInv, DeskTypeOK
<1>9. /\ heard' \in [Hires -> Nat]
      /\ \A g \in Hires : heard[g] <= heard'[g]
      /\ reached # {} => desk[k].read[h].asked <= heard'[h]
  BY <1>2, <1>4, <1>8
<1>10. DeskTypeOK' /\ desk'[k] = w
  BY <1>3, <1>6, <1>7, <1>9 DEF DeskInv, DeskTypeOK
<1>11. (LetterHeard(k) /\ BatchHolds(k))'
  BY <1>7, <1>9, <1>10 DEF LetterHeard, BatchHolds, Deciding
<1>12. \A g \in Hires : checkup[g].made \in Nat
  BY DEF DeskInv, DeskTypeOK, Checkup
<1>13. \A j \in Desks : (LetterHeard(j) /\ BatchHolds(j))'
  <2>1. \A j \in Desks \ {k} : desk'[j] = desk[j]
    BY <1>6 DEF DeskInv, DeskTypeOK
  <2>2. \A g \in Hires : heard[g] <= heard'[g] /\ checkup[g].made <= checkup'[g].made
    BY <1>3, <1>9, <1>12
  <2> QED
    BY <1>3, <1>10, <1>11, <2>1, <2>2, OneMoves
<1>14. \A g \in Hires : test[g].asked \in Nat
  BY DEF DeskInv, DeskTypeOK, Test
<1>15. RequestsWait'
  BY <1>3, <1>8, <1>9, <1>14 DEF DeskInv, RequestsWait
<1> QED
  BY <1>3, <1>10, <1>13, <1>15 DEF DeskInv, FindingsRuled, Submitted, Decided


LEMMA RefuseLetterStep ==
  ASSUME DeskInv, NEW k \in Desks, RefuseLetter(k)
  PROVE  DeskInv'
<1>1. PICK h \in desk[k].todo : desk' = [desk EXCEPT ![k].todo = @ \ {h}]
  BY DEF RefuseLetter
<1>2. UNCHANGED <<test, checkup, pile, demands, heard, rulings, skippedOver, undisturbed>> /\ desk[k].at = "mail"
  BY DEF RefuseLetter
<1>3. desk[k] \in Desk
  BY DeskFields DEF DeskInv
<1>4. /\ desk' \in [Desks -> Desk] /\ desk'[k].at = "mail" /\ desk'[k].on = desk[k].on
      /\ \A j \in Desks \ {k} : desk'[j] = desk[j]
  BY <1>1, <1>2, <1>3 DEF DeskInv, DeskTypeOK, Desk
<1>5. DeskTypeOK'
  BY <1>2, <1>4 DEF DeskInv, DeskTypeOK
<1>6. (LetterHeard(k) /\ BatchHolds(k))'
  BY <1>4 DEF DeskInv, LetterHeard, BatchHolds, Deciding
<1>7. \A g \in Hires : heard[g] \in Nat /\ checkup[g].made \in Nat
  BY DEF DeskInv, DeskTypeOK, Checkup
<1>8. \A j \in Desks : (LetterHeard(j) /\ BatchHolds(j))'
  BY <1>2, <1>4, <1>5, <1>6, <1>7, OneMoves
<1> QED
  BY <1>2, <1>5, <1>8 DEF DeskInv, FindingsRuled, RequestsWait, Submitted, Decided

LEMMA RecordMedicalLetterStep ==
  ASSUME DeskInv, NEW k \in Desks, RecordMedicalLetter(k)
  PROVE  DeskInv'
<1>1. PICK h \in desk[k].on :
        /\ test' = [test EXCEPT ![h] =
             [@ EXCEPT !.pending = PendingAfter(h, desk[k].told),
                       !.band = desk[k].band,
                       !.told = desk[k].read[h].told \cup desk[k].told]]
        /\ Undisturbed(test[h] = desk[k].read[h])
  BY DEF RecordMedicalLetter
<1>2. /\ UNCHANGED <<checkup, pile, demands, heard, rulings, skippedOver>> /\ desk[k].at = "record"
      /\ desk' = [desk EXCEPT ![k] = [@ EXCEPT !.at = "mail", !.on = {}, !.band = None, !.told = {}]]
  BY DEF RecordMedicalLetter
<1>3. h \in Hires /\ desk[k] \in Desk /\ desk[k].read[h] \in Test /\ test[h] \in Test
  BY DeskFields DEF DeskInv, DeskTypeOK
<1>4. /\ desk' \in [Desks -> Desk] /\ desk'[k].at = "mail" /\ desk'[k].on = {}
      /\ \A j \in Desks \ {k} : desk'[j] = desk[j]
  BY <1>2, <1>3 DEF DeskInv, DeskTypeOK, Desk
<1> DEFINE p == PendingAfter(h, desk[k].told)
           reached == desk[k].read[h].told \cup desk[k].told
           w == [test[h] EXCEPT !.pending = p, !.band = desk[k].band, !.told = reached]
<1>5. p \in BOOLEAN /\ (desk[k].told # {} => p = FALSE) /\ (desk[k].told = {} => p = test[h].pending)
  BY <1>3 DEF PendingAfter, Test
<1>6. reached \in SUBSET {"team", "candidate"}
  BY <1>3 DEF Test, Desk
<1> HIDE DEF p, reached
<1>7. w \in Test /\ w.asked = test[h].asked /\ w.pending = p
  BY <1>3, <1>5, <1>6 DEF Test, Desk
<1>8. test' = [test EXCEPT ![h] = w]
  BY <1>1 DEF p, reached
<1> HIDE DEF w
<1>9. test' \in [Hires -> Test] /\ test'[h] = w /\ \A g \in Hires \ {h} : test'[g] = test[g]
  BY <1>3, <1>7, <1>8 DEF DeskInv, DeskTypeOK
<1>10. undisturbed' = (undisturbed /\ test[h] = desk[k].read[h])
  BY <1>1 DEF Undisturbed
<1>11. DeskTypeOK'
  BY <1>2, <1>4, <1>9, <1>10 DEF DeskInv, DeskTypeOK
<1>12. (LetterHeard(k) /\ BatchHolds(k))'
  BY <1>4 DEF LetterHeard, BatchHolds, Deciding
<1>13. \A g \in Hires : heard[g] \in Nat /\ checkup[g].made \in Nat
  BY DEF DeskInv, DeskTypeOK, Checkup
<1>14. \A j \in Desks : (LetterHeard(j) /\ BatchHolds(j))'
  BY <1>2, <1>4, <1>11, <1>12, <1>13, OneMoves
<1>15. RequestsWait'
  <2> SUFFICES ASSUME undisturbed', NEW g \in Hires, test'[g].asked > heard[g]
               PROVE  test'[g].pending
    BY <1>2 DEF RequestsWait
  <2>1. undisturbed /\ test[h] = desk[k].read[h]
    BY <1>10
  <2>2. CASE g # h
    BY <2>1, <2>2, <1>9 DEF DeskInv, RequestsWait
  <2>3. CASE g = h
    <3>1. test[h].asked > heard[h]
      BY <2>3, <1>7, <1>9
    <3>2. desk[k].told = {}
      <4>1. desk[k].told # {} => test[h].asked <= heard[h]
        BY <2>1, <1>2 DEF DeskInv, LetterHeard
      <4>2. test[h].asked \in Nat /\ heard[h] \in Nat
        BY <1>3, <1>13 DEF Test
      <4> QED
        BY <4>1, <4>2, <3>1
    <3>3. test[h].pending
      BY <2>1, <3>1, <1>3 DEF DeskInv, RequestsWait
    <3>4. w.pending <=> test[h].pending
      BY <3>2, <1>5, <1>7
    <3> QED
      BY <2>3, <3>3, <3>4, <1>9
  <2> QED
    BY <2>2, <2>3
<1> QED
  BY <1>2, <1>10, <1>11, <1>14, <1>15 DEF DeskInv, FindingsRuled, Submitted, Decided

LEMMA EndBatchStep ==
  ASSUME DeskInv, NEW k \in Desks, LettersSent(k) \/ BreakOff(k) \/ RulingsMade(k)
  PROVE  DeskInv'
<1>1. /\ UNCHANGED <<test, checkup, pile, demands, heard, rulings, undisturbed>>
      /\ desk' = [desk EXCEPT ![k] = Free]
  BY DEF LettersSent, BreakOff, RulingsMade
<1>2. /\ desk' \in [Desks -> Desk] /\ desk'[k] = Free
      /\ \A j \in Desks \ {k} : desk'[j] = desk[j]
  BY <1>1, FreeType DEF DeskInv, DeskTypeOK
<1>3. DeskTypeOK'
  BY <1>1, <1>2 DEF DeskInv, DeskTypeOK
<1>4. (LetterHeard(k) /\ BatchHolds(k))'
  BY <1>2, FreeType DEF LetterHeard, BatchHolds, Deciding, None
<1>5. \A h \in Hires : heard[h] \in Nat /\ checkup[h].made \in Nat
  BY DEF DeskInv, DeskTypeOK, Checkup
<1>6. \A j \in Desks : (LetterHeard(j) /\ BatchHolds(j))'
  BY <1>1, <1>2, <1>3, <1>4, <1>5, OneMoves
<1>7. skippedOver' = {}
  <2>1. CASE RulingsMade(k)
    <3>1. desk[k].at = "look" /\ desk[k].todo = {}
      BY <2>1 DEF RulingsMade
    <3>2. \A h \in desk[k].given : ~(checkup[h].status = "submitted" /\ checkup[h].made = desk[k].made[h])
      BY <3>1 DEF DeskInv, BatchHolds, Deciding, AsItWas
    <3> QED
      BY <2>1, <3>2 DEF DeskInv, RulingsMade
  <2> QED
    BY <2>1 DEF DeskInv, LettersSent, BreakOff
<1> QED
  BY <1>1, <1>3, <1>6, <1>7 DEF DeskInv, FindingsRuled, RequestsWait, Submitted, Decided

-----------------------------------------------------------------------------
(* Findings and rulings *)

LEMMA RecordFindingStep ==
  ASSUME DeskInv, RecordFinding
  PROVE  DeskInv'
<1>1. PICK h \in Hires, finding \in {"pending", "cleared", "rejected"}, byHand \in BOOLEAN :
        /\ checkup' = [checkup EXCEPT ![h] =
             [status |-> IF finding # "pending" /\ ~byHand THEN "submitted" ELSE finding,
              proposed |-> IF finding # "pending" /\ ~byHand THEN finding ELSE None,
              made |-> checkup[h].made + 1, byHand |-> byHand /\ finding # "pending",
              signed |-> FALSE]]
        /\ rulings' = [rulings EXCEPT ![h] = 0]
  BY DEF RecordFinding
<1>2. UNCHANGED <<test, pile, desk, heard, skippedOver, undisturbed>> /\ Demand("finding")
  BY DEF RecordFinding
<1>3. checkup[h] \in Checkup /\ checkup[h].made \in Nat
  BY DEF DeskInv, DeskTypeOK, Checkup
<1> DEFINE w == [status |-> IF finding # "pending" /\ ~byHand THEN "submitted" ELSE finding,
                 proposed |-> IF finding # "pending" /\ ~byHand THEN finding ELSE None,
                 made |-> checkup[h].made + 1, byHand |-> byHand /\ finding # "pending",
                 signed |-> FALSE]
<1>4. w \in Checkup /\ w.made = checkup[h].made + 1 /\ Submitted(w, 0) /\ Decided(w, 0)
  BY <1>3 DEF Checkup, Submitted, Decided, None
<1>5. checkup' = [checkup EXCEPT ![h] = w]
  BY <1>1
<1> HIDE DEF w
<1>6. /\ checkup' \in [Hires -> Checkup] /\ checkup'[h] = w
      /\ \A g \in Hires \ {h} : checkup'[g] = checkup[g]
  BY <1>4, <1>5 DEF DeskInv, DeskTypeOK
<1>7. /\ rulings' \in [Hires -> Nat] /\ rulings'[h] = 0
      /\ \A g \in Hires \ {h} : rulings'[g] = rulings[g]
  BY <1>1 DEF DeskInv, DeskTypeOK
<1>8. DeskTypeOK'
  BY <1>2, <1>6, <1>7, DemandType DEF DeskInv, DeskTypeOK, Wanted
<1>9. FindingsRuled'
  <2>1. \A g \in Hires : /\ checkup'[g].status = "submitted" => checkup'[g].proposed \in {"cleared", "rejected"}
                         /\ undisturbed => Submitted(checkup'[g], rulings'[g]) /\ Decided(checkup'[g], rulings'[g])
    BY <1>2, <1>4, <1>6, <1>7 DEF DeskInv, FindingsRuled, Submitted
  <2> QED
    BY <2>1, <1>2 DEF FindingsRuled
<1>10. ASSUME NEW j \in Desks
       PROVE  (LetterHeard(j) /\ BatchHolds(j))'
  <2>1. desk[j] \in Desk /\ \A g \in Hires : desk[j].made[g] \in Nat /\ checkup[g].made \in Nat
    BY DeskFields DEF DeskInv, DeskTypeOK, Checkup
  <2>2. LetterHeard(j) /\ BatchHolds(j)
    BY DEF DeskInv
  <2>3. Deciding(j) => \A g \in desk[j].given :
          /\ desk[j].made[g] <= checkup'[g].made
          /\ AsItWas(j, g)' => g \in desk[j].todo \cup desk[j].on
    <3> SUFFICES ASSUME Deciding(j), NEW g \in desk[j].given
                 PROVE  /\ desk[j].made[g] <= checkup'[g].made
                        /\ AsItWas(j, g)' => g \in desk[j].todo \cup desk[j].on
      OBVIOUS
    <3>1. g \in Hires
      BY DeskFields DEF DeskInv
    <3>2. desk[j].made[g] <= checkup[g].made /\ (AsItWas(j, g) => g \in desk[j].todo \cup desk[j].on)
      BY <2>2 DEF BatchHolds
    <3>3. CASE g = h
      BY <3>1, <3>2, <3>3, <2>1, <1>2, <1>4, <1>6 DEF AsItWas
    <3>4. CASE g # h
      BY <3>1, <3>2, <3>4, <1>2, <1>6 DEF AsItWas
    <3> QED
      BY <3>3, <3>4
  <2> QED
    BY <2>2, <2>3, <1>2 DEF LetterHeard, BatchHolds, Deciding
<1> QED
  BY <1>2, <1>8, <1>9, <1>10 DEF DeskInv, RequestsWait

LEMMA DecideMedicalManyStep ==
  ASSUME DeskInv, NEW k \in Desks, DecideMedicalMany(k)
  PROVE  DeskInv'
<1>1. PICK hires \in (SUBSET MedicalApprovalQueue) \ {{}}, verdict \in {"approve", "reject", "return"} :
        desk' = [desk EXCEPT ![k] =
          [Free EXCEPT !.at = "look", !.todo = hires, !.given = hires, !.verdict = verdict,
                       !.made = [h \in Hires |-> IF h \in hires THEN checkup[h].made ELSE 0]]]
  BY DEF DecideMedicalMany
<1>2. UNCHANGED <<test, checkup, pile, heard, rulings, skippedOver, undisturbed>> /\ Demand("ruling")
  BY DEF DecideMedicalMany
<1>3. hires \subseteq Hires /\ \A h \in Hires : heard[h] \in Nat /\ checkup[h].made \in Nat
  BY DEF DeskInv, DeskTypeOK, Checkup, MedicalApprovalQueue
<1> DEFINE made == [h \in Hires |-> IF h \in hires THEN checkup[h].made ELSE 0]
           w == [Free EXCEPT !.at = "look", !.todo = hires, !.given = hires, !.verdict = verdict, !.made = made]
<1>4. made \in [Hires -> Nat] /\ \A h \in hires : made[h] = checkup[h].made
  BY <1>3
<1>5. desk' = [desk EXCEPT ![k] = w]
  BY <1>1
<1> HIDE DEF made
<1>6. w \in Desk /\ w.at = "look" /\ w.on = {} /\ w.given = hires /\ w.todo = hires /\ w.made = made
  BY <1>3, <1>4, FreeType DEF Desk, Free
<1> HIDE DEF w
<1>7. DeskTypeOK' /\ desk'[k] = w /\ \A j \in Desks \ {k} : desk'[j] = desk[j]
  BY <1>2, <1>5, <1>6, DemandType DEF DeskInv, DeskTypeOK, Wanted
<1>8. (LetterHeard(k) /\ BatchHolds(k))'
  BY <1>2, <1>3, <1>4, <1>6, <1>7 DEF LetterHeard, BatchHolds, Deciding
<1>9. \A j \in Desks : (LetterHeard(j) /\ BatchHolds(j))'
  BY <1>2, <1>3, <1>7, <1>8, OneMoves
<1> QED
  BY <1>2, <1>7, <1>9 DEF DeskInv, FindingsRuled, RequestsWait, Submitted, Decided

LEMMA LookAtFindingStep ==
  ASSUME DeskInv, NEW k \in Desks, LookAtFinding(k)
  PROVE  DeskInv'
<1>1. PICK h \in desk[k].todo :
        desk' = [desk EXCEPT ![k] =
          IF checkup[h].status = "submitted"
          THEN [desk[k] EXCEPT !.at = "write", !.todo = @ \ {h}, !.on = {h},
                               !.proposed = checkup[h].proposed,
                               !.made = [desk[k].made EXCEPT ![h] = checkup[h].made]]
          ELSE [desk[k] EXCEPT !.todo = @ \ {h}]]
  BY DEF LookAtFinding
<1>2. /\ UNCHANGED <<test, checkup, pile, demands, heard, rulings, skippedOver, undisturbed>>
      /\ desk[k].at = "look"
  BY DEF LookAtFinding
<1>3. h \in Hires /\ desk[k] \in Desk /\ \A g \in Hires : heard[g] \in Nat /\ checkup[g].made \in Nat
  BY DeskFields DEF DeskInv, DeskTypeOK, Checkup
<1>4. BatchHolds(k)
  BY DEF DeskInv
<1>5. desk'[k] \in Desk /\ (LetterHeard(k) /\ BatchHolds(k))'
  <2>1. CASE checkup[h].status = "submitted"
    <3> DEFINE made == [desk[k].made EXCEPT ![h] = checkup[h].made]
               w == [desk[k] EXCEPT !.at = "write", !.todo = desk[k].todo \ {h}, !.on = {h},
                               !.proposed = checkup[h].proposed, !.made = made]
    <3>1. made \in [Hires -> Nat] /\ made[h] = checkup[h].made /\ \A g \in Hires \ {h} : made[g] = desk[k].made[g]
      BY <1>3, DeskFields DEF DeskInv
    <3>2. desk'[k] = w
      BY <1>1, <2>1 DEF DeskInv, DeskTypeOK
    <3> HIDE DEF made
    <3>3. checkup[h].proposed \in {"cleared", "rejected"}
      BY <1>3, <2>1 DEF DeskInv, FindingsRuled
    <3>4. /\ w \in Desk /\ w.at = "write" /\ w.on = {h} /\ w.todo = desk[k].todo \ {h}
          /\ w.given = desk[k].given /\ w.made = made /\ w.proposed \in {"cleared", "rejected"}
      BY <1>3, <3>1, <3>3 DEF Desk
    <3> HIDE DEF w
    <3>5. w.given \subseteq Hires
      BY <3>4, DeskFields DEF DeskInv
    <3>6. \A g \in w.given : /\ w.made[g] <= checkup[g].made
                             /\ checkup[g].status = "submitted" /\ checkup[g].made = w.made[g]
                                  => g \in w.todo \cup w.on
      BY <1>2, <1>3, <1>4, <3>1, <3>4, <3>5 DEF BatchHolds, Deciding, AsItWas
    <3> QED
      BY <1>2, <3>2, <3>4, <3>6 DEF LetterHeard, BatchHolds, Deciding, AsItWas
  <2>2. CASE checkup[h].status # "submitted"
    <3> DEFINE w == [desk[k] EXCEPT !.todo = desk[k].todo \ {h}]
    <3>1. desk'[k] = w
      BY <1>1, <2>2 DEF DeskInv, DeskTypeOK
    <3>2. /\ w \in Desk /\ w.at = "look" /\ w.on = desk[k].on /\ w.todo = desk[k].todo \ {h}
          /\ w.given = desk[k].given /\ w.made = desk[k].made
      BY <1>2, <1>3 DEF Desk
    <3> HIDE DEF w
    <3>3. \A g \in w.given : /\ w.made[g] <= checkup[g].made
                             /\ checkup[g].status = "submitted" /\ checkup[g].made = w.made[g]
                                  => g \in w.todo \cup w.on
      BY <1>2, <1>4, <2>2, <3>2 DEF BatchHolds, Deciding, AsItWas
    <3> QED
      BY <1>2, <1>4, <3>1, <3>2, <3>3 DEF LetterHeard, BatchHolds, Deciding, AsItWas
  <2> QED
    BY <2>1, <2>2
<1>6. desk' \in [Desks -> Desk] /\ \A j \in Desks \ {k} : desk'[j] = desk[j]
  BY <1>1, <1>5 DEF DeskInv, DeskTypeOK
<1>7. DeskTypeOK'
  BY <1>2, <1>6 DEF DeskInv, DeskTypeOK
<1>8. \A j \in Desks : (LetterHeard(j) /\ BatchHolds(j))'
  BY <1>2, <1>3, <1>5, <1>6, <1>7, OneMoves
<1> QED
  BY <1>2, <1>7, <1>8 DEF DeskInv, FindingsRuled, RequestsWait, Submitted, Decided

(* What is written is one of the two findings, or none. *)
LEMMA WriteRulingStep ==
  ASSUME DeskInv, NEW k \in Desks, WriteRuling(k)
  PROVE  DeskInv'
<1>1. PICK h \in desk[k].on :
        /\ checkup' = [checkup EXCEPT ![h] =
            [@ EXCEPT !.status = CASE desk[k].verdict = "approve" -> desk[k].proposed
                                   [] desk[k].verdict = "reject" -> "rejected"
                                   [] OTHER -> "pending",
                      !.proposed = IF desk[k].verdict # "return" THEN desk[k].proposed ELSE None,
                      !.signed = desk[k].verdict # "return"]]
        /\ rulings' = [rulings EXCEPT ![h] = @ + 1]
        /\ Undisturbed(checkup[h].status = "submitted" /\ checkup[h].made = desk[k].made[h])
  BY DEF WriteRuling
<1>2. /\ UNCHANGED <<test, pile, demands, heard, skippedOver>> /\ desk[k].at = "write"
      /\ desk' = [desk EXCEPT ![k] = [@ EXCEPT !.at = "notify", !.on = {}, !.proposed = None]]
  BY DEF WriteRuling
<1>3. /\ h \in Hires /\ desk[k] \in Desk /\ checkup[h] \in Checkup
      /\ \A g \in Hires : heard[g] \in Nat /\ checkup[g].made \in Nat
  BY DeskFields DEF DeskInv, DeskTypeOK, Checkup
<1>4. BatchHolds(k) /\ desk[k].proposed \in {"cleared", "rejected"}
  BY <1>2 DEF DeskInv, BatchHolds
<1> DEFINE status == CASE desk[k].verdict = "approve" -> desk[k].proposed
                       [] desk[k].verdict = "reject" -> "rejected"
                       [] OTHER -> "pending"
           proposed == IF desk[k].verdict # "return" THEN desk[k].proposed ELSE None
           signed == desk[k].verdict # "return"
           w == [checkup[h] EXCEPT !.status = status, !.proposed = proposed, !.signed = signed]
<1>5. /\ status \in {"pending", "cleared", "rejected"} /\ proposed \in {None, "cleared", "rejected"}
      /\ signed \in BOOLEAN
      /\ status # "pending" => proposed # None /\ signed
  <2>1. desk[k].verdict \in {None, "approve", "reject", "return"}
    BY <1>3 DEF Desk
  <2>2. CASE desk[k].verdict = "approve"
    BY <2>2, <1>4 DEF None
  <2>3. CASE desk[k].verdict = "reject"
    BY <2>3, <1>4 DEF None
  <2>4. CASE desk[k].verdict \notin {"approve", "reject"}
    <3>1. status = "pending"
      BY <2>4
    <3> QED
      BY <3>1, <1>4
  <2> QED
    BY <2>2, <2>3, <2>4
<1>6. checkup' = [checkup EXCEPT ![h] = w]
  BY <1>1
<1> HIDE DEF status, proposed, signed
<1>7. /\ w \in Checkup /\ w.status = status /\ w.made = checkup[h].made /\ w.proposed = proposed
      /\ (w.signed <=> signed)
  BY <1>3, <1>5 DEF Checkup
<1> HIDE DEF w
<1>8. /\ checkup' \in [Hires -> Checkup] /\ checkup'[h] = w
      /\ \A g \in Hires \ {h} : checkup'[g] = checkup[g]
  BY <1>3, <1>6, <1>7 DEF DeskInv, DeskTypeOK
<1>9. /\ rulings' \in [Hires -> Nat] /\ rulings'[h] = rulings[h] + 1
      /\ \A g \in Hires \ {h} : rulings'[g] = rulings[g]
  BY <1>1, <1>3 DEF DeskInv, DeskTypeOK
<1>10. undisturbed' = (undisturbed /\ checkup[h].status = "submitted" /\ checkup[h].made = desk[k].made[h])
  BY <1>1 DEF Undisturbed
<1>11. /\ desk' \in [Desks -> Desk] /\ \A j \in Desks \ {k} : desk'[j] = desk[j]
       /\ desk'[k].at = "notify" /\ desk'[k].on = {} /\ desk'[k].todo = desk[k].todo
       /\ desk'[k].given = desk[k].given /\ desk'[k].made = desk[k].made
  BY <1>2, <1>3 DEF DeskInv, DeskTypeOK, Desk, None
<1>12. DeskTypeOK'
  BY <1>2, <1>8, <1>9, <1>10, <1>11 DEF DeskInv, DeskTypeOK
<1>13. FindingsRuled'
  <2>1. ASSUME NEW g \in Hires
        PROVE  /\ checkup'[g].status = "submitted" => checkup'[g].proposed \in {"cleared", "rejected"}
               /\ undisturbed' => Submitted(checkup'[g], rulings'[g]) /\ Decided(checkup'[g], rulings'[g])
    <3>1. CASE g # h
      BY <3>1, <1>8, <1>9, <1>10 DEF DeskInv, FindingsRuled
    <3>2. CASE g = h
      <4>1. checkup'[g].status # "submitted"
        BY <3>2, <1>5, <1>7, <1>8
      <4>2. undisturbed' => rulings'[g] = 1
        <5> SUFFICES ASSUME undisturbed' PROVE rulings'[h] = 1
          BY <3>2
        <5>1. undisturbed /\ checkup[h].status = "submitted"
          BY <1>10
        <5>2. Submitted(checkup[h], rulings[h])
          BY <1>3, <5>1 DEF DeskInv, FindingsRuled
        <5>3. rulings[h] = 0
          BY <5>1, <5>2 DEF Submitted
        <5> QED
          BY <5>3, <1>9
      <4>3. checkup'[g].status = status /\ checkup'[g].proposed = proposed /\ (checkup'[g].signed <=> signed)
        BY <3>2, <1>7, <1>8
      <4>4. status \in {"cleared", "rejected"} => proposed # None /\ signed
        BY <1>5
      <4>5. undisturbed' => Decided(checkup'[g], rulings'[g])
        BY <4>2, <4>3, <4>4 DEF Decided
      <4> QED
        BY <4>1, <4>5 DEF Submitted
    <3> QED
      BY <3>1, <3>2
  <2> QED
    BY <2>1 DEF FindingsRuled
<1>14. (LetterHeard(k) /\ BatchHolds(k))'
  <2>1. \A g \in desk[k].given : /\ desk[k].made[g] <= checkup'[g].made
                                 /\ AsItWas(k, g)' => g \in desk[k].todo
    <3> SUFFICES ASSUME NEW g \in desk[k].given
                 PROVE  /\ desk[k].made[g] <= checkup'[g].made
                        /\ AsItWas(k, g)' => g \in desk[k].todo
      OBVIOUS
    <3>1. g \in Hires
      BY DeskFields DEF DeskInv
    <3>2. desk[k].made[g] <= checkup[g].made /\ (AsItWas(k, g) => g \in desk[k].todo \cup desk[k].on)
      BY <1>2, <1>4 DEF BatchHolds, Deciding
    <3>3. CASE g = h
      BY <3>1, <3>2, <3>3, <1>5, <1>7, <1>8 DEF AsItWas
    <3>4. CASE g # h
      BY <3>1, <3>2, <3>4, <1>4, <1>8, <1>11 DEF AsItWas, BatchHolds
    <3> QED
      BY <3>3, <3>4
  <2> QED
    BY <2>1, <1>11 DEF LetterHeard, BatchHolds, Deciding
<1>15. \A j \in Desks : (LetterHeard(j) /\ BatchHolds(j))'
  <2>1. \A g \in Hires : heard[g] <= heard'[g] /\ checkup[g].made <= checkup'[g].made
    BY <1>2, <1>3, <1>7, <1>8
  <2>2. \A g \in Hires : checkup'[g].status = "submitted" =>
            \/ checkup[g].status = "submitted" /\ checkup'[g].made = checkup[g].made
            \/ checkup'[g].made > checkup[g].made
    BY <1>5, <1>7, <1>8
  <2> QED
    BY <2>1, <2>2, <1>11, <1>12, <1>14, OneMoves
<1> QED
  BY <1>2, <1>10, <1>12, <1>13, <1>15 DEF DeskInv, RequestsWait

LEMMA NotifyRulingStep ==
  ASSUME DeskInv, NEW k \in Desks, NotifyRuling(k)
  PROVE  DeskInv'
<1>1. /\ desk[k].at = "notify" /\ desk' = [desk EXCEPT ![k].at = "look"]
      /\ UNCHANGED <<test, checkup, pile, demands, heard, rulings, skippedOver, undisturbed>>
  BY DEF NotifyRuling
<1>2. desk[k] \in Desk
  BY DeskFields DEF DeskInv
<1>3. /\ desk' \in [Desks -> Desk] /\ \A j \in Desks \ {k} : desk'[j] = desk[j]
      /\ desk'[k].at = "look" /\ desk'[k].on = desk[k].on /\ desk'[k].todo = desk[k].todo
      /\ desk'[k].given = desk[k].given /\ desk'[k].made = desk[k].made
  BY <1>1, <1>2 DEF DeskInv, DeskTypeOK, Desk
<1>4. DeskTypeOK'
  BY <1>1, <1>3 DEF DeskInv, DeskTypeOK
<1>5. BatchHolds(k)
  BY DEF DeskInv
<1>6. (LetterHeard(k) /\ BatchHolds(k))'
  BY <1>1, <1>3, <1>5 DEF LetterHeard, BatchHolds, Deciding, AsItWas
<1>7. \A h \in Hires : heard[h] \in Nat /\ checkup[h].made \in Nat
  BY DEF DeskInv, DeskTypeOK, Checkup
<1>8. \A j \in Desks : (LetterHeard(j) /\ BatchHolds(j))'
  BY <1>1, <1>3, <1>4, <1>6, <1>7, OneMoves
<1> QED
  BY <1>1, <1>4, <1>8 DEF DeskInv, FindingsRuled, RequestsWait, Submitted, Decided

-----------------------------------------------------------------------------
(* The theorem *)

LEMMA DeskBegins == DeskInit => DeskInv
<1> SUFFICES ASSUME DeskInit PROVE DeskInv
  OBVIOUS
<1>1. checkup \in [Hires -> Checkup]
  BY DEF DeskInit, Checkup, None
<1>2. pile \in [Hires -> Piles]
  <2>1. << >> \in Seq([key : Keys, status : {"pending", "verified", "rejected"}])
    OBVIOUS
  <2> QED
    BY <2>1 DEF DeskInit, Piles
<1>3. DeskTypeOK
  BY <1>1, <1>2, FreeType, DemandsAssumption DEF DeskInit, DeskTypeOK
<1>4. FindingsRuled /\ RequestsWait
  BY DEF DeskInit, FindingsRuled, RequestsWait, Submitted, Decided, Unasked
<1>5. \A k \in Desks : LetterHeard(k) /\ BatchHolds(k)
  BY FreeType DEF DeskInit, LetterHeard, BatchHolds, Deciding, None
<1> QED
  BY <1>3, <1>4, <1>5 DEF DeskInit, DeskInv

LEMMA DeskGoesOn == DeskInv /\ [DeskNext]_dvars => DeskInv'
<1> SUFFICES ASSUME DeskInv, [DeskNext]_dvars PROVE DeskInv'
  OBVIOUS
<1>1. CASE Submit \/ Inspect \/ Stamp \/ ChasePendingDocs
  BY <1>1, PapersStep
<1>2. CASE RequestMedical
  BY <1>2, RequestMedicalStep
<1>3. CASE RecordFinding
  BY <1>3, RecordFindingStep
<1>4. ASSUME NEW k \in Desks,
             \/ SendMedicalRequests(k) \/ RefuseLetter(k) \/ DeliverMedicalLetter(k) \/ RecordMedicalLetter(k)
             \/ LettersSent(k) \/ DecideMedicalMany(k) \/ LookAtFinding(k) \/ WriteRuling(k)
             \/ NotifyRuling(k) \/ RulingsMade(k) \/ BreakOff(k)
      PROVE  DeskInv'
  BY <1>4, SendMedicalRequestsStep, RefuseLetterStep, DeliverMedicalLetterStep, RecordMedicalLetterStep,
     EndBatchStep, DecideMedicalManyStep, LookAtFindingStep, WriteRulingStep, NotifyRulingStep
<1>5. CASE UNCHANGED dvars
  BY <1>5 DEF dvars, DeskInv, DeskTypeOK, FindingsRuled, RequestsWait, LetterHeard, BatchHolds, Deciding,
              AsItWas, Submitted, Decided
<1> QED
  BY <1>1, <1>2, <1>3, <1>4, <1>5 DEF DeskNext

(* A document that is missing or refused is chased, so what is left has been verified. *)
LEMMA ChasedEnough == DeskTypeOK => ChaseSuffices
<1> SUFFICES ASSUME DeskTypeOK, NEW h \in Hires, Chased(h) = {}, \A d \in Slips(h) : d.status # "pending"
             PROVE  ~DocsBlock(h) /\ (Waived(h, "facilitiesReviewed") => Due(h))
  BY DEF ChaseSuffices
<1>1. \A d \in Slips(h) : d \in Slip
  BY PileType DEF Slips
<1>2. \A d \in Slips(h) : d.status # "rejected"
  BY <1>1 DEF Chased, SentBack
<1>3. \A d \in Slips(h) : d.status = "verified"
  BY <1>1, <1>2 DEF Slip
<1>4. Slips(h) # {}
  BY KeysAssumption DEF Chased, Outstanding
<1>5. Outstanding(h) = {}
  BY DEF Chased
<1> QED
  BY <1>3, <1>4, <1>5 DEF DocsBlock, Due

(* What the lists promise: whoever waits is on a list until heard, a finding is decided
   once, no batch of decisions leaves one behind, and a chase lists all that is in the way
   (sendMedicalRequests, decideMedicalMany, chasePendingDocs), for any number of hires,
   documents and batches at once. *)
THEOREM DeskTheorem == DeskSpec => [](DeskTypeOK /\ DeskServes)
<1>1. DeskInv => DeskTypeOK /\ DeskServes
  <2> SUFFICES ASSUME DeskInv PROVE DeskTypeOK /\ DeskServes
    OBVIOUS
  <2>1. AskedIsHeard
    BY DEF DeskInv, RequestsWait, AskedIsHeard, MedicalRequestInbox
  <2>2. RuledOnce
    BY DEF DeskInv, FindingsRuled, Decided, RuledOnce
  <2>3. NobodyLeftOut
    BY DEF DeskInv, NobodyLeftOut
  <2> QED
    BY <2>1, <2>2, <2>3, ChasedEnough DEF DeskInv, DeskServes
<1> QED
  BY <1>1, DeskBegins, DeskGoesOn, PTL DEF DeskSpec
=============================================================================
